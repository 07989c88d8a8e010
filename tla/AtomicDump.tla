------------------------------ MODULE AtomicDump ------------------------------
(***************************************************************************)
(* What a restart dump promises, whatever the number of ranks and files:   *)
(* a calculation that stops can be continued from the state it dumped, as  *)
(* a whole.  Where no calculation runs, or where it is still being         *)
(* restored, there is no state; the dump is a state or nothing.            *)
(***************************************************************************)
EXTENDS Naturals

CONSTANTS
    Stamp,     \* identifies a state of a calculation: <<job, step>>
    None       \* no state, and not in Stamp

VARIABLES
    now,       \* the state of the running calculation
    saved      \* the state that can be restored

vars == <<now, saved>>

Init == now \in Stamp /\ saved = None

Start == now = None /\ now' \in Stamp /\ saved' = saved

Compute == now # None /\ now' \in Stamp /\ now'[2] = now[2] + 1 /\ saved' = saved

\* The old dump is given up before the new one exists.
Withdraw == now # None /\ saved' = None /\ now' = now

Publish == now # None /\ saved = None /\ saved' = now /\ now' = now

\* The calculation ends, is aborted or is killed.
Stop == now' = None /\ saved' = saved

Resume == now = None /\ saved # None /\ now' = saved /\ saved' = saved

Next == Start \/ Compute \/ Withdraw \/ Publish \/ Stop \/ Resume

Spec == Init /\ [][Next]_vars
===============================================================================
