--------------------------- MODULE ExchangeSchedule ---------------------------
(***************************************************************************)
(* What the time loop of JUPITER promises to the radiation program.        *)
(*                                                                         *)
(* Rank r of JUPITER talks only to rank r + npe of MPI_COMM_WORLD, the     *)
(* master of its subdomain in the radiation program.  The radiation ranks  *)
(* work in lockstep with one another, so the JUPITER ranks, which do not   *)
(* synchronise inside communication_rad(), must nevertheless perform one   *)
(* and the same sequence of exchanges: the plan.  Every exchange carries   *)
(* the flag iflg: 0 means "go on", 1 means "this was the last one".        *)
(***************************************************************************)
EXTENDS Naturals, Sequences

CONSTANT
    Rank       \* the ranks of CommJUPITER

VARIABLES
    coupled,   \* radiation processes were started beside JUPITER
    plan,      \* the flags decided so far
    at         \* at[r]: how many exchanges of the plan rank r has performed

vars == <<coupled, plan, at>>

Flag == {0, 1}

Ended == plan # <<>> /\ plan[Len(plan)] = 1

Init == coupled \in BOOLEAN /\ plan = <<>> /\ at = [r \in Rank |-> 0]

\* The first rank to reach an exchange decides its flag.
Lead(r) ==
    /\ coupled
    /\ at[r] = Len(plan)
    /\ ~Ended
    /\ \E f \in Flag : plan' = Append(plan, f)
    /\ at' = [at EXCEPT ![r] = @ + 1]
    /\ coupled' = coupled

\* The others repeat what was decided.
Follow(r) ==
    /\ at[r] < Len(plan)
    /\ at' = [at EXCEPT ![r] = @ + 1]
    /\ plan' = plan /\ coupled' = coupled

Next == \E r \in Rank : Lead(r) \/ Follow(r)

Spec == Init /\ [][Next]_vars
===============================================================================
