------------------------------- MODULE LockStep -------------------------------
(***************************************************************************)
(* What the Picard iteration of the radiation program promises.            *)
(*                                                                         *)
(* After every iteration one rank, the leader, decides whether the field   *)
(* has converged, and every rank obeys the decision: it iterates again or  *)
(* leaves the loop.  The decision is about an iteration that all ranks     *)
(* have taken part in, so no rank can be an iteration behind when it is    *)
(* made, and all ranks obey one and the same sequence of decisions.        *)
(***************************************************************************)
EXTENDS Naturals, Sequences

CONSTANTS
    Rank,      \* the ranks of CommRADIATION
    Leader     \* the one that decides

VARIABLES
    verdicts,  \* the decisions made so far: 1 ends the iteration
    obeyed     \* obeyed[q]: how many of them rank q has obeyed

vars == <<verdicts, obeyed>>

Init == verdicts = <<>> /\ obeyed = [q \in Rank |-> 0]

Decide ==
    /\ \A q \in Rank : obeyed[q] = Len(verdicts)
    /\ \E v \in {0, 1} : verdicts' = Append(verdicts, v)
    /\ obeyed' = [obeyed EXCEPT ![Leader] = @ + 1]

Obey(q) ==
    /\ obeyed[q] < Len(verdicts)
    /\ obeyed' = [obeyed EXCEPT ![q] = @ + 1]
    /\ UNCHANGED verdicts

Next == Decide \/ \E q \in Rank : Obey(q)

Spec == Init /\ [][Next]_vars
===============================================================================
