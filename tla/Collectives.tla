------------------------------ MODULE Collectives ------------------------------
(***************************************************************************)
(* The collective calls of MPI on one communicator, as far as the order    *)
(* and the outcome of control flow depend on them.                         *)
(*                                                                         *)
(* MPI pairs the collectives of the ranks by the order in which each rank  *)
(* enters them, whatever they are: the k-th call of one rank meets the     *)
(* k-th call of every other rank.  So calls[r] is the sequence of the      *)
(* calls rank r has entered, each with its operation and the value the     *)
(* rank contributed.  An Allreduce, an Allgather or a Barrier returns when *)
(* every rank has entered it, a Bcast when the root has.                   *)
(***************************************************************************)
EXTENDS Naturals, Sequences

CONSTANTS
    Rank,      \* the ranks of the communicator
    Root       \* its rank 0

ASSUME RootAssumption == Root \in Rank

VARIABLE calls

NoCalls == [r \in Rank |-> <<>>]

\* A call that every rank has left, having entered the next one, is forgotten.
Enter(r, op, value) ==
    LET longer == [calls EXCEPT ![r] = Append(@, [op |-> op, value |-> value])]
    IN  calls' = IF \A q \in Rank : Len(longer[q]) > 1
                 THEN [q \in Rank |-> Tail(longer[q])]
                 ELSE longer

\* The call rank r is in, as rank q has entered it.
Given(q, r) == calls[q][Len(calls[r])].value

Entered(r)      == \A q \in Rank : Len(calls[q]) >= Len(calls[r])
Contributed(r)  == {Given(q, r) : q \in Rank}
RootEntered(r)  == Len(calls[Root]) >= Len(calls[r])
FromRoot(r)     == Given(Root, r)

\* MPI_MAX over the values of all ranks.
Largest(r) == CHOOSE v \in Contributed(r) : \A w \in Contributed(r) : w <= v

\* No call of one rank is paired with another operation of another rank.
Matched ==
    \A q, r \in Rank :
        \A k \in 1 .. Len(calls[q]) :
            k <= Len(calls[r]) => calls[q][k].op = calls[r][k].op
===============================================================================
