---------------------------- MODULE MCBubbleLabels ----------------------------
(***************************************************************************)
(* Instances of BubbleLabels for TLC.                                      *)
(***************************************************************************)
EXTENDS BubbleLabels

\* Every set of bubble cells.
AllSets == SUBSET Domain

\* At most two, and at most four, bubble cells anywhere.
AtMostTwo == {{c, d} : c, d \in Domain}
AtMostFour == {S \cup T : S, T \in AtMostTwo}
===============================================================================
