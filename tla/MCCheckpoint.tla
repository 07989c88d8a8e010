----------------------------- MODULE MCCheckpoint -----------------------------
(* Instances of Checkpoint for TLC. *)
EXTENDS Checkpoint

CONSTANTS r1, r2

\* A dump with every kind of file the modes allow.
AllLayouts ==
    { [mode |-> "byprocess", files |-> <<"shared", "grid", "bnd">>],
      [mode |-> "gather", files |-> <<"grid", "shared">>],
      [mode |-> "gather", files |-> <<"bnd">>],
      [mode |-> "mpi", files |-> <<"grid", "grid">>] }

OneLayout == { [mode |-> "byprocess", files |-> <<"grid", "bnd">>] }

\* The failures whose outcome the code hands to every rank.
SharedFaults ==
    { <<"time", "unlink">>, <<"time", "open">>, <<"grid", "open">>,
      <<"grid", "write">>, <<"shared", "open">>, <<"shared", "write">> }

\* A time file that is created but not, or not yet, written.
TornTime == { <<"time", "torn">> }
===============================================================================
