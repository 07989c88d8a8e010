------------------------------ MODULE MCMainLoop ------------------------------
(***************************************************************************)
(* Instances of MainLoop for TLC.                                          *)
(***************************************************************************)
EXTENDS MainLoop

\* A run from the beginning, and one restarted at step 2.
StartBoth == {<<0, 0>>, <<2, 3>>}

\* Processes without the flag are never configured, and JUPITER waits for them in
\* its clean-up for ever.
UnansweredLaunch == [radiation |-> FALSE, coupled |-> TRUE]

\* The radiation flag and the number of processes are set independently otherwise.
AnsweredLaunches == [radiation : BOOLEAN, coupled : BOOLEAN] \ {UnansweredLaunch}

\* A step may be shorter than dt_rad or longer.
Limits == {1, 4}
===============================================================================
