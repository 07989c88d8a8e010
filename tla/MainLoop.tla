------------------------------- MODULE MainLoop -------------------------------
(***************************************************************************)
(* The main program of JUPITER as its MPI ranks execute it: the checked    *)
(* set-up phases, the time loop with the radiation schedule, the decision  *)
(* to stop for a restart dump, the final output and the clean-up that      *)
(* releases the radiation program (jupiter/main.c, jupiter/radiation.c,    *)
(* for_any_rank() of jupiter/communication.c).                             *)
(*                                                                         *)
(* Every rank runs the same program on its own memory.  The ranks meet     *)
(* only in the collective calls on CommJUPITER, so a rank may be anywhere  *)
(* between two collectives while another one is still behind.  The         *)
(* numerical phases are reduced to what they can do to the control flow:   *)
(* raise prm->status, and limit the time step.                             *)
(***************************************************************************)
EXTENDS Integers, Sequences

CONSTANTS
    Rank,          \* ranks of CommJUPITER
    Root,          \* rank 0, which decides to stop for a restart dump
    Launch,        \* how it may be launched: [radiation, coupled], see launch
    DtRad,         \* dt_rad, in units of simulated time
    TEnd,          \* tend
    IcntEnd,       \* radiation_step_limit
    StepMax,       \* the loop's bound on icnt (999999999 in main.c)
    DtLimit,       \* the local limits a rank may find for the time step
    Start          \* <<icnt, time>> with which the loop may start (restart)

ASSUME RankAssumption == Root \in Rank
ASSUME LaunchAssumption == Launch \subseteq [radiation : BOOLEAN, coupled : BOOLEAN]
ASSUME TimeAssumption ==
    /\ DtRad \in Nat \ {0} /\ TEnd \in Nat /\ IcntEnd \in Nat \ {0}
    /\ StepMax \in Nat
    /\ DtLimit \subseteq Nat \ {0} /\ DtLimit # {}
    /\ Start \subseteq Nat \X Nat

VARIABLES
    launch,    \* radiation: flags: radiation == ON;
               \* coupled: npe < npe_glob, radiation processes exist
    pc,        \* where the rank is in main()
    phase,     \* number of the set-up phase being checked
    status,    \* prm->status: 1 is ON
    icnt,      \* cdo->icnt
    time,      \* cdo->time
    dt,        \* cdo->dt
    elapsed,   \* elapsed_time, static in radiation()
    running,   \* mpi->radiation_running
    log,       \* the exchanges performed, in order (a history)
    calls,     \* the collectives entered, in order, with the value given
    written,   \* output_data(1) has been called
    exitval    \* "none" until the program has decided its exit code

local == <<phase, status, icnt, time, dt, elapsed, running, log, written, exitval>>
vars  == <<launch, pc, phase, status, icnt, time, dt, elapsed, running, log, calls,
           written, exitval>>

Bit == {0, 1}
SetupPhases == 5   \* init_variables, materials, restart, heat_source, output
Ops == {"any_rank", "dt", "timer", "dump"}
Labels == {"setup", "setup_wait", "loop", "dt_wait", "radiation", "advance",
           "step_wait", "timer_wait", "dump_wait", "final", "final_wait",
           "cleanup", "done"}

Max2(a, b) == IF a > b THEN a ELSE b

-------------------------------------------------------------------------------
(***************************************************************************)
(* Collective calls.  Rank r enters the collective that follows those it   *)
(* has already entered; an Allreduce returns when every rank has entered   *)
(* it, a Bcast when the root has.                                          *)
(***************************************************************************)
Enter(r, op, value) ==
    calls' = [calls EXCEPT ![r] = Append(@, [op |-> op, value |-> value])]

\* Mutants: a reduction or a broadcast that was forgotten.
AnyRankUnreduced(r)  == status[r] = 1
MinOverUnreduced(r)  == {calls[r][Len(calls[r])].value}
FromRootUnshared(r)  == calls[r][Len(calls[r])].value

Entered(r)  == \A q \in Rank : Len(calls[q]) >= Len(calls[r])
Values(r)   == {calls[q][Len(calls[r])].value : q \in Rank}
AnyRank(r)  == 1 \in Values(r)                                \* MPI_LOR
MinOver(r)  == {v \in Values(r) : \A w \in Values(r) : v <= w}
MaxOver(r)  == {v \in Values(r) : \A w \in Values(r) : v >= w}
FromRoot(r) == calls[Root][Len(calls[r])].value

\* Mutant: an error code is stored where the flag ON is expected.
WorsenCode(r) == {status[r], -1}

\* The values prm->status may have after more work: it is never cleared.
Worsen(r) == {status[r], 1}

-------------------------------------------------------------------------------
Init ==
    /\ launch \in Launch
    /\ pc = [r \in Rank |-> "setup"]
    /\ phase = [r \in Rank |-> 1]
    /\ status = [r \in Rank |-> 0]
    /\ \E s \in Start : /\ icnt = [r \in Rank |-> s[1]]
                        /\ time = [r \in Rank |-> s[2]]
    /\ dt = [r \in Rank |-> 0]
    /\ elapsed = [r \in Rank |-> DtRad]
    /\ running = [r \in Rank |-> launch.coupled]
    /\ log = [r \in Rank |-> <<>>]
    /\ calls = [r \in Rank |-> <<>>]
    /\ written = [r \in Rank |-> FALSE]
    /\ exitval = [r \in Rank |-> "none"]

Goto(r, l) == pc' = [pc EXCEPT ![r] = l]

\* goto abort_jupiter
Abort(r) == Goto(r, "cleanup") /\ exitval' = [exitval EXCEPT ![r] = "failure"]

\* One of the five phases before the loop, followed by for_any_rank().
SetupWork(r) ==
    /\ pc[r] = "setup"
    /\ \E s \in Worsen(r) : /\ status' = [status EXCEPT ![r] = s]
                            /\ Enter(r, "any_rank", s)
    /\ Goto(r, "setup_wait")
    /\ UNCHANGED <<phase, icnt, time, dt, elapsed, running, log, written, exitval>>

SetupLeave(r) ==
    /\ pc[r] = "setup_wait"
    /\ Entered(r)
    /\ \/ AnyRank(r) /\ Abort(r) /\ UNCHANGED phase
       \/ /\ ~AnyRank(r)
          /\ Goto(r, IF phase[r] = SetupPhases THEN "loop" ELSE "setup")
          /\ phase' = [phase EXCEPT ![r] = @ + 1]
          /\ UNCHANGED exitval
    /\ UNCHANGED <<status, icnt, time, dt, elapsed, running, log, calls, written>>

InLoop(r) == time[r] <= TEnd /\ icnt[r] < StepMax

\* dt_control(): the velocities are reduced over all ranks.
StepBegin(r) ==
    /\ pc[r] = "loop"
    /\ InLoop(r)
    /\ \E d \in DtLimit : Enter(r, "dt", d)
    /\ Goto(r, "dt_wait")
    /\ UNCHANGED local

StepDt(r) ==
    /\ pc[r] = "dt_wait"
    /\ Entered(r)
    /\ \E d \in MinOver(r) : dt' = [dt EXCEPT ![r] = d]
    /\ Goto(r, "radiation")
    /\ UNCHANGED <<phase, status, icnt, time, elapsed, running, log, calls,
                   written, exitval>>

-------------------------------------------------------------------------------
(***************************************************************************)
(* radiation() and the part of communication_rad() JUPITER decides on.     *)
(***************************************************************************)
\* Mutant: the coming step is not counted.
DueAfter(r) == elapsed[r] >= DtRad

Due(r) == elapsed[r] + dt[r] >= DtRad

LastExchange(r) ==
    \/ time[r] + Max2(dt[r], DtRad) >= TEnd
    \/ icnt[r] = IcntEnd - 1

Exchange(r, iflg) ==
    log' = [log EXCEPT ![r] =
              Append(@, [iflg |-> iflg, icnt |-> icnt[r], time |-> time[r]])]

RadiationOff(r) ==
    /\ pc[r] = "radiation"
    /\ ~launch.radiation
    /\ Goto(r, "advance")
    /\ UNCHANGED <<local, calls>>

RadiationNotDue(r) ==
    /\ pc[r] = "radiation"
    /\ launch.radiation /\ ~Due(r)
    /\ elapsed' = [elapsed EXCEPT ![r] = @ + dt[r]]
    /\ Goto(r, "advance")
    /\ UNCHANGED <<phase, status, icnt, time, dt, running, log, calls, written,
                   exitval>>

\* Mutant: radiation_running is not cleared after the last exchange.
RadiationDueStillRunning(r) ==
    /\ pc[r] = "radiation"
    /\ launch.radiation /\ Due(r)
    /\ elapsed' = [elapsed EXCEPT ![r] = dt[r]]
    /\ IF running[r] THEN Exchange(r, IF LastExchange(r) THEN 1 ELSE 0)
                     ELSE UNCHANGED log
    /\ Goto(r, "advance")
    /\ UNCHANGED <<phase, status, icnt, time, dt, running, calls, written, exitval>>

RadiationDue(r) ==
    /\ pc[r] = "radiation"
    /\ launch.radiation /\ Due(r)
    /\ elapsed' = [elapsed EXCEPT ![r] = dt[r]]
    /\ LET iflg == IF LastExchange(r) THEN 1 ELSE 0 IN
         /\ IF running[r] THEN Exchange(r, iflg) ELSE UNCHANGED log
         /\ running' = [running EXCEPT ![r] = @ /\ iflg = 0]
    /\ Goto(r, "advance")
    /\ UNCHANGED <<phase, status, icnt, time, dt, calls, written, exitval>>

-------------------------------------------------------------------------------
\* The rest of the step, the new time, output_data(0) and for_any_rank().
Advance(r) ==
    /\ pc[r] = "advance"
    /\ time' = [time EXCEPT ![r] = @ + dt[r]]
    /\ icnt' = [icnt EXCEPT ![r] = @ + 1]
    /\ \E s \in Worsen(r) : /\ status' = [status EXCEPT ![r] = s]
                            /\ Enter(r, "any_rank", s)
    /\ Goto(r, "step_wait")
    /\ UNCHANGED <<phase, dt, elapsed, running, log, written, exitval>>

\* print_timer() reduces each rank's wall-clock time; 1 means that the rank's
\* own total exceeds restart_dump_time.
StepLeave(r) ==
    /\ pc[r] = "step_wait"
    /\ Entered(r)
    /\ \/ AnyRank(r) /\ Abort(r) /\ UNCHANGED calls
       \/ /\ ~AnyRank(r)
          /\ \E late \in Bit : Enter(r, "timer", late)
          /\ Goto(r, "timer_wait")
          /\ UNCHANGED exitval
    /\ UNCHANGED <<phase, status, icnt, time, dt, elapsed, running, log, written>>

\* Only rank 0 looks at the total; the Bcast hands its decision to the others.
TimerLeave(r) ==
    /\ pc[r] = "timer_wait"
    /\ Entered(r)
    /\ \E late \in MaxOver(r) : Enter(r, "dump", IF r = Root THEN late ELSE 0)
    /\ Goto(r, "dump_wait")
    /\ UNCHANGED local

DumpLeave(r) ==
    /\ pc[r] = "dump_wait"
    /\ Len(calls[Root]) >= Len(calls[r])
    /\ Goto(r, IF FromRoot(r) = 1 THEN "final" ELSE "loop")
    /\ UNCHANGED <<local, calls>>

LoopEnd(r) ==
    /\ pc[r] = "loop"
    /\ ~InLoop(r)
    /\ Goto(r, "final")
    /\ UNCHANGED <<local, calls>>

\* output_data(1): the restart data.
FinalOutput(r) ==
    /\ pc[r] = "final"
    /\ written' = [written EXCEPT ![r] = TRUE]
    /\ \E s \in Worsen(r) : /\ status' = [status EXCEPT ![r] = s]
                            /\ Enter(r, "any_rank", s)
    /\ Goto(r, "final_wait")
    /\ UNCHANGED <<phase, icnt, time, dt, elapsed, running, log, exitval>>

FinalLeave(r) ==
    /\ pc[r] = "final_wait"
    /\ Entered(r)
    /\ \/ AnyRank(r) /\ Abort(r)
       \/ /\ ~AnyRank(r)
          /\ Goto(r, "cleanup")
          /\ exitval' = [exitval EXCEPT ![r] = "success"]
    /\ UNCHANGED <<phase, status, icnt, time, dt, elapsed, running, log, calls,
                   written>>

\* set_parameters() broadcasts the configuration only if the radiation flag is set.
\* Without it the radiation processes wait in that broadcast, and answer nothing.
Answering == launch.radiation

\* Mutant: the error exit skips the release.
CleanupSilent(r) ==
    /\ pc[r] = "cleanup"
    /\ running[r] => Answering
    /\ IF running[r] /\ exitval[r] = "success" THEN Exchange(r, 1)
                                             ELSE UNCHANGED log
    /\ Goto(r, "done")
    /\ UNCHANGED <<phase, status, icnt, time, dt, elapsed, running, calls,
                   written, exitval>>

\* cleanup: releases the radiation program if that has not been done.
Cleanup(r) ==
    /\ pc[r] = "cleanup"
    /\ running[r] => Answering
    /\ IF running[r] THEN Exchange(r, 1) ELSE UNCHANGED log
    /\ Goto(r, "done")
    /\ UNCHANGED <<phase, status, icnt, time, dt, elapsed, running, calls,
                   written, exitval>>

Terminated == (\A r \in Rank : pc[r] = "done") /\ UNCHANGED vars

Step(r) ==
    /\ \/ SetupWork(r) \/ SetupLeave(r)
       \/ StepBegin(r) \/ StepDt(r)
       \/ RadiationOff(r) \/ RadiationNotDue(r) \/ RadiationDue(r)
       \/ Advance(r) \/ StepLeave(r) \/ TimerLeave(r) \/ DumpLeave(r)
       \/ LoopEnd(r) \/ FinalOutput(r) \/ FinalLeave(r) \/ Cleanup(r)
    /\ UNCHANGED launch

Next == (\E r \in Rank : Step(r)) \/ Terminated

Spec == Init /\ [][Next]_vars

\* Every rank is a process of its own that keeps running: WF per rank.
FairSpec == Spec /\ \A r \in Rank : WF_vars(Step(r))

-------------------------------------------------------------------------------
(***************************************************************************)
(* Properties.                                                             *)
(***************************************************************************)
Call == [op : Ops, value : Int]
Performed == [iflg : Bit, icnt : Int, time : Int]

\* Every variable stays in its type: the data each rank of main() keeps.
TypeOK ==
    /\ launch \in Launch
    /\ pc \in [Rank -> Labels]
    /\ phase \in [Rank -> Nat]
    /\ status \in [Rank -> Bit]
    /\ icnt \in [Rank -> Int] /\ time \in [Rank -> Int] /\ dt \in [Rank -> Int]
    /\ elapsed \in [Rank -> Int]
    /\ running \in [Rank -> BOOLEAN]
    /\ log \in [Rank -> Seq(Performed)]
    /\ calls \in [Rank -> Seq(Call)]
    /\ written \in [Rank -> BOOLEAN]
    /\ exitval \in [Rank -> {"none", "success", "failure"}]

\* Ranks that abort, break out of the loop or go on must agree about it, or the
\* k-th collective of one rank would be matched with another operation of the
\* other rank: every pair of ranks enters the same collectives in the same order.
CollectivesMatch ==
    \A q, r \in Rank :
        \A k \in 1 .. Len(calls[q]) :
            k <= Len(calls[r]) => calls[q][k].op = calls[r][k].op

\* A rank may tell its radiation master "last exchange" only once, and nothing
\* after it: the master leaves its loop on that flag and answers no more.
NothingAfterRelease ==
    \A r \in Rank :
        \A k \in 1 .. Len(log[r]) : log[r][k].iflg = 1 => k = Len(log[r])

\* Whatever path main() takes to its end (end of time, step limit, restart dump,
\* error in set-up, in the loop or in the final output), a radiation program
\* that was started has been told to stop, and one that was not is not called.
ReleasedAtExit ==
    \A r \in Rank :
        pc[r] = "done" =>
            IF launch.coupled THEN /\ log[r] # <<>>
                            /\ log[r][Len(log[r])].iflg = 1
                       ELSE log[r] = <<>>

\* The exit codes of the ranks agree, and "success" on one rank means that every
\* rank has written its restart data and none has an error pending.
VerdictAgrees ==
    \A q, r \in Rank :
        /\ (exitval[q] # "none" /\ exitval[r] # "none") => exitval[q] = exitval[r]
        /\ exitval[r] = "success" => written[q] /\ status[q] = 0

\* Simulated time does not run away from the radiation field: from one exchange
\* to the next at most dt_rad passes, or one step if a step is longer.
ExchangeNotLate ==
    [][\A r \in Rank :
          (pc[r] = "radiation" /\ log[r] # <<>> /\ log'[r] # log[r]) =>
              \/ time[r] - log[r][Len(log[r])].time <= DtRad
              \/ \E d \in DtLimit : time[r] - log[r][Len(log[r])].time = d]_vars

\* The program ends on every rank.
Finishes == <>(\A r \in Rank : pc[r] = "done")

\* The rank that is furthest ahead has the longest log; the flags in it are the
\* plan of the abstract specification and the lengths are the positions.
Ahead == CHOOSE r \in Rank : \A q \in Rank : Len(log[q]) <= Len(log[r])

Schedule == INSTANCE ExchangeSchedule
    WITH coupled <- launch.coupled,
         plan <- [k \in 1 .. Len(log[Ahead]) |-> log[Ahead][k].iflg],
         at   <- [r \in Rank |-> Len(log[r])]

\* All ranks perform one and the same sequence of exchanges.
ImplementsSchedule == Schedule!Spec
===============================================================================
