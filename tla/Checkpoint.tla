------------------------------ MODULE Checkpoint ------------------------------
(***************************************************************************)
(* The restart dump of JUPITER and the restart from it, over several jobs  *)
(* (jupiter/io_process.c: output_data(1) with binary_out_base() below it,  *)
(* restart() with binary_in() below it).                                   *)
(*                                                                         *)
(* A dump is many files.  The ranks write them together, in one of three   *)
(* modes, and the time file, which only rank 0 writes, is withdrawn before *)
(* the first and written after the last of them: its presence says that    *)
(* the dump is complete.  A job may be killed anywhere; the next one finds *)
(* what was on the disk.                                                   *)
(*                                                                         *)
(* The contents of a file are the stamp of the calculation it was written  *)
(* from, <<job, step>>, kept for every rank's region of the domain: in     *)
(* mode "byprocess" a region is a file of its own, in the unified modes it *)
(* is a part of one file.                                                  *)
(***************************************************************************)
EXTENDS Collectives, FiniteSets

CONSTANTS
    Layouts,   \* [mode, files]: output mode and kinds of the files, in order
    StepMax,   \* bound on the step number of a calculation
    JobMax,    \* bound on the number of jobs
    Faults     \* <<kind, what>>: the calls that may fail, see Fails

Modes == {"byprocess", "gather", "mpi"}

\* "grid": a field, output_binary_generic(); "loose": a field whose result is
\* dropped (fl, df and dfs with solute diffusion); "bnd": output_boundary();
\* "shared": written by rank 0 alone, output_comp_data(), output_uplsflg().
Kinds == {"grid", "loose", "bnd", "shared"}

ASSUME LayoutAssumption ==
    Layouts \subseteq [mode : Modes, files : Seq(Kinds) \ {<<>>}]
ASSUME BoundAssumption == StepMax \in Nat /\ JobMax \in Nat \ {0}

VARIABLES
    layout,    \* the layout, the same in every job
    job,       \* number of the running job
    disk,      \* disk.time: the time file; disk.part[f][r]: region r of file f
    pc,        \* where the rank is
    mem,       \* mem[r][f]: the data that belong to file f, as rank r holds them
    icnt,      \* cdo->icnt
    file,      \* number of the file at hand
    err        \* the return code r of the function at hand

rank == <<pc, mem, icnt, file, err>>
vars == <<layout, job, disk, calls, rank>>

Bit   == {0, 1}
None  == <<0, 0>>
Stamp == (1 .. JobMax) \X (0 .. StepMax)
Count == Len(layout.files)
Kind(f) == layout.files[f]
Gridded == {"grid", "loose"}

Missing  == [state |-> "missing", of |-> None]
Torn     == [state |-> "torn", of |-> None]
Whole(s) == [state |-> "whole", of |-> s]

\* The regions a file has: rank 0 alone writes the shared ones.
Regions(f) == IF Kind(f) = "shared" THEN {Root} ELSE Rank

Fails(kind, what) == <<kind, what>> \in Faults

Halted == {"ended", "aborted", "killed"}
Restarting == {"restart", "time_read", "values", "read", "read_wait",
               "resume", "resume_wait"}
Labels == Halted \cup Restarting \cup
    {"loop", "step_wait", "begin", "unlinked", "file", "named", "dims", "alloc",
     "gathered", "opened", "sized", "write", "share", "fin", "fin_wait", "time",
     "time_write", "time_wait", "barrier", "report", "report_wait"}
AllHalted == \A r \in Rank : pc[r] \in Halted

\* The collectives of the ranks, each named for the question it settles.
Ops == {"step", "unlink", "share", "name", "dims", "alloc", "gathered", "opened",
        "sized", "fin", "time", "barrier", "report", "time_read", "values",
        "read", "resume"}

-------------------------------------------------------------------------------
Goto(r, l) == pc' = [pc EXCEPT ![r] = l]
Code(r, c) == err' = [err EXCEPT ![r] = c]

\* Regions Q of file f are truncated; they hold what their owners have.
Tear(f, Q) ==
    disk' = [disk EXCEPT !.part[f] =
               [q \in Rank |-> IF q \in Q THEN Torn ELSE @[q]]]
Fill(f, Q) ==
    disk' = [disk EXCEPT !.part[f] =
               [q \in Rank |-> IF q \in Q THEN Whole(mem[q][f]) ELSE @[q]]]

Init ==
    /\ layout \in Layouts
    /\ job = 1
    /\ disk = [time |-> Missing,
               part |-> [f \in 1 .. Count |-> [r \in Rank |-> Missing]]]
    /\ pc = [r \in Rank |-> "loop"]
    /\ mem = [r \in Rank |-> [f \in 1 .. Count |-> <<1, 0>>]]
    /\ icnt = [r \in Rank |-> 0]
    /\ file = [r \in Rank |-> 1]
    /\ err = [r \in Rank |-> 0]
    /\ calls = NoCalls

-------------------------------------------------------------------------------
(***************************************************************************)
(* The time loop, as far as the dump depends on it: the ranks compute a    *)
(* step and agree whether to go on (MainLoop has its collectives one by    *)
(* one; here rank 0's decision stands for them).                           *)
(***************************************************************************)
Advance(r) ==
    /\ pc[r] = "loop"
    /\ icnt[r] < StepMax
    /\ icnt' = [icnt EXCEPT ![r] = @ + 1]
    /\ mem' = [mem EXCEPT ![r] = [f \in 1 .. Count |-> <<job, icnt[r] + 1>>]]
    /\ \E stop \in Bit : Enter(r, "step", IF r = Root THEN stop ELSE 0)
    /\ Goto(r, "step_wait")
    /\ UNCHANGED <<disk, file, err>>

StepLeave(r) ==
    /\ pc[r] = "step_wait"
    /\ Entered(r)
    /\ Goto(r, IF FromRoot(r) = 1 THEN "begin" ELSE "loop")
    /\ UNCHANGED <<disk, calls, mem, icnt, file, err>>

LoopEnd(r) ==
    /\ pc[r] = "loop"
    /\ icnt[r] = StepMax
    /\ Goto(r, "begin")
    /\ UNCHANGED <<disk, calls, mem, icnt, file, err>>

-------------------------------------------------------------------------------
(***************************************************************************)
(* binary_out_base().                                                      *)
(***************************************************************************)
\* Mutant: the old time file is left where it is.
BeginDumpKeep(r) ==
    /\ pc[r] = "begin"
    /\ Enter(r, "unlink", 0) /\ UNCHANGED disk
    /\ file' = [file EXCEPT ![r] = 1]
    /\ Code(r, 0)
    /\ Goto(r, "unlinked")
    /\ UNCHANGED <<mem, icnt>>

\* start_output_sync(): rank 0 withdraws the old time file.
BeginDump(r) ==
    /\ pc[r] = "begin"
    /\ \/ r = Root /\ Fails("time", "unlink")
          /\ Enter(r, "unlink", 1) /\ UNCHANGED disk
       \/ r = Root
          /\ Enter(r, "unlink", 0) /\ disk' = [disk EXCEPT !.time = Missing]
       \/ r # Root
          /\ Enter(r, "unlink", 0) /\ UNCHANGED disk
    /\ file' = [file EXCEPT ![r] = 1]
    /\ Code(r, 0)
    /\ Goto(r, "unlinked")
    /\ UNCHANGED <<mem, icnt>>

BeginLeave(r) ==
    /\ pc[r] = "unlinked"
    /\ RootEntered(r)
    /\ Code(r, FromRoot(r))
    /\ Goto(r, IF FromRoot(r) = 1 THEN "report" ELSE "file")
    /\ UNCHANGED <<disk, calls, mem, icnt, file>>

\* Mutant: the last file is counted once too often.
FileDonePast(r, e) ==
    LET code == IF Kind(file[r]) = "loose" THEN 0 ELSE e IN
      /\ Code(r, code)
      /\ IF code = 1 \/ file[r] > Count
         THEN Goto(r, "fin") /\ UNCHANGED file
         ELSE Goto(r, "file") /\ file' = [file EXCEPT ![r] = @ + 1]

\* Back in binary_out_base() with result e: goto fin, or the next file.  The
\* result of a loose file is not looked at.
FileDone(r, e) ==
    LET code == IF Kind(file[r]) = "loose" THEN 0 ELSE e IN
      /\ Code(r, code)
      /\ IF code = 1 \/ file[r] = Count
         THEN Goto(r, "fin") /\ UNCHANGED file
         ELSE Goto(r, "file") /\ file' = [file EXCEPT ![r] = @ + 1]

\* The result of a file is shared by an Allreduce at the end of its function.
Share(r, e) == Enter(r, "share", e) /\ Goto(r, "share") /\ UNCHANGED <<file, err>>

ShareLeave(r) ==
    /\ pc[r] = "share"
    /\ Entered(r)
    /\ FileDone(r, Largest(r))
    /\ UNCHANGED <<disk, calls, mem, icnt>>

\* Truncating the regions Q of the file at hand to write them.
Open(r, Q) ==
    /\ Tear(file[r], Q)
    /\ Goto(r, "write")
    /\ UNCHANGED <<calls, file, err>>

\* output_comp_data(), output_uplsflg(): only rank 0 has work to do.
SharedFile(r) ==
    /\ pc[r] = "file" /\ Kind(file[r]) = "shared"
    /\ \/ r = Root /\ Open(r, {r})
       \/ r = Root /\ Fails("shared", "open") /\ Share(r, 1) /\ UNCHANGED disk
       \/ r # Root /\ Share(r, 0) /\ UNCHANGED disk
    /\ UNCHANGED <<mem, icnt>>

\* output_boundary() exists for mode "byprocess" only.
BoundaryName(r) ==
    /\ pc[r] = "file" /\ Kind(file[r]) = "bnd"
    /\ \/ /\ layout.mode # "byprocess"
          /\ FileDone(r, 1) /\ UNCHANGED calls
       \/ /\ layout.mode = "byprocess"
          /\ Enter(r, "name", 0) /\ Goto(r, "named") /\ UNCHANGED <<file, err>>
    /\ UNCHANGED <<disk, mem, icnt>>

\* What goes wrong after the name is not shared with the other ranks.
BoundaryOpen(r) ==
    /\ pc[r] = "named"
    /\ Entered(r)
    /\ \/ Open(r, {r})
       \/ Fails("bnd", "open") /\ FileDone(r, 1) /\ UNCHANGED <<disk, calls>>
    /\ UNCHANGED <<mem, icnt>>

\* output_binary_generic(): the directory; a rank that cannot make it returns
\* at once.  Then the sizes of all the regions (calculate_dim()).
FieldDims(r) ==
    /\ pc[r] = "file" /\ Kind(file[r]) \in Gridded
    /\ \/ /\ Enter(r, "dims", 0) /\ Goto(r, "dims") /\ UNCHANGED <<file, err>>
       \/ /\ Fails("grid", "dir")
          /\ FileDone(r, 1) /\ UNCHANGED calls
    /\ UNCHANGED <<disk, mem, icnt>>

\* BYPROCESS: each rank has a file of its own.
OpenOwn(r) ==
    /\ pc[r] = "dims" /\ layout.mode = "byprocess"
    /\ Entered(r)
    /\ \/ Open(r, {r})
       \/ Fails("grid", "open") /\ Share(r, 1) /\ UNCHANGED disk
    /\ UNCHANGED <<mem, icnt>>

\* UNIFY_GATHER: rank 0 allocates the buffer for the whole domain.
GatherAlloc(r) ==
    /\ pc[r] = "dims" /\ layout.mode = "gather"
    /\ Entered(r)
    /\ \E c \in IF r = Root /\ Fails("grid", "alloc") THEN Bit ELSE {0} :
          Enter(r, "alloc", c)
    /\ Goto(r, "alloc")
    /\ UNCHANGED <<disk, mem, icnt, file, err>>

\* Without the buffer ("Errors already notified") every rank is left with its
\* path and r = 0, and writes its own region over the one file.
Gather(r) ==
    /\ pc[r] = "alloc"
    /\ Entered(r)
    /\ IF Largest(r) = 1
       THEN Tear(file[r], Rank) /\ Share(r, 0)
       ELSE /\ Enter(r, "gathered", 0) /\ Goto(r, "gathered")
            /\ UNCHANGED <<disk, file, err>>
    /\ UNCHANGED <<mem, icnt>>

\* The regions have been received by rank 0, the others have no path left.
Gathered(r) ==
    /\ pc[r] = "gathered"
    /\ Entered(r)
    /\ \/ r = Root /\ Open(r, Rank)
       \/ r = Root /\ Fails("grid", "open") /\ Share(r, 1) /\ UNCHANGED disk
       \/ r # Root /\ Share(r, 0) /\ UNCHANGED disk
    /\ UNCHANGED <<mem, icnt>>

\* UNIFY_MPI: for_any_rank() after each call of MPI_File.
OpenUnified(r) ==
    /\ pc[r] = "dims" /\ layout.mode = "mpi"
    /\ Entered(r)
    /\ \E c \in IF Fails("grid", "open") THEN Bit ELSE {0} :
          Enter(r, "opened", c) /\ Code(r, c)
    /\ Goto(r, "opened")
    /\ UNCHANGED <<disk, mem, icnt, file>>

SetSize(r) ==
    /\ pc[r] = "opened"
    /\ Entered(r)
    /\ IF Largest(r) = 1
       THEN Share(r, err[r]) /\ UNCHANGED disk
       ELSE /\ Tear(file[r], Rank)
            /\ Enter(r, "sized", 0) /\ Goto(r, "sized") /\ UNCHANGED <<file, err>>
    /\ UNCHANGED <<mem, icnt>>

Sized(r) ==
    /\ pc[r] = "sized"
    /\ Entered(r)
    /\ Goto(r, "write")
    /\ UNCHANGED <<disk, calls, mem, icnt, file, err>>

\* The data are written, or the write falls short and the region stays torn.
Written(r, e) ==
    IF Kind(file[r]) = "bnd" THEN FileDone(r, e) /\ UNCHANGED calls
                             ELSE Share(r, e)

\* Mutant: a write that fell short is not reported.
WriteUnchecked(r) ==
    /\ pc[r] = "write"
    /\ \/ Fill(file[r], IF layout.mode = "gather" /\ Kind(file[r]) \in Gridded
                        THEN Rank ELSE {r})
       \/ Fails(Kind(file[r]), "write") /\ UNCHANGED disk
    /\ Written(r, 0)
    /\ UNCHANGED <<mem, icnt>>

\* Mutant: the rank that failed does not take part in sharing the result.
WriteUnshared(r) ==
    /\ pc[r] = "write"
    /\ \/ /\ Fill(file[r], IF layout.mode = "gather" /\ Kind(file[r]) \in Gridded
                           THEN Rank ELSE {r})
          /\ Written(r, 0)
       \/ /\ Fails(Kind(file[r]), "write")
          /\ FileDone(r, 1)
          /\ UNCHANGED <<disk, calls>>
    /\ UNCHANGED <<mem, icnt>>

Write(r) ==
    /\ pc[r] = "write"
    /\ \/ /\ Fill(file[r], IF layout.mode = "gather" /\ Kind(file[r]) \in Gridded
                           THEN Rank ELSE {r})
          /\ Written(r, 0)
       \/ /\ Fails(Kind(file[r]), "write")
          /\ Written(r, 1)
          /\ UNCHANGED disk
    /\ UNCHANGED <<mem, icnt>>

\* fin: the ranks agree whether every file has been written.
Fin(r) ==
    /\ pc[r] = "fin"
    /\ Enter(r, "fin", err[r])
    /\ Goto(r, "fin_wait")
    /\ UNCHANGED <<disk, mem, icnt, file, err>>

FinLeave(r) ==
    /\ pc[r] = "fin_wait"
    /\ Entered(r)
    /\ Code(r, Largest(r))
    /\ Goto(r, IF Largest(r) = 1 THEN "report" ELSE "time")
    /\ UNCHANGED <<disk, calls, mem, icnt, file>>

\* output_time_file(): rank 0 creates the file, which is empty until its
\* buffer is flushed by fclose().
TimeFile(r) ==
    /\ pc[r] = "time"
    /\ \/ /\ r # Root
          /\ Enter(r, "time", 0) /\ Goto(r, "time_wait") /\ UNCHANGED disk
       \/ /\ r = Root /\ Fails("time", "open")
          /\ Enter(r, "time", 1) /\ Goto(r, "time_wait") /\ UNCHANGED disk
       \/ /\ r = Root
          /\ disk' = [disk EXCEPT !.time = Torn]
          /\ Goto(r, "time_write") /\ UNCHANGED calls
    /\ UNCHANGED <<mem, icnt, file, err>>

\* The result of fclose() is not looked at.
TimeClose(r) ==
    /\ pc[r] = "time_write"
    /\ \/ disk' = [disk EXCEPT !.time = Whole(mem[r][1])]
       \/ Fails("time", "torn") /\ UNCHANGED disk
    /\ Enter(r, "time", 0) /\ Goto(r, "time_wait")
    /\ UNCHANGED <<mem, icnt, file, err>>

TimeLeave(r) ==
    /\ pc[r] = "time_wait"
    /\ RootEntered(r)
    /\ IF FromRoot(r) = 1
       THEN Code(r, 1) /\ Goto(r, "report") /\ UNCHANGED calls
       ELSE Enter(r, "barrier", 0) /\ Goto(r, "barrier") /\ UNCHANGED err
    /\ UNCHANGED <<disk, mem, icnt, file>>

\* finish_output_sync()
BarrierLeave(r) ==
    /\ pc[r] = "barrier"
    /\ Entered(r)
    /\ Goto(r, "report")
    /\ UNCHANGED <<disk, calls, mem, icnt, file, err>>

\* output_data() sets prm->status, and main() asks for_any_rank().
Report(r) ==
    /\ pc[r] = "report"
    /\ Enter(r, "report", err[r])
    /\ Goto(r, "report_wait")
    /\ UNCHANGED <<disk, mem, icnt, file, err>>

ReportLeave(r) ==
    /\ pc[r] = "report_wait"
    /\ Entered(r)
    /\ Goto(r, IF Largest(r) = 1 THEN "aborted" ELSE "ended")
    /\ UNCHANGED <<disk, calls, mem, icnt, file, err>>

-------------------------------------------------------------------------------
(***************************************************************************)
(* restart().                                                              *)
(***************************************************************************)
GiveUp(r) == Code(r, 1) /\ Goto(r, "resume")

\* input_time_file(): the test for a number that cannot be read, rsize == 0,
\* does not see the end of the file, so the variables keep what they had.
ReadTime(r) ==
    /\ pc[r] = "restart"
    /\ LET stat == IF r = Root /\ disk.time.state = "missing" THEN 1 ELSE 0
       IN  Enter(r, "time_read", stat)
    /\ \/ r = Root /\ disk.time.state = "torn"
          /\ \E c \in 0 .. StepMax : icnt' = [icnt EXCEPT ![r] = c]
       \/ r = Root /\ disk.time.state = "whole"
          /\ icnt' = [icnt EXCEPT ![r] = disk.time.of[2]]
       \/ (r # Root \/ disk.time.state = "missing") /\ UNCHANGED icnt
    /\ Goto(r, "time_read")
    /\ UNCHANGED <<disk, mem, file, err>>

TimeStat(r) ==
    /\ pc[r] = "time_read"
    /\ RootEntered(r)
    /\ IF FromRoot(r) = 1
       THEN GiveUp(r) /\ UNCHANGED calls
       ELSE /\ Enter(r, "values", IF r = Root THEN icnt[r] ELSE 0)
            /\ Goto(r, "values") /\ UNCHANGED err
    /\ UNCHANGED <<disk, mem, icnt, file>>

TimeValues(r) ==
    /\ pc[r] = "values"
    /\ RootEntered(r)
    /\ icnt' = [icnt EXCEPT ![r] = FromRoot(r)]
    /\ Goto(r, "read")
    /\ UNCHANGED <<disk, calls, mem, file, err>>

\* 1: the file cannot be opened; 2: its contents fall short.
ReadCode(r) ==
    IF r \notin Regions(file[r]) THEN 0
    ELSE CASE disk.part[file[r]][r].state = "missing" -> 1
           [] disk.part[file[r]][r].state = "torn"    -> 2
           [] disk.part[file[r]][r].state = "whole"   -> 0

\* input_uplsflg_file(), input_boundary(), input_binary_generic(): each rank its
\* region, of a shared file rank 0 alone.
Read(r) ==
    /\ pc[r] = "read"
    /\ Enter(r, "read", ReadCode(r))
    /\ Goto(r, "read_wait")
    /\ UNCHANGED <<disk, mem, icnt, file, err>>

\* The result of a field or a boundary file is reduced over the ranks; that of a
\* shared file comes from rank 0 in a Bcast, with the contents.
ReadReturned(r) == IF Kind(file[r]) = "shared" THEN RootEntered(r) ELSE Entered(r)
ReadResult(r)   == IF Kind(file[r]) = "shared" THEN FromRoot(r) ELSE Largest(r)

\* A boundary file that is missing is no error: the boundaries are set up anew.
ReadLeave(r) ==
    /\ pc[r] = "read_wait"
    /\ ReadReturned(r)
    /\ LET f == file[r]
           lost == Kind(f) = "bnd" /\ ReadResult(r) = 1
           from == IF Kind(f) = "shared" THEN Root ELSE r
       IN IF ReadResult(r) > 0 /\ ~lost
          THEN GiveUp(r) /\ UNCHANGED <<mem, file>>
          ELSE /\ mem' = [mem EXCEPT ![r][f] =
                            IF lost THEN None ELSE disk.part[f][from].of]
               /\ IF f = Count
                  THEN Goto(r, "resume") /\ UNCHANGED file
                  ELSE Goto(r, "read") /\ file' = [file EXCEPT ![r] = @ + 1]
               /\ UNCHANGED err
    /\ UNCHANGED <<disk, calls, icnt>>

\* clean: for_any_rank(), and the one of main() after it.
Resume(r) ==
    /\ pc[r] = "resume"
    /\ Enter(r, "resume", err[r])
    /\ Goto(r, "resume_wait")
    /\ UNCHANGED <<disk, mem, icnt, file, err>>

ResumeLeave(r) ==
    /\ pc[r] = "resume_wait"
    /\ Entered(r)
    /\ Goto(r, IF Largest(r) = 1 THEN "aborted" ELSE "loop")
    /\ UNCHANGED <<disk, calls, mem, icnt, file, err>>

-------------------------------------------------------------------------------
\* What is not on the disk is lost; the program starts from the beginning.
Reset(start, j) ==
    /\ pc' = [r \in Rank |-> start]
    /\ mem' = [r \in Rank |-> [f \in 1 .. Count |-> <<j, 0>>]]
    /\ icnt' = [r \in Rank |-> 0]
    /\ file' = [r \in Rank |-> 1]
    /\ err' = [r \in Rank |-> 0]
    /\ calls' = NoCalls

\* The batch system kills the whole job at any moment; while the time file is
\* empty, only if that case is among the Faults.
Kill ==
    /\ ~AllHalted
    /\ disk.time = Torn => Fails("time", "torn")
    /\ Reset("killed", 0)
    /\ UNCHANGED <<layout, job, disk>>

\* The user submits the next job, from the beginning or as a restart.
Submit ==
    /\ AllHalted
    /\ job < JobMax
    /\ job' = job + 1
    /\ \E start \in {"loop", "restart"} : Reset(start, job + 1)
    /\ UNCHANGED <<layout, disk>>

Step(r) ==
    /\ \/ Advance(r) \/ StepLeave(r) \/ LoopEnd(r)
       \/ BeginDump(r) \/ BeginLeave(r)
       \/ SharedFile(r) \/ BoundaryName(r) \/ BoundaryOpen(r)
       \/ FieldDims(r) \/ OpenOwn(r)
       \/ GatherAlloc(r) \/ Gather(r) \/ Gathered(r)
       \/ OpenUnified(r) \/ SetSize(r) \/ Sized(r)
       \/ Write(r) \/ ShareLeave(r)
       \/ Fin(r) \/ FinLeave(r) \/ TimeFile(r) \/ TimeClose(r) \/ TimeLeave(r)
       \/ BarrierLeave(r) \/ Report(r) \/ ReportLeave(r)
       \/ ReadTime(r) \/ TimeStat(r) \/ TimeValues(r) \/ Read(r) \/ ReadLeave(r)
       \/ Resume(r) \/ ResumeLeave(r)
    /\ UNCHANGED <<layout, job>>

Over == AllHalted /\ job = JobMax /\ UNCHANGED vars

Next == (\E r \in Rank : Step(r)) \/ Kill \/ Submit \/ Over

Spec == Init /\ [][Next]_vars

\* Every rank is a process of its own that keeps running: WF per rank.  Nobody
\* has to kill a job or to submit one.
FairSpec == Spec /\ \A r \in Rank : WF_vars(Step(r))

-------------------------------------------------------------------------------
(***************************************************************************)
(* Properties.                                                             *)
(***************************************************************************)
PartType == [state : {"missing", "torn", "whole"}, of : Stamp \cup {None}]

\* The data of the ranks, of the disk and of the collectives stay in their types.
TypeOK ==
    /\ layout \in Layouts
    /\ job \in 1 .. JobMax
    /\ disk \in [time : PartType, part : [1 .. Count -> [Rank -> PartType]]]
    /\ pc \in [Rank -> Labels]
    /\ mem \in [Rank -> [1 .. Count -> (0 .. JobMax) \X (0 .. StepMax)]]
    /\ icnt \in [Rank -> 0 .. StepMax]
    /\ file \in [Rank -> 1 .. Count]
    /\ err \in [Rank -> Bit]
    /\ calls \in [Rank -> Seq([op : Ops, value : Nat])]

\* A time file vouches for the dump: when it is there, whoever was killed or
\* failed before, every region of every file is complete and all of them, and
\* the time file, were written from one and the same state of the calculation.
CommittedWhole ==
    disk.time.state = "whole" =>
        \A f \in 1 .. Count : \A r \in Regions(f) :
            disk.part[f][r] = Whole(disk.time.of)

\* Ranks that compute hold one state: after a restart, or a killed dump before
\* it, no rank goes on with fields of different steps or jobs, nor with a step
\* number that is not theirs, and ranks at the same step hold the same state.
RestoredWhole ==
    \A r \in Rank :
        pc[r] \notin Restarting \cup Halted =>
            /\ \A f \in 1 .. Count : mem[r][f] = mem[r][1]
            /\ mem[r][1][2] = icnt[r]
            /\ \A q \in Rank : (pc[q] \notin Restarting \cup Halted
                                /\ icnt[q] = icnt[r]) => mem[q] = mem[r]

\* A rank that fails to write or read must not leave the common sequence of
\* collectives: its Allreduce would be paired with another rank's Allgather.
CollectivesMatch == Matched

\* Whatever fails, no rank waits for another one for ever: every job ends.
JobsEnd == []<>AllHalted

Dump == INSTANCE AtomicDump
    WITH now   <- IF pc[Root] \in Restarting \cup Halted THEN None
                                                         ELSE mem[Root][1],
         saved <- IF disk.time.state = "whole" THEN disk.time.of ELSE None

\* A calculation is only ever continued from the state a finished dump recorded.
ImplementsDump == Dump!Spec
===============================================================================
