---------------------------- MODULE MainLoopProofs ----------------------------
(***************************************************************************)
(* Proofs about MainLoop, for any set of ranks and any parameters.         *)
(***************************************************************************)
EXTENDS MainLoop, TLAPS

\* Once the rank has entered a collective it never returns to a state without.
HasEntered == \A r \in Rank : pc[r] # "setup" => calls[r] # <<>>

\* What ties the log of a rank to its copy of radiation_running.
Disciplined(r) ==
    /\ running[r] => launch.coupled
    /\ ~launch.coupled => log[r] = <<>>
    /\ \A k \in 1 .. Len(log[r]) :
          log[r][k].iflg = 1 => /\ k = Len(log[r])
                                /\ running[r] => pc[r] = "done"
    /\ launch.coupled /\ (~running[r] \/ pc[r] = "done") =>
          log[r] # <<>> /\ log[r][Len(log[r])].iflg = 1

Discipline == \A r \in Rank : Disciplined(r)

Inv == TypeOK /\ HasEntered /\ Discipline

\* After every rank has entered the collective rank r is in, the values given to
\* it are integers.
LEMMA ValuesAreInt ==
    ASSUME TypeOK, NEW r \in Rank, calls[r] # <<>>, Entered(r)
    PROVE  Values(r) \subseteq Int
<1> SUFFICES ASSUME NEW q \in Rank PROVE calls[q][Len(calls[r])].value \in Int
  BY DEF Values
<1>1. calls[r] \in Seq(Call) /\ calls[q] \in Seq(Call)
  BY DEF TypeOK
<1>2. Len(calls[r]) \in 1 .. Len(calls[q])
  BY <1>1 DEF Entered
<1>3. calls[q][Len(calls[r])] \in Call
  BY <1>1, <1>2
<1> QED  BY <1>3 DEF Call

\* Entering a collective keeps the history of collectives well formed.
LEMMA EnterType ==
    ASSUME TypeOK, NEW r \in Rank, NEW op \in Ops, NEW v \in Int, Enter(r, op, v)
    PROVE  /\ calls' \in [Rank -> Seq(Call)]
           /\ calls'[r] # <<>>
           /\ \A q \in Rank : q # r => calls'[q] = calls[q]
<1> DEFINE c == [op |-> op, value |-> v]
<1>1. c \in Call
  BY DEF Call
<1>2. calls[r] \in Seq(Call) /\ calls \in [Rank -> Seq(Call)]
  BY DEF TypeOK
<1>3. calls' = [calls EXCEPT ![r] = Append(@, c)]
  BY DEF Enter
<1> HIDE DEF c
<1>4. calls'[r] = Append(calls[r], c)
  BY <1>2, <1>3
<1>5. Append(calls[r], c) \in Seq(Call) /\ Len(Append(calls[r], c)) = Len(calls[r]) + 1
  BY <1>1, <1>2
<1>6. Len(calls[r]) \in Nat
  BY <1>2
<1>7. calls'[r] # <<>>
  BY <1>4, <1>5, <1>6
<1> QED  BY <1>2, <1>3, <1>5, <1>7

\* An exchange lengthens the log of one rank by a record with its flag.
LEMMA ExchangeType ==
    ASSUME TypeOK, NEW r \in Rank, NEW f \in Bit, Exchange(r, f)
    PROVE  /\ log' \in [Rank -> Seq(Performed)]
           /\ \A q \in Rank : q # r => log'[q] = log[q]
           /\ Len(log'[r]) = Len(log[r]) + 1
           /\ log'[r][Len(log'[r])].iflg = f
           /\ \A k \in 1 .. Len(log[r]) : log'[r][k] = log[r][k]
<1> DEFINE e == [iflg |-> f, icnt |-> icnt[r], time |-> time[r]]
<1>1. e \in Performed /\ e.iflg = f
  BY DEF TypeOK, Performed
<1>2. log[r] \in Seq(Performed) /\ log \in [Rank -> Seq(Performed)]
  BY DEF TypeOK
<1>3. log' = [log EXCEPT ![r] = Append(@, e)]
  BY DEF Exchange
<1> HIDE DEF e
<1>4. log'[r] = Append(log[r], e)
  BY <1>2, <1>3
<1>5. Append(log[r], e) \in Seq(Performed)
  BY <1>1, <1>2
<1>6. Len(log'[r]) = Len(log[r]) + 1 /\ log'[r][Len(log[r]) + 1] = e
  BY <1>1, <1>2, <1>4
<1>7. \A k \in 1 .. Len(log[r]) : log'[r][k] = log[r][k]
  BY <1>1, <1>2, <1>4
<1> QED  BY <1>1, <1>2, <1>3, <1>5, <1>6, <1>7

LEMMA InitInv == Init => Inv
<1> SUFFICES ASSUME Init PROVE Inv
  OBVIOUS
<1>1. DtRad \in Int /\ Start \subseteq Nat \X Nat /\ launch \in Launch /\ launch.coupled \in BOOLEAN
  BY TimeAssumption, LaunchAssumption DEF Init
<1>2. TypeOK
  BY <1>1 DEF Init, TypeOK, Labels, Bit, Performed, Call
<1>3. HasEntered
  BY DEF Init, HasEntered
<1>4. ASSUME NEW r \in Rank PROVE Disciplined(r)
  <2>1. log[r] = <<>> /\ running[r] = launch.coupled /\ pc[r] = "setup"
    BY DEF Init
  <2> QED  BY <2>1, <1>1 DEF Disciplined
<1> QED  BY <1>2, <1>3, <1>4 DEF Inv, Discipline

-------------------------------------------------------------------------------
\* A step that neither ends a rank nor touches its log keeps the discipline.
LEMMA QuietDiscipline ==
    ASSUME TypeOK, Discipline, NEW r \in Rank, pc[r] # "done",
           NEW l, l # "done", Goto(r, l), UNCHANGED <<launch, running, log>>
    PROVE  Discipline'
<1> SUFFICES ASSUME NEW q \in Rank PROVE Disciplined(q)'
  BY DEF Discipline
<1>1. Disciplined(q) /\ running'[q] = running[q] /\ log'[q] = log[q]
  BY DEF Discipline
<1>2. pc'[q] = "done" <=> pc[q] = "done"
  BY DEF Goto, TypeOK
<1> QED  BY <1>1, <1>2 DEF Disciplined

\* A step of r alone keeps the discipline of the other ranks.
LEMMA OthersDisciplined ==
    ASSUME Discipline, NEW r \in Rank, NEW q \in Rank, q # r, UNCHANGED launch,
           log'[q] = log[q], running'[q] = running[q], pc'[q] = pc[q]
    PROVE  Disciplined(q)'
BY DEF Discipline, Disciplined

\* A step from a label other than "setup" that leaves calls alone keeps HasEntered.
LEMMA QuietEntered ==
    ASSUME TypeOK, HasEntered, NEW r \in Rank, NEW l,
           Goto(r, l), UNCHANGED calls, pc[r] # "setup" \/ l = "setup"
    PROVE  HasEntered'
BY DEF HasEntered, Goto, TypeOK

\* A step into a collective keeps HasEntered.
LEMMA EnteringEntered ==
    ASSUME TypeOK, HasEntered, NEW r \in Rank, NEW l, Goto(r, l),
           calls'[r] # <<>>, \A q \in Rank : q # r => calls'[q] = calls[q]
    PROVE  HasEntered'
BY DEF HasEntered, Goto, TypeOK

-------------------------------------------------------------------------------
\* The steps into a collective.
LEMMA WorkInv ==
    ASSUME Inv, NEW r \in Rank, NEW s \in Worsen(r), Enter(r, "any_rank", s),
           status' = [status EXCEPT ![r] = s], NEW l \in Labels \ {"done"},
           Goto(r, l), pc[r] # "done",
           UNCHANGED <<launch, phase, dt, elapsed, running, log, exitval>>,
           icnt' \in [Rank -> Int], time' \in [Rank -> Int],
           written' \in [Rank -> BOOLEAN]
    PROVE  Inv'
<1>1. TypeOK /\ HasEntered /\ Discipline
  BY DEF Inv
<1>2. s \in Bit /\ s \in Int
  <2>1. status \in [Rank -> Bit]
    BY <1>1 DEF TypeOK
  <2>2. s \in Bit
    BY <2>1 DEF Worsen, Bit
  <2> QED  BY <2>2 DEF Bit
<1>3. "any_rank" \in Ops
  BY DEF Ops
<1>4. /\ calls' \in [Rank -> Seq(Call)]
      /\ calls'[r] # <<>>
      /\ \A q \in Rank : q # r => calls'[q] = calls[q]
  BY <1>1, <1>2, <1>3, EnterType
<1>5. TypeOK'
  BY <1>1, <1>2, <1>4 DEF TypeOK, Goto
<1>6. HasEntered'
  BY <1>1, <1>4, EnteringEntered
<1>7. Discipline'
  BY <1>1, QuietDiscipline
<1> QED  BY <1>5, <1>6, <1>7 DEF Inv

\* The other steps into a collective: they change nothing but pc and calls.
LEMMA EnterInv ==
    ASSUME Inv, NEW r \in Rank, NEW op \in Ops, NEW v \in Int, Enter(r, op, v),
           NEW l \in Labels \ {"done"}, Goto(r, l), pc[r] # "done",
           UNCHANGED local, UNCHANGED launch
    PROVE  Inv'
<1>1. TypeOK /\ HasEntered /\ Discipline
  BY DEF Inv
<1>2. /\ calls' \in [Rank -> Seq(Call)]
      /\ calls'[r] # <<>>
      /\ \A q \in Rank : q # r => calls'[q] = calls[q]
  BY <1>1, EnterType
<1>3. TypeOK'
  BY <1>1, <1>2 DEF TypeOK, Goto, local
<1>4. HasEntered'
  BY <1>1, <1>2, EnteringEntered
<1>5. Discipline'
  BY <1>1, QuietDiscipline DEF local
<1> QED  BY <1>3, <1>4, <1>5 DEF Inv

\* The steps that enter no collective and perform no exchange.
LEMMA QuietInv ==
    ASSUME Inv, NEW r \in Rank, NEW l \in Labels \ {"done"}, Goto(r, l),
           pc[r] # "done", pc[r] # "setup" \/ l = "setup",
           UNCHANGED <<launch, status, icnt, time, running, log, calls, written>>,
           phase' \in [Rank -> Nat], dt' \in [Rank -> Int],
           elapsed' \in [Rank -> Int],
           exitval' \in [Rank -> {"none", "success", "failure"}]
    PROVE  Inv'
<1>1. TypeOK /\ HasEntered /\ Discipline
  BY DEF Inv
<1>2. TypeOK'
  BY <1>1 DEF TypeOK, Goto
<1>3. HasEntered'
  BY <1>1, QuietEntered
<1>4. Discipline'
  BY <1>1, QuietDiscipline
<1> QED  BY <1>2, <1>3, <1>4 DEF Inv

-------------------------------------------------------------------------------
LEMMA SetupWorkInv ==
    ASSUME Inv, NEW r \in Rank, SetupWork(r), UNCHANGED launch PROVE Inv'
<1>1. PICK s \in Worsen(r) :
        status' = [status EXCEPT ![r] = s] /\ Enter(r, "any_rank", s)
  BY DEF SetupWork
<1>2. icnt' \in [Rank -> Int] /\ time' \in [Rank -> Int] /\ written' \in [Rank -> BOOLEAN]
  BY DEF SetupWork, Inv, TypeOK
<1>3. "setup_wait" \in Labels \ {"done"}
  BY DEF Labels
<1> QED  BY <1>1, <1>2, <1>3, WorkInv DEF SetupWork

LEMMA SetupLeaveInv ==
    ASSUME Inv, NEW r \in Rank, SetupLeave(r), UNCHANGED launch PROVE Inv'
<1>1. /\ phase' \in [Rank -> Nat]
      /\ dt' \in [Rank -> Int] /\ elapsed' \in [Rank -> Int]
      /\ exitval' \in [Rank -> {"none", "success", "failure"}]
  <2>1. phase' = phase \/ phase' = [phase EXCEPT ![r] = @ + 1]
    BY DEF SetupLeave
  <2>2. exitval' = exitval \/ exitval' = [exitval EXCEPT ![r] = "failure"]
    BY DEF SetupLeave, Abort
  <2>3. dt' = dt /\ elapsed' = elapsed
    BY DEF SetupLeave
  <2>4. /\ phase \in [Rank -> Nat]
        /\ dt \in [Rank -> Int] /\ elapsed \in [Rank -> Int]
        /\ exitval \in [Rank -> {"none", "success", "failure"}]
    BY DEF Inv, TypeOK
  <2> QED  BY <2>1, <2>2, <2>3, <2>4
<1>2. PICK l \in Labels \ {"done"} : Goto(r, l)
  BY DEF SetupLeave, Abort, Labels
<1> QED  BY <1>1, <1>2, QuietInv DEF SetupLeave

LEMMA StepBeginInv ==
    ASSUME Inv, NEW r \in Rank, StepBegin(r), UNCHANGED launch PROVE Inv'
<1>1. PICK d \in DtLimit : Enter(r, "dt", d)
  BY DEF StepBegin
<1>2. d \in Int /\ "dt" \in Ops /\ "dt_wait" \in Labels \ {"done"}
  BY TimeAssumption DEF Ops, Labels
<1> QED  BY <1>1, <1>2, EnterInv DEF StepBegin

LEMMA StepDtInv ==
    ASSUME Inv, NEW r \in Rank, StepDt(r), UNCHANGED launch PROVE Inv'
<1>1. TypeOK /\ calls[r] # <<>> /\ Entered(r)
  BY DEF StepDt, Inv, HasEntered
<1>2. PICK d \in MinOver(r) : dt' = [dt EXCEPT ![r] = d]
  BY DEF StepDt
<1>3. d \in Int
  BY <1>1, <1>2, ValuesAreInt DEF MinOver
<1>4. /\ phase' \in [Rank -> Nat]
      /\ dt' \in [Rank -> Int] /\ elapsed' \in [Rank -> Int]
      /\ exitval' \in [Rank -> {"none", "success", "failure"}]
  BY <1>2, <1>3 DEF StepDt, Inv, TypeOK
<1>5. "radiation" \in Labels \ {"done"}
  BY DEF Labels
<1> QED  BY <1>4, <1>5, QuietInv DEF StepDt

LEMMA RadiationOffInv ==
    ASSUME Inv, NEW r \in Rank, RadiationOff(r) \/ RadiationNotDue(r), UNCHANGED launch PROVE Inv'
<1>1. /\ phase' \in [Rank -> Nat]
      /\ dt' \in [Rank -> Int] /\ elapsed' \in [Rank -> Int]
      /\ exitval' \in [Rank -> {"none", "success", "failure"}]
  BY DEF RadiationOff, RadiationNotDue, local, Inv, TypeOK
<1>2. "advance" \in Labels \ {"done"}
  BY DEF Labels
<1> QED  BY <1>1, <1>2, QuietInv DEF RadiationOff, RadiationNotDue, local

\* The last exchange and the clearing of radiation_running are one step, which
\* is what the discipline needs.
LEMMA RadiationDueInv ==
    ASSUME Inv, NEW r \in Rank, RadiationDue(r), UNCHANGED launch PROVE Inv'
<1> DEFINE f == IF LastExchange(r) THEN 1 ELSE 0
<1>1. TypeOK /\ HasEntered /\ Discipline
  BY DEF Inv
<1>2. /\ IF running[r] THEN Exchange(r, f) ELSE UNCHANGED log
      /\ running' = [running EXCEPT ![r] = @ /\ f = 0]
  BY DEF RadiationDue
<1>3. f \in Bit
  BY DEF Bit
<1> HIDE DEF f
<1>4. /\ log' \in [Rank -> Seq(Performed)]
      /\ \A q \in Rank : q # r => log'[q] = log[q]
  <2>1. CASE running[r]  BY <2>1, <1>1, <1>2, <1>3, ExchangeType
  <2>2. CASE ~running[r]  BY <2>2, <1>1, <1>2 DEF TypeOK
  <2> QED  BY <2>1, <2>2
<1>5. running' \in [Rank -> BOOLEAN] /\ running'[r] = (running[r] /\ f = 0)
  BY <1>1, <1>2 DEF TypeOK
<1>6. pc[r] = "radiation" /\ pc' = [pc EXCEPT ![r] = "advance"]
  BY DEF RadiationDue, Goto
<1>7. TypeOK'
  <2>1. elapsed' \in [Rank -> Int]
    BY <1>1 DEF RadiationDue, TypeOK
  <2>2. pc' \in [Rank -> Labels]
    BY <1>1, <1>6 DEF TypeOK, Labels
  <2> QED  BY <1>1, <1>4, <1>5, <2>1, <2>2 DEF TypeOK, RadiationDue
<1>8. HasEntered'
  BY <1>1, QuietEntered DEF RadiationDue
<1>9. ASSUME NEW q \in Rank, q # r PROVE Disciplined(q)'
  <2>1. running'[q] = running[q] /\ pc'[q] = pc[q] /\ log'[q] = log[q]
    BY <1>1, <1>2, <1>4, <1>6, <1>9 DEF TypeOK
  <2> QED  BY <1>1, <1>9, <2>1, OthersDisciplined
<1>10. Disciplined(r)'
  <2>0. Disciplined(r) /\ pc'[r] = "advance" /\ pc[r] # "done"
    BY <1>1, <1>6 DEF Discipline, TypeOK
  <2>1. CASE running[r]
    <3>1. /\ Len(log'[r]) = Len(log[r]) + 1
          /\ log'[r][Len(log'[r])].iflg = f
          /\ \A k \in 1 .. Len(log[r]) : log'[r][k] = log[r][k]
      BY <2>1, <1>1, <1>2, <1>3, ExchangeType
    <3>2. launch.coupled /\ \A k \in 1 .. Len(log[r]) : log[r][k].iflg # 1
      BY <2>0, <2>1 DEF Disciplined
    <3>3. Len(log[r]) \in Nat
      BY <1>1 DEF TypeOK
    <3>4. ASSUME NEW k \in 1 .. Len(log'[r]), log'[r][k].iflg = 1
          PROVE  k = Len(log'[r]) /\ f = 1
      BY <3>1, <3>2, <3>3, <3>4
    <3>5. log'[r] # <<>>
      BY <3>1, <3>3
    <3> QED  BY <3>1, <3>2, <3>4, <3>5, <2>0, <2>1, <1>3, <1>5 DEF Disciplined, Bit
  <2>2. CASE ~running[r]
    <3>1. ~running'[r] /\ log' = log
      BY <2>2, <1>2, <1>5
    <3> QED  BY <3>1, <2>0, <2>2 DEF Disciplined
  <2> QED  BY <2>1, <2>2
<1> QED  BY <1>7, <1>8, <1>9, <1>10 DEF Inv, Discipline

LEMMA AdvanceInv ==
    ASSUME Inv, NEW r \in Rank, Advance(r), UNCHANGED launch PROVE Inv'
<1>1. PICK s \in Worsen(r) :
        status' = [status EXCEPT ![r] = s] /\ Enter(r, "any_rank", s)
  BY DEF Advance
<1>2. icnt' \in [Rank -> Int] /\ time' \in [Rank -> Int] /\ written' \in [Rank -> BOOLEAN]
  <2>1. icnt \in [Rank -> Int] /\ time \in [Rank -> Int] /\ dt \in [Rank -> Int]
    BY DEF Inv, TypeOK
  <2>2. written \in [Rank -> BOOLEAN]
    BY DEF Inv, TypeOK
  <2> QED  BY <2>1, <2>2 DEF Advance
<1>3. "step_wait" \in Labels \ {"done"}
  BY DEF Labels
<1> QED  BY <1>1, <1>2, <1>3, WorkInv DEF Advance

LEMMA StepLeaveInv ==
    ASSUME Inv, NEW r \in Rank, StepLeave(r), UNCHANGED launch PROVE Inv'
<1>1. CASE Abort(r) /\ UNCHANGED calls
  <2>1. /\ phase' \in [Rank -> Nat]
        /\ dt' \in [Rank -> Int] /\ elapsed' \in [Rank -> Int]
        /\ exitval' \in [Rank -> {"none", "success", "failure"}]
    BY <1>1 DEF StepLeave, Abort, Inv, TypeOK
  <2>2. "cleanup" \in Labels \ {"done"}
    BY DEF Labels
  <2> QED  BY <1>1, <2>1, <2>2, QuietInv DEF StepLeave, Abort
<1>2. CASE /\ \E late \in Bit : Enter(r, "timer", late)
           /\ Goto(r, "timer_wait") /\ UNCHANGED exitval
  <2>1. PICK late \in Bit : Enter(r, "timer", late)
    BY <1>2
  <2>2. late \in Int /\ "timer" \in Ops /\ "timer_wait" \in Labels \ {"done"}
    BY DEF Bit, Ops, Labels
  <2> QED  BY <1>2, <2>1, <2>2, EnterInv DEF StepLeave, local
<1> QED  BY <1>1, <1>2 DEF StepLeave

LEMMA TimerLeaveInv ==
    ASSUME Inv, NEW r \in Rank, TimerLeave(r), UNCHANGED launch PROVE Inv'
<1>1. TypeOK /\ calls[r] # <<>> /\ Entered(r)
  BY DEF TimerLeave, Inv, HasEntered
<1>2. PICK late \in MaxOver(r) : Enter(r, "dump", IF r = Root THEN late ELSE 0)
  BY DEF TimerLeave
<1>3. late \in Int
  BY <1>1, <1>2, ValuesAreInt DEF MaxOver
<1>4. (IF r = Root THEN late ELSE 0) \in Int
  BY <1>3
<1>5. "dump" \in Ops /\ "dump_wait" \in Labels \ {"done"}
  BY DEF Ops, Labels
<1> QED  BY <1>2, <1>4, <1>5, EnterInv DEF TimerLeave

\* Leaving the loop or going on.
LEMMA DumpLeaveInv ==
    ASSUME Inv, NEW r \in Rank, DumpLeave(r) \/ LoopEnd(r), UNCHANGED launch PROVE Inv'
<1>1. PICK l \in Labels \ {"done"} : Goto(r, l)
  BY DEF DumpLeave, LoopEnd, Labels
<1>2. /\ phase' \in [Rank -> Nat]
      /\ dt' \in [Rank -> Int] /\ elapsed' \in [Rank -> Int]
      /\ exitval' \in [Rank -> {"none", "success", "failure"}]
  BY DEF DumpLeave, LoopEnd, local, Inv, TypeOK
<1> QED  BY <1>1, <1>2, QuietInv DEF DumpLeave, LoopEnd, local

LEMMA FinalOutputInv ==
    ASSUME Inv, NEW r \in Rank, FinalOutput(r), UNCHANGED launch PROVE Inv'
<1>1. PICK s \in Worsen(r) :
        status' = [status EXCEPT ![r] = s] /\ Enter(r, "any_rank", s)
  BY DEF FinalOutput
<1>2. icnt' \in [Rank -> Int] /\ time' \in [Rank -> Int] /\ written' \in [Rank -> BOOLEAN]
  BY DEF FinalOutput, Inv, TypeOK
<1>3. "final_wait" \in Labels \ {"done"}
  BY DEF Labels
<1> QED  BY <1>1, <1>2, <1>3, WorkInv DEF FinalOutput

LEMMA FinalLeaveInv ==
    ASSUME Inv, NEW r \in Rank, FinalLeave(r), UNCHANGED launch PROVE Inv'
<1>1. Goto(r, "cleanup") /\ "cleanup" \in Labels \ {"done"}
  BY DEF FinalLeave, Abort, Labels
<1>2. /\ phase' \in [Rank -> Nat]
      /\ dt' \in [Rank -> Int] /\ elapsed' \in [Rank -> Int]
      /\ exitval' \in [Rank -> {"none", "success", "failure"}]
  <2>1. \E e \in {"success", "failure"} : exitval' = [exitval EXCEPT ![r] = e]
    BY DEF FinalLeave, Abort
  <2> QED  BY <2>1 DEF FinalLeave, Inv, TypeOK
<1> QED  BY <1>1, <1>2, QuietInv DEF FinalLeave

\* A rank ends only after its last exchange, whichever of the two sites made it.
LEMMA CleanupInv ==
    ASSUME Inv, NEW r \in Rank, Cleanup(r), UNCHANGED launch PROVE Inv'
<1>1. TypeOK /\ HasEntered /\ Discipline
  BY DEF Inv
<1>2. /\ IF running[r] THEN Exchange(r, 1) ELSE UNCHANGED log
      /\ running' = running
      /\ pc[r] = "cleanup" /\ pc' = [pc EXCEPT ![r] = "done"]
  BY DEF Cleanup, Goto
<1>3. 1 \in Bit
  BY DEF Bit
<1>4. /\ log' \in [Rank -> Seq(Performed)]
      /\ \A q \in Rank : q # r => log'[q] = log[q]
  <2>1. CASE running[r]  BY <2>1, <1>1, <1>2, <1>3, ExchangeType
  <2>2. CASE ~running[r]  BY <2>2, <1>1, <1>2 DEF TypeOK
  <2> QED  BY <2>1, <2>2
<1>5. TypeOK'
  <2>1. pc' \in [Rank -> Labels]
    BY <1>1, <1>2 DEF TypeOK, Labels
  <2> QED  BY <1>1, <1>4, <2>1 DEF TypeOK, Cleanup
<1>6. HasEntered'
  BY <1>1, QuietEntered DEF Cleanup
<1>7. ASSUME NEW q \in Rank, q # r PROVE Disciplined(q)'
  <2>1. running'[q] = running[q] /\ pc'[q] = pc[q] /\ log'[q] = log[q]
    BY <1>1, <1>2, <1>4, <1>7 DEF TypeOK
  <2> QED  BY <1>1, <1>7, <2>1, OthersDisciplined
<1>8. Disciplined(r)'
  <2>0. Disciplined(r) /\ pc'[r] = "done" /\ running'[r] = running[r]
    BY <1>1, <1>2 DEF Discipline, TypeOK
  <2>1. CASE running[r]
    <3>1. /\ Len(log'[r]) = Len(log[r]) + 1
          /\ log'[r][Len(log'[r])].iflg = 1
          /\ \A k \in 1 .. Len(log[r]) : log'[r][k] = log[r][k]
      BY <2>1, <1>1, <1>2, <1>3, ExchangeType
    <3>2. launch.coupled /\ \A k \in 1 .. Len(log[r]) : log[r][k].iflg # 1
      BY <2>0, <2>1, <1>2 DEF Disciplined
    <3>3. Len(log[r]) \in Nat
      BY <1>1 DEF TypeOK
    <3>4. ASSUME NEW k \in 1 .. Len(log'[r]), log'[r][k].iflg = 1
          PROVE  k = Len(log'[r])
      BY <3>1, <3>2, <3>3, <3>4
    <3>5. log'[r] # <<>>
      BY <3>1, <3>3
    <3> QED  BY <3>1, <3>2, <3>4, <3>5, <2>0 DEF Disciplined
  <2>2. CASE ~running[r]
    <3>1. log' = log
      BY <2>2, <1>2
    <3> QED  BY <3>1, <2>0, <2>2 DEF Disciplined
  <2> QED  BY <2>1, <2>2
<1> QED  BY <1>5, <1>6, <1>7, <1>8 DEF Inv, Discipline

LEMMA StutterInv ==
    ASSUME Inv, UNCHANGED vars PROVE Inv'
BY DEF Inv, TypeOK, HasEntered, Discipline, Disciplined, vars

LEMMA NextInv == Inv /\ [Next]_vars => Inv'
<1> SUFFICES ASSUME Inv, [Next]_vars PROVE Inv'
  OBVIOUS
<1>1. ASSUME NEW r \in Rank, Step(r) PROVE Inv'
  BY <1>1, SetupWorkInv, SetupLeaveInv, StepBeginInv, StepDtInv, RadiationOffInv,
     RadiationDueInv, AdvanceInv, StepLeaveInv, TimerLeaveInv, DumpLeaveInv,
     FinalOutputInv, FinalLeaveInv, CleanupInv DEF Step
<1>2. ASSUME UNCHANGED vars PROVE Inv'
  BY <1>2, StutterInv
<1> QED  BY <1>1, <1>2 DEF Next, Terminated

LEMMA InvAlways == Spec => []Inv
BY InitInv, NextInv, PTL DEF Spec

-------------------------------------------------------------------------------
\* Whatever the number of ranks, the step lengths and the place where errors and
\* dumps strike, the data of main() keeps its type.
THEOREM TypeCorrect == Spec => []TypeOK
<1>1. Inv => TypeOK
  BY DEF Inv
<1> QED  BY <1>1, InvAlways, PTL

\* No rank calls its radiation master again after the exchange that ended it,
\* neither from radiation() nor from the clean-up.
THEOREM NoExchangeAfterRelease == Spec => []NothingAfterRelease
<1>1. Inv => NothingAfterRelease
  BY DEF Inv, Discipline, Disciplined, NothingAfterRelease
<1> QED  BY <1>1, InvAlways, PTL

\* No path through main() ends a rank while its radiation master still waits, and
\* without radiation processes none is called.
THEOREM RadiationReleased == Spec => []ReleasedAtExit
<1>1. Inv => ReleasedAtExit
  BY DEF Inv, Discipline, Disciplined, ReleasedAtExit
<1> QED  BY <1>1, InvAlways, PTL

-------------------------------------------------------------------------------
(***************************************************************************)
(* The ranks agree, and the radiation program is called in time, to one    *)
(* plan.  Each rank of main() decides alone, from its own copy of the      *)
(* data, whether to abort, to leave the loop, to stop for a dump, to call  *)
(* the radiation program and with which flag; and a rank may be several    *)
(* steps behind another one.                                               *)
(*                                                                         *)
(* The idea of the proof: what a rank will do until the next collective    *)
(* that is not complete does not depend on the other ranks any more.  So   *)
(* each rank has a heading, the place where it will stand next, and a      *)
(* course, the data that it will have there.  The steps between two        *)
(* collectives change neither, and at every moment all the ranks have one  *)
(* and the same course.                                                    *)
(***************************************************************************)
Waits == {"setup_wait", "dt_wait", "step_wait", "timer_wait", "dump_wait", "final_wait"}

RootEntered(r) == Len(calls[Root]) >= Len(calls[r])

\* The collective that rank r waits in is complete: r may leave it.
Complete(r) == IF pc[r] = "dump_wait" THEN RootEntered(r) ELSE Entered(r)

-------------------------------------------------------------------------------
(***************************************************************************)
(* The course of a rank: its data when it enters its next collective.      *)
(***************************************************************************)
\* The rank has yet to go through the radiation call, through the whole step.
BeforeRadiation(r) == pc[r] = "radiation" \/ (pc[r] = "dt_wait" /\ Entered(r))
BeforeAdvance(r)   == pc[r] = "advance" \/ BeforeRadiation(r)

\* The smallest of the proposed steps is only one.
Only(S) == CHOOSE d \in S : TRUE

ComingDt(r) ==
    IF pc[r] = "dt_wait" /\ Entered(r) THEN Only(MinOver(r)) ELSE dt[r]

ComingDue(r) ==
    BeforeRadiation(r) /\ launch.radiation /\ elapsed[r] + ComingDt(r) >= DtRad

ComingLast(r) ==
    \/ time[r] + Max2(ComingDt(r), DtRad) >= TEnd
    \/ icnt[r] = IcntEnd - 1

ComingElapsed(r) ==
    IF ComingDue(r) THEN ComingDt(r)
    ELSE IF BeforeRadiation(r) /\ launch.radiation THEN elapsed[r] + ComingDt(r)
    ELSE elapsed[r]

ComingRunning(r) == IF ComingDue(r) /\ ComingLast(r) THEN FALSE ELSE running[r]

\* The exchange made in the clean-up, after the last collective, is left out.
ComingLog(r) ==
    IF ComingDue(r) /\ running[r]
    THEN Append(log[r], [iflg |-> IF ComingLast(r) THEN 1 ELSE 0,
                         icnt |-> icnt[r], time |-> time[r]])
    ELSE IF pc[r] = "done" /\ running[r] THEN SubSeq(log[r], 1, Len(log[r]) - 1)
    ELSE log[r]

ComingTime(r) == IF BeforeAdvance(r) THEN time[r] + ComingDt(r) ELSE time[r]
ComingIcnt(r) == IF BeforeAdvance(r) THEN icnt[r] + 1 ELSE icnt[r]

ComingPhase(r) ==
    IF pc[r] = "setup_wait" /\ Entered(r) /\ ~AnyRank(r) THEN phase[r] + 1 ELSE phase[r]

Course(r) == <<ComingPhase(r), ComingDt(r), ComingElapsed(r), ComingRunning(r),
               ComingLog(r), ComingTime(r), ComingIcnt(r)>>

\* The data it has now.
Now(r) == <<phase[r], dt[r], elapsed[r], running[r], log[r], time[r], icnt[r]>>

-------------------------------------------------------------------------------
(***************************************************************************)
(* The heading of a rank: the collective that it waits in if that is not   *)
(* complete, else the place from which it enters the next one, or the exit *)
(* code with which it ends.                                                *)
(***************************************************************************)
Ready == {"setup", "loop", "advance", "timer", "dump", "final"}

OnGoing(r) == ComingTime(r) <= TEnd /\ ComingIcnt(r) < StepMax
ToLoop(r)  == IF OnGoing(r) THEN "loop" ELSE "final"

\* What the decision of the root in the k-th collective, a dump, makes of rank r.
AfterDump(k, r) == IF calls[Root][k].value = 1 THEN "final" ELSE ToLoop(r)

Heading(r) ==
    CASE pc[r] = "setup" -> "setup"
      [] pc[r] = "loop" -> ToLoop(r)
      [] pc[r] \in {"radiation", "advance"} -> "advance"
      [] pc[r] = "final" -> "final"
      [] pc[r] \in {"cleanup", "done"} -> exitval[r]
      [] pc[r] \in Waits /\ ~Complete(r) -> pc[r]
      [] pc[r] = "setup_wait" /\ Complete(r) ->
            IF AnyRank(r) THEN "failure"
            ELSE IF phase[r] = SetupPhases THEN ToLoop(r) ELSE "setup"
      [] pc[r] = "dt_wait" /\ Complete(r) -> "advance"
      [] pc[r] = "step_wait" /\ Complete(r) -> IF AnyRank(r) THEN "failure" ELSE "timer"
      [] pc[r] = "timer_wait" /\ Complete(r) -> "dump"
      [] pc[r] = "dump_wait" /\ Complete(r) -> AfterDump(Len(calls[r]), r)
      [] pc[r] = "final_wait" /\ Complete(r) -> IF AnyRank(r) THEN "failure" ELSE "success"

\* The collective that is entered from there, and where the rank waits in it.
OpFrom(h) ==
    CASE h \in {"setup", "advance", "final"} -> "any_rank"
      [] h = "loop" -> "dt"
      [] h = "timer" -> "timer"
      [] h = "dump" -> "dump"

Into(h) ==
    CASE h = "setup" -> "setup_wait"
      [] h = "loop" -> "dt_wait"
      [] h = "advance" -> "step_wait"
      [] h = "timer" -> "timer_wait"
      [] h = "dump" -> "dump_wait"
      [] h = "final" -> "final_wait"

-------------------------------------------------------------------------------
(***************************************************************************)
(* The inductive invariant.                                                *)
(***************************************************************************)
OneCourse == \A q, r \in Rank : Course(q) = Course(r)

OneHeading ==
    \A q, r \in Rank : Len(calls[q]) = Len(calls[r]) => Heading(q) = Heading(r)

\* Rank q has entered fewer collectives than rank r: it is on the way into the
\* one that r has entered, which is complete only if it is a broadcast.  Then r
\* may wait in the one after that already, but not pass it.
Behind(q, r) ==
    LET n == Len(calls[q]) IN
        /\ Heading(q) \in Ready
        /\ calls[r][n + 1].op = OpFrom(Heading(q))
        /\ \/ /\ Len(calls[r]) = n + 1
              /\ Heading(r) = IF Heading(q) = "dump" /\ Len(calls[Root]) > n
                              THEN AfterDump(n + 1, r)
                              ELSE Into(Heading(q))
           \/ /\ Len(calls[r]) = n + 2
              /\ Heading(q) = "dump" /\ Len(calls[Root]) > n
              /\ calls[r][n + 2].op = OpFrom(AfterDump(n + 1, r))
              /\ Heading(r) = Into(AfterDump(n + 1, r))

Stragglers ==
    \A q, r \in Rank : Len(calls[q]) < Len(calls[r]) => Behind(q, r)

\* A rank that has decided its exit code has left its last collective.
Decided == \A r \in Rank : exitval[r] # "none" <=> pc[r] \in {"cleanup", "done"}

\* Where the rank is in set-up; the loop comes after it.
InSetup ==
    \A r \in Rank :
        pc[r] \in {"setup", "setup_wait"} => phase[r] \in 1 .. SetupPhases

Agreement == /\ CollectivesMatch /\ OneCourse /\ OneHeading /\ Stragglers
             /\ Decided /\ InSetup

\* What a rank with exit code "success", or on the way to it, has done.
Reported(r) ==
    /\ pc[r] = "final_wait" => written[r] /\ calls[r][Len(calls[r])].value = status[r]
    /\ exitval[r] = "success" => written[r] /\ status[r] = 0
Reports == \A r \in Rank : Reported(r)

-------------------------------------------------------------------------------
\* A rank that waits in a collective that is not complete has its data and stands
\* where it is.
LEMMA WaitingStands ==
    \A r \in Rank :
        pc[r] \in Waits /\ ~Complete(r) => Heading(r) = pc[r] /\ Course(r) = Now(r)
<1> SUFFICES ASSUME NEW r \in Rank, pc[r] \in Waits, ~Complete(r)
             PROVE  Heading(r) = pc[r] /\ Course(r) = Now(r)
  OBVIOUS
<1>1. Heading(r) = pc[r]
  BY DEF Heading, Waits
<1>2. ~BeforeRadiation(r) /\ ~BeforeAdvance(r) /\ ~ComingDue(r)
  BY DEF BeforeRadiation, BeforeAdvance, ComingDue, Complete, Waits
<1>3. ComingDt(r) = dt[r] /\ ComingPhase(r) = phase[r]
  BY DEF ComingDt, ComingPhase, Complete, Waits
<1>4. ComingLog(r) = log[r]
  BY <1>2 DEF ComingLog, Waits
<1>5. ComingElapsed(r) = elapsed[r] /\ ComingRunning(r) = running[r]
      /\ ComingTime(r) = time[r] /\ ComingIcnt(r) = icnt[r]
  BY <1>2 DEF ComingElapsed, ComingRunning, ComingTime, ComingIcnt
<1> QED  BY <1>1, <1>3, <1>4, <1>5 DEF Course, Now

\* Two ranks that wait in the same collective with the same data have one heading
\* and one course.
LEMMA SameWait ==
    \A q, r \in Rank :
        (/\ pc[q] = pc[r] /\ pc[r] \in Waits
         /\ Len(calls[q]) = Len(calls[r]) /\ Now(q) = Now(r))
        => Heading(q) = Heading(r) /\ Course(q) = Course(r)
<1> SUFFICES ASSUME NEW q \in Rank, NEW r \in Rank,
                    pc[q] = pc[r], pc[r] \in Waits,
                    Len(calls[q]) = Len(calls[r]), Now(q) = Now(r)
             PROVE  Heading(q) = Heading(r) /\ Course(q) = Course(r)
  OBVIOUS
<1>1. /\ Complete(q) = Complete(r) /\ Entered(q) = Entered(r) /\ Values(q) = Values(r)
      /\ AnyRank(q) = AnyRank(r) /\ MinOver(q) = MinOver(r)
  BY DEF Complete, Entered, RootEntered, Values, AnyRank, MinOver
<1>2. /\ phase[q] = phase[r] /\ dt[q] = dt[r] /\ elapsed[q] = elapsed[r]
      /\ running[q] = running[r] /\ log[q] = log[r]
      /\ time[q] = time[r] /\ icnt[q] = icnt[r]
  BY DEF Now
<1>3. ComingDt(q) = ComingDt(r) /\ ComingPhase(q) = ComingPhase(r)
  BY <1>1, <1>2 DEF ComingDt, ComingPhase
<1>4. BeforeRadiation(q) = BeforeRadiation(r) /\ BeforeAdvance(q) = BeforeAdvance(r)
  BY <1>1 DEF BeforeRadiation, BeforeAdvance
<1>5. ComingDue(q) = ComingDue(r) /\ ComingLast(q) = ComingLast(r)
  BY <1>2, <1>3, <1>4 DEF ComingDue, ComingLast
<1>6. /\ ComingElapsed(q) = ComingElapsed(r) /\ ComingRunning(q) = ComingRunning(r)
      /\ ComingTime(q) = ComingTime(r) /\ ComingIcnt(q) = ComingIcnt(r)
  BY <1>2, <1>3, <1>4, <1>5 DEF ComingElapsed, ComingRunning, ComingTime, ComingIcnt
<1>7. ComingLog(q) = ComingLog(r)
  BY <1>2, <1>5 DEF ComingLog
<1>8. Course(q) = Course(r)
  BY <1>3, <1>6, <1>7 DEF Course
<1>9. ToLoop(q) = ToLoop(r) /\ AfterDump(Len(calls[q]), q) = AfterDump(Len(calls[r]), r)
  BY <1>6 DEF ToLoop, OnGoing, AfterDump
<1>10. Heading(q) = Heading(r)
  BY <1>1, <1>2, <1>9 DEF Heading, Waits
<1> QED  BY <1>8, <1>10

LEMMA SameWaitNext ==
    (\A q, r \in Rank :
        (/\ pc[q] = pc[r] /\ pc[r] \in Waits
         /\ Len(calls[q]) = Len(calls[r]) /\ Now(q) = Now(r))
        => Heading(q) = Heading(r) /\ Course(q) = Course(r))'
BY SameWait, PTL

LEMMA WaitingStandsNext ==
    (\A r \in Rank :
        pc[r] \in Waits /\ ~Complete(r) => Heading(r) = pc[r] /\ Course(r) = Now(r))'
BY WaitingStands, PTL

\* A rank whose heading is a collective waits in it, and it is not complete.
LEMMA HeadingWaits ==
    TypeOK => \A r \in Rank :
        Heading(r) \in Waits => pc[r] = Heading(r) /\ ~Complete(r)
<1> SUFFICES ASSUME TypeOK, NEW r \in Rank, Heading(r) \in Waits
             PROVE  pc[r] = Heading(r) /\ ~Complete(r)
  OBVIOUS
<1>1. pc[r] \in Labels /\ exitval[r] \in {"none", "success", "failure"}
  BY DEF TypeOK
<1>2. ToLoop(r) \in {"loop", "final"} /\ AfterDump(Len(calls[r]), r) \in {"loop", "final"}
  BY DEF ToLoop, AfterDump
<1>3. pc[r] \in Waits /\ ~Complete(r)
  BY <1>1, <1>2 DEF Heading, Waits, Labels
<1> QED  BY <1>3, WaitingStands

LEMMA DumpHeading ==
    \A r \in Rank : \A k \in Nat :
        pc[r] = "dump_wait" /\ RootEntered(r) /\ k = Len(calls[r]) =>
            Heading(r) = AfterDump(k, r) /\ Course(r) = Now(r)
<1> SUFFICES ASSUME NEW r \in Rank, pc[r] = "dump_wait", RootEntered(r)
             PROVE  Heading(r) = AfterDump(Len(calls[r]), r) /\ Course(r) = Now(r)
  OBVIOUS
<1>1. Heading(r) = AfterDump(Len(calls[r]), r)
  BY DEF Heading, Complete, Waits
<1>2. ~BeforeRadiation(r) /\ ~BeforeAdvance(r) /\ ~ComingDue(r)
  BY DEF BeforeRadiation, BeforeAdvance, ComingDue
<1>3. ComingDt(r) = dt[r] /\ ComingPhase(r) = phase[r] /\ ComingLog(r) = log[r]
  BY <1>2 DEF ComingDt, ComingPhase, ComingLog
<1>4. ComingElapsed(r) = elapsed[r] /\ ComingRunning(r) = running[r]
      /\ ComingTime(r) = time[r] /\ ComingIcnt(r) = icnt[r]
  BY <1>2 DEF ComingElapsed, ComingRunning, ComingTime, ComingIcnt
<1> QED  BY <1>1, <1>3, <1>4 DEF Course, Now

LEMMA DumpHeadingNext ==
    (\A r \in Rank : \A k \in Nat :
        pc[r] = "dump_wait" /\ RootEntered(r) /\ k = Len(calls[r]) =>
            Heading(r) = AfterDump(k, r) /\ Course(r) = Now(r))'
BY DumpHeading, PTL

-------------------------------------------------------------------------------
(***************************************************************************)
(* Entering a collective.                                                  *)
(***************************************************************************)
\* One call more for one rank.
LEMMA EnterGrows ==
    ASSUME TypeOK, NEW r \in Rank, NEW op \in Ops, NEW v \in Int, Enter(r, op, v)
    PROVE  /\ Len(calls'[r]) = Len(calls[r]) + 1
           /\ calls'[r][Len(calls[r]) + 1] = [op |-> op, value |-> v]
           /\ \A q \in Rank : q # r => calls'[q] = calls[q]
           /\ \A q \in Rank : \A k \in 1 .. Len(calls[q]) : calls'[q][k] = calls[q][k]
           /\ \A q \in Rank : Len(calls[q]) \in Nat /\ Len(calls'[q]) >= Len(calls[q])
<1> DEFINE c == [op |-> op, value |-> v]
<1>1. c \in Call
  BY DEF Call
<1>2. calls \in [Rank -> Seq(Call)]
  BY DEF TypeOK
<1>3. calls' = [calls EXCEPT ![r] = Append(@, c)]
  BY DEF Enter
<1> HIDE DEF c
<1>4. calls'[r] = Append(calls[r], c) /\ \A q \in Rank : q # r => calls'[q] = calls[q]
  BY <1>2, <1>3
<1>5. /\ Len(calls'[r]) = Len(calls[r]) + 1 /\ calls'[r][Len(calls[r]) + 1] = c
      /\ \A k \in 1 .. Len(calls[r]) : calls'[r][k] = calls[r][k]
  BY <1>1, <1>2, <1>4
<1>6. \A q \in Rank : Len(calls[q]) \in Nat
  BY <1>2
<1>7. ASSUME NEW q \in Rank
      PROVE  /\ \A k \in 1 .. Len(calls[q]) : calls'[q][k] = calls[q][k]
             /\ Len(calls'[q]) >= Len(calls[q])
  <2>1. CASE q = r  BY <2>1, <1>5, <1>6
  <2>2. CASE q # r  BY <2>2, <1>4, <1>6
  <2> QED  BY <2>1, <2>2
<1>8. calls'[r][Len(calls[r]) + 1] = [op |-> op, value |-> v]
  BY <1>5 DEF c
<1> QED  BY <1>4, <1>5, <1>6, <1>7, <1>8

\* What the others know of a collective that was complete stays as it is.
LEMMA EnterKeepsValues ==
    ASSUME TypeOK, RankAssumption, NEW r \in Rank, NEW op \in Ops, NEW v \in Int,
           Enter(r, op, v), NEW q \in Rank, q # r, calls[q] # <<>>
    PROVE  /\ Entered(q) => /\ Entered(q)' /\ Values(q)' = Values(q)
                            /\ AnyRank(q)' = AnyRank(q) /\ MinOver(q)' = MinOver(q)
           /\ RootEntered(q) => RootEntered(q)' /\ FromRoot(q)' = FromRoot(q)
<1>1. /\ calls'[q] = calls[q]
      /\ \A p \in Rank : \A k \in 1 .. Len(calls[p]) : calls'[p][k] = calls[p][k]
      /\ \A p \in Rank : Len(calls[p]) \in Nat /\ Len(calls'[p]) >= Len(calls[p])
  BY EnterGrows
<1>2. Len(calls[q]) \in Nat \ {0}
  <2>1. calls[q] \in Seq(Call)
    BY DEF TypeOK
  <2> QED  BY <2>1
<1>3. ASSUME Entered(q) PROVE Entered(q)' /\ Values(q)' = Values(q)
  <2>1. \A p \in Rank : Len(calls[q]) \in 1 .. Len(calls[p])
    BY <1>1, <1>2, <1>3 DEF Entered
  <2>2. \A p \in Rank : calls'[p][Len(calls'[q])] = calls[p][Len(calls[q])]
    BY <1>1, <2>1
  <2>3. Values(q)' = Values(q)
    BY <2>2 DEF Values
  <2>4. Entered(q)'
    BY <1>1, <1>3 DEF Entered
  <2> QED  BY <2>3, <2>4
<1>4. ASSUME RootEntered(q) PROVE RootEntered(q)' /\ FromRoot(q)' = FromRoot(q)
  <2>1. Len(calls[q]) \in 1 .. Len(calls[Root])
    BY <1>1, <1>2, <1>4, RankAssumption DEF RootEntered
  <2> QED  BY <1>1, <2>1, <1>4, RankAssumption DEF RootEntered, FromRoot
<1> QED  BY <1>3, <1>4 DEF AnyRank, MinOver

\* The rank itself does nothing.
Kept(q) == pc'[q] = pc[q] /\ exitval'[q] = exitval[q] /\ Now(q)' = Now(q)

\* Nothing changes for a rank that stays where it is, while what it may know of
\* the collective that it is in stays the same.
LEMMA KeptView ==
    ASSUME NEW q \in Rank, Kept(q), UNCHANGED launch, calls'[q] = calls[q],
           pc[q] \in Waits \ {"dump_wait"} =>
               /\ Entered(q) /\ Entered(q)'
               /\ AnyRank(q)' = AnyRank(q) /\ MinOver(q)' = MinOver(q),
           pc[q] = "dump_wait" =>
               RootEntered(q) /\ RootEntered(q)' /\ FromRoot(q)' = FromRoot(q)
    PROVE  Heading(q)' = Heading(q) /\ Course(q)' = Course(q)
<1>1. /\ phase'[q] = phase[q] /\ dt'[q] = dt[q] /\ elapsed'[q] = elapsed[q]
      /\ running'[q] = running[q] /\ log'[q] = log[q]
      /\ time'[q] = time[q] /\ icnt'[q] = icnt[q]
      /\ pc'[q] = pc[q] /\ exitval'[q] = exitval[q]
  BY DEF Kept, Now
<1>2. ComingDt(q)' = ComingDt(q) /\ ComingPhase(q)' = ComingPhase(q)
  BY <1>1 DEF ComingDt, ComingPhase, Waits
<1>3. BeforeRadiation(q)' = BeforeRadiation(q) /\ BeforeAdvance(q)' = BeforeAdvance(q)
  BY <1>1 DEF BeforeRadiation, BeforeAdvance, Waits
<1>4. ComingDue(q)' = ComingDue(q) /\ ComingLast(q)' = ComingLast(q)
  BY <1>1, <1>2, <1>3 DEF ComingDue, ComingLast
<1>5. /\ ComingElapsed(q)' = ComingElapsed(q) /\ ComingRunning(q)' = ComingRunning(q)
      /\ ComingTime(q)' = ComingTime(q) /\ ComingIcnt(q)' = ComingIcnt(q)
  BY <1>1, <1>2, <1>3, <1>4 DEF ComingElapsed, ComingRunning, ComingTime, ComingIcnt
<1>6. ComingLog(q)' = ComingLog(q)
  BY <1>1, <1>4 DEF ComingLog
<1>7. Course(q)' = Course(q)
  BY <1>2, <1>5, <1>6 DEF Course
<1>8. ToLoop(q)' = ToLoop(q)
  BY <1>5 DEF ToLoop, OnGoing
<1>9. pc[q] = "dump_wait" => AfterDump(Len(calls[q]), q)' = AfterDump(Len(calls[q]), q)
  BY <1>8 DEF AfterDump, FromRoot
<1>10. Heading(q)' = Heading(q)
  <2>1. pc[q] \in Waits => Complete(q) /\ Complete(q)'
    BY <1>1 DEF Complete
  <2>2. pc[q] \in {"setup_wait", "step_wait", "final_wait"} => AnyRank(q)' = AnyRank(q)
    BY DEF Waits
  <2> HIDE DEF Complete
  <2> QED  BY <1>1, <1>8, <1>9, <2>1, <2>2 DEF Heading, Waits
<1> QED  BY <1>7, <1>10

\* When another rank enters a collective, nothing changes for a rank unless this
\* completes the collective that it waits in.
LEMMA EnterOthers ==
    ASSUME TypeOK, HasEntered, NEW r \in Rank, NEW op \in Ops, NEW v \in Int,
           Enter(r, op, v), UNCHANGED launch, NEW q \in Rank, q # r, Kept(q),
           pc[q] \notin Waits \/ Complete(q) \/ ~Complete(q)'
    PROVE  Heading(q)' = Heading(q) /\ Course(q)' = Course(q)
<1>1. calls'[q] = calls[q] /\ pc'[q] = pc[q] /\ Now(q)' = Now(q)
  BY EnterGrows DEF Kept
<1>2. pc[q] \in Waits =>
        /\ Entered(q) => /\ Entered(q)' /\ Values(q)' = Values(q)
                         /\ AnyRank(q)' = AnyRank(q) /\ MinOver(q)' = MinOver(q)
        /\ RootEntered(q) => RootEntered(q)' /\ FromRoot(q)' = FromRoot(q)
  <2>1. pc[q] \in Waits => calls[q] # <<>>
    BY DEF HasEntered, Waits
  <2> QED  BY <2>1, EnterKeepsValues, RankAssumption
<1>3. CASE pc[q] \in Waits /\ ~Complete(q)'
  <2>1. ~Complete(q)
    BY <1>1, <1>2, <1>3 DEF Complete
  <2>2. Heading(q) = pc[q] /\ Course(q) = Now(q)
    BY <1>3, <2>1, WaitingStands
  <2>3. Heading(q)' = pc'[q] /\ Course(q)' = Now(q)'
    BY <1>1, <1>3, WaitingStandsNext
  <2> QED  BY <1>1, <2>2, <2>3
<1>4. CASE pc[q] \in Waits => Complete(q)
  <2>1. pc[q] \in Waits \ {"dump_wait"} =>
               /\ Entered(q) /\ Entered(q)'
               /\ AnyRank(q)' = AnyRank(q) /\ MinOver(q)' = MinOver(q)
    BY <1>2, <1>4 DEF Complete
  <2>2. pc[q] = "dump_wait" =>
               RootEntered(q) /\ RootEntered(q)' /\ FromRoot(q)' = FromRoot(q)
    BY <1>2, <1>4 DEF Complete, Waits
  <2> QED  BY <1>1, <2>1, <2>2, KeptView
<1> QED  BY <1>3, <1>4

\* The names of the places.
LEMMA Places ==
    /\ \A h \in Ready : Into(h) \in Waits /\ OpFrom(h) \in Ops
    /\ \A h \in Ready : h \notin Waits \cup {"none", "success", "failure"}
    /\ \A h \in Ready : Into(h) = "dump_wait" => h = "dump"
    /\ \A r \in Rank : ToLoop(r) \in {"loop", "final"}
    /\ \A k, r : AfterDump(k, r) \in {"loop", "final"}
    /\ {"loop", "final"} \subseteq Ready
    /\ Into("dump") = "dump_wait" /\ OpFrom("dump") = "dump"
BY DEF Ready, Into, OpFrom, Waits, Ops, ToLoop, AfterDump

\* Rank r enters a collective from the place and with the data that were its
\* heading and its course.  First, what this makes of another rank q.
LEMMA EnterEach ==
    ASSUME TypeOK, HasEntered, Agreement, UNCHANGED launch,
           NEW r \in Rank, NEW op \in Ops, NEW v \in Int, Enter(r, op, v),
           Heading(r) \in Ready, pc'[r] = Into(Heading(r)), Now(r)' = Course(r),
           NEW q \in Rank, q # r, Kept(q)
    PROVE  /\ Course(q)' = Course(r)'
           /\ Len(calls'[q]) = Len(calls'[r]) => Heading(q)' = Heading(r)'
           /\ \/ Heading(q)' = Heading(q) /\ Course(q)' = Course(q) /\ Course(r)' = Course(r)
              \/ /\ Len(calls[q]) = Len(calls[r]) + 1
                 /\ pc[q] = Into(Heading(r)) /\ ~Complete(q)
<1>0. PICK n \in Nat, X \in Ready : n = Len(calls[r]) /\ X = Heading(r)
  BY EnterGrows
<1>1. /\ Len(calls'[r]) = n + 1
      /\ calls'[q] = calls[q]
      /\ \A p \in Rank : p # r => calls'[p] = calls[p]
      /\ \A p \in Rank : \A k \in 1 .. Len(calls[p]) : calls'[p][k] = calls[p][k]
      /\ \A p \in Rank : Len(calls[p]) \in Nat /\ Len(calls'[p]) >= Len(calls[p])
  BY <1>0, EnterGrows
<1>2. X \in Ready /\ X \notin Waits /\ Into(X) \in Waits /\ (Into(X) = "dump_wait" => X = "dump")
  BY Places
<1>3. Course(q) = Course(r) /\ (Len(calls[q]) = n => Heading(q) = X)
  BY <1>0 DEF Agreement, OneCourse, OneHeading
<1>4. Len(calls[q]) < n => Behind(q, r)
  BY <1>0 DEF Agreement, Stragglers
<1>5. n < Len(calls[q]) => Behind(r, q)
  BY <1>0 DEF Agreement, Stragglers
<1>6. pc'[r] = "dump_wait" \/ ~Entered(r)' => Course(r)' = Course(r)
  <2>1. CASE pc'[r] = "dump_wait" /\ RootEntered(r)'
    BY <2>1, <1>0, <1>1, DumpHeadingNext
  <2>2. CASE ~Complete(r)'
    BY <2>2, <1>0, <1>2, WaitingStandsNext
  <2>3. pc'[r] # "dump_wait" => (Complete(r)' <=> Entered(r)')
    BY DEF Complete
  <2>4. pc'[r] = "dump_wait" => (Complete(r)' <=> RootEntered(r)')
    BY DEF Complete
  <2> QED  BY <2>1, <2>2, <2>3, <2>4
<1>7. ASSUME pc[q] \notin Waits \/ Complete(q) \/ ~Complete(q)',
             Len(calls[q]) < n + 1 \/ X = "dump"
      PROVE  Heading(q)' = Heading(q) /\ Course(q)' = Course(q) /\ Course(r)' = Course(r)
  <2>1. Heading(q)' = Heading(q) /\ Course(q)' = Course(q)
    BY <1>7, EnterOthers
  <2>2. CASE Len(calls[q]) < n + 1
    <3>1. ~Entered(r)'
      BY <2>2, <1>1 DEF Entered
    <3> QED  BY <2>1, <3>1, <1>6
  <2>3. CASE X = "dump"
    BY <2>1, <2>3, <1>0, <1>6, Places
  <2> QED  BY <1>7, <2>2, <2>3
<1>8. CASE Len(calls[q]) <= n
  <2>1. Heading(q) \in Ready
    BY <1>0, <1>8, <1>1, <1>2, <1>3, <1>4 DEF Behind
  <2>2. pc[q] \in Waits => Complete(q)
    BY <2>1, Places, WaitingStands
  <2> QED  BY <2>2, <1>1, <1>3, <1>7, <1>8
<1>9. CASE Len(calls[q]) = n + 1
  <2>1. Heading(q) = IF X = "dump" /\ Len(calls[Root]) > n THEN AfterDump(n + 1, q)
                     ELSE Into(X)
    BY <1>0, <1>5, <1>9, <1>1 DEF Behind
  <2>2. CASE X = "dump" /\ Len(calls[Root]) > n
    <3>1. Heading(q) = AfterDump(n + 1, q) /\ Heading(q) \notin Waits
      BY <2>1, <2>2, Places
    <3>2. pc[q] \in Waits => Complete(q)
      BY <3>1, WaitingStands
    <3>3. Heading(q)' = Heading(q) /\ Course(q)' = Course(q) /\ Course(r)' = Course(r)
      BY <2>2, <3>2, <1>7
    <3>4. RootEntered(r)' /\ n + 1 \in 1 .. Len(calls[Root])
      BY <2>2, <1>1, RankAssumption DEF RootEntered
    <3>5. Heading(r)' = AfterDump(n + 1, r)'
      BY <2>2, <3>4, <1>0, <1>1, Places, DumpHeadingNext
    <3>6. calls'[Root][n + 1] = calls[Root][n + 1]
      BY <3>4, <1>1, RankAssumption
    <3>7. OnGoing(r)' = OnGoing(q)
      BY <3>3, <1>3 DEF Course, OnGoing
    <3>8. Heading(r)' = Heading(q)'
      BY <3>1, <3>3, <3>5, <3>6, <3>7 DEF AfterDump, ToLoop
    <3> QED  BY <3>3, <3>8, <1>3
  <2>3. CASE ~(X = "dump" /\ Len(calls[Root]) > n)
    <3>1. pc[q] = Into(X) /\ ~Complete(q)
      BY <2>1, <2>3, <1>2, HeadingWaits
    <3>2. Now(q) = Course(q)
      BY <3>1, <1>2, WaitingStands
    <3>3. Now(q)' = Now(r)' /\ pc'[q] = pc'[r] /\ Len(calls'[q]) = Len(calls'[r])
      BY <3>1, <3>2, <1>0, <1>1, <1>3, <1>9 DEF Kept
    <3> QED  BY <3>1, <3>3, <1>0, <1>2, <1>9, SameWaitNext
  <2> QED  BY <2>2, <2>3
<1>10. CASE Len(calls[q]) > n + 1
  <2>1. /\ Len(calls[q]) = n + 2 /\ X = "dump" /\ Len(calls[Root]) > n
        /\ Heading(q) = Into(AfterDump(n + 1, q))
    BY <1>0, <1>5, <1>10, <1>1 DEF Behind
  <2>2. Heading(q) \in Waits /\ Heading(q) # "dump_wait"
    BY <2>1, Places
  <2>3. pc[q] = Heading(q) /\ pc'[q] = pc[q]
    BY <2>2, HeadingWaits DEF Kept
  <2>4. ~Entered(q)'
    BY <2>1, <1>1 DEF Entered
  <2>5. ~Complete(q)'
    BY <2>2, <2>3, <2>4 DEF Complete
  <2> QED  BY <2>1, <2>5, <1>1, <1>3, <1>7
<1> QED  BY <1>0, <1>1, <1>8, <1>9, <1>10

\* The same for all pairs of ranks.
LEMMA EnterAgreement ==
    ASSUME TypeOK, HasEntered, Agreement, UNCHANGED <<launch, exitval>>,
           NEW r \in Rank, NEW v \in Int, Heading(r) \in Ready,
           Enter(r, OpFrom(Heading(r)), v),
           pc'[r] = Into(Heading(r)), Now(r)' = Course(r),
           \A q \in Rank : q # r => Kept(q), InSetup'
    PROVE  Agreement'
<1>0. PICK n \in Nat, X \in Ready, op \in Ops :
        n = Len(calls[r]) /\ X = Heading(r) /\ op = OpFrom(X)
  <2>1. Len(calls[r]) \in Nat
    BY DEF TypeOK
  <2> QED  BY <2>1, Places
<1>1. /\ Len(calls'[r]) = n + 1
      /\ calls'[r][n + 1].op = OpFrom(X)
      /\ \A p \in Rank : p # r => calls'[p] = calls[p]
      /\ \A p \in Rank : \A k \in 1 .. Len(calls[p]) : calls'[p][k] = calls[p][k]
      /\ \A p \in Rank : Len(calls[p]) \in Nat /\ Len(calls'[p]) >= Len(calls[p])
  <2>1. calls'[r][n + 1] = [op |-> op, value |-> v]
    BY <1>0, EnterGrows
  <2> QED  BY <2>1, <1>0, EnterGrows
<1>2. X \notin Waits /\ Into(X) \in Waits /\ (Into(X) = "dump_wait" => X = "dump")
  BY Places
<1>3. ASSUME NEW q \in Rank, q # r
      PROVE  /\ Course(q)' = Course(r)'
             /\ Len(calls'[q]) = Len(calls'[r]) => Heading(q)' = Heading(r)'
             /\ \/ Heading(q)' = Heading(q) /\ Course(q)' = Course(q)
                \/ Len(calls[q]) = n + 1 /\ pc[q] = Into(X) /\ ~Complete(q)
             /\ Len(calls[q]) # n + 1 =>
                  Heading(q)' = Heading(q) /\ Course(q)' = Course(q) /\ Course(r)' = Course(r)
  BY <1>0, <1>3, EnterEach
<1>4. /\ OneCourse /\ OneHeading /\ Stragglers /\ CollectivesMatch /\ Decided
  BY DEF Agreement
<1>5. OneCourse'
  <2>1. \A q \in Rank : Course(q)' = Course(r)'
    BY <1>3
  <2> QED  BY <2>1 DEF OneCourse
<1>6. OneHeading'
  <2>1. ASSUME NEW p \in Rank, NEW q \in Rank, Len(calls'[p]) = Len(calls'[q])
        PROVE  Heading(p)' = Heading(q)'
    <3>1. CASE Len(calls'[p]) = n + 1
      BY <3>1, <2>1, <1>1, <1>3
    <3>2. CASE Len(calls'[p]) # n + 1
      BY <3>2, <2>1, <1>1, <1>3, <1>4 DEF OneHeading
    <3> QED  BY <3>1, <3>2
  <2> QED  BY <2>1 DEF OneHeading
<1>7. CollectivesMatch'
  <2>1. ASSUME NEW q \in Rank, q # r, NEW k \in 1 .. Len(calls[q]), k <= n + 1
        PROVE  calls'[q][k].op = calls'[r][k].op
    <3>1. CASE k = n + 1
      <4>1. Behind(r, q)
        BY <3>1, <1>0, <1>1, <1>4 DEF Stragglers
      <4> QED  BY <4>1, <3>1, <2>1, <1>0, <1>1 DEF Behind
    <3>2. CASE k <= n
      <4>1. k \in 1 .. Len(calls[r])
        BY <3>2, <1>0
      <4>2. calls'[q][k] = calls[q][k] /\ calls'[r][k] = calls[r][k]
        BY <4>1, <1>1
      <4> QED  BY <4>1, <4>2, <1>4 DEF CollectivesMatch
    <3> QED  BY <3>1, <3>2, <2>1, <1>0
  <2>2. ASSUME NEW p \in Rank, NEW q \in Rank, NEW k \in 1 .. Len(calls'[p]),
               k <= Len(calls'[q])
        PROVE  calls'[p][k].op = calls'[q][k].op
    <3>1. CASE p # r /\ q # r
      BY <3>1, <2>2, <1>1, <1>4 DEF CollectivesMatch
    <3>2. CASE p = r /\ q # r
      BY <3>2, <2>1, <2>2, <1>1
    <3>3. CASE p # r /\ q = r
      BY <3>3, <2>1, <2>2, <1>1
    <3> QED  BY <3>1, <3>2, <3>3
  <2> QED  BY <2>2 DEF CollectivesMatch
<1>8. Decided'
  <2>1. pc'[r] \notin {"cleanup", "done"} /\ pc[r] \notin {"cleanup", "done"}
    <3>1. exitval[r] \in {"none", "success", "failure"}
      BY DEF TypeOK
    <3>2. Heading(r) # exitval[r]
      BY <1>0, <3>1, Places
    <3>3. pc[r] \notin {"cleanup", "done"}
      BY <3>2 DEF Heading, Waits
    <3> QED  BY <3>3, <1>0, <1>2 DEF Waits
  <2>2. \A q \in Rank : q # r => pc'[q] = pc[q]
    BY DEF Kept
  <2> QED  BY <2>1, <2>2, <1>4 DEF Decided
<1>9. Stragglers'
  \* A rank that is in r's new collective, seen from one that is in r's last.
  <2>1. ASSUME NEW p \in Rank, NEW s \in Rank, Len(calls'[p]) = n,
               Len(calls'[s]) = n + 1, pc'[s] = Into(X)
        PROVE  Heading(s)' = IF X = "dump" /\ Len(calls'[Root]) > n
                             THEN AfterDump(n + 1, s)' ELSE Into(X)
    <3>1. CASE X = "dump" /\ Len(calls'[Root]) > n
      <4>1. RootEntered(s)' /\ pc'[s] = "dump_wait"
        BY <3>1, <2>1, <1>1, RankAssumption, Places DEF RootEntered
      <4> QED  BY <4>1, <3>1, <2>1, <1>0, DumpHeadingNext
    <3>2. CASE ~(X = "dump" /\ Len(calls'[Root]) > n)
      <4>1. ~Entered(s)'
        BY <2>1 DEF Entered
      <4>2. X = "dump" => ~RootEntered(s)'
        BY <3>2, <2>1, <1>0, <1>1, RankAssumption DEF RootEntered
      <4>3. ~Complete(s)'
        BY <4>1, <4>2, <2>1, <1>2 DEF Complete
      <4> QED  BY <4>3, <3>2, <2>1, <1>2, WaitingStandsNext
    <3> QED  BY <3>1, <3>2
  \* A rank behind r has the broadcast before r's new collective to go through.
  <2>2. ASSUME NEW p \in Rank, Len(calls[p]) < n
        PROVE  /\ p # r /\ Len(calls[p]) = n - 1 /\ Heading(p) = "dump"
               /\ n \in 1 .. Len(calls[Root]) /\ X = AfterDump(n, r)
               /\ calls[r][n].op = OpFrom("dump")
    <3>1. Behind(p, r)
      BY <2>2, <1>0, <1>4 DEF Stragglers
    <3>2. Len(calls[p]) \in Nat
      BY <1>1
    <3> QED  BY <3>1, <3>2, <2>2, <1>0, <1>1, <1>2, Places, RankAssumption DEF Behind
  \* The decision of the root stands.
  <2>3. ASSUME NEW p \in Rank, NEW k \in 1 .. Len(calls[Root]), Course(p)' = Course(p)
        PROVE  AfterDump(k, p)' = AfterDump(k, p)
    <3>1. OnGoing(p)' = OnGoing(p)
      BY <2>3 DEF OnGoing, Course
    <3> QED  BY <3>1, <1>1, RankAssumption DEF AfterDump, ToLoop
  <2>4. ASSUME NEW p \in Rank, Len(calls'[p]) < Len(calls'[r])  PROVE Behind(p, r)'
    <3>1. p # r /\ calls'[p] = calls[p] /\ Len(calls[p]) \in Nat /\ Len(calls[p]) <= n
      BY <2>4, <1>0, <1>1
    <3>2. CASE Len(calls[p]) = n
      <4>1. Heading(p)' = X
        BY <3>1, <3>2, <1>0, <1>3, <1>4 DEF OneHeading
      <4>2. Heading(r)' = IF X = "dump" /\ Len(calls'[Root]) > n
                          THEN AfterDump(n + 1, r)' ELSE Into(X)
        BY <2>1, <3>1, <3>2, <1>0, <1>1
      <4> QED  BY <4>1, <4>2, <3>1, <3>2, <1>1 DEF Behind
    <3>3. CASE Len(calls[p]) < n
      <4>1. /\ Len(calls[p]) = n - 1 /\ Heading(p) = "dump"
            /\ n \in 1 .. Len(calls[Root]) /\ X = AfterDump(n, r)
            /\ calls[r][n].op = OpFrom("dump")
        BY <3>3, <2>2
      <4>2. Heading(p)' = Heading(p) /\ Course(r)' = Course(r)
        BY <4>1, <3>1, <1>3
      <4>3. AfterDump(n, r)' = X
        BY <4>1, <4>2, <2>3
      <4>4. ~Entered(r)'
        BY <4>1, <3>1, <1>1 DEF Entered
      <4>5. ~Complete(r)' /\ pc'[r] = Into(X)
        BY <4>1, <4>4, <1>0, <1>2, Places DEF Complete
      <4>6. Heading(r)' = Into(X)
        BY <4>5, <1>2, WaitingStandsNext
      <4>7. PICK k \in Nat : n = k + 1 /\ Len(calls'[p]) = k
        BY <4>1, <3>1
      <4>8. calls'[r][k + 1].op = OpFrom("dump")
        <5>1. calls'[r][k + 1] = calls[r][k + 1]
          BY <4>7, <1>0, <1>1
        <5> QED  BY <5>1, <4>1, <4>7
      <4>9. Len(calls'[Root]) > k
        BY <4>1, <4>7, <1>1, RankAssumption
      <4>10. /\ calls'[r][k + 2].op = OpFrom(AfterDump(k + 1, r)')
             /\ Heading(r)' = Into(AfterDump(k + 1, r)')
             /\ Len(calls'[r]) = k + 2
        BY <4>3, <4>6, <4>7, <1>1
      <4> QED  BY <4>1, <4>2, <4>7, <4>8, <4>9, <4>10 DEF Behind, Ready
    <3> QED  BY <3>1, <3>2, <3>3
  <2>5. ASSUME NEW s \in Rank, Len(calls'[r]) < Len(calls'[s])  PROVE Behind(r, s)'
    <3>1. s # r /\ calls'[s] = calls[s] /\ Len(calls[s]) > n + 1
      BY <2>5, <1>1
    <3>2. Behind(r, s)
      BY <3>1, <1>0, <1>1, <1>4 DEF Stragglers
    <3>3. PICK Y \in {"loop", "final"} : Y = AfterDump(n + 1, s)
      BY Places
    <3>4. /\ Len(calls[s]) = n + 2 /\ X = "dump" /\ n + 1 \in 1 .. Len(calls[Root])
          /\ calls[s][n + 2].op = OpFrom(Y) /\ Heading(s) = Into(Y)
      BY <3>1, <3>2, <3>3, <1>0, <1>1, RankAssumption DEF Behind
    <3>5. Heading(s)' = Into(Y) /\ Course(s)' = Course(s) /\ Course(s)' = Course(r)'
      BY <3>1, <3>4, <1>3
    <3>6. AfterDump(n + 1, s)' = Y
      BY <3>3, <3>4, <3>5, <2>3
    <3>7. OnGoing(r)' = OnGoing(s)'
      BY <3>5 DEF OnGoing, Course
    <3>8. AfterDump(n + 1, r)' = Y
      BY <3>6, <3>7 DEF AfterDump, ToLoop
    <3>9. RootEntered(r)' /\ pc'[r] = "dump_wait"
      BY <3>4, <1>0, <1>1, RankAssumption, Places DEF RootEntered
    <3>10. Heading(r)' = Y
      BY <3>8, <3>9, <1>0, <1>1, DumpHeadingNext
    <3>11. calls'[s][n + 2].op = OpFrom(Y) /\ Len(calls'[s]) = n + 2
      BY <3>1, <3>4
    <3> QED  BY <3>5, <3>10, <3>11, <1>0, <1>1, Places DEF Behind
  <2>6. ASSUME NEW p \in Rank, NEW s \in Rank, p # r, s # r,
               Len(calls'[p]) < Len(calls'[s])
        PROVE  Behind(p, s)'
    <3>0. PICK k \in Nat : k = Len(calls[p])
      BY <1>1
    <3>1. calls'[p] = calls[p] /\ calls'[s] = calls[s] /\ Behind(p, s)
      BY <2>6, <1>1, <1>4 DEF Stragglers
    <3>2. Heading(p) \in Ready /\ Heading(p)' = Heading(p)
      <4>1. Heading(p) \in Ready
        BY <3>1 DEF Behind
      <4> QED  BY <4>1, <2>6, <1>2, <1>3, Places, WaitingStands
    <3>3. calls'[s][k + 1].op = OpFrom(Heading(p)')
      BY <3>0, <3>1, <3>2 DEF Behind
    <3>4. CASE k = n /\ Len(calls[s]) = n + 1
      <4>1. Heading(p) = X
        BY <3>0, <3>4, <1>0, <1>4 DEF OneHeading
      <4>2. Heading(s) = IF X = "dump" /\ Len(calls[Root]) > n THEN AfterDump(n + 1, s)
                         ELSE Into(X)
        BY <4>1, <3>0, <3>1, <3>4 DEF Behind
      <4>3. CASE X = "dump" /\ Len(calls[Root]) > n
        <5>1. Heading(s) \notin Waits /\ n + 1 \in 1 .. Len(calls[Root])
          BY <4>2, <4>3, <1>0, <1>1, Places, RankAssumption
        <5>2. Heading(s)' = Heading(s) /\ Course(s)' = Course(s)
          BY <5>1, <2>6, <1>2, <1>3, WaitingStands
        <5>3. AfterDump(n + 1, s)' = Heading(s)
          BY <5>1, <5>2, <4>2, <4>3, <2>3
        <5>4. Len(calls'[Root]) > n
          BY <4>3, <1>0, <1>1, RankAssumption
        <5> QED  BY <5>2, <5>3, <5>4, <4>1, <4>3, <3>0, <3>1, <3>2, <3>3, <3>4 DEF Behind
      <4>4. CASE ~(X = "dump" /\ Len(calls[Root]) > n)
        <5>1. pc'[s] = Into(X)
          BY <4>2, <4>4, <2>6, <1>2, HeadingWaits DEF Kept
        <5>2. Heading(s)' = IF X = "dump" /\ Len(calls'[Root]) > n
                            THEN AfterDump(n + 1, s)' ELSE Into(X)
          BY <5>1, <2>1, <3>0, <3>1, <3>4
        <5> QED  BY <5>2, <4>1, <3>0, <3>1, <3>2, <3>3, <3>4 DEF Behind
      <4> QED  BY <4>3, <4>4
    <3>5. CASE ~(k = n /\ Len(calls[s]) = n + 1)
      <4>1. Heading(s)' = Heading(s) /\ Course(s)' = Course(s)
        <5>1. CASE Len(calls[s]) = n + 1
          <6>1. Len(calls[p]) < n
            BY <5>1, <3>0, <3>1, <3>5, <2>6
          <6>2. X \in {"loop", "final"}
            BY <6>1, <2>2, Places
          <6>3. ~Entered(s)'
            BY <2>6 DEF Entered
          <6>4. pc[s] = Into(X) => ~Complete(s)'
            BY <6>2, <6>3, <1>2, <2>6, Places DEF Complete, Kept
          <6>5. ASSUME pc[s] = Into(X), ~Complete(s)
                PROVE  Heading(s)' = Heading(s) /\ Course(s)' = Course(s)
            BY <6>4, <6>5, <1>2, <2>6, WaitingStands, WaitingStandsNext DEF Kept
          <6> QED  BY <6>5, <2>6, <1>3
        <5>2. CASE Len(calls[s]) # n + 1
          BY <5>2, <2>6, <1>3
        <5> QED  BY <5>1, <5>2
      <4>2. Heading(p) = "dump" => (Len(calls'[Root]) > k <=> Len(calls[Root]) > k)
        <5>1. SUFFICES ASSUME Heading(p) = "dump", Len(calls'[Root]) > k, Len(calls[Root]) <= k
                       PROVE  FALSE
          BY <1>1, <3>0, RankAssumption
        <5>2. r = Root /\ n = k
          BY <5>1, <1>0, <1>1, <3>0, RankAssumption
        <5>3. Len(calls[s]) = n + 1
          BY <5>1, <5>2, <3>0, <3>1 DEF Behind
        <5> QED  BY <5>2, <5>3, <3>5
      <4>3. Len(calls[Root]) > k => AfterDump(k + 1, s)' = AfterDump(k + 1, s)
        <5>1. Len(calls[Root]) > k => k + 1 \in 1 .. Len(calls[Root])
          BY <1>1, <3>0, RankAssumption
        <5> QED  BY <5>1, <4>1, <2>3
      <4>4. CASE Len(calls[s]) = k + 1
        <5>1. Heading(s) = IF Heading(p) = "dump" /\ Len(calls[Root]) > k
                           THEN AfterDump(k + 1, s) ELSE Into(Heading(p))
          BY <4>4, <3>0, <3>1 DEF Behind
        <5>2. Heading(s)' = IF Heading(p)' = "dump" /\ Len(calls'[Root]) > k
                           THEN AfterDump(k + 1, s)' ELSE Into(Heading(p)')
          BY <5>1, <4>1, <4>2, <4>3, <3>2
        <5> QED  BY <5>2, <4>4, <3>0, <3>1, <3>2, <3>3 DEF Behind
      <4>5. CASE Len(calls[s]) # k + 1
        <5>1. /\ Len(calls[s]) = k + 2 /\ Heading(p) = "dump" /\ Len(calls[Root]) > k
              /\ calls[s][k + 2].op = OpFrom(AfterDump(k + 1, s))
              /\ Heading(s) = Into(AfterDump(k + 1, s))
          BY <4>5, <3>0, <3>1 DEF Behind
        <5>2. /\ calls'[s][k + 2].op = OpFrom(AfterDump(k + 1, s)')
              /\ Heading(s)' = Into(AfterDump(k + 1, s)')
              /\ Len(calls'[Root]) > k
          BY <5>1, <4>1, <4>2, <4>3, <3>1
        <5> QED  BY <5>1, <5>2, <3>0, <3>1, <3>2, <3>3 DEF Behind
      <4> QED  BY <4>4, <4>5
    <3> QED  BY <3>4, <3>5
  <2> QED  BY <2>4, <2>5, <2>6 DEF Stragglers
<1> QED  BY <1>5, <1>6, <1>7, <1>8, <1>9 DEF Agreement

-------------------------------------------------------------------------------
(***************************************************************************)
(* The other steps: they change neither the heading nor the course.        *)
(***************************************************************************)
\* Away from the time step and from the end of a set-up phase, the course of a
\* rank is what it has.
LEMMA Standing ==
    \A r \in Rank :
        pc[r] \in {"setup", "loop", "step_wait", "timer_wait", "dump_wait", "final",
                   "final_wait", "cleanup"} => Course(r) = Now(r)
<1> SUFFICES ASSUME NEW r \in Rank,
                    pc[r] \in {"setup", "loop", "step_wait", "timer_wait", "dump_wait",
                               "final", "final_wait", "cleanup"}
             PROVE  Course(r) = Now(r)
  OBVIOUS
<1>1. ~BeforeRadiation(r) /\ ~BeforeAdvance(r) /\ ~ComingDue(r)
  BY DEF BeforeRadiation, BeforeAdvance, ComingDue
<1>2. ComingDt(r) = dt[r] /\ ComingPhase(r) = phase[r] /\ ComingLog(r) = log[r]
  BY <1>1 DEF ComingDt, ComingPhase, ComingLog
<1>3. ComingElapsed(r) = elapsed[r] /\ ComingRunning(r) = running[r]
      /\ ComingTime(r) = time[r] /\ ComingIcnt(r) = icnt[r]
  BY <1>1 DEF ComingElapsed, ComingRunning, ComingTime, ComingIcnt
<1> QED  BY <1>2, <1>3 DEF Course, Now

LEMMA StandingNext ==
    (\A r \in Rank :
        pc[r] \in {"setup", "loop", "step_wait", "timer_wait", "dump_wait", "final",
                   "final_wait", "cleanup"} => Course(r) = Now(r))'
BY Standing, PTL

\* With the course, the decision to stay in the loop is the same.
LEMMA SameCourseLoop ==
    ASSUME NEW r \in Rank, Course(r)' = Course(r)
    PROVE  ToLoop(r)' = ToLoop(r) /\ OnGoing(r)' = OnGoing(r)
BY DEF ToLoop, OnGoing, Course

\* A rank that does nothing, while no rank enters a collective.
LEMMA QuietOthers ==
    ASSUME NEW q \in Rank, Kept(q), UNCHANGED <<launch, calls>>
    PROVE  Heading(q)' = Heading(q) /\ Course(q)' = Course(q)
<1>1. /\ (Entered(q)' <=> Entered(q)) /\ AnyRank(q)' = AnyRank(q)
      /\ MinOver(q)' = MinOver(q)
      /\ (RootEntered(q)' <=> RootEntered(q)) /\ FromRoot(q)' = FromRoot(q)
  BY DEF Entered, AnyRank, MinOver, Values, RootEntered, FromRoot
<1>2. (Complete(q)' <=> Complete(q)) /\ pc'[q] = pc[q] /\ Now(q)' = Now(q)
  BY <1>1 DEF Complete, Kept
<1>3. CASE pc[q] \in Waits /\ ~Complete(q)
  BY <1>2, <1>3, WaitingStands, WaitingStandsNext
<1>4. CASE pc[q] \in Waits => Complete(q)
  <2>1. pc[q] \in Waits \ {"dump_wait"} => Entered(q) /\ Entered(q)'
    BY <1>1, <1>4 DEF Complete
  <2>2. pc[q] = "dump_wait" => RootEntered(q) /\ RootEntered(q)'
    BY <1>1, <1>4 DEF Complete, Waits
  <2> QED  BY <1>1, <2>1, <2>2, KeptView
<1> QED  BY <1>3, <1>4

LEMMA QuietAgreement ==
    ASSUME Agreement, UNCHANGED <<launch, calls>>, InSetup', Decided',
           \A q \in Rank : Heading(q)' = Heading(q) /\ Course(q)' = Course(q)
    PROVE  Agreement'
<1>1. OneCourse' /\ OneHeading' /\ CollectivesMatch'
  BY DEF Agreement, OneCourse, OneHeading, CollectivesMatch
<1>2. \A q \in Rank : \A k : AfterDump(k, q)' = AfterDump(k, q)
  BY SameCourseLoop DEF AfterDump
<1>3. ASSUME NEW p \in Rank, NEW q \in Rank, Len(calls'[p]) < Len(calls'[q])
      PROVE  Behind(p, q)'
  <2>1. Behind(p, q)
    BY <1>3 DEF Agreement, Stragglers
  <2> QED  BY <2>1, <1>2 DEF Behind
<1> QED  BY <1>1, <1>3 DEF Agreement, Stragglers

\* One rank moves between two collectives.
LEMMA MoveAgreement ==
    ASSUME Agreement, UNCHANGED <<launch, calls>>, NEW r \in Rank,
           \A q \in Rank : q # r => Kept(q),
           Heading(r)' = Heading(r), Course(r)' = Course(r),
           pc'[r] \in {"setup", "setup_wait"} => phase'[r] \in 1 .. SetupPhases,
           exitval'[r] # "none" <=> pc'[r] \in {"cleanup", "done"}
    PROVE  Agreement'
<1>1. \A q \in Rank : Heading(q)' = Heading(q) /\ Course(q)' = Course(q)
  BY QuietOthers
<1>2. InSetup'
  BY DEF Agreement, InSetup, Kept, Now
<1>3. Decided'
  BY DEF Agreement, Decided, Kept
<1> QED  BY <1>1, <1>2, <1>3, QuietAgreement

\* A step of r leaves the data of the other ranks alone.
LEMMA OthersKept ==
    ASSUME TypeOK, NEW r \in Rank, Step(r), NEW q \in Rank, q # r
    PROVE  Kept(q)
<1>1. pc'[q] = pc[q] /\ exitval'[q] = exitval[q] /\ phase'[q] = phase[q]
  BY DEF Step, SetupWork, SetupLeave, StepBegin, StepDt, RadiationOff, RadiationNotDue,
     RadiationDue, Advance, StepLeave, TimerLeave, DumpLeave, LoopEnd, FinalOutput,
     FinalLeave, Cleanup, Goto, Abort, local, TypeOK
<1>2. /\ icnt'[q] = icnt[q] /\ time'[q] = time[q]
      /\ elapsed'[q] = elapsed[q] /\ running'[q] = running[q]
  BY DEF Step, SetupWork, SetupLeave, StepBegin, StepDt, RadiationOff, RadiationNotDue,
     RadiationDue, Advance, StepLeave, TimerLeave, DumpLeave, LoopEnd, FinalOutput,
     FinalLeave, Cleanup, local, TypeOK
<1>3. dt'[q] = dt[q]
  BY DEF Step, SetupWork, SetupLeave, StepBegin, StepDt, RadiationOff, RadiationNotDue,
     RadiationDue, Advance, StepLeave, TimerLeave, DumpLeave, LoopEnd, FinalOutput,
     FinalLeave, Cleanup, local, TypeOK
<1>4. log'[q] = log[q]
  BY DEF Step, SetupWork, SetupLeave, StepBegin, StepDt, RadiationOff, RadiationNotDue,
     RadiationDue, Advance, StepLeave, TimerLeave, DumpLeave, LoopEnd, FinalOutput,
     FinalLeave, Cleanup, Exchange, local, TypeOK
<1> QED  BY <1>1, <1>2, <1>3, <1>4 DEF Kept, Now

LEMMA SetupWorkAgreement ==
    ASSUME Inv, Agreement, NEW r \in Rank, Step(r), SetupWork(r) PROVE Agreement'
<1>1. TypeOK /\ HasEntered /\ \A q \in Rank : q # r => Kept(q)
  BY OthersKept DEF Inv
<1>2. PICK s \in Int : Enter(r, "any_rank", s)
  BY <1>1 DEF SetupWork, Worsen, TypeOK, Bit
<1>3. /\ pc[r] = "setup" /\ pc' = [pc EXCEPT ![r] = "setup_wait"] /\ Now(r)' = Now(r)
      /\ UNCHANGED <<launch, exitval, phase>>
  BY DEF SetupWork, Step, Goto, Now
<1>4. Heading(r) = "setup" /\ Course(r) = Now(r)
  BY <1>3, Standing DEF Heading, Waits
<1>5. pc'[r] = Into("setup") /\ OpFrom("setup") = "any_rank" /\ "setup" \in Ready
  BY <1>1, <1>3 DEF TypeOK, Into, OpFrom, Ready
<1>6. InSetup'
  BY <1>1, <1>3 DEF Agreement, InSetup, TypeOK
<1> QED  BY <1>1, <1>2, <1>3, <1>4, <1>5, <1>6, EnterAgreement

\* A decision to abort is taken by all the ranks, for they have the same values.
LEMMA SetupLeaveAgreement ==
    ASSUME Inv, Agreement, NEW r \in Rank, Step(r), SetupLeave(r) PROVE Agreement'
<1>1. TypeOK /\ \A q \in Rank : q # r => Kept(q)
  BY OthersKept DEF Inv
<1>2. /\ pc[r] = "setup_wait" /\ Entered(r) /\ UNCHANGED <<launch, calls>>
      /\ UNCHANGED <<dt, elapsed, running, log, time, icnt>>
      /\ phase[r] \in 1 .. SetupPhases /\ exitval[r] = "none"
  BY <1>1 DEF SetupLeave, Step, Agreement, InSetup, Decided
<1>3. ~BeforeRadiation(r) /\ ~BeforeAdvance(r) /\ ~ComingDue(r)
  BY <1>2 DEF BeforeRadiation, BeforeAdvance, ComingDue
<1>4. /\ ComingDt(r) = dt[r] /\ ComingLog(r) = log[r]
      /\ ComingElapsed(r) = elapsed[r] /\ ComingRunning(r) = running[r]
      /\ ComingTime(r) = time[r] /\ ComingIcnt(r) = icnt[r]
  BY <1>2, <1>3 DEF ComingDt, ComingLog, ComingElapsed, ComingRunning, ComingTime, ComingIcnt
<1>5. CASE AnyRank(r)
  <2>1. /\ pc' = [pc EXCEPT ![r] = "cleanup"] /\ exitval' = [exitval EXCEPT ![r] = "failure"]
        /\ phase' = phase
    BY <1>5 DEF SetupLeave, Abort, Goto
  <2>2. pc'[r] = "cleanup" /\ exitval'[r] = "failure"
    BY <2>1, <1>1 DEF TypeOK
  <2>3. Heading(r) = "failure" /\ Heading(r)' = "failure"
    BY <1>2, <1>5, <2>2 DEF Heading, Waits, Complete
  <2>4. Course(r) = Now(r) /\ Now(r)' = Now(r) /\ Course(r)' = Now(r)'
    BY <1>2, <1>4, <1>5, <2>1, <2>2, StandingNext DEF Course, Now, ComingPhase
  <2> QED  BY <1>1, <1>2, <2>2, <2>3, <2>4, MoveAgreement
<1>6. CASE ~AnyRank(r)
  <2>1. /\ pc' = [pc EXCEPT ![r] = IF phase[r] = SetupPhases THEN "loop" ELSE "setup"]
        /\ phase' = [phase EXCEPT ![r] = @ + 1] /\ exitval' = exitval
    BY <1>6 DEF SetupLeave, Goto
  <2>2. /\ pc'[r] = IF phase[r] = SetupPhases THEN "loop" ELSE "setup"
        /\ phase'[r] = phase[r] + 1 /\ exitval'[r] = "none"
    BY <2>1, <1>1, <1>2 DEF TypeOK
  <2>3. Course(r)' = Course(r)
    <3>1. Course(r)' = Now(r)'
      BY <2>2, StandingNext
    <3>2. Course(r) = Now(r)'
      BY <1>2, <1>4, <1>6, <2>2 DEF Course, Now, ComingPhase
    <3> QED  BY <3>1, <3>2
  <2>4. Heading(r)' = Heading(r)
    <3>1. Heading(r) = IF phase[r] = SetupPhases THEN ToLoop(r) ELSE "setup"
      BY <1>2, <1>6 DEF Heading, Waits, Complete
    <3>2. Heading(r)' = IF phase[r] = SetupPhases THEN ToLoop(r)' ELSE "setup"
      <4>1. pc'[r] = "loop" => Heading(r)' = ToLoop(r)'
        BY DEF Heading, Waits
      <4>2. pc'[r] = "setup" => Heading(r)' = "setup"
        BY DEF Heading, Waits
      <4> QED  BY <4>1, <4>2, <2>2
    <3> QED  BY <3>1, <3>2, <2>3, SameCourseLoop
  <2>5. pc'[r] \in {"setup", "setup_wait"} => phase'[r] \in 1 .. SetupPhases
    BY <1>2, <2>2 DEF SetupPhases
  <2> QED  BY <1>1, <1>2, <2>2, <2>3, <2>4, <2>5, MoveAgreement
<1> QED  BY <1>5, <1>6

LEMMA StepBeginAgreement ==
    ASSUME Inv, Agreement, NEW r \in Rank, Step(r), StepBegin(r) PROVE Agreement'
<1>1. TypeOK /\ HasEntered /\ \A q \in Rank : q # r => Kept(q)
  BY OthersKept DEF Inv
<1>2. PICK d \in Int : Enter(r, "dt", d)
  BY TimeAssumption DEF StepBegin
<1>3. /\ pc[r] = "loop" /\ pc' = [pc EXCEPT ![r] = "dt_wait"] /\ Now(r)' = Now(r)
      /\ UNCHANGED <<launch, exitval, phase>> /\ InLoop(r)
  BY DEF StepBegin, Step, Goto, Now, local
<1>4. Course(r) = Now(r)
  BY <1>3, Standing
<1>5. Heading(r) = "loop"
  BY <1>3, <1>4 DEF Heading, Waits, ToLoop, OnGoing, InLoop, Course, Now
<1>6. pc'[r] = Into("loop") /\ OpFrom("loop") = "dt" /\ "loop" \in Ready
  BY <1>1, <1>3 DEF TypeOK, Into, OpFrom, Ready
<1>7. InSetup'
  BY <1>1, <1>3 DEF Agreement, InSetup, TypeOK
<1> QED  BY <1>1, <1>2, <1>3, <1>4, <1>5, <1>6, <1>7, EnterAgreement

LEMMA AdvanceAgreement ==
    ASSUME Inv, Agreement, NEW r \in Rank, Step(r), Advance(r) PROVE Agreement'
<1>1. TypeOK /\ HasEntered /\ \A q \in Rank : q # r => Kept(q)
  BY OthersKept DEF Inv
<1>2. PICK s \in Int : Enter(r, "any_rank", s)
  BY <1>1 DEF Advance, Worsen, TypeOK, Bit
<1>3. /\ pc[r] = "advance" /\ pc' = [pc EXCEPT ![r] = "step_wait"]
      /\ UNCHANGED <<launch, exitval, phase, dt, elapsed, running, log>>
      /\ time'[r] = time[r] + dt[r] /\ icnt'[r] = icnt[r] + 1
  BY <1>1 DEF Advance, Step, Goto, TypeOK
<1>4. Course(r) = Now(r)'
  <2>1. BeforeAdvance(r) /\ ~BeforeRadiation(r) /\ ~ComingDue(r) /\ ComingDt(r) = dt[r]
    BY <1>3 DEF BeforeAdvance, BeforeRadiation, ComingDue, ComingDt
  <2>2. ComingTime(r) = time'[r] /\ ComingIcnt(r) = icnt'[r]
    BY <2>1, <1>3 DEF ComingTime, ComingIcnt
  <2>3. /\ ComingPhase(r) = phase[r] /\ ComingElapsed(r) = elapsed[r]
        /\ ComingRunning(r) = running[r] /\ ComingLog(r) = log[r]
    BY <2>1, <1>3 DEF ComingPhase, ComingElapsed, ComingRunning, ComingLog
  <2> QED  BY <2>1, <2>2, <2>3, <1>3 DEF Course, Now
<1>5. Heading(r) = "advance"
  BY <1>3 DEF Heading, Waits
<1>6. pc'[r] = Into("advance") /\ OpFrom("advance") = "any_rank" /\ "advance" \in Ready
  BY <1>1, <1>3 DEF TypeOK, Into, OpFrom, Ready
<1>7. InSetup'
  BY <1>1, <1>3 DEF Agreement, InSetup, TypeOK
<1> QED  BY <1>1, <1>2, <1>3, <1>4, <1>5, <1>6, <1>7, EnterAgreement

\* The smallest proposed time step is the same whichever rank looks for it.
LEMMA StepDtAgreement ==
    ASSUME Inv, Agreement, NEW r \in Rank, Step(r), StepDt(r) PROVE Agreement'
<1>1. TypeOK /\ \A q \in Rank : q # r => Kept(q)
  BY OthersKept DEF Inv
<1>2. /\ pc[r] = "dt_wait" /\ Entered(r) /\ pc' = [pc EXCEPT ![r] = "radiation"]
      /\ UNCHANGED <<launch, calls, phase, elapsed, running, log, time, icnt, exitval>>
  BY DEF StepDt, Step, Goto
<1>3. pc'[r] = "radiation"
  BY <1>1, <1>2 DEF TypeOK
<1>4. dt'[r] = Only(MinOver(r))
  <2>1. PICK d \in MinOver(r) : dt' = [dt EXCEPT ![r] = d]
    BY DEF StepDt
  <2>2. Values(r) \subseteq Int
    BY <1>1, <1>2, ValuesAreInt DEF Inv, HasEntered
  <2>3. Only(MinOver(r)) \in MinOver(r)
    BY <2>1 DEF Only
  <2>4. Only(MinOver(r)) \in Int /\ d \in Int /\ Only(MinOver(r)) <= d /\ d <= Only(MinOver(r))
    BY <2>1, <2>2, <2>3 DEF MinOver
  <2>5. Only(MinOver(r)) = d
    BY <2>4
  <2> QED  BY <2>1, <2>5, <1>1 DEF TypeOK
<1>5. ComingDt(r) = dt'[r] /\ ComingDt(r)' = dt'[r]
  BY <1>2, <1>3, <1>4 DEF ComingDt
<1>6. BeforeRadiation(r) /\ BeforeRadiation(r)' /\ BeforeAdvance(r) /\ BeforeAdvance(r)'
  BY <1>2, <1>3 DEF BeforeRadiation, BeforeAdvance
<1>7. ComingDue(r)' = ComingDue(r) /\ ComingLast(r)' = ComingLast(r)
  BY <1>2, <1>5, <1>6 DEF ComingDue, ComingLast
<1>8. /\ ComingElapsed(r)' = ComingElapsed(r) /\ ComingRunning(r)' = ComingRunning(r)
      /\ ComingTime(r)' = ComingTime(r) /\ ComingIcnt(r)' = ComingIcnt(r)
  BY <1>2, <1>5, <1>6, <1>7 DEF ComingElapsed, ComingRunning, ComingTime, ComingIcnt
<1>9. ComingLog(r)' = ComingLog(r) /\ ComingPhase(r)' = ComingPhase(r)
  BY <1>2, <1>3, <1>7 DEF ComingLog, ComingPhase
<1>10. Course(r)' = Course(r)
  BY <1>5, <1>8, <1>9 DEF Course
<1>11. Heading(r) = "advance" /\ Heading(r)' = "advance"
  BY <1>2, <1>3 DEF Heading, Complete, Waits
<1>12. exitval'[r] = "none"
  BY <1>2 DEF Agreement, Decided
<1> QED  BY <1>1, <1>2, <1>3, <1>10, <1>11, <1>12, MoveAgreement

LEMMA RadiationAgreement ==
    ASSUME Inv, Agreement, NEW r \in Rank, Step(r),
           RadiationOff(r) \/ RadiationNotDue(r) \/ RadiationDue(r)
    PROVE  Agreement'
<1>1. TypeOK /\ \A q \in Rank : q # r => Kept(q)
  BY OthersKept DEF Inv
<1>2. /\ pc[r] = "radiation" /\ pc' = [pc EXCEPT ![r] = "advance"]
      /\ UNCHANGED <<launch, calls, phase, dt, time, icnt, exitval>>
  BY DEF RadiationOff, RadiationNotDue, RadiationDue, Step, Goto, local
<1>3. pc'[r] = "advance"
  BY <1>1, <1>2 DEF TypeOK
<1>4. ComingDt(r) = dt[r] /\ ComingDt(r)' = dt[r]
  BY <1>2, <1>3 DEF ComingDt
<1>5. /\ BeforeRadiation(r) /\ ~BeforeRadiation(r)' /\ BeforeAdvance(r) /\ BeforeAdvance(r)'
      /\ ~ComingDue(r)'
  BY <1>2, <1>3 DEF BeforeRadiation, BeforeAdvance, ComingDue
<1>6. ComingDue(r) <=> launch.radiation /\ Due(r)
  BY <1>4, <1>5 DEF ComingDue, Due
<1>7. ComingLast(r) <=> LastExchange(r)
  BY <1>4 DEF ComingLast, LastExchange
<1>8. ComingTime(r)' = ComingTime(r) /\ ComingIcnt(r)' = ComingIcnt(r)
      /\ ComingPhase(r)' = ComingPhase(r)
  BY <1>2, <1>3, <1>4, <1>5 DEF ComingTime, ComingIcnt, ComingPhase
<1>9. elapsed'[r] = ComingElapsed(r) /\ running'[r] = ComingRunning(r) /\ log'[r] = ComingLog(r)
  <2>1. CASE RadiationOff(r)
    <3>1. ~ComingDue(r) /\ ~launch.radiation /\ UNCHANGED <<elapsed, running, log>>
      BY <2>1, <1>6 DEF RadiationOff, local
    <3> QED  BY <3>1, <1>2 DEF ComingElapsed, ComingRunning, ComingLog
  <2>2. CASE RadiationNotDue(r)
    <3>1. /\ ~ComingDue(r) /\ launch.radiation /\ UNCHANGED <<running, log>>
          /\ elapsed'[r] = elapsed[r] + dt[r]
      BY <2>2, <1>1, <1>6 DEF RadiationNotDue, TypeOK
    <3> QED  BY <3>1, <1>2, <1>4, <1>5 DEF ComingElapsed, ComingRunning, ComingLog
  <2>3. CASE RadiationDue(r)
    <3>1. PICK f : f = IF LastExchange(r) THEN 1 ELSE 0
      OBVIOUS
    <3>2. /\ ComingDue(r) /\ elapsed' = [elapsed EXCEPT ![r] = dt[r]]
          /\ IF running[r] THEN Exchange(r, f) ELSE UNCHANGED log
          /\ running' = [running EXCEPT ![r] = @ /\ f = 0]
      BY <2>3, <1>6, <3>1 DEF RadiationDue
    <3>3. elapsed'[r] = ComingElapsed(r)
      BY <3>2, <1>1, <1>4 DEF TypeOK, ComingElapsed
    <3>4. running'[r] = ComingRunning(r)
      <4>1. running'[r] = (running[r] /\ f = 0) /\ running[r] \in BOOLEAN
        BY <3>2, <1>1 DEF TypeOK
      <4>2. f = 0 <=> ~ComingLast(r)
        BY <3>1, <1>7
      <4>3. CASE ComingLast(r)
        BY <4>1, <4>2, <4>3, <3>2 DEF ComingRunning
      <4>4. CASE ~ComingLast(r)
        BY <4>1, <4>2, <4>4 DEF ComingRunning
      <4> QED  BY <4>3, <4>4
    <3>5. log'[r] = ComingLog(r)
      <4>1. CASE running[r]
        <5>1. log' = [log EXCEPT ![r] = Append(@, [iflg |-> f, icnt |-> icnt[r], time |-> time[r]])]
          BY <4>1, <3>2 DEF Exchange
        <5>2. log'[r] = Append(log[r], [iflg |-> f, icnt |-> icnt[r], time |-> time[r]])
          BY <5>1, <1>1 DEF TypeOK
        <5>3. f = IF ComingLast(r) THEN 1 ELSE 0
          BY <3>1, <1>7
        <5> QED  BY <4>1, <5>2, <5>3, <3>2 DEF ComingLog
      <4>2. CASE ~running[r]
        BY <4>2, <3>2, <1>2 DEF ComingLog
      <4> QED  BY <4>1, <4>2
    <3> QED  BY <3>3, <3>4, <3>5
  <2> QED  BY <2>1, <2>2, <2>3
<1>10. /\ ComingElapsed(r)' = elapsed'[r] /\ ComingRunning(r)' = running'[r]
       /\ ComingLog(r)' = log'[r]
  BY <1>3, <1>5 DEF ComingElapsed, ComingRunning, ComingLog
<1>11. Course(r)' = Course(r)
  BY <1>4, <1>8, <1>9, <1>10 DEF Course
<1>12. Heading(r) = "advance" /\ Heading(r)' = "advance"
  BY <1>2, <1>3 DEF Heading, Waits
<1>13. exitval'[r] = "none"
  BY <1>2 DEF Agreement, Decided
<1> QED  BY <1>1, <1>2, <1>3, <1>11, <1>12, <1>13, MoveAgreement

LEMMA StepLeaveAgreement ==
    ASSUME Inv, Agreement, NEW r \in Rank, Step(r), StepLeave(r) PROVE Agreement'
<1>1. TypeOK /\ HasEntered /\ \A q \in Rank : q # r => Kept(q)
  BY OthersKept DEF Inv
<1>2. /\ pc[r] = "step_wait" /\ Entered(r) /\ Now(r)' = Now(r)
      /\ UNCHANGED <<launch, phase>> /\ Course(r) = Now(r)
  BY Standing DEF StepLeave, Step, Now
<1>3. CASE AnyRank(r)
  <2>1. /\ pc' = [pc EXCEPT ![r] = "cleanup"] /\ exitval' = [exitval EXCEPT ![r] = "failure"]
        /\ calls' = calls
    BY <1>3 DEF StepLeave, Abort, Goto
  <2>2. pc'[r] = "cleanup" /\ exitval'[r] = "failure"
    BY <2>1, <1>1 DEF TypeOK
  <2>3. Heading(r) = "failure" /\ Heading(r)' = "failure"
    BY <1>2, <1>3, <2>2 DEF Heading, Waits, Complete
  <2>4. Course(r)' = Course(r)
    BY <1>2, <2>2, StandingNext
  <2> QED  BY <1>1, <1>2, <2>1, <2>2, <2>3, <2>4, MoveAgreement
<1>4. CASE ~AnyRank(r)
  <2>1. PICK late \in Int : Enter(r, "timer", late)
    BY <1>4 DEF StepLeave, Bit
  <2>2. pc' = [pc EXCEPT ![r] = "timer_wait"] /\ UNCHANGED exitval
    BY <1>4 DEF StepLeave, Goto
  <2>3. Heading(r) = "timer"
    BY <1>2, <1>4 DEF Heading, Waits, Complete
  <2>4. pc'[r] = Into("timer") /\ OpFrom("timer") = "timer" /\ "timer" \in Ready
    BY <1>1, <2>2 DEF TypeOK, Into, OpFrom, Ready
  <2>5. InSetup'
    BY <1>1, <1>2, <2>2 DEF Agreement, InSetup, TypeOK
  <2> QED  BY <1>1, <1>2, <2>1, <2>2, <2>3, <2>4, <2>5, EnterAgreement
<1> QED  BY <1>3, <1>4

LEMMA TimerLeaveAgreement ==
    ASSUME Inv, Agreement, NEW r \in Rank, Step(r), TimerLeave(r) PROVE Agreement'
<1>1. TypeOK /\ HasEntered /\ \A q \in Rank : q # r => Kept(q)
  BY OthersKept DEF Inv
<1>2. /\ pc[r] = "timer_wait" /\ Entered(r) /\ Now(r)' = Now(r)
      /\ UNCHANGED <<launch, phase, exitval>> /\ Course(r) = Now(r)
      /\ pc' = [pc EXCEPT ![r] = "dump_wait"]
  BY Standing DEF TimerLeave, Step, Now, local, Goto
<1>3. PICK late \in MaxOver(r) : Enter(r, "dump", IF r = Root THEN late ELSE 0)
  BY DEF TimerLeave
<1>4. PICK v \in Int : Enter(r, "dump", v)
  <2>1. late \in Int
    BY <1>1, <1>2, <1>3, ValuesAreInt DEF MaxOver, HasEntered
  <2> QED  BY <2>1, <1>3
<1>5. Heading(r) = "dump"
  BY <1>2 DEF Heading, Waits, Complete
<1>6. pc'[r] = Into("dump") /\ OpFrom("dump") = "dump" /\ "dump" \in Ready
  BY <1>1, <1>2 DEF TypeOK, Into, OpFrom, Ready
<1>7. InSetup'
  BY <1>1, <1>2 DEF Agreement, InSetup, TypeOK
<1> QED  BY <1>1, <1>2, <1>4, <1>5, <1>6, <1>7, EnterAgreement

\* The decision of the root is the same whenever a rank hears of it.
LEMMA DumpLeaveAgreement ==
    ASSUME Inv, Agreement, NEW r \in Rank, Step(r), DumpLeave(r) PROVE Agreement'
<1>1. TypeOK /\ HasEntered /\ \A q \in Rank : q # r => Kept(q)
  BY OthersKept DEF Inv
<1>2. /\ pc[r] = "dump_wait" /\ RootEntered(r) /\ Now(r)' = Now(r)
      /\ UNCHANGED <<launch, calls, phase, exitval>>
      /\ pc' = [pc EXCEPT ![r] = IF FromRoot(r) = 1 THEN "final" ELSE "loop"]
  BY DEF DumpLeave, Step, Now, local, Goto, RootEntered
<1>3. Course(r)' = Course(r) /\ pc'[r] \in {"final", "loop"}
  <2>1. pc'[r] \in {"final", "loop"}
    BY <1>1, <1>2 DEF TypeOK
  <2> QED  BY <2>1, <1>2, Standing, StandingNext
<1>4. Heading(r) = IF FromRoot(r) = 1 THEN "final" ELSE ToLoop(r)
  <2>1. Len(calls[r]) \in Nat
    BY <1>1 DEF TypeOK
  <2> QED  BY <2>1, <1>2, DumpHeading DEF AfterDump, FromRoot
<1>5. Heading(r)' = IF FromRoot(r) = 1 THEN "final" ELSE ToLoop(r)'
  <2>1. pc'[r] = "loop" => Heading(r)' = ToLoop(r)'
    BY DEF Heading, Waits
  <2>2. pc'[r] = "final" => Heading(r)' = "final"
    BY DEF Heading, Waits
  <2> QED  BY <2>1, <2>2, <1>1, <1>2 DEF TypeOK
<1>6. Heading(r)' = Heading(r)
  BY <1>3, <1>4, <1>5, SameCourseLoop
<1>7. exitval'[r] = "none"
  BY <1>2 DEF Agreement, Decided
<1> QED  BY <1>1, <1>2, <1>3, <1>6, <1>7, MoveAgreement

LEMMA LoopEndAgreement ==
    ASSUME Inv, Agreement, NEW r \in Rank, Step(r), LoopEnd(r) PROVE Agreement'
<1>1. TypeOK /\ \A q \in Rank : q # r => Kept(q)
  BY OthersKept DEF Inv
<1>2. /\ pc[r] = "loop" /\ ~InLoop(r) /\ Now(r)' = Now(r)
      /\ UNCHANGED <<launch, calls, phase, exitval>>
      /\ pc' = [pc EXCEPT ![r] = "final"]
  BY DEF LoopEnd, Step, Now, local, Goto
<1>3. pc'[r] = "final"
  BY <1>1, <1>2 DEF TypeOK
<1>4. Course(r) = Now(r) /\ Course(r)' = Course(r)
  BY <1>2, <1>3, Standing, StandingNext
<1>5. Heading(r) = "final"
  BY <1>2, <1>4 DEF Heading, Waits, ToLoop, OnGoing, InLoop, Course, Now
<1>6. Heading(r)' = "final"
  BY <1>3 DEF Heading, Waits
<1>7. exitval'[r] = "none"
  BY <1>2 DEF Agreement, Decided
<1> QED  BY <1>1, <1>2, <1>3, <1>4, <1>5, <1>6, <1>7, MoveAgreement

LEMMA FinalOutputAgreement ==
    ASSUME Inv, Agreement, NEW r \in Rank, Step(r), FinalOutput(r) PROVE Agreement'
<1>1. TypeOK /\ HasEntered /\ \A q \in Rank : q # r => Kept(q)
  BY OthersKept DEF Inv
<1>2. PICK s \in Int : Enter(r, "any_rank", s)
  BY <1>1 DEF FinalOutput, Worsen, TypeOK, Bit
<1>3. /\ pc[r] = "final" /\ pc' = [pc EXCEPT ![r] = "final_wait"] /\ Now(r)' = Now(r)
      /\ UNCHANGED <<launch, exitval, phase>>
  BY DEF FinalOutput, Step, Goto, Now
<1>4. Heading(r) = "final" /\ Course(r) = Now(r)
  BY <1>3, Standing DEF Heading, Waits
<1>5. pc'[r] = Into("final") /\ OpFrom("final") = "any_rank" /\ "final" \in Ready
  BY <1>1, <1>3 DEF TypeOK, Into, OpFrom, Ready
<1>6. InSetup'
  BY <1>1, <1>3 DEF Agreement, InSetup, TypeOK
<1> QED  BY <1>1, <1>2, <1>3, <1>4, <1>5, <1>6, EnterAgreement

LEMMA FinalLeaveAgreement ==
    ASSUME Inv, Agreement, NEW r \in Rank, Step(r), FinalLeave(r) PROVE Agreement'
<1>1. TypeOK /\ \A q \in Rank : q # r => Kept(q)
  BY OthersKept DEF Inv
<1>2. /\ pc[r] = "final_wait" /\ Entered(r) /\ Now(r)' = Now(r)
      /\ UNCHANGED <<launch, calls, phase>>
      /\ pc' = [pc EXCEPT ![r] = "cleanup"]
      /\ exitval' = [exitval EXCEPT ![r] = IF AnyRank(r) THEN "failure" ELSE "success"]
  BY DEF FinalLeave, Step, Now, Goto, Abort
<1>3. /\ pc'[r] = "cleanup"
      /\ exitval'[r] = IF AnyRank(r) THEN "failure" ELSE "success"
  BY <1>1, <1>2 DEF TypeOK
<1>4. Course(r)' = Course(r)
  BY <1>2, <1>3, Standing, StandingNext
<1>5. Heading(r) = IF AnyRank(r) THEN "failure" ELSE "success"
  BY <1>2 DEF Heading, Complete, Waits
<1>6. Heading(r)' = exitval'[r]
  BY <1>3 DEF Heading, Waits
<1> QED  BY <1>1, <1>2, <1>3, <1>4, <1>5, <1>6, MoveAgreement

LEMMA CleanupAgreement ==
    ASSUME Inv, Agreement, NEW r \in Rank, Step(r), Cleanup(r) PROVE Agreement'
<1>1. TypeOK /\ \A q \in Rank : q # r => Kept(q)
  BY OthersKept DEF Inv
<1>2. /\ pc[r] = "cleanup" /\ pc' = [pc EXCEPT ![r] = "done"]
      /\ UNCHANGED <<launch, calls, phase, dt, elapsed, running, time, icnt, exitval>>
      /\ IF running[r] THEN Exchange(r, 1) ELSE UNCHANGED log
  BY DEF Cleanup, Step, Goto
<1>3. pc'[r] = "done"
  BY <1>1, <1>2 DEF TypeOK
<1>4. ~BeforeRadiation(r)' /\ ~BeforeAdvance(r)' /\ ~ComingDue(r)'
  BY <1>3 DEF BeforeRadiation, BeforeAdvance, ComingDue
<1>5. /\ ComingDt(r)' = dt[r] /\ ComingPhase(r)' = phase[r]
      /\ ComingElapsed(r)' = elapsed[r] /\ ComingRunning(r)' = running[r]
      /\ ComingTime(r)' = time[r] /\ ComingIcnt(r)' = icnt[r]
  BY <1>2, <1>3, <1>4 DEF ComingDt, ComingPhase, ComingElapsed, ComingRunning,
     ComingTime, ComingIcnt
<1>6. ComingLog(r)' = log[r]
  <2>1. CASE running[r]
    <3>1. PICK e \in Performed : log' = [log EXCEPT ![r] = Append(@, e)]
      <4>1. [iflg |-> 1, icnt |-> icnt[r], time |-> time[r]] \in Performed
        BY <1>1 DEF TypeOK, Performed, Bit
      <4> QED  BY <4>1, <2>1, <1>2 DEF Exchange
    <3>2. log[r] \in Seq(Performed) /\ log'[r] = Append(log[r], e)
      BY <3>1, <1>1 DEF TypeOK
    <3>3. SubSeq(log'[r], 1, Len(log'[r]) - 1) = log[r]
      BY <3>2
    <3> QED  BY <2>1, <3>3, <1>2, <1>3, <1>4 DEF ComingLog
  <2>2. CASE ~running[r]
    BY <2>2, <1>2, <1>4 DEF ComingLog
  <2> QED  BY <2>1, <2>2
<1>7. Course(r)' = Course(r)
  <2>1. Course(r) = Now(r)
    BY <1>2, Standing
  <2> QED  BY <2>1, <1>5, <1>6 DEF Course, Now
<1>8. Heading(r) = exitval[r] /\ Heading(r)' = exitval'[r]
  BY <1>2, <1>3 DEF Heading, Waits
<1>9. exitval[r] # "none"
  BY <1>2 DEF Agreement, Decided
<1> QED  BY <1>1, <1>2, <1>3, <1>7, <1>8, <1>9, MoveAgreement

-------------------------------------------------------------------------------
LEMMA InitAgreement == Init => Agreement
<1> SUFFICES ASSUME Init PROVE Agreement
  OBVIOUS
<1>1. \A r \in Rank : pc[r] = "setup" /\ calls[r] = <<>> /\ exitval[r] = "none"
                      /\ phase[r] = 1
  BY DEF Init
<1>2. \A q, r \in Rank : Now(q) = Now(r)
  <2>1. PICK s \in Start : icnt = [r \in Rank |-> s[1]] /\ time = [r \in Rank |-> s[2]]
    BY DEF Init
  <2>2. \A r \in Rank : Now(r) = <<1, 0, DtRad, launch.coupled, <<>>, s[2], s[1]>>
    BY <2>1 DEF Init, Now
  <2> QED  BY <2>2
<1>3. OneCourse
  BY <1>1, <1>2, Standing DEF OneCourse
<1>4. OneHeading
  BY <1>1 DEF OneHeading, Heading, Waits
<1>5. \A q, r \in Rank : Len(calls[q]) = 0 /\ ~(Len(calls[q]) < Len(calls[r]))
  <2>1. \A r \in Rank : calls[r] = <<>>
    BY <1>1
  <2>0. Len(<<>>) = 0
    OBVIOUS
  <2>2. \A r \in Rank : Len(calls[r]) = 0
    BY <2>0, <2>1
  <2>3. ~(0 < 0)
    OBVIOUS
  <2> QED  BY <2>2, <2>3
<1>6. Stragglers /\ CollectivesMatch
  BY <1>5 DEF Stragglers, CollectivesMatch
<1>7. Decided /\ InSetup
  BY <1>1 DEF Decided, InSetup, SetupPhases
<1> QED  BY <1>3, <1>4, <1>6, <1>7 DEF Agreement

LEMMA NextAgreement == Inv /\ Agreement /\ [Next]_vars => Agreement'
<1> SUFFICES ASSUME Inv, Agreement, [Next]_vars PROVE Agreement'
  OBVIOUS
<1>1. ASSUME NEW r \in Rank, Step(r) PROVE Agreement'
  <2>1. CASE SetupWork(r)  BY <1>1, <2>1, SetupWorkAgreement
  <2>2. CASE SetupLeave(r)  BY <1>1, <2>2, SetupLeaveAgreement
  <2>3. CASE StepBegin(r)  BY <1>1, <2>3, StepBeginAgreement
  <2>4. CASE StepDt(r)  BY <1>1, <2>4, StepDtAgreement
  <2>5. CASE RadiationOff(r) \/ RadiationNotDue(r) \/ RadiationDue(r)
    BY <1>1, <2>5, RadiationAgreement
  <2>6. CASE Advance(r)  BY <1>1, <2>6, AdvanceAgreement
  <2>7. CASE StepLeave(r)  BY <1>1, <2>7, StepLeaveAgreement
  <2>8. CASE TimerLeave(r)  BY <1>1, <2>8, TimerLeaveAgreement
  <2>9. CASE DumpLeave(r)  BY <1>1, <2>9, DumpLeaveAgreement
  <2>10. CASE LoopEnd(r)  BY <1>1, <2>10, LoopEndAgreement
  <2>11. CASE FinalOutput(r)  BY <1>1, <2>11, FinalOutputAgreement
  <2>12. CASE FinalLeave(r)  BY <1>1, <2>12, FinalLeaveAgreement
  <2>13. CASE Cleanup(r)  BY <1>1, <2>13, CleanupAgreement
  <2> QED  BY <1>1, <2>1, <2>2, <2>3, <2>4, <2>5, <2>6, <2>7, <2>8, <2>9, <2>10, <2>11,
              <2>12, <2>13 DEF Step
<1>2. ASSUME UNCHANGED vars PROVE Agreement'
  <2>1. \A q \in Rank : Kept(q)
    BY <1>2 DEF vars, Kept, Now
  <2>2. UNCHANGED <<launch, calls>> /\ InSetup' /\ Decided'
    BY <1>2 DEF vars, Agreement, InSetup, Decided
  <2> QED  BY <2>1, <2>2, QuietOthers, QuietAgreement
<1> QED  BY <1>1, <1>2 DEF Next, Terminated

LEMMA AgreementAlways == Spec => []Agreement
BY InitInv, InitAgreement, NextInv, NextAgreement, PTL DEF Spec

\* However far the ranks are apart, and wherever an error, a dump or the end of
\* the time strikes, the k-th collective that one rank of main() enters is the
\* k-th collective of every other rank.
THEOREM CollectivesAlwaysMatch == Spec => []CollectivesMatch
<1>1. Agreement => CollectivesMatch
  BY DEF Agreement
<1> QED  BY <1>1, AgreementAlways, PTL

-------------------------------------------------------------------------------
(***************************************************************************)
(* The exit codes.                                                         *)
(***************************************************************************)
\* Two ranks that have decided have the same heading, which is their exit code;
\* and where one has "success" the others have it or are on the way to it.
LEMMA VerdictsFollow ==
    ASSUME TypeOK, Agreement, NEW r \in Rank, exitval[r] # "none", NEW q \in Rank
    PROVE  Heading(r) = exitval[r] /\ Heading(q) = exitval[r]
<1>1. exitval[r] \in {"success", "failure"} /\ pc[r] \in {"cleanup", "done"}
  BY DEF TypeOK, Agreement, Decided
<1>2. Heading(r) = exitval[r]
  BY <1>1 DEF Heading, Waits
<1>3. Heading(r) \notin Ready /\ Heading(r) \notin Waits
  BY <1>1, <1>2 DEF Ready, Waits
<1>4. Len(calls[q]) = Len(calls[r])
  <2>1. Len(calls[q]) \in Nat /\ Len(calls[r]) \in Nat
    BY DEF TypeOK
  <2>2. ~(Len(calls[r]) < Len(calls[q]))
    BY <1>3 DEF Agreement, Stragglers, Behind
  <2>3. ASSUME Len(calls[q]) < Len(calls[r]) PROVE FALSE
    <3>1. Behind(q, r)
      BY <2>3 DEF Agreement, Stragglers
    <3>2. PICK Y \in {"loop", "final"} : Y = AfterDump(Len(calls[q]) + 1, r)
      BY Places
    <3>3. Heading(r) \in {Y, Into(Heading(q)), Into(Y)} /\ Heading(q) \in Ready
      BY <3>1, <3>2 DEF Behind
    <3> QED  BY <3>2, <3>3, <1>3, Places
  <2> QED  BY <2>1, <2>2, <2>3
<1> QED  BY <1>2, <1>4 DEF Agreement, OneHeading

\* Rank r has given its own status to the last call, and nobody has given ON.
LEMMA NobodyFailed ==
    ASSUME TypeOK, NEW r \in Rank, calls[r][Len(calls[r])].value = status[r], ~AnyRank(r)
    PROVE  status[r] = 0
<1>1. status[r] \in Values(r)
  BY DEF Values
<1>2. status[r] \in Bit
  BY DEF TypeOK
<1> QED  BY <1>1, <1>2 DEF AnyRank, Bit

LEMMA ReportsStep ==
    ASSUME Inv, Agreement, Reports, NEW r \in Rank, Step(r) PROVE Reports'
<1>1. TypeOK /\ HasEntered /\ Decided /\ \A q \in Rank : q # r => Kept(q)
  BY OthersKept DEF Inv, Agreement
<1>2. ASSUME NEW q \in Rank, q # r
      PROVE  written'[q] = written[q] /\ status'[q] = status[q] /\ calls'[q] = calls[q]
  <2>1. written'[q] = written[q] /\ status'[q] = status[q]
    BY <1>1, <1>2 DEF Step, SetupWork, SetupLeave, StepBegin, StepDt, RadiationOff,
       RadiationNotDue, RadiationDue, Advance, StepLeave, TimerLeave, DumpLeave, LoopEnd,
       FinalOutput, FinalLeave, Cleanup, local, TypeOK
  <2>2. calls'[q] = calls[q]
    BY <1>1, <1>2 DEF Step, SetupWork, SetupLeave, StepBegin, StepDt, RadiationOff,
       RadiationNotDue, RadiationDue, Advance, StepLeave, TimerLeave, DumpLeave, LoopEnd,
       FinalOutput, FinalLeave, Cleanup, Enter, local, TypeOK
  <2> QED  BY <2>1, <2>2
<1>3. ASSUME NEW q \in Rank, q # r PROVE Reported(q)'
  <2>1. pc'[q] = pc[q] /\ exitval'[q] = exitval[q]
    BY <1>1, <1>3 DEF Kept
  <2> QED  BY <2>1, <1>2, <1>3 DEF Reports, Reported
<1>4. Reported(r)'
  <2>1. CASE FinalOutput(r)
    <3>1. PICK s \in Worsen(r) : status' = [status EXCEPT ![r] = s] /\ Enter(r, "any_rank", s)
      BY <2>1 DEF FinalOutput
    <3>2. s \in Int /\ "any_rank" \in Ops
      BY <1>1 DEF Worsen, TypeOK, Bit, Ops
    <3>3. calls'[r][Len(calls'[r])].value = s
      <4>1. /\ Len(calls'[r]) = Len(calls[r]) + 1
            /\ calls'[r][Len(calls[r]) + 1] = [op |-> "any_rank", value |-> s]
        BY <3>1, <3>2, <1>1, EnterGrows
      <4> QED  BY <4>1
    <3>4. status'[r] = s /\ written'[r] = TRUE
      BY <3>1, <2>1, <1>1 DEF FinalOutput, TypeOK
    <3>5. exitval'[r] # "success"
      BY <2>1, <1>1 DEF FinalOutput, Decided
    <3> QED  BY <3>3, <3>4, <3>5 DEF Reported
  <2>2. CASE FinalLeave(r)
    <3>1. /\ pc[r] = "final_wait" /\ pc'[r] = "cleanup"
          /\ written'[r] = written[r] /\ status'[r] = status[r]
          /\ exitval'[r] = "success" => ~AnyRank(r)
      BY <2>2, <1>1 DEF FinalLeave, Abort, Goto, TypeOK
    <3>2. written[r] /\ calls[r][Len(calls[r])].value = status[r]
      BY <3>1 DEF Reports, Reported
    <3> QED  BY <3>1, <3>2, <1>1, NobodyFailed DEF Reported
  <2>3. CASE SetupLeave(r) \/ StepLeave(r)
    <3>1. pc'[r] # "final_wait" /\ exitval'[r] # "success"
      BY <2>3, <1>1 DEF SetupLeave, StepLeave, Abort, Goto, TypeOK, Decided
    <3> QED  BY <3>1 DEF Reported
  <2>4. CASE \/ SetupWork(r) \/ StepBegin(r) \/ StepDt(r) \/ RadiationOff(r)
             \/ RadiationNotDue(r) \/ RadiationDue(r) \/ Advance(r) \/ TimerLeave(r)
             \/ DumpLeave(r) \/ LoopEnd(r)
    <3>1. pc'[r] # "final_wait" /\ exitval' = exitval /\ pc[r] \notin {"cleanup", "done"}
      BY <2>4, <1>1 DEF SetupWork, StepBegin, StepDt, RadiationOff, RadiationNotDue,
         RadiationDue, Advance, TimerLeave, DumpLeave, LoopEnd, Goto, local, TypeOK
    <3> QED  BY <3>1, <1>1 DEF Reported, Decided
  <2>5. CASE Cleanup(r)
    <3>1. pc'[r] # "final_wait" /\ UNCHANGED <<exitval, written, status>>
      BY <2>5, <1>1 DEF Cleanup, Goto, TypeOK
    <3> QED  BY <3>1 DEF Reports, Reported
  <2> QED  BY <2>1, <2>2, <2>3, <2>4, <2>5 DEF Step
<1> QED  BY <1>3, <1>4 DEF Reports

LEMMA ReportsAlways == Spec => []Reports
<1>1. Init => Reports
  BY DEF Init, Reports, Reported
<1>2. Inv /\ Agreement /\ Reports /\ [Next]_vars => Reports'
  <2>1. ASSUME Reports, UNCHANGED vars PROVE Reports'
    BY <2>1 DEF Reports, Reported, vars
  <2> QED  BY <2>1, ReportsStep DEF Next, Terminated
<1> QED  BY <1>1, <1>2, InvAlways, AgreementAlways, PTL DEF Spec

LEMMA VerdictFromReports == TypeOK /\ Agreement /\ Reports => VerdictAgrees
<1> SUFFICES ASSUME TypeOK, Agreement, Reports, NEW q \in Rank, NEW r \in Rank,
                    exitval[r] # "none"
             PROVE  /\ exitval[q] # "none" => exitval[q] = exitval[r]
                    /\ exitval[r] = "success" => written[q] /\ status[q] = 0
  BY DEF VerdictAgrees
<1>1. Heading(q) = exitval[r]
  BY VerdictsFollow
<1>2. exitval[q] # "none" => exitval[q] = exitval[r]
  BY <1>1, VerdictsFollow
<1>3. ASSUME exitval[r] = "success" PROVE written[q] /\ status[q] = 0
  <2>1. CASE pc[q] \in {"cleanup", "done"}
    <3>1. exitval[q] = "success"
      BY <2>1, <1>2, <1>3 DEF Agreement, Decided
    <3> QED  BY <3>1 DEF Reports, Reported
  <2>2. CASE pc[q] \notin {"cleanup", "done"}
    <3>1. pc[q] \in Labels
      BY DEF TypeOK
    <3>2. ToLoop(q) # "success" /\ AfterDump(Len(calls[q]), q) # "success"
      BY Places
    <3>3. pc[q] = "final_wait" /\ ~AnyRank(q)
      BY <1>1, <1>3, <2>2, <3>1, <3>2 DEF Heading, Waits, Labels
    <3> QED  BY <3>3, NobodyFailed DEF Reports, Reported
  <2> QED  BY <2>1, <2>2
<1> QED  BY <1>2, <1>3

\* On every path through main() the ranks end with one and the same exit code, and
\* one rank reports success only if every rank has written its restart data and
\* none has an error pending.
THEOREM VerdictsAlwaysAgree == Spec => []VerdictAgrees
<1>1. TypeOK /\ Agreement /\ Reports => VerdictAgrees
  BY VerdictFromReports
<1> QED  BY <1>1, TypeCorrect, AgreementAlways, ReportsAlways, PTL

-------------------------------------------------------------------------------
(***************************************************************************)
(* The clock of radiation().                                               *)
(***************************************************************************)
LastTime(r) == log[r][Len(log[r])].time

\* While the radiation program runs, elapsed_time is the simulated time since the
\* last exchange, the step that the rank is in included once it has been counted.
OnTime(r) ==
    /\ pc[r] = "dt_wait" => calls[r][Len(calls[r])].op = "dt"
    /\ pc[r] \in {"radiation", "advance"} => dt[r] \in DtLimit
    /\ ~launch.radiation /\ pc[r] # "done" => log[r] = <<>>
    /\ (log[r] # <<>> /\ running[r] /\ pc[r] # "done") =>
          /\ elapsed[r] = time[r] - LastTime(r) + (IF pc[r] = "advance" THEN dt[r] ELSE 0)
          /\ elapsed[r] <= DtRad \/ elapsed[r] \in DtLimit

Punctual == \A r \in Rank : OnTime(r)

\* What the ranks propose for the time step.
DtLimited ==
    \A r \in Rank : \A k \in 1 .. Len(calls[r]) :
        calls[r][k].op = "dt" => calls[r][k].value \in DtLimit

LEMMA EnterDtLimited ==
    ASSUME TypeOK, DtLimited, NEW r \in Rank, NEW op \in Ops, NEW v \in Int,
           Enter(r, op, v), op = "dt" => v \in DtLimit
    PROVE  DtLimited' /\ calls'[r][Len(calls'[r])].op = op
<1>1. /\ Len(calls'[r]) = Len(calls[r]) + 1 /\ Len(calls[r]) \in Nat
      /\ calls'[r][Len(calls[r]) + 1] = [op |-> op, value |-> v]
      /\ \A q \in Rank : q # r => calls'[q] = calls[q]
      /\ \A k \in 1 .. Len(calls[r]) : calls'[r][k] = calls[r][k]
  BY EnterGrows
<1>2. ASSUME NEW k \in 1 .. Len(calls'[r]), calls'[r][k].op = "dt"
      PROVE  calls'[r][k].value \in DtLimit
  <2>1. CASE k = Len(calls[r]) + 1
    BY <2>1, <1>1, <1>2
  <2>2. CASE k \in 1 .. Len(calls[r])
    BY <2>2, <1>1, <1>2 DEF DtLimited
  <2> QED  BY <2>1, <2>2, <1>1
<1>3. DtLimited'
  BY <1>1, <1>2 DEF DtLimited
<1> QED  BY <1>1, <1>3

LEMMA DtLimitedStep ==
    ASSUME Inv, DtLimited, NEW r \in Rank, Step(r)
    PROVE  DtLimited' /\ (pc'[r] = "dt_wait" => calls'[r][Len(calls'[r])].op = "dt")
<1>1. TypeOK /\ HasEntered
  BY DEF Inv
<1>2. CASE StepBegin(r)
  <2>1. PICK d \in DtLimit : Enter(r, "dt", d)
    BY <1>2 DEF StepBegin
  <2>2. d \in Int /\ "dt" \in Ops
    BY TimeAssumption DEF Ops
  <2> QED  BY <2>1, <2>2, <1>1, EnterDtLimited
<1>3. CASE SetupWork(r) \/ Advance(r) \/ FinalOutput(r)
  <2>1. PICK s \in Worsen(r) : Enter(r, "any_rank", s)
    BY <1>3 DEF SetupWork, Advance, FinalOutput
  <2>2. s \in Int /\ "any_rank" \in Ops
    BY <1>1 DEF Worsen, TypeOK, Bit, Ops
  <2>3. pc'[r] # "dt_wait"
    BY <1>1, <1>3 DEF SetupWork, Advance, FinalOutput, Goto, TypeOK
  <2> QED  BY <2>1, <2>2, <2>3, <1>1, EnterDtLimited
<1>4. CASE StepLeave(r)
  <2>1. pc'[r] # "dt_wait"
    BY <1>1, <1>4 DEF StepLeave, Abort, Goto, TypeOK
  <2>2. CASE calls' = calls
    BY <2>1, <2>2 DEF DtLimited
  <2>3. CASE \E late \in Bit : Enter(r, "timer", late)
    <3>1. PICK late \in Bit : Enter(r, "timer", late)
      BY <2>3
    <3>2. late \in Int /\ "timer" \in Ops
      BY DEF Bit, Ops
    <3> QED  BY <3>1, <3>2, <2>1, <1>1, EnterDtLimited
  <2> QED  BY <2>2, <2>3, <1>4 DEF StepLeave
<1>5. CASE TimerLeave(r)
  <2>1. PICK late \in MaxOver(r) : Enter(r, "dump", IF r = Root THEN late ELSE 0)
    BY <1>5 DEF TimerLeave
  <2>2. late \in Int /\ "dump" \in Ops
    BY <1>1, <1>5, <2>1, ValuesAreInt DEF TimerLeave, MaxOver, HasEntered, Ops
  <2>3. pc'[r] # "dt_wait"
    BY <1>1, <1>5 DEF TimerLeave, Goto, TypeOK
  <2>4. PICK v \in Int : Enter(r, "dump", v)
    BY <2>1, <2>2
  <2> QED  BY <2>2, <2>3, <2>4, <1>1, EnterDtLimited
<1>6. CASE \/ SetupLeave(r) \/ StepDt(r) \/ RadiationOff(r) \/ RadiationNotDue(r)
           \/ RadiationDue(r) \/ DumpLeave(r) \/ LoopEnd(r) \/ FinalLeave(r) \/ Cleanup(r)
  <2>1. UNCHANGED calls
    BY <1>6 DEF SetupLeave, StepDt, RadiationOff, RadiationNotDue, RadiationDue, DumpLeave,
       LoopEnd, FinalLeave, Cleanup
  <2>2. pc'[r] # "dt_wait"
    BY <1>6, <1>1 DEF SetupLeave, StepDt, RadiationOff, RadiationNotDue, RadiationDue,
       DumpLeave, LoopEnd, FinalLeave, Cleanup, Goto, Abort, TypeOK
  <2> QED  BY <2>1, <2>2 DEF DtLimited
<1> QED  BY <1>2, <1>3, <1>4, <1>5, <1>6 DEF Step

\* Steps that leave the clock of rank r alone.
LEMMA ClockStands ==
    ASSUME NEW r \in Rank, OnTime(r), UNCHANGED launch,
           running'[r] = running[r], log'[r] = log[r], elapsed'[r] = elapsed[r],
           time'[r] = time[r], pc[r] # "advance",
           pc'[r] \notin {"radiation", "advance"}, pc[r] # "done",
           pc'[r] = "dt_wait" => calls'[r][Len(calls'[r])].op = "dt"
    PROVE  OnTime(r)'
BY DEF OnTime, LastTime

LEMMA PunctualStep ==
    ASSUME Inv, Agreement, DtLimited, Punctual, NEW r \in Rank, Step(r)
    PROVE  Punctual'
<1>1. TypeOK /\ HasEntered /\ CollectivesMatch /\ OnTime(r)
  BY DEF Inv, Agreement, Punctual
<1>2. pc'[r] = "dt_wait" => calls'[r][Len(calls'[r])].op = "dt"
  BY DtLimitedStep
<1>3. ASSUME NEW q \in Rank, q # r PROVE OnTime(q)'
  <2>1. Kept(q) /\ OnTime(q)
    BY <1>1, <1>3, OthersKept DEF Punctual
  <2>2. calls'[q] = calls[q]
    BY <1>1, <1>3 DEF Step, SetupWork, SetupLeave, StepBegin, StepDt, RadiationOff,
       RadiationNotDue, RadiationDue, Advance, StepLeave, TimerLeave, DumpLeave, LoopEnd,
       FinalOutput, FinalLeave, Cleanup, Enter, local, TypeOK
  <2> QED  BY <2>1, <2>2 DEF Kept, Now, OnTime, LastTime, Step
<1>4. CASE StepDt(r)
  <2>1. /\ pc[r] = "dt_wait" /\ Entered(r) /\ pc'[r] = "radiation"
        /\ UNCHANGED <<launch, running, log, elapsed, time>>
    BY <1>1, <1>4 DEF StepDt, Goto, TypeOK, Step
  <2>2. PICK d \in MinOver(r) : dt' = [dt EXCEPT ![r] = d]
    BY <1>4 DEF StepDt
  <2>3. PICK q \in Rank : d = calls[q][Len(calls[r])].value
    BY <2>2 DEF MinOver, Values
  <2>4. Len(calls[r]) \in 1 .. Len(calls[q]) /\ Len(calls[r]) \in 1 .. Len(calls[r])
    <3>1. calls[r] \in Seq(Call) /\ calls[q] \in Seq(Call) /\ calls[r] # <<>>
      BY <1>1, <2>1 DEF TypeOK, HasEntered
    <3> QED  BY <3>1, <2>1 DEF Entered
  <2>5. calls[q][Len(calls[r])].op = "dt"
    BY <2>1, <2>4, <1>1 DEF CollectivesMatch, OnTime
  <2>6. dt'[r] \in DtLimit
    BY <2>2, <2>3, <2>4, <2>5, <1>1 DEF DtLimited, TypeOK
  <2> QED  BY <2>1, <2>6, <1>1, <1>3 DEF OnTime, LastTime, Punctual
<1>5. CASE RadiationOff(r)
  <2>1. /\ pc[r] = "radiation" /\ pc'[r] = "advance" /\ ~launch.radiation
        /\ UNCHANGED <<launch, running, log, elapsed, time, dt>>
    BY <1>1, <1>5 DEF RadiationOff, Goto, TypeOK, local, Step
  <2>2. log'[r] = <<>> /\ dt'[r] \in DtLimit
    BY <2>1, <1>1 DEF OnTime
  <2> QED  BY <2>1, <2>2, <1>3 DEF OnTime, Punctual
<1>6. CASE RadiationNotDue(r)
  <2>1. /\ pc[r] = "radiation" /\ pc'[r] = "advance" /\ launch.radiation
        /\ UNCHANGED <<launch, running, log, time, dt>>
        /\ elapsed'[r] = elapsed[r] + dt[r] /\ ~Due(r)
    BY <1>1, <1>6 DEF RadiationNotDue, Goto, TypeOK, Step
  <2>2. elapsed[r] \in Int /\ dt[r] \in Int /\ time[r] \in Int
    BY <1>1 DEF TypeOK
  <2>3. dt'[r] \in DtLimit
    BY <2>1, <1>1 DEF OnTime
  <2>4. log[r] # <<>> => LastTime(r) \in Int /\ LastTime(r)' = LastTime(r)
    <3>1. log[r] \in Seq(Performed)
      BY <1>1 DEF TypeOK
    <3>2. log[r] # <<>> => log[r][Len(log[r])] \in Performed
      BY <3>1
    <3> QED  BY <3>2, <2>1 DEF Performed, LastTime
  <2>5. elapsed'[r] <= DtRad
    BY <2>1, <2>2, TimeAssumption DEF Due
  <2>6. ASSUME log'[r] # <<>>, running'[r]
        PROVE  elapsed'[r] = time'[r] - LastTime(r)' + dt'[r]
    <3>1. elapsed[r] = time[r] - LastTime(r)
      BY <2>6, <2>1, <2>2, <2>4, <1>1 DEF OnTime
    <3> QED  BY <3>1, <2>6, <2>1, <2>2, <2>4
  <2>7. OnTime(r)'
    BY <2>1, <2>3, <2>5, <2>6 DEF OnTime
  <2> QED  BY <2>7, <1>3 DEF Punctual
<1>7. CASE RadiationDue(r)
  <2>1. PICK f \in Bit : f = IF LastExchange(r) THEN 1 ELSE 0
    BY DEF Bit
  <2>2. /\ pc[r] = "radiation" /\ pc'[r] = "advance" /\ launch.radiation
        /\ UNCHANGED <<launch, time, dt>> /\ elapsed'[r] = dt[r]
        /\ IF running[r] THEN Exchange(r, f) ELSE UNCHANGED log
        /\ running' = [running EXCEPT ![r] = @ /\ f = 0]
    BY <1>1, <1>7, <2>1 DEF RadiationDue, Goto, TypeOK, Step
  <2>3. dt[r] \in DtLimit /\ time[r] \in Int /\ dt[r] \in Int
    BY <2>2, <1>1 DEF OnTime, TypeOK
  <2>4. ASSUME running'[r]
        PROVE  LastTime(r)' = time[r]
    <3>1. running[r]
      BY <2>4, <2>2, <1>1 DEF TypeOK
    <3>2. log' = [log EXCEPT ![r] =
                    Append(@, [iflg |-> f, icnt |-> icnt[r], time |-> time[r]])]
      BY <3>1, <2>2 DEF Exchange
    <3>3. [iflg |-> f, icnt |-> icnt[r], time |-> time[r]] \in Performed
      BY <1>1 DEF TypeOK, Performed
    <3>4. PICK e \in Performed : e.time = time[r] /\ log'[r] = Append(log[r], e)
      BY <3>2, <3>3, <1>1 DEF TypeOK
    <3>5. log[r] \in Seq(Performed)
      BY <1>1 DEF TypeOK
    <3>6. log'[r][Len(log'[r])] = e
      BY <3>4, <3>5
    <3> QED  BY <3>4, <3>6 DEF LastTime
  <2>5. OnTime(r)'
    BY <2>2, <2>3, <2>4 DEF OnTime
  <2> QED  BY <2>5, <1>3 DEF Punctual
<1>8. CASE Advance(r)
  <2>1. /\ pc[r] = "advance" /\ pc'[r] = "step_wait"
        /\ UNCHANGED <<launch, running, log, elapsed>> /\ time'[r] = time[r] + dt[r]
    BY <1>1, <1>8 DEF Advance, Goto, TypeOK, Step
  <2>2. time[r] \in Int /\ dt[r] \in Int
    BY <1>1 DEF TypeOK
  <2>3. log[r] # <<>> => LastTime(r) \in Int /\ LastTime(r)' = LastTime(r)
    <3>1. log[r] \in Seq(Performed)
      BY <1>1 DEF TypeOK
    <3>2. log[r] # <<>> => log[r][Len(log[r])] \in Performed
      BY <3>1
    <3> QED  BY <3>2, <2>1 DEF Performed, LastTime
  <2>4. ASSUME log'[r] # <<>>, running'[r]
        PROVE  /\ elapsed'[r] = time'[r] - LastTime(r)' + 0
               /\ elapsed'[r] <= DtRad \/ elapsed'[r] \in DtLimit
    BY <2>1, <2>2, <2>3, <2>4, <1>1 DEF OnTime
  <2>5. OnTime(r)'
    BY <2>1, <2>4, <1>1 DEF OnTime
  <2> QED  BY <2>5, <1>3 DEF Punctual
<1>9. CASE Cleanup(r)
  <2>1. pc'[r] = "done"
    BY <1>1, <1>9 DEF Cleanup, Goto, TypeOK
  <2>2. OnTime(r)'
    BY <2>1 DEF OnTime
  <2> QED  BY <2>2, <1>3 DEF Punctual
<1>10. CASE \/ SetupWork(r) \/ SetupLeave(r) \/ StepBegin(r) \/ StepLeave(r)
            \/ TimerLeave(r) \/ DumpLeave(r) \/ LoopEnd(r) \/ FinalOutput(r) \/ FinalLeave(r)
  <2>1. UNCHANGED <<launch, running, log, elapsed, time>>
    BY <1>10 DEF SetupWork, SetupLeave, StepBegin, StepLeave, TimerLeave, DumpLeave, LoopEnd,
       FinalOutput, FinalLeave, local, Step
  <2>2. /\ pc'[r] \notin {"radiation", "advance"}
        /\ pc[r] \notin {"advance", "done"}
    BY <1>10, <1>1 DEF SetupWork, SetupLeave, StepBegin, StepLeave, TimerLeave, DumpLeave,
       LoopEnd, FinalOutput, FinalLeave, Goto, Abort, TypeOK
  <2>3. OnTime(r)'
    BY <2>1, <2>2, <1>1, <1>2, ClockStands
  <2> QED  BY <2>3, <1>3 DEF Punctual
<1> QED  BY <1>4, <1>5, <1>6, <1>7, <1>8, <1>9, <1>10 DEF Step

LEMMA ClockInit == Init => DtLimited /\ Punctual
<1> SUFFICES ASSUME Init PROVE DtLimited /\ Punctual
  OBVIOUS
<1>1. Len(<<>>) = 0
  OBVIOUS
<1>2. \A r \in Rank : pc[r] = "setup" /\ log[r] = <<>> /\ calls[r] = <<>>
  BY DEF Init
<1>3. DtLimited
  BY <1>1, <1>2 DEF DtLimited
<1> QED  BY <1>2, <1>3 DEF Punctual, OnTime

LEMMA ClockNext ==
    Inv /\ Agreement /\ DtLimited /\ Punctual /\ [Next]_vars => DtLimited' /\ Punctual'
<1> SUFFICES ASSUME Inv, Agreement, DtLimited, Punctual, [Next]_vars
             PROVE  DtLimited' /\ Punctual'
  OBVIOUS
<1>1. CASE UNCHANGED vars
  BY <1>1 DEF vars, DtLimited, Punctual, OnTime, LastTime
<1>2. CASE \E r \in Rank : Step(r)
  BY <1>2, DtLimitedStep, PunctualStep
<1> QED  BY <1>1, <1>2 DEF Next, Terminated

LEMMA ClockAlways == Spec => [](DtLimited /\ Punctual)
BY ClockInit, ClockNext, InvAlways, AgreementAlways, PTL DEF Spec

\* From one call of the radiation program to the next at most dt_rad of simulated
\* time passes, or one step if a step is longer, whatever steps dt_control() finds.
THEOREM ExchangesAreNotLate == Spec => ExchangeNotLate
<1> DEFINE Late(r) == /\ pc[r] = "radiation" /\ log[r] # <<>> /\ log'[r] # log[r]
                      /\ ~(\/ time[r] - log[r][Len(log[r])].time <= DtRad
                           \/ \E d \in DtLimit : time[r] - log[r][Len(log[r])].time = d)
<1>1. ASSUME Inv, Agreement, Punctual, [Next]_vars, NEW r \in Rank, Late(r)
      PROVE  FALSE
  <2>1. PICK p \in Rank : Step(p)
    BY <1>1 DEF Next, Terminated, vars
  <2>2. TypeOK
    BY <1>1 DEF Inv
  <2>3. p = r
    BY <1>1, <2>1, <2>2, OthersKept DEF Kept, Now
  <2>4. running[r]
    BY <1>1, <2>1, <2>3, <2>2 DEF Step, SetupWork, SetupLeave, StepBegin, StepDt, RadiationOff,
       RadiationNotDue, RadiationDue, Advance, StepLeave, TimerLeave, DumpLeave, LoopEnd,
       FinalOutput, FinalLeave, Cleanup, local
  <2>5. /\ elapsed[r] = time[r] - LastTime(r) + 0
        /\ elapsed[r] <= DtRad \/ elapsed[r] \in DtLimit
    BY <1>1, <2>4 DEF Punctual, OnTime
  <2>6. LastTime(r) \in Int
    <3>1. log[r] \in Seq(Performed)
      BY <2>2 DEF TypeOK
    <3>2. log[r][Len(log[r])] \in Performed
      BY <3>1, <1>1
    <3> QED  BY <3>2 DEF Performed, LastTime
  <2>7. elapsed[r] = time[r] - LastTime(r)
    BY <2>2, <2>5, <2>6 DEF TypeOK
  <2> QED  BY <1>1, <2>5, <2>7 DEF LastTime
<1>2. Inv /\ Agreement /\ Punctual /\ [Next]_vars =>
        [\A r \in Rank :
          (pc[r] = "radiation" /\ log[r] # <<>> /\ log'[r] # log[r]) =>
              \/ time[r] - log[r][Len(log[r])].time <= DtRad
              \/ \E d \in DtLimit : time[r] - log[r][Len(log[r])].time = d]_vars
  BY <1>1
<1> QED  BY <1>2, InvAlways, AgreementAlways, ClockAlways, PTL DEF Spec, ExchangeNotLate

-------------------------------------------------------------------------------
(***************************************************************************)
(* The refinement of ExchangeSchedule.                                     *)
(***************************************************************************)
\* The log of a rank is the common one, or one exchange behind it because the rank
\* is yet to come through radiation(), or one ahead of it after the release.
LEMMA LogNearCourse ==
    ASSUME TypeOK, Discipline, NEW r \in Rank
    PROVE  LET L == Len(ComingLog(r)) IN
             /\ L \in Nat
             /\ Len(log[r]) \in {L - 1, L, L + 1}
             /\ \A k \in 1 .. Len(log[r]) :
                   /\ k <= L => log[r][k].iflg = ComingLog(r)[k].iflg
                   /\ k > L => log[r][k].iflg = 1
<1>1. log[r] \in Seq(Performed) /\ Disciplined(r) /\ Len(log[r]) \in Nat
  BY DEF TypeOK, Discipline
<1>2. CASE ComingDue(r) /\ running[r]
  <2>1. PICK e \in Performed : ComingLog(r) = Append(log[r], e)
    <3>1. [iflg |-> IF ComingLast(r) THEN 1 ELSE 0, icnt |-> icnt[r], time |-> time[r]]
             \in Performed
      BY DEF TypeOK, Performed, Bit
    <3> QED  BY <3>1, <1>2 DEF ComingLog
  <2>2. /\ Len(ComingLog(r)) = Len(log[r]) + 1
        /\ \A k \in 1 .. Len(log[r]) : ComingLog(r)[k] = log[r][k]
    BY <2>1, <1>1
  <2> QED  BY <2>2, <1>1
<1>3. CASE ~(ComingDue(r) /\ running[r]) /\ pc[r] = "done" /\ running[r]
  <2>1. ComingLog(r) = SubSeq(log[r], 1, Len(log[r]) - 1)
    BY <1>3 DEF ComingLog
  <2>2. log[r] # <<>> /\ log[r][Len(log[r])].iflg = 1
    BY <1>1, <1>3 DEF Disciplined
  <2>3. Len(log[r]) \in Nat \ {0}
    BY <1>1, <2>2
  <2>4. /\ Len(ComingLog(r)) = Len(log[r]) - 1
        /\ \A k \in 1 .. Len(log[r]) - 1 : ComingLog(r)[k] = log[r][k]
    BY <1>1, <2>1, <2>3
  <2> QED  BY <2>2, <2>3, <2>4
<1>4. CASE ~(ComingDue(r) /\ running[r]) /\ ~(pc[r] = "done" /\ running[r])
  <2>1. ComingLog(r) = log[r]
    BY <1>4 DEF ComingLog
  <2> QED  BY <2>1, <1>1
<1> QED  BY <1>2, <1>3, <1>4

\* The plan that the refinement mapping reads from the longest log.
Plan == [k \in 1 .. Len(log[Ahead]) |-> log[Ahead][k].iflg]

\* There is a longest log, and every log follows the plan.
OnePlan ==
    /\ Ahead \in Rank
    /\ \A r \in Rank :
          /\ Len(log[r]) <= Len(log[Ahead])
          /\ \A k \in 1 .. Len(log[r]) : log[r][k].iflg = Plan[k]

LEMMA LogsFollowPlan == TypeOK /\ Discipline /\ OneCourse => OnePlan
<1> SUFFICES ASSUME TypeOK, Discipline, OneCourse PROVE OnePlan
  OBVIOUS
<1>1. PICK C : C = ComingLog(Root)
  OBVIOUS
<1>2. \A r \in Rank : ComingLog(r) = C
  <2>1. \A r \in Rank : Course(r) = Course(Root)
    BY RankAssumption DEF OneCourse
  <2> QED  BY <1>1, <2>1 DEF Course
<1>3. /\ Len(C) \in Nat
      /\ \A r \in Rank :
            /\ Len(log[r]) \in {Len(C) - 1, Len(C), Len(C) + 1}
            /\ \A k \in 1 .. Len(log[r]) :
                  /\ k <= Len(C) => log[r][k].iflg = C[k].iflg
                  /\ k > Len(C) => log[r][k].iflg = 1
  BY <1>2, LogNearCourse, RankAssumption
<1>4. \E r \in Rank : \A q \in Rank : Len(log[q]) <= Len(log[r])
  <2>1. PICK L \in Nat : \A r \in Rank : Len(log[r]) \in {L - 1, L, L + 1}
    BY <1>3
  <2>2. CASE \E r \in Rank : Len(log[r]) = L + 1
    <3>1. PICK r \in Rank : Len(log[r]) = L + 1
      BY <2>2
    <3>2. \A q \in Rank : Len(log[q]) <= Len(log[r])
      BY <2>1, <3>1
    <3> QED  BY <3>2
  <2>3. CASE /\ ~\E r \in Rank : Len(log[r]) = L + 1
             /\ \E r \in Rank : Len(log[r]) = L
    <3>1. PICK r \in Rank : Len(log[r]) = L
      BY <2>3
    <3>2. \A q \in Rank : Len(log[q]) <= Len(log[r])
      BY <2>1, <2>3, <3>1
    <3> QED  BY <3>2
  <2>4. CASE \A r \in Rank : Len(log[r]) = L - 1
    <3>1. \A q \in Rank : Len(log[q]) <= Len(log[Root])
      BY <2>4, RankAssumption
    <3> QED  BY <3>1, RankAssumption
  <2> QED  BY <2>1, <2>2, <2>3, <2>4
<1>5. Ahead \in Rank /\ \A q \in Rank : Len(log[q]) <= Len(log[Ahead])
  BY <1>4 DEF Ahead
<1>6. ASSUME NEW r \in Rank, NEW k \in 1 .. Len(log[r])
      PROVE  log[r][k].iflg = Plan[k]
  <2>1. Len(log[r]) \in Int /\ Len(log[Ahead]) \in Int /\ Len(log[r]) <= Len(log[Ahead])
    BY <1>3, <1>5
  <2>2. k \in 1 .. Len(log[Ahead])
    BY <2>1
  <2>3. log[r][k].iflg = log[Ahead][k].iflg
    BY <1>3, <1>5, <2>2
  <2> QED  BY <2>2, <2>3 DEF Plan
<1> QED  BY <1>5, <1>6 DEF OnePlan

LEMMA PlanType == ASSUME TypeOK, OnePlan
                  PROVE  Plan \in Seq(Bit) /\ Len(Plan) = Len(log[Ahead])
<1>1. log[Ahead] \in Seq(Performed) /\ Len(log[Ahead]) \in Nat
  BY DEF TypeOK, OnePlan
<1>2. \A k \in 1 .. Len(log[Ahead]) : log[Ahead][k].iflg \in Bit
  <2>1. \A k \in 1 .. Len(log[Ahead]) : log[Ahead][k] \in Performed
    BY <1>1
  <2> QED  BY <2>1 DEF Performed
<1> QED  BY <1>1, <1>2 DEF Plan

LEMMA PlanNext == (TypeOK /\ OnePlan => Plan \in Seq(Bit) /\ Len(Plan) = Len(log[Ahead]))'
BY PlanType, PTL

\* Where rank r reaches an exchange it is the first of the ranks, and decides on the
\* flag, or it repeats what is in the plan.
LEMMA ExchangeMaps ==
    ASSUME TypeOK, TypeOK', Discipline, OnePlan, OnePlan', UNCHANGED launch,
           NEW r \in Rank, running[r], pc[r] # "done",
           NEW f \in Bit, Exchange(r, f)
    PROVE  Schedule!Next
<1>1. /\ \A q \in Rank : q # r => log'[q] = log[q]
      /\ Len(log'[r]) = Len(log[r]) + 1
      /\ log'[r][Len(log'[r])].iflg = f
      /\ \A k \in 1 .. Len(log[r]) : log'[r][k] = log[r][k]
  BY ExchangeType
<1>2. /\ Plan \in Seq(Bit) /\ Len(Plan) = Len(log[Ahead])
      /\ Plan' \in Seq(Bit) /\ Len(Plan') = Len(log'[Ahead'])
  BY PlanType, PlanNext
<1>3. \A q \in Rank : Len(log[q]) \in Nat /\ Len(log'[q]) \in Nat
  <2>1. \A q \in Rank : log[q] \in Seq(Performed) /\ log'[q] \in Seq(Performed)
    BY DEF TypeOK
  <2> QED  BY <2>1
<1>4. /\ Ahead \in Rank /\ Ahead' \in Rank
      /\ \A q \in Rank : Len(log[q]) <= Len(Plan) /\ Len(log'[q]) <= Len(Plan')
      /\ \A q \in Rank : \A k \in 1 .. Len(log[q]) : log[q][k].iflg = Plan[k]
      /\ \A q \in Rank : \A k \in 1 .. Len(log'[q]) : log'[q][k].iflg = Plan'[k]
  BY <1>2 DEF OnePlan
<1>5. [q \in Rank |-> Len(log'[q])] =
         [[q \in Rank |-> Len(log[q])] EXCEPT ![r] = @ + 1]
  BY <1>1
<1>6. CASE Len(log[r]) = Len(Plan)
  <2>1. Len(Plan') = Len(Plan) + 1
    BY <1>1, <1>2, <1>3, <1>4, <1>6
  <2>2. \A k \in 1 .. Len(Plan) : Plan'[k] = Plan[k]
    BY <1>1, <1>3, <1>4, <1>6
  <2>3. Plan'[Len(Plan) + 1] = f
    BY <1>1, <1>3, <1>4, <1>6
  <2>4. Plan' = Append(Plan, f)
    BY <1>2, <2>1, <2>2, <2>3
  <2>5. ~(Plan # <<>> /\ Plan[Len(Plan)] = 1)
    <3>1. Plan # <<>> => Len(Plan) \in 1 .. Len(log[r])
      BY <1>2, <1>6
    <3>2. \A k \in 1 .. Len(log[r]) : log[r][k].iflg # 1
      BY DEF Discipline, Disciplined
    <3> QED  BY <3>1, <3>2, <1>4
  <2>6. launch.coupled
    BY DEF Discipline, Disciplined
  <2>7. [q \in Rank |-> Len(log[q])][r] = Len(Plan)
    BY <1>6
  <2>8. Schedule!Lead(r)
    BY <2>4, <2>5, <2>6, <2>7, <1>5 DEF Schedule!Lead, Schedule!Ended, Schedule!Flag, Plan, Bit
  <2> QED  BY <2>8 DEF Schedule!Next
<1>7. CASE Len(log[r]) < Len(Plan)
  <2>1. Len(Plan') = Len(Plan)
    BY <1>1, <1>2, <1>3, <1>4, <1>7
  <2>2. Ahead # r
    BY <1>2, <1>3, <1>7
  <2>3. \A k \in 1 .. Len(Plan) : Plan'[k] = Plan[k]
    BY <1>1, <1>2, <1>4, <2>2
  <2>4. Plan' = Plan
    BY <1>2, <2>1, <2>3
  <2>5. [q \in Rank |-> Len(log[q])][r] < Len(Plan)
    BY <1>7
  <2>6. Schedule!Follow(r)
    BY <2>4, <2>5, <1>5 DEF Schedule!Follow, Plan
  <2> QED  BY <2>6 DEF Schedule!Next
<1> QED  BY <1>3, <1>4, <1>6, <1>7, <1>2

LEMMA StepMaps ==
    Inv /\ Inv' /\ OnePlan /\ OnePlan' /\ [Next]_vars => [Schedule!Next]_(Schedule!vars)
<1> SUFFICES ASSUME Inv, Inv', OnePlan, OnePlan', [Next]_vars
             PROVE  [Schedule!Next]_(Schedule!vars)
  OBVIOUS
<1>1. TypeOK /\ TypeOK' /\ Discipline
  BY DEF Inv
<1>2. CASE UNCHANGED <<launch, log>>
  BY <1>2 DEF Schedule!vars, Ahead
<1>3. ASSUME NEW r \in Rank, Step(r) PROVE [Schedule!Next]_(Schedule!vars)
  <2>1. UNCHANGED launch
    BY <1>3 DEF Step
  <2>2. CASE RadiationDue(r) /\ running[r]
    <3>1. PICK f \in Bit : f = IF LastExchange(r) THEN 1 ELSE 0
      BY DEF Bit
    <3>2. Exchange(r, f) /\ pc[r] # "done"
      BY <2>2, <3>1 DEF RadiationDue
    <3> QED  BY <1>1, <2>1, <2>2, <3>2, ExchangeMaps
  <2>3. CASE Cleanup(r) /\ running[r]
    <3>1. Exchange(r, 1) /\ pc[r] # "done" /\ 1 \in Bit
      BY <2>3 DEF Cleanup, Bit
    <3> QED  BY <1>1, <2>1, <2>3, <3>1, ExchangeMaps
  <2>4. CASE ~running[r] \/ (~RadiationDue(r) /\ ~Cleanup(r))
    <3>1. UNCHANGED log
      BY <1>3, <2>4 DEF Step, SetupWork, SetupLeave, StepBegin, StepDt, RadiationOff,
         RadiationNotDue, RadiationDue, Advance, StepLeave, TimerLeave, DumpLeave, LoopEnd,
         FinalOutput, FinalLeave, Cleanup, local
    <3> QED  BY <1>2, <2>1, <3>1
  <2> QED  BY <2>2, <2>3, <2>4
<1> QED  BY <1>2, <1>3 DEF Next, Terminated, vars

LEMMA InitMaps == Init => Schedule!Init
<1> SUFFICES ASSUME Init PROVE Schedule!Init
  OBVIOUS
<1>1. Inv /\ Agreement
  BY InitInv, InitAgreement
<1>2. OnePlan
  BY <1>1, LogsFollowPlan DEF Inv, Agreement
<1>3. \A r \in Rank : log[r] = <<>>
  BY DEF Init
<1>4. Len(<<>>) = 0
  OBVIOUS
<1>5. Plan = <<>>
  BY <1>1, <1>2, <1>3, <1>4, PlanType DEF Inv, OnePlan
<1>6. [r \in Rank |-> Len(log[r])] = [r \in Rank |-> 0]
  BY <1>3, <1>4
<1>7. launch.coupled \in BOOLEAN
  BY LaunchAssumption DEF Init
<1> QED  BY <1>5, <1>6, <1>7 DEF Schedule!Init, Plan

\* The ranks of main() perform one plan of exchanges: whoever comes first decides
\* whether the exchange is the last one, the others repeat it, and after a last
\* exchange none begins another.
THEOREM ScheduleImplemented == Spec => ImplementsSchedule
<1>1. Inv /\ Agreement => OnePlan
  BY LogsFollowPlan DEF Inv, Agreement
<1> QED
  BY <1>1, InitMaps, StepMaps, InvAlways, AgreementAlways, PTL
     DEF Spec, ImplementsSchedule, Schedule!Spec

===============================================================================
