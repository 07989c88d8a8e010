--------------------------- MODULE RadiationCoupling ---------------------------
(***************************************************************************)
(* The message protocol between JUPITER and the radiation program, and     *)
(* inside the radiation program.                                           *)
(*                                                                         *)
(* MPI_COMM_WORLD holds the N ranks of JUPITER, one per subdomain, then    *)
(* the ranks of CommRADIATION: first the N angular masters, one per        *)
(* subdomain, then L - 1 angular slaves for each master.  JUPITER rank r   *)
(* exchanges data with master r only; masters and slaves exchange the      *)
(* halos of their subdomain with the corresponding ranks of the            *)
(* neighbouring subdomains; radiation rank 0 decides for all of them       *)
(* whether the Picard iteration has converged.                             *)
(*                                                                         *)
(* Each process executes segments, which are fixed lists of MPI calls (its *)
(* scripts, in the order of the source), and decides between segments      *)
(* which one comes next.                                                   *)
(*                                                                         *)
(* Sources: communication_rad() of jupiter/communication.c, and the isub=2 *)
(* path of radiation/radiation.f90 and of                                  *)
(* radiation/mpi_communication_with_other_procs.f90.                       *)
(***************************************************************************)
EXTENDS Integers, Sequences, SequencesExt, FiniteSets, FiniteSetsExt

CONSTANTS
    N,          \* npe of JUPITER = Nproc_x * Nproc_y * Nproc_z
    L,          \* Nproc_lat
    Fields,     \* the material fields in the order they are sent
    PicardMax,  \* picard_max
    Eager,      \* the values eager may have
    InOrder,    \* receives from one source complete in the order of posting
    RoundBound  \* model bound: the exchange at which JUPITER ends the coupling

ASSUME SizeAssumption == N \in Nat \ {0} /\ L \in Nat \ {0}
ASSUME BoundAssumption == PicardMax \in Nat \ {0} /\ RoundBound \in Nat \ {0}
ASSUME ModeAssumption == Eager \subseteq BOOLEAN /\ InOrder \in BOOLEAN
\* No field has the name of something else that is sent.
ASSUME FieldAssumption ==
    /\ Fields \in Seq(STRING) /\ IsInjective(Fields) /\ "tmp" \in Range(Fields)
    /\ Range(Fields) \cap {"heat", "iflg", "halo", "E", "dE", "ads", "boundary", "error",
                          "iexit", ""} = {}

-------------------------------------------------------------------------------
(* Processes.  JUPITER ranks are named by their rank in MPI_COMM_WORLD, and *)
(* radiation ranks too: rank q of CommRADIATION is process Rad(q).          *)
JupiterProc == 0 .. N - 1
RadRank == 0 .. N * L - 1
Rad(q) == N + q
RadProc == {Rad(q) : q \in RadRank}
Proc == JupiterProc \cup RadProc

myrank(p) == p - N                     \* MPI_Comm_Rank(CommRADIATION)
IsMaster(q) == q < N
master_lat(q) == IF IsMaster(q) THEN q ELSE (q - N) \div (L - 1)
SlavesOf(q) == [i \in 1 .. L - 1 |-> N + (L - 1) * q + i - 1]

\* rank1 and rank2, the neighbours of the corresponding angular range in a row
\* of subdomains; -1 where there is none.
Corresponding(q, m) == IF IsMaster(q) THEN m ELSE q + (L - 1) * (m - master_lat(q))
rank1(q) == IF master_lat(q) = 0     THEN -1 ELSE Corresponding(q, master_lat(q) - 1)
rank2(q) == IF master_lat(q) = N - 1 THEN -1 ELSE Corresponding(q, master_lat(q) + 1)

-------------------------------------------------------------------------------
(* Scripts. *)
tag == 10
FieldTag(k) == tag + 10 * (k - 1)
FieldSet == Range(Fields)
LastField == Last(Fields)

Op(kind, peer, t, what) == [kind |-> kind, peer |-> peer, tag |-> t, what |-> what]

Isend(peer, t, what) == <<Op("send", peer, t, what)>>
Wait(peer, t) == <<Op("wait", peer, t, "")>>
Send(peer, t, what) == Isend(peer, t, what) \o Wait(peer, t)
Recv(peer, t, what) == <<Op("recv", peer, t, what)>>

ForFields(F(_, _)) == FlattenSeq([k \in DOMAIN Fields |-> F(k, Fields[k])])
ForRanks(s, F(_)) == FlattenSeq([i \in DOMAIN s |-> F(s[i])])

\* communication_rad(): the heat source comes in before the flag goes out.
JupiterExchange(r) == Recv(Rad(r), tag, "heat") \o Send(Rad(r), tag + 10, "iflg")
JupiterFields(r) == ForFields(LAMBDA k, f : Send(Rad(r), FieldTag(k), f))

\* One request variable serves the sends to all slaves: only the last is waited for.
WaitLastSlave(q, t) == IF L > 1 THEN Wait(Rad(Last(SlavesOf(q))), t) ELSE <<>>

\* Mutant: the flag is not passed on to the angular slaves.
MasterExchangeMute(q) ==
    Send(q, tag, "heat") \o Recv(q, tag + 10, "iflg")

MasterExchange(q) ==
    Send(q, tag, "heat") \o Recv(q, tag + 10, "iflg")
    \o ForRanks(SlavesOf(q), LAMBDA s : Isend(Rad(s), tag, "iflg"))
    \o WaitLastSlave(q, tag)

SlaveExchange(q) == Recv(Rad(master_lat(q)), tag, "iflg")

\* Tag 10 runs upwards, tag 20 downwards; w names what is exchanged.
mpi_isend_irecv_x_dble(q, w) ==
    (IF rank1(q) > -1 THEN Isend(Rad(rank1(q)), 20, w) ELSE <<>>)
    \o (IF rank2(q) > -1 THEN Isend(Rad(rank2(q)), 10, w) ELSE <<>>)
    \o (IF rank1(q) > -1 THEN Recv(Rad(rank1(q)), 10, w) \o Wait(Rad(rank1(q)), 20)
                         ELSE <<>>)
    \o (IF rank2(q) > -1 THEN Recv(Rad(rank2(q)), 20, w) \o Wait(Rad(rank2(q)), 10)
                         ELSE <<>>)

\* The halos of the fields and of the intensities.
Halo(q) == mpi_isend_irecv_x_dble(q, "halo")

\* The temperature that a master has computed goes to the neighbouring masters.
Set_Boundary_tmp_cell(q) == mpi_isend_irecv_x_dble(q, "boundary")

\* Mutant: the slaves are served before JUPITER's fields are in.
MasterFieldsEarly(q) ==
    ForRanks(SlavesOf(q),
             LAMBDA s : ForFields(LAMBDA k, f : Isend(Rad(s), FieldTag(k), f)))
    \o ForFields(LAMBDA k, f : Recv(q, FieldTag(k), f))
    \o Halo(q)

MasterFields(q) ==
    ForFields(LAMBDA k, f : Recv(q, FieldTag(k), f))
    \o ForRanks(SlavesOf(q),
                LAMBDA s : ForFields(LAMBDA k, f : Isend(Rad(s), FieldTag(k), f)))
    \o WaitLastSlave(q, FieldTag(Len(Fields)))
    \o Halo(q)

SlaveFields(q) ==
    <<Op("post", Rad(master_lat(q)), 0, ""), Op("waitlast", Rad(master_lat(q)), 0, "")>>
    \o Halo(q)

\* Mutant: rank 0 decides without the errors of the other masters.
ErrorsUnread(q) == IF q # 0 THEN Send(Rad(0), tag, "error") ELSE <<>>

\* The errors go to rank 0 of CommRADIATION.
Errors(q) ==
    IF q # 0 THEN Send(Rad(0), tag, "error")
    ELSE ForRanks([m \in 1 .. N - 1 |-> m], LAMBDA m : Recv(Rad(m), tag, "error"))

\* iexit goes from rank 0 to all others, in the order of their ranks.
Verdict(q) ==
    IF q # 0 THEN Recv(Rad(0), tag, "iexit")
    ELSE <<Op("judge", 0, 0, "")>>
         \o ForRanks([n \in 1 .. N * L - 1 |-> n], LAMBDA n : Send(Rad(n), tag, "iexit"))

MasterPicard(q) ==
    ForRanks(SlavesOf(q), LAMBDA s : Send(Rad(s), tag, "tmp") \o Send(Rad(s), tag + 10, "E"))
    \o Halo(q)
    \o ForRanks(SlavesOf(q), LAMBDA s : Recv(Rad(s), tag, "dE"))
    \o ForRanks(SlavesOf(q), LAMBDA s : Recv(Rad(s), tag, "ads"))
    \o Set_Boundary_tmp_cell(q)
    \o Errors(q) \o Verdict(q)

\* Mutant: the two sums are sent in the other order.
SlavePicardSwapped(q) ==
    Recv(Rad(master_lat(q)), tag, "tmp") \o Recv(Rad(master_lat(q)), tag + 10, "E")
    \o Halo(q)
    \o Send(Rad(master_lat(q)), tag, "ads") \o Send(Rad(master_lat(q)), tag, "dE")
    \o Verdict(q)

\* Mutant: the slaves do not listen to the verdict.
SlavePicardDeaf(q) ==
    Recv(Rad(master_lat(q)), tag, "tmp") \o Recv(Rad(master_lat(q)), tag + 10, "E")
    \o Halo(q)
    \o Send(Rad(master_lat(q)), tag, "dE") \o Send(Rad(master_lat(q)), tag, "ads")

SlavePicard(q) ==
    Recv(Rad(master_lat(q)), tag, "tmp") \o Recv(Rad(master_lat(q)), tag + 10, "E")
    \o Halo(q)
    \o Send(Rad(master_lat(q)), tag, "dE") \o Send(Rad(master_lat(q)), tag, "ads")
    \o Verdict(q)

Script(p, s) ==
    CASE s \in {"idle", "done"} -> <<>>
      [] p \in JupiterProc /\ s = "exchange" -> JupiterExchange(p)
      [] p \in JupiterProc /\ s = "fields"   -> JupiterFields(p)
      [] p \in RadProc /\ s = "exchange" ->
            IF IsMaster(myrank(p)) THEN MasterExchange(myrank(p)) ELSE SlaveExchange(myrank(p))
      [] p \in RadProc /\ s = "fields" ->
            IF IsMaster(myrank(p)) THEN MasterFields(myrank(p)) ELSE SlaveFields(myrank(p))
      [] p \in RadProc /\ s = "picard" ->
            IF IsMaster(myrank(p)) THEN MasterPicard(myrank(p)) ELSE SlavePicard(myrank(p))
      [] OTHER -> <<>>

Segments == {"idle", "exchange", "fields", "picard", "done"}

\* The pairs of processes between which messages can travel.
Links == {link \in Proc \X Proc :
             \E s \in {"exchange", "fields", "picard"} :
                \E op \in Range(Script(link[1], s)) : op.kind = "send" /\ op.peer = link[2]}

ScriptTable == [p \in Proc |-> [s \in Segments |-> Script(p, s)]]

\* The number of the call after the i-th that can block or that changes something:
\* if sends are buffered (e) the wait for one returns at once.
After(ops, i, e) == Min({k \in i + 1 .. Len(ops) + 1 :
                            (e /\ k <= Len(ops)) => ops[k].kind # "wait"})
NextCall == [e \in BOOLEAN |-> [p \in Proc |-> [s \in Segments |->
                [i \in DOMAIN ScriptTable[p][s] |-> After(ScriptTable[p][s], i, e)]]]]

-------------------------------------------------------------------------------
VARIABLES
    eager,      \* MPI_Send and MPI_Isend complete without their receiver
    plan, at,   \* JUPITER's exchanges, as in ExchangeSchedule
    segment,    \* the script a process is executing
    ip,         \* the number of its next call
    it,         \* rounds of the main loop begun (JUPITER: at)
    picard,     \* the Picard iteration, 0 outside the loop
    flag,       \* iflg, or iexit inside the Picard loop
    chan,       \* per link, messages sent and not received, oldest first
    pending,    \* receives of a slave posted and not completed, per field
    have,       \* the round whose value a radiation rank holds, per field
    verdicts,   \* the values of iexit chosen by rank 0 (a history)
    obeyed      \* how many of them a rank has obeyed

jupiter == <<eager, plan, at>>
vars == <<eager, plan, at, segment, ip, it, picard, flag, chan, pending, have, verdicts, obeyed>>

JUPITER == INSTANCE ExchangeSchedule WITH Rank <- JupiterProc, coupled <- TRUE

Init ==
    /\ JUPITER!Init
    /\ eager \in Eager
    /\ segment = [p \in Proc |-> IF p \in JupiterProc THEN "idle" ELSE "exchange"]
    /\ ip = [p \in Proc |-> 1]
    /\ it = [p \in RadProc |-> 1]
    /\ picard = [p \in RadProc |-> 0]
    /\ flag = [p \in Proc |-> 0]
    /\ chan = [link \in Links |-> <<>>]
    /\ pending = [p \in RadProc |-> [f \in FieldSet |-> 0]]
    /\ have = [p \in RadProc |-> [f \in FieldSet |-> 0]]
    /\ verdicts = <<>>
    /\ obeyed = [p \in RadProc |-> 0]

Ops(p) == ScriptTable[p][segment[p]]
At(p, kind) == ip[p] <= Len(Ops(p)) /\ Ops(p)[ip[p]].kind = kind
Cur(p) == Ops(p)[ip[p]]
Finished(p) == ip[p] > Len(Ops(p))

Step(p) == ip' = [ip EXCEPT ![p] = NextCall[eager][p][segment[p]][@]]
Enter(p, s) == segment' = [segment EXCEPT ![p] = s] /\ ip' = [ip EXCEPT ![p] = 1]

Round(p) == IF p \in JupiterProc THEN at[p] ELSE it[p]
Iteration(p) == IF p \in JupiterProc THEN 0 ELSE picard[p]

\* The value that a message of this kind carries when p sends it.
Payload(p, what) ==
    CASE what \in {"iflg", "iexit"} -> flag[p]
      [] what \in FieldSet -> IF p \in JupiterProc THEN at[p] ELSE have[p][what]
      [] OTHER -> 0

Message(p, op) ==
    [tag |-> op.tag, what |-> op.what, round |-> Round(p), iteration |-> Iteration(p),
     value |-> Payload(p, op.what)]

\* MPI matches messages of one source and tag in the order they were sent with
\* receives in the order they were posted: what a slave has posted before comes first.
Matching(s, d, t) == {k \in DOMAIN chan[<<s, d>>] : chan[<<s, d>>][k].tag = t}
FieldOf(t) == (t - tag) \div 10 + 1
Posted(s, d, t) ==
    IF d \in RadProc /\ s = Rad(master_lat(myrank(d))) /\ FieldOf(t) \in DOMAIN Fields
      THEN pending[d][Fields[FieldOf(t)]]
      ELSE 0
Available(s, d, t) ==
    LET all == Matching(s, d, t)
        posted == Posted(s, d, t)
    IN  {k \in all : Cardinality({j \in all : j < k}) >= posted}
Take(s, d, k) == chan' = [chan EXCEPT ![<<s, d>>] = RemoveAt(@, k)]

-------------------------------------------------------------------------------
(* MPI calls. *)
DoSend(p) ==
    /\ At(p, "send")
    /\ chan' = [chan EXCEPT ![<<p, Cur(p).peer>>] = Append(@, Message(p, Cur(p)))]
    /\ Step(p)
    /\ UNCHANGED <<jupiter, segment, it, picard, flag, pending, have, verdicts, obeyed>>

\* Without buffering a send completes when its receiver has taken the message.
DoWait(p) ==
    /\ At(p, "wait")
    /\ Matching(p, Cur(p).peer, Cur(p).tag) = {}
    /\ Step(p)
    /\ UNCHANGED <<jupiter, segment, it, picard, flag, chan, pending, have, verdicts, obeyed>>

DoRecv(p) ==
    /\ At(p, "recv")
    /\ LET s == Cur(p).peer
           w == Cur(p).what
           available == Available(s, p, Cur(p).tag)
           k == Min(available)
           m == chan[<<s, p>>][k]
       IN /\ available # {}
          /\ Take(s, p, k)
          /\ flag' = IF w \in {"iflg", "iexit"} THEN [flag EXCEPT ![p] = m.value] ELSE flag
          /\ have' = IF w \in FieldSet THEN [have EXCEPT ![p][w] = m.value] ELSE have
          /\ obeyed' = IF w = "iexit" THEN [obeyed EXCEPT ![p] = @ + 1] ELSE obeyed
    /\ Step(p)
    /\ UNCHANGED <<jupiter, segment, it, picard, pending, verdicts>>

\* The slave posts the receives of all fields ...
PostFields(p) ==
    /\ At(p, "post")
    /\ pending' = [pending EXCEPT ![p] = [f \in FieldSet |-> @[f] + 1]]
    /\ Step(p)
    /\ UNCHANGED <<jupiter, segment, it, picard, flag, chan, have, verdicts, obeyed>>

\* ... which complete one by one ...
FieldArrives(p, k) ==
    /\ p \in RadProc /\ pending[p][Fields[k]] > 0
    /\ InOrder => \A j \in 1 .. k - 1 : pending[p][Fields[j]] < pending[p][Fields[k]]
    /\ LET master == Rad(master_lat(myrank(p))) IN
         /\ Matching(master, p, FieldTag(k)) # {}
         /\ LET i == Min(Matching(master, p, FieldTag(k))) IN
              /\ have' = [have EXCEPT ![p][Fields[k]] = chan[<<master, p>>][i].value]
              /\ Take(master, p, i)
    /\ pending' = [pending EXCEPT ![p][Fields[k]] = @ - 1]
    /\ UNCHANGED <<jupiter, segment, ip, it, picard, flag, verdicts, obeyed>>

\* ... and waits for the last one only.
WaitLast(p) ==
    /\ At(p, "waitlast")
    /\ pending[p][LastField] = 0
    /\ Step(p)
    /\ UNCHANGED <<jupiter, segment, it, picard, flag, chan, pending, have, verdicts, obeyed>>

\* Rank 0 compares the errors with their limits.
Judge(p) ==
    /\ At(p, "judge")
    /\ \E v \in {0, 1} : /\ flag' = [flag EXCEPT ![p] = v]
                         /\ verdicts' = Append(verdicts, v)
    /\ obeyed' = [obeyed EXCEPT ![p] = @ + 1]
    /\ Step(p)
    /\ UNCHANGED <<jupiter, segment, it, picard, chan, pending, have>>

-------------------------------------------------------------------------------
(* Between segments. *)

\* The time loop reaches an exchange.  JUPITER's part is its abstract specification;
\* the bound makes the RoundBound-th exchange the last one.
BeginExchange(r) ==
    /\ segment[r] = "idle"
    /\ JUPITER!Lead(r) \/ JUPITER!Follow(r)
    /\ UNCHANGED eager
    /\ Len(plan') = RoundBound => plan'[RoundBound] = 1
    /\ flag' = [flag EXCEPT ![r] = plan'[at'[r]]]
    /\ Enter(r, "exchange")
    /\ UNCHANGED <<it, picard, chan, pending, have, verdicts, obeyed>>

EndJupiterSegment(r) ==
    /\ r \in JupiterProc /\ segment[r] \in {"exchange", "fields"} /\ Finished(r)
    /\ Enter(r, IF flag[r] = 1 THEN "done"
                ELSE IF segment[r] = "exchange" THEN "fields" ELSE "idle")
    /\ UNCHANGED <<jupiter, it, picard, flag, chan, pending, have, verdicts, obeyed>>

\* if(iflg .eq. 1) exit
EndRadExchange(p) ==
    /\ p \in RadProc /\ segment[p] = "exchange" /\ Finished(p)
    /\ Enter(p, IF flag[p] = 1 THEN "done" ELSE "fields")
    /\ UNCHANGED <<jupiter, it, picard, flag, chan, pending, have, verdicts, obeyed>>

BeginPicard(p) ==
    /\ p \in RadProc /\ segment[p] = "fields" /\ Finished(p)
    /\ Enter(p, "picard")
    /\ picard' = [picard EXCEPT ![p] = 1]
    /\ UNCHANGED <<jupiter, it, flag, chan, pending, have, verdicts, obeyed>>

\* Mutant: one iteration too many.
EndPicardLate(p) ==
    /\ p \in RadProc /\ segment[p] = "picard" /\ Finished(p)
    /\ IF flag[p] = 1 \/ picard[p] > PicardMax
         THEN /\ Enter(p, "exchange")
              /\ it' = [it EXCEPT ![p] = @ + 1]
              /\ picard' = [picard EXCEPT ![p] = 0]
         ELSE /\ Enter(p, "picard")
              /\ picard' = [picard EXCEPT ![p] = @ + 1]
              /\ UNCHANGED it
    /\ UNCHANGED <<jupiter, flag, chan, pending, have, verdicts, obeyed>>

EndPicard(p) ==
    /\ p \in RadProc /\ segment[p] = "picard" /\ Finished(p)
    /\ IF flag[p] = 1 \/ picard[p] = PicardMax
         THEN /\ Enter(p, "exchange")
              /\ it' = [it EXCEPT ![p] = @ + 1]
              /\ picard' = [picard EXCEPT ![p] = 0]
         ELSE /\ Enter(p, "picard")
              /\ picard' = [picard EXCEPT ![p] = @ + 1]
              /\ UNCHANGED it
    /\ UNCHANGED <<jupiter, flag, chan, pending, have, verdicts, obeyed>>

Terminated == (\A p \in Proc : segment[p] = "done") /\ UNCHANGED vars

\* A process that has finished a segment decides on its own which one is next.  No
\* other process sees when it does so: one order of the decisions stands for all.
Deciding == \E p \in Proc : segment[p] \notin {"idle", "done"} /\ Finished(p)

Decide(p) ==
    EndJupiterSegment(p) \/ EndRadExchange(p) \/ BeginPicard(p) \/ EndPicard(p)

Call(p) ==
    \/ DoSend(p) \/ DoWait(p) \/ DoRecv(p) \/ PostFields(p) \/ WaitLast(p) \/ Judge(p)
    \/ \E r \in JupiterProc : r = p /\ BeginExchange(r)
    \/ \E k \in DOMAIN Fields : FieldArrives(p, k)

Next ==
    \/ \E p \in Proc : Decide(p)
    \/ ~Deciding /\ \E p \in Proc : Call(p)
    \/ Terminated

Spec == Init /\ [][Next]_vars

\* As long as some process can move, some process does.  A behaviour has no cycle
\* (each call is made once per iteration), so no more fairness is needed.
FairSpec == Spec /\ WF_vars(Next)

-------------------------------------------------------------------------------
(***************************************************************************)
(* Properties.                                                             *)
(***************************************************************************)

\* Every variable stays in its type; a process is inside its script.
TypeOK ==
    /\ eager \in Eager
    /\ plan \in Seq({0, 1}) /\ Len(plan) <= RoundBound
    /\ at \in [JupiterProc -> 0 .. RoundBound]
    /\ segment \in [Proc -> Segments]
    /\ \A p \in Proc : ip[p] \in 1 .. Len(Ops(p)) + 1
    /\ it \in [RadProc -> 1 .. RoundBound]
    /\ picard \in [RadProc -> 0 .. PicardMax]
    /\ flag \in [Proc -> {0, 1}]
    /\ pending \in [RadProc -> [FieldSet -> {0, 1}]]
    /\ have \in [RadProc -> [FieldSet -> 0 .. RoundBound]]
    /\ obeyed \in [RadProc -> 0 .. Len(verdicts)]

\* Tags are reused (10 carries heat, iflg, a field, sums, errors, iexit and halos):
\* still every receive gets the message it is meant for, of its own round and its
\* own Picard iteration.
MessagesMatch ==
    \A p \in Proc :
        At(p, "recv") =>
            LET available == Available(Cur(p).peer, p, Cur(p).tag)
                m == chan[<<Cur(p).peer, p>>][Min(available)]
            IN  available # {} =>
              <<m.what, m.round, m.iteration>> = <<Cur(p).what, Round(p), Iteration(p)>>

\* The comments of mpi_communication_with_other_procs.f90 (lines 104 and 150) say
\* that masters receive the properties from JUPITER and slaves from their master:
\* in a Picard loop every radiation rank works on the fields of its own round.
FieldsFresh ==
    \A p \in RadProc : segment[p] = "picard" => \A f \in FieldSet : have[p][f] = it[p]

\* When the coupling has ended no message is left over, nor a posted receive:
\* MPI_Finalize would wait for it.
NothingLeft ==
    (\A p \in Proc : segment[p] = "done") =>
        /\ \A link \in Links : chan[link] = <<>>
        /\ \A p \in RadProc, f \in FieldSet : pending[p][f] = 0

\* JUPITER's last exchange ends every process of the radiation program.
Finishes == <>(\A p \in Proc : segment[p] = "done")

\* The Picard loop runs in lock step.
Picard == INSTANCE LockStep WITH Rank <- RadProc, Leader <- Rad(0)
PicardInLockStep == Picard!Spec
===============================================================================
