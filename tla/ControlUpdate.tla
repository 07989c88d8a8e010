----------------------------- MODULE ControlUpdate -----------------------------
(***************************************************************************)
(* The update of the controlled values after each time step: what the      *)
(* ranks do in controllable_type_update_all() and update_control_values()  *)
(* of jupiter/field_control.c, in the executives of the control library    *)
(* (jupiter/control/executive.c, abstract_stats.c, fv_get.c) and in the    *)
(* collective calls of its mpi_controller.c.                               *)
(*                                                                         *)
(* A control is the end of a chain of executives: a grid has the fields of *)
(* the rank, a statistic sums every field over the ranks onto rank 0, a    *)
(* getter hands the selected values to all the ranks, a writer appends     *)
(* them to a file.  The value decides about the boundary conditions, so it *)
(* must be one and the same, and of this step, on every rank; and the      *)
(* update is collective although its parts fail on single ranks.           *)
(***************************************************************************)
EXTENDS Collectives, FiniteSets, Integers, SequencesExt

CONSTANTS
    Exec,      \* the executives
    Kind,      \* [Exec -> {"grid", "sum", "get", "csv"}]
    Source,    \* where the input of an executive comes from; of a grid, None
    None,
    Controls,  \* the executives that are updated, in the order of the lists
    Names,     \* the names of the fields, in the order in which a grid has them
    Selected,  \* ranks in which a getter selects a value of a grid
    StepMax,   \* number of time steps
    Faults     \* calls in which an allocation may fail on a rank

ASSUME RanksAreNumbers ==
    IsFiniteSet(Rank) /\ Rank = 0 .. Cardinality(Rank) - 1 /\ Root = 0
ASSUME ChainAssumption ==
    /\ Kind \in [Exec -> {"grid", "sum", "get", "csv"}]
    /\ Source \in [Exec -> Exec \cup {None}] /\ None \notin Exec
    /\ \A e \in Exec : Kind[e] = "grid" <=> Source[e] = None
\* What is connected has the type of the input (jcntrl_executive_check_input_type()): a
\* statistic and a getter work on a grid, which a statistic has made or not, a writer on
\* the values of a getter.
ASSUME InputAssumption ==
    \A e \in Exec : /\ Kind[e] \in {"sum", "get"} => Kind[Source[e]] \in {"grid", "sum"}
                    /\ Kind[e] = "csv" => Kind[Source[e]] = "get"
\* No executive pulls itself: the code does not look, and would never end.
ASSUME AcyclicAssumption ==
    \A S \in SUBSET Exec : S # {} => \E e \in S : Source[e] \notin S
ASSUME ListAssumption ==
    /\ Controls \in Seq(Exec) /\ Selected \subseteq Rank
    /\ Names \in Seq(STRING) /\ Names # <<>> /\ "end" \notin ToSet(Names)
    /\ StepMax \in Nat \ {0}

VARIABLES
    pc,        \* where the rank is
    at,        \* position in Controls
    todo,      \* executives of the control that are not yet updated
    master,    \* the rank whose fields calc_for_grid() goes through
    name,      \* the field that is worked on
    work,      \* what the root has gathered of it
    iret,      \* the return code of calc_for_grid(), 1 for an error
    out,       \* the output data of the executives
    status,    \* prm->status
    step       \* time steps finished

local == <<at, todo, master, name, work, iret, out, status, step>>
vars  == <<calls, pc, local>>

Bit == {0, 1}
End == "end"      \* what the master sends after its last field
Halted == {"ended", "aborted", "crashed"}

\* The calls; a rank that waits in one has its name as place.
Ops == {"coords", "init", "size", "work", "names", "next", "local", "gather", "new",
        "add", "post", "indices", "extents", "fields", "values", "report"}
Labels == Halted \cup Ops \cup {"control", "exec", "wild"}

\* An allocation in the call op fails on a rank, or does not.
Outcome(op) == IF op \in Faults THEN Bit ELSE {0}

\* The executives before e, and e: each pulls its input first.
Chain[e \in Exec] ==
    (IF Source[e] = None THEN <<>> ELSE Chain[Source[e]]) \o <<e>>

\* A field of a grid is a set of contributions: by which rank, in which step.
Fields(r, s) == [n \in ToSet(Names) |-> {<<r, s>>}]

-------------------------------------------------------------------------------
Init ==
    /\ pc = [r \in Rank |-> "control"]
    /\ at = [r \in Rank |-> 1]
    /\ todo = [r \in Rank |-> <<>>]
    /\ master = [r \in Rank |-> 0]
    /\ name = [r \in Rank |-> End]
    /\ work = [r \in Rank |-> {}]
    /\ iret = [r \in Rank |-> 0]
    /\ out = [r \in Rank |-> [e \in Exec |-> <<>>]]
    /\ status = [r \in Rank |-> 0]
    /\ step = [r \in Rank |-> 0]
    /\ calls = NoCalls

Goto(r, l) == pc' = [pc EXCEPT ![r] = l]

\* A rank enters the call op and waits in it.  The calls of mpi_controller.c
\* agree on failure before or after their exchange (bcasta on a failed resize,
\* and then broadcasts all the same), so that none of them returns before every
\* rank has entered it, with the same verdict everywhere.
Meet(r, op, value) == Enter(r, op, value) /\ Goto(r, op)

Waited(r, op) == pc[r] = op /\ Entered(r)
AnyFailed(r)  == Largest(r) = 1

This(r)   == Head(todo[r])
Input(r)  == out[r][Source[This(r)]]
Result(r, v) == out' = [out EXCEPT ![r][This(r)] = v]

At(r, kind) == pc[r] = "exec" /\ todo[r] # <<>> /\ Kind[This(r)] = kind

\* The executive has been updated; the next one of the chain follows.
Done(r) == todo' = [todo EXCEPT ![r] = Tail(@)] /\ Goto(r, "exec")

\* It has failed: the control is given up, prm->status becomes ON, and the next
\* control follows.
GiveUp(r) ==
    /\ todo' = [todo EXCEPT ![r] = <<>>]
    /\ at' = [at EXCEPT ![r] = @ + 1]
    /\ status' = [status EXCEPT ![r] = 1]
    /\ Goto(r, "control")

-------------------------------------------------------------------------------
(***************************************************************************)
(* controllable_type_update_all() and the writers.                         *)
(***************************************************************************)
\* The next control; after the last one the ranks compare their status.
Control(r) ==
    /\ pc[r] = "control"
    /\ IF at[r] > Len(Controls)
       THEN Meet(r, "report", status[r]) /\ UNCHANGED todo
       ELSE /\ todo' = [todo EXCEPT ![r] = Chain[Controls[at[r]]]]
            /\ Goto(r, "exec") /\ UNCHANGED calls
    /\ UNCHANGED <<at, master, name, work, iret, out, status, step>>

\* controllable_type_refresh_value(): a control has exactly one value.
Refresh(r) ==
    /\ pc[r] = "exec" /\ todo[r] = <<>>
    /\ at' = [at EXCEPT ![r] = @ + 1]
    /\ LET e == Controls[at[r]] IN
         status' = [status EXCEPT ![r] =
                      IF Kind[e] = "get" /\ Len(out[r][e]) # 1 THEN 1 ELSE @]
    /\ Goto(r, "control")
    /\ UNCHANGED <<calls, todo, master, name, work, iret, out, step>>

\* Mutant: one step more.
ReportLate(r) ==
    /\ Waited(r, "report")
    /\ step' = [step EXCEPT ![r] = @ + 1]
    /\ at' = [at EXCEPT ![r] = 1]
    /\ Goto(r, IF AnyFailed(r) THEN "aborted"
               ELSE IF step[r] = StepMax THEN "ended" ELSE "control")
    /\ UNCHANGED <<calls, todo, master, name, work, iret, out, status>>

\* for_any_rank() at the end of the step; the next step changes the fields.
Report(r) ==
    /\ Waited(r, "report")
    /\ step' = [step EXCEPT ![r] = @ + 1]
    /\ at' = [at EXCEPT ![r] = 1]
    /\ Goto(r, IF AnyFailed(r) THEN "aborted"
               ELSE IF step[r] + 1 = StepMax THEN "ended" ELSE "control")
    /\ UNCHANGED <<calls, todo, master, name, work, iret, out, status>>

\* The rank's own fields: no call.
Grid(r) ==
    /\ At(r, "grid")
    /\ \E c \in Outcome("output") :
         IF c = 1 THEN GiveUp(r) /\ UNCHANGED out
         ELSE /\ Result(r, Fields(r, step[r])) /\ Done(r)
              /\ UNCHANGED <<at, status>>
    /\ UNCHANGED <<calls, master, name, work, iret, step>>

\* jcntrl_write_fv_csv_write(): all the ranks write the same file, and one that
\* finds it as another has just created it, empty, fails.
Csv(r) ==
    /\ At(r, "csv")
    /\ \E c \in Outcome("csv") :
         IF c = 1 THEN GiveUp(r) ELSE Done(r) /\ UNCHANGED <<at, status>>
    /\ UNCHANGED <<calls, master, name, work, iret, out, step>>

-------------------------------------------------------------------------------
(***************************************************************************)
(* A statistic over all the ranks: jcntrl_abstract_stat and its subclass   *)
(* jcntrl_abstract_stat_all.                                               *)
(***************************************************************************)
\* The output object of an executive is made before the executive is asked.
Sum(r) ==
    /\ At(r, "sum")
    /\ \E c \in Outcome("output") :
         IF c = 1 THEN GiveUp(r) /\ UNCHANGED calls
         ELSE Meet(r, "coords", 0) /\ UNCHANGED <<at, todo, status>>
    /\ UNCHANGED <<master, name, work, iret, out, step>>

\* The bounds of the grid are reduced to the root, which makes the coordinates.
Coords(r) ==
    /\ Waited(r, "coords")
    /\ \E c \in Outcome("init") : Meet(r, "init", c)
    /\ UNCHANGED local

\* Mutant: a rank looks at its own result.
InitOutputAlone(r) ==
    /\ Waited(r, "init")
    /\ IF Given(r, r) = 1
       THEN GiveUp(r) /\ UNCHANGED calls
       ELSE Meet(r, "size", 0) /\ UNCHANGED <<at, todo, status>>
    /\ UNCHANGED <<master, name, work, iret, out, step>>

\* One rank that could not make the output grid stops all of them.
InitOutput(r) ==
    /\ Waited(r, "init")
    /\ IF AnyFailed(r)
       THEN GiveUp(r) /\ UNCHANGED calls
       ELSE Meet(r, "size", 0) /\ UNCHANGED <<at, todo, status>>
    /\ UNCHANGED <<master, name, work, iret, out, step>>

Size(r) ==
    /\ Waited(r, "size")
    /\ \E c \in Outcome("work") : Meet(r, "work", c)
    /\ UNCHANGED local

\* Mutant: the arrays of the last step stay in the output.
WorkKept(r) ==
    /\ Waited(r, "work")
    /\ IF AnyFailed(r)
       THEN Goto(r, "wild") /\ UNCHANGED <<calls, master, iret, out>>
       ELSE /\ master' = [master EXCEPT ![r] = 0]
            /\ iret' = [iret EXCEPT ![r] = 0]
            /\ \E c \in Outcome("names") : Meet(r, "names", IF r = 0 THEN 0 ELSE c)
            /\ UNCHANGED out
    /\ UNCHANGED <<at, todo, name, work, status, step>>

\* The work arrays are there: calc_for_grid() empties the output and begins.
Work(r) ==
    /\ Waited(r, "work")
    /\ IF AnyFailed(r)
       THEN Goto(r, "wild") /\ UNCHANGED <<calls, master, iret, out>>
       ELSE /\ Result(r, <<>>)
            /\ master' = [master EXCEPT ![r] = 0]
            /\ iret' = [iret EXCEPT ![r] = 0]
            /\ \E c \in Outcome("names") : Meet(r, "names", IF r = 0 THEN 0 ELSE c)
    /\ UNCHANGED <<at, todo, name, work, status, step>>

\* The work arrays are released; a rank that failed to allocate them has not set
\* the variables that tell how many there are, and where.
Release(r) ==
    /\ pc[r] = "wild"
    /\ \/ /\ GiveUp(r)
       \/ /\ Given(r, r) = 1
          /\ pc' = [q \in Rank |-> "crashed"]
          /\ UNCHANGED <<at, todo, status>>
    /\ UNCHANGED <<calls, master, name, work, iret, out, step>>

-------------------------------------------------------------------------------
\* The master broadcasts the name of its next field that the output does not
\* have yet, or the end; the others pass on what they receive.
Unsummed(summed) == {i \in DOMAIN Names : Names[i] \notin summed}

First(summed) == IF Unsummed(summed) = {} THEN End
                 ELSE Names[CHOOSE i \in Unsummed(summed) :
                               \A j \in Unsummed(summed) : i <= j]

Offer(r) == IF master[r] # r THEN None ELSE First(DOMAIN out[r][This(r)])

\* The arrays for the names are allocated on every rank but the master.
NamesLeave(r) ==
    /\ Waited(r, "names")
    /\ IF AnyFailed(r)
       THEN GiveUp(r) /\ UNCHANGED calls
       ELSE Meet(r, "next", Offer(r)) /\ UNCHANGED <<at, todo, status>>
    /\ UNCHANGED <<master, name, work, iret, out, step>>

\* All masters have had their turn; the root finishes the output.
EndGrid(r, code) ==
    IF code = 1
    THEN GiveUp(r) /\ UNCHANGED calls
    ELSE /\ \E c \in Outcome("post") : Meet(r, "post", IF r = Root THEN c ELSE 0)
         /\ UNCHANGED <<at, todo, status>>

NextMaster(r, code) ==
    /\ master' = [master EXCEPT ![r] = @ + 1]
    /\ iret' = [iret EXCEPT ![r] = code]
    /\ IF master[r] + 1 = Cardinality(Rank)
       THEN EndGrid(r, code)
       ELSE /\ \E c \in Outcome("names") :
                  Meet(r, "names", IF r = master[r] + 1 THEN 0 ELSE c)
            /\ UNCHANGED <<at, todo, status>>

\* calc_for_array() has failed everywhere: the master returns, and with it the
\* update of the control; the others only leave the loop over the names.
ArrayFailed(r) ==
    IF r = master[r]
    THEN GiveUp(r) /\ UNCHANGED <<calls, master, iret>>
    ELSE NextMaster(r, 1)

\* calc_for_array() of the next field, or the end of this master's fields.
NextField(r) ==
    /\ Waited(r, "next")
    /\ name' = [name EXCEPT ![r] = Given(master[r], r)]
    /\ IF Given(master[r], r) = End
       THEN NextMaster(r, iret[r])
       ELSE /\ \E c \in Outcome("local") : Meet(r, "local", c)
            /\ UNCHANGED <<at, todo, master, iret, status>>
    /\ UNCHANGED <<work, out, step>>

\* The rank's own part of the sum is gathered on the root.
LocalLeave(r) ==
    /\ Waited(r, "local")
    /\ IF AnyFailed(r)
       THEN ArrayFailed(r)
       ELSE /\ Meet(r, "gather", Input(r)[name[r]])
            /\ UNCHANGED <<at, todo, master, iret, status>>
    /\ UNCHANGED <<name, work, out, step>>

Gather(r) ==
    /\ Waited(r, "gather")
    /\ work' = [work EXCEPT ![r] = IF r = Root THEN UNION Contributed(r) ELSE {}]
    /\ \E c \in Outcome("new") : Meet(r, "new", c)
    /\ UNCHANGED <<at, todo, master, name, iret, out, status, step>>

\* The array of the result is added to the output where that succeeds.
New(r) ==
    /\ Waited(r, "new")
    /\ IF AnyFailed(r)
       THEN ArrayFailed(r) /\ UNCHANGED out
       ELSE /\ \E c \in Outcome("add") :
                 /\ Meet(r, "add", c)
                 /\ IF c = 1 THEN UNCHANGED out
                    ELSE Result(r, [n \in DOMAIN out[r][This(r)] \cup {name[r]} |->
                                       IF n = name[r] THEN work[r] ELSE out[r][This(r)][n]])
            /\ UNCHANGED <<at, todo, master, iret, status>>
    /\ UNCHANGED <<name, work, step>>

Add(r) ==
    /\ Waited(r, "add")
    /\ IF AnyFailed(r)
       THEN ArrayFailed(r)
       ELSE /\ Meet(r, "next", Offer(r))
            /\ UNCHANGED <<at, todo, master, iret, status>>
    /\ UNCHANGED <<name, work, out, step>>

Post(r) ==
    /\ Waited(r, "post")
    /\ IF AnyFailed(r) THEN GiveUp(r) ELSE Done(r) /\ UNCHANGED <<at, status>>
    /\ UNCHANGED <<calls, master, name, work, iret, out, step>>

-------------------------------------------------------------------------------
(***************************************************************************)
(* A getter, jcntrl_fv_get: every rank gets the selected values of all.    *)
(***************************************************************************)
\* The ranks that have a value for getter e; a sum is on the root only.
Picks(e, q) == IF Kind[Source[e]] = "sum" THEN q = Root ELSE q \in Selected

Picking(e) == {q \in Rank : Picks(e, q)}

\* In the order of the ranks.
Pickers(e) ==
    [k \in 1 .. Cardinality(Picking(e)) |->
        CHOOSE q \in Picking(e) : Cardinality({p \in Picking(e) : p < q}) = k - 1]

\* The indices of the selected cells in the rank.
Get(r) ==
    /\ At(r, "get")
    /\ \E c \in Outcome("output"), i \in Outcome("indices") :
         IF c = 1 THEN GiveUp(r) /\ UNCHANGED calls
         ELSE Meet(r, "indices", i) /\ UNCHANGED <<at, todo, status>>
    /\ UNCHANGED <<master, name, work, iret, out, step>>

\* The extents, the numbers of indices and the indices are sent to all.
Indices(r) ==
    /\ Waited(r, "indices")
    /\ IF AnyFailed(r)
       THEN GiveUp(r) /\ UNCHANGED calls
       ELSE Meet(r, "extents", 0) /\ UNCHANGED <<at, todo, status>>
    /\ UNCHANGED <<master, name, work, iret, out, step>>

\* The places of the values are computed from them, and the array is made.
Extents(r) ==
    /\ Waited(r, "extents")
    /\ \E c \in Outcome("fields") : Meet(r, "fields", c)
    /\ UNCHANGED local

\* Every rank sends its first field.
FieldsLeave(r) ==
    /\ Waited(r, "fields")
    /\ IF AnyFailed(r)
       THEN GiveUp(r) /\ UNCHANGED calls
       ELSE /\ Meet(r, "values", IF Picks(This(r), r) THEN Input(r)[Names[1]] ELSE {})
            /\ UNCHANGED <<at, todo, status>>
    /\ UNCHANGED <<master, name, work, iret, out, step>>

\* The rank whose value arrives last: a rank copies its own, then receives from
\* the rank before it, and so on around.
Behind(r, q) == (r - q) % Cardinality(Rank)

LastFrom(r) ==
    CHOOSE q \in Picking(This(r)) :
        \A p \in Picking(This(r)) : Behind(r, p) <= Behind(r, q)

\* The variable js that tells where the indices of a rank begin is never moved
\* on, and all the values are put where those of the first rank belong.  An array
\* of the right size keeps what it has there.
Values(r) ==
    /\ Waited(r, "values")
    /\ LET e == This(r)
           places == 1 .. Len(Pickers(e))
           before == IF DOMAIN out[r][e] = places THEN out[r][e]
                                                  ELSE [k \in places |-> {}]
       IN  Result(r, IF places = {} THEN before
                     ELSE [before EXCEPT ![1] = Given(LastFrom(r), r)])
    /\ Done(r)
    /\ UNCHANGED <<calls, at, master, name, work, iret, status, step>>

-------------------------------------------------------------------------------
Step(r) ==
    \/ Control(r) \/ Refresh(r) \/ Report(r) \/ Grid(r) \/ Csv(r)
    \/ Sum(r) \/ Coords(r) \/ InitOutput(r) \/ Size(r) \/ Work(r) \/ Release(r)
    \/ NamesLeave(r) \/ NextField(r) \/ LocalLeave(r) \/ Gather(r) \/ New(r)
    \/ Add(r) \/ Post(r)
    \/ Get(r) \/ Indices(r) \/ Extents(r) \/ FieldsLeave(r) \/ Values(r)

AllHalted == \A r \in Rank : pc[r] \in Halted
Over == AllHalted /\ UNCHANGED vars

Next == (\E r \in Rank : Step(r)) \/ Over

Spec == Init /\ [][Next]_vars

-------------------------------------------------------------------------------
Contribution == Rank \X (0 .. StepMax)

\* Every variable has its type; a statistic has fields, a getter has values.
TypeOK ==
    /\ pc \in [Rank -> Labels]
    /\ at \in [Rank -> 1 .. Len(Controls) + 1]
    /\ \A r \in Rank : todo[r] = <<>> \/ \E e \in Exec : IsSuffix(todo[r], Chain[e])
    /\ master \in [Rank -> 0 .. Cardinality(Rank)]
    /\ name \in [Rank -> ToSet(Names) \cup {End}]
    /\ work \in [Rank -> SUBSET Contribution]
    /\ iret \in [Rank -> Bit] /\ status \in [Rank -> Bit]
    /\ step \in [Rank -> 0 .. StepMax]
    /\ \A r \in Rank, e \in Exec :
         IF Kind[e] \in {"grid", "sum"}
         THEN /\ DOMAIN out[r][e] \subseteq ToSet(Names)
              /\ \A n \in DOMAIN out[r][e] : out[r][e][n] \subseteq Contribution
         ELSE out[r][e] \in Seq(SUBSET Contribution)

\* The ranks meet in the same call whatever fails on one of them: a rank that
\* gives a control up while another goes on would meet it in a call of another
\* executive.
CollectivesMatch == Matched

\* What getter e should have: the values of the selected ranks, in their order.
Whole(e, s) ==
    [k \in 1 .. Len(Pickers(e)) |->
        IF Kind[Source[e]] = "sum" THEN Rank \X {s} ELSE {<<Pickers(e)[k], s>>}]

\* A getter that has been updated holds on every rank the values of every rank
\* that has one, all of this step, also when its statistic was updated before,
\* in this step for another control or in an earlier one.
FieldsWhole ==
    \A r \in Rank :
        (pc[r] = "exec" /\ todo[r] = <<>>) =>
            LET c == Controls[at[r]]
                e == IF Kind[c] = "csv" THEN Source[c] ELSE c
            IN  Kind[e] = "get" => out[r][e] = Whole(e, step[r])
===============================================================================
