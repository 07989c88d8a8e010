# A verification project for JUPITER

JUPITER is an MPI program (C, with a Fortran radiation program beside it) that
simulates melting and relocation of core material. This directory holds TLA+
models of the parts of it that decide *who talks to whom and when*, the TLC
configurations that check them on small instances, and TLAPS proofs, for any number
of ranks, of the properties of the main program, of the halo exchange, of the restart
dump, of the labelling and the layers of bubbles, of the communication of the particles and of the
update of the controls.

The numerics are real-valued and stay out of the models: a numerical phase is
reduced to what it can do to the control flow (raise `prm->status`, limit the
time step, say that a field has converged). They are most of the lines of the
program; what is modelled is the part that makes many ranks one calculation.

## 1. Inventory

### 1.1 Processes and communicators

`MPI_COMM_WORLD` holds the `npe = npe_x*npe_y*npe_z` ranks of JUPITER
(`CommJUPITER`) followed by `npe*npe_a` ranks of the radiation program
(`CommRADIATION`). Radiation rank `q < npe` is the *angular master* of the
subdomain of JUPITER rank `q`; the others are *angular slaves*, `npe_a - 1` per
master. JUPITER rank `r` exchanges data with global rank `r + npe` only.

### 1.2 Components

| component | where | state | operations | talks to | makes it correct |
|---|---|---|---|---|---|
| main program | `jupiter/main.c` | `prm->status`, `icnt`, `time`, `dt`, exit value | set-up phases, time loop, restart dump, final output, abort, clean-up | all phases; `for_any_rank`, `MPI_Bcast` | ranks take the same path; the radiation program is always released; the exit code tells the truth |
| radiation schedule | `jupiter/radiation.c` | `elapsed_time`, `radiation_running` | decide exchange / last exchange | `communication_rad` | same exchanges on all ranks, not too late, none after the last |
| time step control | `jupiter/dt_control.c` | `dt` | reduce maxima, choose `dt` | `CommJUPITER` | bitwise the same `dt` on all ranks |
| radiation coupling, JUPITER side | `jupiter/communication.c` `communication_rad()` | send buffer | receive heat, send flag, send five fields | angular master | every message is matched with its receive |
| radiation program | `radiation/*.f90` | fields, `iflg`, `iexit` | main loop, distribution to slaves, halos, ray tracing, Picard loop, verdict | JUPITER, other radiation ranks | lock step; computes on the fields of its round; ends when told |
| halo exchange | `jupiter/communication.c` `communication()` | buffers | pack, isend/irecv, wait, unpack per direction | six neighbours | ghosts, edges and corners are the neighbour's cells |
| bubble labels | `jupiter/multi_layer.c` | `label_layer`, `fl_layer`, `is_orifice_layer` | label locally, offset, reconcile over ranks, expand, find contacts, colour, redistribute | `MPI_COMM_WORLD` collectives, label halos | one label per bubble; bubbles in contact live in different layers; no bubble is lost |
| set-up and configuration | `jupiter/set_param.c`, `communication.c` | `mpi_param`, decomposition | split communicators, check sizes, broadcast the configuration to the radiation program | all ranks | consistent neighbours; every broadcast has its receivers |
| particle tracking | `jupiter/lpt.c`, `jupiter/lptx` | particle sets of every rank | integrate in stages, redistribute after each stage, gather for an output | all ranks | no particle lost or doubled; a rank integrates only what lies in its subdomain; ranks agree on stages and sets |
| control library | `jupiter/field_control.c`, `jupiter/control` | executives with their outputs, controls | update chains of executives after each step: statistics, getters, writers | all ranks | every rank gets the same values, of this step; a failure of one rank is known to all |
| output and restart | `jupiter/io_process.c` | files of a dump, time file | withdraw, write, publish; restart | MPI-IO, collectives | a time file vouches for a whole dump; a restart goes on from exactly that state |
| serializer, tables, parameter parser, geometry | `jupiter/serializer`, `table`, `param.c`, `geometry` | buffers, tables | (de)serialise, parse, intersect | - | sequential algorithms |
| numerical kernels | `jupiter/*.c`, `*.cu` | fields | advance the physics | halo exchange, reductions | numerical analysis |

### 1.3 What is hard here

* Ranks run the same program without a coordinator. Any condition computed from
  local data before a collective can send two ranks into different collectives.
* JUPITER ranks do not synchronise around an exchange with the radiation
  program; only the messages do.
* Messages of CommRADIATION reuse tag 10 for eight different things.
* MPI may or may not buffer a send, so an order of blocking calls that works on
  one machine can deadlock on another.
* The radiation program ends only when it is told to, on every exit path of
  JUPITER.
* Non-blocking calls share one request variable, so some of them are never
  waited for.
* Labelling and colouring are distributed algorithms on data whose halos have
  different ages.
* A restart dump is many files written by many ranks, and a job may be killed
  between any two of their writes.
* Allocations, writes and reads fail on one rank. Where the code does not share the
  result, that rank leaves the common sequence of collectives.
* Ranks have different numbers of particle sets, and getters select values in
  different ranks, and still all of them have to make the same calls.

The list of hazards with their lines, and the properties that cover each one, is
in `PROJECT.json` ("hazards").

## 2. Modules

| module | models | built from |
|---|---|---|
| `ExchangeSchedule` | abstract: one plan of exchanges, ended by `iflg = 1`, that all JUPITER ranks follow | |
| `MainLoop` | `main()` and `radiation()` on every rank, collectives included | implements `ExchangeSchedule` |
| `MainLoopProofs` | theorems about `MainLoop`: types, release of the radiation program; the ranks agree on collectives and on the verdict; exchanges in time and to one plan | `MainLoop`, `TLAPS` |
| `LockStep` | abstract: a leader decides after each iteration, all ranks obey | |
| `RadiationCoupling` | the messages of an exchange and of the Picard loop | `ExchangeSchedule` for JUPITER's side; implements `LockStep` |
| `CouplingProofs` | theorems about `RadiationCoupling`: types; messages match; fields are fresh; nothing is left over; the Picard loops run in lock step | `RadiationCoupling`, `TLAPS` |
| `Decomposition` | places and neighbours of the ranks, extents of a subdomain | |
| `HaloExchange` | `communication()` and `sync_label_halo()`, message by message | `Decomposition` |
| `HaloExchangeProofs` | theorems about `HaloExchange`: types, the halo is current, no message is left over | `HaloExchange`, `TLAPS` |
| `CellOrder` | order of the loops over cells, neighbours compared for labels | |
| `LabelScan` | `CCL_local()`: the bubbles of one rank labelled in two sweeps | `CellOrder` |
| `BubbleLabels` | `CCL()`: the labels of all ranks made one | `Decomposition`, `CellOrder`; uses the results of `LabelScan` and `HaloExchange` |
| `BubbleLayers` | `APT()`: sizes and boxes, contacts, colours, layers | extends `BubbleLabels` |
| `BubbleProofs` | theorems about `LabelScan`: types, labels are connected components; about `BubbleLabels` and `BubbleLayers`: types, one label per bubble, labels in the halo, near bubbles in different layers | `LabelScan`, `BubbleLayers`, `TLAPS` |
| `Collectives` | the collectives of MPI on one communicator | |
| `AtomicDump` | abstract: a state that can be restored, as a whole, or none | |
| `Checkpoint` | restart dump and restart, over several jobs | `Collectives`; implements `AtomicDump` |
| `CollectiveTrace` | lemmas: ranks that decide from the results of collectives stay in step | `TLAPS` |
| `CheckpointProofs` | theorems about `Checkpoint`: types, matching collectives; a dump is whole or not there | `Checkpoint`, instance of `CollectiveTrace` |
| `Particles` | LPTX: stages, redistribution, gathering | `Collectives` |
| `ParticlesProofs` | theorems about `Particles`: types, matching collectives; no particle lost or doubled, none integrated by the wrong rank | `Particles`, instance of `CollectiveTrace` |
| `ControlUpdate` | the update of the controls after each step | `Collectives` |
| `ControlProofs` | theorems about `ControlUpdate`: types, matching collectives; the values are whole and of this step | `ControlUpdate`, instance of `CollectiveTrace` |
| `MC...` | constants for TLC | |

`ExchangeSchedule` is the seam: `MainLoop` is shown to implement it, and
`RadiationCoupling` uses it as the environment that starts exchanges, so what the
second module shows holds for every schedule that the first can produce.

`Collectives` holds what MPI promises of collective calls: the k-th call of one rank
meets the k-th call of every other rank of the communicator, whatever operations they
are. `calls[r]` is what rank `r` has entered (a call that all have left is
forgotten); Allreduce, Allgather and Barrier let a rank go when all have entered,
Bcast when the root has. Several consecutive collectives between which nothing can
fail or be decided are one call in the models, a *block*. That the operations agree
is always an invariant, `CollectivesMatch`, never an assumption: a rank that gives up
alone shows up as an Allreduce that meets an Allgather. `MainLoop` came first and has
the same rules built in.

### 2.1 MainLoop

A rank's `pc` is its place in `main()`. Labels with `_wait` stand for being inside
a collective: the rank has contributed its value to `calls[r]` and leaves when all
ranks have (Allreduce) or when the root has (Bcast). Collectives are matched by
their number in the sequence of the communicator, exactly as MPI does, whatever
operation they are; that the operations agree is the invariant `CollectivesMatch`
and not an assumption.

| code | actions |
|---|---|
| five checked phases before the loop, `main.c:121-157` | `SetupWork`, `SetupLeave` |
| loop condition and `dt_control`, `main.c:183-188` | `StepBegin`, `StepDt`, `LoopEnd` |
| `radiation()` | `RadiationOff`, `RadiationNotDue`, `RadiationDue` |
| rest of the step, `main.c:199-243` | `Advance`, `StepLeave` |
| `print_timer()` and the restart dump, `main.c:246-263` | `TimerLeave`, `DumpLeave` |
| `output_data(1)`, `abort_jupiter`, `cleanup` | `FinalOutput`, `FinalLeave`, `Abort`, `Cleanup` |

`Launch` gives the combinations of the radiation flag and of the presence of
radiation processes: they come from different parts of the input, and nothing makes
them agree. Radiation processes without the flag never get their configuration
(`set_param.c:1162`) and answer nothing: `Cleanup` waits for `Answering`.

Abstractions: time, `dt` and `dt_rad` are integers (the code's comparisons and
additions are kept, rounding is not); a rank's limit on `dt` is an arbitrary
member of `DtLimit`, and of the several reductions inside `dt_control()` one
stands for all; the reductions inside the other numerical phases, which are
unconditional, are left out; `log` and `calls` are histories that no guard of the
time loop reads except to know that a collective is complete.

### 2.2 RadiationCoupling

Each process executes *segments*: `exchange` (flag and heat source), `fields`,
`picard`. A segment is a fixed list of MPI calls, written in the order of the
source. The processes step through the lists concurrently; between two segments
the code's decisions (`if(iflg.eq.1) exit`, `if(iexit.gt.0) exit`, the bound of
the Picard loop) choose the next one. A channel per pair of processes holds the
messages; a receive takes the oldest with its tag, as MPI prescribes.

* `eager`, chosen at the start from `Eager`: sends complete at once (buffering), or
  the call that completes a send waits until its message has been received
  (rendezvous).
* `InOrder`: whether the five receives that a slave has posted complete in the
  order of posting. MPI promises nothing of that kind for different tags;
  `InOrder = TRUE` is what the code relies on, `FALSE` what MPI allows.
* A message carries the round and the Picard iteration of its sender, as history;
  no guard reads them.
* A process that has finished a segment decides alone which one is next
  (`Decide`), and no other process can see when: one order of these decisions
  stands for all, before any further call.

Abstractions: subdomains form a row (`Nproc_y = Nproc_z = 1`), so halos go to at
most two neighbours and the exchanges in y and z fall away; the halos of the several
arrays before the Picard loop, and of the several directions of the ray tracing, are
represented by one exchange each (`Halo`). The masters' exchange of the temperatures
they have computed, between the sums and the errors of an iteration and on the tags
10 and 20 of those, is the one of the code (`Set_Boundary_tmp_cell`,
`radiation.f90:927`). Fields are represented by the number of the round they come from; sums and
errors by nothing but their messages. Start-up of the radiation program is not
modelled. Sends carry their value at the time of the call.

### 2.3 LabelScan

One step is the body of one of the two loops of `CCL_local()` for one cell:
`ScanOther`, `ScanNew` and `ScanJoin` are the branches of the first sweep (not a
bubble cell, no labelled neighbour, some labelled neighbour), `RenumberOther` and
`Renumber` those of the second. `Past(c)` is the set of neighbours that
`neighbor_offsets` gives, as the source lists them: with `(0, -1, -1)` twice and
without `(0, 1, -1)`.

Abstractions: `parent[]` is represented by what `find()` returns for each label
issued, so that path compression, which changes no result, is not visible, and
`unite()` gives every label of the united classes the root of the least one.
The initial state takes any set of bubble cells.

### 2.4 HaloExchange

A rank's array `f[r]` has the local indices of the code: `stm` ghost layers below
its cells, `stp = stm + 1` above, of which the last is never exchanged. The value of
a cell is the number of the call it was computed for and its place in the domain, so
that a cell that is too old and a cell that is misplaced are both visible. `Compute`
stands for the code between two calls; `Post` packs the layers for both neighbours
in one direction and posts sends and receives; `Wait` waits for all of them and
unpacks; `PassBarrier` is `MPI_Barrier`. All messages between two ranks have one tag
(the rank of the receiver), so `wire` is one sequence per pair. `Post`
chooses whether MPI keeps a copy, so that the sends are over at once, or reads
the send buffer (`Transfer`) at some time after the receive has been posted.

`routine` is the one of the two routines that all ranks call. `sync_label_halo()`
packs y and x before z has been unpacked, and has no barrier: there `HaloCurrent`
speaks of the faces only (`Filled`), edges and corners are not current.

### 2.5 BubbleLabels

Cells have their place in the domain as name, and each phase of `CCL()` is one
action of all ranks: `LabelLocally` (what `LabelScan` computes, with the numbers in
the order of the scan), `AddOffset`, `Reconcile`, `Expand`, the last three with the
exchange of the halo that the code does at their end. The phases are separated by
collectives on rank 0, and `HaloExchange` shows that the result of an exchange does
not depend on the interleaving. `Synced` keeps what `sync_label_halo()` does to edges
and corners: they are what the neighbour had in its halo before. `Compared` is the
comparison across a cut as it is written, `stm` layers apart.

Abstractions: no orifices, no bubble or liquid outside of the domain, all bubble
cells equally empty (so that the first of the candidates in the order of the loops
is chosen), cells that are not bubble are liquid. The order in which pairs are united
is not fixed: `Number` depends on the classes only.

### 2.6 BubbleLayers

`APT()` goes on where `CCL()` ends, again with one action of all ranks for each phase
between two collectives:

| code | action |
|---|---|
| volumes and boxes of the bubbles, reduced over the ranks; labels without an owned cell are compacted away | `Measure` |
| contacts found by each rank inside the boxes, gathered on rank 0 | `Detect` |
| greedy colouring by rank 0 | `Colour` |
| cells moved to the layers of their labels, clamped to the highest | `Redistribute` |

The boxes are kept as the code has them: in the local indices of whichever rank has
the cells, reduced over ranks whose indices mean different places, and cut off at the
array with its halo. A contact is two cells of different labels that one rank
has in its array, inside both boxes, within three cells of Euclidean distance.

Abstractions: one source layer (`multi_layer_less_coalescence`); the numbers up to
`last_label_in_lower_layer` are labels without a cell; no orifices, inlets or
boundary layers outside the domain; the volume of a bubble is its number of cells.

### 2.7 Checkpoint and AtomicDump

A behaviour is a sequence of jobs. A job restarts (if there is a time file) or begins
afresh, computes steps, dumps, ends or aborts, or is killed with all its ranks at any
point (`Kill`); the next one (`Submit`) finds what is on `disk`. The contents of a
file are the stamp `<<job, step>>` of the calculation that wrote it, per rank's region
of the domain; a region is missing, torn or whole. `mem` holds the stamp of each rank's
data per file, so that a mixture of states is visible.

| code | actions |
|---|---|
| `output_data(1)`: withdrawal of the time file by rank 0, the code shared | `BeginDump`, `BeginLeave` |
| `output_comp_data()`, `output_uplsflg()`: by rank 0 | `SharedFile`, `Share`, `ShareLeave` |
| `output_boundary()` | `BoundaryName`, `BoundaryOpen` |
| `binary_out_base()`: by process, gathered on rank 0, or MPI-IO | `FieldDims`, `OpenOwn`, `GatherAlloc`, `Gather`, `Gathered`, `OpenUnified`, `SetSize`, `Sized`, `Write`, `Fin`, `FinLeave` |
| `output_time_file()`, barrier, report | `TimeFile`, `TimeClose`, `TimeLeave`, `BarrierLeave`, `Report`, `ReportLeave` |
| `restart()`, `input_time_file()`, `binary_in()` | `ReadTime`, `TimeStat`, `TimeValues`, `ReadCode`, `Read`, `ReadLeave`, `Resume`, `ResumeLeave` |

`Faults` says which calls may fail; a failing write leaves a torn region.
`Fails(kind, what)` is asked at the very place of the code, and whether the
result is shared, dropped or kept by one rank is as in the code, kind of file by
kind of file (`Kinds`).

`AtomicDump` has two variables: the state of the running calculation and the state
that can be restored. In the refinement mapping the latter is the contents of the
time file, if there is a whole one; that the other files go with it is
`CommittedWhole`.

### 2.8 Particles

`sets[r]` is the list of particle sets of rank `r`, `where[p]` the subdomain in which
particle `p` lies, which moving and the reflection at walls may change in any way.
A step is a number of stages, agreed on by an Allreduce of what each rank asks for; a
stage moves the particles and redistributes the sets, one position of the list after
the other, until no rank has a further set. `at` and `end` are the traversal:
a set that is made where a rank had none is appended behind the traversal's end
(`Replace`). A redistribution of one set is a chain of collective blocks (`Buffer`,
`AnyParticle`, `Counted`, `Whole`, `SetRoot`, `New`, `Numbers`, `Types`, `Data`),
before each of which an allocation may fail on any rank (`Faults`), to be shared by
`LPTX_MPI_coll_sync()`. `Data` is the Alltoallw. After a failed exchange the variable
`out` is read although nothing has set it: `Failed` lets the program go on or crash.
`GatherRoot`, `GatherNew`, `Gather`, `GatherSet` are the gathering for an output, in
which a rank other than the root may leave before the root has its particles. A rank that
then cannot make its empty set keeps the one it has (`param.c:1434-1459`), and tells the others:
`kept[r]` is the position of that set, whose particles are at rank 0 too until the
step ends with the failure. `PlacedOnce` does not count it, and `AtHome` says that nothing
is integrated any more. That at the start no rank has more sets than rank 0 is an
assumption (`RootHasMost`): the program makes the first set on rank 0 alone
(`initial.c:1556`), and an exchange gives all the ranks one.

Abstractions: particles have no vectors (compositions); the forms of communication
that JUPITER does not call are left out, and so are collisions, coagulation and the
creation of particles in the course of the calculation.

### 2.9 ControlUpdate

`Controls` are the executives that are updated in each step, in the order of the lists;
`Chain[e]` is what `jcntrl_executive_update()` walks through for one of them, sources
first (`executive.c:763-845`). `out[r][e]` is the output of executive `e` on rank
`r`: for a grid and a statistic a function of the names of the fields, for a getter a
sequence, with the pairs `<<rank, step>>` that have gone into a value.

| code | actions |
|---|---|
| `controllable_type_update_all()`, `update_control_values()`, verdict of `main.c:243` | `Control`, `Refresh`, `Report` |
| grid of the fields of the rank | `Grid` |
| statistic over the ranks, `abstract_stats.c` | `Sum`, `Coords`, `InitOutput`, `Size`, `Work`, `NamesLeave`, `NextField`, `LocalLeave`, `Gather`, `New`, `Add`, `Post` |
| work arrays freed although they were never made | `Release` |
| getter, `fv_get.c` | `Get`, `Indices`, `Extents`, `FieldsLeave`, `Values` |
| writer, `write_fv_csv.c` | `Csv` |

A statistic goes through the ranks as *masters*: the master names its fields one by
one, and a field that is already in the output is not summed again; that is why
the age of the output is part of `FieldsWhole`. A block of collective calls of
`mpi_controller.c` agrees on failure before or after its exchange (`bcasta`, line 594, on a
failed resize, and then broadcasts all the same); where the
code gives up alone, the model does. `Values` puts the values at the places the code
computes.

Abstractions: a chain is a sequence, not a tree; masks, functions of field variables
and expressions are local computations and left out, as are reference counts and the
reading of the configuration; a writer succeeds or fails, on each rank for itself,
and what is in its file is not modelled.


## 3. Runs

| run | instance | shows |
|---|---|---|
| `MainLoop` | 2 ranks, without radiation, with it, and with the flag but no processes; `dt_rad` 3, `tend` 6, step limit 3 of the radiation and 4 of the loop, `dt` limits {1, 4} (shorter and longer than `dt_rad`), fresh and restarted at step 2 | collectives match on every path of `main()`; one verdict; exchanges in time, none after the flag; the radiation program is released exactly if there is one; refinement of `ExchangeSchedule`; every rank ends |
| `Coupling` | 2 subdomains x 2 angles, 2 fields, 2 Picard iterations, 3 exchanges, buffered and rendezvous sends | every receive gets its message although tags are reused; fields are of the round; Picard loop refines `LockStep`; nothing is left over at the end; no deadlock, ends |
| `CouplingWaitLast` | 1 subdomain, 2 angles, five fields, `InOrder = FALSE` | **violated**: a slave computes on old fields |
| `LabelScan` | 3 x 2 x 2 cells, all 4096 sets of bubble cells | the labels are the connected components of the offsets in use, numbered without gaps |
| `HaloCorners` | 2 x 1 x 2 ranks of 2 x 1 x 1 cells, `stm` 1, both routines, every send buffered or not, 2 calls | the halo (after `sync_label_halo()`: its faces) is current after each call; no message is left for the next call; every call returns |
| `BubbleRow` | 3 subdomains of 1 x 2 x 3 cells in a row, all sets of at most four bubble cells, 2 layers | labels are the closure of what is compared, also through the rank in the middle; peripheral cells have the label of a bubble they touch; no bubble is lost or torn, and bubbles near one another are in different layers |
| `BubbleSplit` | 2 subdomains in a row | **violated**: a bubble across a cut has two labels |
| `Checkpoint` | 3 jobs of 2 ranks, 2 steps, four layouts with all modes and all kinds of files whose result is looked at, the failures the code shares, kills anywhere | a time file vouches for a whole dump; a restart continues from exactly that state; collectives match; every job ends; refinement of `AtomicDump` |
| `CheckpointTorn` | 2 jobs, a time file that was created and not written | **violated**: a restart goes on with numbers that were never read |
| `Particles` | 2 ranks, 2 particles, 2 steps of up to 2 stages, output in the first, sets that all or only some ranks have, an allocation that may fail before each collective | no particle lost, and none doubled but in a set kept by a failed gathering; a rank integrates only particles in its subdomain; collectives match; every rank ends |
| `Control` | 3 ranks, 2 steps, two controls with a common statistic of two fields, a table of a value selected in one rank, an allocation that may fail on any rank | collectives match; every rank holds the values of this step of every rank that has one |
| `ControlGather` | 2 ranks, a value selected in each | **violated**: every rank ends with another value at the first place and none at the second |

With two workers the passing runs take about a minute and a half (`Coupling`,
`BubbleRow`), 40 s (`MainLoop`), 25 s (`Checkpoint`, `Particles`) and less.

Bounds. Two ranks are enough for ranks to disagree, and three for a pair that is
not the root to disagree; the collectives treat all non-root ranks alike. Time
bounds of `MainLoop` are chosen so that a run has exchanges that are due and not due, a
last exchange by time and one by step count, a restart dump in every step and an error
in every phase. The coupling needs two rounds for a message of one round to be
taken in the next, and three for `FieldsFresh` to see a field that is two rounds
old; two Picard iterations give converged, repeated and exhausted loops.
Every master has one slave in these runs: with two and two subdomains the
interleavings take TLC longer than a run should (a run of 1.3 million states, with one
field, one Picard iteration and two exchanges, found no error).
For the labels, 3 x 2 x 2 cells have U-shaped bubbles, whose two arms get labels of
their own before the sweep finds that they are one, in every direction that the
offsets cover; larger regions are the business of the proofs.
The halo needs two directions for edges to matter and two calls for a stale value to
be told from a current one; a corner of three directions repeats the argument of an
edge once more (eight ranks have too many interleavings), and the width of the halo
matters only in comparison with the subdomain, so it is 1 there. Labels use 3
throughout, the only value `param.c` accepts, and three cells per rank across a cut,
the least that makes the exchange sound; three ranks are needed for a chain of unions,
and four cells are two such bubbles, or a chain through all ranks and another one.
`Checkpoint` needs two jobs for a restart to meet an older dump and three for it to
meet one that a restarted job has withdrawn or torn; two files, of which the second
fails, for a dump to be partly new; and two steps for a dump to replace one of the same
job. `Particles` needs two ranks for a particle to cross, two
particles for one to be left behind, two stages for ranks to ask for different numbers
and two steps for an output to come between two redistributions. With three ranks TLC
does not finish in the time of a run (3.25 million states found no error). `Control` needs
three ranks for the values of two others to come in different orders, two steps for an
output to be old, two fields for one of them to be summed already, and
one selected rank because of the error that `ControlGather` shows with two.

Fairness. `MainLoop`, `Checkpoint` and `Particles` assume weak fairness of each rank:
ranks are processes of the operating system, an MPI collective that all ranks have
entered returns, and no rank waits for anything else; an exchange of `MainLoop` takes
one step because radiation processes that are configured answer, which is what
`Coupling` shows. Nothing obliges a job to be killed or submitted. `RadiationCoupling` assumes only that some
process moves if one can (`WF_vars(Next)`); a behaviour has no cycles because every
call is made once per iteration and rounds are bounded by `RoundBound`, so that
is enough for termination, and a deadlock is a violation in any case. `HaloExchange`
assumes weak fairness of each rank and of each transfer that MPI has to make.
`LabelScan`, `BubbleLabels` and `BubbleLayers` are sequences of steps without choice
and have no liveness property. `ControlUpdate` has none either: a rank that waits for
ever in a collective is a deadlock, which is checked.

## 4. Findings

Shown by a run:

* `mpi_communication_with_other_procs.f90:151-156`: five receives share one
  request and only the last is waited for (`CouplingWaitLast`).
* `multi_layer.c:744` (and y, x): labels are compared `stcl` layers apart instead of
  across the cut. Bubbles that cross a cut can keep two labels (`BubbleSplit`); by the
  same comparison bubbles that do not touch can become one.
* `io_process.c:2982`: `input_time_file()` takes the end of the file for a value, as
  `fscanf()` returns `EOF` there and not 0 (`CheckpointTorn`).
* `fv_get.c:596`: the place of a rank's values is 0 for every rank
  (`ControlGather`).

In the models as in the code, and kept out of the instances of the passing runs, where
they would violate the property in brackets:

* `set_param.c:1162`: with radiation processes and the radiation flag OFF, the
  processes wait for a configuration that is broadcast only with the flag, while
  `main.c:280` waits for their heat source (a deadlock of `MainLoop` with that
  launch).
* `communication.c:700` (and y, z): with fewer cells than halo layers in a direction,
  which `param.c:2136` accepts, the layers sent to the upper neighbour start in the
  rank's own halo (`HaloCurrent` with three ranks in a row, two cells each, `stm` 3).
* `multi_layer.c:534,549`: of the 13 neighbours of a cell that come before it,
  `(0, 1, -1)` is missing and `(0, -1, -1)` appears twice, so two cells that touch
  along one kind of edge can belong to different bubbles. `NeighborsShareLabel` speaks of
  the neighbours that are compared.
* `multi_layer.c:383`: the halo of the labels is unpacked after all directions have
  been sent, so its corners are one exchange old, and the expansion of labels around
  bubbles reads them (`PeripheryHasCore` with 2 x 2 subdomains).
* `multi_layer.c:961-967,1009,1049`: contacts are looked for in boxes widened by two
  cells, which cuts off some that the Euclidean distance of three allows; and
  one rank has to have both cells, inside two boxes in mixed indices, so that contacts
  across cuts get lost. `BubblesSeparated` speaks of cells of one subdomain and
  within the margin.
* `lpt.c:845`: the loop over the stages looks at `prm->status`, which another phase may
  have raised on one rank only: that rank leaves the common sequence of
  redistributions (`CollectivesMatch` of `Particles` with `Early = {0, 1}`).
* `io_process.c:470,596,2446,5828`: failures of one rank that are not shared, or
  whose result is dropped (`CollectivesMatch`, `CommittedWhole`).
* `abstract_stats.c:411`: when the work on a field has failed, the master gives the
  update up and the others go on with the next master; `executive.c:815-845`: a rank
  that cannot make its output object gives up alone (`CollectivesMatch` of `Control`).

Met on the way, outside the models or without a property that could contradict them:

* The step limit of the radiation schedule is compared for equality, and only on
  steps on which an exchange is due (`radiation.c:28`), so that it can be stepped over;
  and an exchange is due as soon as the *coming* step would reach `dt_rad`, the excess
  being dropped (`radiation.c:25,26,41`), so that exchanges are closer than `dt_rad` in
  the steady state. Both are in `MainLoop` as they are in the code.
* Work arrays are freed although they were never made (`abstract_stats.c:487-493`), and
  `out` is read although it was never set (`lptx/param.c:1367`). Both are choices between
  going on and a crash in the models (`Release`, `Failed`).
* Every rank appends to the same CSV file (`write_fv_csv.c:779`): rows are written once
  per rank, and a rank that finds the file just created and empty (a case the comment
  in line 590 provides for) fails to seek back.
* `jcntrl_executive_check_loop()` is never called, so a configuration with a cycle
  recurses without end; a failure half way through `set_loop_marker()` leaves markers.
* The inputs of the writer are connected and disconnected in swapped order
  (`jcntrl_write_fv_csv_set_input()`).
* `controllable_type_update()` returns 0, success, on one path of failure
  (`field_control.c:681-702`), and the result of `controllable_type_update_all()` is
  ignored in `set_param.c:1011,1167`.
* The cardinality of a statistic exists on the root only, so that a getter of it fails
  in parallel.

## 5. Proofs

All theorems hold for every value of the constants that satisfies the assumptions of
the modules: any set of ranks, any limits, any number of files and jobs. Where a
theorem needs more than that, the hypothesis is part of its statement.

### 5.1 MainLoop

| module | theorem | says |
|---|---|---|
| `MainLoopProofs` | `TypeCorrect` | `Spec => []TypeOK` |
| | `NoExchangeAfterRelease` | `Spec => []NothingAfterRelease` |
| | `RadiationReleased` | `Spec => []ReleasedAtExit` |
| | `CollectivesAlwaysMatch` | `Spec => []CollectivesMatch` |
| | `VerdictsAlwaysAgree` | `Spec => []VerdictAgrees` |
| | `ExchangesAreNotLate` | `Spec => ExchangeNotLate` |
| | `ScheduleImplemented` | `Spec => ImplementsSchedule` |

None of them is inductive. That nothing follows the flag depends on `running` being
cleared together with it, on every path; the invariant of the first three theorems is

    Inv == TypeOK /\ HasEntered /\ Discipline

`Discipline` says of each rank that its log has no flag 1 while `running` holds
and ends with flag 1 once it has been cleared (if it was ever set, `Coupled`), and
that a rank that has ended has cleared or used it. `HasEntered` says that a rank
inside a collective has entered one; it is what makes `Values(r)` a set of
integers, on which the type of `dt` depends. There is a lemma per action, and
`NextInv` combines them. The temporal step is `InvAlways`.

That the ranks agree cannot be read from their variables, since one may be many steps
ahead of another. The second part of the module therefore gives each rank a *heading*, the place
where it will stand before the next collective that is not complete, and a *course*,
the data it will have there. Whatever a rank does between two collectives leaves both
unchanged, and leaving a collective has been anticipated when the last rank entered
it; so at every moment all the ranks that have entered the same number of collectives
have the same course. `CollectivesMatch` follows, and `VerdictAgrees` with a second
invariant, `Reports`, on what has been written when success is reported.

Its last part adds the clock: `Punctual` says that `elapsed` is the time since
the last exchange in the log, and `OnePlan` that the logs of all ranks are prefixes of
one plan. The latter gives the refinement mapping of `ExchangeSchedule`.

### 5.2 LabelScan

First part of `BubbleProofs`, for a region of any extents and any set of bubble cells:

| theorem | says |
|---|---|
| `ScanTyped` | `ScanSpec => []ScanTypeOK` |
| `TouchingCellsShareLabel` | `ScanSpec => []NeighborsShareLabel` |
| `SharingCellsAreConnected` | `ScanSpec => []SharingAreConnected` |
| `LabelsCounted` | `ScanSpec => []LabelsAreCounted` |

All three properties speak of the end of the second sweep, and what makes them true
is decided in the first. The inductive invariant is therefore stated with
`Rooted(c, k)`, "the label that cell `c` had at the end of the first sweep has root
`k`", in a form that both sweeps leave unchanged: a cell that has not been renumbered
has a label whose root is `k`, one that has been has the number of root `k`.
`Complete` says that swept cells that touch are rooted in the same label, `Sound`
that cells rooted in the same label are in the same closed sets, `Numbering` that
the numbers of the roots are distinct and without gaps, `ScanLabelled`, `ScanBounded`,
`Named` and `Reached` which cells and roots have labels and numbers so far. There is
a lemma per action and conjunct.

### 5.3 Checkpoint

| module | theorem | says |
|---|---|---|
| `CheckpointProofs` | `DumpTyped` | `Contained => (Spec => []TypeOK)` |
| | `DumpCallsMatch` | `Contained => (Spec => []CollectivesMatch)` |
| | `DumpVouchedFor` | `Noticed => (Spec => []CommittedWhole)` |
| | `RestartsWhole` | `Noticed => (Spec => []RestoredWhole)` |
| | `DumpImplemented` | `Noticed => (Spec => ImplementsDump)` |

The hypotheses are about the constant `Faults` only, and exclude what the code really
gets wrong, nothing else:

* `Contained`: no failure whose outcome stays with one rank, that is of opening or
  writing a boundary file (`output_boundary()`) and of the directory of a field's file.
  With any of them one rank leaves the sequence of collectives alone.
* `Noticed`: moreover, no failure that is lost. The buffer for the gathered field cannot
  be allocated, and the return code is reset; the result of a "loose" file is dropped by
  the caller; the time file is created and not written. With any of them the time
  file vouches for files that are not whole.

These are hazards of the list, and the last one is a finding (section 4, run
`CheckpointTorn`): with them the properties are false. All the other failures, on any ranks, in any order, and the
killing of a job between any two actions are covered. The run `Checkpoint` satisfies
both hypotheses.

`CollectiveTrace` is a theory without variables: a program is a set of places, each with
the operation that is entered next and with a function from its result to the place that
follows. A *trace* is the path from the oldest call still remembered to the
foremost rank; all ranks are on one trace, if each of them contributes what is allowed
(`Told`). The lemmas say that entering a call, leaving one, and forgetting the calls
that all have left keep this so. `CheckpointProofs` maps the variables of a rank to its
place (`Locus`), and shows that every action of `Checkpoint` is one of the three, or
leaves the place alone. The inductive invariant is `Course`: types, the kind of file
fits the place, and the trace.

The second half of the module adds the data. The invariant `Told` says that there is a state
`b`, the one from which the running job began, such that `Story(b)`: each rank holds the
state of its step number (`Held`) or has read `b` so far (`Reads`), there is no time file
from the withdrawal on (`Withdrawn`), each rank has stored what is its own of the
files before the one at hand (`Stores`), and one that reports success for the file at hand
has stored its part, or another one is about to report a failure (`Shares`,
`Opposes`). Rank 0 writes the time file when all have entered `fin` and nobody has
reported; by then `Stores` of all ranks together is the whole dump. The case that
made `Opposes` necessary is MPI-IO: a rank that finds that another one could not open
the file skips its write and reports success, and only the other one's report
keeps the dump from being published.

### 5.4 Particles

| module | theorem | says |
|---|---|---|
| `ParticlesProofs` | `StepsTyped` | `Cleared => (Spec => []TypeOK)` |
| | `StepCallsMatch` | `Cleared => (Spec => []CollectivesMatch)` |
| | `ParticlesPlacedOnce` | `Cleared => (Spec => []PlacedOnce)` |
| | `ParticlesAtHome` | `Cleared => (Spec => []AtHome)` |

`Cleared` is the hypothesis `Early = {0}`, that each step begins with a clear status on
every rank. The code does not guarantee it (`lpt.c:845`, section 4), and without it the
second property is false. Nothing is assumed of the number of sets of a rank, of the
number of stages, of where the particles move or of the allocations that fail. That each
particle is in one set of one rank at the start is an assumption of the module
(`StartAssumption`): the first two theorems do not use it, `PlacedOnce` starts from it, and
`AtHome` rests on `PlacedOnce`.

The argument for the collectives is that of `CheckpointProofs`, with another instance of `CollectiveTrace`.
The difficulty is to find what the ranks have in common: the lists of sets are of
different lengths, and a rank that has no set left passes through the same collectives
with nothing. Position in the list, error code, status, counters of stages and the
flag of the gathering are therefore part of the place (`Common`); the length of the list
is not, and only enters through what a rank contributes to `ends`, `any` and `whole`.
Two facts carry most of the weight. A rank keeps its own code at the end of a set and
the others compare it (`next`): on a trace the codes are already equal, so that what
the ranks do with their own code is what they do with the common one. And after a failed
exchange the program may crash, as a whole: `Course` is `Typed /\ (OnTrace \/ Crashed)`.

The second part of the module adds where the particles are. A particle changes hands in two calls only,
`data` (`MPI_Alltoallw`) and `gather` (`MPI_Gatherv`), and what the other ranks may be doing
while one of them is there is read from the trace (`InData`, `InGather`, `InGatherSet`, on
`Beside` of `CollectiveTrace`): in `types`, in the call, or just behind it, and for
the gathering rank 0 may be before or behind the others. Three things happen, and each
hands particles on all at once (`Handed`, `PlacedHanded`): the last rank to enter `data`
turns what all have at hand into what comes in, rank 0 leaving `gather` takes what the others
have at hand, and another rank that leaves it before rank 0 puts its own on the way. The
inductive invariant is

    Placing == PlacedOnce /\ Filling /\ Sending /\ RootIsLast

`Filling` relates the position in the list to its length, so that a set that comes in
replaces the one that has been sent away and no other, also on a rank whose list grows;
`Sending` says that a rank contributes to an exchange what it has at hand, in the state of
its entry *and* as long as the call is not complete, although others move particles
meanwhile; `RootIsLast` that rank 0 behind the gathering has been given everything. What a
rank keeps when its empty set cannot be made is in none of its slots, since rank 0 has taken
it: `GatherSet` never leads to a particle in two slots, whatever fails.

`AtHome` needs `Homing` on top of it: the sets before the position hold particles of
the rank's own subdomain only, as long as its code is 0 (`Swept`); what comes in is its own;
and what it has said in `ends` and `any` is what it has (`Reporting`), so that a rank that
leaves the traversal is at the end of its own list and one that skips an exchange has
nothing at hand. `Keeping` ties a kept set to a failure that all ranks have been or will be
told of: no rank can be at the start of an integration while another is there
(`NoneKeptElsewhere`). A rank that failed itself, or was told so, gets no further stage
(`ReturnedHomes`); a rank whose list is longer than that of the others cannot return
before it is through.

### 5.5 HaloExchange

`HaloExchangeProofs`, for any decomposition, any extents of a subdomain, any width of the
halo, both routines, any number of calls, and sends that are buffered or not:

| theorem | says |
|---|---|
| `TypesAlwaysOK` | `Spec => []TypeOK` |
| `HaloAlwaysCurrent` | `Thick => (Spec => []HaloCurrent)` |
| `NoMessageEverOutlivesCall` | `Spec => []NoMessageOutlivesCall` |

`Thick` says that a subdomain has at least `stm` cells in each direction in which the
domain is cut. The configuration accepts thinner ones, and then the second property
is false (section 4); the theorem shows that nothing else can make it so. In a direction
that is not cut the extent may be anything.

The first part of the module is about places. The number of a rank and its place determine
each other (`Encoded`, `Decoded`, from division lemmas); so the neighbour at a side
has the rank as its neighbour at the opposite side, and at no other (`Back`, `SideUnique`),
and since all messages between two ranks carry one tag, that is what keeps two
directions from mixing. `Across` says that a layer unpacked at one side and the layer
packed at the opposite side of the neighbour are the same cells of the domain, and
that the neighbour *owns* them in that direction if it is thick. `FacesUnpacked` and
`DirectionUnpacked` go from direction to direction: a cell is current in so far as its distance
from the rank's own cells lies in directions already unpacked, so that an edge is current
because the layer that the neighbour packed was itself current there (`Current`, `Good`).

The inductive invariant `IInv` has the types and, for each rank and side,

* `Queued`: the messages under way are as many as the sender has sent (`Sent`) more than
  the receiver has received (`Received`), and the i-th of them is what the sender had to send in
  the i-th call that the receiver still misses (`Carries`);
* `Buffered`: the same for what MPI has still to read from the send buffer, and for
  what `sync_label_halo()` keeps until its end;
* `Fielded`: the field is current as far as the rank has got;
* `Barred`: a rank has passed a barrier only if all have reached it;
* `Placed`: which values of the position, the direction and the pending sends go together.

`Queued` is what the currency of the halo rests on, and it does not mention the barrier:
the order of the messages between two ranks alone puts the k-th one into the k-th call,
however far a neighbour has run ahead. The barrier is needed for
`NoMessageOutlivesCall` only.

### 5.6 ControlUpdate

`ControlProofs`, for any number of ranks, steps, controls and names of fields, and any
executives that are connected without a circle and with inputs of the right type:

| theorem | says |
|---|---|
| `UpdatesTyped` | `Shared => (Spec => []TypeOK)` |
| `UpdateCallsMatch` | `Shared => (Spec => []CollectivesMatch)` |
| `FieldsAlwaysWhole` | `Shared /\ Single => (Spec => []FieldsWhole)` |

The assumptions about the connections are those of the module. The code checks the types of the
inputs when they are connected (`jcntrl_executive_check_input_type()`); that there is no
circle it does not check (section 4), and with one the update would not end.
`Shared` is `Faults \cap {"output", "local", "new", "add"} = {}`: it excludes the failures
after which the code lets one rank give up alone, or lets the master give up while the others go on
(`executive.c:815-845`, `abstract_stats.c:411`, section 4), with any of which the second
property is false. All others, of seven kinds and on any ranks, are covered, and so is
the crash of `Release`. `Single` says that at most one rank selects a value of a
grid: with two the getter puts both at one place, which is the finding of
`ControlGather`. The run `Control` satisfies both.

The first part of the module shows that the recursive function `Chain` exists because the
executives are not connected in a circle (`SolutionExists`), and that every element of a chain is
followed by the executive that takes its input from it. The position of a rank is then a
control and an index in its chain (`Start`, `Ahead`): the next statistic or getter
at or after it is the next call, and grids and writers in between are passed without one.

The argument for the collectives is `CollectiveTrace` once more. What decides about the next call
is part of the place: the step, the position, and within a statistic the master whose turn
it is, the field it has named and the *set of fields already summed*. The ranks have
different fields in different places of their memory and learn the name from
the master; that they agree on what is summed is what makes them skip the same fields,
and it comes from the trace: `Shape` reads it off the output object of
each rank, and each action of a rank moves it as the place prescribes (`Turn`).

The data are part of the inductive invariant `Course` too (`Data`): the executives of the
chain before the position hold, on this rank, the values of the *step of the place*
(`Fine`), and a statistic at hand has the sums of exactly the fields that the place says are summed.
When a chain begins, nothing is claimed of its outputs, which are those of the step
before or of another control; that each executive brings its output up to date before
the next one reads it is what carries `Fine` from position to position. A statistic that two
controls share is summed again for the second one, and `Fine` for the first control
is no longer needed then: `FieldsWhole` speaks of the chains that have been gone through
by the control at hand. After the crash of `Release` all ranks have stopped, and `Course` keeps the
types and the calls only.

### 5.7 BubbleLabels and BubbleLayers

Second part of `BubbleProofs`, for any decomposition, any set of bubble cells, any labels in the lower
layers, any number of layers and any volume threshold:

| theorem | says |
|---|---|
| `BubblesInvariant` | `LayersSpec => []BubbleInv` |
| `BubblesTyped` | `LayersSpec => []TypeOK` |
| `LabelsUnited` | `LayersSpec => []UnitedIsClosure` |
| `PeripheryLabelled` | `Row => (LayersSpec => []PeripheryHasCore)` |
| `NearBubblesApart` | `LayersSpec => []BubblesSeparated` |

`Row` says that the domain is cut along one axis at most. With two the third property is
false (section 4, `multi_layer.c:383`): the exchange of labels is one exchange of
all sides, so that a cell beyond an edge of the subdomain shows what the neighbour had in
its own halo *before* the exchange. The other theorems hold for any cuts. That a
subdomain is as thick as its halo where it is cut is an assumption of the module.

`LabelsUnited` joins what is computed in four places: the union-find of every rank, the
offsets of rank 0, the exchange of the halo and the union-find of rank 0 over
the pairs that meet at a cut. Each is a fold or a recursive function of the model, and
what such a definition computes is induction over data. The proofs take a counterexample
instead that is least, in the number of pairs that have been united or in the number of the rank
or the label (`SmallestExists`): so they establish that a recursive function exists
(`SolutionExists`, `AddsExists` for the offsets, `ShadesExists` for the colours) and
that the roots after uniting any set of pairs name exactly the classes
of the closure (`RootsGood`). Counting lemmas (`CountLess`, `FirstNumbers`, `NumberIs`,
`RemapIs`) give that the numbers of labels are injective on the classes and without gaps.

The geometry says which rank owns a cell (`OwnerIs`), what an exchange puts into a
halo cell (`FilledIs`, `SyncedIs`), and hence what a rank compares at a cut
(`ComparedIs`): always a label that the owner of the cell has given, since a cell beyond one
side only is never taken from another halo (`OneCut`).

The inductive invariant is `BubbleInv`, one implication per phase:

* `AllLocal` (labels of each rank are the classes of its own cells), `OffsetDone` (the
  same, disjoint over the ranks, and the halo beyond one side shows the owner's
  labels, `Shown`), `Names(label, Links)` (a label names a class of the closure over all
  ranks) and `PeripheryOf` (a cell next to a bubble has the label of a bubble cell that
  touches it, on whatever rank);
* `Measured` and `InBox` (every owned cell of a bubble is inside its box, widened by the
  margin), `FoundIn` (a pair of bubbles that is near within a subdomain is found, since the
  margin brings both cells into both boxes), `ShadedApart` (colours differ along the
  contacts, and one of `0 .. l` is always left over) and `Placed`.

### 5.8 RadiationCoupling

`CouplingProofs`, for a row of any number of subdomains, any number of angular ranges for
each, any list of distinct fields that has `tmp` (`FieldAssumption`), any bound on rounds and
Picard iterations, with sends that are buffered or not:

| theorem | says |
|---|---|
| `CouplingInvariant` | `InOrder => (Spec => []IInv)` |
| `CouplingTypes` | `InOrder => (Spec => []TypeOK)` |
| `CouplingMessages` | `InOrder => (Spec => []MessagesMatch)` |
| `CouplingFields` | `InOrder => (Spec => []FieldsFresh)` |
| `CouplingLeavesNothing` | `InOrder => (Spec => []NothingLeft)` |
| `CouplingInLockStep` | `InOrder => (Spec => PicardInLockStep)` |

The hypothesis is the order in which the receives of one slave complete, which the code
relies on and MPI does not promise (sections 2.2 and 4): without it `FieldsFresh` is false.
`FieldsFresh` speaks of the material fields and their round, not of intensities, sums or
errors (that these are of the own iteration is `MessagesMatch`), and `NothingLeft` of the end
of the coupling, when all processes are done.

*The scripts.* What a process has to do in a segment is a list of calls, put together by
flattening the loops of the source over neighbours, slaves and fields. The first part of the module
says what such a list contains. Every call has a `Stage` that can be read off the
call alone; `Block(s, lo, hi)` says that the calls of `s` have stages from `lo` to `hi`,
in ascending order, and that none but a wait for sends occurs twice. Blocks of ascending stages
can be joined (`LoopOverFields`, `LoopOverRanks`), and `Faithful` says of the whole list that it
has exactly the sends of `Sends` (the masters' exchange of temperatures among them), a receive or a posted receive for each send to this process,
and the few local calls. So the lists of both ends of a link correspond, for every
decomposition (`ScriptFaithful`); after that no proof looks into a list again.

*Moments.* A round has *phases*: the exchange, the fields, and the iterations of the
Picard loop. Processes can be rounds apart, so what one knows about another is stated with respect
to rounds and phases and not to the state. An *event* of a link is a send in a phase of a round
that takes place (`Real`): that depends on the plan of JUPITER and on `S`, the number of verdicts
given before each round, which no variable of the code holds and which the invariant
quantifies over. A link contains exactly the events that its sender has passed and its receiver
has not, and those of one tag are in the order of their moments (`Chan`); every message
carries the value that the plan, the verdict or its round gives it (`Right`).

The inductive invariant is `IInv == \E S : Inv(S)`:

* `PlanOk` and `VerdictsOk`: the plan ends with its first 1; every round but the last has
  ended with a verdict 1 or with the last iteration that is allowed;
* `JupiterOk`, `RoundOk`, `IterationOk`: the round, phase and iteration that a process is in
  are real, and a flag that it has heard is the one of its moment;
* `HaveOk` and `PostedOk`: a field that has been received in this round is of this round; of
  the receives that are posted the first ones are complete, hence all of them when the last is;
* `LinkOk` for each pair of processes that ever exchange anything.

`MessagesMatch` then follows from a comparison of two moments: the oldest message with the tag cannot be of
an earlier moment, which its receiver has left, and not of a later one, since
the sender has passed this one before. `NothingLeft` follows because after the last round
every event has been sent and received.

*Lock step.* That rank 0 judges only after all others have obeyed is not a statement about
rank 0 and its neighbours: sums go from the slaves to their masters, and errors from these to rank 0.
`HasBeenSent` gives, for a call that is complete, that its sender has reached the moment, hence
`SenderThere`, and along this tree `AllThere` (all the ranks are in the iteration that is
judged) and `AllObeyed`. `NextInLockStep` maps every step to `Decide`, `Obey` or a stutter.

### 5.9 What stays with TLC

* Liveness (`Finishes` of `MainLoop`, `RadiationCoupling` and `HaloExchange`, `JobsEnd`,
  `StepsEnd`): fairness and `ENABLED` are outside the prover's reach.
* Induction over data with an arbitrary predicate: the library's theorems cannot be
  instantiated. Where a proof needed what a fold or a recursive function computes, or a
  least or greatest element (`LargestExists` of `CollectiveTrace`), it
  comes from the well-foundedness of the natural numbers, for that function alone.
* `RadiationCoupling` without `InOrder`: `FieldsFresh` is false then, as the run
  `CouplingWaitLast` shows.

## 6. Plan

Modelled and checked: everything in section 2. Next:

* Models: particles with vectors, trees of executives, orifices and inlets of the
  bubble layers.
* `CouplingTypes` and `CouplingMessages` without `InOrder`: the receives of a slave that are
  complete are then any set, and may outlast their segment (`PostedOk`).

## 7. Not modelled

* Numerical kernels and GPU code (`divergence_free.c`, `pcg*.c`, `cacg.c`, `*.cu`,
  ...): real arithmetic, outside TLC's reach; their collectives are unconditional on
  every rank. They are most of the lines of the repository.
* Configuration parser, tables and CSV readers, serializer: conversions on one
  process whose decisions do not span steps.
* Geometry library: floating-point geometry; its lists and trees only hold the input.
* Splitting of the communicators and broadcast of the configuration to the radiation
  program: straight sequences of collectives. The one decision, whether to broadcast
  at all, is in `MainLoop` (`Answering`).
* Stand-alone and POPCORN modes of the radiation program: the same loop with other
  partners.
* Legacy particle tracking, tests, tools and vendored libraries.
* Of the control library: masks, functions of field variables, expressions, reference
  counts, the contents of tables.
* Of the output: analysis files and LPT particles, which have no commit protocol.
