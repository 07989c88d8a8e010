------------------------------ MODULE Particles ------------------------------
(***************************************************************************)
(* Lagrangian particles of JUPITER (LPTX): what the ranks do with them in  *)
(* the time steps of the calculation (lptx_calc() and lptx_calc_loop() of  *)
(* jupiter/lpt.c, the redistribution and the gathering of                  *)
(* jupiter/lptx/param.c, the collective exchanges of jupiter/lptx/comm.c). *)
(*                                                                         *)
(* A rank may only integrate a particle that lies in its own subdomain,    *)
(* where it has the fluid.  So the particles are handed over after every   *)
(* stage of the time integration; for an output rank 0 gathers them all.   *)
(* A failure on one rank must not leave the others waiting in one of the   *)
(* many collectives this takes.                                            *)
(***************************************************************************)
EXTENDS Collectives, SequencesExt

CONSTANTS
    Particle,  \* the particles of the calculation
    Outside,   \* no rank's subdomain
    StepMax,   \* number of time steps
    StageMax,  \* most stages a time step may need
    GatherAt,  \* the steps with output, in which rank 0 gathers the particles
    Start,     \* sets with which the ranks may start
    Early,     \* values prm->status may have on a rank when its step begins
    Faults     \* collective blocks in which an allocation may fail

ASSUME OutsideAssumption == Outside \notin Rank
ASSUME ParticleBounds ==
    /\ StepMax \in Nat \ {0} /\ StageMax \in Nat \ {0} /\ GatherAt \subseteq Nat
    /\ Early \subseteq {0, 1} /\ Early # {}
    /\ Start \subseteq [Rank -> Seq(SUBSET Particle)]
\* Each particle is in one set of one rank at the start.
ASSUME StartAssumption ==
    \A s \in Start : \A p \in Particle :
        /\ \E r \in Rank : \E k \in DOMAIN s[r] : p \in s[r][k]
        /\ \A q, r \in Rank : \A j \in DOMAIN s[q], k \in DOMAIN s[r] :
              p \in s[q][j] /\ p \in s[r][k] => q = r /\ j = k
\* Sets are made on rank 0 or on all the ranks, and a redistribution gives every
\* rank as many as any has: a set that some rank has at hand rank 0 has as well.
ASSUME RootHasMost == \A s \in Start : \A r \in Rank : Len(s[r]) <= Len(s[Root])

VARIABLES
    pc,        \* where the rank is
    where,     \* the subdomain a particle lies in
    sets,      \* param->sets_head: the particle sets of the rank
    kept,      \* position of a set that the rank has kept although rank 0 has gathered
               \* its particles; 0 if there is none
    at,        \* position of lp in the list; behind the end when lp == lh
    end,       \* number of sets there were when the traversal began
    whole,     \* every rank has a set at this position (set_root < 0)
    err,       \* the return code r, 1 for an error
    stages,    \* number of stages agreed for this step
    stage,     \* stages finished
    gathers,   \* the traversal gathers the particles for an output
    status,    \* prm->status
    step       \* time steps finished

local == <<where, sets, kept, at, end, whole, err, stages, stage, gathers, status, step>>
vars  == <<calls, pc, local>>

Bit == {0, 1}
Halted == {"ended", "aborted", "crashed"}

\* The collective blocks of a step; "ends" and "next" are those of the traversal,
\* those with "gather" belong to the output.
Ops == {"bounds", "rects", "ends", "buffer", "any", "counts", "whole", "root", "new",
        "numbers", "numbers_sizes", "types", "data", "next", "substeps",
        "gather_root", "gather_new", "gather", "gather_set", "report"}

\* A rank waits in the block that its label names.
Labels == Ops \cup Halted \cup {"step", "traverse", "advance", "failed", "stage", "output"}

\* An allocation in block b fails on a rank, or does not.
Outcome(b) == IF b \in Faults THEN Bit ELSE {0}

-------------------------------------------------------------------------------
Init ==
    /\ pc = [r \in Rank |-> "step"]
    /\ sets \in Start
    /\ kept = [r \in Rank |-> 0]
    /\ where \in [Particle -> Rank]
    /\ at = [r \in Rank |-> 1]
    /\ end = [r \in Rank |-> 0]
    /\ whole = [r \in Rank |-> FALSE]
    /\ err = [r \in Rank |-> 0]
    /\ stages = [r \in Rank |-> 0]
    /\ stage = [r \in Rank |-> 0]
    /\ gathers = [r \in Rank |-> FALSE]
    /\ status \in [Rank -> Early]
    /\ step = [r \in Rank |-> 0]
    /\ calls = NoCalls

Goto(r, l) == pc' = [pc EXCEPT ![r] = l]
Code(r, c) == err' = [err EXCEPT ![r] = c]

\* A rank enters the block op and waits in it.
Meet(r, op, value) == Enter(r, op, value) /\ Goto(r, op)

AtEnd(r) == at[r] > end[r]
Has(r)   == IF AtEnd(r) THEN {} ELSE sets[r][at[r]]

Begin(r) == at' = [at EXCEPT ![r] = 1] /\ end' = [end EXCEPT ![r] = Len(sets[r])]

Own(r)   == UNION ToSet(sets[r])

\* The set at hand is replaced by another one, or the first set is appended.
Replace(r, s) ==
    sets' = [sets EXCEPT ![r] =
               IF AtEnd(r) THEN Append(@, s) ELSE [@ EXCEPT ![at[r]] = s]]

-------------------------------------------------------------------------------
(***************************************************************************)
(* LPTX_param_redistribute_particles_rect_v()                              *)
(***************************************************************************)
\* The arrays for the subdomains are allocated, on every rank or on none.
StepBegin(r) ==
    /\ pc[r] = "step"
    /\ \E c \in Outcome("bounds") : Meet(r, "bounds", c)
    /\ stage' = [stage EXCEPT ![r] = 0]
    /\ stages' = [stages EXCEPT ![r] = 0]
    /\ gathers' = [gathers EXCEPT ![r] = FALSE]
    /\ Code(r, 0)
    /\ UNCHANGED <<where, sets, kept, at, end, whole, status, step>>

\* Mutant: the stages are not counted.
ReturnedUncounted(r, e) ==
    /\ status' = [status EXCEPT ![r] = IF e = 1 THEN 1 ELSE @]
    /\ Goto(r, IF stages[r] = 0 /\ e = 1 THEN "output" ELSE "stage")
    /\ UNCHANGED stage

\* Back in lptx_calc() or lptx_calc_loop() with r = e: before the first stage an
\* error ends the step of the particles, later the loop looks at the status.
Returned(r, e) ==
    /\ status' = [status EXCEPT ![r] = IF e = 1 THEN 1 ELSE @]
    /\ Goto(r, IF stages[r] = 0 /\ e = 1 THEN "output" ELSE "stage")
    /\ stage' = [stage EXCEPT ![r] = IF stages[r] = 0 THEN @ ELSE @ + 1]

Bounds(r) ==
    /\ pc[r] = "bounds"
    /\ Entered(r)
    /\ IF Largest(r) = 1
       THEN Returned(r, 1) /\ UNCHANGED calls
       ELSE Meet(r, "rects", 0) /\ UNCHANGED <<stage, status>>
    /\ UNCHANGED <<where, sets, kept, at, end, whole, err, stages, gathers, step>>

Rects(r) ==
    /\ pc[r] = "rects"
    /\ Entered(r)
    /\ Begin(r)
    /\ Goto(r, "traverse")
    /\ UNCHANGED <<calls, where, sets, kept, whole, err, stages, stage, gathers, status, step>>

-------------------------------------------------------------------------------
(***************************************************************************)
(* LPTX_param_mpi_foreach_particle_sets(): the k-th sets of all the ranks  *)
(* are worked on together, until no rank has one left.                     *)
(***************************************************************************)
Ends(r) ==
    /\ pc[r] = "traverse"
    /\ Meet(r, "ends", IF AtEnd(r) THEN 0 ELSE 1)
    /\ UNCHANGED local

\* Mutant: the traversal ends with the first rank that has no set left.
AnyFinished(r) == 0 \in Contributed(r)

AllFinished(r) == Largest(r) = 0

\* func() is called for the next sets: the gathering or the redistribution.
EndsFunc(r) ==
    /\ ~AllFinished(r)
    /\ IF gathers[r] THEN Meet(r, "gather_root", 0)
       ELSE IF at[r] > 1 THEN Meet(r, "any", IF Has(r) = {} THEN 0 ELSE 1)
       ELSE \E c \in Outcome("buffer") : Meet(r, "buffer", c)
    /\ UNCHANGED <<stage, gathers, status>>

EndsReturn(r) ==
    /\ AllFinished(r)
    /\ IF gathers[r]
       THEN Meet(r, "report", status[r]) /\ UNCHANGED <<stage, status>>
       ELSE Returned(r, 0) /\ UNCHANGED calls

EndsLeave(r) ==
    /\ pc[r] = "ends"
    /\ Entered(r)
    /\ EndsFunc(r) \/ EndsReturn(r)
    /\ UNCHANGED <<where, sets, kept, at, end, whole, err, stages, gathers, step>>

\* lp moves on unless it is behind the end, then the ranks compare their codes.
NextSet(r) ==
    /\ pc[r] = "advance"
    /\ at' = [at EXCEPT ![r] = @ + 1]
    /\ Meet(r, "next", err[r])
    /\ UNCHANGED <<where, sets, kept, end, whole, err, stages, stage, gathers, status, step>>

NextLeave(r) ==
    /\ pc[r] = "next"
    /\ Entered(r)
    /\ IF Largest(r) = 0
       THEN Goto(r, "traverse") /\ UNCHANGED <<calls, stage, status>>
       ELSE IF gathers[r]
            THEN /\ status' = [status EXCEPT ![r] = 1]
                 /\ Meet(r, "report", 1) /\ UNCHANGED stage
            ELSE Returned(r, err[r]) /\ UNCHANGED calls
    /\ UNCHANGED <<where, sets, kept, at, end, whole, err, stages, gathers, step>>

-------------------------------------------------------------------------------
(***************************************************************************)
(* LPTX_param_redist_particles_impl() and LPTX_particle_set_alltoall().    *)
(***************************************************************************)
\* The array of destinations, allocated when the first set is worked on.
Buffer(r) ==
    /\ pc[r] = "buffer"
    /\ Entered(r)
    /\ IF Largest(r) = 1
       THEN Code(r, 1) /\ Goto(r, "advance") /\ UNCHANGED calls
       ELSE Meet(r, "any", IF Has(r) = {} THEN 0 ELSE 1) /\ UNCHANGED err
    /\ UNCHANGED <<where, sets, kept, at, end, whole, stages, stage, gathers, status, step>>

AnyParticle(r) ==
    /\ pc[r] = "any"
    /\ Entered(r)
    /\ IF Largest(r) = 0
       THEN Goto(r, "advance") /\ UNCHANGED calls
       ELSE \E c \in Outcome("counts") : Meet(r, "counts", c)
    /\ UNCHANGED local

\* An allocation failed on some rank: LPTX_MPI_coll_sync tells all of them.
Counted(r) ==
    /\ pc[r] = "counts"
    /\ Entered(r)
    /\ IF Largest(r) = 1
       THEN Goto(r, "failed") /\ UNCHANGED calls
       ELSE Meet(r, "whole", IF AtEnd(r) THEN 1 ELSE 0)
    /\ UNCHANGED local

\* Mutant: a rank looks at its own set only.
WholeAlone(r) ==
    /\ pc[r] = "whole"
    /\ Entered(r)
    /\ whole' = [whole EXCEPT ![r] = ~AtEnd(r)]
    /\ IF AtEnd(r)
       THEN Meet(r, "root", 0)
       ELSE \E c \in Outcome("new") : Meet(r, "new", c)
    /\ UNCHANGED <<where, sets, kept, at, end, err, stages, stage, gathers, status, step>>

\* LPTX_particle_set_root_noroot(): if a rank has no set, the first one that has
\* is looked for, and tells the layout of its particles.
Whole(r) ==
    /\ pc[r] = "whole"
    /\ Entered(r)
    /\ whole' = [whole EXCEPT ![r] = Largest(r) = 0]
    /\ IF Largest(r) = 1
       THEN Meet(r, "root", IF AtEnd(r) THEN 1 ELSE 0)
       ELSE \E c \in Outcome("new") : Meet(r, "new", c)
    /\ UNCHANGED <<where, sets, kept, at, end, err, stages, stage, gathers, status, step>>

SetRoot(r) ==
    /\ pc[r] = "root"
    /\ Entered(r)
    /\ \E c \in Outcome("new") : Meet(r, "new", c)
    /\ UNCHANGED local

New(r) ==
    /\ pc[r] = "new"
    /\ Entered(r)
    /\ IF Largest(r) = 1
       THEN Goto(r, "failed") /\ UNCHANGED calls
       ELSE Meet(r, IF whole[r] THEN "numbers" ELSE "numbers_sizes", 0)
    /\ UNCHANGED local

\* The numbers of particles have been exchanged: the types are made from them.
Numbers(r) ==
    /\ pc[r] \in {"numbers", "numbers_sizes"}
    /\ Entered(r)
    /\ \E c \in Outcome("types") : Meet(r, "types", c)
    /\ UNCHANGED local

\* Mutant: particles that stay in the domain of the rank are not sent to it, and get lost.
OutgoingKept(r) == [q \in Rank |-> {p \in Has(r) : where[p] = q /\ q # r}]

\* calc_mpirank(): -1, which is sent nowhere, for a particle in no subdomain.
Outgoing(r) == [q \in Rank |-> {p \in Has(r) : where[p] = q}]

Types(r) ==
    /\ pc[r] = "types"
    /\ Entered(r)
    /\ IF Largest(r) = 1
       THEN Goto(r, "failed") /\ UNCHANGED calls
       ELSE Meet(r, "data", Outgoing(r))
    /\ UNCHANGED local

\* MPI_Alltoallw(): what the ranks sent to r makes up its new set.
Data(r) ==
    /\ pc[r] = "data"
    /\ Entered(r)
    /\ Replace(r, UNION {Given(q, r)[r] : q \in Rank})
    /\ Code(r, 0)
    /\ Goto(r, "advance")
    /\ UNCHANGED <<calls, where, kept, at, end, whole, stages, stage, gathers, status, step>>

\* The variable out has not been set, and is looked at: the read of a wrong
\* pointer kills the program, or nothing happens.
Failed(r) ==
    /\ pc[r] = "failed"
    /\ \/ Goto(r, "advance")
       \/ pc' = [q \in Rank |-> "crashed"]
    /\ Code(r, 1)
    /\ UNCHANGED <<calls, where, sets, kept, at, end, whole, stages, stage, gathers, status,
                   step>>

-------------------------------------------------------------------------------
(***************************************************************************)
(* lptx_calc() and the stages of LPTX_substep_loop_f().                    *)
(***************************************************************************)
\* LPTX_update_number_of_substep(): a rank's particles ask for so many stages.
Substeps(r) ==
    /\ pc[r] = "stage" /\ stages[r] = 0
    /\ \E n \in 1 .. StageMax : Meet(r, "substeps", n)
    /\ UNCHANGED local

SubstepsLeave(r) ==
    /\ pc[r] = "substeps"
    /\ Entered(r)
    /\ stages' = [stages EXCEPT ![r] = Largest(r)]
    /\ Goto(r, "stage")
    /\ UNCHANGED <<calls, where, sets, kept, at, end, whole, err, stage, gathers, status, step>>

\* Mutant: one stage too many.
IntegratesAgain(r) ==
    /\ pc[r] = "stage" /\ stages[r] > 0 /\ stage[r] <= stages[r]
    /\ stage[r] > 0 => status[r] = 0

\* lptx_calc_loop() is called again.
Integrates(r) ==
    /\ pc[r] = "stage" /\ stage[r] < stages[r]
    /\ stage[r] > 0 => status[r] = 0

\* The particles of rank r are moved.
Move(r) ==
    \E to \in [Own(r) -> Rank \cup {Outside}] :
        where' = [p \in Particle |-> IF p \in Own(r) THEN to[p] ELSE where[p]]

\* One stage of the time integration, and the redistribution begins.
Stage(r) ==
    /\ Integrates(r)
    /\ Move(r)
    /\ \E c \in Outcome("bounds") : Meet(r, "bounds", c)
    /\ Code(r, 0)
    /\ UNCHANGED <<sets, kept, at, end, whole, stages, stage, gathers, status, step>>

\* After the last stage lptwbc() lets the walls reflect the particles.
Walls(r) ==
    /\ pc[r] = "stage" /\ stages[r] > 0 /\ ~Integrates(r)
    /\ Move(r)
    /\ Goto(r, "output")
    /\ UNCHANGED <<calls, sets, kept, at, end, whole, err, stages, stage, gathers, status,
                   step>>

-------------------------------------------------------------------------------
(***************************************************************************)
(* The output of the step, LPTX_param_gather_particles(), and the end of   *)
(* the step, where main() looks at the status of all ranks.                *)
(***************************************************************************)
Output(r) ==
    /\ pc[r] = "output"
    /\ IF step[r] \in GatherAt
       THEN /\ Begin(r) /\ Goto(r, "traverse") /\ UNCHANGED calls
            /\ gathers' = [gathers EXCEPT ![r] = TRUE]
       ELSE Meet(r, "report", status[r]) /\ UNCHANGED <<at, end, gathers>>
    /\ UNCHANGED <<where, sets, kept, whole, err, stages, stage, status, step>>

\* Rank 0 has a set (RootHasMost), and says so; the numbers of particles follow.
GatherRoot(r) ==
    /\ pc[r] = "gather_root"
    /\ RootEntered(r)
    /\ \E c \in Outcome("gather") : Meet(r, "gather_new", c)
    /\ UNCHANGED local

GatherNew(r) ==
    /\ pc[r] = "gather_new"
    /\ Entered(r)
    /\ IF Largest(r) = 1
       THEN Code(r, 1) /\ Goto(r, "advance") /\ UNCHANGED calls
       ELSE Meet(r, "gather", Has(r)) /\ UNCHANGED err
    /\ UNCHANGED <<where, sets, kept, at, end, whole, stages, stage, gathers, status, step>>

\* MPI_Gatherv(); the other ranks need not wait, and make an empty set.  A rank for
\* which that fails keeps the set whose particles it has given away.
Gather(r) ==
    /\ pc[r] = "gather"
    /\ r = Root => Entered(r)
    /\ \E c \in IF r = Root THEN {0} ELSE Outcome("gather_set") :
          /\ Meet(r, "gather_set", c)
          /\ IF c = 0
             THEN Replace(r, IF r = Root THEN UNION Contributed(r) ELSE {}) /\ UNCHANGED kept
             ELSE kept' = [kept EXCEPT ![r] = at[r]] /\ UNCHANGED sets
    /\ UNCHANGED <<where, at, end, whole, err, stages, stage, gathers, status, step>>

\* The ranks learn whether each of them has its set.
GatherSet(r) ==
    /\ pc[r] = "gather_set"
    /\ Entered(r)
    /\ Code(r, Largest(r)) /\ Goto(r, "advance")
    /\ UNCHANGED <<calls, where, sets, kept, at, end, whole, stages, stage, gathers, status,
                   step>>

\* The rest of the step may raise the status of a rank before LPT begins again.
Report(r) ==
    /\ pc[r] = "report"
    /\ Entered(r)
    /\ step' = [step EXCEPT ![r] = @ + 1]
    /\ IF Largest(r) = 1 THEN Goto(r, "aborted") /\ UNCHANGED status
       ELSE IF step[r] + 1 = StepMax THEN Goto(r, "ended") /\ UNCHANGED status
       ELSE /\ Goto(r, "step")
            /\ \E s \in Early : status' = [status EXCEPT ![r] = s]
    /\ UNCHANGED <<calls, where, sets, kept, at, end, whole, err, stages, stage, gathers>>

-------------------------------------------------------------------------------
Step(r) ==
    \/ StepBegin(r) \/ Bounds(r) \/ Rects(r)
    \/ Ends(r) \/ EndsLeave(r) \/ NextSet(r) \/ NextLeave(r)
    \/ Buffer(r) \/ AnyParticle(r) \/ Counted(r) \/ Whole(r) \/ SetRoot(r)
    \/ New(r) \/ Numbers(r) \/ Types(r) \/ Data(r) \/ Failed(r)
    \/ Substeps(r) \/ SubstepsLeave(r) \/ Stage(r) \/ Walls(r)
    \/ Output(r) \/ GatherRoot(r) \/ GatherNew(r) \/ Gather(r) \/ GatherSet(r)
    \/ Report(r)

AllHalted == \A r \in Rank : pc[r] \in Halted
Over == AllHalted /\ UNCHANGED vars

Next == (\E r \in Rank : Step(r)) \/ Over

Spec == Init /\ [][Next]_vars

\* Every rank is a process of its own that keeps running: WF per rank.
FairSpec == Spec /\ \A r \in Rank : WF_vars(Step(r))

-------------------------------------------------------------------------------
\* Every variable has its type.
TypeOK ==
    /\ pc \in [Rank -> Labels]
    /\ where \in [Particle -> Rank \cup {Outside}]
    /\ sets \in [Rank -> Seq(SUBSET Particle)] /\ kept \in [Rank -> Nat]
    /\ at \in [Rank -> Nat \ {0}] /\ end \in [Rank -> Nat]
    /\ whole \in [Rank -> BOOLEAN] /\ gathers \in [Rank -> BOOLEAN]
    /\ err \in [Rank -> Bit] /\ status \in [Rank -> Bit]
    /\ stages \in [Rank -> 0 .. StageMax] /\ stage \in [Rank -> 0 .. StageMax]
    /\ step \in [Rank -> 0 .. StepMax]
    /\ \A r \in Rank : end[r] <= Len(sets[r])

\* MPI_Alltoallw() is complete as soon as all the ranks have entered it: then the
\* set at hand of rank r stands for what has been sent to it.
Exchanged(r) == pc[r] = "data" /\ Entered(r)

Incoming(r) == UNION {Given(q, r)[r] : q \in Rank}

\* Rank 0 has left MPI_Gatherv() before rank r has, and holds what r gave it; or
\* rank r has left it first, and what it gave is on its way.
Taken(r) == r # Root /\ pc[r] = "gather" /\ pc[Root] = "gather_set"

OnItsWay(r) ==
    /\ r # Root /\ pc[r] = "gather_set"
    /\ pc[Root] \in {"gather_new", "gather"}

\* Where rank r has particle p: the positions of the sets, 0 for what is on its way.
\* What a rank has kept is not what the calculation has, but a copy of it.
Slots(r, p) ==
    {k \in 1 .. Len(sets[r]) \ {kept[r]} :
        p \in sets[r][k] /\ ~(k = at[r] /\ (Exchanged(r) \/ Taken(r)))}
    \cup {k \in {0} : \/ Exchanged(r) /\ p \in Incoming(r)
                      \/ OnItsWay(r) /\ p \in calls[r][Len(calls[r]) - 1].value}

\* However often the particles are handed from rank to rank, with sets that only
\* some of the ranks have, and whatever allocation fails on the way, no particle
\* is lost while it is in the domain and none is ever there twice, save in a set that a
\* rank has kept when the gathering failed.
PlacedOnce ==
    \A p \in Particle :
        /\ where[p] # Outside => \E r \in Rank : Slots(r, p) # {}
        /\ \A q, r \in Rank : \A j \in Slots(q, p), k \in Slots(r, p) : q = r /\ j = k

\* A rank integrates no particle outside its subdomain, where it has no fluid:
\* the redistribution has seen every set of every rank, also after an output
\* that has brought all the particles to rank 0.  Nor is anything integrated once
\* a rank has kept what rank 0 has gathered, when particles are there twice.
AtHome ==
    \A r \in Rank : Integrates(r) =>
        /\ \A p \in Own(r) : where[p] = r
        /\ \A q \in Rank : kept[q] = 0

\* The ranks meet in the same collective whatever fails on one of them.
CollectivesMatch == Matched

\* Every rank gets to the end: it never waits for a rank that has gone on.
StepsEnd == <>AllHalted
===============================================================================
