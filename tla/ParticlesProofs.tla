---------------------------- MODULE ParticlesProofs ----------------------------
(***************************************************************************)
(* Proofs about module Particles: that the collectives of a time step      *)
(* always match, for any number of ranks, particles, sets and stages.      *)
(*                                                                         *)
(* As in CheckpointProofs the program of a rank is mapped to the places of *)
(* CollectiveTrace.  All that decides about the next collective, the       *)
(* position in the list of sets and the error codes included, is part of   *)
(* the place: the number of sets, which is not the same on all the ranks,  *)
(* is not, and only enters through what the ranks contribute.              *)
(***************************************************************************)
EXTENDS Particles, SequenceTheorems, TLAPS

\* Every step begins with a clear status on every rank (see the hazard at lpt.c:845).
Cleared == Early = {0}

\* x: what the ranks have in common in a place.
Common == [step : Nat, stages : Nat, stage : Nat, status : Bit, gathers : BOOLEAN,
           at : Nat, err : Bit, whole : BOOLEAN]

Place == [op : Ops \cup {"none"}, x : Common]
P(op, x) == [op |-> op, x |-> x]

Fresh(x) == [x EXCEPT !.stage = 0, !.stages = 0, !.gathers = FALSE, !.err = 0]

OutputPlace(x) ==
    IF x.step \in GatherAt THEN P("ends", [x EXCEPT !.at = 1, !.gathers = TRUE])
                           ELSE P("report", x)

Going(x) == x.stage < x.stages /\ (x.stage > 0 => x.status = 0)

StagePlace(x) ==
    IF x.stages = 0 THEN P("substeps", x)
    ELSE IF Going(x) THEN P("bounds", [x EXCEPT !.err = 0])
    ELSE OutputPlace(x)

\* Back in lptx_calc() with return code e.
Back(x, e) ==
    [x EXCEPT !.status = IF e = 1 THEN 1 ELSE @,
              !.stage = IF x.stages = 0 THEN @ ELSE @ + 1]

BackPlace(x, e) ==
    IF x.stages = 0 /\ e = 1 THEN OutputPlace(Back(x, e)) ELSE StagePlace(Back(x, e))

\* The set at hand is done, with code e.
SetDone(x, e) == P("next", [x EXCEPT !.at = @ + 1, !.err = e])

\* The ranks know whether each of them has a set at hand.
EachHas(x, b) == [x EXCEPT !.whole = b]

AtFirst(x)       == [x EXCEPT !.at = 1]
WithStages(x, n) == [x EXCEPT !.stages = n]
WithFailure(x)   == [x EXCEPT !.status = 1]
LastStep(x)      == x.step + 1 = StepMax
Later(x)         == [x EXCEPT !.step = @ + 1]
Cleaned(x)       == [x EXCEPT !.step = @ + 1, !.status = 0]

Op(p) == p.op

How(p) ==
    CASE p.op = "gather_root"      -> "root"
      [] p.op = "gather"           -> "none"
      [] p.op \in {"data", "rects", "numbers", "numbers_sizes", "root"} -> "all"
      [] OTHER                     -> "largest"

\* Where the ranks go from place p when its call results in v.
After(p, v) ==
    LET x == p.x
    IN CASE p.op = "bounds"   -> IF v = 1 THEN BackPlace(x, 1) ELSE P("rects", x)
         [] p.op = "rects"    -> P("ends", AtFirst(x))
         [] p.op = "ends"     -> IF v = 0
                                 THEN IF x.gathers THEN P("report", x) ELSE BackPlace(x, 0)
                                 ELSE IF x.gathers THEN P("gather_root", x)
                                 ELSE IF x.at > 1 THEN P("any", x) ELSE P("buffer", x)
         [] p.op = "next"     -> IF v = 0 THEN P("ends", x)
                                 ELSE IF x.gathers THEN P("report", WithFailure(x))
                                 ELSE BackPlace(x, x.err)
         [] p.op = "buffer"   -> IF v = 1 THEN SetDone(x, 1) ELSE P("any", x)
         [] p.op = "any"      -> IF v = 0 THEN SetDone(x, x.err) ELSE P("counts", x)
         [] p.op = "counts"   -> IF v = 1 THEN SetDone(x, 1) ELSE P("whole", x)
         [] p.op = "whole"    -> IF v = 1 THEN P("root", EachHas(x, FALSE))
                                          ELSE P("new", EachHas(x, TRUE))
         [] p.op = "root"     -> P("new", x)
         [] p.op = "new"      -> IF v = 1 THEN SetDone(x, 1)
                                 ELSE P(IF x.whole THEN "numbers" ELSE "numbers_sizes", x)
         [] p.op \in {"numbers", "numbers_sizes"} -> P("types", x)
         [] p.op = "types"    -> IF v = 1 THEN SetDone(x, 1) ELSE P("data", x)
         [] p.op = "data"     -> SetDone(x, 0)
         [] p.op = "substeps" -> StagePlace(WithStages(x, v))
         [] p.op = "gather_root" -> P("gather_new", x)
         [] p.op = "gather_new"  -> IF v = 1 THEN SetDone(x, 1) ELSE P("gather", x)
         [] p.op = "gather"      -> P("gather_set", x)
         [] p.op = "gather_set"  -> IF v = 1 THEN SetDone(x, 1) ELSE SetDone(x, 0)
         [] p.op = "report"   -> IF v = 1 \/ LastStep(x)
                                 THEN P("none", Later(x))
                                 ELSE P("bounds", Fresh(Cleaned(x)))
         [] OTHER             -> P("none", x)

T == INSTANCE CollectiveTrace

-------------------------------------------------------------------------------
(***************************************************************************)
(* Where the ranks are.                                                    *)
(***************************************************************************)

LocusOf(l, x) ==
    CASE l \in Ops      -> P(l, x)
      [] l = "step"     -> P("bounds", Fresh(x))
      [] l = "traverse" -> P("ends", x)
      [] l = "advance"  -> SetDone(x, x.err)
      [] l = "failed"   -> SetDone(x, 1)
      [] l = "stage"    -> StagePlace(x)
      [] l = "output"   -> OutputPlace(x)
      [] l \in Halted   -> P("none", x)

\* What is common to the ranks, as rank r has it.
X(r) == [step |-> step[r], stages |-> stages[r], stage |-> stage[r], status |-> status[r],
         gathers |-> gathers[r], at |-> at[r], err |-> err[r], whole |-> whole[r]]

Loci   == [r \in Rank |-> LocusOf(pc[r], X(r))]
Inside == [r \in Rank |-> pc[r] \in Ops]

\* What a rank contributes in a place.
Value == Nat \cup (SUBSET Particle) \cup [Rank -> SUBSET Particle]
Call  == [op : Ops, value : Value]

Allowed(p, v) ==
    CASE p.op = "data"     -> v \in [Rank -> SUBSET Particle]
      [] p.op = "gather"   -> v \in SUBSET Particle
      [] p.op = "substeps" -> v \in 1 .. StageMax
      [] p.op = "next"     -> v = p.x.err
      [] p.op = "report"   -> v = p.x.status
      [] OTHER             -> v \in Bit

Says == {t \in Place \X Rank \X Value : Allowed(t[1], t[3])}

\* The counters of the stages and the flag of the gathering fit the place in the program.
Redistributing == {"bounds", "rects", "buffer", "any", "counts", "whole", "root", "new",
                   "numbers", "numbers_sizes", "types", "data", "failed"}
Traversing     == {"traverse", "ends", "advance", "next"}
Gathering      == {"gather_root", "gather_new", "gather", "gather_set"}

Fits(l, x) ==
    /\ x.step <= StepMax /\ (l \notin Halted => x.step < StepMax)
    /\ x.stage <= x.stages /\ x.stages <= StageMax
    /\ x.at # 0
    /\ l \in Redistributing \cup {"stage", "substeps"} => ~x.gathers
    /\ l \in Gathering => x.gathers
    /\ l \in Redistributing \cup Traversing /\ ~x.gathers /\ x.stages > 0 => x.stage < x.stages
    /\ l = "substeps" => x.stages = 0

AllFit == \A r \in Rank : Fits(pc[r], X(r))

Typed == TypeOK /\ calls \in [Rank -> Seq(Call)] /\ AllFit

OnTrace == T!Together(calls, Inside, Loci, Says)

\* A rank has followed a pointer that nothing has set, and all are stopped.
Crashed == (\A r \in Rank : pc[r] = "crashed") /\ Matched

Course == Cleared /\ Typed /\ (OnTrace \/ Crashed)

-------------------------------------------------------------------------------
(***************************************************************************)
(* The places are well formed.                                             *)
(***************************************************************************)
LEMMA Constants ==
    /\ StepMax \in Nat \ {0} /\ StageMax \in Nat \ {0} /\ Root \in Rank
    /\ Halted \cap Ops = {} /\ "none" \notin Ops
BY ParticleBounds, RootAssumption DEF Halted, Ops

LEMMA CommonIs ==
    ASSUME Typed, NEW r \in Rank
    PROVE  /\ X(r) \in Common
           /\ X(r).step = step[r] /\ X(r).stages = stages[r] /\ X(r).stage = stage[r]
           /\ X(r).status = status[r] /\ X(r).gathers = gathers[r] /\ X(r).at = at[r]
           /\ X(r).err = err[r] /\ X(r).whole = whole[r]
<1>1. /\ step[r] \in Nat /\ stages[r] \in Nat /\ stage[r] \in Nat /\ status[r] \in Bit
      /\ gathers[r] \in BOOLEAN /\ at[r] \in Nat /\ err[r] \in Bit /\ whole[r] \in BOOLEAN
  BY DEF Typed, TypeOK
<1> QED  BY <1>1 DEF X, Common

LEMMA PlaceTyped ==
    ASSUME NEW x \in Common, NEW op \in Ops \cup {"none"}
    PROVE  P(op, x) \in Place
BY DEF P, Place

\* A change of what is common stays in the type.
LEMMA Changed ==
    ASSUME NEW x \in Common
    PROVE  /\ x.step \in Nat /\ x.stages \in Nat /\ x.stage \in Nat /\ x.status \in Bit
           /\ x.gathers \in BOOLEAN /\ x.at \in Nat /\ x.err \in Bit /\ x.whole \in BOOLEAN
           /\ Fresh(x) \in Common
           /\ \A e \in Bit : Back(x, e) \in Common
           /\ \A e \in Bit : [x EXCEPT !.at = @ + 1, !.err = e] \in Common
           /\ \A n \in Nat : WithStages(x, n) \in Common
           /\ [x EXCEPT !.at = 1, !.gathers = TRUE] \in Common
           /\ AtFirst(x) \in Common
           /\ \A e \in Bit : [x EXCEPT !.err = e] \in Common
           /\ \A e \in Bit : [x EXCEPT !.status = e] \in Common
           /\ \A b \in BOOLEAN : EachHas(x, b) \in Common
           /\ WithFailure(x) \in Common
           /\ Later(x) \in Common /\ Cleaned(x) \in Common
<1>1. /\ x.step \in Nat /\ x.stages \in Nat /\ x.stage \in Nat /\ x.status \in Bit
      /\ x.gathers \in BOOLEAN /\ x.at \in Nat /\ x.err \in Bit /\ x.whole \in BOOLEAN
  BY DEF Common
<1>2. 0 \in Bit /\ 1 \in Bit
  BY DEF Bit
<1>3. Fresh(x) \in Common
  BY <1>1, <1>2 DEF Fresh, Common
<1>4. ASSUME NEW e \in Bit PROVE Back(x, e) \in Common
  <2>1. PICK s, n : s = (IF e = 1 THEN 1 ELSE x.status)
                    /\ n = (IF x.stages = 0 THEN x.stage ELSE x.stage + 1)
    OBVIOUS
  <2>2. s \in Bit /\ n \in Nat
    BY <1>1, <1>2, <2>1
  <2>3. Back(x, e) = [x EXCEPT !.status = s, !.stage = n]
    BY <2>1 DEF Back, Common
  <2> QED  BY <1>1, <2>2, <2>3 DEF Common
<1>5. x.at + 1 \in Nat /\ x.step + 1 \in Nat
  BY <1>1
<1>6. ASSUME NEW e \in Bit
      PROVE  /\ [x EXCEPT !.at = @ + 1, !.err = e] \in Common
             /\ [x EXCEPT !.err = e] \in Common /\ [x EXCEPT !.status = e] \in Common
  <2>1. [x EXCEPT !.at = @ + 1, !.err = e] \in Common
    BY <1>1, <1>5 DEF Common
  <2>2. [x EXCEPT !.err = e] \in Common
    BY <1>1 DEF Common
  <2>3. [x EXCEPT !.status = e] \in Common
    BY <1>1 DEF Common
  <2> QED  BY <2>1, <2>2, <2>3
<1>7. ASSUME NEW n \in Nat PROVE WithStages(x, n) \in Common
  BY <1>1 DEF WithStages, Common
<1>8. ASSUME NEW b \in BOOLEAN PROVE EachHas(x, b) \in Common
  BY <1>1 DEF EachHas, Common
<1>9. [x EXCEPT !.at = 1, !.gathers = TRUE] \in Common /\ AtFirst(x) \in Common
  <2>1. [x EXCEPT !.at = 1, !.gathers = TRUE] \in Common
    BY <1>1 DEF Common
  <2>2. AtFirst(x) \in Common
    BY <1>1 DEF AtFirst, Common
  <2> QED  BY <2>1, <2>2
<1>10. Later(x) \in Common /\ Cleaned(x) \in Common /\ WithFailure(x) \in Common
  <2>1. Later(x) \in Common
    BY <1>1, <1>5 DEF Later, Common
  <2>2. Cleaned(x) \in Common
    BY <1>1, <1>2, <1>5 DEF Cleaned, Common
  <2>3. WithFailure(x) \in Common
    BY <1>2, <1>6 DEF WithFailure
  <2> QED  BY <2>1, <2>2, <2>3
<1> QED  BY <1>1, <1>3, <1>4, <1>6, <1>7, <1>8, <1>9, <1>10

LEMMA FurtherPlaces ==
    ASSUME NEW x \in Common
    PROVE  /\ OutputPlace(x) \in Place /\ StagePlace(x) \in Place
           /\ \A e \in Bit : SetDone(x, e) \in Place
           /\ \A e \in Bit : BackPlace(x, e) \in Place
<1>1. {"ends", "report", "substeps", "bounds", "next"} \subseteq Ops \cup {"none"} /\ 0 \in Bit
  BY DEF Ops, Bit
<1>2. \A y \in Common : OutputPlace(y) \in Place
  BY <1>1, PlaceTyped, Changed DEF OutputPlace
<1>3. \A y \in Common : StagePlace(y) \in Place
  BY <1>1, <1>2, PlaceTyped, Changed DEF StagePlace
<1>4. \A e \in Bit : SetDone(x, e) \in Place
  BY <1>1, PlaceTyped, Changed DEF SetDone
<1>5. \A e \in Bit : BackPlace(x, e) \in Place
  BY <1>2, <1>3, Changed DEF BackPlace
<1> QED  BY <1>2, <1>3, <1>4, <1>5

LEMMA LocusIs ==
    ASSUME NEW x
    PROVE  /\ \A l \in Ops : LocusOf(l, x) = P(l, x)
           /\ LocusOf("step", x) = P("bounds", Fresh(x))
           /\ LocusOf("traverse", x) = P("ends", x)
           /\ LocusOf("advance", x) = SetDone(x, x.err)
           /\ LocusOf("failed", x) = SetDone(x, 1)
           /\ LocusOf("stage", x) = StagePlace(x)
           /\ LocusOf("output", x) = OutputPlace(x)
           /\ \A l \in Halted : LocusOf(l, x) = P("none", x)
<1>1. \A l \in Ops : LocusOf(l, x) = P(l, x)
  BY DEF LocusOf, Ops, Halted
<1>2. /\ LocusOf("step", x) = P("bounds", Fresh(x))
      /\ LocusOf("traverse", x) = P("ends", x)
      /\ LocusOf("advance", x) = SetDone(x, x.err)
  BY DEF LocusOf, Ops, Halted
<1>3. /\ LocusOf("failed", x) = SetDone(x, 1)
      /\ LocusOf("stage", x) = StagePlace(x)
      /\ LocusOf("output", x) = OutputPlace(x)
  BY DEF LocusOf, Ops, Halted
<1>4. \A l \in Halted : LocusOf(l, x) = P("none", x)
  BY DEF LocusOf, Ops, Halted
<1> QED  BY <1>1, <1>2, <1>3, <1>4

LEMMA LocusTyped ==
    ASSUME NEW x \in Common, NEW l \in Labels
    PROVE  LocusOf(l, x) \in Place
<1>1. "bounds" \in Ops \cup {"none"} /\ "ends" \in Ops \cup {"none"} /\ 1 \in Bit
  BY DEF Ops, Bit
<1>2. Fresh(x) \in Common /\ x.err \in Bit
  BY Changed
<1>3. CASE l \in Ops \cup Halted
  BY <1>3, LocusIs, PlaceTyped
<1>4. CASE l \in {"step", "traverse"}
  BY <1>1, <1>2, <1>4, LocusIs, PlaceTyped
<1>5. CASE l \in {"advance", "failed", "stage", "output"}
  BY <1>1, <1>2, <1>5, LocusIs, FurtherPlaces
<1> QED  BY <1>3, <1>4, <1>5 DEF Labels

-------------------------------------------------------------------------------
(***************************************************************************)
(* What an action of rank r does to the place of r.                        *)
(***************************************************************************)
Meets(r)  == T!Met(Loci[r], calls, Len(calls[r]))
Beyond(r) == After(Loci[r], T!Result(Loci[r], calls, Len(calls[r])))

\* w is v with another value for rank r, or the same.
Keeps(v, w, r) == w = [q \in Rank |-> IF q = r THEN w[r] ELSE v[q]]

Frame(r) ==
    /\ Keeps(pc, pc', r) /\ Keeps(sets, sets', r) /\ Keeps(end, end', r)
    /\ Keeps(step, step', r) /\ Keeps(stages, stages', r) /\ Keeps(stage, stage', r)
    /\ Keeps(status, status', r) /\ Keeps(gathers, gathers', r)
    /\ Keeps(at, at', r) /\ Keeps(err, err', r) /\ Keeps(whole, whole', r)
    /\ Keeps(kept, kept', r)

\* Rank r gets to label l, with y as what is common; the collective it is in, if any,
\* leads there, and it enters the collective of the place, if it waits there.
Turn(r, l, y) ==
    /\ l \in Labels /\ y \in Common /\ Fits(l, y)
    /\ pc'[r] = l /\ X(r)' = y
    /\ IF pc[r] \in Ops THEN Meets(r) /\ LocusOf(l, y) = Beyond(r)
                        ELSE LocusOf(l, y) = Loci[r]
    /\ IF l \in Ops THEN \E v \in Value : Enter(r, l, v) /\ Allowed(P(l, y), v)
                    ELSE calls' = calls

Turns(r) == Frame(r) /\ \E l, y : Turn(r, l, y)

\* As functions, the variables of the ranks are what they are on each rank.
Functions == 
    /\ pc = [q \in Rank |-> pc[q]] /\ sets = [q \in Rank |-> sets[q]]
    /\ end = [q \in Rank |-> end[q]] /\ step = [q \in Rank |-> step[q]]
    /\ stages = [q \in Rank |-> stages[q]] /\ stage = [q \in Rank |-> stage[q]]
    /\ status = [q \in Rank |-> status[q]] /\ gathers = [q \in Rank |-> gathers[q]]
    /\ at = [q \in Rank |-> at[q]] /\ err = [q \in Rank |-> err[q]]
    /\ whole = [q \in Rank |-> whole[q]] /\ kept = [q \in Rank |-> kept[q]]

LEMMA AreFunctions == ASSUME Typed PROVE Functions
BY DEF Typed, TypeOK, Functions

Crash(r) == Failed(r) /\ pc' = [q \in Rank |-> "crashed"]

LEMMA Frames ==
    ASSUME Typed, NEW r \in Rank, Step(r), ~Crash(r)
    PROVE  Frame(r)
<1>1. Functions
  BY AreFunctions
<1>2. CASE StepBegin(r) \/ Rects(r) \/ Ends(r) \/ NextSet(r)
  BY <1>1, <1>2 DEF Functions, Frame, Keeps, StepBegin, Rects, Ends, NextSet, Meet, Goto, Code,
          Begin, local
<1>3. CASE Bounds(r)
  BY <1>1, <1>3 DEF Functions, Frame, Keeps, Bounds, Meet, Goto, Returned
<1>4. CASE EndsLeave(r)
  BY <1>1, <1>4 DEF Functions, Frame, Keeps, EndsLeave, EndsFunc, EndsReturn, Meet, Goto,
          Returned
<1>5. CASE NextLeave(r)
  BY <1>1, <1>5 DEF Functions, Frame, Keeps, NextLeave, Meet, Goto, Returned
<1>6. CASE Buffer(r) \/ AnyParticle(r) \/ Counted(r) \/ Whole(r)
  BY <1>1, <1>6 DEF Functions, Frame, Keeps, Buffer, AnyParticle, Counted, Whole, Meet, Goto,
          Code, local
<1>7. CASE SetRoot(r) \/ New(r) \/ Numbers(r) \/ Types(r)
  BY <1>1, <1>7 DEF Functions, Frame, Keeps, SetRoot, New, Numbers, Types, Meet, Goto, local
<1>8. CASE Data(r)
  BY <1>1, <1>8 DEF Functions, Frame, Keeps, Data, Goto, Code, Replace
<1>9. CASE Failed(r)
  BY <1>1, <1>9 DEF Functions, Frame, Keeps, Failed, Crash, Goto, Code
<1>10. CASE Substeps(r) \/ SubstepsLeave(r) \/ Stage(r) \/ Walls(r)
  BY <1>1, <1>10 DEF Functions, Frame, Keeps, Substeps, SubstepsLeave, Stage, Walls, Meet, Goto,
          Code, local
<1>11. CASE Output(r)
  BY <1>1, <1>11 DEF Functions, Frame, Keeps, Output, Begin, Meet, Goto
<1>12. CASE GatherRoot(r) \/ GatherNew(r) \/ GatherSet(r)
  BY <1>1, <1>12 DEF Functions, Frame, Keeps, GatherRoot, GatherNew, GatherSet, Meet, Goto, Code,
          local
<1>13. CASE Gather(r)
  BY <1>1, <1>13 DEF Functions, Frame, Keeps, Gather, Replace, Meet, Goto
<1>14. CASE Report(r)
  BY <1>1, <1>14 DEF Functions, Frame, Keeps, Report, Goto
<1> QED  BY <1>2, <1>3, <1>4, <1>5, <1>6, <1>7, <1>8, <1>9, <1>10, <1>11, <1>12, <1>13,
            <1>14 DEF Step

LEMMA OthersStay ==
    ASSUME NEW r \in Rank, Frame(r), NEW q \in Rank, q # r
    PROVE  pc'[q] = pc[q] /\ X(q)' = X(q)
BY DEF Frame, Keeps, X

LEMMA PathsTyped ==
    ASSUME Typed
    PROVE  /\ Loci \in T!Paths /\ Inside \in [Rank -> BOOLEAN] /\ calls \in T!Lists(Call)
           /\ \A r \in Rank : /\ pc[r] \in Labels /\ Loci[r] = LocusOf(pc[r], X(r))
                              /\ (Inside[r] <=> pc[r] \in Ops)
<1>1. \A r \in Rank : pc[r] \in Labels
  BY DEF Typed, TypeOK
<1>2. \A r \in Rank : LocusOf(pc[r], X(r)) \in Place
  BY <1>1, LocusTyped, CommonIs
<1>3. calls \in T!Lists(Call)
  BY DEF Typed, T!Lists
<1>4. /\ Loci \in T!Paths
      /\ \A r \in Rank : Loci[r] = LocusOf(pc[r], X(r))
  BY <1>2 DEF Loci, T!Paths
<1>5. \A r \in Rank : Inside[r] <=> pc[r] \in Ops
  BY DEF Inside
<1>6. Inside \in [Rank -> BOOLEAN]
  BY DEF Inside
<1> QED  BY <1>1, <1>3, <1>4, <1>5, <1>6

LEMMA EnterIs ==
    ASSUME Typed, NEW r \in Rank, NEW op \in Ops, NEW v \in Value, Enter(r, op, v)
    PROVE  /\ [op |-> op, value |-> v] \in Call
           /\ calls' = T!Shorter(T!Longer(calls, r, [op |-> op, value |-> v]))
           /\ calls' \in T!Lists(Call)
<1>1. [op |-> op, value |-> v] \in Call
  BY DEF Call
<1>2. calls' = T!Shorter(T!Longer(calls, r, [op |-> op, value |-> v]))
  BY DEF Enter, T!Shorter, T!Longer, T!Past, T!Tails
<1>3. calls \in T!Lists(Call)
  BY PathsTyped
<1> QED  BY <1>1, <1>2, <1>3, T!LastIsNew

LEMMA TurnKeepsTrace ==
    ASSUME Typed, OnTrace, NEW r \in Rank, Turns(r)
    PROVE  OnTrace' /\ AllFit' /\ calls' \in [Rank -> Seq(Call)]
<1>1. PICK l, y : Turn(r, l, y) /\ Frame(r)
  BY DEF Turns
<1>2. PICK p : p = LocusOf(l, y)
  OBVIOUS
<1>3. /\ Loci \in T!Paths /\ Inside \in [Rank -> BOOLEAN] /\ calls \in T!Lists(Call)
      /\ p \in Place /\ Root \in Rank /\ l \in Labels
  BY <1>1, <1>2, PathsTyped, LocusTyped, Constants DEF Turn
<1>4. Loci' = T!Moved(Loci, r, p)
  <2>1. Loci' = [q \in Rank |-> LocusOf(pc'[q], X(q)')]
    BY DEF Loci
  <2>2. \A q \in Rank : LocusOf(pc'[q], X(q)') = IF q = r THEN p ELSE Loci[q]
    BY <1>1, <1>2, OthersStay DEF Turn, Loci
  <2>3. Loci' = [q \in Rank |-> IF q = r THEN p ELSE Loci[q]]
    BY <2>1, <2>2
  <2>4. T!Moved(Loci, r, p) = [q \in Rank |-> IF q = r THEN p ELSE Loci[q]]
    BY <1>3 DEF T!Moved, T!Paths
  <2> QED  BY <2>3, <2>4
<1>5. PICK b \in BOOLEAN : b <=> l \in Ops
  OBVIOUS
<1>6. Inside' = [Inside EXCEPT ![r] = b]
  <2>1. Inside' = [q \in Rank |-> pc'[q] \in Ops]
    BY DEF Inside, Ops
  <2>2. \A q \in Rank : (pc'[q] \in Ops) <=> (IF q = r THEN b ELSE Inside[q])
    BY <1>1, <1>5, OthersStay DEF Turn, Inside
  <2>3. \A q \in Rank : (pc'[q] \in Ops) = (IF q = r THEN b ELSE Inside[q])
    BY <2>2, <1>3
  <2>4. Inside' = [q \in Rank |-> IF q = r THEN b ELSE Inside[q]]
    BY <2>1, <2>3
  <2> QED  BY <2>4, <1>3
<1>7. IF Inside[r] THEN /\ T!Met(Loci[r], calls, Len(calls[r]))
                        /\ p = After(Loci[r], T!Result(Loci[r], calls, Len(calls[r])))
                   ELSE p = Loci[r]
  BY <1>1, <1>2, PathsTyped DEF Turn, Meets, Beyond
<1>8. IF b THEN \E e \in Call : /\ calls' = T!Shorter(T!Longer(calls, r, e))
                                /\ e.op = Op(p) /\ <<p, r, e.value>> \in Says
           ELSE calls' = calls
  <2>1. CASE ~b
    BY <2>1, <1>1, <1>5 DEF Turn
  <2>2. CASE b
    <3>1. PICK v \in Value : Enter(r, l, v) /\ Allowed(P(l, y), v) /\ l \in Ops
      BY <2>2, <1>1, <1>5 DEF Turn
    <3>2. PICK e : e = [op |-> l, value |-> v]
      OBVIOUS
    <3>3. e \in Call /\ calls' = T!Shorter(T!Longer(calls, r, e))
      BY <3>1, <3>2, EnterIs
    <3>4. p = P(l, y)
      BY <3>1, <1>2, LocusIs
    <3>5. e.op = Op(p) /\ e.value = v
      BY <3>2, <3>4 DEF Op, P
    <3>6. <<p, r, v>> \in Says
      BY <3>1, <3>4, <1>3 DEF Says
    <3> QED  BY <2>2, <3>3, <3>5, <3>6
  <2> QED  BY <2>1, <2>2
<1>9. T!Together(calls', [Inside EXCEPT ![r] = b], T!Moved(Loci, r, p), Says)
  BY <1>3, <1>7, <1>8, T!TogetherMoves DEF OnTrace
<1>10. OnTrace'
  BY <1>4, <1>6, <1>9 DEF OnTrace, Says, Place, Value, Allowed, Common, Bit, Ops
<1>11. AllFit'
  <2>1. ASSUME NEW q \in Rank PROVE Fits(pc'[q], X(q)')
    BY <1>1, OthersStay DEF Turn, Typed, AllFit
  <2> QED  BY <2>1 DEF AllFit, Fits
<1>12. calls' \in T!Lists(Call)
  BY <1>1, <1>3, EnterIs DEF Turn
<1> QED  BY <1>10, <1>11, <1>12 DEF T!Lists

-------------------------------------------------------------------------------
(***************************************************************************)
(* What the ranks contribute, and what comes of it.                        *)
(***************************************************************************)
Binary == Ops \ {"data", "gather", "substeps"}

LEMMA AllowedIs ==
    ASSUME NEW l \in Ops, NEW x \in Common, NEW v
    PROVE  /\ P(l, x).op = l /\ P(l, x).x = x
           /\ l \in Binary /\ Allowed(P(l, x), v) => v \in Bit
           /\ l \in Binary \ {"next", "report"} /\ v \in Bit => Allowed(P(l, x), v)
           /\ l = "next" => (Allowed(P(l, x), v) <=> v = x.err)
           /\ l = "report" => (Allowed(P(l, x), v) <=> v = x.status)
           /\ l = "substeps" => (Allowed(P(l, x), v) <=> v \in 1 .. StageMax)
           /\ l = "data" => (Allowed(P(l, x), v) <=> v \in [Rank -> SUBSET Particle])
           /\ l = "gather" => (Allowed(P(l, x), v) <=> v \in SUBSET Particle)
<1>1. P(l, x).op = l /\ P(l, x).x = x /\ x.err \in Bit /\ x.status \in Bit
  BY Changed DEF P
<1>2. PICK p : p = P(l, x)
  OBVIOUS
<1>3. CASE l \in {"data", "gather", "substeps", "next", "report"}
  BY <1>1, <1>2, <1>3 DEF Allowed, Binary
<1>4. CASE l \notin {"data", "gather", "substeps", "next", "report"}
  BY <1>1, <1>2, <1>4 DEF Allowed, Binary
<1> QED  BY <1>3, <1>4

LEMMA HowIs ==
    ASSUME NEW l \in Ops, NEW x
    PROVE  /\ l = "gather_root" => How(P(l, x)) = "root"
           /\ l = "gather" => How(P(l, x)) = "none"
           /\ l \in {"data", "rects", "numbers", "numbers_sizes", "root"}
                 => How(P(l, x)) = "all"
           /\ l \notin {"gather_root", "gather", "data", "rects", "numbers", "numbers_sizes",
                        "root"} => How(P(l, x)) = "largest"
<1>1. P(l, x).op = l
  BY DEF P
<1> QED  BY <1>1 DEF How

\* A rank in a call that all have entered: all contributed what is allowed.
LEMMA GivenAllowed ==
    ASSUME Typed, OnTrace, NEW r \in Rank, pc[r] \in Ops, NEW q \in Rank,
           Len(calls[q]) >= Len(calls[r])
    PROVE  Allowed(P(pc[r], X(r)), Given(q, r))
<1>1. Loci[r] = P(pc[r], X(r)) /\ Inside[r] /\ calls \in T!Lists(Call)
  BY PathsTyped, LocusIs
<1>2. PICK n : n = Len(calls[r])
  OBVIOUS
<1>3. <<Loci[r], q, calls[q][n].value>> \in Says
  BY <1>1, <1>2, T!TogetherTold DEF OnTrace
<1> QED  BY <1>1, <1>2, <1>3 DEF Says, Given

\* A rank that leaves a call goes on by what has come of it.
LEMMA CallResult ==
    ASSUME Typed, OnTrace, NEW r \in Rank, pc[r] \in Ops, Entered(r)
    PROVE  /\ X(r) \in Common /\ Fits(pc[r], X(r)) /\ Meets(r)
           /\ \A q \in Rank : Allowed(P(pc[r], X(r)), Given(q, r))
           /\ How(P(pc[r], X(r))) = "largest" =>
                 /\ Beyond(r) = After(P(pc[r], X(r)), Largest(r))
                 /\ Allowed(P(pc[r], X(r)), Largest(r))
                 /\ \A q \in Rank : Given(q, r) <= Largest(r)
           /\ Beyond(r) = After(P(pc[r], X(r)), T!Result(P(pc[r], X(r)), calls, Len(calls[r])))
<1>1. PICK x, n, p : x = X(r) /\ n = Len(calls[r]) /\ p = P(pc[r], X(r))
  OBVIOUS
<1>2. x \in Common /\ Fits(pc[r], x) /\ Loci[r] = p
  BY <1>1, CommonIs, PathsTyped, LocusIs DEF Typed, AllFit
<1>3. Meets(r)
  BY <1>1, RootAssumption DEF Meets, T!Met, Entered
<1>4. \A q \in Rank : Allowed(p, Given(q, r))
  BY <1>1, GivenAllowed DEF Entered
<1>5. Beyond(r) = After(p, T!Result(p, calls, n))
  BY <1>1, <1>2 DEF Beyond
<1>6. ASSUME How(p) = "largest"
      PROVE  /\ Beyond(r) = After(p, Largest(r)) /\ Allowed(p, Largest(r))
             /\ \A q \in Rank : Given(q, r) <= Largest(r)
  <2>1. PICK V : V = T!Values(calls, n)
    OBVIOUS
  <2>2. V = Contributed(r) /\ V # {} /\ \A v \in V : Allowed(p, v)
    BY <1>1, <1>4, <2>1, RootAssumption DEF T!Values, Contributed, Given
  <2>3. Largest(r) = T!Greatest(V)
    BY <2>2 DEF Largest, T!Greatest
  <2>4. T!Result(p, calls, n) = Largest(r)
    BY <1>6, <2>1, <2>3 DEF T!Result
  <2>5. V \subseteq 0 .. StageMax
    <3>1. pc[r] \in Binary \cup {"substeps"}
      BY <1>1, <1>6, HowIs DEF Binary
    <3>2. StageMax \in Nat \ {0}
      BY Constants
    <3>3. \A v \in V : v \in Bit \/ v \in 1 .. StageMax
      BY <1>1, <1>2, <2>2, <3>1, AllowedIs
    <3> QED  BY <3>2, <3>3 DEF Bit
  <2>6. T!Greatest(V) \in V /\ \A w \in V : w <= T!Greatest(V)
    <3>1. StageMax \in Nat
      BY Constants
    <3> QED  BY <2>2, <2>5, <3>1, T!GreatestIsLargest
  <2> QED  BY <1>5, <2>2, <2>3, <2>4, <2>6 DEF Contributed
<1>7. /\ X(r) \in Common /\ Fits(pc[r], X(r))
      /\ Beyond(r) = After(P(pc[r], X(r)), T!Result(P(pc[r], X(r)), calls, Len(calls[r])))
  BY <1>1, <1>2, <1>5
<1>8. \A q \in Rank : Allowed(P(pc[r], X(r)), Given(q, r))
  BY <1>1, <1>4
<1>9. How(P(pc[r], X(r))) = "largest" =>
         /\ Beyond(r) = After(P(pc[r], X(r)), Largest(r))
         /\ Allowed(P(pc[r], X(r)), Largest(r))
         /\ \A q \in Rank : Given(q, r) <= Largest(r)
  BY <1>1, <1>6
<1> QED  BY <1>3, <1>7, <1>8, <1>9

\* Nobody waits for all the ranks in the calls of the gathering.
LEMMA GatherResult ==
    ASSUME Typed, OnTrace, NEW r \in Rank,
           pc[r] = "gather" \/ (pc[r] = "gather_root" /\ RootEntered(r))
    PROVE  /\ X(r) \in Common /\ Fits(pc[r], X(r)) /\ Meets(r) /\ pc[r] \in Ops
           /\ \E v : Beyond(r) = After(P(pc[r], X(r)), v)
<1>1. PICK x, n, p : x = X(r) /\ n = Len(calls[r]) /\ p = P(pc[r], X(r))
  OBVIOUS
<1>2. pc[r] \in Ops
  BY DEF Ops
<1>3. x \in Common /\ Fits(pc[r], x) /\ Loci[r] = p
  BY <1>1, <1>2, CommonIs, PathsTyped, LocusIs DEF Typed, AllFit
<1>4. Beyond(r) = After(p, T!Result(p, calls, n))
  BY <1>1, <1>3 DEF Beyond
<1>5. Meets(r)
  <2>1. pc[r] = "gather" => How(p) = "none"
    BY <1>1, <1>2, HowIs
  <2>2. pc[r] = "gather_root" => How(p) = "root"
    BY <1>1, <1>2, HowIs
  <2> QED  BY <1>1, <1>3, <2>1, <2>2 DEF Meets, T!Met, RootEntered
<1> QED  BY <1>1, <1>2, <1>3, <1>4, <1>5

LEMMA AfterSubsteps ==
    ASSUME NEW x, NEW v
    PROVE  After(P("substeps", x), v) = StagePlace(WithStages(x, v))
<1>1. PICK p : p = P("substeps", x)
  OBVIOUS
<1>2. p.op = "substeps" /\ p.x = x
  BY <1>1 DEF P
<1> QED  BY <1>1, <1>2 DEF After

LEMMA AfterIs ==
    ASSUME NEW x, NEW v
    PROVE  /\ After(P("bounds", x), v) = IF v = 1 THEN BackPlace(x, 1) ELSE P("rects", x)
           /\ After(P("rects", x), v) = P("ends", AtFirst(x))
           /\ After(P("ends", x), v) =
                 IF v = 0 THEN IF x.gathers THEN P("report", x) ELSE BackPlace(x, 0)
                 ELSE IF x.gathers THEN P("gather_root", x)
                 ELSE IF x.at > 1 THEN P("any", x) ELSE P("buffer", x)
           /\ After(P("next", x), v) =
                 IF v = 0 THEN P("ends", x)
                 ELSE IF x.gathers THEN P("report", WithFailure(x))
                 ELSE BackPlace(x, x.err)
           /\ After(P("buffer", x), v) = IF v = 1 THEN SetDone(x, 1) ELSE P("any", x)
           /\ After(P("any", x), v) = IF v = 0 THEN SetDone(x, x.err) ELSE P("counts", x)
           /\ After(P("counts", x), v) = IF v = 1 THEN SetDone(x, 1) ELSE P("whole", x)
           /\ After(P("whole", x), v) =
                 IF v = 1 THEN P("root", EachHas(x, FALSE))
                          ELSE P("new", EachHas(x, TRUE))
           /\ After(P("root", x), v) = P("new", x)
           /\ After(P("new", x), v) =
                 IF v = 1 THEN SetDone(x, 1)
                 ELSE P(IF x.whole THEN "numbers" ELSE "numbers_sizes", x)
           /\ After(P("numbers", x), v) = P("types", x)
           /\ After(P("numbers_sizes", x), v) = P("types", x)
           /\ After(P("types", x), v) = IF v = 1 THEN SetDone(x, 1) ELSE P("data", x)
           /\ After(P("data", x), v) = SetDone(x, 0)
           /\ After(P("gather_root", x), v) = P("gather_new", x)
           /\ After(P("gather_new", x), v) = IF v = 1 THEN SetDone(x, 1) ELSE P("gather", x)
           /\ After(P("gather", x), v) = P("gather_set", x)
           /\ After(P("gather_set", x), v) = IF v = 1 THEN SetDone(x, 1) ELSE SetDone(x, 0)
           /\ After(P("report", x), v) =
                 IF v = 1 \/ LastStep(x)
                 THEN P("none", Later(x))
                 ELSE P("bounds", Fresh(Cleaned(x)))
<1>2. After(P("bounds", x), v) = IF v = 1 THEN BackPlace(x, 1) ELSE P("rects", x)
  <2>1. PICK p : p = P("bounds", x)
    OBVIOUS
  <2>2. p.op = "bounds" /\ p.x = x
    BY <2>1 DEF P
  <2> QED  BY <2>1, <2>2 DEF After
<1>3. After(P("rects", x), v) = P("ends", AtFirst(x))
  <2>1. PICK p : p = P("rects", x)
    OBVIOUS
  <2>2. p.op = "rects" /\ p.x = x
    BY <2>1 DEF P
  <2> QED  BY <2>1, <2>2 DEF After
<1>4. After(P("ends", x), v) =
       IF v = 0 THEN IF x.gathers THEN P("report", x) ELSE BackPlace(x, 0)
       ELSE IF x.gathers THEN P("gather_root", x)
       ELSE IF x.at > 1 THEN P("any", x) ELSE P("buffer", x)
  <2>1. PICK p : p = P("ends", x)
    OBVIOUS
  <2>2. p.op = "ends" /\ p.x = x
    BY <2>1 DEF P
  <2> QED  BY <2>1, <2>2 DEF After
<1>5. After(P("next", x), v) =
       IF v = 0 THEN P("ends", x)
       ELSE IF x.gathers THEN P("report", WithFailure(x))
       ELSE BackPlace(x, x.err)
  <2>1. PICK p : p = P("next", x)
    OBVIOUS
  <2>2. p.op = "next" /\ p.x = x
    BY <2>1 DEF P
  <2> QED  BY <2>1, <2>2 DEF After
<1>6. After(P("buffer", x), v) = IF v = 1 THEN SetDone(x, 1) ELSE P("any", x)
  <2>1. PICK p : p = P("buffer", x)
    OBVIOUS
  <2>2. p.op = "buffer" /\ p.x = x
    BY <2>1 DEF P
  <2> QED  BY <2>1, <2>2 DEF After
<1>7. After(P("any", x), v) = IF v = 0 THEN SetDone(x, x.err) ELSE P("counts", x)
  <2>1. PICK p : p = P("any", x)
    OBVIOUS
  <2>2. p.op = "any" /\ p.x = x
    BY <2>1 DEF P
  <2> QED  BY <2>1, <2>2 DEF After
<1>8. After(P("counts", x), v) = IF v = 1 THEN SetDone(x, 1) ELSE P("whole", x)
  <2>1. PICK p : p = P("counts", x)
    OBVIOUS
  <2>2. p.op = "counts" /\ p.x = x
    BY <2>1 DEF P
  <2> QED  BY <2>1, <2>2 DEF After
<1>9. After(P("whole", x), v) =
       IF v = 1 THEN P("root", EachHas(x, FALSE))
                ELSE P("new", EachHas(x, TRUE))
  <2>1. PICK p : p = P("whole", x)
    OBVIOUS
  <2>2. p.op = "whole" /\ p.x = x
    BY <2>1 DEF P
  <2> QED  BY <2>1, <2>2 DEF After
<1>10. After(P("root", x), v) = P("new", x)
  <2>1. PICK p : p = P("root", x)
    OBVIOUS
  <2>2. p.op = "root" /\ p.x = x
    BY <2>1 DEF P
  <2> QED  BY <2>1, <2>2 DEF After
<1>11. After(P("new", x), v) =
       IF v = 1 THEN SetDone(x, 1)
       ELSE P(IF x.whole THEN "numbers" ELSE "numbers_sizes", x)
  <2>1. PICK p : p = P("new", x)
    OBVIOUS
  <2>2. p.op = "new" /\ p.x = x
    BY <2>1 DEF P
  <2> QED  BY <2>1, <2>2 DEF After
<1>12. After(P("numbers", x), v) = P("types", x)
  <2>1. PICK p : p = P("numbers", x)
    OBVIOUS
  <2>2. p.op = "numbers" /\ p.x = x
    BY <2>1 DEF P
  <2> QED  BY <2>1, <2>2 DEF After
<1>13. After(P("numbers_sizes", x), v) = P("types", x)
  <2>1. PICK p : p = P("numbers_sizes", x)
    OBVIOUS
  <2>2. p.op = "numbers_sizes" /\ p.x = x
    BY <2>1 DEF P
  <2> QED  BY <2>1, <2>2 DEF After
<1>14. After(P("types", x), v) = IF v = 1 THEN SetDone(x, 1) ELSE P("data", x)
  <2>1. PICK p : p = P("types", x)
    OBVIOUS
  <2>2. p.op = "types" /\ p.x = x
    BY <2>1 DEF P
  <2> QED  BY <2>1, <2>2 DEF After
<1>15. After(P("data", x), v) = SetDone(x, 0)
  <2>1. PICK p : p = P("data", x)
    OBVIOUS
  <2>2. p.op = "data" /\ p.x = x
    BY <2>1 DEF P
  <2> QED  BY <2>1, <2>2 DEF After
<1>17. After(P("gather_root", x), v) = P("gather_new", x)
  <2>1. PICK p : p = P("gather_root", x)
    OBVIOUS
  <2>2. p.op = "gather_root" /\ p.x = x
    BY <2>1 DEF P
  <2> QED  BY <2>1, <2>2 DEF After
<1>18. After(P("gather_new", x), v) = IF v = 1 THEN SetDone(x, 1) ELSE P("gather", x)
  <2>1. PICK p : p = P("gather_new", x)
    OBVIOUS
  <2>2. p.op = "gather_new" /\ p.x = x
    BY <2>1 DEF P
  <2> QED  BY <2>1, <2>2 DEF After
<1>19. After(P("gather", x), v) = P("gather_set", x)
  <2>1. PICK p : p = P("gather", x)
    OBVIOUS
  <2>2. p.op = "gather" /\ p.x = x
    BY <2>1 DEF P
  <2> QED  BY <2>1, <2>2 DEF After
<1>20. After(P("gather_set", x), v) = IF v = 1 THEN SetDone(x, 1) ELSE SetDone(x, 0)
  <2>1. PICK p : p = P("gather_set", x)
    OBVIOUS
  <2>2. p.op = "gather_set" /\ p.x = x
    BY <2>1 DEF P
  <2> QED  BY <2>1, <2>2 DEF After
<1>21. After(P("report", x), v) =
       IF v = 1 \/ LastStep(x)
       THEN P("none", Later(x))
       ELSE P("bounds", Fresh(Cleaned(x)))
  <2>1. PICK p : p = P("report", x)
    OBVIOUS
  <2>2. p.op = "report" /\ p.x = x
    BY <2>1 DEF P
  <2> QED  BY <2>1, <2>2 DEF After
<1> QED  BY <1>2, <1>3, <1>4, <1>5, <1>6, <1>7, <1>8, <1>9, <1>10, <1>11, <1>12, <1>13, <1>14, <1>15, <1>17, <1>18, <1>19, <1>20, <1>21

-------------------------------------------------------------------------------
(***************************************************************************)
(* The actions, one by one.                                                *)
(***************************************************************************)
\* What leads rank r to a place p.
Leads(r, p) == IF pc[r] \in Ops THEN Meets(r) /\ p = Beyond(r) ELSE p = Loci[r]

Moves(r) == \E l, y : Turn(r, l, y)

\* It waits in the next call, or works on its own.
LEMMA MovesInto ==
    ASSUME NEW r \in Rank, NEW y \in Common, NEW op \in Ops, Fits(op, y), NEW v \in Value,
           Enter(r, op, v), Allowed(P(op, y), v), pc'[r] = op, X(r)' = y, Leads(r, P(op, y))
    PROVE  Moves(r)
<1>1. LocusOf(op, y) = P(op, y) /\ op \in Labels
  BY LocusIs DEF Labels
<1>2. Turn(r, op, y)
  BY <1>1 DEF Turn, Leads
<1> QED  BY <1>2 DEF Moves

LEMMA MovesTo ==
    ASSUME NEW r \in Rank, NEW y \in Common, NEW l \in Labels \ Ops, Fits(l, y),
           calls' = calls, pc'[r] = l, X(r)' = y, Leads(r, LocusOf(l, y))
    PROVE  Moves(r)
<1>1. Turn(r, l, y)
  BY DEF Turn, Leads
<1> QED  BY <1>1 DEF Moves

\* A rank enters a call in which it tells 0 or 1.
LEMMA Tells ==
    ASSUME Typed, NEW r \in Rank, NEW op \in Binary \ {"next", "report"}, NEW v \in Bit,
           NEW y \in Common, Meet(r, op, v)
    PROVE  /\ op \in Ops /\ v \in Value /\ Enter(r, op, v) /\ Allowed(P(op, y), v)
           /\ pc'[r] = op
<1>1. op \in Ops /\ v \in Value
  BY DEF Binary, Value, Bit
<1>2. pc'[r] = op
  BY DEF Meet, Goto, Typed, TypeOK
<1> QED  BY <1>1, <1>2, AllowedIs DEF Meet

LEMMA OutcomeIsBit == ASSUME NEW b PROVE Outcome(b) \subseteq Bit
BY DEF Outcome, Bit

\* In a call, or at work: what is common to the ranks, and where it leads.
LEMMA InCall ==
    ASSUME Typed, OnTrace, NEW r \in Rank, NEW op \in Ops, pc[r] = op, Entered(r)
    PROVE  /\ X(r) \in Common /\ Fits(op, X(r))
           /\ \A q \in Rank : Allowed(P(op, X(r)), Given(q, r))
           /\ How(P(op, X(r))) = "largest" =>
                 /\ Allowed(P(op, X(r)), Largest(r))
                 /\ \A p : p = After(P(op, X(r)), Largest(r)) => Leads(r, p)
           /\ \A p : (\A v : p = After(P(op, X(r)), v)) => Leads(r, p)
BY CallResult DEF Leads

LEMMA AtWork ==
    ASSUME Typed, NEW r \in Rank, pc[r] \notin Ops
    PROVE  /\ X(r) \in Common /\ Fits(pc[r], X(r))
           /\ \A p : p = LocusOf(pc[r], X(r)) => Leads(r, p)
BY CommonIs, PathsTyped DEF Leads, Typed, AllFit

LEMMA StepBeginMoves ==
    ASSUME Typed, NEW r \in Rank, StepBegin(r) PROVE Moves(r)
<1>1. PICK x, y : x = X(r) /\ y = Fresh(X(r))
  OBVIOUS
<1>2. "step" \notin Ops /\ "step" \notin Halted /\ "bounds" \in Binary \ {"next", "report"}
  BY DEF Ops, Halted, Binary
<1>3. x \in Common /\ Fits("step", x) /\ Leads(r, P("bounds", y))
  BY <1>1, <1>2, AtWork, LocusIs DEF StepBegin
<1>4. PICK c \in Bit : Meet(r, "bounds", c)
  BY OutcomeIsBit DEF StepBegin
<1>5. X(r)' = y
  BY <1>1 DEF StepBegin, Code, X, Fresh, Typed, TypeOK
<1>6. y \in Common /\ Fits("bounds", y)
  <2>1. y \in Common
    BY <1>1, <1>3, Changed
  <2>2. y.step = x.step /\ y.at = x.at /\ y.stage = 0 /\ y.stages = 0 /\ ~y.gathers
    BY <1>1, <1>3 DEF Fresh, Common
  <2> QED  BY <2>1, <2>2, <1>2, <1>3, Constants DEF Fits, Gathering, Halted
<1> QED  BY <1>3, <1>4, <1>5, <1>6, <1>2, Tells, MovesInto

\* Back in lptx_calc().
LEMMA ReturnedMoves ==
    ASSUME Typed, NEW r \in Rank, NEW e \in Bit, Returned(r, e), calls' = calls,
           UNCHANGED <<at, err, whole, stages, gathers, step>>,
           NEW x, x = X(r), ~x.gathers, x.stages > 0 => x.stage < x.stages, x.step < StepMax,
           x.stage <= x.stages, x.stages <= StageMax, x.at # 0,
           Leads(r, BackPlace(x, e))
    PROVE  Moves(r)
<1>1. x \in Common
  BY CommonIs
<1>2. PICK y : y = Back(x, e)
  OBVIOUS
<1>3. y \in Common
  BY <1>1, <1>2, Changed
<1>4. X(r)' = y
  BY <1>2 DEF Returned, X, Back, Typed, TypeOK
<1>5. PICK l : l = IF x.stages = 0 /\ e = 1 THEN "output" ELSE "stage"
  OBVIOUS
<1>6. pc'[r] = l
  BY <1>5 DEF Returned, Goto, X, Typed, TypeOK
<1>7. l \in Labels \ Ops /\ l \in {"output", "stage"}
  BY <1>5 DEF Labels, Ops
<1>8. LocusOf(l, y) = BackPlace(x, e)
  BY <1>2, <1>5, LocusIs DEF BackPlace
<1>9. Fits(l, y)
  <2>1. /\ y.step = x.step /\ y.at = x.at /\ y.stages = x.stages /\ y.gathers = x.gathers
        /\ y.stage = IF x.stages = 0 THEN x.stage ELSE x.stage + 1
    BY <1>1, <1>2 DEF Back, Common
  <2>2. y.stage <= y.stages
    BY <1>1, <2>1 DEF Common
  <2>3. x.step \in Nat /\ StepMax \in Nat
    BY <1>1, Constants DEF Common
  <2> QED  BY <1>7, <2>1, <2>2, <2>3
          DEF Fits, Redistributing, Traversing, Gathering
<1> QED  BY <1>3, <1>4, <1>6, <1>7, <1>8, <1>9, MovesTo

\* The labels are different from each other.
LEMMA LabelFacts ==
    /\ Binary = {"bounds", "rects", "ends", "buffer", "any", "counts", "whole", "root", "new",
                 "numbers", "numbers_sizes", "types", "next", "gather_root", "gather_new",
                 "gather_set", "report"}
    /\ Ops = Binary \cup {"data", "gather", "substeps"}
    /\ {"step", "traverse", "advance", "failed", "stage", "output"} \cup Halted
          \subseteq Labels \ Ops
    /\ {"step", "traverse", "advance", "failed", "stage", "output"} \cap Halted = {}
<1>1. Binary = {"bounds", "rects", "ends", "buffer", "any", "counts", "whole", "root", "new",
                "numbers", "numbers_sizes", "types", "next", "gather_root", "gather_new",
                "gather_set", "report"}
  BY DEF Binary, Ops
<1>2. Ops = Binary \cup {"data", "gather", "substeps"}
  BY DEF Binary, Ops
<1>3. /\ {"step", "traverse", "advance", "failed", "stage", "output"} \cup Halted
            \subseteq Labels \ Ops
      /\ {"step", "traverse", "advance", "failed", "stage", "output"} \cap Halted = {}
  BY DEF Labels, Halted, Ops
<1> QED  BY <1>1, <1>2, <1>3

LEMMA BoundsMoves ==
    ASSUME Typed, OnTrace, NEW r \in Rank, Bounds(r) PROVE Moves(r)
<1>1. PICK x, v : x = X(r) /\ v = Largest(r)
  OBVIOUS
<1>2. pc[r] = "bounds" /\ Entered(r) /\ "bounds" \in Ops /\ "bounds" \in Binary
      /\ "rects" \in Binary \ {"next", "report"} /\ 0 \in Bit /\ 1 \in Bit
  BY LabelFacts DEF Bounds, Bit
<1>3. x \in Common /\ Fits("bounds", x) /\ v \in Bit
      /\ \A p : p = After(P("bounds", x), v) => Leads(r, p)
  BY <1>1, <1>2, InCall, HowIs, AllowedIs
<1>4. CASE v = 1
  <2>1. Returned(r, 1) /\ calls' = calls /\ UNCHANGED <<at, err, whole, stages, gathers, step>>
    BY <1>1, <1>4 DEF Bounds
  <2>2. Leads(r, BackPlace(x, 1))
    BY <1>3, <1>4, AfterIs
  <2>3. /\ ~x.gathers /\ (x.stages > 0 => x.stage < x.stages) /\ x.step < StepMax
        /\ x.stage <= x.stages /\ x.stages <= StageMax /\ x.at # 0
    BY <1>3 DEF Fits, Redistributing, Halted
  <2> QED  BY <2>1, <2>2, <2>3, <1>1, <1>2, ReturnedMoves
<1>5. CASE v # 1
  <2>1. Meet(r, "rects", 0) /\ X(r)' = x
    BY <1>1, <1>5 DEF Bounds, X
  <2>2. Leads(r, P("rects", x))
    BY <1>3, <1>5, AfterIs
  <2>3. Fits("rects", x)
    BY <1>3 DEF Fits, Redistributing, Traversing, Gathering, Halted
  <2> QED  BY <2>1, <2>2, <2>3, <1>2, <1>3, Tells, MovesInto
<1> QED  BY <1>4, <1>5

LEMMA RectsMoves ==
    ASSUME Typed, OnTrace, NEW r \in Rank, Rects(r) PROVE Moves(r)
<1>1. PICK x, y : x = X(r) /\ y = AtFirst(X(r))
  OBVIOUS
<1>2. pc[r] = "rects" /\ Entered(r) /\ "rects" \in Ops /\ "traverse" \in Labels \ Ops
  BY LabelFacts DEF Rects
<1>3. x \in Common /\ Fits("rects", x) /\ \A p : (\A v : p = After(P("rects", x), v)) => Leads(r, p)
  BY <1>1, <1>2, InCall
<1>4. Leads(r, LocusOf("traverse", y))
  <2>1. \A v : P("ends", y) = After(P("rects", x), v)
    BY <1>1, AfterIs
  <2>2. LocusOf("traverse", y) = P("ends", y)
    BY LocusIs
  <2> QED  BY <2>1, <2>2, <1>3
<1>5. X(r)' = y /\ calls' = calls /\ pc'[r] = "traverse"
  BY <1>1 DEF Rects, Begin, Goto, X, AtFirst, Typed, TypeOK
<1>6. y \in Common /\ Fits("traverse", y)
  <2>1. y \in Common
    BY <1>1, <1>3, Changed
  <2>2. /\ y.step = x.step /\ y.at = 1 /\ y.stage = x.stage /\ y.stages = x.stages
        /\ y.gathers = x.gathers
    BY <1>1, <1>3 DEF AtFirst, Common
  <2> QED  BY <2>1, <2>2, <1>3 DEF Fits, Redistributing, Traversing, Gathering, Halted
<1> QED  BY <1>2, <1>4, <1>5, <1>6, MovesTo

LEMMA EndsMoves ==
    ASSUME Typed, OnTrace, NEW r \in Rank, Ends(r) PROVE Moves(r)
<1>1. PICK x : x = X(r)
  OBVIOUS
<1>2. pc[r] = "traverse" /\ "traverse" \notin Ops /\ "ends" \in Binary \ {"next", "report"}
  BY LabelFacts DEF Ends
<1>3. x \in Common /\ Fits("traverse", x) /\ Leads(r, P("ends", x))
  BY <1>1, <1>2, AtWork, LocusIs
<1>4. PICK c \in Bit : Meet(r, "ends", c)
  BY DEF Ends, Bit
<1>5. X(r)' = x
  BY <1>1 DEF Ends, local, X
<1>6. Fits("ends", x)
  BY <1>3 DEF Fits, Redistributing, Traversing, Gathering, Halted
<1> QED  BY <1>2, <1>3, <1>4, <1>5, <1>6, Tells, MovesInto

\* A rank enters the report with its status.
LEMMA Reports ==
    ASSUME Typed, NEW r \in Rank, NEW y \in Common, Meet(r, "report", y.status)
    PROVE  /\ "report" \in Ops /\ y.status \in Value /\ Enter(r, "report", y.status)
           /\ Allowed(P("report", y), y.status) /\ pc'[r] = "report"
<1>1. "report" \in Ops /\ y.status \in Value
  <2>1. y.status \in Bit
    BY Changed
  <2> QED  BY <2>1, LabelFacts DEF Value, Bit
<1>2. pc'[r] = "report"
  BY DEF Meet, Goto, Typed, TypeOK
<1>3. Allowed(P("report", y), y.status)
  BY <1>1, AllowedIs
<1>4. Enter(r, "report", y.status)
  BY DEF Meet
<1> QED  BY <1>1, <1>2, <1>3, <1>4

LEMMA EndsLeaveMoves ==
    ASSUME Typed, OnTrace, NEW r \in Rank, EndsLeave(r) PROVE Moves(r)
<1>1. PICK x, v : x = X(r) /\ v = Largest(r)
  OBVIOUS
<1>2. pc[r] = "ends" /\ Entered(r) /\ "ends" \in Ops /\ "ends" \in Binary
      /\ {"gather_root", "any", "buffer"} \subseteq Binary \ {"next", "report"}
      /\ 0 \in Bit /\ 1 \in Bit
  BY LabelFacts DEF EndsLeave, Bit
<1>3. x \in Common /\ Fits("ends", x) /\ v \in Bit
      /\ \A p : p = After(P("ends", x), v) => Leads(r, p)
  BY <1>1, <1>2, InCall, HowIs, AllowedIs
<1>4. x.gathers = gathers[r] /\ x.at = at[r] /\ x.status = status[r] /\ gathers[r] \in BOOLEAN
  BY <1>1, CommonIs DEF Typed, TypeOK
<1>5. CASE v = 0 /\ x.gathers
  <2>1. Meet(r, "report", x.status) /\ X(r)' = x
    BY <1>1, <1>4, <1>5 DEF EndsLeave, EndsFunc, EndsReturn, AllFinished, X
  <2>2. Leads(r, P("report", x))
    BY <1>3, <1>5, AfterIs
  <2>3. Fits("report", x)
    BY <1>3 DEF Fits, Redistributing, Traversing, Gathering, Halted
  <2> QED  BY <2>1, <2>2, <2>3, <1>3, Reports, MovesInto
<1>6. CASE v = 0 /\ ~x.gathers
  <2>1. Returned(r, 0) /\ calls' = calls /\ UNCHANGED <<at, err, whole, stages, gathers, step>>
    BY <1>1, <1>4, <1>6 DEF EndsLeave, EndsFunc, EndsReturn, AllFinished
  <2>2. Leads(r, BackPlace(x, 0))
    BY <1>3, <1>6, AfterIs
  <2>3. /\ ~x.gathers /\ (x.stages > 0 => x.stage < x.stages) /\ x.step < StepMax
        /\ x.stage <= x.stages /\ x.stages <= StageMax /\ x.at # 0
    BY <1>3, <1>6 DEF Fits, Traversing, Halted
  <2> QED  BY <2>1, <2>2, <2>3, <1>1, <1>2, ReturnedMoves
<1>7. CASE v # 0
  <2>1. PICK op, c : /\ op = IF x.gathers THEN "gather_root" ELSE IF x.at > 1 THEN "any" ELSE "buffer"
                     /\ c \in Bit /\ Meet(r, op, c) /\ X(r)' = x
    <3>1. EndsFunc(r) /\ X(r)' = x
      BY <1>1, <1>7 DEF EndsLeave, EndsFunc, EndsReturn, AllFinished, X
    <3>2. CASE x.gathers
      BY <3>1, <3>2, <1>2, <1>4 DEF EndsFunc
    <3>3. CASE ~x.gathers /\ x.at > 1
      BY <3>1, <3>3, <1>2, <1>4 DEF EndsFunc
    <3>4. CASE ~x.gathers /\ ~(x.at > 1)
      BY <3>1, <3>4, <1>2, <1>4, OutcomeIsBit DEF EndsFunc
    <3> QED  BY <3>2, <3>3, <3>4
  <2>2. op \in Binary \ {"next", "report"}
    BY <2>1, <1>2
  <2>3. Leads(r, P(op, x))
    BY <2>1, <1>3, <1>7, AfterIs
  <2>4. Fits(op, x)
    BY <2>1, <1>3 DEF Fits, Redistributing, Traversing, Gathering, Halted
  <2> QED  BY <2>1, <2>2, <2>3, <2>4, <1>3, Tells, MovesInto
<1> QED  BY <1>5, <1>6, <1>7

\* One of the variables changes on rank r.
LEMMA OneChanges ==
    ASSUME Typed, NEW r \in Rank, NEW e
    PROVE  /\ UNCHANGED <<step, stages, stage, status, gathers, at, whole>>
              /\ err' = [err EXCEPT ![r] = e] => X(r)' = [X(r) EXCEPT !.err = e]
           /\ UNCHANGED <<step, stages, stage, status, gathers, err, whole>>
              /\ at' = [at EXCEPT ![r] = e] => X(r)' = [X(r) EXCEPT !.at = e]
           /\ UNCHANGED <<step, stages, stage, gathers, at, err, whole>>
              /\ status' = [status EXCEPT ![r] = e] => X(r)' = [X(r) EXCEPT !.status = e]
           /\ UNCHANGED <<step, stage, status, gathers, at, err, whole>>
              /\ stages' = [stages EXCEPT ![r] = e] => X(r)' = [X(r) EXCEPT !.stages = e]
           /\ UNCHANGED <<step, stages, stage, status, gathers, at, err>>
              /\ whole' = [whole EXCEPT ![r] = e] => X(r)' = [X(r) EXCEPT !.whole = e]
<1>1. /\ err = [q \in Rank |-> err[q]] /\ at = [q \in Rank |-> at[q]]
      /\ status = [q \in Rank |-> status[q]] /\ stages = [q \in Rank |-> stages[q]]
      /\ whole = [q \in Rank |-> whole[q]]
  BY AreFunctions DEF Functions
<1>2. ASSUME UNCHANGED <<step, stages, stage, status, gathers, at, whole>>,
             err' = [err EXCEPT ![r] = e]
      PROVE  X(r)' = [X(r) EXCEPT !.err = e]
  <2>1. err'[r] = e
    BY <1>1, <1>2
  <2> QED  BY <1>2, <2>1 DEF X
<1>3. ASSUME UNCHANGED <<step, stages, stage, status, gathers, err, whole>>,
             at' = [at EXCEPT ![r] = e]
      PROVE  X(r)' = [X(r) EXCEPT !.at = e]
  <2>1. at'[r] = e
    BY <1>1, <1>3
  <2> QED  BY <1>3, <2>1 DEF X
<1>4. ASSUME UNCHANGED <<step, stages, stage, gathers, at, err, whole>>,
             status' = [status EXCEPT ![r] = e]
      PROVE  X(r)' = [X(r) EXCEPT !.status = e]
  <2>1. status'[r] = e
    BY <1>1, <1>4
  <2> QED  BY <1>4, <2>1 DEF X
<1>5. ASSUME UNCHANGED <<step, stage, status, gathers, at, err, whole>>,
             stages' = [stages EXCEPT ![r] = e]
      PROVE  X(r)' = [X(r) EXCEPT !.stages = e]
  <2>1. stages'[r] = e
    BY <1>1, <1>5
  <2> QED  BY <1>5, <2>1 DEF X
<1>6. ASSUME UNCHANGED <<step, stages, stage, status, gathers, at, err>>,
             whole' = [whole EXCEPT ![r] = e]
      PROVE  X(r)' = [X(r) EXCEPT !.whole = e]
  <2>1. whole'[r] = e
    BY <1>1, <1>6
  <2> QED  BY <1>6, <2>1 DEF X
<1> QED  BY <1>2, <1>3, <1>4, <1>5, <1>6

LEMMA NextSetMoves ==
    ASSUME Typed, OnTrace, NEW r \in Rank, NextSet(r) PROVE Moves(r)
<1>1. PICK x, y : x = X(r) /\ y = [X(r) EXCEPT !.at = @ + 1, !.err = X(r).err]
  OBVIOUS
<1>2. pc[r] = "advance" /\ "advance" \notin Ops /\ "next" \in Ops
  BY LabelFacts DEF NextSet
<1>3. x \in Common /\ Fits("advance", x) /\ Leads(r, P("next", y))
  BY <1>1, <1>2, AtWork, LocusIs DEF SetDone
<1>4. x.err = err[r] /\ x.err \in Bit /\ x.at \in Nat
  BY <1>1, <1>3, CommonIs, Changed
<1>5. y \in Common /\ y.err = x.err
  <2>1. y \in Common
    BY <1>1, <1>3, <1>4, Changed
  <2> QED  BY <2>1, <1>1, <1>3 DEF Common
<1>6. X(r)' = y
  <2>1. X(r)' = [X(r) EXCEPT !.at = at[r] + 1]
    BY OneChanges DEF NextSet
  <2>2. x.at = at[r]
    BY <1>1, CommonIs
  <2>3. [x EXCEPT !.at = x.at + 1] = [x EXCEPT !.at = @ + 1, !.err = x.err]
    BY <1>3 DEF Common
  <2> QED  BY <2>1, <2>2, <2>3, <1>1
<1>7. Fits("next", y)
  <2>1. /\ y.step = x.step /\ y.at = x.at + 1 /\ y.stage = x.stage /\ y.stages = x.stages
        /\ y.gathers = x.gathers
    BY <1>1, <1>3 DEF Common
  <2>2. y.at # 0
    BY <2>1, <1>4
  <2> QED  BY <2>1, <2>2, <1>3 DEF Fits, Redistributing, Traversing, Gathering, Halted
<1>8. Enter(r, "next", y.err) /\ pc'[r] = "next"
  BY <1>4, <1>5 DEF NextSet, Meet, Goto, Typed, TypeOK
<1>9. Allowed(P("next", y), y.err) /\ y.err \in Value
  BY <1>2, <1>4, <1>5, AllowedIs DEF Value, Bit
<1> QED  BY <1>2, <1>3, <1>5, <1>6, <1>7, <1>8, <1>9, MovesInto

LEMMA NextLeaveMoves ==
    ASSUME Typed, OnTrace, NEW r \in Rank, NextLeave(r) PROVE Moves(r)
<1>1. PICK x, v : x = X(r) /\ v = Largest(r)
  OBVIOUS
<1>2. pc[r] = "next" /\ Entered(r) /\ "next" \in Ops /\ "next" \in Binary
      /\ "traverse" \in Labels \ Ops /\ "report" \in Ops
  BY LabelFacts DEF NextLeave
<1>3. x \in Common /\ Fits("next", x) /\ v \in Bit
      /\ \A p : p = After(P("next", x), v) => Leads(r, p)
  BY <1>1, <1>2, InCall, HowIs, AllowedIs
<1>4. x.gathers = gathers[r] /\ x.err = err[r] /\ x.err \in Bit /\ gathers[r] \in BOOLEAN
  BY <1>1, CommonIs DEF Typed, TypeOK
<1>5. CASE v = 0
  <2>1. pc'[r] = "traverse" /\ calls' = calls /\ X(r)' = x
    BY <1>1, <1>5 DEF NextLeave, Goto, X, Typed, TypeOK
  <2>2. Leads(r, LocusOf("traverse", x))
    <3>1. P("ends", x) = After(P("next", x), v)
      BY <1>5, AfterIs
    <3> QED  BY <1>3, <3>1, LocusIs
  <2>3. Fits("traverse", x)
    BY <1>3 DEF Fits, Redistributing, Traversing, Gathering, Halted
  <2> QED  BY <2>1, <2>2, <2>3, <1>2, <1>3, MovesTo
<1>6. CASE v # 0 /\ x.gathers
  <2>1. PICK y : y = WithFailure(x)
    OBVIOUS
  <2>2. y \in Common /\ y.status = 1
    <3>1. y \in Common
      BY <2>1, <1>3, Changed
    <3> QED  BY <3>1, <2>1, <1>3 DEF WithFailure, Common
  <2>3. Meet(r, "report", y.status) /\ X(r)' = y
    <3>1. Meet(r, "report", y.status)
      BY <1>1, <1>4, <1>6, <2>2 DEF NextLeave
    <3>2. X(r)' = WithFailure(X(r))
      BY <1>1, <1>4, <1>6, OneChanges DEF NextLeave, WithFailure
    <3> QED  BY <3>1, <3>2, <2>1, <1>1
  <2>4. Leads(r, P("report", y))
    BY <1>3, <1>6, <2>1, AfterIs
  <2>5. Fits("report", y)
    <3>1. /\ y.step = x.step /\ y.at = x.at /\ y.stage = x.stage /\ y.stages = x.stages
      BY <2>1, <1>3 DEF WithFailure, Common
    <3> QED  BY <3>1, <1>3 DEF Fits, Redistributing, Traversing, Gathering, Halted
  <2> QED  BY <2>2, <2>3, <2>4, <2>5, Reports, MovesInto
<1>7. CASE v # 0 /\ ~x.gathers
  <2>1. /\ Returned(r, x.err) /\ calls' = calls
        /\ UNCHANGED <<at, err, whole, stages, gathers, step>>
    BY <1>1, <1>4, <1>7 DEF NextLeave
  <2>2. Leads(r, BackPlace(x, x.err))
    BY <1>3, <1>7, AfterIs
  <2>3. /\ ~x.gathers /\ (x.stages > 0 => x.stage < x.stages) /\ x.step < StepMax
        /\ x.stage <= x.stages /\ x.stages <= StageMax /\ x.at # 0
    BY <1>3, <1>7 DEF Fits, Traversing, Halted
  <2> QED  BY <2>1, <2>2, <2>3, <1>1, <1>4, ReturnedMoves
<1> QED  BY <1>5, <1>6, <1>7

\* The work on the set at hand ends, with code e.
LEMMA Finishes ==
    ASSUME Typed, NEW r \in Rank, NEW e \in Bit, NEW x \in Common, x = X(r),
           NEW l \in Redistributing \cup Gathering, Fits(l, x), Leads(r, SetDone(x, e)),
           pc'[r] = "advance", calls' = calls, X(r)' = [x EXCEPT !.err = e]
    PROVE  Moves(r)
<1>1. PICK y : y = [x EXCEPT !.err = e]
  OBVIOUS
<1>2. y \in Common
  BY <1>1, Changed
<1>3. /\ y.step = x.step /\ y.at = x.at /\ y.stage = x.stage /\ y.stages = x.stages
      /\ y.gathers = x.gathers /\ y.err = e
  BY <1>1 DEF Common
<1>4. SetDone(y, y.err) = SetDone(x, e)
  <2>1. [y EXCEPT !.at = @ + 1, !.err = e] = [x EXCEPT !.at = @ + 1, !.err = e]
    BY <1>1 DEF Common
  <2> QED  BY <2>1, <1>3 DEF SetDone
<1>5. LocusOf("advance", y) = SetDone(x, e) /\ "advance" \in Labels \ Ops
  BY <1>4, LocusIs, LabelFacts
<1>6. Fits("advance", y)
  BY <1>3 DEF Fits, Redistributing, Traversing, Gathering, Halted
<1> QED  BY <1>1, <1>2, <1>5, <1>6, MovesTo

\* ... or goes on with the next call, with nothing changed.
LEMMA GoesOn ==
    ASSUME Typed, NEW r \in Rank, NEW x \in Common, NEW l \in Redistributing, Fits(l, x),
           NEW op \in (Redistributing \ {"failed", "data"}), NEW c \in Bit, Meet(r, op, c),
           X(r)' = x, Leads(r, P(op, x))
    PROVE  Moves(r)
<1>1. op \in Binary \ {"next", "report"}
  BY LabelFacts DEF Redistributing
<1>2. Fits(op, x)
  BY DEF Fits, Redistributing, Traversing, Gathering, Halted
<1> QED  BY <1>1, <1>2, Tells, MovesInto

LEMMA BufferMoves ==
    ASSUME Typed, OnTrace, NEW r \in Rank, Buffer(r) PROVE Moves(r)
<1>1. PICK x, v : x = X(r) /\ v = Largest(r)
  OBVIOUS
<1>2. pc[r] = "buffer" /\ Entered(r) /\ "buffer" \in Ops /\ "buffer" \in Binary
      /\ "buffer" \in Redistributing /\ "any" \in Redistributing \ {"failed", "data"}
      /\ 0 \in Bit /\ 1 \in Bit
  BY LabelFacts DEF Buffer, Bit, Redistributing
<1>3. x \in Common /\ Fits("buffer", x) /\ v \in Bit
      /\ \A p : p = After(P("buffer", x), v) => Leads(r, p)
  BY <1>1, <1>2, InCall, HowIs, AllowedIs
<1>4. CASE v = 1
  <2>1. pc'[r] = "advance" /\ calls' = calls
    BY <1>1, <1>4 DEF Buffer, Goto, Typed, TypeOK
  <2>2. X(r)' = [X(r) EXCEPT !.err = 1]
    BY <1>1, <1>4, OneChanges DEF Buffer, Code
  <2>3. Leads(r, SetDone(x, 1))
    BY <1>3, <1>4, AfterIs
  <2> QED  BY <2>1, <2>2, <2>3, <1>1, <1>2, <1>3, Finishes
<1>5. CASE v # 1
  <2>1. PICK c \in Bit : Meet(r, "any", c) /\ X(r)' = x
    BY <1>1, <1>2, <1>5 DEF Buffer, X
  <2>2. Leads(r, P("any", x))
    BY <1>3, <1>5, AfterIs
  <2> QED  BY <2>1, <2>2, <1>2, <1>3, GoesOn
<1> QED  BY <1>4, <1>5

LEMMA AnyParticleMoves ==
    ASSUME Typed, OnTrace, NEW r \in Rank, AnyParticle(r) PROVE Moves(r)
<1>1. PICK x, v : x = X(r) /\ v = Largest(r)
  OBVIOUS
<1>2. pc[r] = "any" /\ Entered(r) /\ "any" \in Ops /\ "any" \in Binary
      /\ "any" \in Redistributing /\ "counts" \in Redistributing \ {"failed", "data"}
  BY LabelFacts DEF AnyParticle, Redistributing
<1>3. x \in Common /\ Fits("any", x) /\ v \in Bit
      /\ \A p : p = After(P("any", x), v) => Leads(r, p)
  BY <1>1, <1>2, InCall, HowIs, AllowedIs
<1>4. X(r)' = x
  BY <1>1 DEF AnyParticle, local, X
<1>5. CASE v = 0
  <2>1. pc'[r] = "advance" /\ calls' = calls
    BY <1>1, <1>5 DEF AnyParticle, Goto, Typed, TypeOK
  <2>2. x = [x EXCEPT !.err = x.err] /\ x.err \in Bit
    BY <1>3 DEF Common
  <2>3. Leads(r, SetDone(x, x.err))
    BY <1>3, <1>5, AfterIs
  <2> QED  BY <2>1, <2>2, <2>3, <1>1, <1>2, <1>3, <1>4, Finishes
<1>6. CASE v # 0
  <2>1. PICK c \in Bit : Meet(r, "counts", c)
    BY <1>1, <1>6, OutcomeIsBit DEF AnyParticle
  <2>2. Leads(r, P("counts", x))
    BY <1>3, <1>6, AfterIs
  <2> QED  BY <2>1, <2>2, <1>2, <1>3, <1>4, GoesOn
<1> QED  BY <1>5, <1>6

\* The exchange is given up.
LEMMA GivesUp ==
    ASSUME Typed, NEW r \in Rank, NEW x \in Common, x = X(r), NEW l \in Redistributing,
           Fits(l, x), Leads(r, SetDone(x, 1)), pc'[r] = "failed", calls' = calls, X(r)' = x
    PROVE  Moves(r)
<1>1. LocusOf("failed", x) = SetDone(x, 1) /\ "failed" \in Labels \ Ops
  BY LocusIs, LabelFacts
<1>2. Fits("failed", x)
  BY DEF Fits, Redistributing, Traversing, Gathering, Halted
<1> QED  BY <1>1, <1>2, MovesTo

LEMMA CountedMoves ==
    ASSUME Typed, OnTrace, NEW r \in Rank, Counted(r) PROVE Moves(r)
<1>1. PICK x, v : x = X(r) /\ v = Largest(r)
  OBVIOUS
<1>2. pc[r] = "counts" /\ Entered(r) /\ "counts" \in Ops /\ "counts" \in Binary
      /\ "counts" \in Redistributing /\ "whole" \in Redistributing \ {"failed", "data"}
      /\ 0 \in Bit /\ 1 \in Bit
  BY LabelFacts DEF Counted, Redistributing, Bit
<1>3. x \in Common /\ Fits("counts", x) /\ v \in Bit
      /\ \A p : p = After(P("counts", x), v) => Leads(r, p)
  BY <1>1, <1>2, InCall, HowIs, AllowedIs
<1>4. X(r)' = x
  BY <1>1 DEF Counted, local, X
<1>5. CASE v = 1
  <2>1. pc'[r] = "failed" /\ calls' = calls
    BY <1>1, <1>5 DEF Counted, Goto, Typed, TypeOK
  <2>2. Leads(r, SetDone(x, 1))
    BY <1>3, <1>5, AfterIs
  <2> QED  BY <2>1, <2>2, <1>1, <1>2, <1>3, <1>4, GivesUp
<1>6. CASE v # 1
  <2>1. PICK c \in Bit : Meet(r, "whole", c)
    BY <1>1, <1>2, <1>6 DEF Counted
  <2>2. Leads(r, P("whole", x))
    BY <1>3, <1>6, AfterIs
  <2> QED  BY <2>1, <2>2, <1>2, <1>3, <1>4, GoesOn
<1> QED  BY <1>5, <1>6

LEMMA WholeMoves ==
    ASSUME Typed, OnTrace, NEW r \in Rank, Whole(r) PROVE Moves(r)
<1>1. PICK x, v : x = X(r) /\ v = Largest(r)
  OBVIOUS
<1>2. pc[r] = "whole" /\ Entered(r) /\ "whole" \in Ops /\ "whole" \in Binary
      /\ {"root", "new"} \subseteq Binary \ {"next", "report"}
      /\ 0 \in Bit /\ 1 \in Bit
  BY LabelFacts DEF Whole, Bit
<1>3. x \in Common /\ Fits("whole", x) /\ v \in Bit
      /\ \A p : p = After(P("whole", x), v) => Leads(r, p)
  BY <1>1, <1>2, InCall, HowIs, AllowedIs
<1>4. PICK b, y, op : /\ b \in BOOLEAN /\ (b <=> v = 0) /\ y = EachHas(x, b)
                      /\ op = IF v = 1 THEN "root" ELSE "new"
  <2>1. \E b \in BOOLEAN : b <=> v = 0
    OBVIOUS
  <2> QED  BY <2>1
<1>5. y \in Common
  BY <1>3, <1>4, Changed
<1>6. X(r)' = y
  <2>1. whole' = [whole EXCEPT ![r] = b]
    <3>1. (v = 0) = b
      BY <1>4
    <3> QED  BY <3>1, <1>1 DEF Whole
  <2> QED  BY <2>1, <1>1, <1>4, OneChanges DEF Whole, EachHas
<1>7. PICK c \in Bit : Meet(r, op, c)
  BY <1>1, <1>2, <1>4, OutcomeIsBit DEF Whole
<1>8. Leads(r, P(op, y))
  <2>1. CASE v = 1
    <3>1. b = FALSE
      BY <2>1, <1>4
    <3>2. P("root", y) = After(P("whole", x), v)
      <4>1. After(P("whole", x), v) = P("root", EachHas(x, FALSE))
        BY <2>1, AfterIs
      <4> QED  BY <3>1, <1>4, <4>1
    <3> QED  BY <3>2, <2>1, <1>3, <1>4
  <2>2. CASE v # 1
    <3>1. b = TRUE
      BY <2>2, <1>3, <1>4 DEF Bit
    <3>2. P("new", y) = After(P("whole", x), v)
      <4>1. y = EachHas(x, TRUE)
        BY <3>1, <1>4
      <4>2. After(P("whole", x), v) = P("new", EachHas(x, TRUE))
        BY <2>2, AfterIs
      <4> QED  BY <4>1, <4>2
    <3> QED  BY <3>2, <2>2, <1>3, <1>4
  <2> QED  BY <2>1, <2>2
<1>9. Fits(op, y)
  <2>1. /\ y.step = x.step /\ y.at = x.at /\ y.stage = x.stage /\ y.stages = x.stages
        /\ y.gathers = x.gathers
    BY <1>3, <1>4 DEF EachHas, Common
  <2> QED  BY <2>1, <1>3, <1>4 DEF Fits, Redistributing, Traversing, Gathering, Halted
<1> QED  BY <1>2, <1>4, <1>5, <1>6, <1>7, <1>8, <1>9, Tells, MovesInto

LEMMA SetRootMoves ==
    ASSUME Typed, OnTrace, NEW r \in Rank, SetRoot(r) PROVE Moves(r)
<1>1. PICK x : x = X(r)
  OBVIOUS
<1>2. pc[r] = "root" /\ Entered(r) /\ "root" \in Ops /\ "root" \in Redistributing
      /\ "new" \in Redistributing \ {"failed", "data"}
  BY LabelFacts DEF SetRoot, Redistributing
<1>3. x \in Common /\ Fits("root", x) /\ \A p : (\A v : p = After(P("root", x), v)) => Leads(r, p)
  BY <1>1, <1>2, InCall
<1>4. X(r)' = x
  BY <1>1 DEF SetRoot, local, X
<1>5. PICK c \in Bit : Meet(r, "new", c)
  BY OutcomeIsBit DEF SetRoot
<1>6. \A v : P("new", x) = After(P("root", x), v)
  BY AfterIs
<1> QED  BY <1>2, <1>3, <1>4, <1>5, <1>6, GoesOn

LEMMA NewMoves ==
    ASSUME Typed, OnTrace, NEW r \in Rank, New(r) PROVE Moves(r)
<1>1. PICK x, v, op : /\ x = X(r) /\ v = Largest(r)
                      /\ op = IF whole[r] THEN "numbers" ELSE "numbers_sizes"
  OBVIOUS
<1>2. pc[r] = "new" /\ Entered(r) /\ "new" \in Ops /\ "new" \in Binary
      /\ "new" \in Redistributing /\ op \in Redistributing \ {"failed", "data"} /\ 0 \in Bit
  BY <1>1, LabelFacts DEF New, Redistributing, Bit
<1>3. x \in Common /\ Fits("new", x) /\ v \in Bit
      /\ \A p : p = After(P("new", x), v) => Leads(r, p)
  BY <1>1, <1>2, InCall, HowIs, AllowedIs
<1>4. X(r)' = x /\ x.whole = whole[r]
  BY <1>1, CommonIs DEF New, local, X
<1>5. CASE v = 1
  <2>1. pc'[r] = "failed" /\ calls' = calls
    BY <1>1, <1>5 DEF New, Goto, Typed, TypeOK
  <2>2. Leads(r, SetDone(x, 1))
    BY <1>3, <1>5, AfterIs
  <2> QED  BY <2>1, <2>2, <1>1, <1>2, <1>3, <1>4, GivesUp
<1>6. CASE v # 1
  <2>1. Meet(r, op, 0)
    BY <1>1, <1>6 DEF New
  <2>2. P(op, x) = After(P("new", x), v)
    BY <1>1, <1>4, <1>6, AfterIs
  <2> QED  BY <2>1, <2>2, <1>2, <1>3, <1>4, GoesOn
<1> QED  BY <1>5, <1>6

LEMMA NumbersMoves ==
    ASSUME Typed, OnTrace, NEW r \in Rank, Numbers(r) PROVE Moves(r)
<1>1. PICK x, op : x = X(r) /\ op = pc[r]
  OBVIOUS
<1>2. op \in {"numbers", "numbers_sizes"} /\ Entered(r) /\ op \in Ops /\ op \in Redistributing
      /\ "types" \in Redistributing \ {"failed", "data"}
  BY <1>1, LabelFacts DEF Numbers, Redistributing
<1>3. x \in Common /\ Fits(op, x) /\ \A p : (\A v : p = After(P(op, x), v)) => Leads(r, p)
  BY <1>1, <1>2, InCall
<1>4. X(r)' = x
  BY <1>1 DEF Numbers, local, X
<1>5. PICK c \in Bit : Meet(r, "types", c)
  BY OutcomeIsBit DEF Numbers
<1>6. \A v : P("types", x) = After(P(op, x), v)
  <2>1. CASE op = "numbers"
    BY <2>1, AfterIs
  <2>2. CASE op = "numbers_sizes"
    BY <2>2, AfterIs
  <2> QED  BY <1>2, <2>1, <2>2
<1> QED  BY <1>2, <1>3, <1>4, <1>5, <1>6, GoesOn

\* What rank r sends to the ranks.
LEMMA OutgoingTyped ==
    ASSUME Typed, NEW r \in Rank
    PROVE  Has(r) \subseteq Particle /\ Outgoing(r) \in [Rank -> SUBSET Particle]
<1>1. Has(r) \subseteq Particle
  <2>1. CASE AtEnd(r)
    BY <2>1 DEF Has
  <2>2. CASE ~AtEnd(r)
    <3>1. PICK s, a : s = sets[r] /\ a = at[r]
      OBVIOUS
    <3>2. s \in Seq(SUBSET Particle) /\ a \in Nat \ {0} /\ end[r] \in Nat /\ end[r] <= Len(s)
      BY <3>1 DEF Typed, TypeOK
    <3>3. a \in 1 .. Len(s)
      BY <2>2, <3>1, <3>2 DEF AtEnd
    <3>4. s[a] \in SUBSET Particle
      BY <3>2, <3>3
    <3> QED  BY <2>2, <3>1, <3>4 DEF Has
  <2> QED  BY <2>1, <2>2
<1> QED  BY <1>1 DEF Outgoing

LEMMA TypesMoves ==
    ASSUME Typed, OnTrace, NEW r \in Rank, Types(r) PROVE Moves(r)
<1>1. PICK x, v, w : x = X(r) /\ v = Largest(r) /\ w = Outgoing(r)
  OBVIOUS
<1>2. pc[r] = "types" /\ Entered(r) /\ "types" \in Ops /\ "types" \in Binary
      /\ "types" \in Redistributing /\ "data" \in Ops
  BY LabelFacts DEF Types, Redistributing
<1>3. x \in Common /\ Fits("types", x) /\ v \in Bit
      /\ \A p : p = After(P("types", x), v) => Leads(r, p)
  BY <1>1, <1>2, InCall, HowIs, AllowedIs
<1>4. X(r)' = x
  BY <1>1 DEF Types, local, X
<1>5. CASE v = 1
  <2>1. pc'[r] = "failed" /\ calls' = calls
    BY <1>1, <1>5 DEF Types, Goto, Typed, TypeOK
  <2>2. Leads(r, SetDone(x, 1))
    BY <1>3, <1>5, AfterIs
  <2> QED  BY <2>1, <2>2, <1>1, <1>2, <1>3, <1>4, GivesUp
<1>6. CASE v # 1
  <2>1. Enter(r, "data", w) /\ pc'[r] = "data"
    BY <1>1, <1>6 DEF Types, Meet, Goto, Typed, TypeOK
  <2>2. Leads(r, P("data", x))
    BY <1>3, <1>6, AfterIs
  <2>3. w \in Value /\ Allowed(P("data", x), w)
    BY <1>1, <1>2, <1>3, OutgoingTyped, AllowedIs DEF Value
  <2>4. Fits("data", x)
    BY <1>3 DEF Fits, Redistributing, Traversing, Gathering, Halted
  <2> QED  BY <2>1, <2>2, <2>3, <2>4, <1>2, <1>3, <1>4, MovesInto
<1> QED  BY <1>5, <1>6

LEMMA DataMoves ==
    ASSUME Typed, OnTrace, NEW r \in Rank, Data(r) PROVE Moves(r)
<1>1. PICK x : x = X(r)
  OBVIOUS
<1>2. pc[r] = "data" /\ Entered(r) /\ "data" \in Ops /\ "data" \in Redistributing /\ 0 \in Bit
  BY LabelFacts DEF Data, Redistributing, Bit
<1>3. x \in Common /\ Fits("data", x) /\ \A p : (\A v : p = After(P("data", x), v)) => Leads(r, p)
  BY <1>1, <1>2, InCall
<1>4. \A v : SetDone(x, 0) = After(P("data", x), v)
  BY AfterIs
<1>5. X(r)' = [X(r) EXCEPT !.err = 0]
  BY OneChanges DEF Data, Code
<1>6. pc'[r] = "advance" /\ calls' = calls
  BY DEF Data, Goto, Typed, TypeOK
<1> QED  BY <1>1, <1>2, <1>3, <1>4, <1>5, <1>6, Finishes

LEMMA FailedMoves ==
    ASSUME Typed, NEW r \in Rank, Failed(r), ~Crash(r) PROVE Moves(r)
<1>1. PICK x : x = X(r)
  OBVIOUS
<1>2. pc[r] = "failed" /\ "failed" \notin Ops /\ "failed" \in Redistributing /\ 1 \in Bit
  BY LabelFacts DEF Failed, Redistributing, Bit
<1>3. x \in Common /\ Fits("failed", x) /\ Leads(r, SetDone(x, 1))
  BY <1>1, <1>2, AtWork, LocusIs
<1>4. X(r)' = [X(r) EXCEPT !.err = 1]
  BY OneChanges DEF Failed, Code
<1>5. pc'[r] = "advance" /\ calls' = calls
  BY DEF Failed, Crash, Goto, Typed, TypeOK
<1> QED  BY <1>1, <1>2, <1>3, <1>4, <1>5, Finishes

LEMMA SubstepsMoves ==
    ASSUME Typed, NEW r \in Rank, Substeps(r) PROVE Moves(r)
<1>1. PICK x : x = X(r)
  OBVIOUS
<1>2. pc[r] = "stage" /\ "stage" \notin Ops /\ "substeps" \in Ops
  BY LabelFacts DEF Substeps
<1>3. x \in Common /\ Fits("stage", x) /\ Leads(r, StagePlace(x))
  BY <1>1, <1>2, AtWork, LocusIs
<1>4. PICK n \in 1 .. StageMax : Meet(r, "substeps", n) /\ stages[r] = 0 /\ UNCHANGED local
  BY DEF Substeps
<1>5. X(r)' = x /\ x.stages = 0 /\ pc'[r] = "substeps"
  <2>1. X(r)' = x
    BY <1>1, <1>4 DEF local, X
  <2>2. pc'[r] = "substeps"
    BY <1>4 DEF Meet, Goto, Typed, TypeOK
  <2> QED  BY <2>1, <2>2, <1>1, <1>4, CommonIs
<1>6. Leads(r, P("substeps", x))
  BY <1>3, <1>5 DEF StagePlace
<1>7. Allowed(P("substeps", x), n) /\ n \in Value
  <2>1. StageMax \in Nat
    BY Constants
  <2>2. n \in Nat
    BY <2>1
  <2> QED  BY <2>2, <1>2, <1>3, AllowedIs DEF Value
<1>8. Fits("substeps", x)
  BY <1>3, <1>5 DEF Fits, Redistributing, Traversing, Gathering, Halted
<1> QED  BY <1>2, <1>3, <1>4, <1>5, <1>6, <1>7, <1>8, MovesInto DEF Meet

LEMMA SubstepsLeaveMoves ==
    ASSUME Typed, OnTrace, NEW r \in Rank, SubstepsLeave(r) PROVE Moves(r)
<1>1. PICK x, v, y : x = X(r) /\ v = Largest(r) /\ y = WithStages(X(r), Largest(r))
  OBVIOUS
<1>2. pc[r] = "substeps" /\ Entered(r) /\ "substeps" \in Ops /\ "stage" \in Labels \ Ops
  BY LabelFacts DEF SubstepsLeave
<1>3. x \in Common /\ Fits("substeps", x) /\ v \in 1 .. StageMax
      /\ \A p : p = After(P("substeps", x), v) => Leads(r, p)
  BY <1>1, <1>2, InCall, HowIs, AllowedIs
<1>4. StageMax \in Nat /\ v \in Nat
  <2>1. StageMax \in Nat
    BY Constants
  <2> QED  BY <2>1, <1>3
<1>5. y \in Common
  BY <1>1, <1>3, <1>4, Changed
<1>6. X(r)' = y
  BY <1>1, OneChanges DEF SubstepsLeave, WithStages
<1>7. pc'[r] = "stage" /\ calls' = calls
  BY DEF SubstepsLeave, Goto, Typed, TypeOK
<1>8. Leads(r, LocusOf("stage", y))
  <2>1. After(P("substeps", x), v) = StagePlace(WithStages(x, v))
    BY AfterSubsteps
  <2> QED  BY <2>1, <1>1, <1>3, LocusIs
<1>9. Fits("stage", y)
  <2>1. /\ y.step = x.step /\ y.at = x.at /\ y.stage = x.stage /\ y.stages = v
        /\ y.gathers = x.gathers
    BY <1>1, <1>3 DEF WithStages, Common
  <2>2. x.stage \in Nat /\ x.stage <= 0 /\ x.stages = 0
    BY <1>3 DEF Fits, Common
  <2>3. y.stage <= y.stages /\ y.stages <= StageMax
    BY <2>1, <2>2, <1>3, <1>4
  <2> QED  BY <2>1, <2>3, <1>3 DEF Fits, Redistributing, Traversing, Gathering, Halted
<1> QED  BY <1>2, <1>5, <1>6, <1>7, <1>8, <1>9, MovesTo

LEMMA StageMoves ==
    ASSUME Typed, NEW r \in Rank, Stage(r) PROVE Moves(r)
<1>1. PICK x, y : x = X(r) /\ y = [X(r) EXCEPT !.err = 0]
  OBVIOUS
<1>2. pc[r] = "stage" /\ "stage" \notin Ops /\ "bounds" \in Binary \ {"next", "report"} /\ 0 \in Bit
  BY LabelFacts DEF Stage, Integrates, Bit
<1>3. x \in Common /\ Fits("stage", x) /\ Leads(r, StagePlace(x))
  BY <1>1, <1>2, AtWork, LocusIs
<1>4. x.stage < x.stages /\ Going(x) /\ x.stages # 0
  <2>1. x.stage = stage[r] /\ x.stages = stages[r] /\ x.status = status[r]
    BY <1>1, CommonIs
  <2>2. x.stage \in Nat /\ x.stages \in Nat
    BY <1>3, Changed
  <2> QED  BY <2>1, <2>2 DEF Stage, Integrates, Going
<1>5. PICK c \in Bit : Meet(r, "bounds", c)
  BY OutcomeIsBit DEF Stage
<1>6. X(r)' = y
  BY <1>1, OneChanges DEF Stage, Code
<1>7. y \in Common
  BY <1>1, <1>2, <1>3, Changed
<1>8. Leads(r, P("bounds", y))
  BY <1>1, <1>3, <1>4 DEF StagePlace
<1>9. Fits("bounds", y)
  <2>1. /\ y.step = x.step /\ y.at = x.at /\ y.stage = x.stage /\ y.stages = x.stages
        /\ y.gathers = x.gathers
    BY <1>1, <1>3 DEF Common
  <2> QED  BY <2>1, <1>3, <1>4 DEF Fits, Redistributing, Traversing, Gathering, Halted
<1> QED  BY <1>2, <1>5, <1>6, <1>7, <1>8, <1>9, Tells, MovesInto

LEMMA WallsMoves ==
    ASSUME Typed, NEW r \in Rank, Walls(r) PROVE Moves(r)
<1>1. PICK x : x = X(r)
  OBVIOUS
<1>2. pc[r] = "stage" /\ "stage" \notin Ops /\ "output" \in Labels \ Ops
  BY LabelFacts DEF Walls
<1>3. x \in Common /\ Fits("stage", x) /\ Leads(r, StagePlace(x))
  BY <1>1, <1>2, AtWork, LocusIs
<1>4. ~Going(x) /\ x.stages # 0
  <2>1. x.stage = stage[r] /\ x.stages = stages[r] /\ x.status = status[r]
    BY <1>1, CommonIs
  <2>2. x.stage \in Nat /\ x.stages \in Nat
    BY <1>3, Changed
  <2> QED  BY <2>1, <2>2 DEF Walls, Integrates, Going
<1>5. X(r)' = x /\ pc'[r] = "output" /\ calls' = calls
  <2>1. X(r)' = x
    BY <1>1 DEF Walls, X
  <2> QED  BY <2>1 DEF Walls, Goto, Typed, TypeOK
<1>6. Leads(r, LocusOf("output", x))
  BY <1>3, <1>4, LocusIs DEF StagePlace
<1>7. Fits("output", x)
  BY <1>3 DEF Fits, Redistributing, Traversing, Gathering, Halted
<1> QED  BY <1>2, <1>3, <1>5, <1>6, <1>7, MovesTo

LEMMA OutputMoves ==
    ASSUME Typed, NEW r \in Rank, Output(r) PROVE Moves(r)
<1>1. PICK x : x = X(r)
  OBVIOUS
<1>2. pc[r] = "output" /\ "output" \notin Ops /\ "traverse" \in Labels \ Ops
  BY LabelFacts DEF Output
<1>3. x \in Common /\ Fits("output", x) /\ Leads(r, OutputPlace(x))
      /\ x.step = step[r] /\ x.status = status[r]
  BY <1>1, <1>2, AtWork, LocusIs, CommonIs
<1>4. CASE step[r] \in GatherAt
  <2>1. PICK y : y = [X(r) EXCEPT !.at = 1, !.gathers = TRUE]
    OBVIOUS
  <2>2. y \in Common
    BY <2>1, <1>1, <1>3, Changed
  <2>3. X(r)' = y
    <3>1. at'[r] = 1 /\ gathers'[r] = TRUE /\ UNCHANGED <<step, stages, stage, status, err, whole>>
      BY <1>4 DEF Output, Begin, Typed, TypeOK
    <3> QED  BY <3>1, <2>1 DEF X
  <2>4. pc'[r] = "traverse" /\ calls' = calls
    BY <1>4 DEF Output, Goto, Typed, TypeOK
  <2>5. Leads(r, LocusOf("traverse", y))
    BY <1>1, <1>3, <1>4, <2>1, LocusIs DEF OutputPlace
  <2>6. Fits("traverse", y)
    <3>1. /\ y.step = x.step /\ y.at = 1 /\ y.stage = x.stage /\ y.stages = x.stages
          /\ y.gathers = TRUE
      BY <2>1, <1>1, <1>3 DEF Common
    <3> QED  BY <3>1, <1>3 DEF Fits, Redistributing, Traversing, Gathering, Halted
  <2> QED  BY <1>2, <2>2, <2>3, <2>4, <2>5, <2>6, MovesTo
<1>5. CASE step[r] \notin GatherAt
  <2>1. Meet(r, "report", x.status) /\ X(r)' = x
    BY <1>1, <1>3, <1>5 DEF Output, X
  <2>2. Leads(r, P("report", x))
    BY <1>3, <1>5 DEF OutputPlace
  <2>3. Fits("report", x)
    BY <1>3 DEF Fits, Redistributing, Traversing, Gathering, Halted
  <2> QED  BY <2>1, <2>2, <2>3, <1>3, Reports, MovesInto
<1> QED  BY <1>4, <1>5

LEMMA GatherRootMoves ==
    ASSUME Typed, OnTrace, NEW r \in Rank, GatherRoot(r) PROVE Moves(r)
<1>1. PICK x : x = X(r)
  OBVIOUS
<1>2. pc[r] = "gather_root" /\ RootEntered(r) /\ "gather_root" \in Ops
      /\ "gather_new" \in Binary \ {"next", "report"}
  BY LabelFacts DEF GatherRoot
<1>3. x \in Common /\ Fits("gather_root", x) /\ Meets(r)
      /\ \E v : Beyond(r) = After(P("gather_root", x), v)
  BY <1>1, <1>2, GatherResult
<1>4. Leads(r, P("gather_new", x))
  <2>1. Beyond(r) = P("gather_new", x)
    BY <1>3, AfterIs
  <2> QED  BY <2>1, <1>2, <1>3 DEF Leads
<1>5. PICK c \in Bit : Meet(r, "gather_new", c)
  BY OutcomeIsBit DEF GatherRoot
<1>6. X(r)' = x
  BY <1>1 DEF GatherRoot, local, X
<1>7. Fits("gather_new", x)
  BY <1>3 DEF Fits, Redistributing, Traversing, Gathering, Halted
<1> QED  BY <1>2, <1>3, <1>4, <1>5, <1>6, <1>7, Tells, MovesInto

LEMMA GatherNewMoves ==
    ASSUME Typed, OnTrace, NEW r \in Rank, GatherNew(r) PROVE Moves(r)
<1>1. PICK x, v, w : x = X(r) /\ v = Largest(r) /\ w = Has(r)
  OBVIOUS
<1>2. pc[r] = "gather_new" /\ Entered(r) /\ "gather_new" \in Ops /\ "gather_new" \in Binary
      /\ "gather_new" \in Redistributing \cup Gathering /\ "gather" \in Ops /\ 1 \in Bit
  BY LabelFacts DEF GatherNew, Gathering, Bit
<1>3. x \in Common /\ Fits("gather_new", x) /\ v \in Bit
      /\ \A p : p = After(P("gather_new", x), v) => Leads(r, p)
  BY <1>1, <1>2, InCall, HowIs, AllowedIs
<1>4. CASE v = 1
  <2>1. pc'[r] = "advance" /\ calls' = calls
    BY <1>1, <1>4 DEF GatherNew, Goto, Typed, TypeOK
  <2>2. X(r)' = [X(r) EXCEPT !.err = 1]
    BY <1>1, <1>4, OneChanges DEF GatherNew, Code
  <2>3. Leads(r, SetDone(x, 1))
    BY <1>3, <1>4, AfterIs
  <2> QED  BY <2>1, <2>2, <2>3, <1>1, <1>2, <1>3, Finishes
<1>5. CASE v # 1
  <2>1. Enter(r, "gather", w) /\ pc'[r] = "gather" /\ X(r)' = x
    <3>1. X(r)' = x
      BY <1>1, <1>5 DEF GatherNew, X
    <3> QED  BY <3>1, <1>1, <1>5 DEF GatherNew, Meet, Goto, Typed, TypeOK
  <2>2. Leads(r, P("gather", x))
    BY <1>3, <1>5, AfterIs
  <2>3. w \in Value /\ Allowed(P("gather", x), w)
    BY <1>1, <1>2, <1>3, OutgoingTyped, AllowedIs DEF Value
  <2>4. Fits("gather", x)
    BY <1>3 DEF Fits, Redistributing, Traversing, Gathering, Halted
  <2> QED  BY <2>1, <2>2, <2>3, <2>4, <1>2, <1>3, MovesInto
<1> QED  BY <1>4, <1>5

LEMMA GatherMoves ==
    ASSUME Typed, OnTrace, NEW r \in Rank, Gather(r) PROVE Moves(r)
<1>1. PICK x : x = X(r)
  OBVIOUS
<1>2. pc[r] = "gather" /\ "gather" \in Ops /\ "gather_set" \in Binary \ {"next", "report"}
  BY LabelFacts DEF Gather
<1>3. x \in Common /\ Fits("gather", x) /\ Meets(r)
      /\ \E v : Beyond(r) = After(P("gather", x), v)
  BY <1>1, <1>2, GatherResult
<1>4. Leads(r, P("gather_set", x))
  <2>1. Beyond(r) = P("gather_set", x)
    BY <1>3, AfterIs
  <2> QED  BY <2>1, <1>2, <1>3 DEF Leads
<1>5. PICK c \in Bit : Meet(r, "gather_set", c)
  BY OutcomeIsBit DEF Gather, Bit
<1>7. X(r)' = x
  BY <1>1 DEF Gather, X
<1>6. Fits("gather_set", x)
  BY <1>3 DEF Fits, Redistributing, Traversing, Gathering, Halted
<1> QED  BY <1>2, <1>3, <1>4, <1>5, <1>6, <1>7, Tells, MovesInto

LEMMA GatherSetMoves ==
    ASSUME Typed, OnTrace, NEW r \in Rank, GatherSet(r) PROVE Moves(r)
<1>1. PICK x, v : x = X(r) /\ v = Largest(r)
  OBVIOUS
<1>2. pc[r] = "gather_set" /\ Entered(r) /\ "gather_set" \in Ops /\ "gather_set" \in Binary
      /\ "gather_set" \in Redistributing \cup Gathering
  BY LabelFacts DEF GatherSet, Gathering
<1>3. x \in Common /\ Fits("gather_set", x) /\ v \in Bit
      /\ \A p : p = After(P("gather_set", x), v) => Leads(r, p)
  BY <1>1, <1>2, InCall, HowIs, AllowedIs
<1>4. Leads(r, SetDone(x, v))
  <2>1. After(P("gather_set", x), v) = IF v = 1 THEN SetDone(x, 1) ELSE SetDone(x, 0)
    BY AfterIs
  <2>2. v = 0 \/ v = 1
    BY <1>3 DEF Bit
  <2>3. After(P("gather_set", x), v) = SetDone(x, v)
    BY <2>1, <2>2
  <2> QED  BY <1>3, <2>3
<1>5. X(r)' = [x EXCEPT !.err = v]
  BY <1>1, OneChanges DEF GatherSet, Code
<1>6. pc'[r] = "advance" /\ calls' = calls
  BY DEF GatherSet, Goto, Typed, TypeOK
<1> QED  BY <1>1, <1>2, <1>3, <1>4, <1>5, <1>6, Finishes

LEMMA ReportMoves ==
    ASSUME Cleared, Typed, OnTrace, NEW r \in Rank, Report(r) PROVE Moves(r)
<1>1. PICK x, v : x = X(r) /\ v = Largest(r)
  OBVIOUS
<1>2. pc[r] = "report" /\ Entered(r) /\ "report" \in Ops /\ "report" \in Binary
  BY LabelFacts DEF Report
<1>3. x \in Common /\ Fits("report", x) /\ v \in Bit
      /\ \A p : p = After(P("report", x), v) => Leads(r, p)
  BY <1>1, <1>2, InCall, HowIs, AllowedIs
<1>4. x.step = step[r] /\ x.step \in Nat /\ x.step < StepMax /\ StepMax \in Nat /\ x.at # 0
      /\ x.stage <= x.stages /\ x.stages <= StageMax /\ calls' = calls
  <2>1. x.step = step[r]
    BY <1>1, CommonIs
  <2>2. "report" \notin Halted
    BY DEF Halted
  <2> QED  BY <2>1, <2>2, <1>3, Changed, Constants DEF Fits, Report
<1>5. CASE v = 1 \/ LastStep(x)
  <2>1. PICK y, l : y = Later(x) /\ l = IF v = 1 THEN "aborted" ELSE "ended"
    OBVIOUS
  <2>2. y \in Common /\ l \in Halted /\ l \in Labels \ Ops
    BY <2>1, <1>3, Changed, LabelFacts DEF Halted
  <2>3. pc'[r] = l
    BY <2>1, <1>1, <1>4, <1>5 DEF Report, Goto, LastStep, Typed, TypeOK
  <2>4. X(r)' = y
    <3>1. step'[r] = step[r] + 1 /\ UNCHANGED <<stages, stage, status, gathers, at, err, whole>>
      BY <1>1, <1>4, <1>5 DEF Report, LastStep, Typed, TypeOK
    <3>2. X(r)' = [X(r) EXCEPT !.step = step[r] + 1]
      BY <3>1 DEF X
    <3> QED  BY <3>2, <2>1, <1>1, <1>4 DEF Later
  <2>5. Leads(r, LocusOf(l, y))
    <3>1. P("none", y) = After(P("report", x), v)
      BY <2>1, <1>5, AfterIs
    <3> QED  BY <3>1, <2>2, <1>3, LocusIs
  <2>6. Fits(l, y)
    <3>1. /\ y.step = x.step + 1 /\ y.at = x.at /\ y.stage = x.stage /\ y.stages = x.stages
      BY <2>1, <1>3 DEF Later, Common
    <3> QED  BY <3>1, <2>1, <1>4 DEF Fits, Redistributing, Traversing, Gathering, Halted
  <2> QED  BY <1>4, <2>2, <2>3, <2>4, <2>5, <2>6, MovesTo
<1>6. CASE v # 1 /\ ~LastStep(x)
  <2>1. PICK y : y = Cleaned(x)
    OBVIOUS
  <2>2. y \in Common /\ "step" \in Labels \ Ops
    BY <2>1, <1>3, Changed, LabelFacts
  <2>3. pc'[r] = "step" /\ step'[r] = step[r] + 1 /\ status'[r] = 0
        /\ UNCHANGED <<stages, stage, gathers, at, err, whole>>
    <3>1. status' = [status EXCEPT ![r] = 0]
      BY <1>1, <1>4, <1>6 DEF Report, LastStep, Cleared
    <3> QED  BY <3>1, <1>1, <1>4, <1>6 DEF Report, Goto, LastStep, Typed, TypeOK
  <2>4. X(r)' = y
    <3>1. PICK a, b : a = step[r] /\ b = step'[r] /\ b = a + 1
      BY <2>3
    <3>2. PICK w : w = [step |-> b, stages |-> stages[r], stage |-> stage[r], status |-> 0,
                        gathers |-> gathers[r], at |-> at[r], err |-> err[r],
                        whole |-> whole[r]]
      OBVIOUS
    <3>3. X(r)' = w
      BY <2>3, <3>1, <3>2 DEF X
    <3>4. /\ y.step = b /\ y.stages = x.stages /\ y.stage = x.stage /\ y.status = 0
          /\ y.gathers = x.gathers /\ y.at = x.at /\ y.err = x.err /\ y.whole = x.whole
      BY <2>1, <3>1, <1>3, <1>4 DEF Cleaned, Common
    <3>5. y = [step |-> y.step, stages |-> y.stages, stage |-> y.stage, status |-> y.status,
               gathers |-> y.gathers, at |-> y.at, err |-> y.err, whole |-> y.whole]
      BY <2>2 DEF Common
    <3>6. /\ x.stages = stages[r] /\ x.stage = stage[r] /\ x.gathers = gathers[r]
          /\ x.at = at[r] /\ x.err = err[r] /\ x.whole = whole[r]
      BY <1>1, CommonIs
    <3>7. y = w
      BY <3>2, <3>4, <3>5, <3>6
    <3> QED  BY <3>3, <3>7
  <2>5. Leads(r, LocusOf("step", y))
    <3>1. After(P("report", x), v) = P("bounds", Fresh(Cleaned(x)))
      BY <1>6, AfterIs
    <3> QED  BY <3>1, <2>1, <1>3, LocusIs
  <2>6. Fits("step", y)
    <3>1. /\ y.step = x.step + 1 /\ y.at = x.at /\ y.stage = x.stage /\ y.stages = x.stages
      BY <2>1, <1>3 DEF Cleaned, Common
    <3>2. y.step < StepMax
      BY <3>1, <1>4, <1>6 DEF LastStep
    <3> QED  BY <3>1, <3>2, <1>4 DEF Fits, Redistributing, Traversing, Gathering
  <2> QED  BY <1>4, <2>2, <2>3, <2>4, <2>5, <2>6, MovesTo
<1> QED  BY <1>5, <1>6

-------------------------------------------------------------------------------
(***************************************************************************)
(* Every step.                                                             *)
(***************************************************************************)
LEMMA StepTurns ==
    ASSUME Cleared, Typed, OnTrace, NEW r \in Rank, Step(r), ~Crash(r)
    PROVE  Turns(r)
<1>1. Frame(r)
  BY Frames
<1>2. Moves(r)
  <2>1. CASE StepBegin(r) \/ Bounds(r) \/ Rects(r) \/ Ends(r) \/ EndsLeave(r) \/ NextSet(r)
             \/ NextLeave(r)
    BY <2>1, StepBeginMoves, BoundsMoves, RectsMoves, EndsMoves, EndsLeaveMoves, NextSetMoves,
       NextLeaveMoves
  <2>2. CASE Buffer(r) \/ AnyParticle(r) \/ Counted(r) \/ Whole(r) \/ SetRoot(r) \/ New(r)
             \/ Numbers(r) \/ Types(r) \/ Data(r) \/ Failed(r)
    BY <2>2, BufferMoves, AnyParticleMoves, CountedMoves, WholeMoves, SetRootMoves, NewMoves,
       NumbersMoves, TypesMoves, DataMoves, FailedMoves
  <2>3. CASE Substeps(r) \/ SubstepsLeave(r) \/ Stage(r) \/ Walls(r) \/ Output(r)
             \/ GatherRoot(r) \/ GatherNew(r) \/ Gather(r) \/ GatherSet(r) \/ Report(r)
    BY <2>3, SubstepsMoves, SubstepsLeaveMoves, StageMoves, WallsMoves, OutputMoves,
       GatherRootMoves, GatherNewMoves, GatherMoves, GatherSetMoves, ReportMoves
  <2> QED  BY <2>1, <2>2, <2>3 DEF Step
<1> QED  BY <1>1, <1>2 DEF Turns, Moves

\* The sets a rank is given hold particles.
LEMMA GivenParticles ==
    ASSUME Typed, OnTrace, NEW r \in Rank
    PROVE  /\ Data(r) => UNION {Given(q, r)[r] : q \in Rank} \subseteq Particle
           /\ Gather(r) /\ r = Root => UNION Contributed(r) \subseteq Particle
<1>1. ASSUME Data(r) PROVE UNION {Given(q, r)[r] : q \in Rank} \subseteq Particle
  <2>1. pc[r] = "data" /\ Entered(r) /\ "data" \in Ops
    BY <1>1, LabelFacts DEF Data
  <2>2. \A q \in Rank : Given(q, r) \in [Rank -> SUBSET Particle]
    BY <2>1, InCall, AllowedIs
  <2> QED  BY <2>2
<1>2. ASSUME Gather(r), r = Root PROVE UNION Contributed(r) \subseteq Particle
  <2>1. pc[r] = "gather" /\ Entered(r) /\ "gather" \in Ops
    BY <1>2, LabelFacts DEF Gather
  <2>2. \A q \in Rank : Given(q, r) \in SUBSET Particle
    BY <2>1, InCall, AllowedIs
  <2> QED  BY <2>2 DEF Contributed
<1> QED  BY <1>1, <1>2

LEMMA ReplaceTyped ==
    ASSUME Typed, NEW r \in Rank, NEW s \in SUBSET Particle, Replace(r, s), end' = end
    PROVE  /\ sets'[r] \in Seq(SUBSET Particle) /\ end'[r] \in Nat /\ end'[r] <= Len(sets'[r])
<1>1. PICK l, a, n : l = sets[r] /\ a = at[r] /\ n = end[r]
  OBVIOUS
<1>2. l \in Seq(SUBSET Particle) /\ a \in Nat \ {0} /\ n \in Nat /\ n <= Len(l)
  BY <1>1 DEF Typed, TypeOK
<1>3. CASE AtEnd(r)
  <2>1. sets'[r] = Append(l, s)
    BY <1>1, <1>3 DEF Replace, Typed, TypeOK
  <2> QED  BY <2>1, <1>1, <1>2
<1>4. CASE ~AtEnd(r)
  <2>1. sets'[r] = [l EXCEPT ![a] = s]
    BY <1>1, <1>4 DEF Replace, Typed, TypeOK
  <2>2. a \in 1 .. Len(l)
    BY <1>1, <1>2, <1>4 DEF AtEnd
  <2>3. [l EXCEPT ![a] = s] \in Seq(SUBSET Particle)
    BY <1>2, <2>2, ExceptSeq
  <2>4. Len([l EXCEPT ![a] = s]) = Len(l)
    BY <1>2, <2>2, ExceptSeq
  <2> QED  BY <2>1, <2>3, <2>4, <1>1, <1>2
<1> QED  BY <1>3, <1>4

LEMMA StepDataTyped ==
    ASSUME Typed, OnTrace, NEW r \in Rank, Step(r)
    PROVE  /\ where' \in [Particle -> Rank \cup {Outside}]
           /\ sets'[r] \in Seq(SUBSET Particle) /\ end'[r] \in Nat /\ end'[r] <= Len(sets'[r])
           /\ kept'[r] \in Nat
<1>1. where \in [Particle -> Rank \cup {Outside}] /\ sets[r] \in Seq(SUBSET Particle)
      /\ end[r] \in Nat /\ end[r] <= Len(sets[r]) /\ end = [q \in Rank |-> end[q]]
      /\ at[r] \in Nat /\ kept[r] \in Nat /\ kept = [q \in Rank |-> kept[q]]
  BY AreFunctions DEF Typed, TypeOK, Functions
<1>2. CASE UNCHANGED <<where, sets, end, kept>>
  BY <1>1, <1>2
<1>3. CASE Move(r) /\ UNCHANGED <<sets, end, kept>>
  <2>1. where' \in [Particle -> Rank \cup {Outside}]
    <3>1. PICK to \in [Own(r) -> Rank \cup {Outside}] :
             where' = [p \in Particle |-> IF p \in Own(r) THEN to[p] ELSE where[p]]
      BY <1>3 DEF Move
    <3> QED  BY <3>1, <1>1
  <2> QED  BY <2>1, <1>1, <1>3
<1>4. CASE Begin(r) /\ UNCHANGED <<where, sets, kept>>
  <2>1. end'[r] = Len(sets[r]) /\ Len(sets[r]) \in Nat
    BY <1>1, <1>4 DEF Begin
  <2> QED  BY <2>1, <1>1, <1>4
<1>5. CASE Data(r) \/ Gather(r)
  <2>1. \/ sets' = sets
        \/ \E s \in SUBSET Particle : Replace(r, s)
    <3>1. CASE Data(r)
      BY <3>1, GivenParticles DEF Data
    <3>2. CASE Gather(r)
      BY <3>2, GivenParticles DEF Gather
    <3> QED  BY <1>5, <3>1, <3>2
  <2>2. end' = end /\ where' = where
    BY <1>5 DEF Data, Gather
  <2>3. kept'[r] \in Nat
    BY <1>1, <1>5 DEF Data, Gather
  <2> QED  BY <2>1, <2>2, <2>3, <1>1, ReplaceTyped
<1>6. \/ UNCHANGED <<where, sets, end, kept>>
      \/ Move(r) /\ UNCHANGED <<sets, end, kept>>
      \/ Begin(r) /\ UNCHANGED <<where, sets, kept>>
      \/ Data(r) \/ Gather(r)
  <2>1. CASE StepBegin(r) \/ Bounds(r) \/ Rects(r) \/ Ends(r) \/ EndsLeave(r) \/ NextSet(r)
             \/ NextLeave(r)
    BY <2>1 DEF StepBegin, Bounds, Rects, Ends, EndsLeave, NextSet, NextLeave, local
  <2>2. CASE Buffer(r) \/ AnyParticle(r) \/ Counted(r) \/ Whole(r) \/ SetRoot(r) \/ New(r)
             \/ Numbers(r) \/ Types(r) \/ Failed(r)
    BY <2>2 DEF Buffer, AnyParticle, Counted, Whole, SetRoot, New, Numbers, Types, Failed, local
  <2>3. CASE Substeps(r) \/ SubstepsLeave(r) \/ Stage(r) \/ Walls(r) \/ Output(r)
             \/ GatherRoot(r) \/ GatherNew(r) \/ GatherSet(r) \/ Report(r)
    BY <2>3 DEF Substeps, SubstepsLeave, Stage, Walls, Output, GatherRoot, GatherNew, GatherSet,
            Report, local
  <2> QED  BY <2>1, <2>2, <2>3 DEF Step
<1> QED  BY <1>2, <1>3, <1>4, <1>5, <1>6

\* The types follow from what is common to the ranks, and the data.
LEMMA TurnTyped ==
    ASSUME Typed, OnTrace, NEW r \in Rank, Step(r), Turns(r)
    PROVE  Typed'
<1>1. PICK l, y : Turn(r, l, y) /\ Frame(r)
  BY DEF Turns
<1>2. AllFit' /\ calls' \in [Rank -> Seq(Call)]
  BY TurnKeepsTrace
<1>3. ASSUME NEW q \in Rank
      PROVE  /\ pc'[q] \in Labels /\ step'[q] \in 0 .. StepMax
             /\ stages'[q] \in 0 .. StageMax /\ stage'[q] \in 0 .. StageMax
             /\ status'[q] \in Bit /\ gathers'[q] \in BOOLEAN /\ at'[q] \in Nat \ {0}
             /\ err'[q] \in Bit /\ whole'[q] \in BOOLEAN
             /\ sets'[q] \in Seq(SUBSET Particle) /\ end'[q] \in Nat
             /\ end'[q] <= Len(sets'[q]) /\ kept'[q] \in Nat
  <2>1. PICK x, c : x = X(q)' /\ c = pc'[q]
    OBVIOUS
  <2>2. x \in Common /\ c \in Labels
    <3>1. CASE q = r
      BY <3>1, <2>1, <1>1 DEF Turn
    <3>2. CASE q # r
      BY <3>2, <2>1, <1>1, OthersStay, CommonIs, PathsTyped
    <3> QED  BY <3>1, <3>2
  <2>3. /\ x.step = step'[q] /\ x.stages = stages'[q] /\ x.stage = stage'[q]
        /\ x.status = status'[q] /\ x.gathers = gathers'[q] /\ x.at = at'[q]
        /\ x.err = err'[q] /\ x.whole = whole'[q]
    BY <2>1 DEF X
  <2>4. /\ x.step <= StepMax /\ x.stage <= x.stages /\ x.stages <= StageMax /\ x.at # 0
    <3>1. Fits(pc'[q], X(q)')
      BY <1>2 DEF AllFit, Fits
    <3> QED  BY <3>1, <2>1 DEF Fits
  <2>5. /\ x.step \in Nat /\ x.stages \in Nat /\ x.stage \in Nat /\ x.status \in Bit
        /\ x.gathers \in BOOLEAN /\ x.at \in Nat /\ x.err \in Bit /\ x.whole \in BOOLEAN
        /\ StepMax \in Nat /\ StageMax \in Nat
    BY <2>2, Changed, Constants
  <2>6. /\ x.step \in 0 .. StepMax /\ x.stages \in 0 .. StageMax /\ x.stage \in 0 .. StageMax
    BY <2>4, <2>5
  <2>7. /\ sets'[q] \in Seq(SUBSET Particle) /\ end'[q] \in Nat /\ end'[q] <= Len(sets'[q])
        /\ kept'[q] \in Nat
    <3>1. CASE q = r
      BY <3>1, StepDataTyped
    <3>2. CASE q # r
      <4>1. sets'[q] = sets[q] /\ end'[q] = end[q] /\ kept'[q] = kept[q]
        BY <3>2, <1>1 DEF Frame, Keeps
      <4> QED  BY <4>1 DEF Typed, TypeOK
    <3> QED  BY <3>1, <3>2
  <2> QED  BY <2>1, <2>2, <2>3, <2>4, <2>5, <2>6, <2>7
<1>4. /\ pc' = [q \in Rank |-> pc'[q]] /\ sets' = [q \in Rank |-> sets'[q]]
      /\ end' = [q \in Rank |-> end'[q]] /\ step' = [q \in Rank |-> step'[q]]
      /\ stages' = [q \in Rank |-> stages'[q]] /\ stage' = [q \in Rank |-> stage'[q]]
      /\ status' = [q \in Rank |-> status'[q]] /\ gathers' = [q \in Rank |-> gathers'[q]]
      /\ at' = [q \in Rank |-> at'[q]] /\ err' = [q \in Rank |-> err'[q]]
      /\ whole' = [q \in Rank |-> whole'[q]] /\ kept' = [q \in Rank |-> kept'[q]]
  BY <1>1 DEF Frame, Keeps
<1>5. where' \in [Particle -> Rank \cup {Outside}]
  BY StepDataTyped
<1>6. /\ pc' \in [Rank -> Labels] /\ sets' \in [Rank -> Seq(SUBSET Particle)]
      /\ kept' \in [Rank -> Nat] /\ end' \in [Rank -> Nat] /\ at' \in [Rank -> Nat \ {0}]
  BY <1>3, <1>4
<1>7. /\ step' \in [Rank -> 0 .. StepMax]
      /\ stages' \in [Rank -> 0 .. StageMax] /\ stage' \in [Rank -> 0 .. StageMax]
  BY <1>3, <1>4
<1>8. /\ status' \in [Rank -> Bit] /\ err' \in [Rank -> Bit]
      /\ gathers' \in [Rank -> BOOLEAN] /\ whole' \in [Rank -> BOOLEAN]
  BY <1>3, <1>4
<1>9. TypeOK'
  BY <1>3, <1>5, <1>6, <1>7, <1>8 DEF TypeOK, Labels, Ops, Halted, Bit
<1> QED  BY <1>2, <1>9 DEF Typed, AllFit, Call, Value, Ops

\* Nothing happens.
LEMMA CourseStutters == Course /\ UNCHANGED vars => Course'
<1> SUFFICES ASSUME Course, UNCHANGED vars PROVE Course'
  OBVIOUS
<1>1. /\ calls' = calls /\ pc' = pc /\ where' = where /\ sets' = sets /\ at' = at /\ end' = end
      /\ kept' = kept /\ whole' = whole /\ err' = err /\ stages' = stages /\ stage' = stage
      /\ gathers' = gathers /\ status' = status /\ step' = step
  BY DEF vars, local
<1>2. TypeOK' /\ Matched' = Matched
  BY <1>1 DEF Course, Typed, TypeOK, Matched
<1>3. \A r \in Rank : X(r)' = X(r)
  BY <1>1 DEF X
<1>4. AllFit' /\ Loci' = Loci /\ Inside' = Inside
  BY <1>1, <1>3 DEF Course, Typed, AllFit, Fits, Loci, Inside
<1>5. Typed' /\ Cleared'
  BY <1>1, <1>2, <1>4 DEF Course, Typed, Cleared, Call, Value
<1>6. OnTrace => OnTrace'
  BY <1>1, <1>4 DEF OnTrace
<1>7. Crashed => Crashed'
  BY <1>1, <1>2 DEF Crashed
<1> QED  BY <1>5, <1>6, <1>7 DEF Course

\* The ranks on one trace enter the same calls.
LEMMA TraceMatched ==
    ASSUME Typed, OnTrace
    PROVE  Matched
<1> SUFFICES ASSUME NEW q \in Rank, NEW r \in Rank, NEW k \in 1 .. Len(calls[q]),
                    k <= Len(calls[r])
             PROVE  calls[q][k].op = calls[r][k].op
  BY DEF Matched
<1>1. calls \in T!Lists(Call)
  BY PathsTyped
<1> QED  BY <1>1, T!TogetherMatches DEF OnTrace

\* When the program is stopped by the wrong pointer, the calls stay as they are.
LEMMA CrashIsOver ==
    ASSUME Course, OnTrace, NEW r \in Rank, Crash(r)
    PROVE  Course'
<1>1. /\ pc' = [q \in Rank |-> "crashed"] /\ calls' = calls /\ where' = where /\ sets' = sets
      /\ at' = at /\ end' = end /\ whole' = whole /\ stages' = stages /\ stage' = stage
      /\ gathers' = gathers /\ status' = status /\ step' = step /\ kept' = kept
      /\ err' = [err EXCEPT ![r] = 1]
  BY DEF Crash, Failed, Code
<1>2. "crashed" \in Halted /\ "crashed" \in Labels
  BY DEF Halted, Labels
<1>3. TypeOK'
  <2>1. err' \in [Rank -> Bit] /\ pc' \in [Rank -> Labels]
    BY <1>1, <1>2 DEF Course, Typed, TypeOK, Bit
  <2> QED  BY <1>1, <2>1 DEF Course, Typed, TypeOK
<1>4. AllFit'
  <2>1. ASSUME NEW q \in Rank PROVE Fits(pc'[q], X(q)')
    <3>1. Fits(pc[q], X(q)) /\ X(q) \in Common
      BY CommonIs DEF Course, Typed, AllFit
    <3>2. PICK x, y : x = X(q) /\ y = X(q)'
      OBVIOUS
    <3>3. /\ y.step = x.step /\ y.at = x.at /\ y.stage = x.stage /\ y.stages = x.stages
      BY <1>1, <3>2 DEF X
    <3>4. pc'[q] = "crashed"
      BY <1>1
    <3>5. Fits("crashed", y)
      BY <3>1, <3>2, <3>3, <1>2 DEF Fits, Redistributing, Traversing, Gathering
    <3> QED  BY <3>2, <3>4, <3>5
  <2> QED  BY <2>1 DEF AllFit, Fits
<1>5. Matched'
  BY <1>1, TraceMatched DEF Matched, Course
<1>6. Typed' /\ Cleared'
  BY <1>1, <1>3, <1>4 DEF Course, Typed, Cleared, Call, Value
<1> QED  BY <1>1, <1>5, <1>6 DEF Course, Crashed

LEMMA CrashedIsOver ==
    ASSUME Crashed, NEW r \in Rank
    PROVE  ~Step(r)
<1>1. pc[r] = "crashed"
  BY DEF Crashed
<1>2. ~(StepBegin(r) \/ Bounds(r) \/ Rects(r) \/ Ends(r) \/ EndsLeave(r) \/ NextSet(r)
           \/ NextLeave(r) \/ Buffer(r) \/ AnyParticle(r) \/ Counted(r) \/ Whole(r)
           \/ SetRoot(r) \/ New(r) \/ Numbers(r))
  BY <1>1 DEF StepBegin, Bounds, Rects, Ends, EndsLeave, NextSet, NextLeave, Buffer,
          AnyParticle, Counted, Whole, SetRoot, New, Numbers
<1>3. ~(Types(r) \/ Data(r) \/ Failed(r) \/ Substeps(r) \/ SubstepsLeave(r) \/ Stage(r)
           \/ Walls(r) \/ Output(r) \/ GatherRoot(r) \/ GatherNew(r) \/ Gather(r)
           \/ GatherSet(r) \/ Report(r))
  BY <1>1 DEF Types, Data, Failed, Substeps, SubstepsLeave, Stage, Walls, Integrates, Output,
          GatherRoot, GatherNew, Gather, GatherSet, Report
<1> QED  BY <1>2, <1>3 DEF Step

LEMMA CourseStep ==
    ASSUME Course, NEW r \in Rank, Step(r)
    PROVE  Course'
<1>1. CASE OnTrace /\ ~Crash(r)
  <2>1. Turns(r)
    BY <1>1, StepTurns DEF Course
  <2>2. OnTrace' /\ Typed'
    BY <1>1, <2>1, TurnKeepsTrace, TurnTyped DEF Course
  <2> QED  BY <2>2 DEF Course, Cleared
<1>2. CASE OnTrace /\ Crash(r)
  BY <1>2, CrashIsOver
<1>3. CASE Crashed
  BY <1>3, CrashedIsOver
<1> QED  BY <1>1, <1>2, <1>3 DEF Course

LEMMA CourseNext == Course /\ [Next]_vars => Course'
BY CourseStep, CourseStutters DEF Next, Over

LEMMA InitCourse == Cleared /\ Init => Course
<1> SUFFICES ASSUME Cleared, Init PROVE Course
  OBVIOUS
<1>1. StepMax \in Nat \ {0} /\ StageMax \in Nat \ {0}
  BY Constants
<1>2. status = [r \in Rank |-> 0]
  <2>1. status \in [Rank -> {0}]
    BY DEF Init, Cleared
  <2> QED  BY <2>1
<1>3. "step" \in Labels /\ "step" \notin Ops /\ "step" \notin Halted
  BY LabelFacts
<1>4. TypeOK
  <2>1. sets \in [Rank -> Seq(SUBSET Particle)]
    BY ParticleBounds DEF Init
  <2>2. /\ pc \in [Rank -> Labels] /\ where \in [Particle -> Rank \cup {Outside}]
        /\ at \in [Rank -> Nat \ {0}] /\ end \in [Rank -> Nat] /\ kept \in [Rank -> Nat]
    BY <1>3 DEF Init
  <2>3. /\ whole \in [Rank -> BOOLEAN] /\ gathers \in [Rank -> BOOLEAN]
        /\ err \in [Rank -> Bit] /\ status \in [Rank -> Bit]
    BY <1>2 DEF Init, Bit
  <2>4. /\ stages \in [Rank -> 0 .. StageMax] /\ stage \in [Rank -> 0 .. StageMax]
        /\ step \in [Rank -> 0 .. StepMax]
    BY <1>1 DEF Init
  <2>5. ASSUME NEW r \in Rank
        PROVE  end[r] <= Len(sets[r])
    <3>1. sets[r] \in Seq(SUBSET Particle)
      BY <2>1
    <3>2. Len(sets[r]) \in Nat
      BY <3>1
    <3>3. end[r] = 0
      BY DEF Init
    <3> QED  BY <3>2, <3>3
  <2> QED  BY <2>1, <2>2, <2>3, <2>4, <2>5 DEF TypeOK
<1>5. PICK x : x = [step |-> 0, stages |-> 0, stage |-> 0, status |-> 0, gathers |-> FALSE,
                    at |-> 1, err |-> 0, whole |-> FALSE]
  OBVIOUS
<1>6. \A r \in Rank : pc[r] = "step" /\ calls[r] = <<>> /\ X(r) = x
  BY <1>2, <1>5 DEF Init, NoCalls, X
<1>7. AllFit
  <2>1. Fits("step", x)
    BY <1>1, <1>3, <1>5 DEF Fits, Redistributing, Traversing, Gathering
  <2> QED  BY <1>6, <2>1 DEF AllFit
<1>8. Typed
  <2>1. calls \in [Rank -> Seq(Call)]
    BY DEF Init, NoCalls
  <2> QED  BY <2>1, <1>4, <1>7 DEF Typed
<1>9. OnTrace
  <2>1. PICK p : p = LocusOf("step", x)
    OBVIOUS
  <2>2. p \in Place
    <3>1. x \in Common
      BY <1>5 DEF Common, Bit
    <3> QED  BY <2>1, <3>1, <1>3, LocusTyped
  <2>3. \A r \in Rank : calls[r] = <<>> /\ ~Inside[r] /\ Loci[r] = p
    BY <1>3, <1>6, <2>1 DEF Inside, Loci
  <2> QED  BY <2>2, <2>3, T!TogetherStarts DEF OnTrace
<1> QED  BY <1>8, <1>9 DEF Course

LEMMA CourseAlways == Cleared => (Spec => []Course)
BY InitCourse, CourseNext, PTL DEF Spec

\* Whatever allocation fails and whatever sets the ranks have, the error codes, the counters
\* of the stages and the position in the list of sets keep to their types, and no rank takes
\* a set behind the end of its list.
THEOREM StepsTyped == Cleared => (Spec => []TypeOK)
<1>1. Course => TypeOK
  BY DEF Course, Typed
<1> QED  BY <1>1, CourseAlways, PTL

\* The ranks enter the same collectives in the same order through all the time steps, also
\* when an allocation fails on one of them and when they have different numbers of sets, if
\* each step begins with a clear status on every rank.
THEOREM StepCallsMatch == Cleared => (Spec => []CollectivesMatch)
<1>1. Course => CollectivesMatch
  BY TraceMatched DEF Course, Crashed, CollectivesMatch
<1> QED  BY <1>1, CourseAlways, PTL


(***************************************************************************)
(* Where the particles are.  No particle is lost or doubled, and no rank   *)
(* integrates one that is not its own.                                     *)
(*                                                                         *)
(* A particle changes hands in two calls only, the exchange of the data    *)
(* and the gathering.  The first part has put all ranks on one trace: what *)
(* the other ranks may be doing while one of them is in such a call is     *)
(* read from there.                                                        *)
(***************************************************************************)

\* What rank r contributed to the last call that it has entered.
Gave(r) == calls[r][Len(calls[r])].value

\* Labels in which the set at the position has not been replaced, and in which it may have been.
Unfilled == {"traverse", "ends", "next", "buffer", "any", "counts", "whole", "root", "new",
             "numbers", "numbers_sizes", "types", "data", "failed",
             "gather_root", "gather_new", "gather"}

Filled == {"advance", "gather_set"}

\* The rank has as many sets as it had when the traversal began, until it gets behind the
\* end; from then on it has at most one for each position.
Filling ==
    \A r \in Rank :
        /\ pc[r] \in Unfilled => IF AtEnd(r) THEN Len(sets[r]) < at[r]
                                            ELSE Len(sets[r]) = end[r]
        /\ pc[r] \in Filled   => IF AtEnd(r) THEN Len(sets[r]) <= at[r]
                                            ELSE Len(sets[r]) = end[r]

\* What a rank contributes to the exchanges is what it has.
Sending ==
    \A r \in Rank :
        /\ pc[r] = "data" /\ ~Entered(r) => Gave(r) = Outgoing(r)
        /\ pc[r] = "gather" => Gave(r) = Has(r)

\* Rank 0 leaves MPI_Gatherv() when all the ranks have entered it.
RootIsLast ==
    pc[Root] = "gather_set" => \A q \in Rank : Len(calls[q]) >= Len(calls[Root]) - 1

\* A rank keeps a set that rank 0 has gathered only while it gives up.
KeptLabels == {"gather_set", "advance", "next", "report"} \cup Halted

KeptAt(r) ==
    kept[r] # 0 =>
        /\ r # Root
        /\ \/ pc[r] = "gather_set" /\ Gave(r) = 1
           \/ pc[r] = "advance" /\ err[r] = 1 /\ gathers[r]
           \/ pc[r] = "next" /\ Gave(r) = 1 /\ gathers[r]
           \/ pc[r] = "report" /\ Gave(r) = 1
           \/ pc[r] \in Halted

Keeping == \A r \in Rank : KeptAt(r)

Placing == PlacedOnce /\ Filling /\ Sending /\ RootIsLast /\ Keeping

\* The particles of a set are in the subdomain of the rank.
Homed(r, k)   == \A p \in sets[r][k] : where[p] = r
HomedTo(r, n) == \A k \in 1 .. Len(sets[r]) : k < n => Homed(r, k)

\* The labels in which the sets before the one at hand are done.
Sweeping == {"traverse", "ends", "buffer", "any", "counts", "whole", "root", "new",
             "numbers", "numbers_sizes", "types", "data"}

Swept(r) ==
    ~gathers[r] =>
        /\ pc[r] \in Sweeping => HomedTo(r, at[r])
        /\ pc[r] = "advance" /\ err[r] = 0 => HomedTo(r, at[r] + 1)
        /\ pc[r] = "next" /\ err[r] = 0 => HomedTo(r, at[r])

\* A rank that may integrate has all its sets done.
Ready(r) ==
    \/ pc[r] = "substeps"
    \/ pc[r] = "stage" /\ (stages[r] = 0 \/ Integrates(r))

Reporting(r) ==
    /\ pc[r] = "ends" => Gave(r) = IF AtEnd(r) THEN 0 ELSE 1
    /\ pc[r] = "any"  => Gave(r) = IF Has(r) = {} THEN 0 ELSE 1

Homes(r) ==
    /\ Swept(r)
    /\ Ready(r) => \A k \in 1 .. Len(sets[r]) : Homed(r, k)
    /\ Exchanged(r) => \A p \in Incoming(r) : where[p] = r
    /\ Reporting(r)

Homing == \A r \in Rank : Homes(r)

-------------------------------------------------------------------------------
(***************************************************************************)
(* What the others do while a rank is in one of the exchanges.             *)
(***************************************************************************)
LEMMA OpOfPlace == ASSUME NEW op, NEW x PROVE P(op, x).op = op /\ P(op, x).x = x
BY DEF P

LEMMA OutwardOps ==
    ASSUME NEW x, NEW e
    PROVE  /\ OutputPlace(x).op \in {"ends", "report"}
           /\ StagePlace(x).op \in {"ends", "report", "substeps", "bounds"}
           /\ BackPlace(x, e).op \in {"ends", "report", "substeps", "bounds"}
           /\ SetDone(x, e).op = "next"
<1>1. \A y : OutputPlace(y).op \in {"ends", "report"}
  BY DEF OutputPlace, P
<1>2. \A y : StagePlace(y).op \in {"ends", "report", "substeps", "bounds"}
  BY <1>1 DEF StagePlace, P
<1>3. BackPlace(x, e).op \in {"ends", "report", "substeps", "bounds"}
  BY <1>1, <1>2 DEF BackPlace
<1>4. SetDone(x, e).op = "next"
  BY DEF SetDone, P
<1> QED  BY <1>1, <1>2, <1>3, <1>4

\* The place of a rank that is in no call.
LEMMA OutsideOps ==
    ASSUME Typed, NEW r \in Rank, pc[r] \notin Ops
    PROVE  /\ Loci[r].op \in {"bounds", "ends", "next", "substeps", "report", "none"}
           /\ Loci[r].op = "next" => pc[r] \in {"advance", "failed"}
           /\ pc[r] = "failed" => Loci[r].x.err = 1 /\ ~Loci[r].x.gathers
<1>1. PICK l, x : l = pc[r] /\ x = X(r)
  OBVIOUS
<1>2. l \in Labels \ Ops /\ x \in Common /\ Loci[r] = LocusOf(l, x) /\ Fits(l, x)
  BY <1>1, CommonIs, PathsTyped DEF Typed, AllFit
<1>3. CASE l = "step"
  <2>1. LocusOf("step", x) = P("bounds", Fresh(x))
    BY LocusIs
  <2>2. Loci[r] = P("bounds", Fresh(x))
    BY <1>2, <1>3, <2>1
  <2> QED  BY <1>1, <1>3, <2>2, OpOfPlace
<1>4. CASE l = "traverse"
  <2>1. LocusOf("traverse", x) = P("ends", x)
    BY LocusIs
  <2>2. Loci[r] = P("ends", x)
    BY <1>2, <1>4, <2>1
  <2> QED  BY <1>1, <1>4, <2>2, OpOfPlace
<1>5. CASE l = "advance"
  <2>1. LocusOf("advance", x) = SetDone(x, x.err)
    BY LocusIs
  <2>2. Loci[r] = SetDone(x, x.err)
    BY <1>2, <1>5, <2>1
  <2> QED  BY <1>1, <1>5, <2>2, OutwardOps
<1>6. CASE l = "failed"
  <2>1. LocusOf("failed", x) = SetDone(x, 1)
    BY LocusIs
  <2>2. Loci[r] = SetDone(x, 1)
    BY <1>2, <1>6, <2>1
  <2>3. SetDone(x, 1).x = [x EXCEPT !.at = @ + 1, !.err = 1]
    BY OpOfPlace DEF SetDone
  <2>4. Loci[r].x.err = 1 /\ Loci[r].x.gathers = x.gathers
    BY <1>2, <2>2, <2>3 DEF Common
  <2>5. ~x.gathers
    BY <1>2, <1>6 DEF Fits, Redistributing
  <2> QED  BY <1>1, <1>6, <2>2, <2>4, <2>5, OutwardOps
<1>7. CASE l = "stage"
  <2>1. LocusOf("stage", x) = StagePlace(x)
    BY LocusIs
  <2>2. Loci[r] = StagePlace(x)
    BY <1>2, <1>7, <2>1
  <2> QED  BY <1>1, <1>7, <2>2, OutwardOps
<1>8. CASE l = "output"
  <2>1. LocusOf("output", x) = OutputPlace(x)
    BY LocusIs
  <2>2. Loci[r] = OutputPlace(x)
    BY <1>2, <1>8, <2>1
  <2> QED  BY <1>1, <1>8, <2>2, OutwardOps
<1>9. CASE l \in Halted
  <2>1. LocusOf(l, x) = P("none", x)
    BY <1>9, LocusIs
  <2>2. Loci[r].op = "none"
    BY <1>2, <2>1, OpOfPlace
  <2> QED  BY <1>1, <1>9, <2>2, LabelFacts
<1> QED  BY <1>2, <1>3, <1>4, <1>5, <1>6, <1>7, <1>8, <1>9 DEF Labels

LEMMA PlaceIs ==
    ASSUME NEW p \in Place
    PROVE  p = P(p.op, p.x) /\ p.op \in Ops \cup {"none"} /\ p.x \in Common
BY DEF Place, P

\* The calls before the exchanges.
LEMMA CallBefore ==
    ASSUME NEW p \in Place, NEW v
    PROVE  /\ After(p, v).op = "data" => p.op = "types"
           /\ After(p, v).op = "gather" => p.op = "gather_new"
           /\ After(p, v).op = "gather_set" => p.op = "gather"
<1>1. PICK l, x, a : l = p.op /\ x = p.x /\ a = After(p, v)
  OBVIOUS
<1>2. p = P(l, x) /\ l \in Ops \cup {"none"} /\ x \in Common
  BY <1>1, PlaceIs
<1> DEFINE Goal == /\ a.op = "data" => l = "types"
                   /\ a.op = "gather" => l = "gather_new"
                   /\ a.op = "gather_set" => l = "gather"
<1> SUFFICES Goal
  BY <1>1
<1> HIDE DEF Goal
<1>3. CASE l = "bounds"
  <2>1. After(P("bounds", x), v) =
           (IF v = 1 THEN BackPlace(x, 1) ELSE P("rects", x))
    BY AfterIs
  <2>2. p = P("bounds", x)
    BY <1>2, <1>3
  <2>3. a =
           (IF v = 1 THEN BackPlace(x, 1) ELSE P("rects", x))
    BY <1>1, <2>1, <2>2
  <2> QED  BY <2>3, <1>3, OpOfPlace, OutwardOps DEF Goal
<1>4. CASE l = "rects"
  <2>1. After(P("rects", x), v) =
           (P("ends", AtFirst(x)))
    BY AfterIs
  <2>2. p = P("rects", x)
    BY <1>2, <1>4
  <2>3. a =
           (P("ends", AtFirst(x)))
    BY <1>1, <2>1, <2>2
  <2> QED  BY <2>3, <1>4, OpOfPlace, OutwardOps DEF Goal
<1>5. CASE l = "ends"
  <2>1. After(P("ends", x), v) =
           (IF v = 0 THEN IF x.gathers THEN P("report", x) ELSE BackPlace(x, 0)
              ELSE IF x.gathers THEN P("gather_root", x)
              ELSE IF x.at > 1 THEN P("any", x) ELSE P("buffer", x))
    BY AfterIs
  <2>2. p = P("ends", x)
    BY <1>2, <1>5
  <2>3. a =
           (IF v = 0 THEN IF x.gathers THEN P("report", x) ELSE BackPlace(x, 0)
              ELSE IF x.gathers THEN P("gather_root", x)
              ELSE IF x.at > 1 THEN P("any", x) ELSE P("buffer", x))
    BY <1>1, <2>1, <2>2
  <2> QED  BY <2>3, <1>5, OpOfPlace, OutwardOps DEF Goal
<1>6. CASE l = "next"
  <2>1. After(P("next", x), v) =
           (IF v = 0 THEN P("ends", x)
              ELSE IF x.gathers THEN P("report", WithFailure(x))
              ELSE BackPlace(x, x.err))
    BY AfterIs
  <2>2. p = P("next", x)
    BY <1>2, <1>6
  <2>3. a =
           (IF v = 0 THEN P("ends", x)
              ELSE IF x.gathers THEN P("report", WithFailure(x))
              ELSE BackPlace(x, x.err))
    BY <1>1, <2>1, <2>2
  <2> QED  BY <2>3, <1>6, OpOfPlace, OutwardOps DEF Goal
<1>7. CASE l = "buffer"
  <2>1. After(P("buffer", x), v) =
           (IF v = 1 THEN SetDone(x, 1) ELSE P("any", x))
    BY AfterIs
  <2>2. p = P("buffer", x)
    BY <1>2, <1>7
  <2>3. a =
           (IF v = 1 THEN SetDone(x, 1) ELSE P("any", x))
    BY <1>1, <2>1, <2>2
  <2> QED  BY <2>3, <1>7, OpOfPlace, OutwardOps DEF Goal
<1>8. CASE l = "any"
  <2>1. After(P("any", x), v) =
           (IF v = 0 THEN SetDone(x, x.err) ELSE P("counts", x))
    BY AfterIs
  <2>2. p = P("any", x)
    BY <1>2, <1>8
  <2>3. a =
           (IF v = 0 THEN SetDone(x, x.err) ELSE P("counts", x))
    BY <1>1, <2>1, <2>2
  <2> QED  BY <2>3, <1>8, OpOfPlace, OutwardOps DEF Goal
<1>9. CASE l = "counts"
  <2>1. After(P("counts", x), v) =
           (IF v = 1 THEN SetDone(x, 1) ELSE P("whole", x))
    BY AfterIs
  <2>2. p = P("counts", x)
    BY <1>2, <1>9
  <2>3. a =
           (IF v = 1 THEN SetDone(x, 1) ELSE P("whole", x))
    BY <1>1, <2>1, <2>2
  <2> QED  BY <2>3, <1>9, OpOfPlace, OutwardOps DEF Goal
<1>10. CASE l = "whole"
  <2>1. After(P("whole", x), v) =
           (IF v = 1 THEN P("root", EachHas(x, FALSE))
              ELSE P("new", EachHas(x, TRUE)))
    BY AfterIs
  <2>2. p = P("whole", x)
    BY <1>2, <1>10
  <2>3. a =
           (IF v = 1 THEN P("root", EachHas(x, FALSE))
              ELSE P("new", EachHas(x, TRUE)))
    BY <1>1, <2>1, <2>2
  <2>4. a.op \in {"root", "new"}
    BY <2>3, OpOfPlace
  <2> QED  BY <2>4 DEF Goal
<1>11. CASE l = "root"
  <2>1. After(P("root", x), v) =
           (P("new", x))
    BY AfterIs
  <2>2. p = P("root", x)
    BY <1>2, <1>11
  <2>3. a =
           (P("new", x))
    BY <1>1, <2>1, <2>2
  <2> QED  BY <2>3, <1>11, OpOfPlace, OutwardOps DEF Goal
<1>12. CASE l = "new"
  <2>1. After(P("new", x), v) =
           (IF v = 1 THEN SetDone(x, 1)
              ELSE P(IF x.whole THEN "numbers" ELSE "numbers_sizes", x))
    BY AfterIs
  <2>2. p = P("new", x)
    BY <1>2, <1>12
  <2>3. a =
           (IF v = 1 THEN SetDone(x, 1)
              ELSE P(IF x.whole THEN "numbers" ELSE "numbers_sizes", x))
    BY <1>1, <2>1, <2>2
  <2> QED  BY <2>3, <1>12, OpOfPlace, OutwardOps DEF Goal
<1>13. CASE l = "numbers"
  <2>1. After(P("numbers", x), v) =
           (P("types", x))
    BY AfterIs
  <2>2. p = P("numbers", x)
    BY <1>2, <1>13
  <2>3. a =
           (P("types", x))
    BY <1>1, <2>1, <2>2
  <2> QED  BY <2>3, <1>13, OpOfPlace, OutwardOps DEF Goal
<1>14. CASE l = "numbers_sizes"
  <2>1. After(P("numbers_sizes", x), v) =
           (P("types", x))
    BY AfterIs
  <2>2. p = P("numbers_sizes", x)
    BY <1>2, <1>14
  <2>3. a =
           (P("types", x))
    BY <1>1, <2>1, <2>2
  <2> QED  BY <2>3, <1>14, OpOfPlace, OutwardOps DEF Goal
<1>15. CASE l = "types"
  <2>1. After(P("types", x), v) =
           (IF v = 1 THEN SetDone(x, 1) ELSE P("data", x))
    BY AfterIs
  <2>2. p = P("types", x)
    BY <1>2, <1>15
  <2>3. a =
           (IF v = 1 THEN SetDone(x, 1) ELSE P("data", x))
    BY <1>1, <2>1, <2>2
  <2> QED  BY <2>3, <1>15, OpOfPlace, OutwardOps DEF Goal
<1>16. CASE l = "data"
  <2>1. After(P("data", x), v) =
           (SetDone(x, 0))
    BY AfterIs
  <2>2. p = P("data", x)
    BY <1>2, <1>16
  <2>3. a =
           (SetDone(x, 0))
    BY <1>1, <2>1, <2>2
  <2> QED  BY <2>3, <1>16, OpOfPlace, OutwardOps DEF Goal
<1>17. CASE l = "gather_root"
  <2>1. After(P("gather_root", x), v) =
           (P("gather_new", x))
    BY AfterIs
  <2>2. p = P("gather_root", x)
    BY <1>2, <1>17
  <2>3. a =
           (P("gather_new", x))
    BY <1>1, <2>1, <2>2
  <2> QED  BY <2>3, <1>17, OpOfPlace, OutwardOps DEF Goal
<1>18. CASE l = "gather_new"
  <2>1. After(P("gather_new", x), v) =
           (IF v = 1 THEN SetDone(x, 1) ELSE P("gather", x))
    BY AfterIs
  <2>2. p = P("gather_new", x)
    BY <1>2, <1>18
  <2>3. a =
           (IF v = 1 THEN SetDone(x, 1) ELSE P("gather", x))
    BY <1>1, <2>1, <2>2
  <2> QED  BY <2>3, <1>18, OpOfPlace, OutwardOps DEF Goal
<1>19. CASE l = "gather"
  <2>1. After(P("gather", x), v) =
           (P("gather_set", x))
    BY AfterIs
  <2>2. p = P("gather", x)
    BY <1>2, <1>19
  <2>3. a =
           (P("gather_set", x))
    BY <1>1, <2>1, <2>2
  <2> QED  BY <2>3, <1>19, OpOfPlace, OutwardOps DEF Goal
<1>20. CASE l = "gather_set"
  <2>1. After(P("gather_set", x), v) =
           (IF v = 1 THEN SetDone(x, 1) ELSE SetDone(x, 0))
    BY AfterIs
  <2>2. p = P("gather_set", x)
    BY <1>2, <1>20
  <2>3. a =
           (IF v = 1 THEN SetDone(x, 1) ELSE SetDone(x, 0))
    BY <1>1, <2>1, <2>2
  <2> QED  BY <2>3, <1>20, OpOfPlace, OutwardOps DEF Goal
<1>21. CASE l = "substeps"
  <2>1. After(P("substeps", x), v) =
           (StagePlace(WithStages(x, v)))
    BY AfterSubsteps
  <2>2. p = P("substeps", x)
    BY <1>2, <1>21
  <2>3. a =
           (StagePlace(WithStages(x, v)))
    BY <1>1, <2>1, <2>2
  <2> QED  BY <2>3, <1>21, OpOfPlace, OutwardOps DEF Goal
<1>22. CASE l \in {"report", "none"}
  <2>1. a.op \in {"none", "bounds"}
    <3>1. CASE p.op = "none"
      BY <1>1, <3>1, OpOfPlace DEF After
    <3>2. CASE p.op = "report"
      BY <1>1, <3>2, OpOfPlace DEF After
    <3> QED  BY <1>1, <1>22, <3>1, <3>2
  <2> QED  BY <2>1, <1>22 DEF Goal
<1> QED  BY <1>2, <1>3, <1>4, <1>5, <1>6, <1>7, <1>8, <1>9, <1>10, <1>11, <1>12,
            <1>13, <1>14, <1>15, <1>16, <1>17, <1>18, <1>19, <1>20, <1>21, <1>22 DEF Ops

-------------------------------------------------------------------------------
LEMMA Waited ==
    ASSUME NEW p \in Place, p.op \notin {"gather", "gather_root"}, NEW r
    PROVE  T!Needs(p, r)
BY DEF T!Needs, How

\* The position of a rank on the trace.
Stand(r) == IF pc[r] \in Ops THEN Len(calls[r]) ELSE Len(calls[r]) + 1

LEMMA StandIs ==
    ASSUME Typed, NEW r \in Rank
    PROVE  /\ Len(calls[r]) \in Nat /\ T!At(calls, Inside, r) = Stand(r)
           /\ Stand(r) \in Nat /\ Loci[r] \in Place
           /\ pc[r] \in Ops => Loci[r] = P(pc[r], X(r)) /\ Loci[r].op = pc[r]
<1>1. calls[r] \in Seq(Call)
  BY DEF Typed
<1>2. Len(calls[r]) \in Nat
  BY <1>1
<1>3. Inside[r] <=> pc[r] \in Ops
  BY PathsTyped
<1>4. T!At(calls, Inside, r) = Stand(r)
  BY <1>3 DEF T!At, Stand
<1>5. Loci[r] \in Place
  BY PathsTyped DEF T!Paths
<1>6. pc[r] \in Ops => Loci[r] = P(pc[r], X(r))
  BY PathsTyped, LocusIs
<1> QED  BY <1>2, <1>4, <1>5, <1>6, OpOfPlace DEF Stand

LEMMA Neighbours ==
    ASSUME Typed, OnTrace, NEW q \in Rank, pc[q] \in Ops, NEW r \in Rank
    PROVE  \/ Stand(r) = Len(calls[q]) /\ Loci[r] = Loci[q]
           \/ /\ Stand(r) < Len(calls[q])
              /\ T!Needs(Loci[r], r) => pc[r] \in Ops
              /\ \E p \in Place : \E v :
                    /\ Loci[q] = After(p, v)
                    /\ Stand(r) = Len(calls[q]) - 1 => Loci[r] = p
                    /\ T!Needs(p, r) => pc[r] \in Ops /\ Stand(r) = Len(calls[q]) - 1
           \/ /\ Stand(r) > Len(calls[q])
              /\ \E p \in Place :
                    /\ p = Beyond(q)
                    /\ Stand(r) = Len(calls[q]) + 1 => Loci[r] = p
                    /\ T!Needs(p, q) => Stand(r) = Len(calls[q]) + 1
<1>1. calls \in T!Lists(Call) /\ Inside[q] /\ (Inside[r] <=> pc[r] \in Ops)
  BY PathsTyped
<1>2. T!Together(calls, Inside, Loci, Says)
  BY DEF OnTrace
<1>3. PICK j : j = T!At(calls, Inside, r)
  OBVIOUS
<1>4. \/ j = Len(calls[q]) /\ Loci[r] = Loci[q]
      \/ /\ j < Len(calls[q])
         /\ T!Needs(Loci[r], r) => Inside[r]
         /\ \E p \in Place : \E v :
               /\ Loci[q] = After(p, v)
               /\ j = Len(calls[q]) - 1 => Loci[r] = p
               /\ T!Needs(p, r) => Inside[r] /\ j = Len(calls[q]) - 1
      \/ /\ j > Len(calls[q])
         /\ \E p \in Place :
               /\ p = After(Loci[q], T!Result(Loci[q], calls, Len(calls[q])))
               /\ j = Len(calls[q]) + 1 => Loci[r] = p
               /\ T!Needs(p, q) => j = Len(calls[q]) + 1
  BY <1>1, <1>2, <1>3, T!Beside
<1>5. j = Stand(r)
  BY <1>3, StandIs
<1>6. Beyond(q) = After(Loci[q], T!Result(Loci[q], calls, Len(calls[q])))
  BY DEF Beyond
<1> QED  BY <1>1, <1>4, <1>5, <1>6

\* Behind the exchange or the gathering.
LEMMA AfterSet ==
    ASSUME Typed, OnTrace, NEW q \in Rank, pc[q] \in {"data", "gather_set"}, NEW r \in Rank,
           Stand(r) > Len(calls[q])
    PROVE  \/ pc[r] = "advance" /\ Len(calls[r]) = Len(calls[q])
           \/ pc[r] = "next" /\ Len(calls[r]) = Len(calls[q]) + 1
<1>1. PICK x : x = X(q)
  OBVIOUS
<1>2. pc[q] \in Ops
  BY LabelFacts
<1>3. /\ x \in Common /\ Loci[q] = P(pc[q], x) /\ Len(calls[q]) \in Nat /\ Len(calls[r]) \in Nat
      /\ Fits(pc[q], x)
  BY <1>1, <1>2, CommonIs, StandIs DEF Typed, AllFit
<1>4. ~(Stand(r) < Len(calls[q])) /\ Stand(r) # Len(calls[q])
  BY <1>3, StandIs
<1>5. PICK p, v : /\ p \in Place
                  /\ p = After(Loci[q], v)
                  /\ Stand(r) = Len(calls[q]) + 1 => Loci[r] = p
                  /\ T!Needs(p, q) => Stand(r) = Len(calls[q]) + 1
  BY <1>2, <1>4, Neighbours DEF Beyond
<1>6. PICK e : p = SetDone(x, e) /\ (pc[q] = "data" => e = 0)
  <2>1. CASE pc[q] = "data"
    <3>1. After(P("data", x), v) = SetDone(x, 0)
      BY AfterIs
    <3> QED  BY <2>1, <3>1, <1>3, <1>5
  <2>2. CASE pc[q] = "gather_set"
    <3>1. After(P("gather_set", x), v) = IF v = 1 THEN SetDone(x, 1) ELSE SetDone(x, 0)
      BY AfterIs
    <3> QED  BY <2>2, <3>1, <1>3, <1>5
  <2> QED  BY <2>1, <2>2
<1>7. p.op = "next" /\ (p.x.err # 1 \/ p.x.gathers)
  <2>1. SetDone(x, e).x = [x EXCEPT !.at = @ + 1, !.err = e]
    BY OpOfPlace DEF SetDone
  <2>2. p.x.err = e /\ p.x.gathers = x.gathers
    BY <1>3, <1>6, <2>1 DEF Common
  <2>3. pc[q] = "gather_set" => x.gathers
    BY <1>3 DEF Fits, Gathering
  <2> QED  BY <2>2, <2>3, <1>6, OutwardOps
<1>8. Stand(r) = Len(calls[q]) + 1 /\ Loci[r] = p
  BY <1>5, <1>7, Waited
<1>9. CASE pc[r] \in Ops
  <2>1. pc[r] = "next"
    BY <1>7, <1>8, <1>9, StandIs
  <2> QED  BY <2>1, <1>8, <1>9 DEF Stand
<1>10. CASE pc[r] \notin Ops
  <2>1. pc[r] \in {"advance", "failed"} /\ pc[r] # "failed"
    BY <1>7, <1>8, <1>10, OutsideOps
  <2>2. Len(calls[r]) + 1 = Len(calls[q]) + 1
    BY <1>8, <1>10 DEF Stand
  <2> QED  BY <2>1, <2>2, <1>3
<1> QED  BY <1>9, <1>10

\* Two ranks in the same place, of which one is in the call.
LEMMA SamePlace ==
    ASSUME Typed, NEW q \in Rank, NEW r \in Rank, pc[q] \in {"data", "gather", "gather_set"},
           Loci[r] = Loci[q]
    PROVE  pc[r] = pc[q] /\ pc[r] \in Ops /\ Stand(r) = Len(calls[r])
<1>1. pc[q] \in Ops
  BY LabelFacts
<1>2. Loci[r].op = pc[q]
  BY <1>1, StandIs
<1>3. pc[r] \in Ops
  BY <1>2, OutsideOps
<1> QED  BY <1>2, <1>3, StandIs DEF Stand

LEMMA InData ==
    ASSUME Typed, OnTrace, NEW q \in Rank, pc[q] = "data", NEW r \in Rank
    PROVE  \/ pc[r] = "types" /\ Len(calls[r]) = Len(calls[q]) - 1
           \/ pc[r] = "data" /\ Len(calls[r]) = Len(calls[q])
           \/ pc[r] = "advance" /\ Len(calls[r]) = Len(calls[q])
           \/ pc[r] = "next" /\ Len(calls[r]) = Len(calls[q]) + 1
<1>1. pc[q] \in Ops /\ "data" \in Ops
  BY LabelFacts
<1>2. Loci[q].op = "data" /\ Len(calls[q]) \in Nat /\ Stand(r) \in Nat
  BY <1>1, StandIs
<1>3. CASE Stand(r) = Len(calls[q])
  BY <1>1, <1>2, <1>3, Neighbours, SamePlace
<1>4. CASE Stand(r) < Len(calls[q])
  <2>1. PICK p, v : /\ p \in Place
                    /\ Loci[q] = After(p, v)
                    /\ Stand(r) = Len(calls[q]) - 1 => Loci[r] = p
                    /\ T!Needs(p, r) => pc[r] \in Ops /\ Stand(r) = Len(calls[q]) - 1
    BY <1>1, <1>2, <1>4, Neighbours
  <2>2. p.op = "types"
    BY <1>2, <2>1, CallBefore
  <2>3. pc[r] \in Ops /\ Stand(r) = Len(calls[q]) - 1 /\ Loci[r] = p
    BY <2>1, <2>2, Waited
  <2> QED  BY <2>2, <2>3, StandIs DEF Stand
<1>5. CASE Stand(r) > Len(calls[q])
  BY <1>5, AfterSet
<1> QED  BY <1>2, <1>3, <1>4, <1>5

LEMMA InGather ==
    ASSUME Typed, OnTrace, NEW q \in Rank, pc[q] = "gather", NEW r \in Rank
    PROVE  \/ pc[r] = "gather_new" /\ Len(calls[r]) = Len(calls[q]) - 1
           \/ pc[r] = "gather" /\ Len(calls[r]) = Len(calls[q])
           \/ pc[r] = "gather_set" /\ Len(calls[r]) = Len(calls[q]) + 1
<1>1. pc[q] \in Ops /\ "gather" \in Ops
  BY LabelFacts
<1>2. Loci[q].op = "gather" /\ Len(calls[q]) \in Nat /\ Stand(r) \in Nat
  BY <1>1, StandIs
<1>3. CASE Stand(r) = Len(calls[q])
  BY <1>1, <1>2, <1>3, Neighbours, SamePlace
<1>4. CASE Stand(r) < Len(calls[q])
  <2>1. PICK p, v : /\ p \in Place
                    /\ Loci[q] = After(p, v)
                    /\ Stand(r) = Len(calls[q]) - 1 => Loci[r] = p
                    /\ T!Needs(p, r) => pc[r] \in Ops /\ Stand(r) = Len(calls[q]) - 1
    BY <1>1, <1>2, <1>4, Neighbours
  <2>2. p.op = "gather_new"
    BY <1>2, <2>1, CallBefore
  <2>3. pc[r] \in Ops /\ Stand(r) = Len(calls[q]) - 1 /\ Loci[r] = p
    BY <2>1, <2>2, Waited
  <2> QED  BY <2>2, <2>3, StandIs DEF Stand
<1>5. CASE Stand(r) > Len(calls[q])
  <2>1. PICK p, v : /\ p \in Place
                    /\ p = After(Loci[q], v)
                    /\ Stand(r) = Len(calls[q]) + 1 => Loci[r] = p
                    /\ T!Needs(p, q) => Stand(r) = Len(calls[q]) + 1
    BY <1>1, <1>2, <1>5, Neighbours DEF Beyond
  <2>2. p.op = "gather_set"
    <3>1. After(P("gather", X(q)), v) = P("gather_set", X(q))
      BY AfterIs
    <3>2. Loci[q] = P("gather", X(q))
      BY <1>1, StandIs
    <3> QED  BY <2>1, <3>1, <3>2, OpOfPlace
  <2>3. Stand(r) = Len(calls[q]) + 1 /\ Loci[r].op = "gather_set"
    BY <2>1, <2>2, Waited
  <2>4. pc[r] \in Ops
    BY <2>3, OutsideOps
  <2> QED  BY <2>3, <2>4, StandIs DEF Stand
<1> QED  BY <1>2, <1>3, <1>4, <1>5

\* The ranks behind are in a call; when they are next to it, in MPI_Gatherv().
LEMMA InGatherSet ==
    ASSUME Typed, OnTrace, NEW q \in Rank, pc[q] = "gather_set", NEW r \in Rank
    PROVE  \/ /\ pc[r] \in Ops /\ Len(calls[r]) < Len(calls[q])
              /\ Len(calls[r]) = Len(calls[q]) - 1 => pc[r] = "gather"
           \/ pc[r] = "gather_set" /\ Len(calls[r]) = Len(calls[q])
           \/ pc[r] = "advance" /\ Len(calls[r]) = Len(calls[q])
           \/ pc[r] = "next" /\ Len(calls[r]) = Len(calls[q]) + 1
<1>1. pc[q] \in Ops /\ "gather_set" \in Ops
  BY LabelFacts
<1>2. Loci[q].op = "gather_set" /\ Len(calls[q]) \in Nat /\ Stand(r) \in Nat
  BY <1>1, StandIs
<1>3. CASE Stand(r) = Len(calls[q])
  BY <1>1, <1>2, <1>3, Neighbours, SamePlace
<1>4. CASE Stand(r) < Len(calls[q])
  <2>1. PICK p, v : /\ p \in Place
                    /\ Loci[q] = After(p, v)
                    /\ Stand(r) = Len(calls[q]) - 1 => Loci[r] = p
    BY <1>1, <1>2, <1>4, Neighbours
  <2>2. p.op = "gather"
    BY <1>2, <2>1, CallBefore
  <2>3. pc[r] \in Ops
    <3>1. T!Needs(Loci[r], r) => pc[r] \in Ops
      BY <1>1, <1>2, <1>4, Neighbours
    <3>2. CASE pc[r] \notin Ops
      BY <3>1, <3>2, OutsideOps, StandIs, Waited
    <3> QED  BY <3>2
  <2> QED  BY <1>4, <2>1, <2>2, <2>3, StandIs DEF Stand
<1>5. CASE Stand(r) > Len(calls[q])
  BY <1>5, AfterSet
<1> QED  BY <1>2, <1>3, <1>4, <1>5

\* While rank 0 has yet to enter the gathering, no rank is behind it.
LEMMA BeforeGather ==
    ASSUME Typed, OnTrace, pc[Root] = "gather_root", NEW q \in Rank
    PROVE  pc[q] \notin {"data", "gather", "gather_set"}
<1>1. pc[Root] \in Ops /\ "gather_root" \in Ops /\ Root \in Rank
  BY LabelFacts, RootAssumption
<1>2. CASE pc[q] = "data"
  BY <1>1, <1>2, InData
<1>3. CASE pc[q] = "gather"
  BY <1>1, <1>3, InGather
<1>4. CASE pc[q] = "gather_set"
  <2>1. Len(calls[Root]) < Len(calls[q])
    BY <1>1, <1>4, InGatherSet
  <2>2. Stand(q) = Len(calls[q]) /\ Stand(q) > Len(calls[Root]) /\ Loci[q].op = "gather_set"
    BY <1>1, <1>4, <2>1, StandIs, LabelFacts DEF Stand
  <2>3. PICK p, v : /\ p \in Place
                    /\ p = After(Loci[Root], v)
                    /\ Stand(q) = Len(calls[Root]) + 1 => Loci[q] = p
                    /\ T!Needs(p, Root) => Stand(q) = Len(calls[Root]) + 1
    <3>1. Len(calls[Root]) \in Nat /\ Stand(q) \in Nat
      BY <1>1, StandIs
    <3> QED  BY <1>1, <2>2, <3>1, Neighbours DEF Beyond
  <2>4. p.op = "gather_new"
    <3>1. After(P("gather_root", X(Root)), v) = P("gather_new", X(Root))
      BY AfterIs
    <3>2. Loci[Root] = P("gather_root", X(Root))
      BY <1>1, StandIs
    <3> QED  BY <2>3, <3>1, <3>2, OpOfPlace
  <2>5. Loci[q] = p
    BY <2>3, <2>4, Waited
  <2> QED  BY <2>2, <2>4, <2>5
<1> QED  BY <1>2, <1>3, <1>4

-------------------------------------------------------------------------------
(***************************************************************************)
(* What becomes of the calls when rank r makes a step.                     *)
(***************************************************************************)
\* s calls are forgotten, b calls are added.
Shifted(r, s, b) ==
    \A q \in Rank :
        /\ Len(calls[q]) \in Nat /\ Len(calls'[q]) \in Nat
        /\ Len(calls'[q]) + s = Len(calls[q]) + (IF q = r THEN b ELSE 0)
        /\ s = 1 => Len(calls'[q]) > 0
        /\ \A k \in 1 .. Len(calls'[q]) :
              k + s <= Len(calls[q]) => calls'[q][k] = calls[q][k + s]

LEMMA EnterShifts ==
    ASSUME Typed, NEW r \in Rank, NEW op \in Ops, NEW v \in Value, Enter(r, op, v)
    PROVE  Gave(r)' = v /\ \E s \in {0, 1} : Shifted(r, s, 1)
<1>1. PICK e, l : e = [op |-> op, value |-> v] /\ l = T!Longer(calls, r, e)
  OBVIOUS
<1>2. e \in Call /\ calls' = T!Shorter(l) /\ calls \in T!Lists(Call)
  BY <1>1, EnterIs, PathsTyped
<1>3. /\ l \in T!Lists(Call) /\ \A q \in Rank : q # r => l[q] = calls[q]
      /\ calls[r] \in Seq(Call) /\ l[r] = Append(calls[r], e)
  <2>1. /\ T!Longer(calls, r, e) \in T!Lists(Call)
        /\ \A q \in Rank : q # r => T!Longer(calls, r, e)[q] = calls[q]
        /\ calls[r] \in Seq(Call) /\ T!Longer(calls, r, e)[r] = Append(calls[r], e)
    BY <1>2, T!LongerIs
  <2> QED  BY <2>1, <1>1
<1>4. PICK s \in {0, 1} : T!Remains(l, calls', s, Call)
  <2>1. \E s \in {0, 1} : T!Remains(l, T!Shorter(l), s, Call)
    BY <1>3, T!ShorterIs
  <2> QED  BY <2>1, <1>2
<1>5. ASSUME NEW q \in Rank
      PROVE  /\ Len(calls[q]) \in Nat /\ Len(calls'[q]) \in Nat
             /\ Len(calls'[q]) + s = Len(calls[q]) + (IF q = r THEN 1 ELSE 0)
             /\ s = 1 => Len(calls'[q]) > 0
             /\ \A k \in 1 .. Len(calls'[q]) :
                   k + s <= Len(calls[q]) => calls'[q][k] = calls[q][k + s]
  <2>1. PICK c, d, n : c = calls[q] /\ d = calls'[q] /\ n = l[q]
    OBVIOUS
  <2>2. /\ n \in Seq(Call) /\ d \in Seq(Call) /\ Len(n) = Len(d) + s
        /\ s = 1 => Len(d) > 0
        /\ \A k \in 1 .. Len(d) : d[k] = n[k + s]
    BY <1>4, <2>1 DEF T!Remains
  <2>3. c \in Seq(Call) /\ Len(c) \in Nat /\ Len(d) \in Nat
    BY <2>1, <2>2 DEF Typed
  <2>4. /\ Len(n) = Len(c) + (IF q = r THEN 1 ELSE 0)
        /\ \A k \in 1 .. Len(c) : n[k] = c[k]
    <3>1. CASE q = r
      BY <1>3, <2>1, <2>3, <3>1
    <3>2. CASE q # r
      BY <1>3, <2>1, <2>3, <3>2
    <3> QED  BY <3>1, <3>2
  <2>5. \A k \in 1 .. Len(d) : k + s <= Len(c) => d[k] = c[k + s]
    BY <2>2, <2>3, <2>4
  <2> QED  BY <2>1, <2>2, <2>3, <2>4, <2>5
<1>6. Shifted(r, s, 1)
  BY <1>5 DEF Shifted
<1>7. Gave(r)' = v
  <2>1. T!Last(calls', r) = e
    BY <1>1, <1>2, T!LastIsNew
  <2> QED  BY <2>1, <1>1 DEF Gave, T!Last
<1> QED  BY <1>6, <1>7

\* In general: a rank that comes into a call has made one.
LEMMA StepShifts ==
    ASSUME Typed, NEW r \in Rank, Turns(r)
    PROVE  \E s \in {0, 1} : Shifted(r, s, IF pc'[r] \in Ops THEN 1 ELSE 0)
<1>1. PICK l, y : Turn(r, l, y)
  BY DEF Turns
<1>2. pc'[r] = l
  BY <1>1 DEF Turn
<1>3. CASE l \in Ops
  <2>1. PICK v \in Value : Enter(r, l, v)
    BY <1>1, <1>3 DEF Turn
  <2>2. \E s \in {0, 1} : Shifted(r, s, 1)
    BY <1>3, <2>1, EnterShifts
  <2> QED  BY <1>2, <1>3, <2>2
<1>4. CASE l \notin Ops
  <2>1. calls' = calls
    BY <1>1, <1>4 DEF Turn
  <2>2. \A q \in Rank : Len(calls[q]) \in Nat
    BY StandIs
  <2>3. Shifted(r, 0, 0)
    BY <2>1, <2>2 DEF Shifted
  <2> QED  BY <1>2, <1>4, <2>3
<1> QED  BY <1>3, <1>4

\* A rank that is in a call has made one.
LEMMA InsideCalls ==
    ASSUME Typed, OnTrace, NEW q \in Rank, pc[q] \in Ops
    PROVE  Len(calls[q]) > 0
<1>1. PICK S : T!Trace(S, calls, Inside)
  BY DEF OnTrace, T!Together
<1>2. T!At(calls, Inside, q) \in 1 .. Len(S)
  BY <1>1 DEF T!Trace
<1>3. S \in Seq(Place)
  BY <1>1 DEF T!Trace
<1>4. Len(S) \in Nat /\ Len(calls[q]) \in Nat
  BY <1>3, StandIs
<1>5. T!At(calls, Inside, q) = Len(calls[q])
  BY StandIs DEF Stand
<1> QED  BY <1>2, <1>4, <1>5

\* The calls that the other ranks are in stay what they are.
LEMMA CallsKept ==
    ASSUME Typed, OnTrace, NEW r \in Rank, Turns(r), NEW q \in Rank, q # r, pc[q] \in Ops
    PROVE  /\ Gave(q)' = Gave(q)
           /\ \A p \in Rank : Len(calls[p]) >= Len(calls[q]) =>
                 Len(calls'[p]) >= Len(calls'[q]) /\ Given(p, q)' = Given(p, q)
           /\ \A p \in Rank : p # r /\ Len(calls'[p]) >= Len(calls'[q]) =>
                 Len(calls[p]) >= Len(calls[q])
           /\ Len(calls'[r]) >= Len(calls'[q]) /\ Len(calls[r]) < Len(calls[q]) =>
                 pc'[r] \in Ops /\ Len(calls'[r]) = Len(calls'[q])
           /\ Len(calls'[q]) > 1 =>
                 calls'[q][Len(calls'[q]) - 1] = calls[q][Len(calls[q]) - 1]
<1>1. PICK b, s \in {0, 1} : Shifted(r, s, b) /\ (b = 1 <=> pc'[r] \in Ops)
  BY StepShifts
<1>2. PICK m, n : m = Len(calls'[q]) /\ n = Len(calls[q])
  OBVIOUS
<1>3. /\ n \in Nat /\ m \in Nat /\ n > 0 /\ m + s = n /\ (s = 1 => m > 0)
      /\ \A k \in 1 .. m : k + s <= n => calls'[q][k] = calls[q][k + s]
  <2>1. /\ Len(calls[q]) \in Nat /\ Len(calls'[q]) \in Nat
        /\ Len(calls'[q]) + s = Len(calls[q]) + (IF q = r THEN b ELSE 0)
        /\ s = 1 => Len(calls'[q]) > 0
        /\ \A k \in 1 .. Len(calls'[q]) :
              k + s <= Len(calls[q]) => calls'[q][k] = calls[q][k + s]
    BY <1>1 DEF Shifted
  <2>2. Len(calls[q]) > 0
    BY InsideCalls
  <2> QED  BY <2>1, <2>2, <1>2
<1>4. m > 0
  BY <1>3
<1>5. Gave(q)' = Gave(q)
  <2>1. m \in 1 .. m
    BY <1>3, <1>4
  <2>2. calls'[q][m] = calls[q][n]
    BY <1>3, <2>1
  <2> QED  BY <1>2, <2>2 DEF Gave
<1>6. ASSUME NEW p \in Rank
      PROVE  /\ Len(calls[p]) >= n => Len(calls'[p]) >= m /\ calls'[p][m] = calls[p][n]
             /\ p # r /\ Len(calls'[p]) >= m => Len(calls[p]) >= n
             /\ p = r /\ Len(calls'[p]) >= m /\ Len(calls[p]) < n =>
                   b = 1 /\ Len(calls'[p]) = m
  <2>1. PICK i, j : i = Len(calls[p]) /\ j = Len(calls'[p])
    OBVIOUS
  <2>2. /\ i \in Nat /\ j \in Nat /\ j + s = i + (IF p = r THEN b ELSE 0)
        /\ \A k \in 1 .. j : k + s <= i => calls'[p][k] = calls[p][k + s]
    BY <1>1, <2>1 DEF Shifted
  <2>3. ASSUME i >= n PROVE j >= m /\ calls'[p][m] = calls[p][n]
    <3>1. j >= m
      BY <1>1, <1>3, <2>2, <2>3
    <3>2. m \in 1 .. j /\ m + s <= i
      BY <1>3, <1>4, <2>2, <2>3, <3>1
    <3> QED  BY <1>3, <2>2, <3>1, <3>2
  <2>4. p # r /\ j >= m => i >= n
    BY <1>3, <2>2
  <2>5. p = r /\ j >= m /\ i < n => b = 1 /\ j = m
    BY <1>1, <1>3, <2>2
  <2> QED  BY <2>1, <2>3, <2>4, <2>5
<1>7. m > 1 => calls'[q][m - 1] = calls[q][n - 1]
  <2>1. ASSUME m > 1 PROVE m - 1 \in 1 .. m /\ m - 1 + s = n - 1
    BY <1>3, <2>1
  <2> QED  BY <1>3, <2>1
<1>8. \A p \in Rank : /\ (Given(p, q) = calls[p][n].value)
                      /\ (Given(p, q)' = calls'[p][m].value)
  BY <1>2 DEF Given
<1> QED  BY <1>1, <1>2, <1>5, <1>6, <1>7, <1>8

-------------------------------------------------------------------------------
(***************************************************************************)
(* Where a rank has a particle.                                            *)
(***************************************************************************)
Exchanges == {"data", "gather", "gather_set"}

\* The set at hand does not count; particle p is on its way to rank q, or from it.
Hidden(q)   == Exchanged(q) \/ Taken(q)
Flows(q, p) == \/ Exchanged(q) /\ p \in Incoming(q)
               \/ OnItsWay(q) /\ p \in calls[q][Len(calls[q]) - 1].value

LEMMA SlotsAre ==
    ASSUME NEW q, NEW p, NEW k
    PROVE  k \in Slots(q, p) <=>
              \/ /\ k \in 1 .. Len(sets[q]) /\ k # kept[q]
                 /\ p \in sets[q][k] /\ ~(k = at[q] /\ Hidden(q))
              \/ k = 0 /\ Flows(q, p)
BY DEF Slots, Hidden, Flows

LEMMA SlotsAreNext ==
    ASSUME NEW q, NEW p, NEW k
    PROVE  k \in Slots(q, p)' <=>
              \/ /\ k \in 1 .. Len(sets'[q]) /\ k # kept'[q]
                 /\ p \in sets'[q][k] /\ ~(k = at'[q] /\ Hidden(q)')
              \/ k = 0 /\ Flows(q, p)'
BY DEF Slots, Hidden, Flows

\* Outside the exchanges a rank has what is in its sets, save the one that it has kept.
LEMMA PlainSlots ==
    ASSUME NEW q, NEW p, NEW k
    PROVE  /\ pc[q] \notin Exchanges =>
                 (k \in Slots(q, p) <=>
                     k \in 1 .. Len(sets[q]) /\ k # kept[q] /\ p \in sets[q][k])
           /\ pc'[q] \notin Exchanges =>
                 (k \in Slots(q, p)' <=>
                     k \in 1 .. Len(sets'[q]) /\ k # kept'[q] /\ p \in sets'[q][k])
<1>1. pc[q] \notin Exchanges => ~Hidden(q) /\ ~Flows(q, p)
  BY DEF Exchanges, Hidden, Flows, Exchanged, Taken, OnItsWay
<1>2. pc'[q] \notin Exchanges => ~Hidden(q)' /\ ~Flows(q, p)'
  BY DEF Exchanges, Hidden, Flows, Exchanged, Taken, OnItsWay
<1> QED  BY <1>1, <1>2, SlotsAre, SlotsAreNext

LEMMA NoneKept ==
    ASSUME Typed, Keeping, NEW q \in Rank, pc[q] \notin KeptLabels
    PROVE  kept[q] = 0 /\ \A k \in 1 .. Len(sets[q]) : k # kept[q]
<1>1. kept[q] = 0
  BY DEF Keeping, KeptAt, KeptLabels
<1>2. Len(sets[q]) \in Nat
  BY DEF Typed, TypeOK
<1> QED  BY <1>1, <1>2

\* The set at hand: the slot at the position.
LEMMA HasIs ==
    ASSUME Typed, Filling, NEW q \in Rank, pc[q] \in Unfilled, NEW p
    PROVE  p \in Has(q) <=> at[q] \in 1 .. Len(sets[q]) /\ p \in sets[q][at[q]]
<1>1. at[q] \in Nat \ {0} /\ end[q] \in Nat /\ sets[q] \in Seq(SUBSET Particle)
  BY DEF Typed, TypeOK
<1>2. Len(sets[q]) \in Nat
  BY <1>1
<1>3. CASE AtEnd(q)
  <2>1. Len(sets[q]) < at[q] /\ Has(q) = {}
    BY <1>3 DEF Filling, Has
  <2> QED  BY <2>1, <1>1, <1>2
<1>4. CASE ~AtEnd(q)
  <2>1. Len(sets[q]) = end[q] /\ Has(q) = sets[q][at[q]] /\ at[q] <= end[q]
    BY <1>1, <1>4 DEF Filling, Has, AtEnd
  <2> QED  BY <2>1, <1>1, <1>2
<1> QED  BY <1>3, <1>4

\* The places of the particles stay as they are.
LEMMA PlacedStays ==
    ASSUME PlacedOnce, \A q \in Rank : \A p \in Particle : Slots(q, p)' = Slots(q, p),
           \A p \in Particle : where'[p] # Outside =>
              where[p] # Outside \/ \E q \in Rank : Slots(q, p) # {}
    PROVE  PlacedOnce'
<1>1. ASSUME NEW p \in Particle, where'[p] # Outside
      PROVE  \E q \in Rank : Slots(q, p)' # {}
  <2>1. \E q \in Rank : Slots(q, p) # {}
    BY <1>1 DEF PlacedOnce
  <2> QED  BY <2>1
<1>2. ASSUME NEW p \in Particle, NEW q \in Rank, NEW r \in Rank,
             NEW j \in Slots(q, p)', NEW k \in Slots(r, p)'
      PROVE  q = r /\ j = k
  <2>1. j \in Slots(q, p) /\ k \in Slots(r, p)
    OBVIOUS
  <2> QED  BY <2>1 DEF PlacedOnce
<1> QED  BY <1>1, <1>2 DEF PlacedOnce

\* Rank r puts particles elsewhere, and keeps them.
LEMMA PlacedElsewhere ==
    ASSUME PlacedOnce, NEW r \in Rank, where' = where,
           \A q \in Rank : q # r => \A p \in Particle : Slots(q, p)' = Slots(q, p),
           \A p \in Particle :
              /\ (\E k : k \in Slots(r, p)') <=> (\E k : k \in Slots(r, p))
              /\ \A j, k : j \in Slots(r, p)' /\ k \in Slots(r, p)' => j = k
    PROVE  PlacedOnce'
<1>1. ASSUME NEW p \in Particle, NEW q \in Rank
      PROVE  (\E k : k \in Slots(q, p)') <=> (\E k : k \in Slots(q, p))
  <2>1. CASE q = r
    BY <2>1
  <2>2. CASE q # r
    BY <2>2
  <2> QED  BY <2>1, <2>2
<1>2. ASSUME NEW p \in Particle, where'[p] # Outside
      PROVE  \E q \in Rank : Slots(q, p)' # {}
  <2>1. PICK q \in Rank : Slots(q, p) # {}
    BY <1>2 DEF PlacedOnce
  <2>2. \E k : k \in Slots(q, p)'
    BY <1>1, <2>1
  <2> QED  BY <2>2
<1>3. ASSUME NEW p \in Particle, NEW q1 \in Rank, NEW q2 \in Rank,
             NEW j \in Slots(q1, p)', NEW k \in Slots(q2, p)'
      PROVE  q1 = q2 /\ j = k
  <2>1. PICK i \in Slots(q1, p), l \in Slots(q2, p) : TRUE
    BY <1>1
  <2>2. q1 = q2
    BY <2>1 DEF PlacedOnce
  <2>3. CASE q1 = r
    BY <2>2, <2>3
  <2>4. CASE q1 # r
    <3>1. j \in Slots(q1, p) /\ k \in Slots(q1, p)
      BY <2>2, <2>4
    <3> QED  BY <2>2, <3>1 DEF PlacedOnce
  <2> QED  BY <2>2, <2>3, <2>4
<1> QED  BY <1>2, <1>3 DEF PlacedOnce

-------------------------------------------------------------------------------
(***************************************************************************)
(* What a step of rank r changes for another rank q.                       *)
(***************************************************************************)
LEMMA OthersKeep ==
    ASSUME NEW r \in Rank, Turns(r), NEW q \in Rank, q # r
    PROVE  /\ pc'[q] = pc[q] /\ sets'[q] = sets[q] /\ at'[q] = at[q] /\ end'[q] = end[q]
           /\ err'[q] = err[q] /\ gathers'[q] = gathers[q] /\ stages'[q] = stages[q]
           /\ stage'[q] = stage[q] /\ status'[q] = status[q] /\ kept'[q] = kept[q]
BY DEF Turns, Frame, Keeps

\* Only the last rank to come into the exchange completes it.
LEMMA OthersExchanged ==
    ASSUME Typed, OnTrace, NEW r \in Rank, Turns(r), NEW q \in Rank, q # r,
           pc[r] = "types" /\ pc'[r] \in Ops => Len(calls'[r]) # Len(calls'[q])
    PROVE  /\ Exchanged(q)' <=> Exchanged(q)
           /\ Exchanged(q) => Incoming(q)' = Incoming(q)
<1>1. pc'[q] = pc[q]
  BY OthersKeep
<1>2. CASE pc[q] # "data"
  BY <1>1, <1>2 DEF Exchanged
<1>3. CASE pc[q] = "data"
  <2>1. pc[q] \in Ops
    BY <1>3, LabelFacts
  <2>2. ASSUME Entered(q) PROVE Entered(q)' /\ Incoming(q)' = Incoming(q)
    <3>1. ASSUME NEW p \in Rank
          PROVE  Len(calls'[p]) >= Len(calls'[q]) /\ Given(p, q)' = Given(p, q)
      BY <2>1, <2>2, CallsKept DEF Entered
    <3>2. Entered(q)'
      BY <3>1 DEF Entered
    <3>3. Incoming(q) = UNION {Given(p, q)[q] : p \in Rank}
      BY DEF Incoming
    <3>4. Incoming(q)' = UNION {(Given(p, q)')[q] : p \in Rank}
      BY DEF Incoming
    <3> QED  BY <3>1, <3>2, <3>3, <3>4
  <2>3. ASSUME Entered(q)' PROVE Entered(q)
    <3>1. ASSUME NEW p \in Rank, p # r PROVE Len(calls[p]) >= Len(calls[q])
      <4>1. Len(calls'[p]) >= Len(calls'[q])
        BY <2>3 DEF Entered
      <4> QED  BY <2>1, <3>1, <4>1, CallsKept
    <3>2. Len(calls[r]) >= Len(calls[q])
      <4>1. SUFFICES ASSUME ~(Len(calls[r]) >= Len(calls[q])) PROVE FALSE
        OBVIOUS
      <4>2. Len(calls[r]) < Len(calls[q])
        BY <4>1, StandIs
      <4>3. Len(calls'[r]) >= Len(calls'[q])
        BY <2>3 DEF Entered
      <4>4. pc'[r] \in Ops /\ Len(calls'[r]) = Len(calls'[q])
        BY <2>1, <4>2, <4>3, CallsKept
      <4>5. pc[r] = "types"
        <5>1. Len(calls[r]) \in Nat /\ Len(calls[q]) \in Nat
          BY StandIs
        <5> QED  BY <1>3, <4>2, <5>1, InData
      <4> QED  BY <4>4, <4>5
    <3> QED  BY <3>1, <3>2 DEF Entered
  <2> QED  BY <1>1, <1>3, <2>2, <2>3 DEF Exchanged
<1> QED  BY <1>2, <1>3

\* What is on its way to rank 0.
LEMMA OthersOnTheirWay ==
    ASSUME Typed, OnTrace, NEW r \in Rank, Turns(r), NEW q \in Rank, q # r,
           r = Root => pc[r] # "gather", OnItsWay(q)
    PROVE  calls'[q][Len(calls'[q]) - 1] = calls[q][Len(calls[q]) - 1]
<1>1. /\ q # Root /\ pc[q] = "gather_set" /\ pc[q] \in Ops /\ Root \in Rank
      /\ pc[Root] \in {"gather_new", "gather"} /\ pc[Root] \in Ops
  BY LabelFacts, RootAssumption DEF OnItsWay
<1>2. PICK b, s \in {0, 1} : Shifted(r, s, b)
  BY StepShifts
<1>3. PICK m, n, i, j : /\ m = Len(calls'[q]) /\ n = Len(calls[q])
                        /\ i = Len(calls[Root]) /\ j = Len(calls'[Root])
  OBVIOUS
<1>4. /\ m \in Nat /\ n \in Nat /\ i \in Nat /\ j \in Nat
      /\ m + s = n /\ j + s = i + (IF Root = r THEN b ELSE 0) /\ (s = 1 => j > 0)
  <2>1. /\ Len(calls[q]) \in Nat /\ Len(calls'[q]) \in Nat
        /\ Len(calls'[q]) + s = Len(calls[q]) + (IF q = r THEN b ELSE 0)
    BY <1>2 DEF Shifted
  <2>2. /\ Len(calls[Root]) \in Nat /\ Len(calls'[Root]) \in Nat
        /\ Len(calls'[Root]) + s = Len(calls[Root]) + (IF Root = r THEN b ELSE 0)
        /\ s = 1 => Len(calls'[Root]) > 0
    BY <1>1, <1>2 DEF Shifted
  <2>3. m \in Nat /\ n \in Nat /\ m + s = n + 0
    BY <1>3, <2>1
  <2>4. n + 0 = n
    BY <2>3
  <2> QED  BY <1>3, <2>2, <2>3, <2>4
<1>5. i > 0 /\ i < n /\ (i = n - 1 => pc[Root] = "gather")
  <2>1. i > 0
    BY <1>1, <1>3, InsideCalls
  <2>2. i < n /\ (i = n - 1 => pc[Root] = "gather")
    BY <1>1, <1>3, InGatherSet
  <2> QED  BY <2>1, <2>2
<1>6. m > 1
  <2>1. CASE r # Root
    BY <1>2, <1>4, <1>5, <2>1
  <2>2. CASE r = Root
    <3>1. i < n - 1
      BY <2>2, <1>1, <1>4, <1>5
    <3> QED  BY <1>2, <1>4, <1>5, <3>1
  <2> QED  BY <2>1, <2>2
<1> QED  BY <1>1, <1>3, <1>6, CallsKept

LEMMA OthersSlots ==
    ASSUME Typed, OnTrace, NEW r \in Rank, Turns(r), NEW q \in Rank, q # r,
           pc[r] = "types" /\ pc'[r] \in Ops => Len(calls'[r]) # Len(calls'[q]),
           r = Root => pc[r] # "gather",
           Taken(q)' <=> Taken(q), OnItsWay(q)' <=> OnItsWay(q), NEW p
    PROVE  Slots(q, p)' = Slots(q, p)
<1>1. sets'[q] = sets[q] /\ at'[q] = at[q] /\ kept'[q] = kept[q]
  BY OthersKeep
<1>2. Hidden(q)' <=> Hidden(q)
  BY OthersExchanged DEF Hidden
<1>3. Flows(q, p)' <=> Flows(q, p)
  BY OthersExchanged, OthersOnTheirWay DEF Flows
<1>4. \A k : k \in Slots(q, p)' <=> k \in Slots(q, p)
  BY <1>1, <1>2, <1>3, SlotsAre, SlotsAreNext
<1> QED  BY <1>4 DEF Slots

\* A rank that keeps out of the gathering, or is not rank 0.
LEMMA BystanderSlots ==
    ASSUME Typed, OnTrace, NEW r \in Rank, Turns(r), NEW q \in Rank, q # r,
           pc[r] = "types" /\ pc'[r] \in Ops => Len(calls'[r]) # Len(calls'[q]),
           r = Root => {pc[r], pc'[r]} \cap {"gather_new", "gather", "gather_set"} = {},
           NEW p
    PROVE  Slots(q, p)' = Slots(q, p)
<1>1. pc'[q] = pc[q]
  BY OthersKeep
<1>2. CASE r = Root
  <2>1. (Taken(q)' <=> Taken(q)) /\ (OnItsWay(q)' <=> OnItsWay(q)) /\ pc[r] # "gather"
    BY <1>2 DEF Taken, OnItsWay
  <2> QED  BY <1>2, <2>1, OthersSlots
<1>3. CASE r # Root
  <2>1. pc'[Root] = pc[Root]
    BY <1>3, OthersKeep, RootAssumption
  <2>2. (Taken(q)' <=> Taken(q)) /\ (OnItsWay(q)' <=> OnItsWay(q))
    BY <1>1, <2>1 DEF Taken, OnItsWay
  <2> QED  BY <1>3, <2>2, OthersSlots
<1> QED  BY <1>2, <1>3

-------------------------------------------------------------------------------
(***************************************************************************)
(* A set is replaced.                                                      *)
(***************************************************************************)
\* The position of the new set.
Position(r) == IF AtEnd(r) THEN Len(sets[r]) + 1 ELSE at[r]

LEMMA ReplaceIs ==
    ASSUME Typed, Filling, NEW r \in Rank, pc[r] \in Unfilled, NEW s \in SUBSET Particle,
           Replace(r, s), NEW p, NEW k
    PROVE  /\ Position(r) \in Nat \ {0}
           /\ k \in 1 .. Len(sets'[r]) /\ p \in sets'[r][k] <=>
                 \/ k = Position(r) /\ p \in s
                 \/ k \in 1 .. Len(sets[r]) /\ k # at[r] /\ p \in sets[r][k]
           /\ Len(sets'[r]) = IF AtEnd(r) THEN Len(sets[r]) + 1 ELSE Len(sets[r])
           /\ Position(r) \in 1 .. Len(sets[r]) => Position(r) = at[r]
<1>1. PICK l, a, n : l = sets[r] /\ a = at[r] /\ n = Len(l)
  OBVIOUS
<1>2. l \in Seq(SUBSET Particle) /\ a \in Nat \ {0} /\ n \in Nat /\ end[r] \in Nat
  BY <1>1 DEF Typed, TypeOK
<1>3. CASE AtEnd(r)
  <2>1. sets'[r] = Append(l, s)
    BY <1>1, <1>3 DEF Replace, Typed, TypeOK
  <2>2. n < a /\ Position(r) = n + 1
    BY <1>1, <1>3 DEF Filling, Position
  <2>3. /\ Len(sets'[r]) = n + 1 /\ sets'[r][n + 1] = s
        /\ \A i \in 1 .. n : sets'[r][i] = l[i]
    BY <1>1, <1>2, <2>1
  <2>4. k \in 1 .. n => k # a
    BY <1>2, <2>2
  <2>5. k \in 1 .. n + 1 <=> k \in 1 .. n \/ k = n + 1
    BY <1>2
  <2>6. k \in 1 .. n => k # n + 1
    BY <1>2
  <2>7. k \in 1 .. Len(sets'[r]) /\ p \in sets'[r][k] <=>
           \/ k = n + 1 /\ p \in s
           \/ k \in 1 .. n /\ k # a /\ p \in l[k]
    BY <2>3, <2>4, <2>5, <2>6
  <2>8. n + 1 \in Nat \ {0} /\ n + 1 \notin 1 .. n
    BY <1>2
  <2> QED  BY <1>1, <1>3, <2>2, <2>3, <2>7, <2>8
<1>4. CASE ~AtEnd(r)
  <2>1. sets'[r] = [l EXCEPT ![a] = s]
    BY <1>1, <1>4 DEF Replace, Typed, TypeOK
  <2>2. a \in 1 .. n /\ Position(r) = a
    <3>1. n = end[r] /\ a <= end[r]
      BY <1>1, <1>2, <1>4 DEF Filling, AtEnd
    <3> QED  BY <3>1, <1>1, <1>2, <1>4 DEF Position
  <2>3. /\ Len(sets'[r]) = n /\ sets'[r][a] = s
        /\ \A i \in 1 .. n : i # a => sets'[r][i] = l[i]
    BY <1>1, <1>2, <2>1, <2>2, ExceptSeq
  <2>4. k \in 1 .. Len(sets'[r]) /\ p \in sets'[r][k] <=>
           \/ k = a /\ p \in s
           \/ k \in 1 .. n /\ k # a /\ p \in l[k]
    BY <2>2, <2>3
  <2> QED  BY <1>1, <1>2, <1>4, <2>2, <2>3, <2>4
<1> QED  BY <1>3, <1>4

-------------------------------------------------------------------------------
(***************************************************************************)
(* The steps of a rank, by what they do to the places of the particles.    *)
(***************************************************************************)
\* The rank keeps its sets, and out of the exchanges; it may move its particles.
Aside(r) ==
    /\ sets' = sets /\ kept' = kept
    /\ pc[r] \notin Exchanges /\ pc'[r] \notin Exchanges
    /\ pc[r] = "types" => pc'[r] = "failed"
    /\ pc'[r] = "gather_new" => pc[r] = "gather_root"
    /\ pc[r] = "gather_new" => pc'[r] = "advance"
    /\ where' = where \/ (pc[r] = "stage" /\ Move(r))

LEMMA GotoIs ==
    ASSUME Typed, NEW r \in Rank, NEW l, Goto(r, l)
    PROVE  pc'[r] = l
BY DEF Goto, Typed, TypeOK

LEMMA MeetIs ==
    ASSUME Typed, NEW r \in Rank, NEW op, NEW v, Meet(r, op, v)
    PROVE  pc'[r] = op
BY GotoIs DEF Meet

LEMMA ReturnedIs ==
    ASSUME Typed, NEW r \in Rank, NEW e, Returned(r, e)
    PROVE  pc'[r] \in {"output", "stage"}
BY GotoIs DEF Returned

\* From where to where the actions lead.
LEMMA StepPaths ==
    ASSUME Typed, NEW r \in Rank, ~Crash(r)
    PROVE  /\ StepBegin(r) => pc[r] = "step" /\ pc'[r] = "bounds"
           /\ Bounds(r) => pc[r] = "bounds" /\ pc'[r] \in {"output", "stage", "rects"}
           /\ Rects(r) => pc[r] = "rects" /\ pc'[r] = "traverse"
           /\ Ends(r) => pc[r] = "traverse" /\ pc'[r] = "ends"
           /\ EndsLeave(r) => pc[r] = "ends" /\ pc'[r] \in {"gather_root", "any", "buffer", "report", "output", "stage"}
           /\ NextSet(r) => pc[r] = "advance" /\ pc'[r] = "next"
           /\ NextLeave(r) => pc[r] = "next" /\ pc'[r] \in {"traverse", "report", "output", "stage"}
           /\ Buffer(r) => pc[r] = "buffer" /\ pc'[r] \in {"advance", "any"}
           /\ AnyParticle(r) => pc[r] = "any" /\ pc'[r] \in {"advance", "counts"}
           /\ Counted(r) => pc[r] = "counts" /\ pc'[r] \in {"failed", "whole"}
           /\ Whole(r) => pc[r] = "whole" /\ pc'[r] \in {"root", "new"}
           /\ SetRoot(r) => pc[r] = "root" /\ pc'[r] = "new"
           /\ New(r) => pc[r] = "new" /\ pc'[r] \in {"failed", "numbers", "numbers_sizes"}
           /\ Numbers(r) => pc[r] \in {"numbers", "numbers_sizes"} /\ pc'[r] = "types"
           /\ Types(r) => pc[r] = "types" /\ pc'[r] \in {"failed", "data"}
           /\ Data(r) => pc[r] = "data" /\ pc'[r] = "advance"
           /\ Failed(r) => pc[r] = "failed" /\ pc'[r] = "advance"
           /\ Substeps(r) => pc[r] = "stage" /\ pc'[r] = "substeps"
           /\ SubstepsLeave(r) => pc[r] = "substeps" /\ pc'[r] = "stage"
           /\ Stage(r) => pc[r] = "stage" /\ pc'[r] = "bounds"
           /\ Walls(r) => pc[r] = "stage" /\ pc'[r] = "output"
           /\ Output(r) => pc[r] = "output" /\ pc'[r] \in {"traverse", "report"}
           /\ GatherRoot(r) => pc[r] = "gather_root" /\ pc'[r] = "gather_new"
           /\ GatherNew(r) => pc[r] = "gather_new" /\ pc'[r] \in {"advance", "gather"}
           /\ Gather(r) => pc[r] = "gather" /\ pc'[r] = "gather_set"
           /\ GatherSet(r) => pc[r] = "gather_set" /\ pc'[r] = "advance"
           /\ Report(r) => pc[r] = "report" /\ pc'[r] \in {"aborted", "ended", "step"}
<1>1. StepBegin(r) => pc[r] = "step" /\ pc'[r] = "bounds"
  BY MeetIs DEF StepBegin
<1>2. Bounds(r) => pc[r] = "bounds" /\ pc'[r] \in {"output", "stage", "rects"}
  BY MeetIs, ReturnedIs DEF Bounds
<1>3. Rects(r) => pc[r] = "rects" /\ pc'[r] = "traverse"
  BY GotoIs DEF Rects
<1>4. Ends(r) => pc[r] = "traverse" /\ pc'[r] = "ends"
  BY MeetIs DEF Ends
<1>5. EndsLeave(r) => pc[r] = "ends" /\ pc'[r] \in {"gather_root", "any", "buffer", "report", "output", "stage"}
  <2>1. SUFFICES ASSUME EndsLeave(r)
                 PROVE  pc'[r] \in {"gather_root", "any", "buffer", "report", "output", "stage"}
    BY DEF EndsLeave
  <2>2. CASE EndsFunc(r)
    BY <2>2, MeetIs DEF EndsFunc
  <2>3. CASE EndsReturn(r)
    BY <2>3, MeetIs, ReturnedIs DEF EndsReturn
  <2> QED  BY <2>1, <2>2, <2>3 DEF EndsLeave
<1>6. NextSet(r) => pc[r] = "advance" /\ pc'[r] = "next"
  BY MeetIs DEF NextSet
<1>7. NextLeave(r) => pc[r] = "next" /\ pc'[r] \in {"traverse", "report", "output", "stage"}
  BY MeetIs, GotoIs, ReturnedIs DEF NextLeave
<1>8. Buffer(r) => pc[r] = "buffer" /\ pc'[r] \in {"advance", "any"}
  BY MeetIs, GotoIs DEF Buffer
<1>9. AnyParticle(r) => pc[r] = "any" /\ pc'[r] \in {"advance", "counts"}
  BY MeetIs, GotoIs DEF AnyParticle
<1>10. Counted(r) => pc[r] = "counts" /\ pc'[r] \in {"failed", "whole"}
  BY MeetIs, GotoIs DEF Counted
<1>11. Whole(r) => pc[r] = "whole" /\ pc'[r] \in {"root", "new"}
  BY MeetIs DEF Whole
<1>12. SetRoot(r) => pc[r] = "root" /\ pc'[r] = "new"
  BY MeetIs DEF SetRoot
<1>13. New(r) => pc[r] = "new" /\ pc'[r] \in {"failed", "numbers", "numbers_sizes"}
  BY MeetIs, GotoIs DEF New
<1>14. Numbers(r) => pc[r] \in {"numbers", "numbers_sizes"} /\ pc'[r] = "types"
  BY MeetIs DEF Numbers
<1>15. Types(r) => pc[r] = "types" /\ pc'[r] \in {"failed", "data"}
  BY MeetIs, GotoIs DEF Types
<1>16. Data(r) => pc[r] = "data" /\ pc'[r] = "advance"
  BY GotoIs DEF Data
<1>17. Failed(r) => pc[r] = "failed" /\ pc'[r] = "advance"
  BY GotoIs DEF Failed, Crash
<1>18. Substeps(r) => pc[r] = "stage" /\ pc'[r] = "substeps"
  BY MeetIs DEF Substeps
<1>19. SubstepsLeave(r) => pc[r] = "substeps" /\ pc'[r] = "stage"
  BY GotoIs DEF SubstepsLeave
<1>20. Stage(r) => pc[r] = "stage" /\ pc'[r] = "bounds"
  BY MeetIs DEF Stage, Integrates
<1>21. Walls(r) => pc[r] = "stage" /\ pc'[r] = "output"
  BY GotoIs DEF Walls
<1>22. Output(r) => pc[r] = "output" /\ pc'[r] \in {"traverse", "report"}
  BY MeetIs, GotoIs DEF Output
<1>23. GatherRoot(r) => pc[r] = "gather_root" /\ pc'[r] = "gather_new"
  BY MeetIs DEF GatherRoot
<1>24. GatherNew(r) => pc[r] = "gather_new" /\ pc'[r] \in {"advance", "gather"}
  BY MeetIs, GotoIs DEF GatherNew
<1>25. Gather(r) => pc[r] = "gather" /\ pc'[r] = "gather_set"
  BY MeetIs DEF Gather
<1>26. GatherSet(r) => pc[r] = "gather_set" /\ pc'[r] = "advance"
  BY GotoIs DEF GatherSet
<1>27. Report(r) => pc[r] = "report" /\ pc'[r] \in {"aborted", "ended", "step"}
  BY GotoIs DEF Report
<1> QED  BY <1>1, <1>2, <1>3, <1>4, <1>5, <1>6, <1>7, <1>8, <1>9, <1>10, <1>11, <1>12, <1>13,
            <1>14, <1>15, <1>16, <1>17, <1>18, <1>19, <1>20, <1>21, <1>22, <1>23, <1>24, <1>25,
            <1>26, <1>27

LEMMA Kinds ==
    ASSUME Typed, NEW r \in Rank, Step(r), ~Crash(r)
    PROVE  \/ Aside(r)
           \/ Types(r) /\ pc'[r] = "data"
           \/ Data(r)
           \/ GatherNew(r) /\ pc'[r] = "gather"
           \/ Gather(r)
           \/ GatherSet(r)
<1>1. CASE StepBegin(r) \/ Bounds(r) \/ Rects(r) \/ Ends(r) \/ EndsLeave(r) \/ NextSet(r)
           \/ NextLeave(r)
  <2>1. sets' = sets /\ kept' = kept /\ where' = where
    BY <1>1 DEF StepBegin, Bounds, Rects, Ends, EndsLeave, NextSet, NextLeave, local
  <2>2. /\ {pc[r], pc'[r]} \cap Exchanges = {} /\ pc[r] \notin {"types", "gather_new"}
        /\ pc'[r] # "gather_new"
    BY <1>1, StepPaths DEF Exchanges
  <2> QED  BY <2>1, <2>2 DEF Aside
<1>2. CASE Buffer(r) \/ AnyParticle(r) \/ Counted(r) \/ Whole(r) \/ SetRoot(r) \/ New(r)
           \/ Numbers(r) \/ Failed(r)
  <2>1. sets' = sets /\ kept' = kept /\ where' = where
    BY <1>2 DEF Buffer, AnyParticle, Counted, Whole, SetRoot, New, Numbers, Failed, local
  <2>2. /\ {pc[r], pc'[r]} \cap Exchanges = {} /\ pc[r] \notin {"types", "gather_new"}
        /\ pc'[r] # "gather_new"
    BY <1>2, StepPaths DEF Exchanges
  <2> QED  BY <2>1, <2>2 DEF Aside
<1>3. CASE Substeps(r) \/ SubstepsLeave(r) \/ Stage(r) \/ Walls(r) \/ Output(r) \/ Report(r)
  <2>1. /\ sets' = sets /\ kept' = kept
        /\ where' = where \/ (pc[r] = "stage" /\ Move(r))
    BY <1>3 DEF Substeps, SubstepsLeave, Stage, Walls, Output, Report, Integrates, local
  <2>2. /\ {pc[r], pc'[r]} \cap Exchanges = {} /\ pc[r] \notin {"types", "gather_new"}
        /\ pc'[r] # "gather_new"
    BY <1>3, StepPaths DEF Exchanges
  <2> QED  BY <2>1, <2>2 DEF Aside
<1>4. CASE Types(r) \/ GatherRoot(r) \/ GatherNew(r)
  <2>1. sets' = sets /\ kept' = kept /\ where' = where
    BY <1>4 DEF Types, GatherRoot, GatherNew, local
  <2> QED  BY <1>4, <2>1, StepPaths DEF Aside, Exchanges
<1> QED  BY <1>1, <1>2, <1>3, <1>4 DEF Step

\* The particles of a rank are those of its sets.
LEMMA OwnIs ==
    ASSUME Typed, NEW r \in Rank, NEW p
    PROVE  p \in Own(r) <=> \E k \in 1 .. Len(sets[r]) : p \in sets[r][k]
<1>1. sets[r] \in Seq(SUBSET Particle)
  BY DEF Typed, TypeOK
<1>2. DOMAIN sets[r] = 1 .. Len(sets[r])
  BY <1>1
<1> QED  BY <1>2 DEF Own, ToSet

\* A particle that another rank has stays in its subdomain.
LEMMA WhereKept ==
    ASSUME Typed, PlacedOnce, Keeping, NEW r \in Rank, Step(r), ~Crash(r),
           NEW q \in Rank, q # r, NEW p \in Particle, NEW k \in Slots(q, p)
    PROVE  where'[p] = where[p]
<1>1. CASE where' = where
  BY <1>1
<1>2. CASE where' # where
  <2>1. pc[r] = "stage" /\ Move(r)
    BY <1>2, Kinds DEF Aside, Types, Data, GatherNew, Gather, GatherSet, local
  <2>2. p \notin Own(r)
    <3>1. SUFFICES ASSUME p \in Own(r) PROVE FALSE
      OBVIOUS
    <3>2. PICK j \in 1 .. Len(sets[r]) : p \in sets[r][j]
      BY <3>1, OwnIs
    <3>3. pc[r] \notin Exchanges /\ j # kept[r]
      BY <2>1, <3>2, NoneKept DEF Exchanges, KeptLabels, Halted
    <3>4. j \in Slots(r, p)
      BY <3>2, <3>3, PlainSlots
    <3> QED  BY <3>4 DEF PlacedOnce
  <2>3. where' = [x \in Particle |-> where'[x]] /\ where'[p] = where[p]
    BY <2>1, <2>2 DEF Move
  <2> QED  BY <2>3
<1> QED  BY <1>1, <1>2

-------------------------------------------------------------------------------
(***************************************************************************)
(* No step loses or doubles a particle.                                    *)
(***************************************************************************)
\* While rank 0 has no place in the gathering, or leaves it at once, nothing is on its way.
LEMMA AsideSlots ==
    ASSUME Typed, OnTrace, NEW r \in Rank, Turns(r), Aside(r), NEW q \in Rank, q # r, NEW p
    PROVE  Slots(q, p)' = Slots(q, p)
<1>1. pc[r] = "types" => pc'[r] \notin Ops
  BY LabelFacts DEF Aside
<1>2. CASE r # Root \/ {pc[r], pc'[r]} \cap {"gather_new"} = {}
  <2>1. {pc[r], pc'[r]} \cap Exchanges = {}
    BY DEF Aside
  <2>2. r = Root => {pc[r], pc'[r]} \cap {"gather_new", "gather", "gather_set"} = {}
    BY <1>2, <2>1 DEF Exchanges
  <2> QED  BY <1>1, <2>2, BystanderSlots
<1>3. CASE r = Root /\ pc'[r] = "gather_new"
  <2>1. pc[Root] = "gather_root"
    BY <1>3 DEF Aside
  <2>2. pc[q] # "gather_set" /\ pc'[q] = pc[q]
    BY <1>3, <2>1, BeforeGather, OthersKeep
  <2>3. ~Taken(q) /\ ~Taken(q)' /\ ~OnItsWay(q) /\ ~OnItsWay(q)'
    BY <1>3, <2>1, <2>2 DEF Taken, OnItsWay
  <2> QED  BY <1>1, <1>3, <2>1, <2>3, OthersSlots
<1>4. CASE r = Root /\ pc[r] = "gather_new"
  <2>1. pc'[Root] = "advance" /\ pc[Root] \in Ops /\ Root \in Rank
    BY <1>4, LabelFacts, RootAssumption DEF Aside
  <2>2. pc[q] # "gather_set"
    <3>1. SUFFICES ASSUME pc[q] = "gather_set" PROVE FALSE
      OBVIOUS
    <3>2. Len(calls[Root]) < Len(calls[q])
      BY <1>4, <3>1, LabelFacts, InGatherSet
    <3>3. Stand(q) = Len(calls[q]) /\ Loci[q].op = "gather_set"
      BY <3>1, LabelFacts, StandIs DEF Stand
    <3>4. Len(calls[Root]) \in Nat /\ Stand(q) \in Nat
      BY <2>1, StandIs
    <3>5. PICK x \in Place : /\ x = Beyond(Root)
                             /\ Stand(q) = Len(calls[Root]) + 1 => Loci[q] = x
                             /\ T!Needs(x, Root) => Stand(q) = Len(calls[Root]) + 1
      BY <2>1, <3>2, <3>3, <3>4, Neighbours
    <3>6. Beyond(Root).op = "next"
      <4>1. PICK l, y : Turn(Root, l, y)
        BY <1>4 DEF Turns
      <4>2. LocusOf("advance", y) = Beyond(Root)
        BY <2>1, <4>1 DEF Turn
      <4>3. LocusOf("advance", y) = SetDone(y, y.err)
        BY LocusIs
      <4> QED  BY <4>2, <4>3, OutwardOps
    <3>7. Loci[q] = x
      BY <3>5, <3>6, Waited
    <3> QED  BY <3>3, <3>5, <3>6, <3>7
  <2>3. pc'[q] = pc[q]
    BY OthersKeep
  <2>4. ~Taken(q) /\ ~Taken(q)' /\ ~OnItsWay(q) /\ ~OnItsWay(q)'
    BY <1>4, <2>1, <2>2, <2>3 DEF Taken, OnItsWay
  <2> QED  BY <1>1, <1>4, <2>4, OthersSlots
<1> QED  BY <1>2, <1>3, <1>4

LEMMA AsidePlaced ==
    ASSUME Typed, OnTrace, PlacedOnce, Keeping, NEW r \in Rank, Turns(r), Aside(r)
    PROVE  PlacedOnce'
<1>1. ASSUME NEW q \in Rank, NEW p \in Particle
      PROVE  Slots(q, p)' = Slots(q, p)
  <2>1. CASE q # r
    BY <2>1, AsideSlots
  <2>2. CASE q = r
    <3>1. \A k : k \in Slots(r, p)' <=> k \in Slots(r, p)
      BY PlainSlots DEF Aside
    <3> QED  BY <2>2, <3>1 DEF Slots
  <2> QED  BY <2>1, <2>2
<1>2. ASSUME NEW p \in Particle, where'[p] # Outside
      PROVE  where[p] # Outside \/ \E q \in Rank : Slots(q, p) # {}
  <2>1. CASE where' = where
    BY <1>2, <2>1
  <2>2. CASE pc[r] = "stage" /\ Move(r) /\ p \in Own(r)
    <3>1. PICK k \in 1 .. Len(sets[r]) : p \in sets[r][k]
      BY <2>2, OwnIs
    <3>2. k # kept[r]
      BY <2>2, <3>1, NoneKept DEF KeptLabels, Halted
    <3>3. k \in Slots(r, p)
      BY <3>1, <3>2, PlainSlots DEF Aside
    <3> QED  BY <3>3
  <2>3. CASE pc[r] = "stage" /\ Move(r) /\ p \notin Own(r)
    <3>1. where'[p] = where[p]
      BY <2>3 DEF Move
    <3> QED  BY <1>2, <3>1
  <2> QED  BY <2>1, <2>2, <2>3 DEF Aside
<1> QED  BY <1>1, <1>2, PlacedStays

\* Particles leave slot h[q] of each rank q, and come into slot d of rank to[p].
Handed(h, d, to) ==
    \A p \in Particle :
        /\ where[p] # Outside => to[p] \in Rank
        /\ \A q \in Rank : \A k :
              k \in Slots(q, p)' <=>
                 \/ k \in Slots(q, p) /\ k # h[q]
                 \/ k = d /\ q = to[p] /\ \E x \in Rank : h[x] \in Slots(x, p)

LEMMA PlacedHanded ==
    ASSUME PlacedOnce, where' = where, NEW h, NEW d, NEW to, Handed(h, d, to)
    PROVE  PlacedOnce'
<1>1. ASSUME NEW p \in Particle, where'[p] # Outside
      PROVE  \E q \in Rank : Slots(q, p)' # {}
  <2>1. PICK q \in Rank : Slots(q, p) # {}
    BY <1>1 DEF PlacedOnce
  <2>2. PICK k : k \in Slots(q, p)
    BY <2>1
  <2>3. CASE k # h[q]
    <3>1. k \in Slots(q, p)'
      BY <2>2, <2>3 DEF Handed
    <3> QED  BY <3>1
  <2>4. CASE k = h[q]
    <3>1. to[p] \in Rank
      BY <1>1 DEF Handed
    <3>2. h[q] \in Slots(q, p)
      BY <2>2, <2>4
    <3>3. d \in Slots(to[p], p)'
      BY <3>1, <3>2 DEF Handed
    <3> QED  BY <3>1, <3>3
  <2> QED  BY <2>3, <2>4
<1>2. ASSUME NEW p \in Particle, NEW q \in Rank, NEW r \in Rank,
             NEW j \in Slots(q, p)', NEW k \in Slots(r, p)'
      PROVE  q = r /\ j = k
  <2>1. \/ j \in Slots(q, p) /\ j # h[q]
        \/ j = d /\ q = to[p] /\ \E x \in Rank : h[x] \in Slots(x, p)
    BY DEF Handed
  <2>2. \/ k \in Slots(r, p) /\ k # h[r]
        \/ k = d /\ r = to[p] /\ \E x \in Rank : h[x] \in Slots(x, p)
    BY DEF Handed
  <2>3. ASSUME NEW x \in Rank, h[x] \in Slots(x, p), NEW y \in Rank, NEW i \in Slots(y, p), i # h[y]
        PROVE  FALSE
    BY <2>3 DEF PlacedOnce
  <2>4. CASE j \in Slots(q, p) /\ j # h[q] /\ k \in Slots(r, p) /\ k # h[r]
    BY <2>4 DEF PlacedOnce
  <2> QED  BY <2>1, <2>2, <2>3, <2>4
<1> QED  BY <1>1, <1>2 DEF PlacedOnce

-------------------------------------------------------------------------------
(***************************************************************************)
(* A rank enters MPI_Alltoallw().  The last one to come completes it.      *)
(***************************************************************************)
Arrives(r) == Types(r) /\ pc'[r] = "data"

LEMMA ArrivesIs ==
    ASSUME Typed, NEW r \in Rank, Arrives(r)
    PROVE  /\ pc[r] = "types" /\ pc'[r] = "data" /\ UNCHANGED local
           /\ Gave(r)' = Outgoing(r) /\ \E s \in {0, 1} : Shifted(r, s, 1)
<1>1. pc[r] = "types" /\ pc'[r] = "data" /\ UNCHANGED local
  BY DEF Arrives, Types
<1>2. Enter(r, "data", Outgoing(r))
  <2>1. ~Goto(r, "failed")
    BY <1>1, GotoIs
  <2> QED  BY <2>1 DEF Arrives, Types, Meet
<1>3. Outgoing(r) \in Value /\ "data" \in Ops
  BY OutgoingTyped, LabelFacts DEF Value
<1> QED  BY <1>1, <1>2, <1>3, EnterShifts

\* Unless it is the last, nothing is exchanged.
LEMMA ArrivesFirst ==
    ASSUME Typed, OnTrace, NEW r \in Rank, Turns(r), Arrives(r), ~Entered(r)', NEW q \in Rank, q # r
    PROVE  ~Exchanged(q) /\ ~Exchanged(q)'
<1>1. pc'[q] = pc[q] /\ pc[r] = "types"
  BY OthersKeep, ArrivesIs
<1>2. CASE pc[q] # "data"
  BY <1>1, <1>2 DEF Exchanged
<1>3. CASE pc[q] = "data"
  <2>1. Len(calls[r]) = Len(calls[q]) - 1 /\ Len(calls[r]) \in Nat /\ Len(calls[q]) \in Nat
    BY <1>1, <1>3, InData, StandIs
  <2>2. ~Entered(q)
    BY <2>1 DEF Entered
  <2>3. PICK s \in {0, 1} : Shifted(r, s, 1)
    BY ArrivesIs
  <2>4. Len(calls'[r]) = Len(calls'[q])
    <3>1. /\ Len(calls'[r]) \in Nat /\ Len(calls'[r]) + s = Len(calls[r]) + 1
      BY <2>3 DEF Shifted
    <3>2. /\ Len(calls'[q]) \in Nat /\ Len(calls'[q]) + s = Len(calls[q]) + 0
      BY <2>3 DEF Shifted
    <3> QED  BY <2>1, <3>1, <3>2
  <2>5. ~Entered(q)'
    BY <2>4 DEF Entered
  <2> QED  BY <2>2, <2>5 DEF Exchanged
<1> QED  BY <1>2, <1>3

\* When it is the last, all the others are waiting.
LEMMA OthersWait ==
    ASSUME Typed, OnTrace, NEW r \in Rank, Turns(r), Arrives(r), Entered(r)', NEW q \in Rank, q # r
    PROVE  pc[q] = "data" /\ ~Entered(q) /\ Len(calls'[q]) = Len(calls'[r])
<1>1. pc[r] = "types" /\ pc'[r] = "data" /\ pc[r] \in Ops /\ "data" \in Ops
  BY ArrivesIs, LabelFacts
<1>2. PICK s \in {0, 1} : Shifted(r, s, 1)
  BY ArrivesIs
<1>3. /\ Len(calls[r]) \in Nat /\ Len(calls[q]) \in Nat /\ Stand(q) \in Nat
      /\ Stand(q) >= Len(calls[q])
  BY StandIs DEF Stand
<1>4. /\ Len(calls'[r]) \in Nat /\ Len(calls'[r]) + s = Len(calls[r]) + 1
      /\ Len(calls'[q]) \in Nat /\ Len(calls'[q]) + s = Len(calls[q])
      /\ Len(calls'[q]) >= Len(calls'[r])
  <2>1. /\ Len(calls'[r]) \in Nat /\ Len(calls'[r]) + s = Len(calls[r]) + 1
    BY <1>2 DEF Shifted
  <2>2. /\ Len(calls'[q]) \in Nat /\ Len(calls'[q]) + s = Len(calls[q]) + 0
    BY <1>2 DEF Shifted
  <2>3. Len(calls'[q]) >= Len(calls'[r])
    BY DEF Entered
  <2> QED  BY <1>3, <2>1, <2>2, <2>3
<1>5. Len(calls[q]) > Len(calls[r])
  <2>1. PICK i, j, m, n : /\ i = Len(calls[q]) /\ j = Len(calls[r])
                          /\ m = Len(calls'[q]) /\ n = Len(calls'[r])
    OBVIOUS
  <2>2. /\ i \in Nat /\ j \in Nat /\ m \in Nat /\ n \in Nat
        /\ n + s = j + 1 /\ m + s = i /\ m >= n
    BY <1>3, <1>4, <2>1
  <2>3. i > j
    BY <2>2
  <2> QED  BY <2>1, <2>3
<1>6. Stand(q) > Len(calls[r])
  BY <1>3, <1>5
<1>7. PICK x \in Place : /\ x = Beyond(r)
                         /\ Stand(q) = Len(calls[r]) + 1 => Loci[q] = x
                         /\ T!Needs(x, r) => Stand(q) = Len(calls[r]) + 1
  BY <1>1, <1>3, <1>6, Neighbours
<1>8. Beyond(r).op = "data"
  <2>1. PICK l, y : Turn(r, l, y)
    BY DEF Turns
  <2>2. LocusOf("data", y) = Beyond(r)
    BY <1>1, <2>1 DEF Turn
  <2>3. LocusOf("data", y) = P("data", y)
    BY <1>1, LocusIs
  <2> QED  BY <2>2, <2>3, OpOfPlace
<1>9. Stand(q) = Len(calls[r]) + 1 /\ Loci[q].op = "data"
  BY <1>7, <1>8, Waited
<1>10. pc[q] \in Ops
  BY <1>9, OutsideOps
<1>11. pc[q] = "data"
  BY <1>9, <1>10, StandIs
<1>12. ~Entered(q)
  BY <1>3, <1>5 DEF Entered
<1>13. Len(calls'[q]) = Len(calls'[r])
  BY <1>3, <1>4, <1>9, <1>10 DEF Stand
<1> QED  BY <1>11, <1>12, <1>13

\* Then it holds all that the ranks have for each other.
LEMMA ArrivesLast ==
    ASSUME Typed, OnTrace, Sending, NEW r \in Rank, Turns(r), Arrives(r), Entered(r)',
           NEW q \in Rank
    PROVE  /\ Exchanged(q)'
           /\ \A p : p \in Incoming(q)' <=> where[p] = q /\ \E x \in Rank : p \in Has(x)
<1>1. \A x \in Rank : Len(calls'[x]) = Len(calls'[r])
  BY OthersWait
<1>2. pc'[q] = "data"
  BY OthersWait, OthersKeep, ArrivesIs
<1>3. Entered(q)'
  <2>1. \A x \in Rank : Len(calls'[x]) >= Len(calls'[r])
    BY DEF Entered
  <2> QED  BY <1>1, <2>1 DEF Entered
<1>4. ASSUME NEW x \in Rank PROVE Given(x, q)' = Outgoing(x)
  <2>1. Given(x, q)' = Gave(x)'
    BY <1>1 DEF Given, Gave
  <2>2. CASE x = r
    BY <2>1, <2>2, ArrivesIs
  <2>3. CASE x # r
    <3>1. pc[x] = "data" /\ ~Entered(x) /\ pc[x] \in Ops
      BY <2>3, OthersWait, LabelFacts
    <3>2. Gave(x)' = Gave(x)
      BY <2>3, <3>1, CallsKept
    <3> QED  BY <2>1, <3>1, <3>2 DEF Sending
  <2> QED  BY <2>2, <2>3
<1>5. Incoming(q)' = UNION {(Given(x, q)')[q] : x \in Rank}
  BY DEF Incoming
<1>6. \A x \in Rank : Outgoing(x)[q] = {p \in Has(x) : where[p] = q}
  BY DEF Outgoing
<1> QED  BY <1>2, <1>3, <1>4, <1>5, <1>6 DEF Exchanged

LEMMA ArrivesPlaced ==
    ASSUME Typed, OnTrace, PlacedOnce, Filling, Sending, Keeping, NEW r \in Rank, Turns(r),
           Arrives(r)
    PROVE  PlacedOnce'
<1>1. /\ pc[r] = "types" /\ pc'[r] = "data" /\ where' = where /\ sets' = sets /\ at' = at
      /\ kept' = kept
  BY ArrivesIs DEF local
<1>2. CASE ~Entered(r)'
  <2>1. ASSUME NEW q \in Rank, NEW p PROVE Slots(q, p)' = Slots(q, p)
    <3>1. CASE q = r
      <4>1. (~Hidden(r)' /\ ~Flows(r, p)') \/ Taken(r)'
        BY <1>1, <1>2 DEF Hidden, Flows, Exchanged, OnItsWay
      <4>2. ~Taken(r)'
        BY <1>1 DEF Taken
      <4>3. pc[r] \notin Exchanges
        BY <1>1 DEF Exchanges
      <4>4. \A k : k \in Slots(r, p)' <=> k \in Slots(r, p)
        BY <1>1, <4>1, <4>2, <4>3, PlainSlots, SlotsAreNext
      <4> QED  BY <3>1, <4>4 DEF Slots
    <3>2. CASE q # r
      <4>1. ~Exchanged(q) /\ ~Exchanged(q)'
        BY <1>2, <3>2, ArrivesFirst
      <4>2. (Taken(q)' <=> Taken(q)) /\ (OnItsWay(q)' <=> OnItsWay(q))
        <5>1. pc'[q] = pc[q]
          BY <3>2, OthersKeep
        <5>2. CASE r = Root
          BY <1>1, <5>2 DEF Taken, OnItsWay
        <5>3. CASE r # Root
          <6>1. pc'[Root] = pc[Root]
            BY <5>3, OthersKeep, RootAssumption
          <6> QED  BY <5>1, <6>1 DEF Taken, OnItsWay
        <5> QED  BY <5>2, <5>3
      <4>3. Hidden(q)' <=> Hidden(q)
        BY <4>1, <4>2 DEF Hidden
      <4>4. Flows(q, p)' <=> Flows(q, p)
        BY <1>1, <3>2, <4>1, <4>2, OthersOnTheirWay DEF Flows
      <4>5. \A k : k \in Slots(q, p)' <=> k \in Slots(q, p)
        BY <1>1, <4>3, <4>4, SlotsAre, SlotsAreNext
      <4> QED  BY <4>5 DEF Slots
    <3> QED  BY <3>1, <3>2
  <2>2. \A p \in Particle : where'[p] # Outside =>
           where[p] # Outside \/ \E q \in Rank : Slots(q, p) # {}
    BY <1>1
  <2>3. \A q \in Rank : \A p \in Particle : Slots(q, p)' = Slots(q, p)
    BY <2>1
  <2> QED  BY <2>2, <2>3, PlacedStays
<1>3. CASE Entered(r)'
  <2>1. ASSUME NEW q \in Rank
        PROVE  /\ pc[q] \in Unfilled /\ Exchanged(q)' /\ Hidden(q)'
               /\ \A p : ~Hidden(q) /\ ~Flows(q, p)
               /\ \A k \in 1 .. Len(sets[q]) : k # kept[q]
    <3>1. pc[q] \in {"types", "data"} /\ ~Exchanged(q)
      <4>1. CASE q = r
        BY <1>1, <4>1 DEF Exchanged
      <4>2. CASE q # r
        BY <1>3, <4>2, OthersWait DEF Exchanged
      <4> QED  BY <4>1, <4>2
    <3>2. Exchanged(q)'
      BY <1>3, ArrivesLast
    <3>3. \A k \in 1 .. Len(sets[q]) : k # kept[q]
      BY <3>1, NoneKept DEF KeptLabels, Halted
    <3> QED  BY <3>1, <3>2, <3>3 DEF Unfilled, Hidden, Flows, Taken, OnItsWay
  <2>2. ASSUME NEW q \in Rank, NEW p
        PROVE  Flows(q, p)' <=> where[p] = q /\ \E x \in Rank : p \in Has(x)
    <3>1. Flows(q, p)' <=> p \in Incoming(q)'
      BY <2>1 DEF Flows, Exchanged, OnItsWay
    <3> QED  BY <1>3, <3>1, ArrivesLast
  <2>3. ASSUME NEW q \in Rank, NEW p, NEW k
        PROVE  k \in Slots(q, p) <=> k \in 1 .. Len(sets[q]) /\ p \in sets[q][k]
    BY <2>1, SlotsAre
  <2>4. ASSUME NEW q \in Rank, NEW p
        PROVE  p \in Has(q) <=> at[q] \in Slots(q, p)
    BY <2>1, <2>3, HasIs
  <2>5. ASSUME NEW p, NEW q \in Rank, NEW k
        PROVE  k \in Slots(q, p)' <=>
                  \/ k \in Slots(q, p) /\ k # at[q]
                  \/ k = 0 /\ q = where[p] /\ \E x \in Rank : at[x] \in Slots(x, p)
    BY <1>1, <2>1, <2>2, <2>3, <2>4, SlotsAreNext
  <2>6. \A p \in Particle : where[p] # Outside => where[p] \in Rank
    BY DEF Typed, TypeOK
  <2>7. Handed(at, 0, where)
    BY <2>5, <2>6 DEF Handed
  <2>8. PICK h, to : h = at /\ to = where
    OBVIOUS
  <2>9. Handed(h, 0, to)
    BY <2>7, <2>8
  <2> QED  BY <1>1, <2>9, PlacedHanded
<1> QED  BY <1>2, <1>3

-------------------------------------------------------------------------------
\* A rank takes what has been sent to it.
LEMMA DataIs ==
    ASSUME Typed, OnTrace, Filling, NEW r \in Rank, Data(r)
    PROVE  /\ pc[r] = "data" /\ pc'[r] = "advance" /\ where' = where /\ at' = at /\ end' = end
           /\ Exchanged(r) /\ Incoming(r) \in SUBSET Particle /\ Replace(r, Incoming(r))
<1>1. /\ pc[r] = "data" /\ pc'[r] = "advance" /\ where' = where /\ at' = at /\ end' = end
      /\ Exchanged(r)
  BY GotoIs DEF Data, Exchanged
<1>2. Incoming(r) \subseteq Particle /\ Replace(r, Incoming(r))
  BY GivenParticles DEF Data, Incoming
<1> QED  BY <1>1, <1>2

LEMMA DataPlaced ==
    ASSUME Typed, OnTrace, PlacedOnce, Filling, Keeping, NEW r \in Rank, Turns(r), Data(r)
    PROVE  PlacedOnce'
<1>1. /\ pc[r] = "data" /\ pc'[r] = "advance" /\ where' = where
      /\ Exchanged(r) /\ Incoming(r) \in SUBSET Particle /\ Replace(r, Incoming(r))
  BY DataIs
<1>8. kept[r] = 0 /\ kept'[r] = 0 /\ \A k \in 1 .. Len(sets[r]) : k # 0
  <2>1. kept[r] = 0 /\ \A k \in 1 .. Len(sets[r]) : k # kept[r]
    BY <1>1, NoneKept DEF KeptLabels, Halted
  <2>2. kept' = kept
    BY DEF Data
  <2> QED  BY <2>1, <2>2
<1>2. ASSUME NEW q \in Rank, q # r, NEW p PROVE Slots(q, p)' = Slots(q, p)
  BY <1>1, <1>2, BystanderSlots
<1>3. pc[r] \in Unfilled /\ pc'[r] \notin Exchanges /\ Hidden(r)
  BY <1>1 DEF Unfilled, Exchanges, Hidden
<1>4. ASSUME NEW p, NEW k
      PROVE  k \in Slots(r, p) <=> \/ k \in 1 .. Len(sets[r]) /\ p \in sets[r][k] /\ k # at[r]
                                   \/ k = 0 /\ p \in Incoming(r)
  <2>1. Flows(r, p) <=> p \in Incoming(r)
    BY <1>1 DEF Flows, OnItsWay
  <2> QED  BY <1>3, <1>8, <2>1, SlotsAre
<1>5. ASSUME NEW p, NEW k
      PROVE  k \in Slots(r, p)' <=> \/ k = Position(r) /\ p \in Incoming(r)
                                    \/ k \in Slots(r, p) /\ k # 0
  <2>1. k \in Slots(r, p)' <=> k \in 1 .. Len(sets'[r]) /\ k # 0 /\ p \in sets'[r][k]
    BY <1>3, <1>8, PlainSlots
  <2>2. /\ k \in 1 .. Len(sets'[r]) /\ p \in sets'[r][k] <=>
              \/ k = Position(r) /\ p \in Incoming(r)
              \/ k \in 1 .. Len(sets[r]) /\ k # at[r] /\ p \in sets[r][k]
        /\ Position(r) # 0
    BY <1>1, <1>3, ReplaceIs
  <2> QED  BY <1>4, <1>8, <2>1, <2>2
<1>6. ASSUME NEW p \in Particle
      PROVE  /\ (\E k : k \in Slots(r, p)') <=> (\E k : k \in Slots(r, p))
             /\ \A j, k : j \in Slots(r, p)' /\ k \in Slots(r, p)' => j = k
  <2>1. (\E k : k \in Slots(r, p)') => (\E k : k \in Slots(r, p))
    <3>1. ASSUME NEW k, k \in Slots(r, p)' PROVE \E j : j \in Slots(r, p)
      <4>1. p \in Incoming(r) => 0 \in Slots(r, p)
        BY <1>4
      <4> QED  BY <1>5, <3>1, <4>1
    <3> QED  BY <3>1
  <2>2. (\E k : k \in Slots(r, p)) => (\E k : k \in Slots(r, p)')
    <3>1. ASSUME NEW k, k \in Slots(r, p) PROVE \E j : j \in Slots(r, p)'
      <4>1. CASE k # 0
        BY <1>5, <3>1, <4>1
      <4>2. CASE k = 0
        <5>1. 0 \notin 1 .. Len(sets[r])
          BY DEF Typed, TypeOK
        <5>2. p \in Incoming(r)
          BY <1>4, <3>1, <4>2, <5>1
        <5> QED  BY <1>5, <5>2
      <4> QED  BY <4>1, <4>2
    <3> QED  BY <3>1
  <2>3. ASSUME NEW j, NEW k, j \in Slots(r, p)', k \in Slots(r, p)' PROVE j = k
    <3>1. \A i, l : i \in Slots(r, p) /\ l \in Slots(r, p) => i = l
      BY DEF PlacedOnce
    <3>2. p \in Incoming(r) => 0 \in Slots(r, p)
      BY <1>4
    <3> QED  BY <1>5, <2>3, <3>1, <3>2
  <2> QED  BY <2>1, <2>2, <2>3
<1>7. \A q \in Rank : q # r => \A p \in Particle : Slots(q, p)' = Slots(q, p)
  BY <1>2
<1> QED  BY <1>1, <1>6, <1>7, PlacedElsewhere

\* A rank enters MPI_Gatherv(): rank 0 is not behind it yet.
LEMMA GatherNewPlaced ==
    ASSUME Typed, OnTrace, PlacedOnce, RootIsLast, NEW r \in Rank, Turns(r),
           GatherNew(r), pc'[r] = "gather"
    PROVE  PlacedOnce'
<1>1. /\ pc[r] = "gather_new" /\ where' = where /\ sets' = sets /\ kept' = kept
      /\ pc[r] \in Ops
  BY LabelFacts DEF GatherNew
<1>2. ~Taken(r)'
  <2>1. CASE r = Root
    BY <2>1 DEF Taken
  <2>2. CASE r # Root
    <3>1. pc'[Root] = pc[Root]
      BY <2>2, OthersKeep, RootAssumption
    <3>2. pc[Root] # "gather_set"
      <4>1. SUFFICES ASSUME pc[Root] = "gather_set" PROVE FALSE
        OBVIOUS
      <4>2. Len(calls[r]) >= Len(calls[Root]) - 1
        BY <4>1 DEF RootIsLast
      <4>3. Len(calls[r]) < Len(calls[Root]) /\ Len(calls[r]) # Len(calls[Root]) - 1
        BY <1>1, <4>1, InGatherSet, RootAssumption
      <4>4. Len(calls[r]) \in Nat /\ Len(calls[Root]) \in Nat
        BY StandIs, RootAssumption
      <4> QED  BY <4>2, <4>3, <4>4
    <3> QED  BY <3>1, <3>2 DEF Taken
  <2> QED  BY <2>1, <2>2
<1>3. ASSUME NEW p PROVE Slots(r, p)' = Slots(r, p)
  <2>1. ~Hidden(r)' /\ ~Flows(r, p)'
    BY <1>2 DEF Hidden, Flows, Exchanged, OnItsWay
  <2>2. pc[r] \notin Exchanges
    BY <1>1 DEF Exchanges
  <2>3. \A k : k \in Slots(r, p)' <=> k \in Slots(r, p)
    BY <1>1, <2>1, <2>2, PlainSlots, SlotsAreNext
  <2> QED  BY <2>3 DEF Slots
<1>4. ASSUME NEW q \in Rank, q # r, NEW p PROVE Slots(q, p)' = Slots(q, p)
  <2>1. CASE r # Root
    BY <1>1, <1>4, <2>1, BystanderSlots
  <2>2. CASE r = Root
    <3>1. pc'[q] = pc[q]
      BY <1>4, OthersKeep
    <3>2. (Taken(q)' <=> Taken(q)) /\ (OnItsWay(q)' <=> OnItsWay(q))
      BY <1>1, <2>2, <3>1 DEF Taken, OnItsWay
    <3> QED  BY <1>1, <1>4, <2>2, <3>2, OthersSlots
  <2> QED  BY <2>1, <2>2
<1>5. \A p \in Particle : where'[p] # Outside =>
         where[p] # Outside \/ \E q \in Rank : Slots(q, p) # {}
  BY <1>1
<1>6. \A q \in Rank : \A p \in Particle : Slots(q, p)' = Slots(q, p)
  BY <1>3, <1>4
<1> QED  BY <1>5, <1>6, PlacedStays

\* All have come behind it.
LEMMA GatherSetPlaced ==
    ASSUME Typed, OnTrace, PlacedOnce, NEW r \in Rank, Turns(r), GatherSet(r)
    PROVE  PlacedOnce'
<1>1. /\ pc[r] = "gather_set" /\ pc'[r] = "advance" /\ where' = where /\ sets' = sets
      /\ kept' = kept /\ Entered(r)
  BY GotoIs DEF GatherSet
<1>2. ASSUME NEW q \in Rank, q # r
      PROVE  pc[q] \notin {"gather_new", "gather"}
  <2>1. SUFFICES ASSUME pc[q] \in {"gather_new", "gather"} PROVE FALSE
    OBVIOUS
  <2>2. Len(calls[q]) < Len(calls[r]) /\ Len(calls[q]) >= Len(calls[r])
    BY <1>1, <2>1, InGatherSet DEF Entered
  <2>3. Len(calls[q]) \in Nat /\ Len(calls[r]) \in Nat
    BY StandIs
  <2> QED  BY <2>2, <2>3
<1>3. ASSUME NEW p PROVE Slots(r, p)' = Slots(r, p)
  <2>1. ~Hidden(r) /\ ~Flows(r, p)
    BY <1>1, <1>2, RootAssumption DEF Hidden, Flows, Exchanged, Taken, OnItsWay
  <2>2. pc'[r] \notin Exchanges
    BY <1>1 DEF Exchanges
  <2>3. \A k : k \in Slots(r, p)' <=> k \in Slots(r, p)
    BY <1>1, <2>1, <2>2, PlainSlots, SlotsAre
  <2> QED  BY <2>3 DEF Slots
<1>4. ASSUME NEW q \in Rank, q # r, NEW p PROVE Slots(q, p)' = Slots(q, p)
  <2>1. CASE r # Root
    BY <1>1, <1>4, <2>1, BystanderSlots
  <2>2. CASE r = Root
    <3>1. pc'[q] = pc[q]
      BY <1>4, OthersKeep
    <3>2. (Taken(q)' <=> Taken(q)) /\ (OnItsWay(q)' <=> OnItsWay(q))
      BY <1>1, <1>2, <1>4, <2>2, <3>1 DEF Taken, OnItsWay
    <3> QED  BY <1>1, <1>4, <2>2, <3>2, OthersSlots
  <2> QED  BY <2>1, <2>2
<1>5. \A p \in Particle : where'[p] # Outside =>
         where[p] # Outside \/ \E q \in Rank : Slots(q, p) # {}
  BY <1>1
<1>6. \A q \in Rank : \A p \in Particle : Slots(q, p)' = Slots(q, p)
  BY <1>3, <1>4
<1> QED  BY <1>5, <1>6, PlacedStays

\* The program is stopped: no exchange is going on then.
LEMMA CrashPlaced ==
    ASSUME Typed, OnTrace, PlacedOnce, NEW r \in Rank, Crash(r)
    PROVE  PlacedOnce'
<1>1. /\ pc[r] = "failed" /\ where' = where /\ sets' = sets /\ kept' = kept
      /\ \A q \in Rank : pc'[q] = "crashed"
  BY DEF Crash, Failed
<1>2. ASSUME NEW q \in Rank PROVE pc[q] \notin Exchanges /\ pc'[q] \notin Exchanges
  <2>1. pc[q] # "data"
    BY <1>1, InData
  <2>2. pc[q] # "gather"
    BY <1>1, InGather
  <2>3. pc[q] # "gather_set"
    BY <1>1, InGatherSet, LabelFacts
  <2> QED  BY <1>1, <2>1, <2>2, <2>3 DEF Exchanges
<1>3. ASSUME NEW q \in Rank, NEW p PROVE Slots(q, p)' = Slots(q, p)
  <2>1. \A k : k \in Slots(q, p)' <=> k \in Slots(q, p)
    BY <1>1, <1>2, PlainSlots
  <2> QED  BY <2>1 DEF Slots
<1>4. \A p \in Particle : where'[p] # Outside =>
         where[p] # Outside \/ \E q \in Rank : Slots(q, p) # {}
  BY <1>1
<1>5. \A q \in Rank : \A p \in Particle : Slots(q, p)' = Slots(q, p)
  BY <1>3
<1> QED  BY <1>4, <1>5, PlacedStays

-------------------------------------------------------------------------------
(***************************************************************************)
(* MPI_Gatherv().                                                          *)
(***************************************************************************)
LEMMA GatherIs ==
    ASSUME Typed, OnTrace, Filling, NEW r \in Rank, Gather(r)
    PROVE  /\ pc[r] = "gather" /\ pc'[r] = "gather_set" /\ where' = where /\ at' = at
           /\ end' = end /\ \E s \in {0, 1} : Shifted(r, s, 1)
           /\ r # Root => \/ Replace(r, {}) /\ kept' = kept
                          \/ /\ sets' = sets /\ kept' = [kept EXCEPT ![r] = at[r]]
                             /\ Gave(r)' = 1
           /\ r = Root => /\ Entered(r) /\ UNION Contributed(r) \in SUBSET Particle
                          /\ Replace(r, UNION Contributed(r)) /\ kept' = kept
<1>1. pc[r] = "gather" /\ where' = where /\ at' = at /\ end' = end
  BY DEF Gather
<1>2. PICK c \in Bit : /\ Meet(r, "gather_set", c) /\ (r = Root => c = 0)
                       /\ IF c = 0
                          THEN /\ Replace(r, IF r = Root THEN UNION Contributed(r) ELSE {})
                               /\ UNCHANGED kept
                          ELSE kept' = [kept EXCEPT ![r] = at[r]] /\ UNCHANGED sets
  BY OutcomeIsBit DEF Gather, Bit
<1>7. Enter(r, "gather_set", c) /\ pc'[r] = "gather_set" /\ (c = 0 \/ c = 1)
  BY <1>2, MeetIs DEF Meet, Bit
<1>3. Gave(r)' = c /\ \E s \in {0, 1} : Shifted(r, s, 1)
  BY <1>7, EnterShifts, LabelFacts DEF Value
<1>4. r = Root => UNION Contributed(r) \subseteq Particle
  BY GivenParticles
<1>5. r # Root => \/ Replace(r, {}) /\ kept' = kept
                  \/ /\ sets' = sets /\ kept' = [kept EXCEPT ![r] = at[r]]
                     /\ Gave(r)' = 1
  <2>1. CASE c = 0
    BY <1>2, <2>1
  <2>2. CASE c = 1
    BY <1>2, <1>3, <2>2
  <2> QED  BY <1>7, <2>1, <2>2
<1>6. r = Root => Entered(r) /\ Replace(r, UNION Contributed(r)) /\ kept' = kept
  BY <1>2 DEF Gather
<1> QED  BY <1>1, <1>3, <1>4, <1>5, <1>6, <1>7

\* What rank r has given stays its last call but one, until rank 0 has it.
LEMMA FormerIsGiven ==
    ASSUME Typed, OnTrace, NEW r \in Rank, r # Root, Turns(r), Gather(r), Filling,
           pc[Root] \in {"gather_new", "gather"}
    PROVE  calls'[r][Len(calls'[r]) - 1].value = Gave(r)
<1>1. PICK s \in {0, 1} : Shifted(r, s, 1)
  BY GatherIs
<1>2. PICK m, n, i, j : /\ m = Len(calls'[r]) /\ n = Len(calls[r])
                        /\ i = Len(calls[Root]) /\ j = Len(calls'[Root])
  OBVIOUS
<1>3. /\ m \in Nat /\ n \in Nat /\ m + s = n + 1
      /\ \A k \in 1 .. m : k + s <= n => calls'[r][k] = calls[r][k + s]
  BY <1>1, <1>2 DEF Shifted
<1>4. i \in Nat /\ j \in Nat /\ j + s = i + 0 /\ (s = 1 => j > 0)
  BY <1>1, <1>2, RootAssumption DEF Shifted
<1>5. n > 0 /\ i <= n /\ i > 0
  <2>1. pc[r] = "gather" /\ pc[r] \in Ops /\ pc[Root] \in Ops
    BY GatherIs, LabelFacts
  <2>2. n > 0 /\ i > 0
    BY <1>2, <2>1, InsideCalls, RootAssumption
  <2>3. i = n - 1 \/ i = n
    BY <1>2, <2>1, InGather, RootAssumption
  <2> QED  BY <1>3, <1>4, <2>2, <2>3
<1>6. m > 1
  BY <1>1, <1>3, <1>4, <1>5
<1>7. m - 1 \in 1 .. m /\ m - 1 + s = n
  BY <1>1, <1>3, <1>6
<1>8. calls'[r][m - 1] = calls[r][n]
  <2>1. m - 1 + s <= n
    BY <1>3, <1>7
  <2>2. calls'[r][m - 1] = calls[r][m - 1 + s]
    BY <1>3, <1>7, <2>1
  <2> QED  BY <1>7, <2>2
<1> QED  BY <1>2, <1>8 DEF Gave

LEMMA GatherOwnPlaced ==
    ASSUME Typed, OnTrace, PlacedOnce, Filling, Sending, Keeping, NEW r \in Rank, r # Root,
           Turns(r), Gather(r)
    PROVE  PlacedOnce'
<1>1. /\ pc[r] = "gather" /\ pc'[r] = "gather_set" /\ where' = where /\ at' = at
      /\ pc'[Root] = pc[Root]
  BY GatherIs, OthersKeep, RootAssumption
<1>7. kept[r] = 0 /\ \A k \in 1 .. Len(sets[r]) : k # kept[r] /\ k # 0
  BY <1>1, NoneKept DEF KeptLabels, Halted
<1>2. \A q \in Rank : q # r => \A p \in Particle : Slots(q, p)' = Slots(q, p)
  BY <1>1, BystanderSlots
<1>3. pc[r] \in Unfilled /\ ~Exchanged(r) /\ ~Exchanged(r)' /\ ~Taken(r)' /\ ~Hidden(r)'
      /\ ~OnItsWay(r)
  BY <1>1 DEF Unfilled, Hidden, Exchanged, Taken, OnItsWay
<1>4. ASSUME NEW p, NEW k
      PROVE  k \in 1 .. Len(sets'[r]) /\ k # kept'[r] /\ p \in sets'[r][k] <=>
                k \in 1 .. Len(sets[r]) /\ k # at[r] /\ p \in sets[r][k]
  <2>1. {} \in SUBSET Particle /\ p \notin {}
    OBVIOUS
  <2>2. CASE Replace(r, {}) /\ kept' = kept
    <3>1. k \in 1 .. Len(sets'[r]) /\ p \in sets'[r][k] <=>
             k \in 1 .. Len(sets[r]) /\ k # at[r] /\ p \in sets[r][k]
      BY <1>3, <2>1, <2>2, ReplaceIs
    <3> QED  BY <1>7, <2>2, <3>1
  <2>3. CASE sets' = sets /\ kept' = [kept EXCEPT ![r] = at[r]]
    <3>1. kept'[r] = at[r]
      BY <2>3 DEF Typed, TypeOK
    <3> QED  BY <2>3, <3>1
  <2> QED  BY <2>2, <2>3, GatherIs
<1>5. CASE pc[Root] \in {"gather_new", "gather"}
  <2>1. ~Hidden(r) /\ OnItsWay(r)'
    BY <1>1, <1>3, <1>5 DEF Hidden, Taken, OnItsWay
  <2>2. \A p : ~Flows(r, p)
    BY <1>3 DEF Flows
  <2>3. \A p : Flows(r, p)' <=> p \in Has(r)
    <3>1. calls'[r][Len(calls'[r]) - 1].value = Has(r)
      BY <1>1, <1>5, FormerIsGiven DEF Sending
    <3> QED  BY <1>3, <2>1, <3>1 DEF Flows
  <2>4. ASSUME NEW p, NEW k
        PROVE  k \in Slots(r, p) <=> k \in 1 .. Len(sets[r]) /\ p \in sets[r][k]
    BY <1>7, <2>1, <2>2, SlotsAre
  <2>5. \A p : p \in Has(r) <=> at[r] \in Slots(r, p)
    BY <1>3, <2>4, HasIs
  <2>6. ASSUME NEW p, NEW k
        PROVE  k \in Slots(r, p)' <=> \/ k \in Slots(r, p) /\ k # at[r]
                                      \/ k = 0 /\ at[r] \in Slots(r, p)
    BY <1>3, <1>4, <2>3, <2>4, <2>5, SlotsAreNext
  <2>7. ASSUME NEW p \in Particle
        PROVE  /\ (\E k : k \in Slots(r, p)') <=> (\E k : k \in Slots(r, p))
               /\ \A j, k : j \in Slots(r, p)' /\ k \in Slots(r, p)' => j = k
    <3>1. \A i, l : i \in Slots(r, p) /\ l \in Slots(r, p) => i = l
      BY DEF PlacedOnce
    <3>2. ASSUME NEW j, NEW k, j \in Slots(r, p)', k \in Slots(r, p)' PROVE j = k
      BY <2>6, <3>1, <3>2
    <3>3. (\E k : k \in Slots(r, p)') => (\E k : k \in Slots(r, p))
      BY <2>6
    <3>4. ASSUME NEW k, k \in Slots(r, p) PROVE \E j : j \in Slots(r, p)'
      <4>1. k # at[r] => k \in Slots(r, p)'
        BY <2>6, <3>4
      <4>2. k = at[r] => 0 \in Slots(r, p)'
        BY <2>6, <3>4
      <4> QED  BY <4>1, <4>2
    <3> QED  BY <3>2, <3>3, <3>4
  <2> QED  BY <1>1, <1>2, <2>7, PlacedElsewhere
<1>6. CASE pc[Root] \notin {"gather_new", "gather"}
  <2>1. pc[Root] = "gather_set"
    BY <1>1, <1>6, InGather, RootAssumption
  <2>2. Hidden(r) /\ ~OnItsWay(r)'
    BY <1>1, <2>1 DEF Hidden, Taken, OnItsWay
  <2>3. \A p : ~Flows(r, p) /\ ~Flows(r, p)'
    BY <1>3, <2>2 DEF Flows
  <2>4. ASSUME NEW p, NEW k PROVE k \in Slots(r, p)' <=> k \in Slots(r, p)
    BY <1>3, <1>4, <1>7, <2>2, <2>3, SlotsAre, SlotsAreNext
  <2>5. ASSUME NEW p \in Particle
        PROVE  /\ (\E k : k \in Slots(r, p)') <=> (\E k : k \in Slots(r, p))
               /\ \A j, k : j \in Slots(r, p)' /\ k \in Slots(r, p)' => j = k
    BY <2>4 DEF PlacedOnce
  <2> QED  BY <1>1, <1>2, <2>5, PlacedElsewhere
<1> QED  BY <1>5, <1>6

\* Rank 0 leaves: each of the others has given what it has, and waits or has gone on.
LEMMA GivenToRoot ==
    ASSUME Typed, OnTrace, Filling, Sending, Keeping, pc[Root] = "gather", Entered(Root),
           NEW q \in Rank, NEW p
    PROVE  /\ pc[q] \in {"gather", "gather_set"} /\ (q = Root => pc[q] = "gather")
           /\ p \in Given(q, Root) <=>
                 (IF pc[q] = "gather" THEN at[q] ELSE 0) \in Slots(q, p)
<1>1. /\ Len(calls[q]) \in Nat /\ Len(calls[Root]) \in Nat /\ Len(calls[q]) >= Len(calls[Root])
      /\ Root \in Rank
  BY StandIs, RootAssumption DEF Entered
<1>2. \/ pc[q] = "gather" /\ Len(calls[q]) = Len(calls[Root])
      \/ pc[q] = "gather_set" /\ Len(calls[q]) = Len(calls[Root]) + 1
  BY <1>1, InGather
<1>3. CASE pc[q] = "gather"
  <2>1. Given(q, Root) = Has(q)
    BY <1>2, <1>3 DEF Given, Gave, Sending
  <2>2. pc[q] \in Unfilled /\ ~Hidden(q) /\ ~Flows(q, p)
    BY <1>3 DEF Unfilled, Hidden, Flows, Exchanged, Taken, OnItsWay
  <2>4. \A k \in 1 .. Len(sets[q]) : k # kept[q]
    BY <1>3, NoneKept DEF KeptLabels, Halted
  <2>3. at[q] \in Slots(q, p) <=> p \in Has(q)
    BY <2>2, <2>4, HasIs, SlotsAre
  <2> QED  BY <1>3, <2>1, <2>3
<1>4. CASE pc[q] = "gather_set"
  <2>1. q # Root /\ OnItsWay(q) /\ ~Exchanged(q)
    BY <1>4 DEF OnItsWay, Exchanged
  <2>2. Given(q, Root) = calls[q][Len(calls[q]) - 1].value
    <3>1. Len(calls[q]) - 1 = Len(calls[Root])
      BY <1>1, <1>2, <1>4
    <3> QED  BY <3>1 DEF Given
  <2>3. 0 \notin 1 .. Len(sets[q])
    BY DEF Typed, TypeOK
  <2>4. 0 \in Slots(q, p) <=> p \in Given(q, Root)
    BY <2>1, <2>2, <2>3, SlotsAre DEF Flows
  <2> QED  BY <1>4, <2>1, <2>4
<1> QED  BY <1>2, <1>3, <1>4

LEMMA GatherRootPlaced ==
    ASSUME Typed, OnTrace, PlacedOnce, Filling, Sending, Keeping, Turns(Root), Gather(Root)
    PROVE  PlacedOnce'
<1>1. /\ pc[Root] = "gather" /\ pc'[Root] = "gather_set" /\ where' = where /\ Root \in Rank
      /\ at' = at /\ Entered(Root) /\ UNION Contributed(Root) \in SUBSET Particle
      /\ Replace(Root, UNION Contributed(Root)) /\ kept' = kept
  BY GatherIs, RootAssumption
<1>9. \A k \in 1 .. Len(sets[Root]) : k # kept[Root] /\ k # 0
  <2>1. kept[Root] = 0 /\ \A k \in 1 .. Len(sets[Root]) : k # kept[Root]
    BY <1>1, NoneKept DEF KeptLabels, Halted
  <2> QED  BY <2>1
<1>10. kept[Root] = 0 /\ kept'[Root] = 0
  BY <1>1, NoneKept DEF KeptLabels, Halted
<1>2. PICK h : h = [q \in Rank |-> IF pc[q] = "gather" THEN at[q] ELSE 0]
  OBVIOUS
<1>3. ASSUME NEW q \in Rank, NEW p
      PROVE  /\ pc[q] \in {"gather", "gather_set"}
             /\ p \in Given(q, Root) <=> h[q] \in Slots(q, p)
  BY <1>1, <1>2, <1>3, GivenToRoot
<1>4. ASSUME NEW p
      PROVE  p \in UNION Contributed(Root) <=> \E x \in Rank : h[x] \in Slots(x, p)
  <2>1. p \in UNION Contributed(Root) <=> \E x \in Rank : p \in Given(x, Root)
    BY DEF Contributed
  <2> QED  BY <1>3, <2>1
<1>5. ASSUME NEW p, NEW k
      PROVE  k \in Slots(Root, p)' <=>
                \/ k \in Slots(Root, p) /\ k # h[Root]
                \/ k = Position(Root) /\ \E x \in Rank : h[x] \in Slots(x, p)
  <2>1. pc[Root] \in Unfilled /\ h[Root] = at[Root]
    BY <1>1, <1>2 DEF Unfilled
  <2>2. /\ ~Hidden(Root) /\ ~Flows(Root, p) /\ ~Hidden(Root)' /\ ~Flows(Root, p)'
    BY <1>1 DEF Hidden, Flows, Exchanged, Taken, OnItsWay
  <2>3. /\ k \in 1 .. Len(sets'[Root]) /\ p \in sets'[Root][k] <=>
              \/ k = Position(Root) /\ p \in UNION Contributed(Root)
              \/ k \in 1 .. Len(sets[Root]) /\ k # at[Root] /\ p \in sets[Root][k]
        /\ Position(Root) # 0
    BY <1>1, <2>1, ReplaceIs
  <2>4. k \in Slots(Root, p)' <=> k \in 1 .. Len(sets'[Root]) /\ k # 0 /\ p \in sets'[Root][k]
    BY <1>10, <2>2, SlotsAreNext
  <2>5. k \in Slots(Root, p) <=> k \in 1 .. Len(sets[Root]) /\ p \in sets[Root][k]
    BY <1>9, <2>2, SlotsAre
  <2> QED  BY <1>4, <1>9, <2>1, <2>3, <2>4, <2>5
<1>6. ASSUME NEW q \in Rank, q # Root, NEW p, NEW k
      PROVE  k \in Slots(q, p)' <=> k \in Slots(q, p) /\ k # h[q]
  <2>1. pc'[q] = pc[q] /\ sets'[q] = sets[q] /\ at'[q] = at[q] /\ kept'[q] = kept[q]
    BY <1>1, <1>6, OthersKeep
  <2>2. CASE pc[q] = "gather"
    <3>1. Hidden(q)' /\ ~Hidden(q) /\ ~Flows(q, p) /\ ~Flows(q, p)' /\ h[q] = at[q]
      BY <1>1, <1>2, <1>6, <2>1, <2>2 DEF Hidden, Flows, Exchanged, Taken, OnItsWay
    <3>2. 0 \notin 1 .. Len(sets[q])
      BY DEF Typed, TypeOK
    <3> QED  BY <2>1, <3>1, <3>2, SlotsAre, SlotsAreNext
  <2>3. CASE pc[q] = "gather_set"
    <3>1. ~Hidden(q)' /\ ~Hidden(q) /\ ~Flows(q, p)' /\ h[q] = 0
      BY <1>1, <1>2, <2>1, <2>3 DEF Hidden, Flows, Exchanged, Taken, OnItsWay
    <3>2. 0 \notin 1 .. Len(sets[q])
      BY DEF Typed, TypeOK
    <3> QED  BY <2>1, <3>1, <3>2, SlotsAre, SlotsAreNext
  <2> QED  BY <1>3, <2>2, <2>3
<1>7. PICK d, to : d = Position(Root) /\ to = [p \in Particle |-> Root]
  OBVIOUS
<1>8. Handed(h, d, to)
  <2>1. ASSUME NEW p \in Particle, NEW q \in Rank, NEW k
        PROVE  k \in Slots(q, p)' <=>
                  \/ k \in Slots(q, p) /\ k # h[q]
                  \/ k = d /\ q = to[p] /\ \E x \in Rank : h[x] \in Slots(x, p)
    <3>1. to[p] = Root
      BY <1>7
    <3>2. CASE q = Root
      BY <1>5, <1>7, <3>1, <3>2
    <3>3. CASE q # Root
      BY <1>6, <3>1, <3>3
    <3> QED  BY <3>2, <3>3
  <2>2. \A p \in Particle : to[p] \in Rank
    BY <1>1, <1>7
  <2> QED  BY <2>1, <2>2 DEF Handed
<1> QED  BY <1>1, <1>8, PlacedHanded

\* However the particles are handed over, every one of them keeps exactly one place.
LEMMA PlacedStep ==
    ASSUME Cleared, Typed, OnTrace, Placing, NEW r \in Rank, Step(r), ~Crash(r)
    PROVE  PlacedOnce'
<1>1. Turns(r)
  BY StepTurns
<1>2. PlacedOnce /\ Filling /\ Sending /\ RootIsLast /\ Keeping
  BY DEF Placing
<1>3. CASE Aside(r)
  BY <1>1, <1>2, <1>3, AsidePlaced
<1>4. CASE Types(r) /\ pc'[r] = "data"
  BY <1>1, <1>2, <1>4, ArrivesPlaced DEF Arrives
<1>5. CASE Data(r)
  BY <1>1, <1>2, <1>5, DataPlaced
<1>6. CASE GatherNew(r) /\ pc'[r] = "gather"
  BY <1>1, <1>2, <1>6, GatherNewPlaced
<1>7. CASE Gather(r)
  <2>1. r # Root => PlacedOnce'
    BY <1>1, <1>2, <1>7, GatherOwnPlaced
  <2>2. r = Root => PlacedOnce'
    BY <1>1, <1>2, <1>7, GatherRootPlaced
  <2> QED  BY <2>1, <2>2
<1>8. CASE GatherSet(r)
  BY <1>1, <1>2, <1>8, GatherSetPlaced
<1> QED  BY <1>3, <1>4, <1>5, <1>6, <1>7, <1>8, Kinds

-------------------------------------------------------------------------------
(***************************************************************************)
(* What PlacedOnce rests on is kept as well.                               *)
(***************************************************************************)
\* The position in the list stays, and a set that has been replaced is not at hand again.
ListKept(r) ==
    /\ at'[r] = at[r] /\ end'[r] = end[r] /\ sets' = sets
    /\ pc'[r] \in Unfilled => pc[r] \in Unfilled
    /\ pc'[r] \in Filled => pc[r] \in Unfilled \cup Filled

LEMMA ListKinds ==
    ASSUME Typed, NEW r \in Rank, Step(r), ~Crash(r)
    PROVE  \/ ListKept(r)
           \/ Begin(r) /\ sets' = sets /\ pc'[r] \notin Filled
           \/ NextSet(r)
           \/ Data(r) \/ Gather(r)
<1>1. CASE Rects(r) \/ (Output(r) /\ step[r] \in GatherAt)
  <2>1. Begin(r) /\ sets' = sets
    BY <1>1 DEF Rects, Output
  <2> QED  BY <1>1, <2>1, StepPaths DEF Filled
<1>2. CASE StepBegin(r) \/ Bounds(r) \/ Ends(r) \/ EndsLeave(r) \/ NextLeave(r)
  <2>1. at' = at /\ end' = end /\ sets' = sets
    BY <1>2 DEF StepBegin, Bounds, Ends, EndsLeave, NextLeave, local
  <2> QED  BY <1>2, <2>1, StepPaths DEF ListKept, Unfilled, Filled
<1>3. CASE Buffer(r) \/ AnyParticle(r) \/ Counted(r) \/ Whole(r) \/ SetRoot(r) \/ New(r)
           \/ Numbers(r) \/ Types(r) \/ Failed(r)
  <2>1. at' = at /\ end' = end /\ sets' = sets
    BY <1>3 DEF Buffer, AnyParticle, Counted, Whole, SetRoot, New, Numbers, Types, Failed, local
  <2> QED  BY <1>3, <2>1, StepPaths DEF ListKept, Unfilled, Filled
<1>4. CASE Substeps(r) \/ SubstepsLeave(r) \/ Stage(r) \/ Walls(r)
           \/ (Output(r) /\ step[r] \notin GatherAt) \/ Report(r)
  <2>1. at' = at /\ end' = end /\ sets' = sets
    BY <1>4 DEF Substeps, SubstepsLeave, Stage, Walls, Output, Report, local
  <2>2. Output(r) /\ step[r] \notin GatherAt => pc'[r] = "report"
    BY MeetIs DEF Output
  <2> QED  BY <1>4, <2>1, <2>2, StepPaths DEF ListKept, Unfilled, Filled
<1>5. CASE GatherRoot(r) \/ GatherNew(r) \/ GatherSet(r)
  <2>1. at' = at /\ end' = end /\ sets' = sets
    BY <1>5 DEF GatherRoot, GatherNew, GatherSet, local
  <2> QED  BY <1>5, <2>1, StepPaths DEF ListKept, Unfilled, Filled
<1> QED  BY <1>1, <1>2, <1>3, <1>4, <1>5 DEF Step

\* The list of a rank fits the position.
Fills(l, a, n, s) ==
    /\ l \in Unfilled => IF a > n THEN Len(s) < a ELSE Len(s) = n
    /\ l \in Filled   => IF a > n THEN Len(s) <= a ELSE Len(s) = n

LEMMA FillingIs == Filling <=> \A r \in Rank : Fills(pc[r], at[r], end[r], sets[r])
BY DEF Filling, Fills, AtEnd

LEMMA FillingIsNext == Filling' <=> \A r \in Rank : Fills(pc'[r], at'[r], end'[r], sets'[r])
BY DEF Filling, Fills, AtEnd, Unfilled, Filled

LEMMA FillingStep ==
    ASSUME Typed, OnTrace, Filling, NEW r \in Rank, Step(r), ~Crash(r), Turns(r)
    PROVE  Filling'
<1>1. \A q \in Rank : Fills(pc[q], at[q], end[q], sets[q])
  BY FillingIs
<1>2. ASSUME NEW q \in Rank, q # r PROVE Fills(pc'[q], at'[q], end'[q], sets'[q])
  BY <1>1, <1>2, OthersKeep
<1> SUFFICES Fills(pc'[r], at'[r], end'[r], sets'[r])
  BY <1>2, FillingIsNext
<1>3. /\ at[r] \in Nat \ {0} /\ end[r] \in Nat /\ sets[r] \in Seq(SUBSET Particle)
      /\ Len(sets[r]) \in Nat
  BY DEF Typed, TypeOK
<1>4. CASE ListKept(r)
  BY <1>1, <1>3, <1>4 DEF ListKept, Fills
<1>5. CASE Begin(r) /\ sets' = sets /\ pc'[r] \notin Filled
  <2>1. at'[r] = 1 /\ end'[r] = Len(sets[r])
    BY <1>5 DEF Begin, Typed, TypeOK
  <2> QED  BY <1>3, <1>5, <2>1 DEF Fills
<1>6. CASE NextSet(r)
  <2>1. /\ pc[r] = "advance" /\ pc'[r] = "next" /\ at'[r] = at[r] + 1
        /\ end'[r] = end[r] /\ sets'[r] = sets[r]
    <3>1. pc[r] = "advance" /\ pc'[r] = "next"
      BY <1>6, MeetIs DEF NextSet
    <3> QED  BY <1>6, <3>1 DEF NextSet, Typed, TypeOK
  <2>2. "advance" \in Filled /\ "next" \notin Filled
    BY DEF Filled
  <2>3. IF at[r] > end[r] THEN Len(sets[r]) <= at[r] ELSE Len(sets[r]) = end[r]
    BY <1>1, <2>1, <2>2 DEF Fills
  <2>4. IF at[r] + 1 > end[r] THEN Len(sets[r]) < at[r] + 1 ELSE Len(sets[r]) = end[r]
    BY <1>3, <2>3
  <2> QED  BY <2>1, <2>2, <2>4 DEF Fills
<1>8. CASE Gather(r) /\ sets' = sets
  <2>1. pc[r] = "gather" /\ pc'[r] = "gather_set" /\ at' = at /\ end' = end
    BY <1>8, GatherIs
  <2>2. pc[r] \in Unfilled /\ pc'[r] \notin Unfilled /\ sets' = sets
    BY <1>8, <2>1 DEF Unfilled
  <2>3. IF at[r] > end[r] THEN Len(sets[r]) < at[r] ELSE Len(sets[r]) = end[r]
    BY <1>1, <2>2 DEF Fills
  <2>4. IF at[r] > end[r] THEN Len(sets[r]) <= at[r] ELSE Len(sets[r]) = end[r]
    BY <1>3, <2>3
  <2> QED  BY <2>1, <2>2, <2>4 DEF Fills
<1>7. CASE Data(r) \/ (Gather(r) /\ sets' # sets)
  <2>1. /\ pc[r] \in Unfilled /\ pc'[r] \in Filled /\ at' = at /\ end' = end
        /\ \E s \in SUBSET Particle : Replace(r, s)
    <3>1. CASE Data(r)
      <4>1. /\ pc[r] = "data" /\ pc'[r] = "advance" /\ at' = at /\ end' = end
            /\ \E s \in SUBSET Particle : Replace(r, s)
        BY <3>1, DataIs
      <4> QED  BY <4>1 DEF Unfilled, Filled
    <3>2. CASE Gather(r) /\ sets' # sets
      <4>1. /\ pc[r] = "gather" /\ pc'[r] = "gather_set" /\ at' = at /\ end' = end
        BY <3>2, GatherIs
      <4>2. {} \in SUBSET Particle
        OBVIOUS
      <4>3. \E s \in SUBSET Particle : Replace(r, s)
        BY <3>2, <4>2, GatherIs
      <4> QED  BY <4>1, <4>3 DEF Unfilled, Filled
    <3> QED  BY <1>7, <3>1, <3>2
  <2>2. Len(sets'[r]) = IF AtEnd(r) THEN Len(sets[r]) + 1 ELSE Len(sets[r])
    BY <2>1, ReplaceIs
  <2>3. IF at[r] > end[r] THEN Len(sets[r]) < at[r] ELSE Len(sets[r]) = end[r]
    BY <1>1, <2>1 DEF Fills
  <2>4. pc'[r] \notin Unfilled
    BY <2>1 DEF Unfilled, Filled
  <2>5. IF at[r] > end[r] THEN Len(sets'[r]) <= at[r] ELSE Len(sets'[r]) = end[r]
    BY <1>3, <2>2, <2>3 DEF AtEnd
  <2> QED  BY <2>1, <2>4, <2>5 DEF Fills
<1> QED  BY <1>4, <1>5, <1>6, <1>7, <1>8, ListKinds

\* The others have what they had, and it is where it was.
LEMMA HasKept ==
    ASSUME NEW r \in Rank, Turns(r), NEW q \in Rank, q # r
    PROVE  (AtEnd(q)' <=> AtEnd(q)) /\ Has(q)' = Has(q)
<1>1. sets'[q] = sets[q] /\ at'[q] = at[q] /\ end'[q] = end[q]
  BY OthersKeep
<1> QED  BY <1>1 DEF Has, AtEnd

LEMMA SendingStep ==
    ASSUME Typed, OnTrace, Placing, NEW r \in Rank, Step(r), ~Crash(r), Turns(r)
    PROVE  Sending'
<1>1. PlacedOnce /\ Filling /\ Sending /\ Keeping
  BY DEF Placing
<1>2. ASSUME NEW q \in Rank, q # r, pc'[q] = "data", ~Entered(q)'
      PROVE  Gave(q)' = Outgoing(q)'
  <2>1. pc[q] = "data" /\ pc[q] \in Ops
    BY <1>2, OthersKeep, LabelFacts
  <2>2. ~Entered(q) /\ Gave(q)' = Gave(q)
    <3>1. Entered(q) => Entered(q)'
      BY <1>2, <2>1, CallsKept DEF Entered
    <3> QED  BY <1>2, <2>1, <3>1, CallsKept
  <2>3. Has(q)' = Has(q)
    BY <1>2, HasKept
  <2>4. ASSUME NEW p \in Has(q) PROVE where'[p] = where[p]
    <3>1. p \in Particle
      BY OutgoingTyped
    <3>2. pc[q] \in Unfilled /\ ~Hidden(q)
      BY <2>1, <2>2 DEF Unfilled, Hidden, Exchanged, Taken
    <3>4. \A k \in 1 .. Len(sets[q]) : k # kept[q]
      BY <1>1, <2>1, NoneKept DEF KeptLabels, Halted
    <3>3. at[q] \in Slots(q, p)
      BY <1>1, <3>2, <3>4, HasIs, SlotsAre
    <3> QED  BY <1>1, <1>2, <3>1, <3>3, WhereKept
  <2>5. Outgoing(q)' = Outgoing(q)
    <3>1. Outgoing(q)' = [x \in Rank |-> {p \in Has(q)' : where'[p] = x}]
      BY DEF Outgoing
    <3>2. \A x : {p \in Has(q)' : where'[p] = x} = {p \in Has(q) : where[p] = x}
      BY <2>3, <2>4
    <3> QED  BY <3>1, <3>2 DEF Outgoing
  <2> QED  BY <1>1, <2>1, <2>2, <2>5 DEF Sending
<1>3. ASSUME NEW q \in Rank, q # r, pc'[q] = "gather"
      PROVE  Gave(q)' = Has(q)'
  <2>1. pc[q] = "gather" /\ pc[q] \in Ops
    BY <1>3, OthersKeep, LabelFacts
  <2>2. Gave(q)' = Gave(q) /\ Has(q)' = Has(q)
    BY <1>3, <2>1, CallsKept, HasKept
  <2> QED  BY <1>1, <2>1, <2>2 DEF Sending
<1>4. ASSUME pc'[r] = "data" PROVE Gave(r)' = Outgoing(r)'
  <2>1. Arrives(r)
    BY <1>4, Kinds, StepPaths DEF Arrives, Aside, Exchanges
  <2>2. Gave(r)' = Outgoing(r) /\ UNCHANGED local
    BY <2>1, ArrivesIs
  <2>3. Outgoing(r)' = Outgoing(r)
    BY <2>2 DEF Outgoing, Has, AtEnd, local
  <2> QED  BY <2>2, <2>3
<1>5. ASSUME pc'[r] = "gather" PROVE Gave(r)' = Has(r)'
  <2>1. GatherNew(r)
    BY <1>5, Kinds, StepPaths DEF Aside, Exchanges
  <2>2. Enter(r, "gather", Has(r)) /\ sets' = sets /\ at' = at /\ end' = end
    <3>1. ~Goto(r, "advance")
      BY <1>5, GotoIs
    <3> QED  BY <2>1, <3>1 DEF GatherNew, Meet
  <2>3. Has(r) \in Value /\ "gather" \in Ops
    BY OutgoingTyped, LabelFacts DEF Value
  <2>4. Gave(r)' = Has(r)
    BY <2>2, <2>3, EnterShifts
  <2>5. Has(r)' = Has(r)
    BY <2>2 DEF Has, AtEnd
  <2> QED  BY <2>4, <2>5
<1>6. ASSUME NEW q \in Rank
      PROVE  /\ pc'[q] = "data" /\ ~Entered(q)' => Gave(q)' = Outgoing(q)'
             /\ pc'[q] = "gather" => Gave(q)' = Has(q)'
  BY <1>2, <1>3, <1>4, <1>5
<1> QED  BY <1>6 DEF Sending

LEMMA RootIsLastStep ==
    ASSUME Typed, OnTrace, Filling, RootIsLast, NEW r \in Rank, Step(r), ~Crash(r), Turns(r)
    PROVE  RootIsLast'
<1> SUFFICES ASSUME pc'[Root] = "gather_set", NEW q \in Rank
             PROVE  Len(calls'[q]) >= Len(calls'[Root]) - 1
  BY DEF RootIsLast
<1>1. PICK s, b \in {0, 1} : Shifted(r, s, b)
  BY StepShifts
<1>2. PICK i, j, m, n : /\ i = Len(calls[q]) /\ j = Len(calls[Root])
                        /\ m = Len(calls'[q]) /\ n = Len(calls'[Root])
  OBVIOUS
<1>3. i \in Nat /\ m \in Nat /\ m + s >= i
  <2>1. i \in Nat /\ m \in Nat /\ m + s = i + (IF q = r THEN b ELSE 0)
    BY <1>1, <1>2 DEF Shifted
  <2> QED  BY <1>1, <2>1
<1>4. j \in Nat /\ n \in Nat /\ n + s = j + (IF Root = r THEN b ELSE 0)
  BY <1>1, <1>2, RootAssumption DEF Shifted
<1>5. CASE r = Root
  <2>1. Gather(r)
    BY <1>5, Kinds, StepPaths DEF Aside, Exchanges
  <2>2. i >= j
    BY <1>2, <1>5, <2>1, GatherIs DEF Entered
  <2>3. n + s <= j + 1
    BY <1>1, <1>4
  <2>4. m >= n - 1
    BY <1>1, <1>3, <1>4, <2>2, <2>3
  <2> QED  BY <1>2, <2>4
<1>6. CASE r # Root
  <2>1. pc[Root] = "gather_set"
    BY <1>6, OthersKeep, RootAssumption
  <2>2. i >= j - 1
    BY <1>2, <2>1 DEF RootIsLast
  <2>3. n + s = j + 0
    BY <1>4, <1>6
  <2>4. m >= n - 1
    BY <1>1, <1>3, <1>4, <2>2, <2>3
  <2> QED  BY <1>2, <2>4
<1> QED  BY <1>5, <1>6

\* A rank that has failed makes the others fail.
LEMMA FailureIsLargest ==
    ASSUME Typed, OnTrace, NEW r \in Rank, pc[r] \in {"gather_set", "next", "report"},
           Entered(r), Gave(r) = 1
    PROVE  Largest(r) = 1 /\ (pc[r] = "gather_set" => gathers[r])
<1>1. PICK l, x : l = pc[r] /\ x = X(r)
  OBVIOUS
<1>2. /\ l \in Ops /\ l \in Binary /\ x \in Common /\ x.gathers = gathers[r]
      /\ l \in {"gather_set", "next", "report"}
  BY <1>1, LabelFacts, CommonIs DEF Binary
<1>3. P(l, x).op = l /\ How(P(l, x)) = "largest"
  BY <1>2, OpOfPlace DEF How
<1>4. Fits(l, x) /\ Allowed(P(l, x), Largest(r)) /\ \A q \in Rank : Given(q, r) <= Largest(r)
  BY <1>1, <1>2, <1>3, CallResult
<1>5. Largest(r) \in Bit
  BY <1>2, <1>4, AllowedIs
<1>6. Given(r, r) = 1 /\ Given(r, r) <= Largest(r)
  BY <1>4 DEF Given, Gave
<1>7. Largest(r) = 1
  BY <1>5, <1>6 DEF Bit
<1>8. l = "gather_set" => x.gathers
  BY <1>4 DEF Fits, Gathering
<1> QED  BY <1>1, <1>2, <1>7, <1>8

LEMMA KeepingStep ==
    ASSUME Typed, OnTrace, Filling, Keeping, NEW r \in Rank, Step(r), ~Crash(r), Turns(r)
    PROVE  Keeping'
<1>1. ASSUME NEW q \in Rank, q # r PROVE KeptAt(q)'
  <2>1. /\ pc'[q] = pc[q] /\ err'[q] = err[q] /\ gathers'[q] = gathers[q] /\ kept'[q] = kept[q]
    BY <1>1, OthersKeep
  <2>2. pc[q] \in Ops => Gave(q)' = Gave(q)
    BY <1>1, CallsKept
  <2>3. {"gather_set", "next", "report"} \subseteq Ops
    BY LabelFacts
  <2> QED  BY <2>1, <2>2, <2>3 DEF Keeping, KeptAt
<1>2. ASSUME kept'[r] # 0 PROVE KeptAt(r)'
  <2>1. KeptAt(r)
    BY DEF Keeping
  <2>2. CASE Gather(r)
    <3>1. pc[r] = "gather" /\ pc'[r] = "gather_set"
      BY <2>2, GatherIs
    <3>2. kept[r] = 0
      BY <3>1, NoneKept DEF KeptLabels, Halted
    <3>3. r # Root /\ Gave(r)' = 1
      BY <1>2, <2>2, <3>2, GatherIs
    <3> QED  BY <3>1, <3>3 DEF KeptAt
  <2>3. CASE ~Gather(r)
    <3>1. kept' = kept
      BY <2>3, Kinds DEF Aside, Types, Data, GatherNew, GatherSet, local
    <3>2. kept[r] # 0 /\ r # Root /\ pc[r] \in KeptLabels
      BY <1>2, <2>1, <3>1 DEF KeptAt, KeptLabels
    <3>3. CASE GatherSet(r)
      <4>1. pc[r] = "gather_set" /\ pc'[r] = "advance" /\ Entered(r)
        BY <3>3, StepPaths DEF GatherSet
      <4>2. Gave(r) = 1
        BY <2>1, <3>2, <4>1 DEF KeptAt, Halted
      <4>3. Largest(r) = 1 /\ gathers[r]
        BY <4>1, <4>2, FailureIsLargest
      <4>4. err'[r] = 1 /\ gathers'[r]
        BY <3>3, <4>3 DEF GatherSet, Code, Typed, TypeOK
      <4> QED  BY <3>2, <4>1, <4>4 DEF KeptAt
    <3>4. CASE NextSet(r)
      <4>1. pc[r] = "advance" /\ pc'[r] = "next"
        BY <3>4, StepPaths
      <4>2. err[r] = 1 /\ gathers[r]
        BY <2>1, <3>2, <4>1 DEF KeptAt, Halted
      <4>3. PICK v \in Value : v = 1 /\ Enter(r, "next", v)
        BY <3>4, <4>2 DEF NextSet, Meet, Value
      <4>4. Gave(r)' = 1
        BY <4>3, EnterShifts, LabelFacts DEF Ops
      <4>5. gathers'[r]
        BY <3>4, <4>2 DEF NextSet
      <4> QED  BY <3>2, <4>1, <4>4, <4>5 DEF KeptAt
    <3>5. CASE NextLeave(r)
      <4>1. pc[r] = "next" /\ Entered(r)
        BY <3>5 DEF NextLeave
      <4>2. Gave(r) = 1 /\ gathers[r]
        BY <2>1, <3>2, <4>1 DEF KeptAt, Halted
      <4>3. Largest(r) = 1
        BY <4>1, <4>2, FailureIsLargest
      <4>4. Meet(r, "report", 1)
        BY <3>5, <4>2, <4>3 DEF NextLeave
      <4>5. PICK v \in Value : v = 1 /\ Enter(r, "report", v)
        BY <4>4 DEF Meet, Value
      <4>6. Gave(r)' = 1
        BY <4>5, EnterShifts, LabelFacts DEF Ops
      <4>7. pc'[r] = "report"
        BY <4>4, MeetIs
      <4> QED  BY <3>2, <4>6, <4>7 DEF KeptAt
    <3>6. CASE Report(r)
      <4>1. pc[r] = "report" /\ Entered(r)
        BY <3>6 DEF Report
      <4>2. Gave(r) = 1
        BY <2>1, <3>2, <4>1 DEF KeptAt, Halted
      <4>3. Largest(r) = 1
        BY <4>1, <4>2, FailureIsLargest
      <4>4. pc'[r] = "aborted"
        BY <3>6, <4>3, GotoIs DEF Report
      <4> QED  BY <3>2, <4>4 DEF KeptAt, Halted
    <3>7. GatherSet(r) \/ NextSet(r) \/ NextLeave(r) \/ Report(r)
      <4>1. pc[r] \in {"gather_set", "advance", "next", "report", "ended", "aborted", "crashed"}
        BY <3>2 DEF KeptLabels, Halted
      <4> QED  BY <2>3, <4>1, StepPaths DEF Step
    <3> QED  BY <3>3, <3>4, <3>5, <3>6, <3>7
  <2> QED  BY <2>2, <2>3
<1>3. KeptAt(r)'
  BY <1>2 DEF KeptAt
<1> QED  BY <1>1, <1>3 DEF Keeping

LEMMA PlacingStep ==
    ASSUME Cleared, Typed, OnTrace, Placing, NEW r \in Rank, Step(r), ~Crash(r)
    PROVE  Placing'
<1>1. Turns(r)
  BY StepTurns
<1>2. PlacedOnce'
  BY PlacedStep
<1>3. Filling' /\ Sending' /\ RootIsLast' /\ Keeping'
  BY <1>1, FillingStep, SendingStep, RootIsLastStep, KeepingStep DEF Placing
<1> QED  BY <1>2, <1>3 DEF Placing

-------------------------------------------------------------------------------
LEMMA PlacingNext ==
    ASSUME Course, Placing, [Next]_vars
    PROVE  Placing'
<1>1. ASSUME NEW r \in Rank, Step(r) PROVE Placing'
  <2>1. CASE OnTrace /\ ~Crash(r)
    BY <1>1, <2>1, PlacingStep DEF Course
  <2>2. CASE OnTrace /\ Crash(r)
    <3>1. PlacedOnce'
      BY <2>2, CrashPlaced DEF Course, Placing
    <3>2. \A q \in Rank : pc'[q] = "crashed"
      BY <2>2 DEF Crash
    <3>3. Filling' /\ Sending' /\ RootIsLast'
      BY <3>2, RootAssumption DEF Filling, Sending, RootIsLast, Unfilled, Filled
    <3>4. kept' = kept
      BY <2>2 DEF Crash, Failed
    <3>5. Keeping'
      BY <3>2, <3>4 DEF Placing, Keeping, KeptAt, Halted
    <3> QED  BY <3>1, <3>3, <3>5 DEF Placing
  <2>3. CASE Crashed
    BY <1>1, <2>3, CrashedIsOver
  <2> QED  BY <2>1, <2>2, <2>3 DEF Course
<1>2. ASSUME UNCHANGED vars PROVE Placing'
  <2>1. /\ calls' = calls /\ pc' = pc /\ where' = where /\ sets' = sets /\ at' = at /\ end' = end
        /\ kept' = kept /\ err' = err /\ gathers' = gathers
    BY <1>2 DEF vars, local
  <2>2. PlacedOnce'
    <3>1. ASSUME NEW q, NEW p PROVE Slots(q, p)' = Slots(q, p)
      BY <2>1 DEF Slots, Exchanged, Entered, Incoming, Given, Taken, OnItsWay
    <3>2. \A p \in Particle : where'[p] # Outside =>
             where[p] # Outside \/ \E q \in Rank : Slots(q, p) # {}
      BY <2>1
    <3>3. \A q \in Rank : \A p \in Particle : Slots(q, p)' = Slots(q, p)
      BY <3>1
    <3> QED  BY <3>2, <3>3, PlacedStays DEF Placing
  <2>3. Filling'
    BY <2>1, FillingIs, FillingIsNext DEF Placing
  <2>4. Sending' /\ RootIsLast'
    BY <2>1 DEF Placing, Sending, RootIsLast, Gave, Entered, Outgoing, Has, AtEnd
  <2>5. Keeping'
    BY <2>1 DEF Placing, Keeping, KeptAt, Gave
  <2> QED  BY <2>2, <2>3, <2>4, <2>5 DEF Placing
<1> QED  BY <1>1, <1>2 DEF Next, Over

LEMMA InitPlacing == Cleared /\ Init => Placing
<1> SUFFICES ASSUME Cleared, Init PROVE Placing
  OBVIOUS
<1>1. Typed
  BY InitCourse DEF Course
<1>2. \A r \in Rank : pc[r] = "step"
  <2>1. pc = [r \in Rank |-> "step"]
    BY DEF Init
  <2> QED  BY <2>1, Zenon
<1>3. Filling /\ Sending /\ RootIsLast
  BY <1>2, RootAssumption DEF Filling, Sending, RootIsLast, Unfilled, Filled
<1>9. Keeping
  BY DEF Init, Keeping, KeptAt
<1>4. ASSUME NEW r \in Rank, NEW p, NEW k
      PROVE  k \in Slots(r, p) <=> k \in DOMAIN sets[r] /\ p \in sets[r][k]
  <2>1. sets[r] \in Seq(SUBSET Particle)
    BY <1>1 DEF Typed, TypeOK
  <2>2. DOMAIN sets[r] = 1 .. Len(sets[r])
    BY <2>1
  <2>3. pc[r] \notin Exchanges /\ \A j \in 1 .. Len(sets[r]) : j # kept[r]
    BY <1>1, <1>2, <1>9, NoneKept DEF Exchanges, KeptLabels, Halted
  <2> QED  BY <2>2, <2>3, PlainSlots
<1>5. ASSUME NEW p \in Particle
      PROVE  /\ \E r \in Rank : \E k \in DOMAIN sets[r] : p \in sets[r][k]
             /\ \A q, r \in Rank : \A j \in DOMAIN sets[q], k \in DOMAIN sets[r] :
                   p \in sets[q][j] /\ p \in sets[r][k] => q = r /\ j = k
  BY StartAssumption DEF Init
<1>6. ASSUME NEW p \in Particle
      PROVE  \E r \in Rank : Slots(r, p) # {}
  <2>1. PICK r \in Rank : \E k \in DOMAIN sets[r] : p \in sets[r][k]
    BY <1>5
  <2>2. PICK k \in DOMAIN sets[r] : p \in sets[r][k]
    BY <2>1
  <2>3. k \in Slots(r, p)
    BY <1>4, <2>2
  <2> QED  BY <2>3
<1>7. ASSUME NEW p \in Particle, NEW q \in Rank, NEW r \in Rank,
             NEW j \in Slots(q, p), NEW k \in Slots(r, p)
      PROVE  q = r /\ j = k
  <2>1. /\ j \in DOMAIN sets[q] /\ p \in sets[q][j]
        /\ k \in DOMAIN sets[r] /\ p \in sets[r][k]
    BY <1>4
  <2> QED  BY <1>5, <2>1
<1>8. PlacedOnce
  BY <1>6, <1>7 DEF PlacedOnce
<1> QED  BY <1>3, <1>8, <1>9 DEF Placing

LEMMA PlacingAlways == Cleared => (Spec => []Placing)
<1>1. Cleared /\ Init => Placing
  BY InitPlacing
<1>2. Course /\ Placing /\ [Next]_vars => Placing'
  BY PlacingNext
<1> QED  BY <1>1, <1>2, CourseAlways, PTL DEF Spec

\* However often the particles are handed from rank to rank, with sets that only some of the
\* ranks have, and whatever allocation fails on the way, no particle in the domain is lost and
\* none is ever there twice: not in an exchange that some of the ranks have left already,
\* and not in a gathering in which rank 0 is before the others or behind them.  Only the set
\* that a rank has kept, because its empty set could not be made after rank 0 had the copies,
\* does not count.
THEOREM ParticlesPlacedOnce == Cleared => (Spec => []PlacedOnce)
<1>1. Placing => PlacedOnce
  BY DEF Placing
<1> QED  BY <1>1, PlacingAlways, PTL

-------------------------------------------------------------------------------
(***************************************************************************)
(* The particles of a rank that has swept its sets are at home.            *)
(***************************************************************************)
LEMMA IncomingParticles ==
    ASSUME Typed, OnTrace, NEW q \in Rank, Exchanged(q)
    PROVE  Incoming(q) \subseteq Particle
<1>1. pc[q] = "data" /\ Entered(q) /\ "data" \in Ops
  BY LabelFacts DEF Exchanged
<1>2. \A x \in Rank : Given(x, q) \in [Rank -> SUBSET Particle]
  BY <1>1, InCall, AllowedIs
<1> QED  BY <1>2 DEF Incoming

\* The sets of another rank.
LEMMA HomedKept ==
    ASSUME Typed, PlacedOnce, Keeping, NEW r \in Rank, Step(r), ~Crash(r), Turns(r),
           NEW q \in Rank, q # r, NEW k \in 1 .. Len(sets[q]), k # kept[q],
           ~(k = at[q] /\ Hidden(q)), Homed(q, k)
    PROVE  Homed(q, k)'
<1>1. sets'[q] = sets[q]
  BY OthersKeep
<1>2. ASSUME NEW p \in sets[q][k] PROVE where'[p] = q
  <2>1. sets[q] \in Seq(SUBSET Particle)
    BY DEF Typed, TypeOK
  <2>2. p \in Particle
    BY <2>1
  <2>3. k \in Slots(q, p)
    BY SlotsAre
  <2>4. where'[p] = where[p]
    BY <2>2, <2>3, WhereKept
  <2> QED  BY <2>4 DEF Homed
<1> QED  BY <1>1, <1>2 DEF Homed

LEMMA IncomingKept ==
    ASSUME Typed, OnTrace, Placing, NEW r \in Rank, Step(r), ~Crash(r), Turns(r),
           NEW q \in Rank, q # r, Homes(q), Exchanged(q)'
    PROVE  \A p \in Incoming(q)' : where'[p] = q
<1>1. PlacedOnce /\ Sending /\ Keeping
  BY DEF Placing
<1>2. CASE Arrives(r) /\ Entered(r)'
  <2>1. \A p : p \in Incoming(q)' <=> where[p] = q /\ \E x \in Rank : p \in Has(x)
    BY <1>1, <1>2, ArrivesLast
  <2>2. where' = where
    BY <1>2, ArrivesIs DEF local
  <2> QED  BY <2>1, <2>2
<1>3. CASE Arrives(r) /\ ~Entered(r)'
  BY <1>3, ArrivesFirst
<1>4. CASE ~Arrives(r)
  <2>1. pc[r] = "types" => pc'[r] \notin Ops
    <3>1. Aside(r) => (pc[r] = "types" => pc'[r] \notin Ops)
      BY LabelFacts DEF Aside
    <3> QED  BY <1>4, <3>1, Kinds, StepPaths DEF Arrives
  <2>2. Exchanged(q) /\ Incoming(q)' = Incoming(q)
    BY <2>1, OthersExchanged
  <2>3. ASSUME NEW p \in Incoming(q) PROVE where'[p] = q
    <3>1. p \in Particle /\ where[p] = q
      BY <2>2, IncomingParticles DEF Homes
    <3>2. 0 \in Slots(q, p)
      BY <2>2, SlotsAre DEF Flows
    <3> QED  BY <1>1, <3>1, <3>2, WhereKept
  <2> QED  BY <2>2, <2>3
<1> QED  BY <1>2, <1>3, <1>4

LEMMA OthersHome ==
    ASSUME Typed, OnTrace, Placing, NEW r \in Rank, Step(r), ~Crash(r), Turns(r),
           NEW q \in Rank, q # r, Homes(q)
    PROVE  Homes(q)'
<1>1. /\ pc'[q] = pc[q] /\ sets'[q] = sets[q] /\ at'[q] = at[q] /\ end'[q] = end[q]
      /\ err'[q] = err[q] /\ gathers'[q] = gathers[q] /\ stages'[q] = stages[q]
      /\ stage'[q] = stage[q] /\ status'[q] = status[q]
  BY OthersKeep
<1>2. ASSUME NEW k \in 1 .. Len(sets[q]), k # kept[q], ~(k = at[q] /\ Hidden(q)), Homed(q, k)
      PROVE  Homed(q, k)'
  BY <1>2, HomedKept DEF Placing
<1>3. ASSUME \/ pc[q] \in Sweeping \cup {"substeps", "stage"}
             \/ pc[q] \in {"advance", "next"} /\ ~gathers[q]
      PROVE  \A k \in 1 .. Len(sets[q]) : k # kept[q]
  <2>1. kept[q] = 0
    BY <1>3 DEF Placing, Keeping, KeptAt, Sweeping, Halted
  <2>2. Len(sets[q]) \in Nat
    BY DEF Typed, TypeOK
  <2> QED  BY <2>1, <2>2
<1>4. Swept(q)'
  <2>1. SUFFICES ASSUME ~gathers[q]
                 PROVE  /\ pc[q] \in Sweeping => HomedTo(q, at[q])'
                        /\ pc[q] = "advance" /\ err[q] = 0 => HomedTo(q, at[q] + 1)'
                        /\ pc[q] = "next" /\ err[q] = 0 => HomedTo(q, at[q])'
    BY <1>1 DEF Swept, Sweeping, HomedTo
  <2>2. at[q] \in Nat
    BY DEF Typed, TypeOK
  <2>3. ASSUME NEW n, HomedTo(q, n), ~Hidden(q) \/ n = at[q],
               \A k \in 1 .. Len(sets[q]) : k # kept[q]
        PROVE  HomedTo(q, n)'
    <3>1. ASSUME NEW k \in 1 .. Len(sets[q]), k < n PROVE Homed(q, k)'
      <4>1. Homed(q, k)
        BY <2>3, <3>1 DEF HomedTo
      <4>2. ~(k = at[q] /\ Hidden(q))
        BY <2>2, <2>3, <3>1
      <4>3. k # kept[q]
        BY <2>3
      <4> QED  BY <1>2, <4>1, <4>2, <4>3
    <3> QED  BY <1>1, <3>1 DEF HomedTo
  <2>4. pc[q] \in {"advance", "next"} => ~Hidden(q)
    BY DEF Hidden, Exchanged, Taken
  <2>5. /\ pc[q] \in Sweeping => HomedTo(q, at[q])
        /\ pc[q] = "advance" /\ err[q] = 0 => HomedTo(q, at[q] + 1)
        /\ pc[q] = "next" /\ err[q] = 0 => HomedTo(q, at[q])
    BY <2>1 DEF Homes, Swept
  <2>6. pc[q] \in Sweeping => HomedTo(q, at[q])'
    BY <2>3, <2>5, <1>1, <1>3
  <2>7. pc[q] = "advance" /\ err[q] = 0 => HomedTo(q, at[q] + 1)'
    BY <2>1, <2>3, <2>4, <2>5, <1>1, <1>3
  <2>8. pc[q] = "next" /\ err[q] = 0 => HomedTo(q, at[q])'
    BY <2>1, <2>3, <2>4, <2>5, <1>1, <1>3
  <2> QED  BY <2>6, <2>7, <2>8
<1>5. ASSUME Ready(q)' PROVE \A k \in 1 .. Len(sets'[q]) : Homed(q, k)'
  <2>1. Ready(q) /\ ~Hidden(q)
    BY <1>1, <1>5 DEF Ready, Integrates, Hidden, Exchanged, Taken
  <2>2. pc[q] \in {"substeps", "stage"}
    BY <2>1 DEF Ready, Integrates
  <2> QED  BY <1>1, <1>2, <1>3, <2>1, <2>2 DEF Homes
<1>6. Exchanged(q)' => \A p \in Incoming(q)' : where'[p] = q
  BY IncomingKept
<1>7. Reporting(q)'
  <2>1. pc[q] \in {"ends", "any"} => Gave(q)' = Gave(q)
    BY CallsKept, LabelFacts
  <2>2. (AtEnd(q)' <=> AtEnd(q)) /\ Has(q)' = Has(q)
    BY HasKept
  <2> QED  BY <1>1, <2>1, <2>2 DEF Homes, Reporting
<1> QED  BY <1>4, <1>5, <1>6, <1>7 DEF Homes

-------------------------------------------------------------------------------
(***************************************************************************)
(* The sets of the rank that takes the step.                               *)
(***************************************************************************)
LEMMA HomedRests ==
    ASSUME sets' = sets, where' = where, NEW r
    PROVE  /\ \A k : Homed(r, k)' <=> Homed(r, k)
           /\ \A n : HomedTo(r, n)' <=> HomedTo(r, n)
<1>1. \A k : Homed(r, k)' <=> Homed(r, k)
  BY DEF Homed
<1> QED  BY <1>1 DEF HomedTo

\* Homes(r)', by the label that the rank gets to.
LEMMA HomesQuiet ==
    ASSUME NEW r, pc'[r] \notin Sweeping \cup {"advance", "next", "substeps", "stage"}
    PROVE  Homes(r)'
BY DEF Homes, Swept, Ready, Exchanged, Reporting, Sweeping

LEMMA HomesSweeping ==
    ASSUME NEW r, sets' = sets, where' = where, pc'[r] \in Sweeping,
           ~gathers'[r] => HomedTo(r, at'[r]),
           Exchanged(r)' => \A p \in Incoming(r)' : where'[p] = r,
           Reporting(r)'
    PROVE  Homes(r)'
<1>1. ~Ready(r)' /\ pc'[r] \notin {"advance", "next"}
  BY DEF Ready, Sweeping
<1>2. ~gathers'[r] => HomedTo(r, at[r])'
  BY HomedRests
<1>3. Swept(r)'
  BY <1>1, <1>2 DEF Swept
<1> QED  BY <1>1, <1>3 DEF Homes

LEMMA HomesAdvance ==
    ASSUME NEW r, pc'[r] = "advance",
           ~gathers'[r] /\ err'[r] = 0 => HomedTo(r, at[r] + 1)'
    PROVE  Homes(r)'
<1>1. Swept(r)'
  BY DEF Swept, Sweeping
<1> QED  BY <1>1 DEF Homes, Ready, Exchanged, Reporting

LEMMA HomesReady ==
    ASSUME NEW r, sets' = sets, where' = where, pc'[r] \in {"substeps", "stage"},
           Ready(r)' => \A k \in 1 .. Len(sets[r]) : Homed(r, k)
    PROVE  Homes(r)'
<1>1. Swept(r)'
  BY DEF Swept, Sweeping
<1>2. Ready(r)' => \A k \in 1 .. Len(sets'[r]) : Homed(r, k)'
  BY HomedRests
<1> QED  BY <1>1, <1>2 DEF Homes, Exchanged, Reporting

\* A rank that comes back with an error integrates no more.
LEMMA ReturnedHomes ==
    ASSUME Typed, NEW r \in Rank, Returned(r, 1), stages' = stages
    PROVE  Homes(r)'
<1>1. pc'[r] = (IF stages[r] = 0 THEN "output" ELSE "stage")
  BY DEF Returned, Goto, Typed, TypeOK
<1>2. CASE stages[r] = 0
  <2>1. pc'[r] \notin Sweeping \cup {"advance", "next", "substeps", "stage"}
    BY <1>1, <1>2 DEF Sweeping
  <2> QED  BY <2>1, HomesQuiet
<1>3. CASE stages[r] # 0
  <2>1. pc'[r] = "stage" /\ status'[r] = 1 /\ stage'[r] = stage[r] + 1 /\ stages'[r] # 0
    BY <1>1, <1>3 DEF Returned, Typed, TypeOK
  <2>2. stage[r] \in Nat
    BY DEF Typed, TypeOK
  <2>3. ~Ready(r)'
    BY <2>1, <2>2 DEF Ready, Integrates
  <2>4. Swept(r)'
    BY <2>1 DEF Swept, Sweeping
  <2> QED  BY <2>1, <2>3, <2>4 DEF Homes, Exchanged, Reporting
<1> QED  BY <1>2, <1>3

\* What a rank has contributed itself is among what has been contributed.
LEMMA GaveIsGiven ==
    ASSUME Typed, OnTrace, NEW r \in Rank, pc[r] \in {"ends", "any"}, Entered(r), Largest(r) = 0,
           Gave(r) \in Bit
    PROVE  Gave(r) = 0
<1>1. pc[r] \in Ops /\ X(r) \in Common
  BY LabelFacts, CommonIs
<1>2. How(P(pc[r], X(r))) = "largest"
  BY <1>1, OpOfPlace DEF How
<1>3. Given(r, r) <= Largest(r)
  BY <1>1, <1>2, CallResult
<1> QED  BY <1>3 DEF Given, Gave, Bit

\* The traversal begins.
LEMMA BeginHomes ==
    ASSUME Cleared, Typed, OnTrace, Placing, NEW r \in Rank, Homes(r), ~Crash(r),
           Rects(r) \/ Output(r)
    PROVE  Homes(r)'
<1>1. CASE Rects(r)
  <2>1. /\ pc'[r] = "traverse" /\ sets' = sets /\ where' = where /\ at'[r] = 1
        /\ sets[r] \in Seq(SUBSET Particle)
    <3>1. pc'[r] = "traverse"
      BY <1>1, StepPaths
    <3> QED  BY <1>1, <3>1 DEF Rects, Begin, Typed, TypeOK
  <2>2. HomedTo(r, at'[r])
    <3>1. \A k \in 1 .. Len(sets[r]) : ~(k < 1)
      BY <2>1
    <3> QED  BY <2>1, <3>1 DEF HomedTo
  <2>3. pc'[r] \in Sweeping /\ ~Exchanged(r)' /\ Reporting(r)'
    BY <2>1 DEF Sweeping, Exchanged, Reporting
  <2> QED  BY <2>1, <2>2, <2>3, HomesSweeping
<1>2. CASE Output(r)
  <2>1. CASE step[r] \in GatherAt
    <3>1. pc'[r] = "traverse" /\ gathers'[r] = TRUE /\ sets' = sets /\ where' = where
      BY <1>2, <2>1 DEF Output, Goto, Typed, TypeOK
    <3>2. pc'[r] \in Sweeping /\ ~Exchanged(r)' /\ Reporting(r)'
      BY <3>1 DEF Sweeping, Exchanged, Reporting
    <3> QED  BY <3>1, <3>2, HomesSweeping
  <2>2. CASE step[r] \notin GatherAt
    <3>1. pc'[r] = "report"
      BY <1>2, <2>2, MeetIs DEF Output
    <3>2. pc'[r] \notin Sweeping \cup {"advance", "next", "substeps", "stage"}
      BY <3>1 DEF Sweeping
    <3> QED  BY <3>2, HomesQuiet
  <2> QED  BY <2>1, <2>2
<1> QED  BY <1>1, <1>2

\* Is there a set left?
LEMMA EndsHomes ==
    ASSUME Typed, OnTrace, Placing, NEW r \in Rank, Homes(r), ~Crash(r), Ends(r)
    PROVE  Homes(r)'
<1>1. pc[r] = "traverse" /\ pc'[r] = "ends" /\ UNCHANGED local
  BY StepPaths DEF Ends
<1>2. PICK v : v = (IF AtEnd(r) THEN 0 ELSE 1)
  OBVIOUS
<1>3. v \in Value /\ "ends" \in Ops
  BY <1>2, LabelFacts DEF Value
<1>4. Gave(r)' = v
  BY <1>2, <1>3, EnterShifts DEF Ends, Meet
<1>5. sets' = sets /\ where' = where /\ at' = at /\ end' = end /\ gathers' = gathers
  BY <1>1 DEF local
<1>6. Reporting(r)'
  BY <1>1, <1>2, <1>4, <1>5 DEF Reporting, AtEnd
<1>7. ~gathers'[r] => HomedTo(r, at'[r])
  BY <1>1, <1>5 DEF Homes, Swept, Sweeping
<1>8. pc'[r] \in Sweeping /\ ~Exchanged(r)'
  BY <1>1 DEF Sweeping, Exchanged
<1> QED  BY <1>5, <1>6, <1>7, <1>8, HomesSweeping

\* A rank tells whether it has a particle.
LEMMA AsksHomes ==
    ASSUME Typed, NEW r \in Rank, Homes(r), pc[r] \in Sweeping, sets' = sets, where' = where,
           at' = at, end' = end, gathers' = gathers, Meet(r, "any", IF Has(r) = {} THEN 0 ELSE 1)
    PROVE  Homes(r)'
<1>1. pc'[r] = "any"
  BY MeetIs
<1>2. PICK v : v = (IF Has(r) = {} THEN 0 ELSE 1)
  OBVIOUS
<1>3. v \in Value /\ "any" \in Ops
  BY <1>2, LabelFacts DEF Value
<1>4. Gave(r)' = v
  BY <1>2, <1>3, EnterShifts DEF Meet
<1>5. Reporting(r)'
  BY <1>1, <1>2, <1>4 DEF Reporting, Has, AtEnd
<1>6. ~gathers'[r] => HomedTo(r, at'[r])
  BY DEF Homes, Swept
<1>7. pc'[r] \in Sweeping /\ ~Exchanged(r)'
  BY <1>1 DEF Sweeping, Exchanged
<1> QED  BY <1>5, <1>6, <1>7, HomesSweeping

\* The sets of all ranks are done, or the next ones are worked on.
LEMMA EndsLeaveHomes ==
    ASSUME Typed, OnTrace, Placing, NEW r \in Rank, Homes(r), ~Crash(r), EndsLeave(r)
    PROVE  Homes(r)'
<1>1. /\ pc[r] = "ends" /\ Entered(r) /\ sets' = sets /\ where' = where /\ at' = at /\ end' = end
      /\ stages' = stages
  BY DEF EndsLeave
<1>2. pc[r] \in Sweeping /\ pc[r] \in Unfilled
  BY <1>1 DEF Sweeping, Unfilled
<1>3. CASE EndsFunc(r)
  <2>1. CASE gathers[r]
    <3>1. pc'[r] = "gather_root"
      BY <1>3, <2>1, MeetIs DEF EndsFunc
    <3>2. pc'[r] \notin Sweeping \cup {"advance", "next", "substeps", "stage"}
      BY <3>1 DEF Sweeping
    <3> QED  BY <3>2, HomesQuiet
  <2>2. CASE ~gathers[r] /\ at[r] > 1
    <3>1. Meet(r, "any", IF Has(r) = {} THEN 0 ELSE 1) /\ gathers' = gathers
      BY <1>3, <2>2 DEF EndsFunc
    <3> QED  BY <1>1, <1>2, <3>1, AsksHomes
  <2>3. CASE ~gathers[r] /\ ~(at[r] > 1)
    <3>1. pc'[r] = "buffer" /\ gathers' = gathers
      BY <1>3, <2>3, MeetIs DEF EndsFunc
    <3>2. ~gathers'[r] => HomedTo(r, at'[r])
      BY <1>1, <1>2, <3>1 DEF Homes, Swept
    <3>3. pc'[r] \in Sweeping /\ ~Exchanged(r)' /\ Reporting(r)'
      BY <3>1 DEF Sweeping, Exchanged, Reporting
    <3> QED  BY <1>1, <3>2, <3>3, HomesSweeping
  <2> QED  BY <2>1, <2>2, <2>3
<1>4. CASE EndsReturn(r)
  <2>1. CASE pc'[r] \in {"report", "output"}
    <3>1. pc'[r] \notin Sweeping \cup {"advance", "next", "substeps", "stage"}
      BY <2>1 DEF Sweeping
    <3> QED  BY <3>1, HomesQuiet
  <2>2. CASE pc'[r] = "stage"
    <3>1. ~gathers[r] /\ Largest(r) = 0
      BY <1>4, <2>2, MeetIs DEF EndsReturn, AllFinished
    <3>2. Gave(r) = IF AtEnd(r) THEN 0 ELSE 1
      BY <1>1 DEF Homes, Reporting
    <3>3. AtEnd(r)
      <4>1. Gave(r) \in Bit
        BY <3>2 DEF Bit
      <4> QED  BY <1>1, <3>1, <3>2, <4>1, GaveIsGiven
    <3>4. Len(sets[r]) < at[r] /\ HomedTo(r, at[r])
      BY <1>2, <3>1, <3>3 DEF Placing, Filling, Homes, Swept
    <3>5. at[r] \in Nat /\ Len(sets[r]) \in Nat
      BY DEF Typed, TypeOK
    <3>6. \A k \in 1 .. Len(sets[r]) : Homed(r, k)
      BY <3>4, <3>5 DEF HomedTo
    <3> QED  BY <1>1, <2>2, <3>6, HomesReady
  <2>3. pc'[r] \in {"report", "output", "stage"}
    BY <1>4, MeetIs, ReturnedIs DEF EndsReturn
  <2> QED  BY <2>1, <2>2, <2>3
<1> QED  BY <1>3, <1>4 DEF EndsLeave

\* The next sets, or the end of the traversal with an error.
LEMMA NextHomes ==
    ASSUME Typed, OnTrace, Placing, NEW r \in Rank, Homes(r), ~Crash(r),
           NextSet(r) \/ NextLeave(r)
    PROVE  Homes(r)'
<1>1. CASE NextSet(r)
  <2>1. /\ pc[r] = "advance" /\ pc'[r] = "next" /\ at'[r] = at[r] + 1
        /\ sets' = sets /\ where' = where /\ err' = err /\ gathers' = gathers
    <3>1. pc[r] = "advance" /\ pc'[r] = "next"
      BY <1>1, StepPaths
    <3> QED  BY <1>1, <3>1 DEF NextSet, Typed, TypeOK
  <2>2. ~gathers'[r] /\ err'[r] = 0 => HomedTo(r, at'[r])
    BY <2>1 DEF Homes, Swept
  <2>3. ~gathers'[r] /\ err'[r] = 0 => HomedTo(r, at[r])'
    BY <2>1, <2>2, HomedRests
  <2>4. Swept(r)'
    BY <2>1, <2>3 DEF Swept, Sweeping
  <2> QED  BY <2>1, <2>4 DEF Homes, Ready, Exchanged, Reporting
<1>2. CASE NextLeave(r)
  <2>1. /\ pc[r] = "next" /\ Entered(r) /\ sets' = sets /\ where' = where /\ at' = at
        /\ gathers' = gathers /\ stages' = stages
    BY <1>2 DEF NextLeave
  <2>2. Largest(r) = err[r] /\ err[r] \in Bit
    <3>1. "next" \in Ops /\ X(r) \in Common /\ X(r).err = err[r]
      BY LabelFacts, CommonIs DEF Ops
    <3>2. How(P("next", X(r))) = "largest"
      BY OpOfPlace DEF How
    <3>3. Allowed(P("next", X(r)), Largest(r))
      BY <2>1, <3>1, <3>2, InCall
    <3> QED  BY <3>1, <3>3, AllowedIs DEF Typed, TypeOK
  <2>3. CASE Largest(r) = 0
    <3>1. pc'[r] = "traverse"
      BY <1>2, <2>3, GotoIs DEF NextLeave
    <3>2. ~gathers'[r] => HomedTo(r, at'[r])
      BY <2>1, <2>2, <2>3 DEF Homes, Swept
    <3>3. pc'[r] \in Sweeping /\ ~Exchanged(r)' /\ Reporting(r)'
      BY <3>1 DEF Sweeping, Exchanged, Reporting
    <3> QED  BY <2>1, <3>2, <3>3, HomesSweeping
  <2>4. CASE Largest(r) # 0 /\ gathers[r]
    <3>1. pc'[r] = "report"
      BY <1>2, <2>4, MeetIs DEF NextLeave
    <3>2. pc'[r] \notin Sweeping \cup {"advance", "next", "substeps", "stage"}
      BY <3>1 DEF Sweeping
    <3> QED  BY <3>2, HomesQuiet
  <2>5. CASE Largest(r) # 0 /\ ~gathers[r]
    <3>1. Returned(r, err[r]) /\ err[r] = 1
      BY <1>2, <2>2, <2>5 DEF NextLeave, Bit
    <3> QED  BY <2>1, <3>1, ReturnedHomes
  <2> QED  BY <2>3, <2>4, <2>5
<1> QED  BY <1>1, <1>2

\* No rank has a particle in the set at hand.
LEMMA EmptyHomes ==
    ASSUME Typed, Placing, NEW r \in Rank, Homes(r), pc[r] = "any", Has(r) = {}, ~gathers[r]
    PROVE  HomedTo(r, at[r] + 1)
<1>1. HomedTo(r, at[r]) /\ pc[r] \in Unfilled
  BY DEF Homes, Swept, Sweeping, Unfilled
<1>2. at[r] \in Nat /\ Len(sets[r]) \in Nat
  BY DEF Typed, TypeOK
<1>3. ASSUME NEW k \in 1 .. Len(sets[r]), k < at[r] + 1 PROVE Homed(r, k)
  <2>1. CASE k < at[r]
    BY <1>1, <2>1 DEF HomedTo
  <2>2. CASE k = at[r]
    <3>1. \A p : ~(p \in sets[r][k])
      BY <1>1, <2>2, HasIs DEF Placing
    <3> QED  BY <3>1 DEF Homed
  <2> QED  BY <1>2, <1>3, <2>1, <2>2
<1> QED  BY <1>3 DEF HomedTo

\* A failure, or nothing to be exchanged.
LEMMA GivesUpHomes ==
    ASSUME Typed, OnTrace, Placing, NEW r \in Rank, Homes(r), ~Crash(r),
           Buffer(r) \/ AnyParticle(r) \/ Failed(r), pc'[r] = "advance"
    PROVE  Homes(r)'
<1>1. CASE Buffer(r)
  <2>1. err'[r] = 1
    <3>1. ~Meet(r, "any", IF Has(r) = {} THEN 0 ELSE 1)
      BY MeetIs
    <3>2. Code(r, 1)
      BY <1>1, <3>1 DEF Buffer
    <3> QED  BY <3>2 DEF Code, Typed, TypeOK
  <2> QED  BY <2>1, HomesAdvance
<1>2. CASE Failed(r)
  <2>1. err'[r] = 1
    BY <1>2 DEF Failed, Code, Typed, TypeOK
  <2> QED  BY <2>1, HomesAdvance
<1>3. CASE AnyParticle(r)
  <2>1. pc[r] = "any" /\ Entered(r) /\ UNCHANGED local
    BY <1>3 DEF AnyParticle
  <2>2. Largest(r) = 0
    <3>1. \A c : ~Meet(r, "counts", c)
      BY MeetIs
    <3> QED  BY <1>3, <3>1 DEF AnyParticle
  <2>3. Gave(r) = IF Has(r) = {} THEN 0 ELSE 1
    BY <2>1 DEF Homes, Reporting
  <2>4. Has(r) = {}
    <3>1. Gave(r) \in Bit
      BY <2>3 DEF Bit
    <3> QED  BY <2>1, <2>2, <2>3, <3>1, GaveIsGiven
  <2>5. sets' = sets /\ where' = where /\ at' = at /\ gathers' = gathers
    BY <2>1 DEF local
  <2>6. ~gathers'[r] => HomedTo(r, at[r] + 1)
    BY <2>1, <2>4, <2>5, EmptyHomes
  <2>7. ~gathers'[r] => HomedTo(r, at[r] + 1)'
    BY <2>5, <2>6, HomedRests
  <2> QED  BY <2>7, HomesAdvance
<1> QED  BY <1>1, <1>2, <1>3

\* On the way to the exchange.
LEMMA WorksHomes ==
    ASSUME Typed, OnTrace, Placing, NEW r \in Rank, Homes(r), ~Crash(r), Turns(r),
           \/ Buffer(r) \/ AnyParticle(r) \/ Counted(r) \/ Whole(r) \/ SetRoot(r)
           \/ New(r) \/ Numbers(r) \/ Types(r)
    PROVE  Homes(r)'
<1>1. /\ pc[r] \in Sweeping /\ sets' = sets /\ where' = where /\ at' = at /\ end' = end
      /\ gathers' = gathers
  BY DEF Buffer, AnyParticle, Counted, Whole, SetRoot, New, Numbers, Types, local, Sweeping
<1>2. CASE pc'[r] = "failed"
  <2>1. pc'[r] \notin Sweeping \cup {"advance", "next", "substeps", "stage"}
    BY <1>2 DEF Sweeping
  <2> QED  BY <2>1, HomesQuiet
<1>3. CASE pc'[r] = "advance"
  <2>1. Buffer(r) \/ AnyParticle(r)
    BY <1>3, StepPaths
  <2> QED  BY <1>3, <2>1, GivesUpHomes
<1>4. CASE pc'[r] = "any"
  <2>1. Buffer(r)
    BY <1>4, StepPaths
  <2>2. Meet(r, "any", IF Has(r) = {} THEN 0 ELSE 1)
    <3>1. ~Goto(r, "advance")
      BY <1>4, GotoIs
    <3> QED  BY <2>1, <3>1 DEF Buffer
  <2> QED  BY <1>1, <2>2, AsksHomes
<1>5. CASE pc'[r] \notin {"failed", "advance", "any"}
  <2>1. pc'[r] \in {"counts", "whole", "root", "new", "numbers", "numbers_sizes", "types", "data"}
    BY <1>5, StepPaths
  <2>2. pc'[r] \in Sweeping /\ Reporting(r)'
    BY <2>1 DEF Sweeping, Reporting
  <2>3. ~gathers'[r] => HomedTo(r, at'[r])
    BY <1>1 DEF Homes, Swept
  <2>4. ASSUME Exchanged(r)' PROVE \A p \in Incoming(r)' : where'[p] = r
    <3>1. pc'[r] = "data" /\ Entered(r)'
      BY <2>4 DEF Exchanged
    <3>2. Arrives(r)
      BY <3>1, StepPaths DEF Arrives
    <3>3. \A p : p \in Incoming(r)' <=> where[p] = r /\ \E x \in Rank : p \in Has(x)
      BY <3>1, <3>2, ArrivesLast DEF Placing
    <3> QED  BY <1>1, <3>3
  <2> QED  BY <1>1, <2>2, <2>3, <2>4, HomesSweeping
<1> QED  BY <1>2, <1>3, <1>4, <1>5

\* The set at hand is what has come in.
LEMMA DataHomes ==
    ASSUME Typed, OnTrace, Placing, NEW r \in Rank, Homes(r), Data(r)
    PROVE  Homes(r)'
<1>1. /\ pc[r] = "data" /\ pc'[r] = "advance" /\ where' = where /\ at' = at
      /\ Exchanged(r) /\ Incoming(r) \in SUBSET Particle /\ Replace(r, Incoming(r))
      /\ gathers' = gathers
  BY DataIs DEF Placing, Data
<1>2. pc[r] \in Unfilled /\ pc[r] \in Sweeping /\ Filling
  BY <1>1 DEF Unfilled, Sweeping, Placing
<1>3. SUFFICES ASSUME ~gathers[r] PROVE HomedTo(r, at[r] + 1)'
  BY <1>1, HomesAdvance
<1>4. HomedTo(r, at[r]) /\ \A p \in Incoming(r) : where[p] = r
  BY <1>1, <1>2, <1>3 DEF Homes, Swept
<1>5. at[r] \in Nat
  BY DEF Typed, TypeOK
<1>6. ASSUME NEW k \in 1 .. Len(sets'[r]), k < at[r] + 1, NEW p \in sets'[r][k]
      PROVE  where[p] = r
  <2>1. \/ p \in Incoming(r)
        \/ k \in 1 .. Len(sets[r]) /\ k # at[r] /\ p \in sets[r][k]
    BY <1>1, <1>2, ReplaceIs
  <2>2. CASE k \in 1 .. Len(sets[r]) /\ k # at[r] /\ p \in sets[r][k]
    <3>1. k < at[r]
      BY <1>5, <1>6, <2>2
    <3> QED  BY <1>4, <2>2, <3>1 DEF HomedTo, Homed
  <2> QED  BY <1>4, <2>1, <2>2
<1> QED  BY <1>1, <1>6 DEF HomedTo, Homed

\* The stages.
LEMMA StagesHomes ==
    ASSUME Typed, NEW r \in Rank, Homes(r), ~Crash(r), Substeps(r) \/ SubstepsLeave(r)
    PROVE  Homes(r)'
<1>1. pc'[r] \in {"substeps", "stage"} /\ sets' = sets /\ where' = where
  BY StepPaths DEF Substeps, SubstepsLeave, local
<1>2. Ready(r)
  BY DEF Substeps, SubstepsLeave, Ready
<1>3. \A k \in 1 .. Len(sets[r]) : Homed(r, k)
  BY <1>2 DEF Homes
<1> QED  BY <1>1, <1>3, HomesReady

\* The gathering puts the particles elsewhere, and a redistribution follows.
LEMMA GatherHomes ==
    ASSUME Typed, NEW r \in Rank, ~Crash(r), GatherNew(r) \/ GatherSet(r)
    PROVE  Homes(r)'
<1>1. pc[r] \in Gathering /\ gathers' = gathers /\ pc'[r] \in {"advance", "gather"}
  BY StepPaths DEF GatherNew, GatherSet, Gathering
<1>2. gathers[r]
  BY <1>1, CommonIs DEF Typed, AllFit, Fits
<1>3. CASE pc'[r] = "advance"
  BY <1>1, <1>2, <1>3, HomesAdvance
<1>4. CASE pc'[r] = "gather"
  <2>1. pc'[r] \notin Sweeping \cup {"advance", "next", "substeps", "stage"}
    BY <1>4 DEF Sweeping
  <2> QED  BY <2>1, HomesQuiet
<1> QED  BY <1>1, <1>3, <1>4

\* A redistribution begins.
LEMMA BoundsHomes ==
    ASSUME Typed, NEW r \in Rank, Bounds(r)
    PROVE  Homes(r)'
<1>1. CASE Largest(r) = 1
  <2>1. Returned(r, 1) /\ stages' = stages
    BY <1>1 DEF Bounds
  <2> QED  BY <2>1, ReturnedHomes
<1>2. CASE Largest(r) # 1
  <2>1. pc'[r] = "rects"
    BY <1>2, MeetIs DEF Bounds
  <2>2. pc'[r] \notin Sweeping \cup {"advance", "next", "substeps", "stage"}
    BY <2>1 DEF Sweeping
  <2> QED  BY <2>2, HomesQuiet
<1> QED  BY <1>1, <1>2

LEMMA HomesStep ==
    ASSUME Cleared, Typed, OnTrace, Placing, NEW r \in Rank, Homes(r), Step(r), ~Crash(r)
    PROVE  Homes(r)'
<1>1. Turns(r)
  BY StepTurns
<1>2. CASE StepBegin(r) \/ Stage(r) \/ Walls(r) \/ GatherRoot(r) \/ Gather(r) \/ Report(r)
  <2>1. pc'[r] \notin Sweeping \cup {"advance", "next", "substeps", "stage"}
    BY <1>2, StepPaths DEF Sweeping
  <2> QED  BY <2>1, HomesQuiet
<1>3. CASE Bounds(r)
  BY <1>3, BoundsHomes
<1>4. CASE Rects(r) \/ Output(r)
  BY <1>4, BeginHomes
<1>5. CASE Ends(r) \/ EndsLeave(r)
  BY <1>5, EndsHomes, EndsLeaveHomes
<1>6. CASE NextSet(r) \/ NextLeave(r)
  BY <1>6, NextHomes
<1>7. CASE \/ Buffer(r) \/ AnyParticle(r) \/ Counted(r) \/ Whole(r) \/ SetRoot(r)
           \/ New(r) \/ Numbers(r) \/ Types(r)
  BY <1>1, <1>7, WorksHomes
<1>8. CASE Data(r)
  BY <1>8, DataHomes
<1>9. CASE Failed(r)
  BY <1>9, StepPaths, GivesUpHomes
<1>10. CASE Substeps(r) \/ SubstepsLeave(r)
  BY <1>10, StagesHomes
<1>11. CASE GatherNew(r) \/ GatherSet(r)
  BY <1>11, GatherHomes
<1> QED  BY <1>2, <1>3, <1>4, <1>5, <1>6, <1>7, <1>8, <1>9, <1>10, <1>11 DEF Step

-------------------------------------------------------------------------------
LEMMA HomingNext ==
    ASSUME Course, Placing, Homing, [Next]_vars
    PROVE  Homing'
<1>1. ASSUME NEW r \in Rank, Step(r) PROVE Homing'
  <2>1. CASE OnTrace /\ ~Crash(r)
    <3>1. Turns(r)
      BY <1>1, <2>1, StepTurns DEF Course
    <3>2. Homes(r)'
      BY <1>1, <2>1, HomesStep DEF Course, Homing
    <3>3. ASSUME NEW q \in Rank, q # r PROVE Homes(q)'
      BY <1>1, <2>1, <3>1, <3>3, OthersHome DEF Course, Homing
    <3> QED  BY <3>2, <3>3 DEF Homing
  <2>2. CASE OnTrace /\ Crash(r)
    <3>1. \A q \in Rank : pc'[q] \notin Sweeping \cup {"advance", "next", "substeps", "stage"}
      BY <2>2 DEF Crash, Sweeping
    <3>2. \A q \in Rank : Homes(q)'
      BY <3>1, HomesQuiet
    <3> QED  BY <3>2 DEF Homing
  <2>3. CASE Crashed
    BY <1>1, <2>3, CrashedIsOver
  <2> QED  BY <2>1, <2>2, <2>3 DEF Course
<1>2. ASSUME UNCHANGED vars PROVE Homing'
  <2>1. /\ calls' = calls /\ pc' = pc /\ where' = where /\ sets' = sets /\ at' = at /\ end' = end
        /\ err' = err /\ gathers' = gathers /\ stages' = stages /\ stage' = stage
        /\ status' = status
    BY <1>2 DEF vars, local
  <2>2. ASSUME NEW r \in Rank PROVE Homes(r)'
    <3>1. Homes(r)
      BY DEF Homing
    <3>2. Swept(r)'
      BY <2>1, <3>1, HomedRests DEF Homes, Swept, Sweeping
    <3>3. Ready(r)' => \A k \in 1 .. Len(sets'[r]) : Homed(r, k)'
      BY <2>1, <3>1, HomedRests DEF Homes, Ready, Integrates
    <3>4. Exchanged(r)' => \A p \in Incoming(r)' : where'[p] = r
      BY <2>1, <3>1 DEF Homes, Exchanged, Entered, Incoming, Given
    <3>5. Reporting(r)'
      BY <2>1, <3>1 DEF Homes, Reporting, Gave, AtEnd, Has
    <3> QED  BY <3>2, <3>3, <3>4, <3>5 DEF Homes
  <2> QED  BY <2>2 DEF Homing
<1> QED  BY <1>1, <1>2 DEF Next, Over

LEMMA InitHoming == Init => Homing
<1> SUFFICES ASSUME Init, NEW r \in Rank PROVE Homes(r)
  BY Zenon DEF Homing
<1>1. \A q \in Rank : pc[q] = "step"
  <2>1. pc = [q \in Rank |-> "step"]
    BY DEF Init
  <2> QED  BY <2>1, Zenon
<1>2. pc[r] = "step"
  BY <1>1
<1>3. Swept(r)
  BY <1>2 DEF Swept, Sweeping
<1>4. ~Ready(r) /\ ~Exchanged(r) /\ Reporting(r)
  BY <1>2 DEF Ready, Exchanged, Reporting
<1> QED  BY <1>3, <1>4 DEF Homes

\* A rank behind another one is in its call, and every rank has entered that one.
LEMMA Trailing ==
    ASSUME Typed, OnTrace, NEW q \in Rank, NEW r \in Rank, Stand(q) < Stand(r),
           Loci[q].op \notin {"gather", "gather_root"}
    PROVE  pc[q] \in Ops /\ Entered(q)
<1>1. /\ calls \in T!Lists(Call) /\ (Inside[q] <=> pc[q] \in Ops)
      /\ T!Together(calls, Inside, Loci, Says)
  BY PathsTyped DEF OnTrace
<1>2. T!At(calls, Inside, q) = Stand(q) /\ T!At(calls, Inside, r) = Stand(r)
  BY StandIs
<1>3. How(Loci[q]) \notin {"none", "root"}
  BY DEF How
<1>4. Inside[q] /\ \A x \in Rank : Len(calls[x]) >= Len(calls[q])
  BY <1>1, <1>2, <1>3, T!Trailing
<1> QED  BY <1>1, <1>4 DEF Entered

\* A rank that may integrate is about to enter the call for the bounds.
LEMMA IntegratesPlace ==
    ASSUME Typed, NEW r \in Rank, Integrates(r)
    PROVE  pc[r] \notin Ops /\ Loci[r].op = "bounds"
<1>1. PICK l, x : l = pc[r] /\ x = X(r)
  OBVIOUS
<1>2. /\ l = "stage" /\ l \notin Ops /\ Loci[r] = LocusOf(l, x)
      /\ x.stage = stage[r] /\ x.stages = stages[r] /\ x.status = status[r]
  BY <1>1, CommonIs, PathsTyped, LabelFacts DEF Integrates, Ops
<1>3. Loci[r] = StagePlace(x)
  <2>1. LocusOf("stage", x) = StagePlace(x)
    BY LocusIs
  <2> QED  BY <1>2, <2>1
<1>4. Going(x) /\ x.stages # 0
  BY <1>2 DEF Integrates, Going, Typed, TypeOK
<1>5. Loci[r] = P("bounds", [x EXCEPT !.err = 0])
  BY <1>3, <1>4 DEF StagePlace
<1> QED  BY <1>1, <1>2, <1>5, OpOfPlace

\* Nor does the place of a rank that has kept a set, or the place behind it, lead there.
LEMMA KeptPlace ==
    ASSUME Typed, OnTrace, NEW q \in Rank, KeptAt(q), kept[q] # 0
    PROVE  /\ Loci[q].op \in {"gather_set", "next", "report", "none"}
           /\ pc[q] \in Ops /\ Entered(q) =>
                 Beyond(q).op \in {"next", "report", "none"}
<1>1. PICK l, x : l = pc[q] /\ x = X(q)
  OBVIOUS
<1>2. /\ l \in KeptLabels /\ x \in Common /\ x.gathers = gathers[q] /\ Loci[q] = LocusOf(l, x)
  BY <1>1, CommonIs, PathsTyped DEF KeptAt, KeptLabels
<1>3. Loci[q].op \in {"gather_set", "next", "report", "none"}
  <2>1. CASE l \in {"gather_set", "next", "report"}
    <3>1. l \in Ops
      BY <2>1, LabelFacts
    <3> QED  BY <1>1, <2>1, <3>1, StandIs
  <2>2. CASE l = "advance"
    <3>1. LocusOf("advance", x) = SetDone(x, x.err)
      BY LocusIs
    <3> QED  BY <1>2, <2>2, <3>1, OpOfPlace DEF SetDone
  <2>3. CASE l \in Halted
    <3>1. LocusOf(l, x) = P("none", x)
      BY <2>3, LocusIs
    <3> QED  BY <1>2, <3>1, OpOfPlace
  <2> QED  BY <1>2, <2>1, <2>2, <2>3 DEF KeptLabels
<1>4. ASSUME l \in Ops, Entered(q)
      PROVE  Beyond(q).op \in {"next", "report", "none"}
  <2>1. l \in {"gather_set", "next", "report"} /\ Gave(q) = 1 /\ (l = "next" => gathers[q])
    BY <1>1, <1>4, LabelFacts DEF KeptAt, Ops, Halted
  <2>2. PICK v : v = Largest(q) /\ v = 1
    BY <1>1, <1>4, <2>1, FailureIsLargest
  <2>3. P(l, x).op = l /\ How(P(l, x)) = "largest"
    BY <2>1, OpOfPlace DEF How
  <2>4. Beyond(q) = After(P(l, x), v) /\ Fits(l, x)
    BY <1>1, <1>4, <2>2, <2>3, CallResult
  <2>5. Beyond(q).op \in {"next", "report", "none"}
    <3>1. CASE l = "gather_set"
      <4>1. After(P("gather_set", x), v) = IF v = 1 THEN SetDone(x, 1) ELSE SetDone(x, 0)
        BY AfterIs
      <4>2. Beyond(q) = SetDone(x, 1)
        BY <2>2, <2>4, <3>1, <4>1
      <4> QED  BY <4>2, OpOfPlace DEF SetDone
    <3>2. CASE l = "next"
      <4>1. After(P("next", x), v) = IF v = 0 THEN P("ends", x)
                                     ELSE IF x.gathers THEN P("report", WithFailure(x))
                                     ELSE BackPlace(x, x.err)
        BY AfterIs
      <4>2. Beyond(q) = P("report", WithFailure(x))
        BY <1>2, <2>1, <2>2, <2>4, <3>2, <4>1
      <4> QED  BY <4>2 DEF P
    <3>3. CASE l = "report"
      <4>1. After(P("report", x), v) = IF v = 1 \/ LastStep(x) THEN P("none", Later(x))
                                       ELSE P("bounds", Fresh(Cleaned(x)))
        BY AfterIs
      <4>2. Beyond(q) = P("none", Later(x))
        BY <2>2, <2>4, <3>3, <4>1
      <4> QED  BY <4>2, OpOfPlace
    <3> QED  BY <2>1, <3>1, <3>2, <3>3
  <2> QED  BY <2>5
<1> QED  BY <1>1, <1>3, <1>4

\* While a rank may integrate, nobody has kept what rank 0 has gathered.
LEMMA NoneKeptElsewhere ==
    ASSUME Typed, OnTrace, Keeping, NEW r \in Rank, Integrates(r), NEW q \in Rank
    PROVE  kept[q] = 0
<1> SUFFICES ASSUME kept[q] # 0 PROVE FALSE
  OBVIOUS
<1>1. KeptAt(q)
  BY DEF Keeping
<1>2. pc[r] \notin Ops /\ Loci[r].op = "bounds"
  BY IntegratesPlace
<1>3. /\ Loci[q].op \in {"gather_set", "next", "report", "none"}
      /\ pc[q] \in Ops /\ Entered(q) => Beyond(q).op \in {"next", "report", "none"}
  BY <1>1, KeptPlace
<1>4. Stand(q) \in Nat /\ Stand(r) \in Nat /\ (pc[q] \in Ops => Stand(q) = Len(calls[q]))
  BY StandIs DEF Stand
<1>5. CASE Stand(r) < Stand(q)
  <2>1. pc[r] \in Ops
    BY <1>2, <1>5, Trailing
  <2> QED  BY <1>2, <2>1
<1>6. CASE Stand(r) = Stand(q)
  <2>1. Loci[r] = Loci[q]
    <3>1. T!At(calls, Inside, q) = Stand(q) /\ T!At(calls, Inside, r) = Stand(r)
      BY StandIs
    <3>2. T!Together(calls, Inside, Loci, Says)
      BY DEF OnTrace
    <3> QED  BY <1>6, <3>1, <3>2, T!SameSpot
  <2> QED  BY <1>2, <1>3, <2>1
<1>7. CASE Stand(q) < Stand(r)
  <2>1. pc[q] \in Ops /\ Entered(q)
    BY <1>3, <1>7, Trailing
  <2>2. Stand(r) > Len(calls[q]) /\ Len(calls[q]) \in Nat
    BY <1>4, <1>7, <2>1
  <2>3. PICK p \in Place : /\ p = Beyond(q)
                           /\ Stand(r) = Len(calls[q]) + 1 => Loci[r] = p
                           /\ T!Needs(p, q) => Stand(r) = Len(calls[q]) + 1
    BY <1>4, <2>1, <2>2, Neighbours
  <2>4. p.op \in {"next", "report", "none"}
    BY <1>3, <2>1, <2>3
  <2>5. T!Needs(p, q)
    BY <2>3, <2>4, Waited
  <2> QED  BY <1>2, <2>3, <2>4, <2>5
<1> QED  BY <1>4, <1>5, <1>6, <1>7

\* A rank integrates no particle outside its subdomain, where it has no fluid: whenever it may
\* integrate, the redistribution has seen every set of every rank, also those that only some
\* of the ranks have, and no failure has made it skip one; and an output, which brings all the
\* particles to rank 0, has been followed by a redistribution.  Nor does any rank integrate
\* once one of them has kept, for want of memory, the set that rank 0 has gathered.
THEOREM ParticlesAtHome == Cleared => (Spec => []AtHome)
<1>1. \A r \in Rank : Integrates(r) => Ready(r)
  BY DEF Integrates, Ready
<1>2. Course /\ Placing /\ Homing => AtHome
  <2> SUFFICES ASSUME Course, Placing, Homing, NEW r \in Rank, Integrates(r)
               PROVE  /\ \A p \in Own(r) : where[p] = r
                      /\ \A q \in Rank : kept[q] = 0
    BY DEF AtHome
  <2>1. Ready(r) /\ Homes(r) /\ Typed
    BY <1>1 DEF Homing, Course
  <2>2. ASSUME NEW p \in Own(r) PROVE where[p] = r
    <3>1. PICK k \in 1 .. Len(sets[r]) : p \in sets[r][k]
      BY <2>1, OwnIs
    <3> QED  BY <2>1, <3>1 DEF Homes, Homed
  <2>3. OnTrace
    BY DEF Course, Crashed, Integrates
  <2>4. \A q \in Rank : kept[q] = 0
    BY <2>1, <2>3, NoneKeptElsewhere DEF Placing
  <2> QED  BY <2>2, <2>4
<1>3. Course /\ Placing /\ Homing /\ [Next]_vars => Homing'
  BY HomingNext
<1> QED  BY <1>2, <1>3, InitHoming, CourseAlways, PlacingAlways, PTL DEF Spec

===============================================================================
