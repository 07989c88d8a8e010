---------------------------- MODULE CheckpointProofs ----------------------------
(***************************************************************************)
(* Proofs about module Checkpoint: that the collectives of a dump and of a *)
(* restart always match, and that a dump is atomic, for any number of      *)
(* ranks, files and jobs.                                                  *)
(*                                                                         *)
(* The program of a rank is mapped to the places of CollectiveTrace: where *)
(* a rank is, Locus, follows from its own variables, and every action      *)
(* moves its rank along one common trace, or not at all.                   *)
(***************************************************************************)
EXTENDS Checkpoint, TLAPS

\* The failures whose outcome stays with one rank (see the findings): with any of
\* them the ranks get out of step, and the theorems below do not hold.
Contained ==
    /\ ~Fails("bnd", "open") /\ ~Fails("bnd", "write")
    /\ ~Fails("grid", "dir")

Waits == {"step_wait", "unlinked", "named", "dims", "alloc", "gathered", "opened",
          "sized", "share", "fin_wait", "time_wait", "barrier", "report_wait",
          "time_read", "values", "read_wait", "resume_wait"}

\* op: the collective that is entered next; file: of which file; n: the step number;
\* e: the result so far, where all the ranks have the same.
Place ==
    {p \in [layout : Layouts, op : Ops \cup {"none"}, file : Nat, n : 0 .. StepMax, e : Bit] :
        p.file \in 1 .. Len(p.layout.files)}
P(l, op, f, n, e) == [layout |-> l, op |-> op, file |-> f, n |-> n, e |-> e]

LoopPlace(l, n) == IF n = StepMax THEN P(l, "unlink", 1, n, 0)
                                  ELSE P(l, "step", 1, n + 1, 0)

\* Not every file has been written: file f is where it went wrong.
Failed(l, f, n) == P(l, "fin", f, n, 1)

FilePlace(l, f, n) ==
    CASE l.files[f] = "shared"                         -> P(l, "share", f, n, 0)
      [] l.files[f] = "bnd" /\ l.mode = "byprocess"    -> P(l, "name", f, n, 0)
      [] l.files[f] = "bnd" /\ l.mode # "byprocess"    -> Failed(l, f, n)
      [] l.files[f] \in Gridded                        -> P(l, "dims", f, n, 0)

FilesDone(l, f, n) == IF f = Len(l.files) THEN P(l, "fin", 1, n, 0)
                                          ELSE FilePlace(l, f + 1, n)

DimsDone(l, f, n) ==
    CASE l.mode = "byprocess" -> P(l, "share", f, n, 0)
      [] l.mode = "gather"    -> P(l, "alloc", f, n, 0)
      [] l.mode = "mpi"       -> P(l, "opened", f, n, 0)

Op(p) == p.op

How(p) ==
    IF p.op \in {"unlink", "time", "time_read", "values"} THEN "root"
    ELSE IF p.op = "read" /\ p.layout.files[p.file] = "shared" THEN "root"
    ELSE IF p.op = "step" THEN "all" ELSE "largest"

\* Where the ranks go from place p when its call results in v.
After(p, v) ==
    LET l == p.layout
        f == p.file
        n == p.n
    IN CASE p.op = "step"     -> IF v = 1 THEN P(l, "unlink", 1, n, 0) ELSE LoopPlace(l, n)
         [] p.op = "unlink"   -> IF v = 1 THEN P(l, "report", 1, n, 0)
                                          ELSE FilePlace(l, 1, n)
         [] p.op = "share"    -> IF l.files[f] # "loose" /\ v = 1 THEN Failed(l, f, n)
                                                                 ELSE FilesDone(l, f, n)
         [] p.op = "name"     -> FilesDone(l, f, n)
         [] p.op = "dims"     -> DimsDone(l, f, n)
         [] p.op = "alloc"    -> IF v = 1 THEN P(l, "share", f, n, 0)
                                          ELSE P(l, "gathered", f, n, 0)
         [] p.op = "gathered" -> P(l, "share", f, n, 0)
         [] p.op = "opened"   -> IF v = 1 THEN P(l, "share", f, n, 0)
                                          ELSE P(l, "sized", f, n, 0)
         [] p.op = "sized"    -> P(l, "share", f, n, 0)
         [] p.op = "fin"      -> IF p.e = 1 THEN P(l, "report", 1, n, 0)
                                            ELSE P(l, "time", 1, n, 0)
         [] p.op = "time"     -> IF v = 1 THEN P(l, "report", 1, n, 0)
                                          ELSE P(l, "barrier", 1, n, 0)
         [] p.op = "barrier"  -> P(l, "report", 1, n, 0)
         [] p.op = "time_read" -> IF v = 1 THEN P(l, "resume", 1, 0, 1)
                                           ELSE P(l, "values", 1, 0, 0)
         [] p.op = "values"   -> P(l, "read", 1, v, 0)
         [] p.op = "read"     -> IF v > 0 /\ ~(l.files[f] = "bnd" /\ v = 1)
                                 THEN P(l, "resume", 1, 0, 1)
                                 ELSE IF f = Len(l.files) THEN P(l, "resume", 1, n, 0)
                                                          ELSE P(l, "read", f + 1, n, 0)
         [] p.op = "resume" /\ p.e = 0 -> LoopPlace(l, n)
         [] OTHER             -> P(l, "none", 1, 0, 0)

T == INSTANCE CollectiveTrace

\* The place of a rank at pc at, with file f, icnt n and err e.
LocusOf(l, at, f, n, e) ==
    CASE at = "loop"                       -> LoopPlace(l, n)
      [] at = "step_wait"                  -> P(l, "step", 1, n, 0)
      [] at \in {"begin", "unlinked"}      -> P(l, "unlink", 1, n, 0)
      [] at = "file"                       -> FilePlace(l, f, n)
      [] at = "named"                      -> P(l, "name", f, n, 0)
      [] at \in {"dims", "alloc", "gathered", "opened", "sized", "share"}
                                           -> P(l, at, f, n, 0)
      [] at = "write"                      -> IF l.files[f] = "bnd" THEN FilesDone(l, f, n)
                                                               ELSE P(l, "share", f, n, 0)
      [] at \in {"fin", "fin_wait"}        -> P(l, "fin", IF e = 1 THEN f ELSE 1, n, e)
      [] at \in {"time", "time_write", "time_wait"} -> P(l, "time", 1, n, 0)
      [] at = "barrier"                    -> P(l, "barrier", 1, n, 0)
      [] at \in {"report", "report_wait"}  -> P(l, "report", 1, n, 0)
      [] at \in {"restart", "time_read"}   -> P(l, "time_read", 1, 0, 0)
      [] at = "values"                     -> P(l, "values", 1, 0, 0)
      [] at \in {"read", "read_wait"}      -> P(l, "read", f, n, 0)
      [] at \in {"resume", "resume_wait"}  -> P(l, "resume", 1, IF e = 1 THEN 0 ELSE n, e)
      [] at \in Halted                     -> P(l, "none", 1, 0, 0)

Loci   == [r \in Rank |-> LocusOf(layout, pc[r], file[r], icnt[r], err[r])]
Inside == [r \in Rank |-> pc[r] \in Waits]

\* What a rank contributes in a place.
Vals(op) == IF op = "values" THEN 0 .. StepMax ELSE IF op = "read" THEN 0 .. 2 ELSE Bit
Says ==
    {t \in Place \X Rank \X Nat :
        t[3] \in Vals(t[1].op) /\ (t[1].op \in {"fin", "resume"} => t[3] = t[1].e)}

Call == [op : Ops, value : Nat]

\* The file at hand is one that the function at hand is for.
Fits(l, at, f, e) ==
    /\ at \in {"dims", "alloc", "gathered", "opened", "sized"} => l.files[f] \in Gridded
    /\ at = "named" => l.files[f] = "bnd" /\ l.mode = "byprocess"
    /\ at \in {"unlinked", "restart", "time_read", "values"} => f = 1
    /\ at \in {"restart", "time_read", "values", "read", "read_wait"} => e = 0
KindsFit == \A r \in Rank : Fits(layout, pc[r], file[r], err[r])

Types == TypeOK /\ mem \in [Rank -> [1 .. Count -> Stamp \cup {None}]]

\* The part of the types that the control flow rests on.
Ranks ==
    /\ layout \in Layouts
    /\ pc \in [Rank -> Labels] /\ file \in [Rank -> 1 .. Count]
    /\ icnt \in [Rank -> 0 .. StepMax] /\ err \in [Rank -> Bit]
    /\ KindsFit

OnTrace == T!Together(calls, Inside, Loci, Says)

Course == Contained /\ Types /\ KindsFit /\ OnTrace

-------------------------------------------------------------------------------
(***************************************************************************)
(* The four ways in which an action of rank r can move it.                 *)
(***************************************************************************)
Meets(r)  == T!Met(Loci[r], calls, Len(calls[r]))
Beyond(r) == After(Loci[r], T!Result(Loci[r], calls, Len(calls[r])))

\* Nothing but the rank's own work.
Along(r) == calls' = calls /\ Inside' = Inside /\ Loci' = Loci

Enters(r, p, v) ==
    Enter(r, p.op, v) /\ p \in Place /\ p.op \in Ops /\ v \in Nat /\ <<p, r, v>> \in Says

Called(p, v) == [op |-> p.op, value |-> v]

\* It enters the call of its place.
Entering(r) ==
    /\ ~Inside[r] /\ Inside' = T!In(Inside, r)
    /\ Loci' = Loci
    /\ \E v : Enters(r, Loci[r], v)

\* It leaves the call that it is in.
Leaving(r) ==
    /\ Inside[r] /\ Meets(r) /\ Inside' = T!Out(Inside, r)
    /\ Beyond(r) \in Place /\ Loci' = T!Moved(Loci, r, Beyond(r))
    /\ calls' = calls

\* It leaves the call that it is in and enters the next one.
GoingOn(r) ==
    /\ Inside[r] /\ Meets(r) /\ Inside' = Inside
    /\ Beyond(r) \in Place /\ Loci' = T!Moved(Loci, r, Beyond(r))
    /\ \E v : Enters(r, Beyond(r), v)

Moves(r) == Along(r) \/ Entering(r) \/ Leaving(r) \/ GoingOn(r)

-------------------------------------------------------------------------------
(***************************************************************************)
(* The places are well formed.                                             *)
(***************************************************************************)
LEMMA LayoutFacts ==
    ASSUME NEW l \in Layouts
    PROVE  /\ l.mode \in Modes /\ l.files \in Seq(Kinds) /\ Len(l.files) \in Nat \ {0}
           /\ \A f \in 1 .. Len(l.files) : l.files[f] \in Kinds
<1>1. l.mode \in Modes /\ l.files \in Seq(Kinds) \ {<<>>}
  BY LayoutAssumption
<1>2. Len(l.files) \in Nat \ {0} /\ \A f \in 1 .. Len(l.files) : l.files[f] \in Kinds
  BY <1>1
<1> QED  BY <1>1, <1>2

LEMMA PlaceTyped ==
    ASSUME NEW l \in Layouts, NEW op \in Ops \cup {"none"}, NEW f \in 1 .. Len(l.files),
           NEW n \in 0 .. StepMax, NEW e \in Bit
    PROVE  P(l, op, f, n, e) \in Place
<1>1. Len(l.files) \in Nat
  BY LayoutFacts
<1> QED  BY <1>1 DEF P, Place

LEMMA FilePlaceTyped ==
    ASSUME NEW l \in Layouts, NEW f \in 1 .. Len(l.files), NEW n \in 0 .. StepMax
    PROVE  /\ FilePlace(l, f, n) \in Place /\ FilesDone(l, f, n) \in Place
           /\ Failed(l, f, n) \in Place /\ LoopPlace(l, n) \in Place
<1>1. /\ Len(l.files) \in Nat /\ 1 \in 1 .. Len(l.files)
      /\ \A g \in 1 .. Len(l.files) : l.files[g] \in Kinds
  BY LayoutFacts
<1>2. 0 \in Bit /\ 1 \in Bit /\ {"fin", "share", "name", "dims", "step", "unlink"} \subseteq Ops
  BY DEF Bit, Ops
<1>3. \A g \in 1 .. Len(l.files) : Failed(l, g, n) \in Place
  BY <1>1, <1>2, PlaceTyped DEF Failed
<1>4. ASSUME NEW g \in 1 .. Len(l.files) PROVE FilePlace(l, g, n) \in Place
  <2>1. l.files[g] \in Kinds /\ g \in Nat
    BY <1>1
  <2>2. /\ P(l, "share", g, n, 0) \in Place /\ P(l, "name", g, n, 0) \in Place
        /\ P(l, "dims", g, n, 0) \in Place
    BY <1>2, <2>1, PlaceTyped
  <2> QED  BY <2>1, <2>2, <1>3 DEF FilePlace, Kinds, Gridded
<1>5. FilesDone(l, f, n) \in Place
  <2>1. CASE f = Len(l.files)
    BY <2>1, <1>1, <1>2, PlaceTyped DEF FilesDone
  <2>2. CASE f # Len(l.files)
    <3>1. f + 1 \in 1 .. Len(l.files)
      BY <2>2, <1>1
    <3> QED  BY <3>1, <2>2, <1>4 DEF FilesDone
  <2> QED  BY <2>1, <2>2
<1>6. LoopPlace(l, n) \in Place
  <2>1. StepMax \in Nat
    BY BoundAssumption
  <2>2. CASE n = StepMax
    BY <2>2, <1>1, <1>2, PlaceTyped DEF LoopPlace
  <2>3. CASE n # StepMax
    <3>1. n + 1 \in 0 .. StepMax
      BY <2>1, <2>3
    <3> QED  BY <3>1, <2>3, <1>1, <1>2, PlaceTyped DEF LoopPlace
  <2> QED  BY <2>2, <2>3
<1> QED  BY <1>3, <1>4, <1>5, <1>6

LEMMA LocusTyped ==
    ASSUME NEW l \in Layouts, NEW at \in Labels, NEW f \in 1 .. Len(l.files),
           NEW n \in 0 .. StepMax, NEW e \in Bit
    PROVE  LocusOf(l, at, f, n, e) \in Place
<1>1. 1 \in 1 .. Len(l.files) /\ 0 \in 0 .. StepMax /\ 0 \in Bit
  <2>1. Len(l.files) \in Nat \ {0} /\ StepMax \in Nat
    BY LayoutFacts, BoundAssumption
  <2> QED  BY <2>1 DEF Bit
<1>2. \A op \in Ops \cup {"none"} : /\ P(l, op, f, n, 0) \in Place /\ P(l, op, 1, n, 0) \in Place
                      /\ P(l, op, 1, 0, 0) \in Place
                      /\ P(l, op, IF e = 1 THEN f ELSE 1, n, e) \in Place
                      /\ P(l, op, 1, IF e = 1 THEN 0 ELSE n, e) \in Place
  BY <1>1, PlaceTyped
<1>3. /\ FilePlace(l, f, n) \in Place /\ FilesDone(l, f, n) \in Place
      /\ LoopPlace(l, n) \in Place
  BY FilePlaceTyped
<1>4. CASE at \in {"loop", "file", "write"}
  BY <1>2, <1>3, <1>4 DEF LocusOf, Ops
<1>5. CASE at \in {"step_wait", "begin", "unlinked", "named", "dims", "alloc", "gathered",
                   "opened", "sized", "share"}
  BY <1>2, <1>5 DEF LocusOf, Ops
<1>6. CASE at \in {"fin", "fin_wait", "time", "time_write", "time_wait", "barrier",
                   "report", "report_wait"}
  BY <1>2, <1>6 DEF LocusOf, Ops
<1>7. CASE at \in {"restart", "time_read", "values", "read", "read_wait", "resume",
                   "resume_wait"} \cup Halted
  BY <1>2, <1>7 DEF LocusOf, Ops, Halted
<1> QED  BY <1>4, <1>5, <1>6, <1>7 DEF Labels, Halted, Restarting

\* What the types say of one rank.
LEMMA RankFacts ==
    ASSUME Types, NEW r \in Rank
    PROVE  /\ layout \in Layouts /\ Count \in Nat \ {0} /\ Root \in Rank
           /\ pc[r] \in Labels /\ file[r] \in 1 .. Count /\ Kind(file[r]) \in Kinds
           /\ icnt[r] \in 0 .. StepMax /\ err[r] \in Bit
           /\ pc \in [Rank -> Labels] /\ file \in [Rank -> 1 .. Count]
           /\ icnt \in [Rank -> 0 .. StepMax] /\ err \in [Rank -> Bit]
           /\ Loci[r] = LocusOf(layout, pc[r], file[r], icnt[r], err[r])
           /\ (Inside[r] <=> pc[r] \in Waits)
BY RootAssumption, LayoutFacts DEF Types, TypeOK, Count, Kind, Loci, Inside

LEMMA PathsTyped ==
    ASSUME Types
    PROVE  Loci \in T!Paths /\ Inside \in [Rank -> BOOLEAN] /\ calls \in T!Lists(Call)
<1>1. \A r \in Rank : LocusOf(layout, pc[r], file[r], icnt[r], err[r]) \in Place
  BY LocusTyped, RankFacts DEF Count
<1>2. calls \in T!Lists(Call)
  BY DEF Types, TypeOK, T!Lists, Call
<1> QED  BY <1>1, <1>2 DEF Loci, Inside, T!Paths

\* Enter() is what the theory calls it.
LEMMA EnterIs ==
    ASSUME Types, NEW r \in Rank, NEW p \in Place, NEW v, Enters(r, p, v)
    PROVE  /\ Called(p, v) \in Call /\ Called(p, v).op = p.op /\ Called(p, v).value = v
           /\ calls' = T!Shorter(T!Longer(calls, r, Called(p, v)))
           /\ calls' \in T!Lists(Call) /\ T!Last(calls', r) = Called(p, v)
<1>0. p.op \in Ops /\ v \in Nat
  BY DEF Enters
<1>1. Called(p, v) \in Call /\ Called(p, v).op = p.op /\ Called(p, v).value = v
  BY <1>0 DEF Call, Called
<1>2. calls' = T!Shorter(T!Longer(calls, r, Called(p, v)))
  BY DEF Enters, Enter, Called, T!Shorter, T!Longer, T!Past, T!Tails
<1>3. calls \in T!Lists(Call)
  BY PathsTyped
<1> QED  BY <1>1, <1>2, <1>3, T!LastIsNew

\* Every move keeps the ranks on one trace; what they contribute may be restricted to
\* any set that holds the value of the call that is entered, if one is.
LEMMA MovesKeepTrace ==
    ASSUME Types, NEW r \in Rank, Moves(r), NEW G, T!Together(calls, Inside, Loci, G),
           Inside'[r] => <<Loci'[r], r, T!Last(calls', r).value>> \in G
    PROVE  T!Together(calls', Inside', Loci', G)
<1>1. /\ Loci \in T!Paths /\ Inside \in [Rank -> BOOLEAN] /\ calls \in T!Lists(Call)
      /\ Root \in Rank
  BY PathsTyped, RootAssumption
<1>2. CASE Along(r)
  BY <1>2 DEF Along
<1>3. CASE Entering(r)
  <2>1. PICK v : Enters(r, Loci[r], v)
    BY <1>3 DEF Entering
  <2>2. PICK e : e = Called(Loci[r], v)
    OBVIOUS
  <2>3. Loci[r] \in Place
    BY <1>1 DEF T!Paths
  <2>4. /\ e \in Call /\ e.op = Loci[r].op /\ e.value = v
        /\ calls' = T!Shorter(T!Longer(calls, r, e)) /\ T!Last(calls', r) = e
    BY <2>1, <2>2, <2>3, EnterIs
  <2>5. ~Inside[r] /\ Inside' = T!In(Inside, r) /\ Inside'[r] /\ Loci' = Loci
    BY <1>1, <1>3 DEF Entering, T!In
  <2>6. e.op = Op(Loci[r]) /\ <<Loci[r], r, e.value>> \in G
    BY <2>4, <2>5 DEF Op
  <2> QED  BY <1>1, <2>4, <2>5, <2>6, T!TogetherEnters
<1>4. CASE Leaving(r)
  <2>1. PICK p : p = Beyond(r)
    OBVIOUS
  <2>2. /\ Inside[r] /\ T!Met(Loci[r], calls, Len(calls[r])) /\ p \in Place
        /\ p = After(Loci[r], T!Result(Loci[r], calls, Len(calls[r])))
        /\ Inside' = T!Out(Inside, r) /\ Loci' = T!Moved(Loci, r, p) /\ calls' = calls
    BY <2>1, <1>4 DEF Leaving, Meets, Beyond
  <2> QED  BY <1>1, <2>2, T!TogetherLeaves
<1>5. CASE GoingOn(r)
  <2>1. PICK v, p : Enters(r, p, v) /\ p = Beyond(r)
    BY <1>5 DEF GoingOn
  <2>2. PICK e : e = Called(p, v)
    OBVIOUS
  <2>3. p \in Place
    BY <2>1 DEF Enters
  <2>4. /\ e \in Call /\ e.op = p.op /\ e.value = v
        /\ calls' = T!Shorter(T!Longer(calls, r, e)) /\ T!Last(calls', r) = e
    BY <2>1, <2>2, <2>3, EnterIs
  <2>5. /\ Inside[r] /\ T!Met(Loci[r], calls, Len(calls[r])) /\ p \in Place
        /\ p = After(Loci[r], T!Result(Loci[r], calls, Len(calls[r])))
        /\ Inside' = Inside /\ Loci' = T!Moved(Loci, r, p) /\ Loci'[r] = p
    BY <1>1, <2>1, <1>5 DEF GoingOn, Meets, Beyond, T!Moved, T!Paths
  <2>6. e.op = Op(p) /\ <<p, r, e.value>> \in G
    BY <2>4, <2>5 DEF Op
  <2> QED  BY <1>1, <2>4, <2>5, <2>6, T!TogetherGoesOn
<1> QED  BY <1>2, <1>3, <1>4, <1>5 DEF Moves

\* And what they contribute is allowed.
LEMMA MovesSay ==
    ASSUME Types, NEW r \in Rank, Moves(r)
    PROVE  /\ Inside'[r] => <<Loci'[r], r, T!Last(calls', r).value>> \in Says \/ Along(r)
           /\ calls' \in T!Lists(Call)
<1>1. /\ Loci \in T!Paths /\ Inside \in [Rank -> BOOLEAN] /\ calls \in T!Lists(Call)
  BY PathsTyped
<1>2. ASSUME NEW p, NEW v, Enters(r, p, v)
      PROVE  <<p, r, T!Last(calls', r).value>> \in Says /\ calls' \in T!Lists(Call)
  <2>1. p \in Place /\ <<p, r, v>> \in Says
    BY <1>2 DEF Enters
  <2> QED  BY <2>1, <1>2, EnterIs
<1>3. CASE Along(r)
  BY <1>1, <1>3 DEF Along
<1>4. CASE Entering(r)
  BY <1>2, <1>4 DEF Entering
<1>5. CASE Leaving(r)
  BY <1>1, <1>5 DEF Leaving, T!Out
<1>6. CASE GoingOn(r)
  <2>1. Loci'[r] = Beyond(r)
    BY <1>1, <1>6 DEF GoingOn, T!Moved, T!Paths
  <2> QED  BY <2>1, <1>2, <1>6 DEF GoingOn
<1> QED  BY <1>3, <1>4, <1>5, <1>6 DEF Moves

-------------------------------------------------------------------------------
(***************************************************************************)
(* What an action does to its rank: it goes to label l, its file, its step *)
(* number and its code become f, n and c.                                  *)
(***************************************************************************)
Becomes(r, l, f, n, c) ==
    /\ layout' = layout
    /\ Goto(r, l)
    /\ (file' = file /\ f = file[r]) \/ file' = [file EXCEPT ![r] = f]
    /\ (icnt' = icnt /\ n = icnt[r]) \/ icnt' = [icnt EXCEPT ![r] = n]
    /\ (err' = err /\ c = err[r]) \/ err' = [err EXCEPT ![r] = c]

Local(r, l, f, n, c) ==
    /\ l \in Labels /\ f \in 1 .. Count /\ n \in 0 .. StepMax /\ c \in Bit
    /\ Fits(layout, l, f, c)
    /\ Becomes(r, l, f, n, c)

LEMMA LocalMoves ==
    ASSUME Types, KindsFit, NEW r \in Rank, NEW l, NEW f, NEW n, NEW c, Local(r, l, f, n, c)
    PROVE  /\ Ranks'
           /\ LocusOf(layout, l, f, n, c) \in Place
           /\ Loci' = T!Moved(Loci, r, LocusOf(layout, l, f, n, c))
           /\ l \in Waits => Inside' = T!In(Inside, r)
           /\ l \notin Waits => Inside' = T!Out(Inside, r)
<1>1. /\ pc' = [pc EXCEPT ![r] = l] /\ layout' = layout
      /\ pc \in [Rank -> Labels] /\ file \in [Rank -> 1 .. Count]
      /\ icnt \in [Rank -> 0 .. StepMax] /\ err \in [Rank -> Bit]
      /\ l \in Labels /\ f \in 1 .. Count /\ n \in 0 .. StepMax /\ c \in Bit
  BY DEF Local, Becomes, Goto, Types, TypeOK
<1>2. /\ file' \in [Rank -> 1 .. Count] /\ file'[r] = f
      /\ \A q \in Rank : q # r => file'[q] = file[q]
  BY <1>1 DEF Local, Becomes
<1>3. /\ icnt' \in [Rank -> 0 .. StepMax] /\ icnt'[r] = n
      /\ \A q \in Rank : q # r => icnt'[q] = icnt[q]
  BY <1>1 DEF Local, Becomes
<1>4. /\ err' \in [Rank -> Bit] /\ err'[r] = c
      /\ \A q \in Rank : q # r => err'[q] = err[q]
  BY <1>1 DEF Local, Becomes
<1>5. /\ pc' \in [Rank -> Labels] /\ pc'[r] = l
      /\ \A q \in Rank : q # r => pc'[q] = pc[q]
  BY <1>1
<1>6. Ranks'
  <2>1. KindsFit'
    <3> SUFFICES ASSUME NEW q \in Rank PROVE Fits(layout, pc'[q], file'[q], err'[q])
      BY <1>1 DEF KindsFit
    <3>1. CASE q = r
      BY <3>1, <1>2, <1>4, <1>5 DEF Local
    <3>2. CASE q # r
      BY <3>2, <1>2, <1>4, <1>5 DEF KindsFit
    <3> QED  BY <3>1, <3>2
  <2>2. layout' \in Layouts /\ Count' = Count
    BY <1>1 DEF Types, TypeOK, Count
  <2> QED  BY <2>1, <2>2, <1>2, <1>3, <1>4, <1>5 DEF Ranks
<1>7. PICK p : p = LocusOf(layout, l, f, n, c)
  OBVIOUS
<1>8. p \in Place
  BY <1>1, <1>7, LocusTyped DEF Types, TypeOK, Count
<1>9. Loci' = T!Moved(Loci, r, p)
  <2>1. Loci' = [q \in Rank |-> IF q = r THEN p ELSE Loci[q]]
    <3>1. ASSUME NEW q \in Rank
          PROVE  LocusOf(layout', pc'[q], file'[q], icnt'[q], err'[q])
                    = IF q = r THEN p ELSE Loci[q]
      <4>1. CASE q = r
        BY <4>1, <1>1, <1>2, <1>3, <1>4, <1>5, <1>7
      <4>2. CASE q # r
        BY <4>2, <1>1, <1>2, <1>3, <1>4, <1>5 DEF Loci
      <4> QED  BY <4>1, <4>2
    <3> QED  BY <3>1 DEF Loci
  <2>2. Loci = [q \in Rank |-> Loci[q]]
    BY DEF Loci
  <2> QED  BY <2>1, <2>2 DEF T!Moved
<1>10. /\ l \in Waits => Inside' = T!In(Inside, r)
       /\ l \notin Waits => Inside' = T!Out(Inside, r)
  <2>1. Inside = [q \in Rank |-> Inside[q]]
    BY DEF Inside
  <2>2. CASE l \in Waits
    <3>1. ASSUME NEW q \in Rank
          PROVE  (pc'[q] \in Waits) = IF q = r THEN TRUE ELSE Inside[q]
      BY <1>5, <2>2 DEF Inside
    <3>2. Inside' = [q \in Rank |-> IF q = r THEN TRUE ELSE Inside[q]]
      BY <3>1 DEF Inside
    <3> QED  BY <3>2, <2>1, <2>2 DEF T!In
  <2>3. CASE l \notin Waits
    <3>1. ASSUME NEW q \in Rank
          PROVE  (pc'[q] \in Waits) = IF q = r THEN FALSE ELSE Inside[q]
      <4>1. CASE q = r
        <5>1. ~(pc'[q] \in Waits)
          BY <4>1, <1>5, <2>3
        <5>2. (pc'[q] \in Waits) = FALSE
          BY <5>1
        <5> QED  BY <5>2, <4>1
      <4>2. CASE q # r
        BY <4>2, <1>5 DEF Inside
      <4> QED  BY <4>1, <4>2
    <3>2. Inside' = [q \in Rank |-> IF q = r THEN FALSE ELSE Inside[q]]
      BY <3>1 DEF Inside
    <3> QED  BY <3>2, <2>1, <2>3 DEF T!Out
  <2> QED  BY <2>2, <2>3
<1> QED  BY <1>6, <1>7, <1>8, <1>9, <1>10

\* What the ranks in a place may contribute.
Allowed(p, v) == v \in Vals(p.op) /\ (p.op \in {"fin", "resume"} => v = p.e)

LEMMA AllowedSays ==
    ASSUME NEW p \in Place, NEW r \in Rank, NEW v
    PROVE  /\ Allowed(p, v) => v \in Nat /\ <<p, r, v>> \in Says
           /\ <<p, r, v>> \in Says => Allowed(p, v)
<1>1. Vals(p.op) \subseteq Nat
  BY BoundAssumption DEF Vals, Bit
<1> QED  BY <1>1 DEF Says, Allowed

\* The rules by which each action is shown to be a move.
LEMMA LocalAlong ==
    ASSUME Types, KindsFit, NEW r \in Rank, NEW l, NEW f, NEW n, NEW c, Local(r, l, f, n, c),
           calls' = calls, pc[r] \notin Waits, l \notin Waits,
           LocusOf(layout, l, f, n, c) = Loci[r]
    PROVE  Along(r) /\ Ranks'
<1>1. /\ Ranks' /\ Loci' = T!Moved(Loci, r, Loci[r]) /\ Inside' = T!Out(Inside, r)
  BY LocalMoves
<1>2. Loci \in T!Paths /\ Inside \in [Rank -> BOOLEAN] /\ Inside[r] = FALSE
  BY PathsTyped DEF Inside
<1>3. Loci' = Loci
  BY <1>1, <1>2 DEF T!Moved, T!Paths
<1>4. Inside' = Inside
  BY <1>1, <1>2 DEF T!Out
<1> QED  BY <1>1, <1>3, <1>4 DEF Along

LEMMA LocalEntering ==
    ASSUME Types, KindsFit, NEW r \in Rank, NEW l, NEW f, NEW n, NEW c, Local(r, l, f, n, c),
           pc[r] \notin Waits, l \in Waits, LocusOf(layout, l, f, n, c) = Loci[r],
           Loci[r].op \in Ops, NEW v, Enter(r, Loci[r].op, v), Allowed(Loci[r], v)
    PROVE  Entering(r) /\ Ranks'
<1>1. /\ Ranks' /\ Loci' = T!Moved(Loci, r, Loci[r]) /\ Inside' = T!In(Inside, r)
  BY LocalMoves
<1>2. Loci \in T!Paths /\ ~Inside[r] /\ Loci[r] \in Place
  BY PathsTyped DEF Inside, T!Paths
<1>3. Loci' = Loci
  BY <1>1, <1>2 DEF T!Moved, T!Paths
<1>4. Enters(r, Loci[r], v)
  BY <1>2, AllowedSays DEF Enters
<1> QED  BY <1>1, <1>2, <1>3, <1>4 DEF Entering

LEMMA LocalLeaving ==
    ASSUME Types, KindsFit, NEW r \in Rank, NEW l, NEW f, NEW n, NEW c, Local(r, l, f, n, c),
           calls' = calls, pc[r] \in Waits, l \notin Waits, Meets(r),
           LocusOf(layout, l, f, n, c) = Beyond(r)
    PROVE  Leaving(r) /\ Ranks'
<1>1. /\ Ranks' /\ Loci' = T!Moved(Loci, r, Beyond(r)) /\ Inside' = T!Out(Inside, r)
      /\ Beyond(r) \in Place
  BY LocalMoves
<1>2. Inside[r]
  BY DEF Inside
<1> QED  BY <1>1, <1>2 DEF Leaving

LEMMA LocalGoingOn ==
    ASSUME Types, KindsFit, NEW r \in Rank, NEW l, NEW f, NEW n, NEW c, Local(r, l, f, n, c),
           pc[r] \in Waits, l \in Waits, Meets(r), LocusOf(layout, l, f, n, c) = Beyond(r),
           NEW op \in Ops, op = Beyond(r).op, NEW v, Enter(r, op, v), Allowed(Beyond(r), v)
    PROVE  GoingOn(r) /\ Ranks'
<1>1. /\ Ranks' /\ Loci' = T!Moved(Loci, r, Beyond(r)) /\ Inside' = T!In(Inside, r)
      /\ Beyond(r) \in Place
  BY LocalMoves
<1>2. Inside \in [Rank -> BOOLEAN] /\ Inside[r] = TRUE
  BY PathsTyped DEF Inside
<1>3. Inside' = Inside
  BY <1>1, <1>2 DEF T!In
<1>4. Enters(r, Beyond(r), v)
  BY <1>1, AllowedSays DEF Enters
<1> QED  BY <1>1, <1>2, <1>3, <1>4 DEF GoingOn

\* The result of the call that a rank leaves.
Returned(r) == IF How(Loci[r]) = "root" THEN RootEntered(r) ELSE Entered(r)
Value(r)    == IF How(Loci[r]) = "largest" THEN Largest(r) ELSE FromRoot(r)

LEMMA Outcome ==
    ASSUME Types, OnTrace, NEW r \in Rank, pc[r] \in Waits, Returned(r)
    PROVE  /\ Meets(r) /\ Beyond(r) = After(Loci[r], Value(r))
           /\ Allowed(Loci[r], Value(r))
           /\ How(Loci[r]) # "root" =>
                 \A q \in Rank : Allowed(Loci[r], Given(q, r))
<1>1. PICK n : n = Len(calls[r])
  OBVIOUS
<1>2. Meets(r)
  BY DEF Meets, T!Met, Returned, RootEntered, Entered
<1>3. Value(r) = T!Result(Loci[r], calls, n)
  <2>1. How(Loci[r]) # "none"
    BY DEF How
  <2>2. CASE How(Loci[r]) = "largest"
    <3>1. Largest(r) = T!Greatest(T!Values(calls, n))
      BY <1>1 DEF Largest, Contributed, Given, T!Greatest, T!Values
    <3> QED  BY <2>2, <3>1 DEF Value, T!Result
  <2>3. CASE How(Loci[r]) # "largest"
    BY <1>1, <2>1, <2>3 DEF Value, T!Result, Given, FromRoot
  <2> QED  BY <2>2, <2>3
<1>4. Beyond(r) = After(Loci[r], Value(r))
  BY <1>1, <1>3 DEF Beyond
<1>5. calls \in T!Lists(Call) /\ Inside[r] /\ Loci[r] \in Place
  BY PathsTyped DEF Inside, T!Paths
<1>6. \A q \in Rank : Len(calls[q]) >= n => Allowed(Loci[r], calls[q][n].value)
  BY <1>1, <1>5, AllowedSays, T!TogetherTold DEF OnTrace
<1>7. CASE How(Loci[r]) = "root"
  <2>1. Allowed(Loci[r], calls[Root][n].value)
    BY <1>1, <1>6, <1>7, RootAssumption DEF Returned, RootEntered
  <2> QED  BY <1>1, <1>2, <1>4, <1>7, <2>1 DEF Value, FromRoot, Given
<1>8. CASE How(Loci[r]) # "root"
  <2>1. \A q \in Rank : Allowed(Loci[r], calls[q][n].value)
    BY <1>1, <1>6, <1>8 DEF Returned, Entered
  <2>2. \A q \in Rank : Allowed(Loci[r], Given(q, r))
    BY <1>1, <2>1 DEF Given
  <2>3. CASE How(Loci[r]) # "largest"
    BY <1>2, <1>4, <1>8, <2>2, <2>3, RootAssumption DEF Value, FromRoot
  <2>4. CASE How(Loci[r]) = "largest"
    <3>1. PICK V : V = T!Values(calls, n)
      OBVIOUS
    <3>2. \A v \in V : Allowed(Loci[r], v)
      BY <2>1, <3>1 DEF T!Values
    <3>3. V # {}
      BY <3>1, RootAssumption DEF T!Values
    <3>4. V \subseteq 0 .. 2
      <4>1. Loci[r].op # "values"
        BY <2>4 DEF How
      <4> QED  BY <3>2, <4>1 DEF Allowed, Vals, Bit
    <3>5. T!Greatest(V) \in V
      BY <3>3, <3>4, T!GreatestIsLargest, 2 \in Nat
    <3>6. Value(r) = T!Greatest(V)
      BY <1>3, <2>4, <3>1 DEF T!Result
    <3> QED  BY <1>2, <1>4, <2>2, <3>2, <3>5, <3>6
  <2> QED  BY <2>3, <2>4
<1> QED  BY <1>7, <1>8

-------------------------------------------------------------------------------
(***************************************************************************)
(* The places, one by one.                                                 *)
(***************************************************************************)
LEMMA LocusIs ==
    ASSUME NEW l, NEW f, NEW n, NEW e
    PROVE  /\ LocusOf(l, "loop", f, n, e) = LoopPlace(l, n)
           /\ LocusOf(l, "step_wait", f, n, e) = P(l, "step", 1, n, 0)
           /\ LocusOf(l, "begin", f, n, e) = P(l, "unlink", 1, n, 0)
           /\ LocusOf(l, "unlinked", f, n, e) = P(l, "unlink", 1, n, 0)
           /\ LocusOf(l, "file", f, n, e) = FilePlace(l, f, n)
           /\ LocusOf(l, "named", f, n, e) = P(l, "name", f, n, 0)
           /\ LocusOf(l, "dims", f, n, e) = P(l, "dims", f, n, 0)
           /\ LocusOf(l, "alloc", f, n, e) = P(l, "alloc", f, n, 0)
           /\ LocusOf(l, "gathered", f, n, e) = P(l, "gathered", f, n, 0)
           /\ LocusOf(l, "opened", f, n, e) = P(l, "opened", f, n, 0)
           /\ LocusOf(l, "sized", f, n, e) = P(l, "sized", f, n, 0)
           /\ LocusOf(l, "share", f, n, e) = P(l, "share", f, n, 0)
           /\ LocusOf(l, "fin", f, n, e) = P(l, "fin", IF e = 1 THEN f ELSE 1, n, e)
           /\ LocusOf(l, "fin_wait", f, n, e) = P(l, "fin", IF e = 1 THEN f ELSE 1, n, e)
           /\ LocusOf(l, "time", f, n, e) = P(l, "time", 1, n, 0)
           /\ LocusOf(l, "time_write", f, n, e) = P(l, "time", 1, n, 0)
           /\ LocusOf(l, "time_wait", f, n, e) = P(l, "time", 1, n, 0)
           /\ LocusOf(l, "barrier", f, n, e) = P(l, "barrier", 1, n, 0)
           /\ LocusOf(l, "report", f, n, e) = P(l, "report", 1, n, 0)
           /\ LocusOf(l, "report_wait", f, n, e) = P(l, "report", 1, n, 0)
           /\ LocusOf(l, "restart", f, n, e) = P(l, "time_read", 1, 0, 0)
           /\ LocusOf(l, "time_read", f, n, e) = P(l, "time_read", 1, 0, 0)
           /\ LocusOf(l, "values", f, n, e) = P(l, "values", 1, 0, 0)
           /\ LocusOf(l, "read", f, n, e) = P(l, "read", f, n, 0)
           /\ LocusOf(l, "read_wait", f, n, e) = P(l, "read", f, n, 0)
           /\ LocusOf(l, "resume", f, n, e) = P(l, "resume", 1, IF e = 1 THEN 0 ELSE n, e)
           /\ LocusOf(l, "resume_wait", f, n, e) = P(l, "resume", 1, IF e = 1 THEN 0 ELSE n, e)
           /\ LocusOf(l, "ended", f, n, e) = P(l, "none", 1, 0, 0)
           /\ LocusOf(l, "aborted", f, n, e) = P(l, "none", 1, 0, 0)
           /\ LocusOf(l, "killed", f, n, e) = P(l, "none", 1, 0, 0)
           /\ l.files[f] = "bnd" => LocusOf(l, "write", f, n, e) = FilesDone(l, f, n)
           /\ l.files[f] # "bnd" => LocusOf(l, "write", f, n, e) = P(l, "share", f, n, 0)
<1>1. /\ LocusOf(l, "loop", f, n, e) = LoopPlace(l, n)
      /\ LocusOf(l, "step_wait", f, n, e) = P(l, "step", 1, n, 0)
      /\ LocusOf(l, "begin", f, n, e) = P(l, "unlink", 1, n, 0)
      /\ LocusOf(l, "unlinked", f, n, e) = P(l, "unlink", 1, n, 0)
      /\ LocusOf(l, "file", f, n, e) = FilePlace(l, f, n)
      /\ LocusOf(l, "named", f, n, e) = P(l, "name", f, n, 0)
  BY DEF LocusOf, Halted
<1>2. /\ LocusOf(l, "dims", f, n, e) = P(l, "dims", f, n, 0)
      /\ LocusOf(l, "alloc", f, n, e) = P(l, "alloc", f, n, 0)
      /\ LocusOf(l, "gathered", f, n, e) = P(l, "gathered", f, n, 0)
      /\ LocusOf(l, "opened", f, n, e) = P(l, "opened", f, n, 0)
      /\ LocusOf(l, "sized", f, n, e) = P(l, "sized", f, n, 0)
      /\ LocusOf(l, "share", f, n, e) = P(l, "share", f, n, 0)
  BY DEF LocusOf, Halted
<1>3. /\ LocusOf(l, "fin", f, n, e) = P(l, "fin", IF e = 1 THEN f ELSE 1, n, e)
      /\ LocusOf(l, "fin_wait", f, n, e) = P(l, "fin", IF e = 1 THEN f ELSE 1, n, e)
      /\ LocusOf(l, "time", f, n, e) = P(l, "time", 1, n, 0)
      /\ LocusOf(l, "time_write", f, n, e) = P(l, "time", 1, n, 0)
      /\ LocusOf(l, "time_wait", f, n, e) = P(l, "time", 1, n, 0)
      /\ LocusOf(l, "barrier", f, n, e) = P(l, "barrier", 1, n, 0)
  BY DEF LocusOf, Halted
<1>4. /\ LocusOf(l, "report", f, n, e) = P(l, "report", 1, n, 0)
      /\ LocusOf(l, "report_wait", f, n, e) = P(l, "report", 1, n, 0)
      /\ LocusOf(l, "restart", f, n, e) = P(l, "time_read", 1, 0, 0)
      /\ LocusOf(l, "time_read", f, n, e) = P(l, "time_read", 1, 0, 0)
      /\ LocusOf(l, "values", f, n, e) = P(l, "values", 1, 0, 0)
      /\ LocusOf(l, "read", f, n, e) = P(l, "read", f, n, 0)
  BY DEF LocusOf, Halted
<1>5. /\ LocusOf(l, "read_wait", f, n, e) = P(l, "read", f, n, 0)
      /\ LocusOf(l, "resume", f, n, e) = P(l, "resume", 1, IF e = 1 THEN 0 ELSE n, e)
      /\ LocusOf(l, "resume_wait", f, n, e) = P(l, "resume", 1, IF e = 1 THEN 0 ELSE n, e)
      /\ LocusOf(l, "ended", f, n, e) = P(l, "none", 1, 0, 0)
      /\ LocusOf(l, "aborted", f, n, e) = P(l, "none", 1, 0, 0)
      /\ LocusOf(l, "killed", f, n, e) = P(l, "none", 1, 0, 0)
  BY DEF LocusOf, Halted
<1>6. /\ l.files[f] = "bnd" => LocusOf(l, "write", f, n, e) = FilesDone(l, f, n)
      /\ l.files[f] # "bnd" => LocusOf(l, "write", f, n, e) = P(l, "share", f, n, 0)
  BY DEF LocusOf, Halted
<1> QED  BY <1>1, <1>2, <1>3, <1>4, <1>5, <1>6

LEMMA AfterIs ==
    ASSUME NEW l, NEW f, NEW n, NEW e, NEW v
    PROVE  /\ After(P(l, "step", f, n, e), v)
                 = IF v = 1 THEN P(l, "unlink", 1, n, 0) ELSE LoopPlace(l, n)
           /\ After(P(l, "unlink", f, n, e), v)
                 = IF v = 1 THEN P(l, "report", 1, n, 0) ELSE FilePlace(l, 1, n)
           /\ After(P(l, "share", f, n, e), v)
                 = IF l.files[f] # "loose" /\ v = 1 THEN Failed(l, f, n) ELSE FilesDone(l, f, n)
           /\ After(P(l, "name", f, n, e), v) = FilesDone(l, f, n)
           /\ After(P(l, "dims", f, n, e), v) = DimsDone(l, f, n)
           /\ After(P(l, "alloc", f, n, e), v)
                 = IF v = 1 THEN P(l, "share", f, n, 0) ELSE P(l, "gathered", f, n, 0)
           /\ After(P(l, "gathered", f, n, e), v) = P(l, "share", f, n, 0)
           /\ After(P(l, "opened", f, n, e), v)
                 = IF v = 1 THEN P(l, "share", f, n, 0) ELSE P(l, "sized", f, n, 0)
           /\ After(P(l, "sized", f, n, e), v) = P(l, "share", f, n, 0)
           /\ After(P(l, "fin", f, n, e), v)
                 = IF e = 1 THEN P(l, "report", 1, n, 0) ELSE P(l, "time", 1, n, 0)
           /\ After(P(l, "time", f, n, e), v)
                 = IF v = 1 THEN P(l, "report", 1, n, 0) ELSE P(l, "barrier", 1, n, 0)
           /\ After(P(l, "barrier", f, n, e), v) = P(l, "report", 1, n, 0)
           /\ After(P(l, "report", f, n, e), v) = P(l, "none", 1, 0, 0)
           /\ After(P(l, "time_read", f, n, e), v)
                 = IF v = 1 THEN P(l, "resume", 1, 0, 1) ELSE P(l, "values", 1, 0, 0)
           /\ After(P(l, "values", f, n, e), v) = P(l, "read", 1, v, 0)
           /\ After(P(l, "read", f, n, e), v)
                 = IF v > 0 /\ ~(l.files[f] = "bnd" /\ v = 1) THEN P(l, "resume", 1, 0, 1)
                   ELSE IF f = Len(l.files) THEN P(l, "resume", 1, n, 0)
                                            ELSE P(l, "read", f + 1, n, 0)
           /\ After(P(l, "resume", f, n, e), v)
                 = IF e = 0 THEN LoopPlace(l, n) ELSE P(l, "none", 1, 0, 0)
<1> DEFINE p(op) == P(l, op, f, n, e)
<1>1. \A op : p(op).op = op /\ p(op).layout = l /\ p(op).file = f /\ p(op).n = n /\ p(op).e = e
  BY DEF P
<1> HIDE DEF p
<1>2. /\ After(p("step"), v) = IF v = 1 THEN P(l, "unlink", 1, n, 0) ELSE LoopPlace(l, n)
      /\ After(p("unlink"), v) = IF v = 1 THEN P(l, "report", 1, n, 0) ELSE FilePlace(l, 1, n)
  BY <1>1 DEF After
<1>3. After(p("share"), v)
         = IF l.files[f] # "loose" /\ v = 1 THEN Failed(l, f, n) ELSE FilesDone(l, f, n)
  BY <1>1 DEF After
<1>4. /\ After(p("name"), v) = FilesDone(l, f, n)
      /\ After(p("dims"), v) = DimsDone(l, f, n)
      /\ After(p("gathered"), v) = P(l, "share", f, n, 0)
      /\ After(p("sized"), v) = P(l, "share", f, n, 0)
      /\ After(p("barrier"), v) = P(l, "report", 1, n, 0)
      /\ After(p("values"), v) = P(l, "read", 1, v, 0)
  BY <1>1 DEF After
<1>5. /\ After(p("alloc"), v)
            = IF v = 1 THEN P(l, "share", f, n, 0) ELSE P(l, "gathered", f, n, 0)
      /\ After(p("opened"), v)
            = IF v = 1 THEN P(l, "share", f, n, 0) ELSE P(l, "sized", f, n, 0)
  BY <1>1 DEF After
<1>6. After(p("fin"), v) = IF e = 1 THEN P(l, "report", 1, n, 0) ELSE P(l, "time", 1, n, 0)
  BY <1>1 DEF After
<1>7. After(p("time"), v) = IF v = 1 THEN P(l, "report", 1, n, 0) ELSE P(l, "barrier", 1, n, 0)
  BY <1>1 DEF After
<1>8. After(p("time_read"), v)
         = IF v = 1 THEN P(l, "resume", 1, 0, 1) ELSE P(l, "values", 1, 0, 0)
  BY <1>1 DEF After
<1>9. After(p("read"), v)
         = IF v > 0 /\ ~(l.files[f] = "bnd" /\ v = 1) THEN P(l, "resume", 1, 0, 1)
           ELSE IF f = Len(l.files) THEN P(l, "resume", 1, n, 0) ELSE P(l, "read", f + 1, n, 0)
  BY <1>1 DEF After
<1>10. After(p("resume"), v) = IF e = 0 THEN LoopPlace(l, n) ELSE P(l, "none", 1, 0, 0)
  BY <1>1 DEF After
<1>11. After(p("report"), v) = P(l, "none", 1, 0, 0)
  BY <1>1 DEF After
<1> QED  BY <1>2, <1>3, <1>4, <1>5, <1>6, <1>7, <1>8, <1>9, <1>10, <1>11 DEF p

LEMMA PlaceParts ==
    ASSUME NEW l, NEW op, NEW f, NEW n, NEW e
    PROVE  /\ P(l, op, f, n, e).op = op /\ P(l, op, f, n, e).e = e
           /\ How(P(l, op, f, n, e)) =
                 IF op \in {"unlink", "time", "time_read", "values"} THEN "root"
                 ELSE IF op = "read" /\ l.files[f] = "shared" THEN "root"
                 ELSE IF op = "step" THEN "all" ELSE "largest"
BY DEF P, How

-------------------------------------------------------------------------------
(***************************************************************************)
(* Every action is a move: the time loop.                                  *)
(***************************************************************************)
Before(r) == Contained /\ Types /\ KindsFit /\ OnTrace /\ layout' = layout

LEMMA AdvanceMoves ==
    ASSUME NEW r \in Rank, Before(r), Advance(r)
    PROVE  Moves(r) /\ Ranks'
<1>1. Types /\ KindsFit /\ layout' = layout
  BY DEF Before
<1>2. PICK l, f, n, e : l = layout /\ f = file[r] /\ n = icnt[r] /\ e = err[r]
  OBVIOUS
<1>3. /\ pc[r] = "loop" /\ n \in 0 .. StepMax /\ n < StepMax /\ n + 1 \in 0 .. StepMax
      /\ f \in 1 .. Count /\ e \in Bit /\ StepMax \in Nat
  <2>1. StepMax \in Nat
    BY BoundAssumption
  <2> QED  BY <1>1, <1>2, <2>1, RankFacts DEF Advance
<1>4. Local(r, "step_wait", f, n + 1, e)
  BY <1>1, <1>2, <1>3 DEF Local, Becomes, Advance, Labels, Fits
<1>5. Loci[r] = P(l, "step", 1, n + 1, 0) /\ LocusOf(l, "step_wait", f, n + 1, e) = Loci[r]
  BY <1>1, <1>2, <1>3, RankFacts, LocusIs DEF LoopPlace
<1>6. PICK v \in Bit : Enter(r, "step", v)
  <2>1. PICK stop \in Bit : Enter(r, "step", IF r = Root THEN stop ELSE 0)
    BY DEF Advance
  <2> QED  BY <2>1 DEF Bit
<1>7. Loci[r].op = "step" /\ "step" \in Ops
  BY <1>5, PlaceParts DEF Ops
<1>8. Allowed(Loci[r], v)
  BY <1>6, <1>7 DEF Allowed, Vals
<1>9. pc[r] \notin Waits /\ "step_wait" \in Waits
  BY <1>3 DEF Waits
<1> QED  BY <1>1, <1>2, <1>4, <1>5, <1>6, <1>7, <1>8, <1>9, LocalEntering DEF Moves

LEMMA StepLeaveMoves ==
    ASSUME NEW r \in Rank, Before(r), StepLeave(r)
    PROVE  Moves(r) /\ Ranks'
<1>1. Types /\ KindsFit /\ OnTrace /\ layout' = layout
  BY DEF Before
<1>2. PICK l, f, n, e : l = layout /\ f = file[r] /\ n = icnt[r] /\ e = err[r]
  OBVIOUS
<1>3. /\ pc[r] = "step_wait" /\ n \in 0 .. StepMax /\ f \in 1 .. Count /\ e \in Bit
      /\ pc[r] \in Waits /\ Entered(r)
  BY <1>1, <1>2, RankFacts DEF StepLeave, Waits
<1>4. Loci[r] = P(l, "step", 1, n, 0)
  BY <1>1, <1>2, <1>3, RankFacts, LocusIs
<1>5. How(Loci[r]) = "all" /\ Returned(r) /\ Value(r) = FromRoot(r)
  BY <1>3, <1>4, PlaceParts DEF Returned, Value
<1>6. Meets(r) /\ Beyond(r) = After(Loci[r], FromRoot(r))
  BY <1>1, <1>3, <1>5, Outcome
<1>7. PICK at : at = IF FromRoot(r) = 1 THEN "begin" ELSE "loop"
  OBVIOUS
<1>8. Local(r, at, f, n, e) /\ at \notin Waits
  BY <1>1, <1>2, <1>3, <1>7 DEF Local, Becomes, StepLeave, Labels, Fits, Waits
<1>9. LocusOf(l, at, f, n, e) = Beyond(r)
  BY <1>4, <1>6, <1>7, AfterIs, LocusIs
<1>10. calls' = calls
  BY DEF StepLeave
<1> QED  BY <1>1, <1>2, <1>3, <1>6, <1>8, <1>9, <1>10, LocalLeaving DEF Moves

LEMMA LoopEndMoves ==
    ASSUME NEW r \in Rank, Before(r), LoopEnd(r)
    PROVE  Moves(r) /\ Ranks'
<1>1. Types /\ KindsFit /\ layout' = layout
  BY DEF Before
<1>2. PICK l, f, n, e : l = layout /\ f = file[r] /\ n = icnt[r] /\ e = err[r]
  OBVIOUS
<1>3. /\ pc[r] = "loop" /\ n \in 0 .. StepMax /\ n = StepMax /\ f \in 1 .. Count /\ e \in Bit
      /\ pc[r] \notin Waits /\ "begin" \notin Waits
  BY <1>1, <1>2, RankFacts DEF LoopEnd, Waits
<1>4. Local(r, "begin", f, n, e) /\ calls' = calls
  BY <1>1, <1>2, <1>3 DEF Local, Becomes, LoopEnd, Labels, Fits
<1>5. Loci[r] = P(l, "unlink", 1, n, 0) /\ LocusOf(l, "begin", f, n, e) = Loci[r]
  <2>0. pc[r] = "loop" /\ Loci[r] = LocusOf(layout, pc[r], file[r], icnt[r], err[r])
    BY <1>1, <1>3, RankFacts
  <2>1. Loci[r] = LoopPlace(l, n)
    BY <1>2, <2>0, LocusIs
  <2>2. LocusOf(l, "begin", f, n, e) = P(l, "unlink", 1, n, 0)
    BY LocusIs
  <2> QED  BY <2>1, <2>2, <1>3 DEF LoopPlace
<1> QED  BY <1>1, <1>2, <1>3, <1>4, <1>5, LocalAlong DEF Moves

-------------------------------------------------------------------------------
(***************************************************************************)
(* The dump.                                                               *)
(***************************************************************************)
LEMMA BeginDumpMoves ==
    ASSUME NEW r \in Rank, Before(r), BeginDump(r)
    PROVE  Moves(r) /\ Ranks'
<1>1. Types /\ KindsFit /\ OnTrace /\ layout' = layout /\ Contained
  BY DEF Before
<1>2. PICK l, f, n, e : l = layout /\ f = file[r] /\ n = icnt[r] /\ e = err[r]
  OBVIOUS
<1>3. /\ pc[r] = "begin" /\ n \in 0 .. StepMax /\ f \in 1 .. Count /\ e \in Bit
      /\ pc[r] \notin Waits /\ "unlinked" \in Waits /\ 1 \in 1 .. Count /\ 0 \in Bit
  BY <1>1, <1>2, RankFacts DEF BeginDump, Waits, Bit
<1>4. Local(r, "unlinked", 1, n, 0)
  BY <1>1, <1>2, <1>3 DEF Local, Becomes, BeginDump, Labels, Fits, Code
<1>5. Loci[r] = P(l, "unlink", 1, n, 0) /\ LocusOf(l, "unlinked", 1, n, 0) = Loci[r]
  BY <1>1, <1>2, <1>3, RankFacts, LocusIs
<1>6. PICK v : Enter(r, "unlink", v) /\ v \in Bit
  BY <1>1, <1>2 DEF BeginDump, Bit
<1>7. Loci[r].op = "unlink" /\ "unlink" \in Ops
  BY <1>5, PlaceParts DEF Ops
<1>8. Allowed(Loci[r], v)
  BY <1>6, <1>7 DEF Allowed, Vals
<1> QED  BY <1>1, <1>2, <1>3, <1>4, <1>5, <1>6, <1>7, <1>8, LocalEntering DEF Moves

LEMMA BeginLeaveMoves ==
    ASSUME NEW r \in Rank, Before(r), BeginLeave(r)
    PROVE  Moves(r) /\ Ranks'
<1>1. Types /\ KindsFit /\ OnTrace /\ layout' = layout /\ Contained
  BY DEF Before
<1>2. PICK l, f, n, e : l = layout /\ f = file[r] /\ n = icnt[r] /\ e = err[r]
  OBVIOUS
<1>3. /\ pc[r] = "unlinked" /\ n \in 0 .. StepMax /\ f \in 1 .. Count /\ e \in Bit
      /\ pc[r] \in Waits /\ RootEntered(r) /\ Loci[r] = P(l, "unlink", 1, n, 0)
  BY <1>1, <1>2, RankFacts, LocusIs DEF BeginLeave, Waits
<1>4. How(Loci[r]) = "root" /\ Returned(r) /\ Value(r) = FromRoot(r)
  BY <1>3, PlaceParts DEF Returned, Value
<1>5. PICK v : /\ v = FromRoot(r) /\ Meets(r) /\ Beyond(r) = After(Loci[r], v) /\ v \in Bit
               /\ Allowed(Loci[r], v)
  <2>1. Meets(r) /\ Beyond(r) = After(Loci[r], FromRoot(r)) /\ Allowed(Loci[r], FromRoot(r))
    BY <1>1, <1>3, <1>4, Outcome
  <2>2. FromRoot(r) \in Bit
    BY <2>1, <1>3, PlaceParts DEF Allowed, Vals
  <2> QED  BY <2>1, <2>2
<1>6. PICK at : at = IF v = 1 THEN "report" ELSE "file"
  OBVIOUS
<1>7. Local(r, at, f, n, v) /\ at \notin Waits
  BY <1>1, <1>2, <1>3, <1>5, <1>6 DEF Local, Becomes, BeginLeave, Labels, Halted, Restarting, Fits, Waits, Code, Bit
<1>8. LocusOf(l, at, f, n, v) = Beyond(r)
  <2>1. f = 1
    BY <1>1, <1>2, <1>3 DEF KindsFit, Fits
  <2> QED  BY <2>1, <1>3, <1>5, <1>6, AfterIs, LocusIs
<1>9. calls' = calls
  BY DEF BeginLeave
<1> QED  BY <1>1, <1>2, <1>3, <1>5, <1>7, <1>8, <1>9, LocalLeaving DEF Moves

LEMMA FinMoves ==
    ASSUME NEW r \in Rank, Before(r), Fin(r)
    PROVE  Moves(r) /\ Ranks'
<1>1. Types /\ KindsFit /\ OnTrace /\ layout' = layout /\ Contained
  BY DEF Before
<1>2. PICK l, f, n, e : l = layout /\ f = file[r] /\ n = icnt[r] /\ e = err[r]
  OBVIOUS
<1>3. /\ pc[r] = "fin" /\ n \in 0 .. StepMax /\ f \in 1 .. Count /\ e \in Bit
      /\ pc[r] \notin Waits /\ "fin_wait" \in Waits /\ 1 \in 1 .. Count /\ 0 \in Bit
  BY <1>1, <1>2, RankFacts DEF Fin, Waits, Bit
<1>4. Local(r, "fin_wait", f, n, e)
  BY <1>1, <1>2, <1>3 DEF Local, Becomes, Fin, Labels, Fits, Code
<1>5. Loci[r] = P(l, "fin", IF e = 1 THEN f ELSE 1, n, e) /\ LocusOf(l, "fin_wait", f, n, e) = Loci[r]
  BY <1>1, <1>2, <1>3, RankFacts, LocusIs
<1>6. PICK v : Enter(r, "fin", v) /\ v = e
  BY <1>1, <1>2 DEF Fin
<1>7. Loci[r].op = "fin" /\ "fin" \in Ops
  BY <1>5, PlaceParts DEF Ops
<1>8. Allowed(Loci[r], v)
  BY <1>3, <1>5, <1>6, <1>7, PlaceParts DEF Allowed, Vals
<1> QED  BY <1>1, <1>2, <1>3, <1>4, <1>5, <1>6, <1>7, <1>8, LocalEntering DEF Moves

LEMMA FinLeaveMoves ==
    ASSUME NEW r \in Rank, Before(r), FinLeave(r)
    PROVE  Moves(r) /\ Ranks'
<1>1. Types /\ KindsFit /\ OnTrace /\ layout' = layout /\ Contained
  BY DEF Before
<1>2. PICK l, f, n, e : l = layout /\ f = file[r] /\ n = icnt[r] /\ e = err[r]
  OBVIOUS
<1>3. /\ pc[r] = "fin_wait" /\ n \in 0 .. StepMax /\ f \in 1 .. Count /\ e \in Bit
      /\ pc[r] \in Waits /\ Entered(r) /\ Loci[r] = P(l, "fin", IF e = 1 THEN f ELSE 1, n, e)
  BY <1>1, <1>2, RankFacts, LocusIs DEF FinLeave, Waits
<1>4. How(Loci[r]) = "largest" /\ Returned(r) /\ Value(r) = Largest(r)
  BY <1>3, PlaceParts DEF Returned, Value
<1>5. PICK v : /\ v = Largest(r) /\ Meets(r) /\ Beyond(r) = After(Loci[r], v) /\ v \in Bit
               /\ Allowed(Loci[r], v)
  <2>1. Meets(r) /\ Beyond(r) = After(Loci[r], Largest(r)) /\ Allowed(Loci[r], Largest(r))
    BY <1>1, <1>3, <1>4, Outcome
  <2>2. Largest(r) \in Bit
    BY <2>1, <1>3, PlaceParts DEF Allowed, Vals
  <2> QED  BY <2>1, <2>2
<1>6. PICK at : at = IF v = 1 THEN "report" ELSE "time"
  OBVIOUS
<1>7. Local(r, at, f, n, v) /\ at \notin Waits
  BY <1>1, <1>2, <1>3, <1>5, <1>6 DEF Local, Becomes, FinLeave, Labels, Halted, Restarting, Fits, Waits, Code, Bit
<1>8. LocusOf(l, at, f, n, v) = Beyond(r)
  <2>1. v = e
    BY <1>3, <1>5, PlaceParts DEF Allowed
  <2>2. Beyond(r) = IF e = 1 THEN P(l, "report", 1, n, 0) ELSE P(l, "time", 1, n, 0)
    BY <1>3, <1>5, AfterIs
  <2> QED  BY <1>6, <2>1, <2>2, LocusIs
<1>9. calls' = calls
  BY DEF FinLeave
<1> QED  BY <1>1, <1>2, <1>3, <1>5, <1>7, <1>8, <1>9, LocalLeaving DEF Moves

LEMMA BarrierLeaveMoves ==
    ASSUME NEW r \in Rank, Before(r), BarrierLeave(r)
    PROVE  Moves(r) /\ Ranks'
<1>1. Types /\ KindsFit /\ OnTrace /\ layout' = layout /\ Contained
  BY DEF Before
<1>2. PICK l, f, n, e : l = layout /\ f = file[r] /\ n = icnt[r] /\ e = err[r]
  OBVIOUS
<1>3. /\ pc[r] = "barrier" /\ n \in 0 .. StepMax /\ f \in 1 .. Count /\ e \in Bit
      /\ pc[r] \in Waits /\ Entered(r) /\ Loci[r] = P(l, "barrier", 1, n, 0)
  BY <1>1, <1>2, RankFacts, LocusIs DEF BarrierLeave, Waits
<1>4. How(Loci[r]) = "largest" /\ Returned(r) /\ Value(r) = Largest(r)
  BY <1>3, PlaceParts DEF Returned, Value
<1>5. PICK v : /\ v = Largest(r) /\ Meets(r) /\ Beyond(r) = After(Loci[r], v) /\ v \in Bit
               /\ Allowed(Loci[r], v)
  <2>1. Meets(r) /\ Beyond(r) = After(Loci[r], Largest(r)) /\ Allowed(Loci[r], Largest(r))
    BY <1>1, <1>3, <1>4, Outcome
  <2>2. Largest(r) \in Bit
    BY <2>1, <1>3, PlaceParts DEF Allowed, Vals
  <2> QED  BY <2>1, <2>2
<1>6. PICK at : at = "report"
  OBVIOUS
<1>7. Local(r, at, f, n, e) /\ at \notin Waits
  BY <1>1, <1>2, <1>3, <1>5, <1>6 DEF Local, Becomes, BarrierLeave, Labels, Halted, Restarting, Fits, Waits, Code, Bit
<1>8. LocusOf(l, at, f, n, e) = Beyond(r)
  BY <1>3, <1>5, <1>6, AfterIs, LocusIs DEF Bit, Halted
<1>9. calls' = calls
  BY DEF BarrierLeave
<1> QED  BY <1>1, <1>2, <1>3, <1>5, <1>7, <1>8, <1>9, LocalLeaving DEF Moves

LEMMA ReportMoves ==
    ASSUME NEW r \in Rank, Before(r), Report(r)
    PROVE  Moves(r) /\ Ranks'
<1>1. Types /\ KindsFit /\ OnTrace /\ layout' = layout /\ Contained
  BY DEF Before
<1>2. PICK l, f, n, e : l = layout /\ f = file[r] /\ n = icnt[r] /\ e = err[r]
  OBVIOUS
<1>3. /\ pc[r] = "report" /\ n \in 0 .. StepMax /\ f \in 1 .. Count /\ e \in Bit
      /\ pc[r] \notin Waits /\ "report_wait" \in Waits /\ 1 \in 1 .. Count /\ 0 \in Bit
  BY <1>1, <1>2, RankFacts DEF Report, Waits, Bit
<1>4. Local(r, "report_wait", f, n, e)
  BY <1>1, <1>2, <1>3 DEF Local, Becomes, Report, Labels, Fits, Code
<1>5. Loci[r] = P(l, "report", 1, n, 0) /\ LocusOf(l, "report_wait", f, n, e) = Loci[r]
  BY <1>1, <1>2, <1>3, RankFacts, LocusIs
<1>6. PICK v : Enter(r, "report", v) /\ v = e
  BY <1>1, <1>2 DEF Report
<1>7. Loci[r].op = "report" /\ "report" \in Ops
  BY <1>5, PlaceParts DEF Ops
<1>8. Allowed(Loci[r], v)
  BY <1>3, <1>6, <1>7 DEF Allowed, Vals
<1> QED  BY <1>1, <1>2, <1>3, <1>4, <1>5, <1>6, <1>7, <1>8, LocalEntering DEF Moves

LEMMA ReportLeaveMoves ==
    ASSUME NEW r \in Rank, Before(r), ReportLeave(r)
    PROVE  Moves(r) /\ Ranks'
<1>1. Types /\ KindsFit /\ OnTrace /\ layout' = layout /\ Contained
  BY DEF Before
<1>2. PICK l, f, n, e : l = layout /\ f = file[r] /\ n = icnt[r] /\ e = err[r]
  OBVIOUS
<1>3. /\ pc[r] = "report_wait" /\ n \in 0 .. StepMax /\ f \in 1 .. Count /\ e \in Bit
      /\ pc[r] \in Waits /\ Entered(r) /\ Loci[r] = P(l, "report", 1, n, 0)
  BY <1>1, <1>2, RankFacts, LocusIs DEF ReportLeave, Waits
<1>4. How(Loci[r]) = "largest" /\ Returned(r) /\ Value(r) = Largest(r)
  BY <1>3, PlaceParts DEF Returned, Value
<1>5. PICK v : /\ v = Largest(r) /\ Meets(r) /\ Beyond(r) = After(Loci[r], v) /\ v \in Bit
               /\ Allowed(Loci[r], v)
  <2>1. Meets(r) /\ Beyond(r) = After(Loci[r], Largest(r)) /\ Allowed(Loci[r], Largest(r))
    BY <1>1, <1>3, <1>4, Outcome
  <2>2. Largest(r) \in Bit
    BY <2>1, <1>3, PlaceParts DEF Allowed, Vals
  <2> QED  BY <2>1, <2>2
<1>6. PICK at : at = IF v = 1 THEN "aborted" ELSE "ended"
  OBVIOUS
<1>7. Local(r, at, f, n, e) /\ at \notin Waits
  BY <1>1, <1>2, <1>3, <1>5, <1>6 DEF Local, Becomes, ReportLeave, Labels, Halted, Restarting, Fits, Waits, Code, Bit
<1>8. LocusOf(l, at, f, n, e) = Beyond(r)
  BY <1>3, <1>5, <1>6, AfterIs, LocusIs DEF Bit, Halted
<1>9. calls' = calls
  BY DEF ReportLeave
<1> QED  BY <1>1, <1>2, <1>3, <1>5, <1>7, <1>8, <1>9, LocalLeaving DEF Moves

LEMMA TimeFileMoves ==
    ASSUME NEW r \in Rank, Before(r), TimeFile(r)
    PROVE  Moves(r) /\ Ranks'
<1>1. Types /\ KindsFit /\ OnTrace /\ layout' = layout /\ Contained
  BY DEF Before
<1>2. PICK l, f, n, e : l = layout /\ f = file[r] /\ n = icnt[r] /\ e = err[r]
  OBVIOUS
<1>3. /\ pc[r] = "time" /\ n \in 0 .. StepMax /\ f \in 1 .. Count /\ e \in Bit
      /\ pc[r] \notin Waits /\ Loci[r] = P(l, "time", 1, n, 0)
  BY <1>1, <1>2, RankFacts, LocusIs DEF TimeFile, Waits
<1>4. CASE Goto(r, "time_wait") /\ \E v \in Bit : Enter(r, "time", v)
  <2>1. PICK v \in Bit : Enter(r, "time", v)
    BY <1>4
  <2>2. Local(r, "time_wait", f, n, e) /\ "time_wait" \in Waits
    BY <1>1, <1>2, <1>3, <1>4 DEF Local, Becomes, TimeFile, Labels, Fits, Waits
  <2>3. LocusOf(l, "time_wait", f, n, e) = Loci[r]
    BY <1>3, LocusIs
  <2>4. Loci[r].op = "time" /\ "time" \in Ops /\ Allowed(Loci[r], v)
    BY <1>3, PlaceParts DEF Ops, Allowed, Vals
  <2> QED  BY <1>1, <1>2, <1>3, <2>1, <2>2, <2>3, <2>4, LocalEntering DEF Moves
<1>5. CASE Goto(r, "time_write") /\ calls' = calls
  <2>1. Local(r, "time_write", f, n, e) /\ "time_write" \notin Waits
    BY <1>1, <1>2, <1>3, <1>5 DEF Local, Becomes, TimeFile, Labels, Fits, Waits
  <2>2. LocusOf(l, "time_write", f, n, e) = Loci[r]
    BY <1>3, LocusIs
  <2> QED  BY <1>1, <1>2, <1>3, <1>5, <2>1, <2>2, LocalAlong DEF Moves
<1> QED  BY <1>4, <1>5 DEF TimeFile, Bit

LEMMA TimeCloseMoves ==
    ASSUME NEW r \in Rank, Before(r), TimeClose(r)
    PROVE  Moves(r) /\ Ranks'
<1>1. Types /\ KindsFit /\ OnTrace /\ layout' = layout /\ Contained
  BY DEF Before
<1>2. PICK l, f, n, e : l = layout /\ f = file[r] /\ n = icnt[r] /\ e = err[r]
  OBVIOUS
<1>3. /\ pc[r] = "time_write" /\ n \in 0 .. StepMax /\ f \in 1 .. Count /\ e \in Bit
      /\ pc[r] \notin Waits /\ "time_wait" \in Waits /\ 1 \in 1 .. Count /\ 0 \in Bit
  BY <1>1, <1>2, RankFacts DEF TimeClose, Waits, Bit
<1>4. Local(r, "time_wait", f, n, e)
  BY <1>1, <1>2, <1>3 DEF Local, Becomes, TimeClose, Labels, Fits, Code
<1>5. Loci[r] = P(l, "time", 1, n, 0) /\ LocusOf(l, "time_wait", f, n, e) = Loci[r]
  BY <1>1, <1>2, <1>3, RankFacts, LocusIs
<1>6. PICK v : Enter(r, "time", v) /\ v \in Bit
  BY <1>1, <1>2 DEF TimeClose, Bit
<1>7. Loci[r].op = "time" /\ "time" \in Ops
  BY <1>5, PlaceParts DEF Ops
<1>8. Allowed(Loci[r], v)
  BY <1>6, <1>7 DEF Allowed, Vals
<1> QED  BY <1>1, <1>2, <1>3, <1>4, <1>5, <1>6, <1>7, <1>8, LocalEntering DEF Moves

LEMMA TimeLeaveMoves ==
    ASSUME NEW r \in Rank, Before(r), TimeLeave(r)
    PROVE  Moves(r) /\ Ranks'
<1>1. Types /\ KindsFit /\ OnTrace /\ layout' = layout /\ Contained
  BY DEF Before
<1>2. PICK l, f, n, e : l = layout /\ f = file[r] /\ n = icnt[r] /\ e = err[r]
  OBVIOUS
<1>3. /\ pc[r] = "time_wait" /\ n \in 0 .. StepMax /\ f \in 1 .. Count /\ e \in Bit
      /\ pc[r] \in Waits /\ RootEntered(r) /\ Loci[r] = P(l, "time", 1, n, 0)
  BY <1>1, <1>2, RankFacts, LocusIs DEF TimeLeave, Waits
<1>4. How(Loci[r]) = "root" /\ Returned(r) /\ Value(r) = FromRoot(r)
  BY <1>3, PlaceParts DEF Returned, Value
<1>5. PICK v : v = FromRoot(r) /\ Meets(r) /\ Beyond(r) = After(Loci[r], v)
  BY <1>1, <1>3, <1>4, Outcome
<1>6. CASE v = 1
  <2>1. Local(r, "report", f, n, 1) /\ "report" \notin Waits /\ calls' = calls
    BY <1>1, <1>2, <1>3, <1>5, <1>6
       DEF Local, Becomes, TimeLeave, Labels, Fits, Waits, Code, Bit
  <2>2. LocusOf(l, "report", f, n, 1) = Beyond(r)
    BY <1>3, <1>5, <1>6, AfterIs, LocusIs
  <2> QED  BY <1>1, <1>2, <1>3, <1>5, <2>1, <2>2, LocalLeaving DEF Moves
<1>7. CASE v # 1
  <2>1. /\ Local(r, "barrier", f, n, e) /\ "barrier" \in Waits
        /\ Enter(r, "barrier", 0)
    BY <1>1, <1>2, <1>3, <1>5, <1>7 DEF Local, Becomes, TimeLeave, Labels, Fits, Waits
  <2>2. Beyond(r) = P(l, "barrier", 1, n, 0) /\ LocusOf(l, "barrier", f, n, e) = Beyond(r)
    BY <1>3, <1>5, <1>7, AfterIs, LocusIs
  <2>3. Beyond(r).op = "barrier" /\ "barrier" \in Ops /\ Allowed(Beyond(r), 0)
    BY <2>2, PlaceParts DEF Ops, Allowed, Vals, Bit
  <2> QED  BY <1>1, <1>2, <1>3, <1>5, <2>1, <2>2, <2>3, LocalGoingOn DEF Moves
<1> QED  BY <1>6, <1>7

-------------------------------------------------------------------------------
(***************************************************************************)
(* The restart.                                                            *)
(***************************************************************************)
LEMMA ReadTimeMoves ==
    ASSUME NEW r \in Rank, Before(r), ReadTime(r)
    PROVE  Moves(r) /\ Ranks'
<1>1. Types /\ KindsFit /\ OnTrace /\ layout' = layout /\ Contained
  BY DEF Before
<1>2. PICK l, f, n, e : l = layout /\ f = file[r] /\ n = icnt[r] /\ e = err[r]
  OBVIOUS
<1>3. /\ pc[r] = "restart" /\ n \in 0 .. StepMax /\ f \in 1 .. Count /\ e \in Bit
      /\ pc[r] \notin Waits /\ Loci[r] = P(l, "time_read", 1, 0, 0) /\ f = 1 /\ e = 0
  BY <1>1, <1>2, RankFacts, LocusIs DEF ReadTime, Waits, KindsFit, Fits
<1>4. PICK m \in 0 .. StepMax :
         (icnt' = icnt /\ m = icnt[r]) \/ icnt' = [icnt EXCEPT ![r] = m]
  <2>1. disk.time.of[2] \in 0 .. StepMax
    <3>1. disk.time.of \in Stamp \cup {None} /\ 0 \in 0 .. StepMax
      BY <1>1, BoundAssumption DEF Types, TypeOK, PartType
    <3> QED  BY <3>1 DEF Stamp, None
  <2>2. \/ \E c \in 0 .. StepMax : icnt' = [icnt EXCEPT ![r] = c]
        \/ icnt' = [icnt EXCEPT ![r] = disk.time.of[2]]
        \/ icnt' = icnt
    BY DEF ReadTime
  <2>3. CASE icnt' = [icnt EXCEPT ![r] = disk.time.of[2]]
    BY <2>1, <2>3
  <2>4. CASE icnt' = icnt
    BY <1>2, <1>3, <2>4
  <2> QED  BY <2>2, <2>3, <2>4
<1>5. Local(r, "time_read", f, m, e) /\ "time_read" \in Waits
  BY <1>1, <1>2, <1>3, <1>4
     DEF Local, Becomes, ReadTime, Labels, Halted, Restarting, Fits, Waits
<1>6. LocusOf(l, "time_read", f, m, e) = Loci[r]
  BY <1>3, LocusIs
<1>7. PICK v \in Bit : Enter(r, "time_read", v)
  BY DEF ReadTime, Bit
<1>8. Loci[r].op = "time_read" /\ "time_read" \in Ops /\ Allowed(Loci[r], v)
  BY <1>3, PlaceParts DEF Ops, Allowed, Vals
<1> QED  BY <1>1, <1>2, <1>3, <1>5, <1>6, <1>7, <1>8, LocalEntering DEF Moves

LEMMA TimeStatMoves ==
    ASSUME NEW r \in Rank, Before(r), TimeStat(r)
    PROVE  Moves(r) /\ Ranks'
<1>1. Types /\ KindsFit /\ OnTrace /\ layout' = layout /\ Contained
  BY DEF Before
<1>2. PICK l, f, n, e : l = layout /\ f = file[r] /\ n = icnt[r] /\ e = err[r]
  OBVIOUS
<1>3. /\ pc[r] = "time_read" /\ n \in 0 .. StepMax /\ f \in 1 .. Count /\ e \in Bit
      /\ pc[r] \in Waits /\ RootEntered(r) /\ Loci[r] = P(l, "time_read", 1, 0, 0)
  BY <1>1, <1>2, RankFacts, LocusIs DEF TimeStat, Waits
<1>4. How(Loci[r]) = "root" /\ Returned(r) /\ Value(r) = FromRoot(r)
  BY <1>3, PlaceParts DEF Returned, Value
<1>5. PICK v : v = FromRoot(r) /\ Meets(r) /\ Beyond(r) = After(Loci[r], v)
  BY <1>1, <1>3, <1>4, Outcome
<1>6. f = 1 /\ e = 0
  BY <1>1, <1>2, <1>3 DEF KindsFit, Fits
<1>7. CASE v = 1
  <2>1. Local(r, "resume", f, n, 1) /\ "resume" \notin Waits /\ calls' = calls
    BY <1>1, <1>2, <1>3, <1>5, <1>7
       DEF Local, Becomes, TimeStat, GiveUp, Labels, Restarting, Fits, Waits, Code, Bit
  <2>2. LocusOf(l, "resume", f, n, 1) = Beyond(r)
    BY <1>3, <1>5, <1>7, AfterIs, LocusIs
  <2> QED  BY <1>1, <1>2, <1>3, <1>5, <2>1, <2>2, LocalLeaving DEF Moves
<1>8. CASE v # 1
  <2>1. /\ Local(r, "values", f, n, e) /\ "values" \in Waits
        /\ Enter(r, "values", IF r = Root THEN icnt[r] ELSE 0)
    BY <1>1, <1>2, <1>3, <1>5, <1>6, <1>8
       DEF Local, Becomes, TimeStat, Labels, Restarting, Fits, Waits
  <2>2. Beyond(r) = P(l, "values", 1, 0, 0) /\ LocusOf(l, "values", f, n, e) = Beyond(r)
    BY <1>3, <1>5, <1>8, AfterIs, LocusIs
  <2>3. PICK w : w = IF r = Root THEN icnt[r] ELSE 0
    OBVIOUS
  <2>4. w \in 0 .. StepMax
    BY <1>2, <1>3, <2>3, BoundAssumption
  <2>5. Beyond(r).op = "values" /\ "values" \in Ops /\ Allowed(Beyond(r), w)
    BY <2>2, <2>4, PlaceParts DEF Ops, Allowed, Vals
  <2> QED  BY <1>1, <1>2, <1>3, <1>5, <2>1, <2>2, <2>3, <2>5, LocalGoingOn DEF Moves
<1> QED  BY <1>7, <1>8

LEMMA TimeValuesMoves ==
    ASSUME NEW r \in Rank, Before(r), TimeValues(r)
    PROVE  Moves(r) /\ Ranks'
<1>1. Types /\ KindsFit /\ OnTrace /\ layout' = layout /\ Contained
  BY DEF Before
<1>2. PICK l, f, n, e : l = layout /\ f = file[r] /\ n = icnt[r] /\ e = err[r]
  OBVIOUS
<1>3. /\ pc[r] = "values" /\ n \in 0 .. StepMax /\ f \in 1 .. Count /\ e \in Bit
      /\ pc[r] \in Waits /\ RootEntered(r) /\ Loci[r] = P(l, "values", 1, 0, 0)
  BY <1>1, <1>2, RankFacts, LocusIs DEF TimeValues, Waits
<1>4. How(Loci[r]) = "root" /\ Returned(r) /\ Value(r) = FromRoot(r)
  BY <1>3, PlaceParts DEF Returned, Value
<1>5. PICK v : /\ v = FromRoot(r) /\ Meets(r) /\ Beyond(r) = After(Loci[r], v) /\ v \in 0 .. StepMax
               /\ Allowed(Loci[r], v)
  <2>1. Meets(r) /\ Beyond(r) = After(Loci[r], FromRoot(r)) /\ Allowed(Loci[r], FromRoot(r))
    BY <1>1, <1>3, <1>4, Outcome
  <2>2. FromRoot(r) \in 0 .. StepMax
    BY <2>1, <1>3, PlaceParts DEF Allowed, Vals
  <2> QED  BY <2>1, <2>2
<1>6. PICK at : at = "read"
  OBVIOUS
<1>7. Local(r, at, f, v, e) /\ at \notin Waits
  <2>1. e = 0
    BY <1>1, <1>2, <1>3 DEF KindsFit, Fits
  <2> QED  BY <2>1, <1>1, <1>2, <1>3, <1>5, <1>6 DEF Local, Becomes, TimeValues, Labels, Halted, Restarting, Fits, Waits, Code, Bit
<1>8. LocusOf(l, at, f, v, e) = Beyond(r)
  <2>1. f = 1
    BY <1>1, <1>2, <1>3 DEF KindsFit, Fits
  <2> QED  BY <2>1, <1>3, <1>5, <1>6, AfterIs, LocusIs DEF Bit, Halted
<1>9. calls' = calls
  BY DEF TimeValues
<1> QED  BY <1>1, <1>2, <1>3, <1>5, <1>7, <1>8, <1>9, LocalLeaving DEF Moves

LEMMA ReadMoves ==
    ASSUME NEW r \in Rank, Before(r), Read(r)
    PROVE  Moves(r) /\ Ranks'
<1>1. Types /\ KindsFit /\ OnTrace /\ layout' = layout /\ Contained
  BY DEF Before
<1>2. PICK l, f, n, e : l = layout /\ f = file[r] /\ n = icnt[r] /\ e = err[r]
  OBVIOUS
<1>3. /\ pc[r] = "read" /\ n \in 0 .. StepMax /\ f \in 1 .. Count /\ e \in Bit
      /\ pc[r] \notin Waits /\ "read_wait" \in Waits /\ 1 \in 1 .. Count /\ 0 \in Bit
  BY <1>1, <1>2, RankFacts DEF Read, Waits, Bit
<1>4. Local(r, "read_wait", f, n, e)
  <2>1. e = 0
    BY <1>1, <1>2, <1>3 DEF KindsFit, Fits
  <2> QED  BY <2>1, <1>1, <1>2, <1>3 DEF Local, Becomes, Read, Labels, Restarting, Fits, Code
<1>5. Loci[r] = P(l, "read", f, n, 0) /\ LocusOf(l, "read_wait", f, n, e) = Loci[r]
  BY <1>1, <1>2, <1>3, RankFacts, LocusIs
<1>6. PICK v : Enter(r, "read", v) /\ v \in 0 .. 2
  <2>1. ReadCode(r) \in 0 .. 2
    <3>0. disk.part \in [1 .. Count -> [Rank -> PartType]]
      BY <1>1 DEF Types, TypeOK
    <3>1. disk.part[f][r] \in PartType
      <4>1. disk.part[f] \in [Rank -> PartType]
        BY <1>3, <3>0
      <4> QED  BY <4>1
    <3>2. disk.part[f][r].state \in {"missing", "torn", "whole"}
      BY <3>1 DEF PartType
    <3> QED  BY <1>2, <3>2 DEF ReadCode
  <2> QED  BY <2>1 DEF Read
<1>7. Loci[r].op = "read" /\ "read" \in Ops
  BY <1>5, PlaceParts DEF Ops
<1>8. Allowed(Loci[r], v)
  BY <1>6, <1>7 DEF Allowed, Vals
<1> QED  BY <1>1, <1>2, <1>3, <1>4, <1>5, <1>6, <1>7, <1>8, LocalEntering DEF Moves

LEMMA ReadLeaveMoves ==
    ASSUME NEW r \in Rank, Before(r), ReadLeave(r)
    PROVE  Moves(r) /\ Ranks'
<1>1. Types /\ KindsFit /\ OnTrace /\ layout' = layout /\ Contained
  BY DEF Before
<1>2. PICK l, f, n, e : l = layout /\ f = file[r] /\ n = icnt[r] /\ e = err[r]
  OBVIOUS
<1>3. /\ pc[r] = "read_wait" /\ n \in 0 .. StepMax /\ f \in 1 .. Count /\ e = 0
      /\ pc[r] \in Waits /\ ReadReturned(r) /\ Loci[r] = P(l, "read", f, n, 0)
  BY <1>1, <1>2, RankFacts, LocusIs DEF ReadLeave, Waits, KindsFit, Fits
<1>4. Returned(r) /\ Value(r) = ReadResult(r)
  BY <1>2, <1>3, PlaceParts DEF Returned, Value, ReadReturned, ReadResult, Kind
<1>5. PICK v : v = ReadResult(r) /\ Meets(r) /\ Beyond(r) = After(Loci[r], v)
  BY <1>1, <1>3, <1>4, Outcome
<1>6. calls' = calls
  BY DEF ReadLeave
<1>7. CASE v > 0 /\ ~(Kind(f) = "bnd" /\ v = 1)
  <2>1. Local(r, "resume", f, n, 1) /\ "resume" \notin Waits
    BY <1>1, <1>2, <1>3, <1>5, <1>7
       DEF Local, Becomes, ReadLeave, GiveUp, Labels, Restarting, Fits, Waits, Code, Bit
  <2>2. LocusOf(l, "resume", f, n, 1) = Beyond(r)
    BY <1>2, <1>3, <1>5, <1>7, AfterIs, LocusIs DEF Kind
  <2> QED  BY <1>1, <1>2, <1>3, <1>5, <1>6, <2>1, <2>2, LocalLeaving DEF Moves
<1>8. CASE ~(v > 0 /\ ~(Kind(f) = "bnd" /\ v = 1)) /\ f = Count
  <2>1. Local(r, "resume", f, n, e) /\ "resume" \notin Waits
    BY <1>1, <1>2, <1>3, <1>5, <1>8
       DEF Local, Becomes, ReadLeave, Labels, Restarting, Fits, Waits, Bit
  <2>2. LocusOf(l, "resume", f, n, e) = Beyond(r)
    BY <1>2, <1>3, <1>5, <1>8, AfterIs, LocusIs DEF Kind, Count
  <2> QED  BY <1>1, <1>2, <1>3, <1>5, <1>6, <2>1, <2>2, LocalLeaving DEF Moves
<1>9. CASE ~(v > 0 /\ ~(Kind(f) = "bnd" /\ v = 1)) /\ f # Count
  <2>1. f + 1 \in 1 .. Count
    BY <1>1, <1>3, <1>9, RankFacts
  <2>2. Local(r, "read", f + 1, n, e) /\ "read" \notin Waits
    BY <1>1, <1>2, <1>3, <1>5, <1>9, <2>1
       DEF Local, Becomes, ReadLeave, Labels, Restarting, Fits, Waits, Bit
  <2>3. LocusOf(l, "read", f + 1, n, e) = Beyond(r)
    BY <1>2, <1>3, <1>5, <1>9, AfterIs, LocusIs DEF Kind, Count
  <2> QED  BY <1>1, <1>2, <1>3, <1>5, <1>6, <2>2, <2>3, LocalLeaving DEF Moves
<1> QED  BY <1>7, <1>8, <1>9

LEMMA ResumeMoves ==
    ASSUME NEW r \in Rank, Before(r), Resume(r)
    PROVE  Moves(r) /\ Ranks'
<1>1. Types /\ KindsFit /\ OnTrace /\ layout' = layout /\ Contained
  BY DEF Before
<1>2. PICK l, f, n, e : l = layout /\ f = file[r] /\ n = icnt[r] /\ e = err[r]
  OBVIOUS
<1>3. /\ pc[r] = "resume" /\ n \in 0 .. StepMax /\ f \in 1 .. Count /\ e \in Bit
      /\ pc[r] \notin Waits /\ "resume_wait" \in Waits /\ 1 \in 1 .. Count /\ 0 \in Bit
  BY <1>1, <1>2, RankFacts DEF Resume, Waits, Bit
<1>4. Local(r, "resume_wait", f, n, e)
  BY <1>1, <1>2, <1>3 DEF Local, Becomes, Resume, Labels, Restarting, Fits, Code
<1>5. Loci[r] = P(l, "resume", 1, IF e = 1 THEN 0 ELSE n, e) /\ LocusOf(l, "resume_wait", f, n, e) = Loci[r]
  BY <1>1, <1>2, <1>3, RankFacts, LocusIs
<1>6. PICK v : Enter(r, "resume", v) /\ v = e
  BY <1>1, <1>2 DEF Resume
<1>7. Loci[r].op = "resume" /\ "resume" \in Ops
  BY <1>5, PlaceParts DEF Ops
<1>8. Allowed(Loci[r], v)
  BY <1>3, <1>5, <1>6, <1>7, PlaceParts DEF Allowed, Vals
<1> QED  BY <1>1, <1>2, <1>3, <1>4, <1>5, <1>6, <1>7, <1>8, LocalEntering DEF Moves

LEMMA ResumeLeaveMoves ==
    ASSUME NEW r \in Rank, Before(r), ResumeLeave(r)
    PROVE  Moves(r) /\ Ranks'
<1>1. Types /\ KindsFit /\ OnTrace /\ layout' = layout /\ Contained
  BY DEF Before
<1>2. PICK l, f, n, e : l = layout /\ f = file[r] /\ n = icnt[r] /\ e = err[r]
  OBVIOUS
<1>3. /\ pc[r] = "resume_wait" /\ n \in 0 .. StepMax /\ f \in 1 .. Count /\ e \in Bit
      /\ pc[r] \in Waits /\ Entered(r) /\ Loci[r] = P(l, "resume", 1, IF e = 1 THEN 0 ELSE n, e)
  BY <1>1, <1>2, RankFacts, LocusIs DEF ResumeLeave, Waits
<1>4. How(Loci[r]) = "largest" /\ Returned(r) /\ Value(r) = Largest(r)
  BY <1>3, PlaceParts DEF Returned, Value
<1>5. PICK v : /\ v = Largest(r) /\ Meets(r) /\ Beyond(r) = After(Loci[r], v) /\ v \in Bit
               /\ Allowed(Loci[r], v)
  <2>1. Meets(r) /\ Beyond(r) = After(Loci[r], Largest(r)) /\ Allowed(Loci[r], Largest(r))
    BY <1>1, <1>3, <1>4, Outcome
  <2>2. Largest(r) \in Bit
    BY <2>1, <1>3, PlaceParts DEF Allowed, Vals
  <2> QED  BY <2>1, <2>2
<1>6. PICK at : at = IF v = 1 THEN "aborted" ELSE "loop"
  OBVIOUS
<1>7. Local(r, at, f, n, e) /\ at \notin Waits
  BY <1>1, <1>2, <1>3, <1>5, <1>6 DEF Local, Becomes, ResumeLeave, Labels, Halted, Restarting, Fits, Waits, Code, Bit
<1>8. LocusOf(l, at, f, n, e) = Beyond(r)
  <2>1. v = e
    BY <1>3, <1>5, PlaceParts DEF Allowed
  <2>2. CASE e = 1
    BY <1>3, <1>5, <1>6, <2>1, <2>2, AfterIs, LocusIs
  <2>3. CASE e = 0
    BY <1>3, <1>5, <1>6, <2>1, <2>3, AfterIs, LocusIs
  <2> QED  BY <1>3, <2>2, <2>3 DEF Bit
<1>9. calls' = calls
  BY DEF ResumeLeave
<1> QED  BY <1>1, <1>2, <1>3, <1>5, <1>7, <1>8, <1>9, LocalLeaving DEF Moves

-------------------------------------------------------------------------------
(***************************************************************************)
(* The files of the dump.                                                  *)
(***************************************************************************)
LEMMA FilePlaceIs ==
    ASSUME NEW l, NEW f, NEW n
    PROVE  /\ l.files[f] = "shared" => FilePlace(l, f, n) = P(l, "share", f, n, 0)
           /\ l.files[f] = "bnd" /\ l.mode = "byprocess"
                 => FilePlace(l, f, n) = P(l, "name", f, n, 0)
           /\ l.files[f] = "bnd" /\ l.mode # "byprocess"
                 => FilePlace(l, f, n) = Failed(l, f, n)
           /\ l.files[f] \in Gridded => FilePlace(l, f, n) = P(l, "dims", f, n, 0)
BY DEF FilePlace, Gridded

\* A rank is done with its file.
LEMMA FileDoneBecomes ==
    ASSUME NEW r \in Rank, Before(r), NEW e \in Bit, FileDone(r, e), icnt' = icnt
    PROVE  \E at \in {"fin", "file"} : \E g, c :
              /\ Local(r, at, g, icnt[r], c) /\ at \notin Waits
              /\ LocusOf(layout, at, g, icnt[r], c) =
                    IF Kind(file[r]) # "loose" /\ e = 1 THEN Failed(layout, file[r], icnt[r])
                                                       ELSE FilesDone(layout, file[r], icnt[r])
<1>1. Types /\ KindsFit /\ layout' = layout
  BY DEF Before
<1>2. PICK l, f, n, code : /\ l = layout /\ f = file[r] /\ n = icnt[r]
                           /\ code = IF Kind(file[r]) = "loose" THEN 0 ELSE e
  OBVIOUS
<1>3. n \in 0 .. StepMax /\ f \in 1 .. Count /\ code \in Bit /\ Count \in Nat
  BY <1>1, <1>2, RankFacts DEF Bit
<1>4. "fin" \in Labels /\ "fin" \notin Waits /\ "file" \in Labels /\ "file" \notin Waits
  BY DEF Labels, Waits
<1>5. CASE code = 1 \/ f = Count
  <2>1. Local(r, "fin", f, n, code)
    BY <1>1, <1>2, <1>3, <1>4, <1>5 DEF Local, Becomes, FileDone, Fits, Code
  <2>2. LocusOf(l, "fin", f, n, code) = P(l, "fin", IF code = 1 THEN f ELSE 1, n, code)
    BY LocusIs
  <2>3. CASE code = 1
    BY <1>2, <1>4, <2>1, <2>2, <2>3 DEF Failed
  <2>4. CASE code # 1
    <3>1. code = 0 /\ ~(Kind(file[r]) # "loose" /\ e = 1)
      BY <1>2, <1>3, <2>4 DEF Bit
    <3> QED  BY <1>2, <1>4, <1>5, <2>1, <2>2, <3>1 DEF FilesDone, Count
  <2> QED  BY <2>3, <2>4
<1>6. CASE ~(code = 1 \/ f = Count)
  <2>1. code = 0 /\ ~(Kind(file[r]) # "loose" /\ e = 1) /\ f + 1 \in 1 .. Count
    BY <1>2, <1>3, <1>6 DEF Bit
  <2>2. Local(r, "file", f + 1, n, code)
    BY <1>1, <1>2, <1>3, <1>4, <1>6, <2>1 DEF Local, Becomes, FileDone, Fits, Code
  <2>3. LocusOf(l, "file", f + 1, n, code) = FilesDone(l, f, n)
    BY <1>2, <1>6, LocusIs DEF FilesDone, Count
  <2> QED  BY <1>2, <1>4, <2>1, <2>2, <2>3
<1> QED  BY <1>5, <1>6

\* From one call of a field's output to the next.
LEMMA FileGoesOn ==
    ASSUME NEW r \in Rank, Before(r), pc[r] \in Waits, Meets(r), Kind(file[r]) \in Gridded,
           NEW op \in {"alloc", "gathered", "opened", "sized", "share"},
           Beyond(r) = P(layout, op, file[r], icnt[r], 0),
           NEW c \in Bit, Becomes(r, op, file[r], icnt[r], c),
           NEW v \in Bit, Enter(r, op, v)
    PROVE  Moves(r) /\ Ranks'
<1>1. Types /\ KindsFit /\ layout' = layout
  BY DEF Before
<1>2. PICK l, f, n : l = layout /\ f = file[r] /\ n = icnt[r]
  OBVIOUS
<1>3. n \in 0 .. StepMax /\ f \in 1 .. Count /\ op \in Waits /\ op \in Labels /\ op \in Ops
  BY <1>1, <1>2, RankFacts DEF Waits, Labels, Ops
<1>4. Local(r, op, f, n, c)
  BY <1>2, <1>3 DEF Local, Fits, Kind
<1>5. LocusOf(l, op, f, n, c) = Beyond(r)
  BY <1>2, LocusIs
<1>6. op = Beyond(r).op /\ Allowed(Beyond(r), v)
  BY PlaceParts DEF Allowed, Vals
<1> QED  BY <1>1, <1>2, <1>3, <1>4, <1>5, <1>6, LocalGoingOn DEF Moves

\* From the last call before a file is written to the writing.
LEMMA FileIsOpened ==
    ASSUME NEW r \in Rank, Before(r), pc[r] \in Waits, Meets(r), calls' = calls,
           Becomes(r, "write", file[r], icnt[r], err[r]),
           Beyond(r) = LocusOf(layout, "write", file[r], icnt[r], err[r])
    PROVE  Moves(r) /\ Ranks'
<1>1. Types /\ KindsFit /\ layout' = layout
  BY DEF Before
<1>2. /\ icnt[r] \in 0 .. StepMax /\ file[r] \in 1 .. Count /\ err[r] \in Bit
      /\ "write" \in Labels /\ "write" \notin Waits
  BY <1>1, RankFacts DEF Waits, Labels
<1>3. Local(r, "write", file[r], icnt[r], err[r])
  BY <1>2 DEF Local, Fits
<1> QED  BY <1>1, <1>2, <1>3, LocalLeaving DEF Moves

LEMMA SharedFileMoves ==
    ASSUME NEW r \in Rank, Before(r), SharedFile(r)
    PROVE  Moves(r) /\ Ranks'
<1>1. Types /\ KindsFit /\ OnTrace /\ layout' = layout /\ Contained
  BY DEF Before
<1>2. PICK l, f, n, e : l = layout /\ f = file[r] /\ n = icnt[r] /\ e = err[r]
  OBVIOUS
<1>3. /\ pc[r] = "file" /\ n \in 0 .. StepMax /\ f \in 1 .. Count /\ e \in Bit
      /\ pc[r] \notin Waits /\ "share" \in Waits /\ "write" \notin Waits
      /\ Kind(f) = "shared" /\ Loci[r] = FilePlace(l, f, n)
  BY <1>1, <1>2, RankFacts, LocusIs DEF SharedFile, Waits
<1>4. Loci[r] = P(l, "share", f, n, 0)
  BY <1>2, <1>3, FilePlaceIs DEF Kind
<1>5. CASE \E v \in Bit : Share(r, v)
  <2>1. PICK v \in Bit : Share(r, v)
    BY <1>5
  <2>2. Local(r, "share", f, n, e) /\ Enter(r, "share", v)
    BY <1>1, <1>2, <1>3, <2>1 DEF Local, Becomes, SharedFile, Share, Labels, Fits
  <2>3. LocusOf(l, "share", f, n, e) = Loci[r]
    BY <1>4, LocusIs
  <2>4. Loci[r].op = "share" /\ "share" \in Ops /\ Allowed(Loci[r], v)
    BY <1>4, PlaceParts DEF Ops, Allowed, Vals
  <2> QED  BY <1>1, <1>2, <1>3, <2>2, <2>3, <2>4, LocalEntering DEF Moves
<1>6. CASE Goto(r, "write") /\ UNCHANGED <<calls, file, err>>
  <2>1. Local(r, "write", f, n, e) /\ calls' = calls
    BY <1>1, <1>2, <1>3, <1>6 DEF Local, Becomes, SharedFile, Labels, Fits
  <2>2. LocusOf(l, "write", f, n, e) = Loci[r]
    BY <1>2, <1>3, <1>4, LocusIs DEF Kind
  <2> QED  BY <1>1, <1>2, <1>3, <2>1, <2>2, LocalAlong DEF Moves
<1> QED  BY <1>5, <1>6 DEF SharedFile, Open, Bit

LEMMA BoundaryNameMoves ==
    ASSUME NEW r \in Rank, Before(r), BoundaryName(r)
    PROVE  Moves(r) /\ Ranks'
<1>1. Types /\ KindsFit /\ OnTrace /\ layout' = layout /\ Contained
  BY DEF Before
<1>2. PICK l, f, n, e : l = layout /\ f = file[r] /\ n = icnt[r] /\ e = err[r]
  OBVIOUS
<1>3. /\ pc[r] = "file" /\ n \in 0 .. StepMax /\ f \in 1 .. Count /\ e \in Bit
      /\ pc[r] \notin Waits /\ "named" \in Waits /\ icnt' = icnt
      /\ Kind(f) = "bnd" /\ Loci[r] = FilePlace(l, f, n)
  BY <1>1, <1>2, RankFacts, LocusIs DEF BoundaryName, Waits
<1>4. CASE layout.mode # "byprocess"
  <2>1. FileDone(r, 1) /\ calls' = calls /\ 1 \in Bit /\ Loci[r] = Failed(l, f, n)
    BY <1>2, <1>3, <1>4, FilePlaceIs DEF BoundaryName, Bit, Kind
  <2>2. PICK at, g, c : /\ Local(r, at, g, n, c) /\ at \notin Waits
                        /\ LocusOf(l, at, g, n, c) = Failed(l, f, n)
    BY <1>2, <1>3, <2>1, FileDoneBecomes
  <2> QED  BY <1>1, <1>2, <1>3, <2>1, <2>2, LocalAlong DEF Moves
<1>5. CASE layout.mode = "byprocess"
  <2>1. Local(r, "named", f, n, e) /\ Enter(r, "name", 0)
    BY <1>1, <1>2, <1>3, <1>5 DEF Local, Becomes, BoundaryName, Labels, Fits, Kind
  <2>2. Loci[r] = P(l, "name", f, n, 0) /\ LocusOf(l, "named", f, n, e) = Loci[r]
    BY <1>2, <1>3, <1>5, FilePlaceIs, LocusIs DEF Kind
  <2>3. Loci[r].op = "name" /\ "name" \in Ops /\ Allowed(Loci[r], 0)
    BY <2>2, PlaceParts DEF Ops, Allowed, Vals, Bit
  <2> QED  BY <1>1, <1>2, <1>3, <2>1, <2>2, <2>3, LocalEntering DEF Moves
<1> QED  BY <1>4, <1>5

LEMMA BoundaryOpenMoves ==
    ASSUME NEW r \in Rank, Before(r), BoundaryOpen(r)
    PROVE  Moves(r) /\ Ranks'
<1>1. Types /\ KindsFit /\ OnTrace /\ layout' = layout /\ Contained
  BY DEF Before
<1>2. PICK l, f, n, e : l = layout /\ f = file[r] /\ n = icnt[r] /\ e = err[r]
  OBVIOUS
<1>3. /\ pc[r] = "named" /\ n \in 0 .. StepMax /\ f \in 1 .. Count /\ e \in Bit
      /\ pc[r] \in Waits /\ Entered(r) /\ Loci[r] = P(l, "name", f, n, 0)
  BY <1>1, <1>2, RankFacts, LocusIs DEF BoundaryOpen, Waits
<1>4. How(Loci[r]) = "largest" /\ Returned(r) /\ Value(r) = Largest(r)
  BY <1>3, PlaceParts DEF Returned, Value
<1>5. PICK v : v = Largest(r) /\ Meets(r) /\ Beyond(r) = After(Loci[r], v)
  BY <1>1, <1>3, <1>4, Outcome
<1>6. Kind(f) = "bnd" /\ Beyond(r) = FilesDone(l, f, n)
  BY <1>1, <1>2, <1>3, <1>5, AfterIs DEF KindsFit, Fits, Kind
<1>7. Becomes(r, "write", f, n, e) /\ calls' = calls
  BY <1>1, <1>2 DEF BoundaryOpen, Open, Becomes, Contained
<1>8. LocusOf(l, "write", f, n, e) = Beyond(r)
  BY <1>2, <1>6, LocusIs DEF Kind
<1> QED  BY <1>2, <1>3, <1>5, <1>7, <1>8, FileIsOpened

LEMMA FieldDimsMoves ==
    ASSUME NEW r \in Rank, Before(r), FieldDims(r)
    PROVE  Moves(r) /\ Ranks'
<1>1. Types /\ KindsFit /\ OnTrace /\ layout' = layout /\ Contained
  BY DEF Before
<1>2. PICK l, f, n, e : l = layout /\ f = file[r] /\ n = icnt[r] /\ e = err[r]
  OBVIOUS
<1>3. /\ pc[r] = "file" /\ n \in 0 .. StepMax /\ f \in 1 .. Count /\ e \in Bit
      /\ pc[r] \notin Waits /\ "dims" \in Waits
      /\ Kind(f) \in Gridded /\ Loci[r] = FilePlace(l, f, n)
  BY <1>1, <1>2, RankFacts, LocusIs DEF FieldDims, Waits
<1>4. Loci[r] = P(l, "dims", f, n, 0)
  BY <1>2, <1>3, FilePlaceIs DEF Kind
<1>5. Local(r, "dims", f, n, e) /\ Enter(r, "dims", 0)
  BY <1>1, <1>2, <1>3 DEF Local, Becomes, FieldDims, Labels, Fits, Kind, Contained
<1>6. LocusOf(l, "dims", f, n, e) = Loci[r]
  BY <1>4, LocusIs
<1>7. Loci[r].op = "dims" /\ "dims" \in Ops /\ Allowed(Loci[r], 0)
  BY <1>4, PlaceParts DEF Ops, Allowed, Vals, Bit
<1> QED  BY <1>1, <1>2, <1>3, <1>5, <1>6, <1>7, LocalEntering DEF Moves

LEMMA OpenOwnMoves ==
    ASSUME NEW r \in Rank, Before(r), OpenOwn(r)
    PROVE  Moves(r) /\ Ranks'
<1>1. Types /\ KindsFit /\ OnTrace /\ layout' = layout /\ Contained
  BY DEF Before
<1>2. PICK l, f, n, e : l = layout /\ f = file[r] /\ n = icnt[r] /\ e = err[r]
  OBVIOUS
<1>3. /\ pc[r] = "dims" /\ n \in 0 .. StepMax /\ f \in 1 .. Count /\ e \in Bit
      /\ pc[r] \in Waits /\ Entered(r) /\ Loci[r] = P(l, "dims", f, n, 0)
  BY <1>1, <1>2, RankFacts, LocusIs DEF OpenOwn, Waits
<1>4. How(Loci[r]) = "largest" /\ Returned(r) /\ Value(r) = Largest(r)
  BY <1>3, PlaceParts DEF Returned, Value
<1>5. PICK v : v = Largest(r) /\ Meets(r) /\ Beyond(r) = After(Loci[r], v)
  BY <1>1, <1>3, <1>4, Outcome
<1>6. Kind(f) \in Gridded
  BY <1>1, <1>2, <1>3 DEF KindsFit, Fits, Kind
<1>7. Beyond(r) = P(l, "share", f, n, 0)
  BY <1>2, <1>3, <1>5, AfterIs DEF OpenOwn, DimsDone
<1>8. CASE Goto(r, "write") /\ UNCHANGED <<calls, file, err>>
  <2>1. Becomes(r, "write", f, n, e) /\ calls' = calls
    BY <1>1, <1>2, <1>8 DEF OpenOwn, Becomes
  <2>2. LocusOf(l, "write", f, n, e) = Beyond(r)
    BY <1>2, <1>6, <1>7, LocusIs DEF Kind, Gridded
  <2> QED  BY <1>2, <1>3, <1>5, <2>1, <2>2, FileIsOpened
<1>9. CASE \E w \in Bit : Share(r, w)
  <2>1. PICK w \in Bit : Share(r, w)
    BY <1>9
  <2>2. Becomes(r, "share", f, n, e) /\ Enter(r, "share", w)
    BY <1>1, <1>2, <2>1 DEF OpenOwn, Becomes, Share
  <2> QED  BY <1>1, <1>2, <1>3, <1>5, <1>6, <1>7, <2>2, FileGoesOn
<1> QED  BY <1>8, <1>9 DEF OpenOwn, Open, Bit

LEMMA GatherAllocMoves ==
    ASSUME NEW r \in Rank, Before(r), GatherAlloc(r)
    PROVE  Moves(r) /\ Ranks'
<1>1. Types /\ KindsFit /\ OnTrace /\ layout' = layout /\ Contained
  BY DEF Before
<1>2. PICK l, f, n, e : l = layout /\ f = file[r] /\ n = icnt[r] /\ e = err[r]
  OBVIOUS
<1>3. /\ pc[r] = "dims" /\ n \in 0 .. StepMax /\ f \in 1 .. Count /\ e \in Bit
      /\ pc[r] \in Waits /\ Entered(r) /\ Loci[r] = P(l, "dims", f, n, 0)
  BY <1>1, <1>2, RankFacts, LocusIs DEF GatherAlloc, Waits
<1>4. How(Loci[r]) = "largest" /\ Returned(r) /\ Value(r) = Largest(r)
  BY <1>3, PlaceParts DEF Returned, Value
<1>5. PICK v : v = Largest(r) /\ Meets(r) /\ Beyond(r) = After(Loci[r], v)
  BY <1>1, <1>3, <1>4, Outcome
<1>6. Kind(f) \in Gridded
  BY <1>1, <1>2, <1>3 DEF KindsFit, Fits, Kind
<1>7. Beyond(r) = P(l, "alloc", f, n, 0)
  BY <1>2, <1>3, <1>5, AfterIs DEF GatherAlloc, DimsDone
<1>8. PICK w \in Bit : Enter(r, "alloc", w)
  BY DEF GatherAlloc, Bit
<1>9. Becomes(r, "alloc", f, n, e)
  BY <1>1, <1>2 DEF GatherAlloc, Becomes
<1> QED  BY <1>1, <1>2, <1>3, <1>5, <1>6, <1>7, <1>8, <1>9, FileGoesOn

LEMMA GatherMoves ==
    ASSUME NEW r \in Rank, Before(r), Gather(r)
    PROVE  Moves(r) /\ Ranks'
<1>1. Types /\ KindsFit /\ OnTrace /\ layout' = layout /\ Contained
  BY DEF Before
<1>2. PICK l, f, n, e : l = layout /\ f = file[r] /\ n = icnt[r] /\ e = err[r]
  OBVIOUS
<1>3. /\ pc[r] = "alloc" /\ n \in 0 .. StepMax /\ f \in 1 .. Count /\ e \in Bit
      /\ pc[r] \in Waits /\ Entered(r) /\ Loci[r] = P(l, "alloc", f, n, 0)
  BY <1>1, <1>2, RankFacts, LocusIs DEF Gather, Waits
<1>4. How(Loci[r]) = "largest" /\ Returned(r) /\ Value(r) = Largest(r)
  BY <1>3, PlaceParts DEF Returned, Value
<1>5. PICK v : v = Largest(r) /\ Meets(r) /\ Beyond(r) = After(Loci[r], v)
  BY <1>1, <1>3, <1>4, Outcome
<1>6. Kind(f) \in Gridded
  BY <1>1, <1>2, <1>3 DEF KindsFit, Fits, Kind
<1>7. CASE v = 1
  <2>1. Beyond(r) = P(l, "share", f, n, 0) /\ 0 \in Bit
    BY <1>3, <1>5, <1>7, AfterIs DEF Bit
  <2>2. Becomes(r, "share", f, n, e) /\ Enter(r, "share", 0)
    BY <1>1, <1>2, <1>5, <1>7 DEF Gather, Becomes, Share
  <2> QED  BY <1>1, <1>2, <1>3, <1>5, <1>6, <2>1, <2>2, FileGoesOn
<1>8. CASE v # 1
  <2>1. Beyond(r) = P(l, "gathered", f, n, 0) /\ 0 \in Bit
    BY <1>3, <1>5, <1>8, AfterIs DEF Bit
  <2>2. Becomes(r, "gathered", f, n, e) /\ Enter(r, "gathered", 0)
    BY <1>1, <1>2, <1>5, <1>8 DEF Gather, Becomes
  <2> QED  BY <1>1, <1>2, <1>3, <1>5, <1>6, <2>1, <2>2, FileGoesOn
<1> QED  BY <1>7, <1>8

LEMMA GatheredMoves ==
    ASSUME NEW r \in Rank, Before(r), Gathered(r)
    PROVE  Moves(r) /\ Ranks'
<1>1. Types /\ KindsFit /\ OnTrace /\ layout' = layout /\ Contained
  BY DEF Before
<1>2. PICK l, f, n, e : l = layout /\ f = file[r] /\ n = icnt[r] /\ e = err[r]
  OBVIOUS
<1>3. /\ pc[r] = "gathered" /\ n \in 0 .. StepMax /\ f \in 1 .. Count /\ e \in Bit
      /\ pc[r] \in Waits /\ Entered(r) /\ Loci[r] = P(l, "gathered", f, n, 0)
  BY <1>1, <1>2, RankFacts, LocusIs DEF Gathered, Waits
<1>4. How(Loci[r]) = "largest" /\ Returned(r) /\ Value(r) = Largest(r)
  BY <1>3, PlaceParts DEF Returned, Value
<1>5. PICK v : v = Largest(r) /\ Meets(r) /\ Beyond(r) = After(Loci[r], v)
  BY <1>1, <1>3, <1>4, Outcome
<1>6. Kind(f) \in Gridded
  BY <1>1, <1>2, <1>3 DEF KindsFit, Fits, Kind
<1>7. Beyond(r) = P(l, "share", f, n, 0)
  BY <1>3, <1>5, AfterIs
<1>8. CASE Goto(r, "write") /\ UNCHANGED <<calls, file, err>>
  <2>1. Becomes(r, "write", f, n, e) /\ calls' = calls
    BY <1>1, <1>2, <1>8 DEF Gathered, Becomes
  <2>2. LocusOf(l, "write", f, n, e) = Beyond(r)
    BY <1>2, <1>6, <1>7, LocusIs DEF Kind, Gridded
  <2> QED  BY <1>2, <1>3, <1>5, <2>1, <2>2, FileIsOpened
<1>9. CASE \E w \in Bit : Share(r, w)
  <2>1. PICK w \in Bit : Share(r, w)
    BY <1>9
  <2>2. Becomes(r, "share", f, n, e) /\ Enter(r, "share", w)
    BY <1>1, <1>2, <2>1 DEF Gathered, Becomes, Share
  <2> QED  BY <1>1, <1>2, <1>3, <1>5, <1>6, <1>7, <2>2, FileGoesOn
<1> QED  BY <1>8, <1>9 DEF Gathered, Open, Bit

LEMMA OpenUnifiedMoves ==
    ASSUME NEW r \in Rank, Before(r), OpenUnified(r)
    PROVE  Moves(r) /\ Ranks'
<1>1. Types /\ KindsFit /\ OnTrace /\ layout' = layout /\ Contained
  BY DEF Before
<1>2. PICK l, f, n, e : l = layout /\ f = file[r] /\ n = icnt[r] /\ e = err[r]
  OBVIOUS
<1>3. /\ pc[r] = "dims" /\ n \in 0 .. StepMax /\ f \in 1 .. Count /\ e \in Bit
      /\ pc[r] \in Waits /\ Entered(r) /\ Loci[r] = P(l, "dims", f, n, 0)
  BY <1>1, <1>2, RankFacts, LocusIs DEF OpenUnified, Waits
<1>4. How(Loci[r]) = "largest" /\ Returned(r) /\ Value(r) = Largest(r)
  BY <1>3, PlaceParts DEF Returned, Value
<1>5. PICK v : v = Largest(r) /\ Meets(r) /\ Beyond(r) = After(Loci[r], v)
  BY <1>1, <1>3, <1>4, Outcome
<1>6. Kind(f) \in Gridded
  BY <1>1, <1>2, <1>3 DEF KindsFit, Fits, Kind
<1>7. Beyond(r) = P(l, "opened", f, n, 0)
  BY <1>2, <1>3, <1>5, AfterIs DEF OpenUnified, DimsDone
<1>8. PICK w \in Bit : Enter(r, "opened", w) /\ Code(r, w)
  BY DEF OpenUnified, Bit
<1>9. Becomes(r, "opened", f, n, w)
  BY <1>1, <1>2, <1>8 DEF OpenUnified, Becomes, Code
<1> QED  BY <1>1, <1>2, <1>3, <1>5, <1>6, <1>7, <1>8, <1>9, FileGoesOn

LEMMA SetSizeMoves ==
    ASSUME NEW r \in Rank, Before(r), SetSize(r)
    PROVE  Moves(r) /\ Ranks'
<1>1. Types /\ KindsFit /\ OnTrace /\ layout' = layout /\ Contained
  BY DEF Before
<1>2. PICK l, f, n, e : l = layout /\ f = file[r] /\ n = icnt[r] /\ e = err[r]
  OBVIOUS
<1>3. /\ pc[r] = "opened" /\ n \in 0 .. StepMax /\ f \in 1 .. Count /\ e \in Bit
      /\ pc[r] \in Waits /\ Entered(r) /\ Loci[r] = P(l, "opened", f, n, 0)
  BY <1>1, <1>2, RankFacts, LocusIs DEF SetSize, Waits
<1>4. How(Loci[r]) = "largest" /\ Returned(r) /\ Value(r) = Largest(r)
  BY <1>3, PlaceParts DEF Returned, Value
<1>5. PICK v : v = Largest(r) /\ Meets(r) /\ Beyond(r) = After(Loci[r], v)
  BY <1>1, <1>3, <1>4, Outcome
<1>6. Kind(f) \in Gridded
  BY <1>1, <1>2, <1>3 DEF KindsFit, Fits, Kind
<1>7. CASE v = 1
  <2>1. Beyond(r) = P(l, "share", f, n, 0)
    BY <1>3, <1>5, <1>7, AfterIs
  <2>2. Becomes(r, "share", f, n, e) /\ Enter(r, "share", e)
    BY <1>1, <1>2, <1>5, <1>7 DEF SetSize, Becomes, Share
  <2> QED  BY <1>1, <1>2, <1>3, <1>5, <1>6, <2>1, <2>2, FileGoesOn
<1>8. CASE v # 1
  <2>1. Beyond(r) = P(l, "sized", f, n, 0) /\ 0 \in Bit
    BY <1>3, <1>5, <1>8, AfterIs DEF Bit
  <2>2. Becomes(r, "sized", f, n, e) /\ Enter(r, "sized", 0)
    BY <1>1, <1>2, <1>5, <1>8 DEF SetSize, Becomes
  <2> QED  BY <1>1, <1>2, <1>3, <1>5, <1>6, <2>1, <2>2, FileGoesOn
<1> QED  BY <1>7, <1>8

LEMMA SizedMoves ==
    ASSUME NEW r \in Rank, Before(r), Sized(r)
    PROVE  Moves(r) /\ Ranks'
<1>1. Types /\ KindsFit /\ OnTrace /\ layout' = layout /\ Contained
  BY DEF Before
<1>2. PICK l, f, n, e : l = layout /\ f = file[r] /\ n = icnt[r] /\ e = err[r]
  OBVIOUS
<1>3. /\ pc[r] = "sized" /\ n \in 0 .. StepMax /\ f \in 1 .. Count /\ e \in Bit
      /\ pc[r] \in Waits /\ Entered(r) /\ Loci[r] = P(l, "sized", f, n, 0)
  BY <1>1, <1>2, RankFacts, LocusIs DEF Sized, Waits
<1>4. How(Loci[r]) = "largest" /\ Returned(r) /\ Value(r) = Largest(r)
  BY <1>3, PlaceParts DEF Returned, Value
<1>5. PICK v : v = Largest(r) /\ Meets(r) /\ Beyond(r) = After(Loci[r], v)
  BY <1>1, <1>3, <1>4, Outcome
<1>6. Kind(f) \in Gridded
  BY <1>1, <1>2, <1>3 DEF KindsFit, Fits, Kind
<1>7. Beyond(r) = P(l, "share", f, n, 0)
  BY <1>3, <1>5, AfterIs
<1>8. CASE Goto(r, "write") /\ UNCHANGED <<calls, file, err>>
  <2>1. Becomes(r, "write", f, n, e) /\ calls' = calls
    BY <1>1, <1>2, <1>8 DEF Sized, Becomes
  <2>2. LocusOf(l, "write", f, n, e) = Beyond(r)
    BY <1>2, <1>6, <1>7, LocusIs DEF Kind, Gridded
  <2> QED  BY <1>2, <1>3, <1>5, <2>1, <2>2, FileIsOpened
<1> QED  BY <1>8 DEF Sized

LEMMA WriteMoves ==
    ASSUME NEW r \in Rank, Before(r), Write(r)
    PROVE  Moves(r) /\ Ranks'
<1>1. Types /\ KindsFit /\ OnTrace /\ layout' = layout /\ Contained
  BY DEF Before
<1>2. PICK l, f, n, e : l = layout /\ f = file[r] /\ n = icnt[r] /\ e = err[r]
  OBVIOUS
<1>3. /\ pc[r] = "write" /\ n \in 0 .. StepMax /\ f \in 1 .. Count /\ e \in Bit
      /\ pc[r] \notin Waits /\ "share" \in Waits /\ icnt' = icnt
      /\ Loci[r] = LocusOf(l, "write", f, n, e)
  BY <1>1, <1>2, RankFacts DEF Write, Waits
<1>4. CASE Kind(f) = "bnd"
  <2>1. FileDone(r, 0) /\ calls' = calls /\ 0 \in Bit
    BY <1>1, <1>2, <1>4 DEF Write, Written, Bit, Contained
  <2>2. PICK at, g, c : /\ Local(r, at, g, n, c) /\ at \notin Waits
                        /\ LocusOf(l, at, g, n, c) = FilesDone(l, f, n)
    BY <1>2, <1>3, <2>1, FileDoneBecomes
  <2>3. Loci[r] = FilesDone(l, f, n)
    BY <1>2, <1>3, <1>4, LocusIs DEF Kind
  <2> QED  BY <1>1, <1>2, <1>3, <2>1, <2>2, <2>3, LocalAlong DEF Moves
<1>5. CASE Kind(f) # "bnd"
  <2>1. PICK w \in Bit : Share(r, w)
    BY <1>2, <1>5 DEF Write, Written, Bit
  <2>2. Local(r, "share", f, n, e) /\ Enter(r, "share", w)
    BY <1>1, <1>2, <1>3, <2>1 DEF Local, Becomes, Write, Share, Labels, Fits
  <2>3. Loci[r] = P(l, "share", f, n, 0) /\ LocusOf(l, "share", f, n, e) = Loci[r]
    BY <1>2, <1>3, <1>5, LocusIs DEF Kind
  <2>4. Loci[r].op = "share" /\ "share" \in Ops /\ Allowed(Loci[r], w)
    BY <2>3, PlaceParts DEF Ops, Allowed, Vals
  <2> QED  BY <1>1, <1>2, <1>3, <2>2, <2>3, <2>4, LocalEntering DEF Moves
<1> QED  BY <1>4, <1>5

LEMMA ShareLeaveMoves ==
    ASSUME NEW r \in Rank, Before(r), ShareLeave(r)
    PROVE  Moves(r) /\ Ranks'
<1>1. Types /\ KindsFit /\ OnTrace /\ layout' = layout /\ Contained
  BY DEF Before
<1>2. PICK l, f, n, e : l = layout /\ f = file[r] /\ n = icnt[r] /\ e = err[r]
  OBVIOUS
<1>3. /\ pc[r] = "share" /\ n \in 0 .. StepMax /\ f \in 1 .. Count /\ e \in Bit
      /\ pc[r] \in Waits /\ Entered(r) /\ Loci[r] = P(l, "share", f, n, 0)
  BY <1>1, <1>2, RankFacts, LocusIs DEF ShareLeave, Waits
<1>4. How(Loci[r]) = "largest" /\ Returned(r) /\ Value(r) = Largest(r)
  BY <1>3, PlaceParts DEF Returned, Value
<1>5. PICK v \in Bit : v = Largest(r) /\ Meets(r) /\ Beyond(r) = After(Loci[r], v)
  <2>1. Meets(r) /\ Beyond(r) = After(Loci[r], Largest(r)) /\ Allowed(Loci[r], Largest(r))
    BY <1>1, <1>3, <1>4, Outcome
  <2>2. Largest(r) \in Bit
    BY <2>1, <1>3, PlaceParts DEF Allowed, Vals
  <2> QED  BY <2>1, <2>2
<1>6. PICK at, g, c : /\ Local(r, at, g, n, c) /\ at \notin Waits
                      /\ LocusOf(l, at, g, n, c) =
                            IF Kind(f) # "loose" /\ v = 1 THEN Failed(l, f, n) ELSE FilesDone(l, f, n)
  <2>1. FileDone(r, v) /\ icnt' = icnt
    BY <1>5 DEF ShareLeave
  <2> QED  BY <1>2, <2>1, FileDoneBecomes
<1>7. LocusOf(l, at, g, n, c) = Beyond(r)
  BY <1>2, <1>3, <1>5, <1>6, AfterIs DEF Kind
<1>8. calls' = calls
  BY DEF ShareLeave
<1> QED  BY <1>1, <1>2, <1>3, <1>5, <1>6, <1>7, <1>8, LocalLeaving DEF Moves

-------------------------------------------------------------------------------
(***************************************************************************)
(* The invariant: types, and all the ranks on one trace.                   *)
(***************************************************************************)
LEMMA StepMoves ==
    ASSUME NEW r \in Rank, Contained, Types, KindsFit, OnTrace, Step(r)
    PROVE  Moves(r) /\ Ranks'
<1>1. Before(r)
  BY DEF Before, Step
<1>2. CASE Advance(r)
  BY <1>1, <1>2, AdvanceMoves
<1>3. CASE StepLeave(r)
  BY <1>1, <1>3, StepLeaveMoves
<1>4. CASE LoopEnd(r)
  BY <1>1, <1>4, LoopEndMoves
<1>5. CASE BeginDump(r)
  BY <1>1, <1>5, BeginDumpMoves
<1>6. CASE BeginLeave(r)
  BY <1>1, <1>6, BeginLeaveMoves
<1>7. CASE SharedFile(r)
  BY <1>1, <1>7, SharedFileMoves
<1>8. CASE BoundaryName(r)
  BY <1>1, <1>8, BoundaryNameMoves
<1>9. CASE BoundaryOpen(r)
  BY <1>1, <1>9, BoundaryOpenMoves
<1>10. CASE FieldDims(r)
  BY <1>1, <1>10, FieldDimsMoves
<1>11. CASE OpenOwn(r)
  BY <1>1, <1>11, OpenOwnMoves
<1>12. CASE GatherAlloc(r)
  BY <1>1, <1>12, GatherAllocMoves
<1>13. CASE Gather(r)
  BY <1>1, <1>13, GatherMoves
<1>14. CASE Gathered(r)
  BY <1>1, <1>14, GatheredMoves
<1>15. CASE OpenUnified(r)
  BY <1>1, <1>15, OpenUnifiedMoves
<1>16. CASE SetSize(r)
  BY <1>1, <1>16, SetSizeMoves
<1>17. CASE Sized(r)
  BY <1>1, <1>17, SizedMoves
<1>18. CASE Write(r)
  BY <1>1, <1>18, WriteMoves
<1>19. CASE ShareLeave(r)
  BY <1>1, <1>19, ShareLeaveMoves
<1>20. CASE Fin(r)
  BY <1>1, <1>20, FinMoves
<1>21. CASE FinLeave(r)
  BY <1>1, <1>21, FinLeaveMoves
<1>22. CASE TimeFile(r)
  BY <1>1, <1>22, TimeFileMoves
<1>23. CASE TimeClose(r)
  BY <1>1, <1>23, TimeCloseMoves
<1>24. CASE TimeLeave(r)
  BY <1>1, <1>24, TimeLeaveMoves
<1>25. CASE BarrierLeave(r)
  BY <1>1, <1>25, BarrierLeaveMoves
<1>26. CASE Report(r)
  BY <1>1, <1>26, ReportMoves
<1>27. CASE ReportLeave(r)
  BY <1>1, <1>27, ReportLeaveMoves
<1>28. CASE ReadTime(r)
  BY <1>1, <1>28, ReadTimeMoves
<1>29. CASE TimeStat(r)
  BY <1>1, <1>29, TimeStatMoves
<1>30. CASE TimeValues(r)
  BY <1>1, <1>30, TimeValuesMoves
<1>31. CASE Read(r)
  BY <1>1, <1>31, ReadMoves
<1>32. CASE ReadLeave(r)
  BY <1>1, <1>32, ReadLeaveMoves
<1>33. CASE Resume(r)
  BY <1>1, <1>33, ResumeMoves
<1>34. CASE ResumeLeave(r)
  BY <1>1, <1>34, ResumeLeaveMoves
<1> QED  BY <1>2, <1>3, <1>4, <1>5, <1>6, <1>7, <1>8, <1>9, <1>10, <1>11, <1>12, <1>13, <1>14, <1>15, <1>16, <1>17, <1>18, <1>19, <1>20, <1>21, <1>22, <1>23, <1>24, <1>25, <1>26, <1>27, <1>28, <1>29, <1>30, <1>31, <1>32, <1>33, <1>34 DEF Step

\* What a step does to the disk and to the data of the ranks.
DiskSteps(r) ==
    \/ disk' = disk
    \/ \E f \in 1 .. Count : \E Q \in SUBSET Rank : Tear(f, Q) \/ Fill(f, Q)
    \/ \E t \in {Missing, Torn, Whole(mem[r][1])} : disk' = [disk EXCEPT !.time = t]

MemSteps(r) ==
    \/ mem' = mem
    \/ /\ icnt[r] < StepMax
       /\ mem' = [mem EXCEPT ![r] = [f \in 1 .. Count |-> <<job, icnt[r] + 1>>]]
    \/ mem' = [mem EXCEPT ![r][file[r]] = None]
    \/ \E q \in Rank : mem' = [mem EXCEPT ![r][file[r]] = disk.part[file[r]][q].of]

LEMMA StepData ==
    ASSUME NEW r \in Rank, Types, Step(r)
    PROVE  DiskSteps(r) /\ MemSteps(r)
<1>1. file[r] \in 1 .. Count /\ {r} \in SUBSET Rank /\ Rank \in SUBSET Rank /\ Root \in Rank
  BY RankFacts
<1>2. CASE Advance(r) \/ StepLeave(r) \/ LoopEnd(r) \/ BeginLeave(r)
             \/ BoundaryName(r) \/ FieldDims(r) \/ GatherAlloc(r) \/ OpenUnified(r)
  BY <1>1, <1>2 DEF DiskSteps, MemSteps, Advance, StepLeave, LoopEnd, BeginLeave, BoundaryName, FieldDims, GatherAlloc, OpenUnified
<1>3. CASE BeginDump(r) \/ TimeFile(r) \/ TimeClose(r)
  BY <1>1, <1>3 DEF DiskSteps, MemSteps, BeginDump, TimeFile, TimeClose
<1>4. CASE SharedFile(r) \/ BoundaryOpen(r) \/ OpenOwn(r) \/ Gather(r) \/ Gathered(r)
             \/ SetSize(r)
  BY <1>1, <1>4 DEF DiskSteps, MemSteps, SharedFile, BoundaryOpen, OpenOwn, Gather, Gathered, SetSize, Open
<1>5. CASE Write(r)
  BY <1>1, <1>5 DEF DiskSteps, MemSteps, Write
<1>6. CASE Sized(r) \/ ShareLeave(r) \/ Fin(r) \/ FinLeave(r) \/ TimeLeave(r)
             \/ BarrierLeave(r) \/ Report(r) \/ ReportLeave(r)
  BY <1>1, <1>6 DEF DiskSteps, MemSteps, Sized, ShareLeave, Fin, FinLeave, TimeLeave, BarrierLeave, Report, ReportLeave
<1>7. CASE ReadTime(r) \/ TimeStat(r) \/ TimeValues(r) \/ Read(r) \/ Resume(r)
             \/ ResumeLeave(r)
  BY <1>1, <1>7 DEF DiskSteps, MemSteps, ReadTime, TimeStat, TimeValues, Read, Resume, ResumeLeave
<1>8. CASE ReadLeave(r)
  BY <1>1, <1>8 DEF DiskSteps, MemSteps, ReadLeave
<1> QED  BY <1>2, <1>3, <1>4, <1>5, <1>6, <1>7, <1>8 DEF Step

LEMMA StepDataTyped ==
    ASSUME NEW r \in Rank, Types, Step(r)
    PROVE  /\ disk' \in [time : PartType, part : [1 .. Count -> [Rank -> PartType]]]
           /\ mem' \in [Rank -> [1 .. Count -> Stamp \cup {None}]]
<1>1. /\ disk.time \in PartType /\ disk.part \in [1 .. Count -> [Rank -> PartType]]
      /\ disk \in [time : PartType, part : [1 .. Count -> [Rank -> PartType]]]
      /\ mem \in [Rank -> [1 .. Count -> Stamp \cup {None}]]
      /\ job \in 1 .. JobMax /\ icnt[r] \in 0 .. StepMax /\ file[r] \in 1 .. Count
      /\ 1 \in 1 .. Count
  <2>1. Count \in Nat \ {0}
    BY RankFacts
  <2> QED  BY <2>1 DEF Types, TypeOK
<1>2. \A s \in Stamp \cup {None} : Whole(s) \in PartType
  BY DEF Whole, PartType
<1>3. Missing \in PartType /\ Torn \in PartType
  BY DEF Missing, Torn, PartType
<1>4. \A f \in 1 .. Count : \A q \in Rank : mem[q][f] \in Stamp \cup {None}
  <2> TAKE f \in 1 .. Count
  <2> TAKE q \in Rank
  <2>1. mem[q] \in [1 .. Count -> Stamp \cup {None}]
    BY <1>1
  <2> QED  BY <2>1
<1>5. \A f \in 1 .. Count : \A q \in Rank : disk.part[f][q].of \in Stamp \cup {None}
  <2> TAKE f \in 1 .. Count
  <2> TAKE q \in Rank
  <2>1. disk.part[f] \in [Rank -> PartType]
    BY <1>1
  <2>2. disk.part[f][q] \in PartType
    BY <2>1
  <2> QED  BY <2>2 DEF PartType
<1>6. disk' \in [time : PartType, part : [1 .. Count -> [Rank -> PartType]]]
  <2>1. CASE disk' = disk
    BY <1>1, <2>1
  <2>2. ASSUME NEW f \in 1 .. Count, NEW g \in [Rank -> PartType],
               disk' = [disk EXCEPT !.part[f] = g]
        PROVE  disk' \in [time : PartType, part : [1 .. Count -> [Rank -> PartType]]]
    BY <1>1, <2>2
  <2>3. CASE \E f \in 1 .. Count : \E Q \in SUBSET Rank : Tear(f, Q)
    <3>1. PICK f \in 1 .. Count, Q \in SUBSET Rank : Tear(f, Q)
      BY <2>3
    <3>2. PICK g : g = [q \in Rank |-> IF q \in Q THEN Torn ELSE disk.part[f][q]]
      OBVIOUS
    <3>3. disk.part[f] \in [Rank -> PartType]
      BY <1>1
    <3>4. g \in [Rank -> PartType]
      BY <1>3, <3>2, <3>3
    <3>5. disk' = [disk EXCEPT !.part[f] = g]
      BY <1>1, <3>1, <3>2 DEF Tear
    <3> QED  BY <2>2, <3>4, <3>5
  <2>4. CASE \E f \in 1 .. Count : \E Q \in SUBSET Rank : Fill(f, Q)
    <3>1. PICK f \in 1 .. Count, Q \in SUBSET Rank : Fill(f, Q)
      BY <2>4
    <3>2. PICK g : g = [q \in Rank |-> IF q \in Q THEN Whole(mem[q][f]) ELSE disk.part[f][q]]
      OBVIOUS
    <3>3. disk.part[f] \in [Rank -> PartType]
      BY <1>1
    <3>4. g \in [Rank -> PartType]
      BY <1>2, <1>4, <3>2, <3>3
    <3>5. disk' = [disk EXCEPT !.part[f] = g]
      BY <1>1, <3>1, <3>2 DEF Fill
    <3> QED  BY <2>2, <3>4, <3>5
  <2>5. CASE \E t \in {Missing, Torn, Whole(mem[r][1])} : disk' = [disk EXCEPT !.time = t]
    <3>1. PICK t \in PartType : disk' = [disk EXCEPT !.time = t]
      BY <1>1, <1>2, <1>3, <1>4, <2>5
    <3> QED  BY <1>1, <3>1
  <2> QED  BY <2>1, <2>3, <2>4, <2>5, StepData DEF DiskSteps
<1>7. mem' \in [Rank -> [1 .. Count -> Stamp \cup {None}]]
  <2>1. CASE mem' = mem
    BY <1>1, <2>1
  <2>2. CASE icnt[r] < StepMax
             /\ mem' = [mem EXCEPT ![r] = [f \in 1 .. Count |-> <<job, icnt[r] + 1>>]]
    <3>1. <<job, icnt[r] + 1>> \in Stamp
      BY <1>1, <2>2, BoundAssumption DEF Stamp
    <3>2. [f \in 1 .. Count |-> <<job, icnt[r] + 1>>] \in [1 .. Count -> Stamp \cup {None}]
      BY <3>1
    <3> QED  BY <1>1, <2>2, <3>2
  <2>3. CASE \E s \in Stamp \cup {None} : mem' = [mem EXCEPT ![r][file[r]] = s]
    BY <1>1, <2>3
  <2>4. CASE \E q \in Rank : mem' = [mem EXCEPT ![r][file[r]] = disk.part[file[r]][q].of]
    BY <1>1, <1>5, <2>3, <2>4
  <2> QED  BY <2>1, <2>2, <2>3, <2>4, StepData DEF MemSteps
<1> QED  BY <1>6, <1>7

LEMMA CourseStep ==
    ASSUME Course, NEW r \in Rank, Step(r)
    PROVE  Course'
<1>1. /\ Contained /\ Types /\ KindsFit /\ OnTrace /\ layout' = layout /\ job' = job
      /\ Moves(r) /\ Ranks'
  BY StepMoves DEF Course, Step
<1>2. Contained'
  BY <1>1 DEF Contained, Fails
<1>3. OnTrace'
  <2>1. CASE Along(r)
    BY <1>1, <2>1 DEF Along, OnTrace
  <2>2. CASE ~Along(r)
    <3>1. Inside'[r] => <<Loci'[r], r, T!Last(calls', r).value>> \in Says
      BY <1>1, <2>2, MovesSay
    <3>2. T!Together(calls', Inside', Loci', Says)
      BY <1>1, <3>1, MovesKeepTrace DEF OnTrace
    <3> QED  BY <3>2 DEF OnTrace, Says, Place, Vals
  <2> QED  BY <2>1, <2>2
<1>4. Types'
  <2>1. /\ disk' \in [time : PartType, part : [1 .. Count -> [Rank -> PartType]]]
        /\ mem' \in [Rank -> [1 .. Count -> Stamp \cup {None}]]
    BY <1>1, StepDataTyped
  <2>2. calls' \in [Rank -> Seq([op : Ops, value : Nat])]
    BY <1>1, MovesSay DEF T!Lists, Call
  <2>3. Count' = Count /\ job' \in 1 .. JobMax
    BY <1>1 DEF Count, Types, TypeOK
  <2>4. Stamp \cup {None} \subseteq (0 .. JobMax) \X (0 .. StepMax)
    BY BoundAssumption DEF Stamp, None
  <2>5. mem' \in [Rank -> [1 .. Count -> (0 .. JobMax) \X (0 .. StepMax)]]
    BY <2>1, <2>4
  <2> QED  BY <1>1, <2>1, <2>2, <2>3, <2>5
          DEF Ranks, Types, TypeOK, Stamp, None, PartType, Labels, Halted, Restarting, Bit, Ops
<1> QED  BY <1>1, <1>2, <1>3, <1>4 DEF Course, Ranks

\* A state in which the program begins, or nobody runs it.
Fresh ==
    /\ layout \in Layouts /\ job \in 1 .. JobMax
    /\ disk \in [time : PartType, part : [1 .. Count -> [Rank -> PartType]]]
    /\ \E start \in {"loop", "restart", "killed"} : \E s \in Stamp \cup {None} :
          /\ pc = [r \in Rank |-> start]
          /\ mem = [r \in Rank |-> [f \in 1 .. Count |-> s]]
    /\ icnt = [r \in Rank |-> 0]
    /\ file = [r \in Rank |-> 1]
    /\ err = [r \in Rank |-> 0]
    /\ calls = NoCalls

LEMMA FreshCourse == Contained /\ Fresh => Course
<1> SUFFICES ASSUME Contained, Fresh PROVE Course
  OBVIOUS
<1>1. PICK start \in {"loop", "restart", "killed"}, s \in Stamp \cup {None} :
         /\ pc = [r \in Rank |-> start]
         /\ mem = [r \in Rank |-> [f \in 1 .. Count |-> s]]
  BY DEF Fresh
<1>2. \A r \in Rank : /\ pc[r] = start /\ icnt[r] = 0 /\ file[r] = 1 /\ err[r] = 0
                      /\ calls[r] = <<>>
  BY <1>1 DEF Fresh, NoCalls
<1>3. start \in Labels /\ start \notin Waits
  BY <1>1 DEF Labels, Halted, Restarting, Waits
<1>4. Count \in Nat \ {0} /\ 0 \in 0 .. StepMax /\ 0 \in Bit /\ 1 \in 1 .. Count
  <2>1. Count \in Nat \ {0}
    BY LayoutFacts DEF Fresh, Count
  <2> QED  BY <2>1, BoundAssumption DEF Bit
<1>5. Types
  <2>1. s \in (0 .. JobMax) \X (0 .. StepMax)
    BY BoundAssumption DEF Stamp, None
  <2>2. calls \in [Rank -> Seq([op : Ops, value : Nat])]
    BY DEF Fresh, NoCalls
  <2>3. /\ mem \in [Rank -> [1 .. Count -> (0 .. JobMax) \X (0 .. StepMax)]]
        /\ mem \in [Rank -> [1 .. Count -> Stamp \cup {None}]]
    BY <1>1, <2>1
  <2>4. /\ pc \in [Rank -> Labels] /\ icnt \in [Rank -> 0 .. StepMax]
        /\ file \in [Rank -> 1 .. Count] /\ err \in [Rank -> Bit]
    BY <1>1, <1>3, <1>4 DEF Fresh
  <2> QED  BY <2>2, <2>3, <2>4 DEF Fresh, Types, TypeOK
<1>6. KindsFit
  <2>1. ASSUME NEW r \in Rank PROVE Fits(layout, pc[r], file[r], err[r])
    BY <1>1, <1>2 DEF Fits
  <2> QED  BY <2>1 DEF KindsFit
<1>7. OnTrace
  <2>1. PICK p : p = LocusOf(layout, start, 1, 0, 0)
    OBVIOUS
  <2>2. p \in Place
    BY <1>3, <1>4, <2>1, LocusTyped DEF Fresh, Count
  <2>3. \A r \in Rank : calls[r] = <<>> /\ ~Inside[r] /\ Loci[r] = p
    BY <1>2, <1>3, <2>1 DEF Inside, Loci
  <2> QED  BY <2>2, <2>3, T!TogetherStarts DEF OnTrace
<1> QED  BY <1>5, <1>6, <1>7 DEF Course

LEMMA FreshCourseNext == (Contained /\ Fresh => Course)'
BY FreshCourse, PTL

LEMMA InitFresh == Init => Fresh
<1> SUFFICES ASSUME Init PROVE Fresh
  OBVIOUS
<1>1. layout \in Layouts /\ job \in 1 .. JobMax /\ <<1, 0>> \in Stamp \cup {None}
  BY BoundAssumption DEF Init, Stamp
<1>2. Missing \in PartType
  BY DEF Missing, PartType
<1>3. disk \in [time : PartType, part : [1 .. Count -> [Rank -> PartType]]]
  BY <1>2 DEF Init
<1>4. /\ "loop" \in {"loop", "restart", "killed"}
      /\ pc = [r \in Rank |-> "loop"]
      /\ mem = [r \in Rank |-> [f \in 1 .. Count |-> <<1, 0>>]]
  BY DEF Init
<1> QED  BY <1>1, <1>3, <1>4 DEF Fresh, Init

LEMMA ResetFresh == Types /\ (Kill \/ Submit) => Fresh'
<1> SUFFICES ASSUME Types, Kill \/ Submit PROVE Fresh'
  OBVIOUS
<1>1. PICK start, j :
         /\ start \in {"loop", "restart", "killed"} /\ Reset(start, j)
         /\ <<j, 0>> \in Stamp \cup {None} /\ job' \in 1 .. JobMax
  <2>1. CASE Kill
    BY <2>1 DEF Kill, None, Types, TypeOK
  <2>2. CASE Submit
    <3>1. PICK start \in {"loop", "restart"} : Reset(start, job + 1)
      BY <2>2 DEF Submit
    <3>2. <<job + 1, 0>> \in Stamp /\ job' \in 1 .. JobMax
      BY <2>2, BoundAssumption DEF Submit, Types, TypeOK, Stamp
    <3> QED  BY <3>1, <3>2
  <2> QED  BY <2>1, <2>2
<1>2. layout' = layout /\ disk' = disk /\ Count' = Count
  BY DEF Kill, Submit, Count
<1>3. PICK s \in Stamp \cup {None} : s = <<j, 0>>
  BY <1>1
<1>4. /\ pc' = [r \in Rank |-> start] /\ mem' = [r \in Rank |-> [f \in 1 .. Count' |-> s]]
      /\ icnt' = [r \in Rank |-> 0] /\ file' = [r \in Rank |-> 1]
      /\ err' = [r \in Rank |-> 0] /\ calls' = NoCalls'
  BY <1>1, <1>2, <1>3 DEF Reset, NoCalls
<1>5. layout' \in Layouts
      /\ disk' \in [time : PartType', part : [1 .. Count' -> [Rank -> PartType']]]
  BY <1>2 DEF Types, TypeOK, PartType, Stamp, None
<1>6. s \in Stamp' \cup {None'}
  BY DEF Stamp, None
<1> QED  BY <1>1, <1>4, <1>5, <1>6 DEF Fresh

LEMMA CourseNext == Course /\ [Next]_vars => Course'
<1> SUFFICES ASSUME Course, [Next]_vars PROVE Course'
  OBVIOUS
<1>1. CASE \E r \in Rank : Step(r)
  BY <1>1, CourseStep
<1>2. CASE Kill \/ Submit
  <2>1. Fresh' /\ Contained'
    BY <1>2, ResetFresh DEF Course, Contained, Fails
  <2> QED  BY <2>1, FreshCourseNext
<1>3. CASE UNCHANGED vars
  <2>1. /\ layout' = layout /\ job' = job /\ disk' = disk /\ calls' = calls /\ pc' = pc
        /\ mem' = mem /\ icnt' = icnt /\ file' = file /\ err' = err
    BY <1>3 DEF vars, rank
  <2>2. Loci' = Loci /\ Inside' = Inside /\ Count' = Count
    BY <2>1 DEF Loci, Inside, Count
  <2>3. OnTrace'
    BY <2>1, <2>2 DEF Course, OnTrace
  <2>4. Types' /\ KindsFit' /\ Contained'
    BY <2>1, <2>2 DEF Course, Types, TypeOK, KindsFit, Contained, Fails
  <2> QED  BY <2>3, <2>4 DEF Course
<1> QED  BY <1>1, <1>2, <1>3 DEF Next, Over

LEMMA CourseAlways == Contained => (Spec => []Course)
<1>1. Contained /\ Init => Course
  BY InitFresh, FreshCourse
<1> QED  BY <1>1, CourseNext, PTL DEF Spec

\* Dumps and restarts, whatever the layout, the number of ranks, files and jobs and
\* the failures, if each of them is shared with the other ranks, keep to their types:
\* no error code but 0 and 1, no file number past the last file.
THEOREM DumpTyped == Contained => (Spec => []TypeOK)
<1>1. Course => TypeOK
  BY DEF Course, Types
<1> QED  BY <1>1, CourseAlways, PTL

\* The ranks enter the same collectives in the same order all through a dump and a
\* restart, also when a directory, an allocation, an opening, a write or a read fails
\* on some of them only.
THEOREM DumpCallsMatch == Contained => (Spec => []CollectivesMatch)
<1>1. Course => CollectivesMatch
  <2> SUFFICES ASSUME Course, NEW q \in Rank, NEW r \in Rank, NEW k \in 1 .. Len(calls[q]),
                      k <= Len(calls[r])
               PROVE  calls[q][k].op = calls[r][k].op
    BY DEF CollectivesMatch, Matched
  <2>1. calls \in T!Lists(Call)
    BY PathsTyped DEF Course
  <2> QED  BY <2>1, T!TogetherMatches DEF Course, OnTrace
<1> QED  BY <1>1, CourseAlways, PTL

-------------------------------------------------------------------------------
(***************************************************************************)
(* A dump is atomic: a time file vouches for a whole dump, a restart       *)
(* continues from the state that it names, and the two together implement  *)
(* module AtomicDump.                                                      *)
(*                                                                         *)
(* The above puts the ranks on one trace.  What is added here are the      *)
(* data: what a rank holds, what of its own it has stored, and what rank 0 *)
(* may conclude about the others when they have all entered fin: that      *)
(* there is nothing left of an earlier dump.                               *)
(***************************************************************************)
\* The failures after which a dump is published that is not whole, or a time file
\* believed that is empty: the buffer for the whole domain cannot be had and every rank
\* truncates the file, the result of a loose file is dropped, the time file is not
\* written.
Noticed ==
    /\ Contained
    /\ ~Fails("grid", "alloc") /\ ~Fails("time", "torn")
    /\ \A l \in Layouts : \A f \in 1 .. Len(l.files) :
          l.files[f] = "loose" => ~Fails("grid", "open") /\ ~Fails("loose", "write")

Running == Labels \ (Restarting \cup Halted)
Reading == {"restart", "time_read", "values", "read", "read_wait"}
Writing == {"file", "named", "dims", "alloc", "gathered", "opened", "sized", "write",
            "share", "fin"}
AtFile  == Writing \ {"fin"}
Resumed(q) == pc[q] \in {"resume", "resume_wait"} /\ err[q] = 0
InStep(q)  == pc[q] \in Running \/ Resumed(q)

\* The last call that rank q has entered, and the one before it.
LastCall(q) == T!Last(calls, q)
PrevCall(q) == T!Former(calls, q)

(***************************************************************************)
(* b: the state from which the running job began, None if it is a restart  *)
(* that finds no dump.                                                     *)
(***************************************************************************)
StampAt(b, n) == IF n = b[2] THEN b ELSE <<job, n>>

\* What the ranks contribute; "time_read" and "values" are rank 0's to tell.
Claims(b) ==
    {t \in Says :
        /\ t[1].op = "read" => t[3] = 0
        /\ t[1].op = "alloc" => t[3] = 0
        /\ t[1].op = "share" /\ t[1].layout.files[t[1].file] = "loose" => t[3] = 0
        /\ t[1].op = "time_read" /\ t[2] = Root => t[3] = IF b = None THEN 1 ELSE 0
        /\ t[1].op = "values" /\ t[2] = Root => t[3] = b[2]}

OnClaims(b) == T!Together(calls, Inside, Loci, Claims(b))

\* A rank that computes or dumps holds one state, the one of its step number.
Held(b, q) ==
    InStep(q) =>
        /\ b \in Stamp /\ b[2] <= icnt[q]
        /\ \A f \in 1 .. Count : mem[q][f] = StampAt(b, icnt[q])

\* While a rank restarts, the dump stays what it was; what has been read is its state.
Reads(b, q) ==
    /\ pc[q] \in Reading => disk.time = IF b = None THEN Missing ELSE Whole(b)
    /\ Resumed(q) => icnt[q] = b[2] /\ (q = Root => disk.time = Whole(b))
    /\ pc[q] \in {"values", "read", "read_wait"} => b \in Stamp
    /\ q = Root /\ pc[q] \in {"time_read", "values"} /\ b # None => icnt[q] = b[2]
    /\ pc[q] \in {"read", "read_wait"} =>
          icnt[q] = b[2] /\ \A f \in 1 .. file[q] - 1 : mem[q][f] = b

\* From the withdrawal to the publication there is no time file.
Withdrawn(q) ==
    /\ pc[q] \in Writing => disk.time = Missing
    /\ q = Root /\ pc[q] \in {"fin_wait", "time"} => disk.time = Missing
    /\ q = Root /\ pc[q] = "unlinked" /\ LastCall(q).value = 0 => disk.time = Missing

\* The return codes of a rank in the middle of a file.
Coded(q) ==
    /\ pc[q] \in AtFile \ {"opened", "share"} => err[q] = 0
    /\ pc[q] = "opened" => /\ err[q] = LastCall(q).value
                           /\ err[q] = 1 => Fails("grid", "open")

\* The files that rank 0 writes alone, and the regions that rank q is to write of file f.
Alone(f) == Kind(f) = "shared" \/ (layout.mode = "gather" /\ Kind(f) \in Gridded)
Owned(q, f) == IF ~Alone(f) THEN {q} ELSE IF q # Root THEN {} ELSE Regions(f)

\* Where a rank gets to only in one mode, or only as rank 0.
Suits(q) ==
    /\ pc[q] \in {"alloc", "gathered"} => layout.mode = "gather"
    /\ pc[q] \in {"opened", "sized"} => layout.mode = "mpi"
    /\ pc[q] = "write" /\ Alone(file[q]) => q = Root
    /\ pc[q] = "time_write" => q = Root

\* Rank q has stored what is its own of file f.
Stored(q, f) == \A x \in Owned(q, f) : disk.part[f][x] = Whole(mem[q][1])

Stores(q) ==
    /\ pc[q] \in AtFile => \A f \in 1 .. file[q] - 1 : Stored(q, f)
    /\ (pc[q] \in {"fin", "fin_wait"} /\ err[q] = 0)
          \/ pc[q] \in {"time", "time_write", "time_wait"} =>
             \A f \in 1 .. Count : Stored(q, f)

\* Rank z is one that could not open the unified file f, and says so or will.
Opposes(z, f) ==
    /\ file[z] = f
    /\ \/ pc[z] = "opened" /\ err[z] = 1
       \/ pc[z] = "share" /\ LastCall(z).value = 1
       \/ pc[z] \in {"fin", "fin_wait"} /\ err[z] = 1

\* A rank that reports success has stored what it is to store, or it could not since
\* another rank reports a failure.
Shares(q) ==
    pc[q] = "share" /\ LastCall(q).value = 0 =>
        Stored(q, file[q]) \/ \E z \in Rank : Opposes(z, file[q])

\* A rank goes on from "opened" to another call at once, and says there what it said.
Recalls(q) ==
    /\ Len(calls[q]) > 0 /\ LastCall(q).op = "opened" => pc[q] = "opened"
    /\ pc[q] = "share" /\ Len(calls[q]) > 1 /\ PrevCall(q).op = "opened" =>
          PrevCall(q).value = LastCall(q).value

Tale(b, q) ==
    /\ Held(b, q) /\ Reads(b, q) /\ Withdrawn(q) /\ Suits(q)
    /\ Coded(q) /\ Stores(q) /\ Shares(q) /\ Recalls(q)

TimeFileWhole ==
    /\ disk.time \in {Missing, Torn} \cup {Whole(s) : s \in Stamp}
    /\ disk.time = Torn <=> pc[Root] = "time_write"

Story(b) ==
    /\ b \in Stamp \cup {None}
    /\ OnClaims(b) /\ \A q \in Rank : Tale(b, q)

Telling(b) == Noticed /\ Course /\ TimeFileWhole /\ CommittedWhole /\ Story(b)

-------------------------------------------------------------------------------
(***************************************************************************)
(* What the actions do to the variables of the ranks.                      *)
(***************************************************************************)
\* Back in binary_out_base().
LEMMA FileDoneIs ==
    ASSUME Types, NEW r \in Rank, NEW e, FileDone(r, e)
    PROVE  /\ err'[r] = IF Kind(file[r]) = "loose" THEN 0 ELSE e
           /\ err'[r] = 1 \/ file[r] = Count => pc'[r] = "fin" /\ file'[r] = file[r]
           /\ err'[r] # 1 /\ file[r] # Count => pc'[r] = "file" /\ file'[r] = file[r] + 1
           /\ \A q \in Rank : q # r =>
                 pc'[q] = pc[q] /\ file'[q] = file[q] /\ err'[q] = err[q]
<1>1. PICK c : c = IF Kind(file[r]) = "loose" THEN 0 ELSE e
  OBVIOUS
<1>2. pc \in [Rank -> Labels] /\ file \in [Rank -> 1 .. Count] /\ err \in [Rank -> Bit]
  BY RankFacts
<1>3. /\ err' = [err EXCEPT ![r] = c]
      /\ IF c = 1 \/ file[r] = Count
         THEN pc' = [pc EXCEPT ![r] = "fin"] /\ file' = file
         ELSE pc' = [pc EXCEPT ![r] = "file"] /\ file' = [file EXCEPT ![r] = @ + 1]
  BY <1>1 DEF FileDone, Code, Goto
<1> QED  BY <1>1, <1>2, <1>3

\* From which place of the program to which each action leads.
LEMMA Arrows ==
    ASSUME Contained, Types, KindsFit, NEW r \in Rank
    PROVE  /\ Advance(r) => pc[r] = "loop" /\ pc'[r] = "step_wait"
           /\ StepLeave(r) => pc[r] = "step_wait" /\ pc'[r] \in {"begin", "loop"}
           /\ LoopEnd(r) => pc[r] = "loop" /\ pc'[r] = "begin"
           /\ BeginDump(r) => pc[r] = "begin" /\ pc'[r] = "unlinked"
           /\ BeginLeave(r) => pc[r] = "unlinked" /\ pc'[r] \in {"report", "file"}
           /\ SharedFile(r) => pc[r] = "file" /\ pc'[r] \in {"write", "share"}
           /\ BoundaryName(r) => pc[r] = "file" /\ pc'[r] \in {"fin", "named"}
           /\ BoundaryOpen(r) => pc[r] = "named" /\ pc'[r] = "write"
           /\ FieldDims(r) => pc[r] = "file" /\ pc'[r] = "dims"
           /\ OpenOwn(r) => pc[r] = "dims" /\ pc'[r] \in {"write", "share"}
           /\ GatherAlloc(r) => pc[r] = "dims" /\ pc'[r] = "alloc"
           /\ Gather(r) => pc[r] = "alloc" /\ pc'[r] \in {"share", "gathered"}
           /\ Gathered(r) => pc[r] = "gathered" /\ pc'[r] \in {"write", "share"}
           /\ OpenUnified(r) => pc[r] = "dims" /\ pc'[r] = "opened"
           /\ SetSize(r) => pc[r] = "opened" /\ pc'[r] \in {"share", "sized"}
           /\ Sized(r) => pc[r] = "sized" /\ pc'[r] = "write"
           /\ Write(r) => pc[r] = "write" /\ pc'[r] \in {"share", "fin", "file"}
           /\ ShareLeave(r) => pc[r] = "share" /\ pc'[r] \in {"fin", "file"}
           /\ Fin(r) => pc[r] = "fin" /\ pc'[r] = "fin_wait"
           /\ FinLeave(r) => pc[r] = "fin_wait" /\ pc'[r] \in {"report", "time"}
           /\ TimeFile(r) => pc[r] = "time" /\ pc'[r] \in {"time_wait", "time_write"}
           /\ TimeClose(r) => pc[r] = "time_write" /\ pc'[r] = "time_wait"
           /\ TimeLeave(r) => pc[r] = "time_wait" /\ pc'[r] \in {"report", "barrier"}
           /\ BarrierLeave(r) => pc[r] = "barrier" /\ pc'[r] = "report"
           /\ Report(r) => pc[r] = "report" /\ pc'[r] = "report_wait"
           /\ ReportLeave(r) => pc[r] = "report_wait" /\ pc'[r] \in {"aborted", "ended"}
           /\ ReadTime(r) => pc[r] = "restart" /\ pc'[r] = "time_read"
           /\ TimeStat(r) => pc[r] = "time_read" /\ pc'[r] \in {"resume", "values"}
           /\ TimeValues(r) => pc[r] = "values" /\ pc'[r] = "read"
           /\ Read(r) => pc[r] = "read" /\ pc'[r] = "read_wait"
           /\ ReadLeave(r) => pc[r] = "read_wait" /\ pc'[r] \in {"resume", "read"}
           /\ Resume(r) => pc[r] = "resume" /\ pc'[r] = "resume_wait"
           /\ ResumeLeave(r) => pc[r] = "resume_wait" /\ pc'[r] \in {"aborted", "loop"}
<1>0. pc \in [Rank -> Labels] /\ 0 \in Bit /\ 1 \in Bit
  BY RankFacts DEF Bit
<1>1. Advance(r) => pc[r] = "loop" /\ pc'[r] = "step_wait"
  BY <1>0 DEF Advance, Goto
<1>2. StepLeave(r) => pc[r] = "step_wait" /\ pc'[r] \in {"begin", "loop"}
  BY <1>0 DEF StepLeave, Goto
<1>3. LoopEnd(r) => pc[r] = "loop" /\ pc'[r] = "begin"
  BY <1>0 DEF LoopEnd, Goto
<1>4. BeginDump(r) => pc[r] = "begin" /\ pc'[r] = "unlinked"
  BY <1>0 DEF BeginDump, Goto
<1>5. BeginLeave(r) => pc[r] = "unlinked" /\ pc'[r] \in {"report", "file"}
  BY <1>0 DEF BeginLeave, Goto
<1>6. SharedFile(r) => pc[r] = "file" /\ pc'[r] \in {"write", "share"}
  BY <1>0 DEF SharedFile, Goto, Open, Share
<1>8. BoundaryOpen(r) => pc[r] = "named" /\ pc'[r] = "write"
  BY <1>0 DEF BoundaryOpen, Goto, Open, Contained
<1>9. FieldDims(r) => pc[r] = "file" /\ pc'[r] = "dims"
  BY <1>0 DEF FieldDims, Goto, Contained
<1>10. OpenOwn(r) => pc[r] = "dims" /\ pc'[r] \in {"write", "share"}
  BY <1>0 DEF OpenOwn, Goto, Open, Share
<1>11. GatherAlloc(r) => pc[r] = "dims" /\ pc'[r] = "alloc"
  BY <1>0 DEF GatherAlloc, Goto
<1>12. Gather(r) => pc[r] = "alloc" /\ pc'[r] \in {"share", "gathered"}
  BY <1>0 DEF Gather, Goto, Share
<1>13. Gathered(r) => pc[r] = "gathered" /\ pc'[r] \in {"write", "share"}
  BY <1>0 DEF Gathered, Goto, Open, Share
<1>14. OpenUnified(r) => pc[r] = "dims" /\ pc'[r] = "opened"
  BY <1>0 DEF OpenUnified, Goto
<1>15. SetSize(r) => pc[r] = "opened" /\ pc'[r] \in {"share", "sized"}
  BY <1>0 DEF SetSize, Goto, Share
<1>16. Sized(r) => pc[r] = "sized" /\ pc'[r] = "write"
  BY <1>0 DEF Sized, Goto
<1>19. Fin(r) => pc[r] = "fin" /\ pc'[r] = "fin_wait"
  BY <1>0 DEF Fin, Goto
<1>20. FinLeave(r) => pc[r] = "fin_wait" /\ pc'[r] \in {"report", "time"}
  BY <1>0 DEF FinLeave, Goto
<1>21. TimeFile(r) => pc[r] = "time" /\ pc'[r] \in {"time_wait", "time_write"}
  BY <1>0 DEF TimeFile, Goto
<1>22. TimeClose(r) => pc[r] = "time_write" /\ pc'[r] = "time_wait"
  BY <1>0 DEF TimeClose, Goto
<1>23. TimeLeave(r) => pc[r] = "time_wait" /\ pc'[r] \in {"report", "barrier"}
  BY <1>0 DEF TimeLeave, Goto
<1>24. BarrierLeave(r) => pc[r] = "barrier" /\ pc'[r] = "report"
  BY <1>0 DEF BarrierLeave, Goto
<1>25. Report(r) => pc[r] = "report" /\ pc'[r] = "report_wait"
  BY <1>0 DEF Report, Goto
<1>26. ReportLeave(r) => pc[r] = "report_wait" /\ pc'[r] \in {"aborted", "ended"}
  BY <1>0 DEF ReportLeave, Goto
<1>27. ReadTime(r) => pc[r] = "restart" /\ pc'[r] = "time_read"
  BY <1>0 DEF ReadTime, Goto
<1>28. TimeStat(r) => pc[r] = "time_read" /\ pc'[r] \in {"resume", "values"}
  BY <1>0 DEF TimeStat, Goto, GiveUp
<1>29. TimeValues(r) => pc[r] = "values" /\ pc'[r] = "read"
  BY <1>0 DEF TimeValues, Goto
<1>30. Read(r) => pc[r] = "read" /\ pc'[r] = "read_wait"
  BY <1>0 DEF Read, Goto
<1>31. ReadLeave(r) => pc[r] = "read_wait" /\ pc'[r] \in {"resume", "read"}
  BY <1>0 DEF ReadLeave, Goto, GiveUp
<1>32. Resume(r) => pc[r] = "resume" /\ pc'[r] = "resume_wait"
  BY <1>0 DEF Resume, Goto
<1>33. ResumeLeave(r) => pc[r] = "resume_wait" /\ pc'[r] \in {"aborted", "loop"}
  BY <1>0 DEF ResumeLeave, Goto
<1>7. BoundaryName(r) => pc[r] = "file" /\ pc'[r] \in {"fin", "named"}
  <2> SUFFICES ASSUME BoundaryName(r) PROVE pc[r] = "file" /\ pc'[r] \in {"fin", "named"}
    OBVIOUS
  <2>1. CASE FileDone(r, 1)
    BY <2>1, <1>0, FileDoneIs DEF BoundaryName
  <2>2. CASE ~FileDone(r, 1)
    BY <2>2, <1>0 DEF BoundaryName, Goto
  <2> QED  BY <2>1, <2>2
<1>17. Write(r) => pc[r] = "write" /\ pc'[r] \in {"share", "fin", "file"}
  <2> SUFFICES ASSUME Write(r) PROVE pc[r] = "write" /\ pc'[r] \in {"share", "fin", "file"}
    OBVIOUS
  <2>1. CASE FileDone(r, 0)
    BY <2>1, <1>0, FileDoneIs DEF Write
  <2>2. CASE ~FileDone(r, 0)
    BY <2>2, <1>0 DEF Write, Written, Share, Goto, Contained
  <2> QED  BY <2>1, <2>2
<1>18. ShareLeave(r) => pc[r] = "share" /\ pc'[r] \in {"fin", "file"}
  BY <1>0 DEF ShareLeave, FileDone, Goto
<1> QED  BY <1>1, <1>2, <1>3, <1>4, <1>5, <1>6, <1>7, <1>8, <1>9, <1>10, <1>11, <1>12, <1>13, <1>14, <1>15, <1>16, <1>17, <1>18, <1>19, <1>20, <1>21, <1>22, <1>23, <1>24, <1>25, <1>26, <1>27, <1>28, <1>29, <1>30, <1>31, <1>32, <1>33

\* An action changes nothing of the other ranks.
LEMMA OthersKeep ==
    ASSUME Types, NEW r \in Rank, Step(r), NEW q \in Rank, q # r
    PROVE  /\ pc'[q] = pc[q] /\ file'[q] = file[q] /\ err'[q] = err[q]
           /\ icnt'[q] = icnt[q] /\ mem'[q] = mem[q]
<1>1. /\ pc \in [Rank -> Labels] /\ file \in [Rank -> 1 .. Count] /\ err \in [Rank -> Bit]
      /\ icnt \in [Rank -> 0 .. StepMax] /\ 0 \in Bit /\ 1 \in Bit
  BY RankFacts DEF Bit
<1>2. mem'[q] = mem[q]
  <2>1. mem \in [Rank -> [1 .. Count -> Stamp \cup {None}]]
    BY DEF Types
  <2>2. MemSteps(r)
    BY StepData
  <2> QED  BY <2>1, <2>2 DEF MemSteps
<1> DEFINE Same == /\ pc'[q] = pc[q] /\ file'[q] = file[q] /\ err'[q] = err[q]
                   /\ icnt'[q] = icnt[q]
<1>3. CASE Advance(r) \/ StepLeave(r) \/ LoopEnd(r) \/ BeginDump(r) \/ BeginLeave(r)
           \/ GatherAlloc(r) \/ OpenUnified(r) \/ Sized(r)
  <2>1. Same
    BY <1>1, <1>3 DEF Advance, StepLeave, LoopEnd, BeginDump, BeginLeave, GatherAlloc,
                      OpenUnified, Sized, Goto, Code
  <2> QED  BY <1>2, <2>1
<1>4. CASE SharedFile(r) \/ OpenOwn(r) \/ Gather(r) \/ Gathered(r) \/ SetSize(r)
  <2>1. Same
    BY <1>1, <1>4 DEF SharedFile, OpenOwn, Gather, Gathered, SetSize, Open, Share, Goto
  <2> QED  BY <1>2, <2>1
<1>5. CASE BoundaryName(r) \/ BoundaryOpen(r) \/ FieldDims(r) \/ Write(r) \/ ShareLeave(r)
  <2>1. icnt' = icnt
    BY <1>5 DEF BoundaryName, BoundaryOpen, FieldDims, Write, ShareLeave
  <2>2. CASE \E e : FileDone(r, e)
    BY <1>1, <1>2, <2>1, <2>2, FileDoneIs
  <2>3. CASE ~\E e : FileDone(r, e)
    <3>1. ~ShareLeave(r)
      BY <2>3 DEF ShareLeave
    <3>2. Same
      BY <1>1, <1>5, <2>1, <2>3, <3>1 DEF BoundaryName, BoundaryOpen, FieldDims, Write,
            Written, Open, Share, Goto
    <3> QED  BY <1>2, <3>2
  <2> QED  BY <2>2, <2>3
<1>6. CASE Fin(r) \/ FinLeave(r) \/ TimeFile(r) \/ TimeClose(r) \/ TimeLeave(r)
           \/ BarrierLeave(r) \/ Report(r) \/ ReportLeave(r)
  <2>1. Same
    BY <1>1, <1>6 DEF Fin, FinLeave, TimeFile, TimeClose, TimeLeave, BarrierLeave, Report,
                      ReportLeave, Goto, Code
  <2> QED  BY <1>2, <2>1
<1>7. CASE ReadTime(r) \/ TimeStat(r) \/ TimeValues(r) \/ Read(r) \/ ReadLeave(r)
           \/ Resume(r) \/ ResumeLeave(r)
  <2>1. Same
    BY <1>1, <1>7 DEF ReadTime, TimeStat, TimeValues, Read, ReadLeave, Resume, ResumeLeave,
                      GiveUp, Goto, Code
  <2> QED  BY <1>2, <2>1
<1> QED  BY <1>3, <1>4, <1>5, <1>6, <1>7 DEF Step

\* And of its own rank not more than what it is for.
LEMMA OwnKeeps ==
    ASSUME Contained, Types, KindsFit, NEW r \in Rank, Step(r)
    PROVE  /\ pc[r] \notin {"loop", "read_wait"} => mem' = mem
           /\ pc[r] \notin {"loop", "restart", "values"} => icnt' = icnt
           /\ \/ pc[r] \notin {"begin", "write", "share", "read_wait"}
              \/ pc[r] = "write" /\ pc'[r] = "share"
              => file'[r] = file[r]
           /\ \/ pc[r] \in Writing \ {"file", "dims", "write", "share"}
              \/ pc[r] \in {"file", "write"} /\ pc'[r] # "fin" /\ pc'[r] # "file"
              \/ pc[r] = "dims" /\ pc'[r] # "opened"
              \/ pc[r] \in {"time", "time_write", "resume", "read", "values", "restart"}
              => err'[r] = err[r]
<1> DEFINE MemKept  == pc[r] \notin {"loop", "read_wait"} => mem' = mem
           IcntKept == pc[r] \notin {"loop", "restart", "values"} => icnt' = icnt
           FileKept == \/ pc[r] \notin {"begin", "write", "share", "read_wait"}
                       \/ pc[r] = "write" /\ pc'[r] = "share"
                       => file'[r] = file[r]
           ErrKept  == \/ pc[r] \in Writing \ {"file", "dims", "write", "share"}
                       \/ pc[r] \in {"file", "write"} /\ pc'[r] # "fin" /\ pc'[r] # "file"
                       \/ pc[r] = "dims" /\ pc'[r] # "opened"
                       \/ pc[r] \in {"time", "time_write", "resume", "read", "values", "restart"}
                       => err'[r] = err[r]
           Kept == MemKept /\ IcntKept /\ FileKept /\ ErrKept
<1>1. CASE Advance(r) \/ StepLeave(r) \/ LoopEnd(r) \/ BeginDump(r) \/ BeginLeave(r)
           \/ GatherAlloc(r) \/ OpenUnified(r) \/ Sized(r)
  <2>1. Kept
    BY <1>1, Arrows DEF Advance, StepLeave, LoopEnd, BeginDump, BeginLeave, GatherAlloc,
                OpenUnified, Sized, Writing
  <2> QED  BY <2>1
<1>2. CASE SharedFile(r) \/ OpenOwn(r) \/ Gather(r) \/ Gathered(r) \/ SetSize(r)
  <2>1. Kept
    BY <1>2, Arrows DEF SharedFile, OpenOwn, Gather, Gathered, SetSize, Open, Share, Writing
  <2> QED  BY <2>1
<1>3. CASE BoundaryName(r) \/ BoundaryOpen(r) \/ FieldDims(r) \/ Write(r) \/ ShareLeave(r)
  <2>1. icnt' = icnt /\ mem' = mem
    BY <1>3 DEF BoundaryName, BoundaryOpen, FieldDims, Write, ShareLeave
  <2>2. CASE \E e : FileDone(r, e)
    <3>1. pc'[r] \in {"fin", "file"} /\ pc[r] \in {"file", "write", "share"}
      BY <1>3, <2>2, FileDoneIs, Arrows
    <3>2. pc[r] = "file" => file'[r] = file[r]
      <4> SUFFICES ASSUME pc[r] = "file" PROVE file'[r] = file[r]
        OBVIOUS
      <4>1. BoundaryName(r)
        BY <1>3, <3>1, Arrows
      <4>2. FileDone(r, 1) /\ Kind(file[r]) = "bnd"
        BY <3>1, <4>1, RankFacts DEF BoundaryName, Goto
      <4> QED  BY <4>2, FileDoneIs
    <3>3. Kept
      BY <2>1, <3>1, <3>2 DEF Writing
    <3> QED  BY <3>3
  <2>3. CASE ~\E e : FileDone(r, e)
    <3>1. ~ShareLeave(r)
      BY <2>3 DEF ShareLeave
    <3>2. Kept
      BY <1>3, <2>1, <2>3, <3>1, Arrows DEF BoundaryName, BoundaryOpen, FieldDims, Write,
            Written, Open, Share, Writing
    <3> QED  BY <3>2
  <2> QED  BY <2>2, <2>3
<1>4. CASE Fin(r) \/ FinLeave(r) \/ TimeFile(r) \/ TimeClose(r) \/ TimeLeave(r)
           \/ BarrierLeave(r) \/ Report(r) \/ ReportLeave(r)
  <2>1. Kept
    BY <1>4, Arrows DEF Fin, FinLeave, TimeFile, TimeClose, TimeLeave, BarrierLeave, Report,
                ReportLeave, Writing
  <2> QED  BY <2>1
<1>5. CASE ReadTime(r) \/ TimeStat(r) \/ TimeValues(r) \/ Read(r) \/ ReadLeave(r)
           \/ Resume(r) \/ ResumeLeave(r)
  <2>1. Kept
    BY <1>5, Arrows DEF ReadTime, TimeStat, TimeValues, Read, ReadLeave, Resume, ResumeLeave,
                Writing
  <2> QED  BY <2>1
<1> QED  BY <1>1, <1>2, <1>3, <1>4, <1>5 DEF Step

\* What Tear() and Fill() do, region by region.
LEMMA TearIs ==
    ASSUME Types, NEW f \in 1 .. Count, NEW Q \in SUBSET Rank, Tear(f, Q)
    PROVE  /\ disk'.time = disk.time
           /\ \A g \in 1 .. Count : \A x \in Rank :
                 disk'.part[g][x] = IF g = f /\ x \in Q THEN Torn ELSE disk.part[g][x]
<1>1. /\ disk \in [time : PartType, part : [1 .. Count -> [Rank -> PartType]]]
      /\ disk.part \in [1 .. Count -> [Rank -> PartType]]
  BY DEF Types, TypeOK
<1>2. PICK g : g = [q \in Rank |-> IF q \in Q THEN Torn ELSE disk.part[f][q]]
  OBVIOUS
<1>3. disk' = [disk EXCEPT !.part[f] = g]
  BY <1>1, <1>2 DEF Tear
<1>4. disk'.time = disk.time /\ disk'.part = [disk.part EXCEPT ![f] = g]
  BY <1>1, <1>3
<1>5. disk'.part[f] = g /\ \A h \in 1 .. Count : h # f => disk'.part[h] = disk.part[h]
  BY <1>1, <1>4
<1> QED  BY <1>2, <1>4, <1>5

LEMMA FillIs ==
    ASSUME Types, NEW f \in 1 .. Count, NEW Q \in SUBSET Rank, Fill(f, Q)
    PROVE  /\ disk'.time = disk.time
           /\ \A g \in 1 .. Count : \A x \in Rank :
                 disk'.part[g][x] = IF g = f /\ x \in Q THEN Whole(mem[x][f])
                                                        ELSE disk.part[g][x]
<1>1. /\ disk \in [time : PartType, part : [1 .. Count -> [Rank -> PartType]]]
      /\ disk.part \in [1 .. Count -> [Rank -> PartType]]
  BY DEF Types, TypeOK
<1>2. PICK g : g = [q \in Rank |-> IF q \in Q THEN Whole(mem[q][f]) ELSE disk.part[f][q]]
  OBVIOUS
<1>3. disk' = [disk EXCEPT !.part[f] = g]
  BY <1>1, <1>2 DEF Fill
<1>4. disk'.time = disk.time /\ disk'.part = [disk.part EXCEPT ![f] = g]
  BY <1>1, <1>3
<1>5. disk'.part[f] = g /\ \A h \in 1 .. Count : h # f => disk'.part[h] = disk.part[h]
  BY <1>1, <1>4
<1> QED  BY <1>2, <1>4, <1>5

-------------------------------------------------------------------------------
(***************************************************************************)
(* What the ranks have said, and what they hear.                           *)
(***************************************************************************)
\* The call that a rank enters becomes its last one.
LEMMA Said ==
    ASSUME Types, NEW r \in Rank, NEW op \in Ops, NEW v \in Nat, Enter(r, op, v)
    PROVE  /\ Len(calls'[r]) > 0 /\ LastCall(r)' = [op |-> op, value |-> v]
           /\ Len(calls'[r]) > 1 => Len(calls[r]) > 0 /\ PrevCall(r)' = LastCall(r)
<1>1. PICK e : e = [op |-> op, value |-> v]
  OBVIOUS
<1>2. e \in Call /\ calls \in T!Lists(Call)
  BY <1>1, PathsTyped DEF Call
<1>3. calls' = T!Shorter(T!Longer(calls, r, e))
  BY <1>1 DEF Enter, T!Shorter, T!Longer, T!Past, T!Tails
<1> QED  BY <1>1, <1>2, <1>3, T!LastIsNew DEF LastCall, PrevCall

\* The last calls of the other ranks stay.
LEMMA OthersSaid ==
    ASSUME Course, NEW r \in Rank, Step(r), NEW q \in Rank, q # r
    PROVE  /\ Len(calls'[q]) > 0 <=> Len(calls[q]) > 0
           /\ Len(calls'[q]) > 0 => LastCall(q)' = LastCall(q)
           /\ Len(calls'[q]) > 1 => Len(calls[q]) > 1 /\ PrevCall(q)' = PrevCall(q)
<1>1. Types /\ Moves(r) /\ calls \in T!Lists(Call)
  BY StepMoves, PathsTyped DEF Course
<1>2. CASE calls' = calls
  BY <1>2 DEF LastCall, PrevCall
<1>3. CASE calls' # calls
  <2>1. PICK p, v : Enters(r, p, v)
    BY <1>1, <1>3 DEF Moves, Along, Entering, Leaving, GoingOn
  <2>2. PICK e : e = Called(p, v)
    OBVIOUS
  <2>3. p \in Place
    BY <2>1 DEF Enters
  <2>4. e \in Call /\ calls' = T!Shorter(T!Longer(calls, r, e))
    BY <1>1, <2>1, <2>2, <2>3, EnterIs
  <2> QED  BY <1>1, <2>4, T!LastStays DEF LastCall, PrevCall
<1> QED  BY <1>2, <1>3

\* The last call of a rank that is in a call is that of its place.
LEMMA InCall ==
    ASSUME Course, NEW q \in Rank, pc[q] \in Waits
    PROVE  /\ Len(calls[q]) \in Nat \ {0} /\ LastCall(q) \in Call
           /\ LastCall(q).op = Loci[q].op
<1>1. PICK n : n = Len(calls[q])
  OBVIOUS
<1>2. Inside[q] /\ calls \in T!Lists(Call)
  BY PathsTyped DEF Inside, Course
<1>3. calls[q] \in Seq(Call)
  BY <1>2 DEF T!Lists
<1>4. n \in Nat
  BY <1>1, <1>3
<1>5. PICK S : T!Trace(S, calls, Inside) /\ T!Here(S, calls, Inside, q) = Loci[q]
  BY DEF Course, OnTrace, T!Together
<1>6. T!At(calls, Inside, q) = n /\ n \in 1 .. Len(S) /\ S[n] = Loci[q]
  <2>1. T!At(calls, Inside, q) = n
    BY <1>1, <1>2 DEF T!At
  <2> QED  BY <2>1, <1>5 DEF T!Trace, T!Here
<1>7. n \in 1 .. n
  BY <1>4, <1>6
<1>8. calls[q][n].op = Op(S[n]) /\ calls[q][n] \in Call
  BY <1>1, <1>3, <1>5, <1>7 DEF T!Trace
<1> QED  BY <1>1, <1>4, <1>6, <1>7, <1>8 DEF LastCall, T!Last, Op

\* What a rank hears of another one is what that one may claim in this place.
LEMMA Heard ==
    ASSUME Course, NEW b, OnClaims(b), NEW r \in Rank, pc[r] \in Waits,
           NEW q \in Rank, Len(calls[q]) >= Len(calls[r])
    PROVE  <<Loci[r], q, Given(q, r)>> \in Claims(b)
<1>1. Inside[r] /\ calls \in T!Lists(Call)
  BY PathsTyped DEF Inside, Course
<1> QED  BY <1>1, T!TogetherTold DEF OnClaims, Given

LEMMA OwnIsGiven ==
    ASSUME NEW r \in Rank
    PROVE  Given(r, r) = LastCall(r).value
BY DEF Given, LastCall, T!Last

\* The largest value is one of those that the ranks gave, and none gave a larger one.
LEMMA LargestIs ==
    ASSUME Course, NEW r \in Rank, pc[r] \in Waits, Entered(r), How(Loci[r]) # "root"
    PROVE  /\ \E z \in Rank : Given(z, r) = Largest(r)
           /\ \A q \in Rank : Given(q, r) \in 0 .. 2 /\ Given(q, r) <= Largest(r)
           /\ Largest(r) \in 0 .. 2
<1>1. PICK V : V = Contributed(r)
  OBVIOUS
<1>2. \A q \in Rank : Given(q, r) \in 0 .. 2
  <2>1. \A q \in Rank : <<Loci[r], q, Given(q, r)>> \in Says
    <3>1. Inside[r] /\ calls \in T!Lists(Call)
      BY PathsTyped DEF Inside, Course
    <3>2. \A q \in Rank : Len(calls[q]) >= Len(calls[r])
      BY DEF Entered
    <3> QED  BY <3>1, <3>2, T!TogetherTold DEF Course, OnTrace, Given
  <2>2. Loci[r].op # "values" /\ Loci[r] \in Place
    BY PathsTyped DEF How, Course, T!Paths
  <2>3. \A q \in Rank : Given(q, r) \in Vals(Loci[r].op)
    BY <2>1, <2>2, AllowedSays DEF Allowed
  <2>4. Vals(Loci[r].op) \subseteq 0 .. 2
    BY <2>2 DEF Vals, Bit
  <2> QED  BY <2>3, <2>4
<1>3. V \subseteq 0 .. 2 /\ V # {}
  BY <1>1, <1>2, RootAssumption DEF Contributed
<1>4. Largest(r) = T!Greatest(V)
  BY <1>1 DEF Largest, T!Greatest
<1>5. T!Greatest(V) \in V /\ \A w \in V : w <= T!Greatest(V)
  BY <1>3, T!GreatestIsLargest
<1> QED  BY <1>1, <1>2, <1>3, <1>4, <1>5 DEF Contributed

-------------------------------------------------------------------------------
(***************************************************************************)
(* Where the ranks are, seen from their places.                            *)
(***************************************************************************)
Joint == {"share", "name", "dims", "fin"}

LEMMA PlaceFields ==
    ASSUME NEW l, NEW op, NEW f, NEW n, NEW e
    PROVE  /\ P(l, op, f, n, e).layout = l /\ P(l, op, f, n, e).op = op
           /\ P(l, op, f, n, e).file = f
           /\ P(l, op, f, n, e).n = n /\ P(l, op, f, n, e).e = e
BY DEF P

\* The place of a file that is begun, and of what follows a file.
LEMMA FilePlaceParts ==
    ASSUME NEW l \in Layouts, NEW f \in 1 .. Len(l.files), NEW n
    PROVE  LET p == FilePlace(l, f, n) IN
              /\ p.op \in Joint /\ p.layout = l /\ p.n = n /\ p.file = f /\ How(p) = "largest"
              /\ p.op = "share" => l.files[f] = "shared"
<1>1. l.files[f] \in Kinds
  BY LayoutFacts
<1>2. CASE l.files[f] = "shared"
  BY <1>2, FilePlaceIs, PlaceFields, PlaceParts DEF Joint
<1>3. CASE l.files[f] = "bnd"
  BY <1>3, FilePlaceIs, PlaceFields, PlaceParts DEF Joint, Failed
<1>4. CASE l.files[f] \in Gridded
  BY <1>4, FilePlaceIs, PlaceFields, PlaceParts DEF Joint, Gridded
<1> QED  BY <1>1, <1>2, <1>3, <1>4 DEF Kinds, Gridded

LEMMA FilesDoneParts ==
    ASSUME NEW l \in Layouts, NEW f \in 1 .. Len(l.files), NEW n
    PROVE  LET p == FilesDone(l, f, n) IN
              /\ p.op \in Joint /\ p.layout = l /\ p.n = n /\ How(p) = "largest"
              /\ p.file = f + 1 \/ (p.op = "fin" /\ p.e = 0)
              /\ p.op = "share" => f + 1 \in 1 .. Len(l.files) /\ l.files[f + 1] = "shared"
<1>1. CASE f = Len(l.files)
  BY <1>1, PlaceFields, PlaceParts DEF FilesDone, Joint
<1>2. CASE f # Len(l.files)
  <2>1. f + 1 \in 1 .. Len(l.files)
    BY <1>2, LayoutFacts
  <2>2. FilesDone(l, f, n) = FilePlace(l, f + 1, n)
    BY <1>2 DEF FilesDone
  <2> QED  BY <2>1, <2>2, FilePlaceParts
<1> QED  BY <1>1, <1>2

LEMMA Whereabouts ==
    ASSUME Types, NEW q \in Rank
    PROVE  LET p == Loci[q] IN
           /\ pc[q] \in Writing \cup {"fin_wait", "time", "time_write", "time_wait"}
                 => p.n = icnt[q]
           /\ pc[q] \in {"dims", "alloc", "gathered", "opened", "sized", "share"}
                 => p.op = pc[q] /\ p.file = file[q]
           /\ (pc[q] = "named" => p.op = "name") /\ (pc[q] = "step_wait" => p.op = "step")
           /\ pc[q] \in {"fin", "fin_wait"}
                 => p.op = "fin" /\ p.e = err[q] /\ (err[q] = 1 => p.file = file[q])
           /\ p.op \in Joint => pc[q] \in Writing \cup {"fin_wait"}
           /\ p.op \in {"alloc", "gathered", "opened", "sized"} => pc[q] = p.op
           /\ p.op = "time" => pc[q] \in {"time", "time_write", "time_wait"}
           /\ p.op \in {"step", "unlink"}
                 => pc[q] \in {"loop", "step_wait", "begin", "unlinked"}
           /\ p.op = "resume" => pc[q] \in {"resume", "resume_wait"}
<1>1. PICK l, f, n, e, p : l = layout /\ f = file[q] /\ n = icnt[q] /\ e = err[q] /\ p = Loci[q]
  OBVIOUS
<1>2. /\ pc[q] \in Labels /\ p = LocusOf(l, pc[q], f, n, e)
      /\ l \in Layouts /\ f \in 1 .. Len(l.files)
  BY <1>1, RankFacts DEF Count
<1>3. CASE pc[q] \in {"loop", "step_wait", "begin", "unlinked"}
  BY <1>1, <1>2, <1>3, LocusIs, PlaceFields DEF Joint, Writing, LoopPlace
<1>4. CASE pc[q] \in {"file", "write"}
  <2>1. p.op \in Joint /\ p.n = n
    BY <1>2, <1>4, LocusIs, PlaceFields, FilePlaceParts, FilesDoneParts DEF Joint
  <2> QED  BY <1>1, <1>4, <2>1 DEF Joint, Writing
<1>5. CASE pc[q] \in {"named", "dims", "alloc", "gathered", "opened", "sized", "share"}
  BY <1>1, <1>2, <1>5, LocusIs, PlaceFields DEF Joint, Writing
<1>6. CASE pc[q] \in {"fin", "fin_wait", "time", "time_write", "time_wait"}
  BY <1>1, <1>2, <1>6, LocusIs, PlaceFields DEF Joint, Writing
<1>7. CASE pc[q] \in {"barrier", "report", "report_wait"} \cup Halted
  BY <1>1, <1>2, <1>7, LocusIs, PlaceFields DEF Joint, Writing, Halted
<1>8. CASE pc[q] \in Restarting
  BY <1>1, <1>2, <1>8, LocusIs, PlaceFields DEF Joint, Writing, Restarting
<1> QED  BY <1>2, <1>3, <1>4, <1>5, <1>6, <1>7, <1>8 DEF Labels

\* The calls before some that all wait for.
LEMMA Predecessors ==
    ASSUME NEW p \in Place, NEW v
    PROVE  LET s == After(p, v) IN
           /\ s.op = "time" => p.op = "fin" /\ p.e = 0 /\ p.n = s.n
           /\ s.op = "unlink" => p.op \in {"step", "resume"}
           /\ s.op = "share" /\ s.layout.files[s.file] # "shared"
                 => p.op \in {"dims", "alloc", "gathered", "opened", "sized"} /\ p.n = s.n
<1>1. PICK l, op, f, n, e : l = p.layout /\ op = p.op /\ f = p.file /\ n = p.n /\ e = p.e
  OBVIOUS
<1>2. /\ p = P(l, op, f, n, e) /\ l \in Layouts /\ op \in Ops \cup {"none"}
      /\ f \in 1 .. Len(l.files) /\ e \in Bit
  BY <1>1 DEF Place, P
<1>3. 1 \in 1 .. Len(l.files)
  BY <1>2, LayoutFacts
<1>4. PICK s : s = After(p, v)
  OBVIOUS
<1> DEFINE Goal == /\ s.op = "time" => op = "fin" /\ e = 0 /\ n = s.n
                   /\ s.op = "unlink" => op \in {"step", "resume"}
                   /\ s.op = "share" /\ s.layout.files[s.file] # "shared"
                         => op \in {"dims", "alloc", "gathered", "opened", "sized"} /\ n = s.n
<1>5. CASE op \in {"step", "resume"}
  <2>1. \A m : LoopPlace(l, m).op \in {"step", "unlink"}
    BY PlaceFields DEF LoopPlace
  <2>2. s.op \in {"step", "unlink", "none"}
    BY <1>2, <1>4, <1>5, <2>1, AfterIs, PlaceFields
  <2>3. Goal
    BY <1>5, <2>2
  <2> QED  BY <1>1, <1>4, <2>3
<1>6. CASE op = "unlink"
  <2>1. CASE s = P(l, "report", 1, n, 0)
    <3>1. Goal
      BY <2>1, PlaceFields
    <3> QED  BY <1>1, <1>4, <3>1
  <2>2. CASE s = FilePlace(l, 1, n)
    <3>1. s.op \in Joint /\ s.layout = l /\ s.file = 1 /\ (s.op = "share" => l.files[1] = "shared")
      BY <1>2, <1>3, <2>2, FilePlaceParts
    <3>2. Goal
      BY <3>1 DEF Joint
    <3> QED  BY <1>1, <1>4, <3>2
  <2> QED  BY <1>2, <1>4, <1>6, <2>1, <2>2, AfterIs
<1>7. CASE op \in {"share", "name"}
  <2>1. CASE s = Failed(l, f, n)
    <3>1. Goal
      BY <2>1, PlaceFields DEF Failed
    <3> QED  BY <1>1, <1>4, <3>1
  <2>2. CASE s = FilesDone(l, f, n)
    <3>1. s.op \in Joint /\ (s.op = "share" => s.layout.files[s.file] = "shared")
      <4>1. s.layout = l /\ s.op \in Joint
        BY <1>2, <2>2, FilesDoneParts
      <4>2. s.op = "share" => s.file = f + 1 /\ l.files[f + 1] = "shared"
        BY <1>2, <2>2, FilesDoneParts
      <4> QED  BY <4>1, <4>2
    <3>2. Goal
      BY <3>1 DEF Joint
    <3> QED  BY <1>1, <1>4, <3>2
  <2> QED  BY <1>2, <1>4, <1>7, <2>1, <2>2, AfterIs
<1>8. CASE op \in {"dims", "alloc", "gathered", "opened", "sized"}
  <2>1. s.op \in {"share", "alloc", "gathered", "opened", "sized"} /\ s.n = n
    <3>1. DimsDone(l, f, n).op \in {"share", "alloc", "opened"} /\ DimsDone(l, f, n).n = n
      BY <1>2, LayoutFacts, PlaceFields DEF DimsDone, Modes
    <3> QED  BY <1>2, <1>4, <1>8, <3>1, AfterIs, PlaceFields
  <2>2. Goal
    BY <1>8, <2>1
  <2> QED  BY <1>1, <1>4, <2>2
<1>9. CASE op = "fin"
  <2>1. s = IF e = 1 THEN P(l, "report", 1, n, 0) ELSE P(l, "time", 1, n, 0)
    BY <1>2, <1>4, <1>9, AfterIs
  <2>2. Goal
    BY <1>2, <1>9, <2>1, PlaceFields DEF Bit
  <2> QED  BY <1>1, <1>4, <2>2
<1>10. CASE op \in {"time", "barrier", "report", "none"}
  <2>1. s.op \in {"report", "barrier", "none"}
    <3>1. CASE op = "none"
      <4>1. s = P(l, "none", 1, 0, 0)
        BY <1>2, <1>4, <3>1, PlaceFields DEF After
      <4> QED  BY <4>1, PlaceFields
    <3>2. CASE op # "none"
      BY <1>2, <1>4, <1>10, <3>2, AfterIs, PlaceFields
    <3> QED  BY <3>1, <3>2
  <2>2. Goal
    BY <2>1
  <2> QED  BY <1>1, <1>4, <2>2
<1>11. CASE op \in {"time_read", "values", "read"}
  <2>1. s.op \in {"resume", "values", "read"}
    BY <1>2, <1>4, <1>11, AfterIs, PlaceFields
  <2>2. Goal
    BY <2>1
  <2> QED  BY <1>1, <1>4, <2>2
<1> QED  BY <1>2, <1>5, <1>6, <1>7, <1>8, <1>9, <1>10, <1>11 DEF Ops

\* Behind and Abreast of CollectiveTrace, for the ranks of a dump.
LEMMA Foremost ==
    ASSUME Course, NEW r \in Rank, pc[r] \notin Waits, How(Loci[r]) # "root" \/ r = Root,
           \A p \in Place : \A v : After(p, v) = Loci[r] => How(p) # "root", NEW q \in Rank
    PROVE  \/ Loci[q] = Loci[r]
           \/ pc[q] \in Waits /\ Loci[q] \in Place /\ \E v : Loci[r] = After(Loci[q], v)
<1>1. ~Inside[r] /\ (Inside[q] => pc[q] \in Waits) /\ calls \in T!Lists(Call)
  BY PathsTyped DEF Inside, Course
<1>2. \A p \in Place : \A x \in Rank : T!Needs(p, x) <=> (How(p) # "root" \/ x = Root)
  BY DEF How, T!Needs
<1>3. Loci[r] \in Place
  BY PathsTyped DEF T!Paths, Course
<1> QED  BY <1>1, <1>2, <1>3, T!Behind DEF Course, OnTrace

LEMMA Alongside ==
    ASSUME Course, NEW r \in Rank, pc[r] \in Waits, Returned(r),
           NEW s, s = After(Loci[r], Value(r)), How(s) # "root",
           NEW q \in Rank, How(Loci[r]) # "root" \/ q = Root
    PROVE  \/ Loci[q] = Loci[r] /\ pc[q] \in Waits /\ Len(calls[q]) = Len(calls[r])
           \/ /\ Loci[q] = s
              /\ Len(calls[q]) = IF pc[q] \in Waits THEN Len(calls[r]) + 1 ELSE Len(calls[r])
<1>1. Inside[r] /\ (Inside[q] <=> pc[q] \in Waits) /\ calls \in T!Lists(Call)
  BY PathsTyped DEF Inside, Course
<1>2. Meets(r) /\ Beyond(r) = s
  BY Outcome DEF Course
<1>3. T!Met(Loci[r], calls, Len(calls[r])) /\ s = After(Loci[r], T!Result(Loci[r], calls, Len(calls[r])))
  BY <1>2 DEF Meets, Beyond
<1>4. T!Needs(s, r) /\ T!Needs(Loci[r], q)
  BY DEF How, T!Needs
<1> QED  BY <1>1, <1>3, <1>4, T!Abreast DEF Course, OnTrace

\* When rank 0 is about to withdraw the time file, nobody reads it.
LEMMA NobodyReads ==
    ASSUME Course, pc[Root] = "begin", NEW q \in Rank
    PROVE  pc[q] \notin Reading
<1>1. Root \in Rank /\ Types /\ pc[Root] \notin Waits
  BY RootAssumption DEF Course, Waits
<1>2. Loci[Root].op = "unlink"
  BY <1>1, RankFacts, LocusIs, PlaceFields
<1>3. \A p \in Place : \A v : After(p, v) = Loci[Root] => p.op \in {"step", "resume"}
  BY <1>2, Predecessors
<1>4. \A p \in Place : \A v : After(p, v) = Loci[Root] => How(p) # "root"
  BY <1>3 DEF How
<1>5. \/ Loci[q] = Loci[Root]
      \/ pc[q] \in Waits /\ Loci[q] \in Place /\ \E v : Loci[Root] = After(Loci[q], v)
  BY <1>1, <1>4, Foremost
<1>6. Loci[q].op \in {"unlink", "step", "resume"}
  BY <1>2, <1>3, <1>5
<1> QED  BY <1>1, <1>6, Whereabouts DEF Reading

\* When rank 0 writes the time file, all the ranks have found that every file has been
\* written, and they are at the same step.
LEMMA AllHaveWritten ==
    ASSUME Course, pc[Root] \in {"time", "time_write"}, NEW q \in Rank
    PROVE  /\ icnt[q] = icnt[Root]
           /\ \/ pc[q] \in {"time", "time_write", "time_wait"}
              \/ pc[q] = "fin_wait" /\ err[q] = 0
<1>1. Root \in Rank /\ Types /\ pc[Root] \notin Waits
  BY RootAssumption DEF Course, Waits
<1>2. Loci[Root].op = "time" /\ Loci[Root].n = icnt[Root]
  BY <1>1, RankFacts, LocusIs, PlaceFields
<1>3. \A p \in Place : \A v : After(p, v) = Loci[Root] =>
         p.op = "fin" /\ p.e = 0 /\ p.n = icnt[Root]
  BY <1>2, Predecessors
<1>4. \A p \in Place : \A v : After(p, v) = Loci[Root] => How(p) # "root"
  BY <1>3 DEF How
<1>5. \/ Loci[q] = Loci[Root]
      \/ pc[q] \in Waits /\ Loci[q] \in Place /\ \E v : Loci[Root] = After(Loci[q], v)
  BY <1>1, <1>4, Foremost
<1>6. CASE Loci[q] = Loci[Root]
  BY <1>1, <1>2, <1>6, Whereabouts
<1>7. CASE pc[q] \in Waits /\ Loci[q].op = "fin" /\ Loci[q].e = 0 /\ Loci[q].n = icnt[Root]
  <2>1. pc[q] = "fin_wait"
    BY <1>1, <1>7, Whereabouts DEF Joint, Writing, Waits
  <2> QED  BY <1>1, <1>7, <2>1, Whereabouts
<1> QED  BY <1>3, <1>5, <1>6, <1>7

\* When rank 0 writes what it has gathered of a field, all the ranks are at the same step.
LEMMA AllAtOneStep ==
    ASSUME Course, pc[Root] = "write", Kind(file[Root]) \in Gridded, NEW q \in Rank
    PROVE  icnt[q] = icnt[Root] /\ pc[q] \in Running
<1>1. Root \in Rank /\ Types /\ pc[Root] \notin Waits
  BY RootAssumption DEF Course, Waits
<1>2. /\ Loci[Root].op = "share" /\ Loci[Root].n = icnt[Root] /\ How(Loci[Root]) # "root"
      /\ Loci[Root].layout.files[Loci[Root].file] # "shared"
  BY <1>1, RankFacts, LocusIs, PlaceFields, PlaceParts DEF Kind, Gridded
<1>3. \A p \in Place : \A v : After(p, v) = Loci[Root] =>
         p.op \in {"dims", "alloc", "gathered", "opened", "sized"} /\ p.n = icnt[Root]
  BY <1>2, Predecessors
<1>4. \A p \in Place : \A v : After(p, v) = Loci[Root] => How(p) # "root"
  BY <1>3 DEF How
<1>5. \/ Loci[q] = Loci[Root]
      \/ pc[q] \in Waits /\ Loci[q] \in Place /\ \E v : Loci[Root] = After(Loci[q], v)
  BY <1>1, <1>2, <1>4, Foremost
<1>6. /\ Loci[q].n = icnt[Root]
      /\ Loci[q].op \in Joint \cup {"alloc", "gathered", "opened", "sized"}
  BY <1>2, <1>3, <1>5 DEF Joint
<1>7. pc[q] \in Writing \cup {"fin_wait"}
  BY <1>1, <1>6, Whereabouts DEF Writing
<1>8. icnt[q] = Loci[q].n
  BY <1>1, <1>7, Whereabouts
<1> QED  BY <1>6, <1>7, <1>8 DEF Writing, Running, Labels, Restarting, Halted

\* A rank that is told that the time file is gone finds it gone.
LEMMA TimeFileGone ==
    ASSUME Course, Withdrawn(Root), NEW r \in Rank, pc[r] = "unlinked",
           RootEntered(r), FromRoot(r) # 1
    PROVE  disk.time = Missing
<1>1. /\ Root \in Rank /\ Types /\ pc[r] \in Waits /\ OnTrace
      /\ layout \in Layouts /\ 1 \in 1 .. Len(layout.files)
  BY RankFacts, LayoutFacts DEF Course, Waits
<1>2. PICK n, p, s : /\ n = icnt[r] /\ p = Loci[r] /\ s = FilePlace(layout, 1, n)
                     /\ p = P(layout, "unlink", 1, n, 0)
  BY <1>1, RankFacts, LocusIs
<1>3. p.op = "unlink" /\ How(p) = "root"
  BY <1>2, PlaceFields, PlaceParts
<1>4. Returned(r) /\ Value(r) = FromRoot(r)
  BY <1>2, <1>3 DEF Returned, Value
<1>5. s = After(p, Value(r)) /\ How(s) # "root" /\ s.op \in Joint
  BY <1>1, <1>2, <1>4, AfterIs, FilePlaceParts
<1>6. \/ Loci[Root] = p /\ pc[Root] \in Waits /\ Len(calls[Root]) = Len(calls[r])
      \/ Loci[Root] = s
  BY <1>1, <1>2, <1>4, <1>5, Alongside
<1>7. CASE Loci[Root] = p /\ pc[Root] \in Waits /\ Len(calls[Root]) = Len(calls[r])
  <2>1. pc[Root] = "unlinked"
    BY <1>1, <1>3, <1>7, Whereabouts DEF Waits
  <2>2. LastCall(Root).value = FromRoot(r)
    BY <1>7 DEF LastCall, T!Last, FromRoot, Given
  <2>3. FromRoot(r) \in Bit
    <3>1. Allowed(p, FromRoot(r))
      BY <1>1, <1>2, <1>4, Outcome
    <3> QED  BY <1>3, <3>1 DEF Allowed, Vals
  <2> QED  BY <2>1, <2>2, <2>3 DEF Withdrawn, Bit
<1>8. CASE Loci[Root] = s
  BY <1>1, <1>5, <1>8, Whereabouts DEF Withdrawn
<1> QED  BY <1>6, <1>7, <1>8

\* A rank that may set the size of the unified file is not late.
LEMMA AllAtThisFile ==
    ASSUME Course, NEW r \in Rank, pc[r] = "opened", Entered(r), Largest(r) # 1, NEW q \in Rank
    PROVE  pc[q] \in {"opened", "sized"} /\ file[q] = file[r]
<1>1. Types /\ pc[r] \in Waits
  BY DEF Course, Waits
<1>2. PICK f, n, p, s : /\ f = file[r] /\ n = icnt[r] /\ p = Loci[r]
                        /\ p = P(layout, "opened", f, n, 0) /\ s = P(layout, "sized", f, n, 0)
  BY <1>1, RankFacts, LocusIs
<1>3. How(p) = "largest" /\ How(s) = "largest"
  BY <1>2, PlaceParts
<1>4. /\ Returned(r) /\ s = After(Loci[r], Value(r))
      /\ How(Loci[r]) # "root" /\ How(s) # "root"
  BY <1>2, <1>3, AfterIs DEF Returned, Value
<1>5. Loci[q] = p \/ Loci[q] = s
  BY <1>1, <1>2, <1>3, <1>4, Alongside
<1>6. Loci[q].op \in {"opened", "sized"} /\ Loci[q].file = f
  BY <1>2, <1>5, PlaceFields
<1> QED  BY <1>1, <1>2, <1>6, Whereabouts

\* If another rank could not open the unified file, it is one that says so.
LEMMA SomebodyOpposes ==
    ASSUME Course, \A q \in Rank : Coded(q) /\ Recalls(q),
           NEW r \in Rank, pc[r] = "opened", Entered(r), Largest(r) = 1
    PROVE  \E z \in Rank : Opposes(z, file[r])
<1>1. Types /\ pc[r] \in Waits
  BY DEF Course, Waits
<1>2. PICK f, n, p, s : /\ f = file[r] /\ n = icnt[r] /\ p = Loci[r]
                        /\ p = P(layout, "opened", f, n, 0) /\ s = P(layout, "share", f, n, 0)
  BY <1>1, RankFacts, LocusIs
<1>3. How(p) = "largest" /\ How(s) = "largest"
  BY <1>2, PlaceParts
<1>4. /\ Returned(r) /\ s = After(Loci[r], Value(r))
      /\ How(Loci[r]) # "root" /\ How(s) # "root"
  BY <1>2, <1>3, AfterIs DEF Returned, Value
<1>5. PICK z \in Rank : Given(z, r) = 1
  BY <1>1, <1>2, <1>3, LargestIs
<1>20. PICK k : k = Len(calls[r])
  OBVIOUS
<1>6. k = Len(calls[r]) /\ k \in Nat \ {0} /\ calls[r][k].op = "opened"
  <2>1. p.op = "opened"
    BY <1>2, PlaceFields
  <2> QED  BY <1>1, <1>2, <1>20, <2>1, InCall DEF LastCall, T!Last
<1>7. Len(calls[z]) >= k /\ Len(calls[z]) \in Nat /\ k \in 1 .. Len(calls[z])
  <2>1. calls[z] \in Seq(Call)
    BY <1>1, PathsTyped DEF T!Lists
  <2>2. Len(calls[z]) \in Nat
    BY <2>1
  <2> QED  BY <1>6, <2>2 DEF Entered
<1>8. calls[z][k].op = "opened" /\ calls[z][k].value = 1
  <2>1. calls \in T!Lists(Call)
    BY <1>1, PathsTyped
  <2> QED  BY <1>5, <1>6, <1>7, <2>1, T!TogetherMatches DEF Course, OnTrace, Given
<1>9. CASE Loci[z] = p /\ pc[z] \in Waits /\ Len(calls[z]) = k
  <2>1. pc[z] = "opened" /\ file[z] = f
    BY <1>1, <1>2, <1>9, Whereabouts, PlaceFields
  <2>2. LastCall(z).value = 1
    BY <1>8, <1>9 DEF LastCall, T!Last
  <2> QED  BY <1>2, <2>1, <2>2 DEF Coded, AtFile, Writing, Opposes
<1>10. CASE Loci[z] = s /\ pc[z] \in Waits /\ Len(calls[z]) = k + 1
  <2>1. pc[z] = "share" /\ file[z] = f
    <3>1. pc[z] \in Writing \cup {"fin_wait"} /\ Loci[z].op = "share" /\ Loci[z].file = f
      BY <1>1, <1>2, <1>10, Whereabouts, PlaceFields DEF Joint
    <3>2. pc[z] = "share"
      BY <1>1, <1>10, <3>1, Whereabouts DEF Writing, Waits
    <3> QED  BY <1>1, <3>1, <3>2, Whereabouts
  <2>2. PrevCall(z) = calls[z][k]
    BY <1>6, <1>10 DEF PrevCall, T!Former
  <2>3. LastCall(z).value = 1
    BY <1>6, <1>8, <1>10, <2>1, <2>2 DEF Recalls
  <2> QED  BY <1>2, <2>1, <2>3 DEF Opposes
<1>11. CASE Loci[z] = s /\ pc[z] \notin Waits /\ Len(calls[z]) = k
  <2>1. LastCall(z).op = "opened"
    BY <1>8, <1>11 DEF LastCall, T!Last
  <2>2. pc[z] = "opened"
    BY <1>6, <1>11, <2>1 DEF Recalls
  <2> QED  BY <1>11, <2>2 DEF Waits
<1>12. \/ Loci[z] = p /\ pc[z] \in Waits /\ Len(calls[z]) = k
       \/ Loci[z] = s /\ Len(calls[z]) = IF pc[z] \in Waits THEN k + 1 ELSE k
  BY <1>1, <1>2, <1>3, <1>4, <1>6, Alongside
<1> QED  BY <1>9, <1>10, <1>11, <1>12

\* If a file has been written by all, no rank says that it could not open it.
LEMMA NobodyOpposes ==
    ASSUME Course, NEW r \in Rank, pc[r] = "share", Entered(r), Largest(r) # 1, NEW z \in Rank
    PROVE  ~Opposes(z, file[r])
<1>1. /\ Types /\ pc[r] \in Waits /\ layout \in Layouts /\ file[r] \in 1 .. Len(layout.files)
  BY RankFacts DEF Course, Waits, Count
<1>2. PICK f, n, p, s : /\ f = file[r] /\ n = icnt[r] /\ p = Loci[r]
                        /\ p = P(layout, "share", f, n, 0) /\ s = FilesDone(layout, f, n)
  BY <1>1, RankFacts, LocusIs
<1>3. How(p) = "largest" /\ How(s) = "largest" /\ p.op = "share"
  BY <1>1, <1>2, PlaceParts, FilesDoneParts
<1>4. Returned(r) /\ s = After(p, Value(r))
  BY <1>2, <1>3, AfterIs DEF Returned, Value
<1>5. CASE Loci[z] = p /\ pc[z] \in Waits /\ Len(calls[z]) = Len(calls[r])
  <2>1. LastCall(z).value # 1
    <3>1. Given(z, r) <= Largest(r) /\ Given(z, r) \in 0 .. 2 /\ Largest(r) \in 0 .. 2
      BY <1>1, <1>2, <1>3, LargestIs
    <3>2. Allowed(p, Largest(r))
      BY <1>1, <1>2, <1>3, <1>4, Outcome DEF Course, Value
    <3>3. Largest(r) = 0
      BY <1>3, <3>2 DEF Allowed, Vals, Bit
    <3>4. Given(z, r) = LastCall(z).value
      BY <1>5 DEF Given, LastCall, T!Last
    <3> QED  BY <3>1, <3>3, <3>4
  <2>2. pc[z] \notin {"opened", "fin", "fin_wait"}
    BY <1>1, <1>3, <1>5, Whereabouts
  <2> QED  BY <2>1, <2>2 DEF Opposes
<1>6. CASE Loci[z] = s
  <2>1. s.op \in Joint /\ (s.file = f + 1 \/ (s.op = "fin" /\ s.e = 0)) /\ f + 1 # f
    BY <1>1, <1>2, FilesDoneParts, LayoutFacts
  <2>2. pc[z] # "opened"
    BY <1>1, <1>6, <2>1, Whereabouts DEF Joint
  <2>3. CASE pc[z] = "share"
    BY <1>1, <1>2, <1>6, <2>1, <2>3, Whereabouts DEF Opposes
  <2>4. CASE pc[z] \in {"fin", "fin_wait"} /\ err[z] = 1
    BY <1>1, <1>2, <1>6, <2>1, <2>4, Whereabouts DEF Opposes
  <2> QED  BY <2>2, <2>3, <2>4 DEF Opposes
<1> QED  BY <1>1, <1>2, <1>3, <1>4, <1>5, <1>6, Alongside

\* When a rank leaves the Allreduce of fin after a failure, nobody is still at a file.
LEMMA NobodyShares ==
    ASSUME Course, NEW r \in Rank, pc[r] = "fin_wait", err[r] = 1, Entered(r), NEW q \in Rank
    PROVE  pc[q] # "share"
<1>1. Types /\ pc[r] \in Waits
  BY DEF Course, Waits
<1>2. PICK n, p, s : /\ p = Loci[r] /\ p = P(layout, "fin", file[r], n, 1)
                     /\ s = P(layout, "report", 1, n, 0)
  BY <1>1, RankFacts, LocusIs
<1>3. /\ p.op = "fin" /\ s.op = "report"
      /\ Returned(r) /\ s = After(Loci[r], Value(r))
      /\ How(Loci[r]) # "root" /\ How(s) # "root"
  BY <1>2, AfterIs, PlaceFields, PlaceParts DEF Returned
<1>4. Loci[q] = p \/ Loci[q] = s
  BY <1>1, <1>2, <1>3, Alongside
<1> QED  BY <1>1, <1>3, <1>4, Whereabouts

\* The calls of which nobody reports anything but a success.
LEMMA AllSucceed ==
    ASSUME Course, NEW b, OnClaims(b), NEW r \in Rank, Returned(r),
           \/ pc[r] \in {"alloc", "read_wait"}
           \/ pc[r] = "share" /\ Kind(file[r]) = "loose"
    PROVE  Value(r) = 0
<1>1. Types /\ pc[r] \in Waits
  BY DEF Course, Waits
<1>2. PICK l, f, n, p : l = layout /\ f = file[r] /\ n = icnt[r] /\ p = Loci[r]
  OBVIOUS
<1>3. \/ p = P(l, "alloc", f, n, 0) \/ p = P(l, "read", f, n, 0)
      \/ p = P(l, "share", f, n, 0) /\ l.files[f] = "loose"
  BY <1>1, <1>2, RankFacts, LocusIs DEF Kind
<1>4. \/ p.op \in {"alloc", "read"}
      \/ p.op = "share" /\ p.layout.files[p.file] = "loose"
  BY <1>3, PlaceFields
<1>5. \A q \in Rank : Len(calls[q]) >= Len(calls[r]) => Given(q, r) = 0
  <2> SUFFICES ASSUME NEW q \in Rank, Len(calls[q]) >= Len(calls[r]) PROVE Given(q, r) = 0
    OBVIOUS
  <2>1. PICK t : t = <<p, q, Given(q, r)>>
    OBVIOUS
  <2>2. t \in Claims(b)
    BY <1>1, <1>2, <2>1, Heard
  <2> QED  BY <1>4, <2>1, <2>2 DEF Claims
<1>6. CASE How(p) = "root"
  BY <1>2, <1>5, <1>6, RootAssumption DEF Returned, Value, RootEntered, FromRoot
<1>7. CASE How(p) # "root"
  <2>1. Entered(r) /\ How(p) = "largest"
    BY <1>2, <1>4, <1>7 DEF Returned, How
  <2>2. \E z \in Rank : Given(z, r) = Largest(r)
    BY <1>1, <1>2, <1>7, <2>1, LargestIs
  <2> QED  BY <1>2, <1>5, <2>1, <2>2 DEF Value, Entered
<1> QED  BY <1>6, <1>7

-------------------------------------------------------------------------------
(***************************************************************************)
(* What the actions do to the disk.                                        *)
(***************************************************************************)

LEMMA StoryFacts ==
    ASSUME NEW b, Telling(b), NEW q \in Rank
    PROVE  /\ Noticed /\ Contained /\ Course /\ Types /\ KindsFit /\ OnClaims(b)
           /\ b \in Stamp \cup {None}
           /\ Held(b, q) /\ Reads(b, q) /\ Withdrawn(q) /\ Suits(q)
           /\ Coded(q) /\ Stores(q) /\ Shares(q) /\ Recalls(q)
           /\ Fits(layout, pc[q], file[q], err[q])
           /\ file[q] \in 1 .. Count /\ Kind(file[q]) \in Kinds /\ Root \in Rank
           /\ pc[q] \in Labels /\ err[q] \in Bit /\ icnt[q] \in 0 .. StepMax
<1>1. Course /\ Noticed /\ Story(b)
  BY DEF Telling
<1>2. Types /\ KindsFit
  BY <1>1 DEF Course
<1>3. Tale(b, q)
  BY <1>1 DEF Story
<1> QED  BY <1>1, <1>2, <1>3, RankFacts DEF Course, Story, Tale, KindsFit, Noticed

\* The file at hand is truncated or written by a rank in the regions that are its own,
\* but for the unified file, which every rank brings to its size.
Renews(r, Q) ==
    /\ pc[r] \in AtFile /\ Q \in SUBSET Rank
    /\ Tear(file[r], Q) \/ Fill(file[r], Q)
    /\ \/ \A x \in Q : x \in Owned(r, file[r])
       \/ pc[r] = "opened" /\ Entered(r) /\ Largest(r) # 1

Dates(r) ==
    \/ BeginDump(r) /\ disk' = [disk EXCEPT !.time = Missing]
    \/ TimeFile(r) /\ disk' = [disk EXCEPT !.time = Torn]
    \/ TimeClose(r) /\ disk' = [disk EXCEPT !.time = Whole(mem[r][1])]

LEMMA DiskChanges ==
    ASSUME NEW b, Telling(b), NEW r \in Rank, Step(r)
    PROVE  disk' = disk \/ (r = Root /\ Dates(r)) \/ \E Q : Renews(r, Q)
<1>1. /\ Types /\ KindsFit /\ Contained /\ Course /\ OnClaims(b) /\ Suits(r)
      /\ Fits(layout, pc[r], file[r], err[r]) /\ Root \in Rank
      /\ {r} \in SUBSET Rank /\ Rank \in SUBSET Rank
  BY StoryFacts
<1>2. Gather(r) => Largest(r) = 0
  <2> SUFFICES ASSUME Gather(r) PROVE Largest(r) = 0
    OBVIOUS
  <2>1. pc[r] = "alloc" /\ Entered(r)
    BY DEF Gather
  <2>2. How(Loci[r]) = "largest"
    BY <1>1, <2>1, Whereabouts DEF How
  <2> QED  BY <1>1, <2>1, <2>2, AllSucceed DEF Returned, Value
<1>3. CASE Advance(r) \/ StepLeave(r) \/ LoopEnd(r) \/ BeginLeave(r)
             \/ BoundaryName(r) \/ FieldDims(r) \/ GatherAlloc(r) \/ OpenUnified(r)
  BY <1>3 DEF Advance, StepLeave, LoopEnd, BeginLeave, BoundaryName, FieldDims, GatherAlloc, OpenUnified
<1>4. CASE Sized(r) \/ ShareLeave(r) \/ Fin(r) \/ FinLeave(r) \/ TimeLeave(r)
             \/ BarrierLeave(r) \/ Report(r) \/ ReportLeave(r)
  BY <1>4 DEF Sized, ShareLeave, Fin, FinLeave, TimeLeave, BarrierLeave, Report, ReportLeave
<1>5. CASE ReadTime(r) \/ TimeStat(r) \/ TimeValues(r) \/ Read(r) \/ ReadLeave(r)
             \/ Resume(r) \/ ResumeLeave(r)
  BY <1>5 DEF ReadTime, TimeStat, TimeValues, Read, ReadLeave, Resume, ResumeLeave
<1>6. CASE BeginDump(r) \/ TimeFile(r)
  BY <1>6 DEF BeginDump, TimeFile, Dates
<1>7. CASE TimeClose(r)
  <2>1. r = Root
    BY <1>1, <1>7, Arrows DEF Suits
  <2> QED  BY <1>7, <2>1 DEF TimeClose, Dates
<1>8. CASE SharedFile(r)
  <2>1. CASE disk' = disk
    BY <2>1
  <2>2. CASE disk' # disk
    <3>1. r = Root /\ Tear(file[r], {r}) /\ Kind(file[r]) = "shared" /\ pc[r] = "file"
      BY <1>8, <2>2 DEF SharedFile, Open
    <3>2. {r} = Owned(r, file[r])
      BY <3>1 DEF Owned, Alone, Regions
    <3>3. Renews(r, {r})
      BY <1>1, <3>1, <3>2 DEF Renews, AtFile, Writing
    <3> QED  BY <3>3
  <2> QED  BY <2>1, <2>2
<1>9. CASE BoundaryOpen(r)
  <2>1. Tear(file[r], {r}) /\ Kind(file[r]) = "bnd" /\ pc[r] = "named"
    BY <1>1, <1>9 DEF BoundaryOpen, Open, Contained, Fits, Kind
  <2>2. {r} = Owned(r, file[r])
    BY <2>1 DEF Owned, Alone, Gridded
  <2>3. Renews(r, {r})
    BY <1>1, <2>1, <2>2 DEF Renews, AtFile, Writing
  <2> QED  BY <2>3
<1>10. CASE OpenOwn(r)
  <2>1. CASE disk' = disk
    BY <2>1
  <2>2. CASE disk' # disk
    <3>1. Tear(file[r], {r}) /\ layout.mode = "byprocess" /\ pc[r] = "dims"
          /\ Kind(file[r]) \in Gridded
      BY <1>1, <1>10, <2>2 DEF OpenOwn, Open, Fits, Kind
    <3>2. {r} = Owned(r, file[r])
      BY <3>1 DEF Owned, Alone, Gridded
    <3>3. Renews(r, {r})
      BY <1>1, <3>1, <3>2 DEF Renews, AtFile, Writing
    <3> QED  BY <3>3
  <2> QED  BY <2>1, <2>2
<1>11. CASE Gather(r)
  BY <1>2, <1>11 DEF Gather
<1>12. CASE Gathered(r)
  <2>1. CASE disk' = disk
    BY <2>1
  <2>2. CASE disk' # disk
    <3>1. r = Root /\ Tear(file[r], Rank) /\ layout.mode = "gather" /\ pc[r] = "gathered"
          /\ Kind(file[r]) \in Gridded
      BY <1>1, <1>12, <2>2 DEF Gathered, Open, Fits, Kind, Suits
    <3>2. Rank = Owned(r, file[r])
      BY <3>1 DEF Owned, Alone, Gridded, Regions
    <3>3. Renews(r, Rank)
      BY <1>1, <3>1, <3>2 DEF Renews, AtFile, Writing
    <3> QED  BY <3>3
  <2> QED  BY <2>1, <2>2
<1>13. CASE SetSize(r)
  <2>1. CASE disk' = disk
    BY <2>1
  <2>2. CASE disk' # disk
    <3>1. Tear(file[r], Rank) /\ pc[r] = "opened" /\ Entered(r) /\ Largest(r) # 1
      BY <1>13, <2>2 DEF SetSize
    <3>2. Renews(r, Rank)
      BY <1>1, <3>1 DEF Renews, AtFile, Writing
    <3> QED  BY <3>2
  <2> QED  BY <2>1, <2>2
<1>14. CASE Write(r)
  <2>1. CASE disk' = disk
    BY <2>1
  <2>2. CASE disk' # disk
    <3>1. PICK Q : /\ Fill(file[r], Q) /\ pc[r] = "write"
                   /\ Q = IF layout.mode = "gather" /\ Kind(file[r]) \in Gridded
                          THEN Rank ELSE {r}
      BY <1>14, <2>2 DEF Write
    <3>2. Alone(file[r]) => r = Root
      BY <1>1, <3>1 DEF Suits
    <3>3. Q = Owned(r, file[r])
      BY <3>1, <3>2 DEF Owned, Alone, Gridded, Regions
    <3>4. Q \in SUBSET Rank
      BY <1>1, <3>1
    <3>5. Renews(r, Q)
      BY <3>1, <3>3, <3>4 DEF Renews, AtFile, Writing
    <3> QED  BY <3>5
  <2> QED  BY <2>1, <2>2
<1> QED  BY <1>3, <1>4, <1>5, <1>6, <1>7, <1>8, <1>9, <1>10, <1>11, <1>12, <1>13, <1>14 DEF Step

\* The same, region by region.
LEMMA DiskFacts ==
    ASSUME NEW b, Telling(b), NEW r \in Rank, Step(r)
    PROVE  /\ disk'.time = disk.time \/ (r = Root /\ Dates(r))
           /\ Dates(r) => /\ pc[r] \in {"begin", "time", "time_write"}
                          /\ BeginDump(r) => disk'.time = Missing
                          /\ TimeFile(r) => disk'.time = Torn
                          /\ TimeClose(r) => disk'.time = Whole(mem[r][1])
                          /\ \A f \in 1 .. Count : \A x \in Rank :
                                disk'.part[f][x] = disk.part[f][x]
           /\ \A f \in 1 .. Count : \A x \in Rank :
                 \/ disk'.part[f][x] = disk.part[f][x]
                 \/ f = file[r] /\ pc[r] \in AtFile
                    /\ (x \in Owned(r, f) \/ (pc[r] = "opened" /\ Entered(r) /\ Largest(r) # 1))
<1>1. Types /\ KindsFit /\ Contained /\ file[r] \in 1 .. Count /\ Root \in Rank
      /\ disk \in [time : PartType, part : [1 .. Count -> [Rank -> PartType]]]
  BY StoryFacts DEF Types, TypeOK
<1>5. Dates(r) => /\ pc[r] \in {"begin", "time", "time_write"}
                  /\ BeginDump(r) => disk'.time = Missing
                  /\ TimeFile(r) => disk'.time = Torn
                  /\ TimeClose(r) => disk'.time = Whole(mem[r][1])
                  /\ \A f \in 1 .. Count : \A x \in Rank :
                        disk'.part[f][x] = disk.part[f][x]
  BY <1>1, Arrows DEF Dates
<1>2. CASE disk' = disk
  BY <1>2, <1>5
<1>3. CASE r = Root /\ Dates(r)
  BY <1>3, <1>5
<1>4. CASE \E Q : Renews(r, Q)
  <2>1. PICK Q \in SUBSET Rank : Renews(r, Q)
    BY <1>4 DEF Renews
  <2>2. pc[r] \in AtFile
    BY <2>1 DEF Renews
  <2>3. ~Dates(r)
    BY <1>1, <2>2, Arrows DEF Dates, AtFile, Writing
  <2>4. /\ disk'.time = disk.time
        /\ \A f \in 1 .. Count : \A x \in Rank :
              (f = file[r] /\ x \in Q) \/ disk'.part[f][x] = disk.part[f][x]
    <3>1. CASE Tear(file[r], Q)
      BY <1>1, <3>1, TearIs
    <3>2. CASE Fill(file[r], Q)
      BY <1>1, <3>2, FillIs
    <3> QED  BY <2>1, <3>1, <3>2 DEF Renews
  <2> QED  BY <1>5, <2>1, <2>2, <2>3, <2>4 DEF Renews
<1> QED  BY <1>2, <1>3, <1>4, DiskChanges

\* What a rank has stored stays, unless it is its own file at hand, or the unified file
\* that is brought to its size.
LEMMA StoredStays ==
    ASSUME NEW b, Telling(b), NEW r \in Rank, Step(r), NEW q \in Rank, NEW f \in 1 .. Count,
           Stored(q, f), mem'[q] = mem[q],
           \/ f # file[r]
           \/ q # r /\ ~(pc[r] = "opened" /\ Entered(r) /\ Largest(r) # 1)
    PROVE  Stored(q, f)'
<1>1. layout' = layout /\ Owned(q, f)' = Owned(q, f) /\ Owned(q, f) \subseteq Rank
  BY RootAssumption DEF Step, Owned, Alone, Kind, Regions
<1>2. \A x \in Owned(q, f) : disk'.part[f][x] = disk.part[f][x]
  <2> SUFFICES ASSUME NEW x \in Owned(q, f) PROVE disk'.part[f][x] = disk.part[f][x]
    OBVIOUS
  <2>1. q # r => x \notin Owned(r, f)
    BY DEF Owned
  <2> QED  BY <1>1, <2>1, DiskFacts
<1>3. Whole(mem'[q][1]) = Whole(mem[q][1])
  OBVIOUS
<1> QED  BY <1>1, <1>2, <1>3 DEF Stored, Whole

-------------------------------------------------------------------------------
(***************************************************************************)
(* What a rank holds.                                                      *)
(***************************************************************************)
\* A restart that goes on has found no failure on any rank.
LEMMA ResumedClean ==
    ASSUME NEW b, Telling(b), NEW r \in Rank, pc[r] = "resume_wait", Entered(r), Largest(r) # 1
    PROVE  err[r] = 0
<1>1. Course /\ Types /\ pc[r] \in Waits /\ err[r] \in Bit
  BY StoryFacts DEF Waits
<1>2. PICK n, p : p = Loci[r] /\ p = P(layout, "resume", 1, n, err[r])
  BY <1>1, RankFacts, LocusIs
<1>3. How(p) = "largest" /\ p.op = "resume" /\ p.e = err[r]
  BY <1>2, PlaceFields, PlaceParts
<1>4. Allowed(p, Largest(r))
  BY <1>1, <1>2, <1>3, Outcome DEF Course, Returned, Value
<1> QED  BY <1>1, <1>3, <1>4 DEF Allowed, Bit

\* What a rank reads is whole, and of the state that the time file names.
LEMMA ReadIsWhole ==
    ASSUME NEW b, Telling(b), NEW r \in Rank, ReadLeave(r)
    PROVE  /\ b \in Stamp /\ err'[r] = err[r]
           /\ mem'[r][file[r]] = b
           /\ \A f \in 1 .. Count : f # file[r] => mem'[r][f] = mem[r][f]
           /\ \/ pc'[r] = "resume" /\ file[r] = Count
              \/ pc'[r] = "read" /\ file'[r] = file[r] + 1 /\ file[r] # Count
<1>1. /\ pc[r] = "read_wait" /\ ReadReturned(r) /\ Types /\ KindsFit /\ Course /\ OnClaims(b)
      /\ Reads(b, r) /\ CommittedWhole /\ Root \in Rank /\ file[r] \in 1 .. Count
      /\ Kind(file[r]) \in Kinds
  BY StoryFacts DEF ReadLeave, Telling
<1>2. PICK n, p : p = Loci[r] /\ p = P(layout, "read", file[r], n, 0)
  BY <1>1, RankFacts, LocusIs
<1>3. How(p) = IF Kind(file[r]) = "shared" THEN "root" ELSE "largest"
  BY <1>2, PlaceParts DEF Kind
<1>4. ReadReturned(r) = Returned(r) /\ ReadResult(r) = Value(r)
  BY <1>2, <1>3 DEF ReadReturned, ReadResult, Returned, Value
<1>5. ReadResult(r) = 0
  BY <1>1, <1>4, AllSucceed
<1>6. b \in Stamp /\ disk.time = Whole(b)
  <2>1. b \in Stamp /\ b # None
    BY <1>1, BoundAssumption DEF Reads, Stamp, None
  <2> QED  BY <1>1, <2>1 DEF Reads, Reading
<1>7. PICK from : from = IF Kind(file[r]) = "shared" THEN Root ELSE r
  OBVIOUS
<1>8. disk.part[file[r]][from].of = b
  <2>1. from \in Regions(file[r])
    BY <1>1, <1>7 DEF Regions
  <2>2. disk.part[file[r]][from] = Whole(b)
    BY <1>1, <1>6, <2>1 DEF CommittedWhole, Whole
  <2> QED  BY <2>2 DEF Whole
<1>9. /\ mem' = [mem EXCEPT ![r][file[r]] = b]
      /\ IF file[r] = Count THEN Goto(r, "resume") /\ file' = file
         ELSE Goto(r, "read") /\ file' = [file EXCEPT ![r] = @ + 1]
      /\ err' = err
  BY <1>5, <1>7, <1>8 DEF ReadLeave
<1>10. pc \in [Rank -> Labels] /\ file \in [Rank -> 1 .. Count]
       /\ mem \in [Rank -> [1 .. Count -> Stamp \cup {None}]]
  BY <1>1, RankFacts DEF Types
<1>11. mem'[r] = [mem[r] EXCEPT ![file[r]] = b] /\ mem[r] \in [1 .. Count -> Stamp \cup {None}]
  BY <1>9, <1>10
<1>12. /\ mem'[r][file[r]] = b
       /\ \A f \in 1 .. Count : f # file[r] => mem'[r][f] = mem[r][f]
  BY <1>1, <1>11
<1> QED  BY <1>6, <1>9, <1>10, <1>12 DEF Goto

LEMMA HeldKept ==
    ASSUME NEW b, Telling(b), NEW r \in Rank, Step(r), NEW q \in Rank
    PROVE  Held(b, q)'
<1>1. /\ Types /\ KindsFit /\ Contained /\ Held(b, r) /\ Held(b, q) /\ Reads(b, r)
      /\ icnt[r] \in 0 .. StepMax /\ b \in Stamp \cup {None}
      /\ icnt \in [Rank -> 0 .. StepMax] /\ pc \in [Rank -> Labels] /\ err \in [Rank -> Bit]
  BY StoryFacts, RankFacts
<1>2. /\ Stamp' = Stamp /\ Count' = Count /\ layout' = layout /\ job' = job
      /\ \A n : StampAt(b, n)' = StampAt(b, n)
  BY DEF Step, Stamp, Count, StampAt
<1>3. ASSUME InStep(q), mem'[q] = mem[q], icnt'[q] = icnt[q]
      PROVE  Held(b, q)'
  BY <1>1, <1>2, <1>3 DEF Held, StampAt
<1>4. CASE q # r
  <2>1. mem'[q] = mem[q] /\ icnt'[q] = icnt[q] /\ pc'[q] = pc[q] /\ err'[q] = err[q]
    BY <1>1, <1>4, OthersKeep
  <2>2. InStep(q)' => InStep(q)
    BY <2>1 DEF InStep, Resumed
  <2> QED  BY <1>3, <2>1, <2>2 DEF Held
<1>5. CASE q = r /\ Advance(r)
  <2>1. pc[r] = "loop" /\ icnt'[r] = icnt[r] + 1
        /\ mem' = [mem EXCEPT ![r] = [f \in 1 .. Count |-> <<job, icnt[r] + 1>>]]
    BY <1>1, <1>5 DEF Advance
  <2>2. InStep(r)
    BY <2>1 DEF InStep, Running, Labels, Restarting, Halted
  <2>3. b \in Stamp /\ b[2] <= icnt[r] /\ b[2] \in Nat
    BY <1>1, <2>2, BoundAssumption DEF Held, Stamp
  <2>4. b[2] <= icnt[r] + 1 /\ StampAt(b, icnt[r] + 1) = <<job, icnt[r] + 1>>
    BY <1>1, <2>3 DEF StampAt
  <2>5. mem'[r] = [f \in 1 .. Count |-> <<job, icnt[r] + 1>>]
    BY <1>1, <2>1 DEF Types
  <2>6. \A f \in 1 .. Count : mem'[r][f] = <<job, icnt[r] + 1>>
    BY <2>5
  <2> QED  BY <1>2, <1>5, <2>1, <2>3, <2>4, <2>6 DEF Held, StampAt
<1>6. CASE q = r /\ ReadLeave(r)
  <2>1. pc[r] = "read_wait" /\ icnt' = icnt
    BY <1>6 DEF ReadLeave
  <2>2. InStep(r)' => pc'[r] # "read"
    BY DEF InStep, Resumed, Running, Restarting
  <2>3. CASE pc'[r] = "read"
    BY <1>6, <2>2, <2>3 DEF Held
  <2>4. CASE pc'[r] # "read"
    <3>1. /\ b \in Stamp /\ mem'[r][file[r]] = b /\ file[r] = Count
          /\ \A f \in 1 .. Count : f # file[r] => mem'[r][f] = mem[r][f]
      BY <1>6, <2>4, ReadIsWhole
    <3>2. Count \in Nat /\ b[2] \in Nat
      BY <1>1, <3>1, RankFacts, BoundAssumption DEF Stamp
    <3>3. icnt[r] = b[2] /\ \A f \in 1 .. Count - 1 : mem[r][f] = b
      BY <1>1, <2>1, <3>1 DEF Reads
    <3>4. \A f \in 1 .. Count : mem'[r][f] = b
      <4> SUFFICES ASSUME NEW f \in 1 .. Count PROVE mem'[r][f] = b
        OBVIOUS
      <4>1. f # Count => f \in 1 .. Count - 1
        BY <3>2
      <4> QED  BY <3>1, <3>3, <4>1
    <3> QED  BY <1>2, <1>6, <2>1, <3>1, <3>2, <3>3, <3>4 DEF Held, StampAt
  <2> QED  BY <2>3, <2>4
<1>7. CASE q = r /\ ~Advance(r) /\ ~ReadLeave(r) /\ pc[r] \in Running
  <2>1. mem' = mem /\ icnt' = icnt
    <3>1. CASE pc[r] = "loop"
      <4>1. LoopEnd(r)
        BY <1>1, <1>7, <3>1, Arrows DEF Step
      <4> QED  BY <4>1 DEF LoopEnd
    <3>2. CASE pc[r] # "loop"
      BY <1>1, <1>7, <3>2, OwnKeeps DEF Running, Restarting
    <3> QED  BY <3>1, <3>2
  <2> QED  BY <1>3, <1>7, <2>1 DEF InStep
<1>8. CASE q = r /\ ~ReadLeave(r) /\ pc[r] \in Restarting
  <2>1. InStep(r)' => InStep(r) /\ pc[r] \in {"resume", "resume_wait"}
    <3>1. CASE pc[r] = "resume"
      <4>1. Resume(r)
        BY <1>1, <3>1, Arrows DEF Step
      <4>2. pc'[r] = "resume_wait" /\ err' = err
        BY <1>1, <4>1 DEF Resume, Goto
      <4> QED  BY <3>1, <4>2 DEF InStep, Resumed, Running, Restarting
    <3>2. CASE pc[r] = "resume_wait"
      <4>1. ResumeLeave(r)
        BY <1>1, <3>2, Arrows DEF Step
      <4>2. CASE Largest(r) = 1
        <5>1. pc'[r] = "aborted"
          BY <1>1, <4>1, <4>2 DEF ResumeLeave, Goto
        <5> QED  BY <5>1 DEF InStep, Resumed, Running, Halted
      <4>3. CASE Largest(r) # 1
        BY <3>2, <4>1, <4>3, ResumedClean DEF ResumeLeave, InStep, Resumed
      <4> QED  BY <4>2, <4>3
    <3>3. CASE pc[r] = "time_read"
      <4>1. TimeStat(r)
        BY <1>1, <3>3, Arrows DEF Step
      <4>2. pc'[r] = "values" \/ (pc'[r] = "resume" /\ err'[r] = 1)
        BY <1>1, <4>1 DEF TimeStat, GiveUp, Goto, Code
      <4> QED  BY <4>2 DEF InStep, Resumed, Running, Restarting
    <3>4. CASE pc[r] \in {"restart", "values", "read"}
      <4>1. pc'[r] \in {"time_read", "read", "read_wait"}
        BY <1>1, <3>4, Arrows DEF Step
      <4> QED  BY <4>1 DEF InStep, Resumed, Running, Restarting
    <3>5. pc[r] # "read_wait"
      BY <1>1, <1>8, Arrows DEF Step
    <3> QED  BY <1>8, <3>1, <3>2, <3>3, <3>4, <3>5 DEF Restarting
  <2>2. CASE InStep(r)'
    <3>1. mem' = mem /\ icnt' = icnt
      BY <1>1, <2>1, <2>2, OwnKeeps
    <3> QED  BY <1>3, <1>8, <2>1, <2>2, <3>1
  <2>3. CASE ~InStep(r)'
    BY <1>8, <2>3 DEF Held
  <2> QED  BY <2>2, <2>3
<1>9. pc[r] \in Running \cup Restarting /\ (Advance(r) => pc[r] \in Running)
  BY <1>1, Arrows DEF Step, Running, Labels, Restarting, Halted
<1> QED  BY <1>4, <1>5, <1>6, <1>7, <1>8, <1>9

\* While a rank reads, the time file stays what it is.
LEMMA ReadsUndisturbed ==
    ASSUME NEW b, Telling(b), NEW r \in Rank, Step(r), NEW q \in Rank, pc[q] \in Reading
    PROVE  disk'.time = disk.time
<1>1. Course
  BY StoryFacts
<1>2. CASE r = Root /\ Dates(r)
  <2>1. pc[Root] \in {"begin", "time", "time_write"}
    BY <1>2, DiskFacts
  <2>2. pc[q] \notin Reading
    BY <1>1, <2>1, NobodyReads, AllHaveWritten DEF Reading
  <2> QED  BY <2>2
<1> QED  BY <1>2, DiskFacts

\* Rank 0 tells the state from which the job is to go on, or that there is none.
LEMMA RootTells ==
    ASSUME NEW b, Telling(b), NEW r \in Rank, pc[r] \in {"time_read", "values"}, RootEntered(r)
    PROVE  /\ pc[r] = "time_read" => FromRoot(r) = IF b = None THEN 1 ELSE 0
           /\ pc[r] = "values" => FromRoot(r) = b[2]
<1>1. Course /\ Types /\ OnClaims(b) /\ pc[r] \in Waits /\ Root \in Rank
  BY StoryFacts DEF Waits
<1>2. PICK t : t = <<Loci[r], Root, FromRoot(r)>>
  OBVIOUS
<1>3. t \in Claims(b)
  BY <1>1, <1>2, Heard DEF RootEntered, FromRoot
<1>4. Loci[r].op = pc[r]
  BY <1>1, RankFacts, LocusIs, PlaceFields
<1> QED  BY <1>2, <1>3, <1>4 DEF Claims

LEMMA ReadsKept ==
    ASSUME NEW b, Telling(b), NEW r \in Rank, Step(r), NEW q \in Rank
    PROVE  Reads(b, q)'
<1>1. /\ Types /\ KindsFit /\ Contained /\ Reads(b, q) /\ Root \in Rank
      /\ Fits(layout, pc[q], file[q], err[q]) /\ file[q] \in 1 .. Count
      /\ b \in Stamp \cup {None} /\ TimeFileWhole /\ Stamp' = Stamp
      /\ file \in [Rank -> 1 .. Count]
      /\ icnt \in [Rank -> 0 .. StepMax] /\ pc \in [Rank -> Labels] /\ err \in [Rank -> Bit]
  BY StoryFacts, RankFacts DEF Telling, Stamp
<1>2. pc[q] \in Reading => disk'.time = disk.time
  BY ReadsUndisturbed
<1>3. CASE q # r
  <2>1. /\ mem'[q] = mem[q] /\ icnt'[q] = icnt[q] /\ pc'[q] = pc[q] /\ err'[q] = err[q]
        /\ file'[q] = file[q]
    BY <1>1, <1>3, OthersKeep
  <2>2. q = Root => disk'.time = disk.time
    BY <1>3, DiskFacts
  <2> QED  BY <1>1, <1>2, <2>1, <2>2 DEF Reads, Resumed
<1>4. CASE q = r /\ pc[r] \in Running
  <2>1. pc'[r] \notin Reading /\ ~Resumed(r)'
    BY <1>1, <1>4, Arrows DEF Step, Running, Restarting, Halted, Reading, Resumed
  <2> QED  BY <1>4, <2>1 DEF Reads, Reading
<1>5. CASE q = r /\ pc[r] = "restart"
  <2>1. ReadTime(r) /\ pc'[r] = "time_read" /\ disk' = disk
    BY <1>1, <1>5, Arrows DEF Step, ReadTime
  <2>2. disk.time = IF b = None THEN Missing ELSE Whole(b)
    BY <1>1, <1>5 DEF Reads, Reading
  <2>3. r = Root /\ b # None => icnt'[r] = b[2]
    BY <1>1, <2>1, <2>2 DEF ReadTime, Whole
  <2> QED  BY <1>5, <2>1, <2>2, <2>3 DEF Reads, Resumed
<1>6. CASE q = r /\ pc[r] = "time_read"
  <2>1. TimeStat(r) /\ RootEntered(r) /\ disk' = disk /\ icnt' = icnt
    BY <1>1, <1>6, Arrows DEF Step, TimeStat
  <2>2. FromRoot(r) = IF b = None THEN 1 ELSE 0
    BY <1>6, <2>1, RootTells
  <2>3. disk.time = IF b = None THEN Missing ELSE Whole(b)
    BY <1>1, <1>6 DEF Reads, Reading
  <2>4. CASE b = None
    <3>1. pc'[r] = "resume" /\ err'[r] = 1
      BY <1>1, <2>1, <2>2, <2>4 DEF TimeStat, GiveUp, Goto, Code
    <3> QED  BY <1>6, <3>1 DEF Reads, Reading, Resumed
  <2>5. CASE b # None
    <3>1. pc'[r] = "values" /\ b \in Stamp
      BY <1>1, <2>1, <2>2, <2>5 DEF TimeStat, Goto
    <3>2. r = Root => icnt'[r] = b[2]
      BY <1>1, <1>6, <2>1, <2>5 DEF Reads
    <3> QED  BY <1>1, <1>6, <2>1, <2>3, <3>1, <3>2 DEF Reads, Resumed
  <2> QED  BY <2>4, <2>5
<1>7. CASE q = r /\ pc[r] = "values"
  <2>1. TimeValues(r) /\ RootEntered(r) /\ disk' = disk /\ file' = file /\ pc'[r] = "read"
    BY <1>1, <1>7, Arrows DEF Step, TimeValues
  <2>2. FromRoot(r) = b[2]
    BY <1>7, <2>1, RootTells
  <2>3. icnt'[r] = b[2] /\ file'[r] = 1
    BY <1>1, <1>7, <2>1, <2>2 DEF TimeValues, Fits
  <2>4. disk.time = (IF b = None THEN Missing ELSE Whole(b)) /\ b \in Stamp
    BY <1>1, <1>7 DEF Reads, Reading
  <2> QED  BY <1>1, <1>7, <2>1, <2>3, <2>4 DEF Reads, Resumed
<1>8. CASE q = r /\ pc[r] = "read"
  <2>1. Read(r) /\ UNCHANGED <<disk, file, mem, icnt>> /\ pc'[r] = "read_wait"
    BY <1>1, <1>8, Arrows DEF Step, Read
  <2> QED  BY <1>1, <1>8, <2>1 DEF Reads, Reading, Resumed
<1>9. CASE q = r /\ pc[r] = "read_wait"
  <2>1. ReadLeave(r) /\ UNCHANGED <<disk, icnt>>
    BY <1>1, <1>9, Arrows DEF Step, ReadLeave
  <2>2. /\ b \in Stamp /\ mem'[r][file[r]] = b
        /\ \A f \in 1 .. Count : f # file[r] => mem'[r][f] = mem[r][f]
        /\ \/ pc'[r] = "resume" /\ file[r] = Count
           \/ pc'[r] = "read" /\ file'[r] = file[r] + 1 /\ file[r] # Count
    BY <2>1, ReadIsWhole
  <2>3. /\ disk.time = IF b = None THEN Missing ELSE Whole(b)
        /\ icnt[r] = b[2] /\ \A f \in 1 .. file[r] - 1 : mem[r][f] = b
    BY <1>1, <1>9 DEF Reads, Reading
  <2>4. b # None
    BY <2>2, BoundAssumption DEF Stamp, None
  <2>5. CASE pc'[r] = "resume"
    BY <1>9, <2>1, <2>3, <2>4, <2>5 DEF Reads, Reading
  <2>6. CASE pc'[r] = "read"
    <3>1. file'[r] = file[r] + 1 /\ file[r] \in 1 .. Count /\ Count \in Nat
      BY <1>1, <1>9, <2>2, <2>6, RankFacts
    <3>2. \A f \in 1 .. file'[r] - 1 : mem'[r][f] = b
      <4> SUFFICES ASSUME NEW f \in 1 .. file'[r] - 1 PROVE mem'[r][f] = b
        OBVIOUS
      <4>1. f = file[r] \/ f \in 1 .. file[r] - 1
        BY <3>1
      <4>2. f \in 1 .. Count
        BY <3>1
      <4> QED  BY <2>2, <2>3, <4>1, <4>2
    <3> QED  BY <1>1, <1>9, <2>1, <2>2, <2>3, <2>6, <3>2 DEF Reads, Resumed
  <2> QED  BY <2>2, <2>5, <2>6
<1>10. CASE q = r /\ pc[r] = "resume"
  <2>1. Resume(r) /\ UNCHANGED <<disk, err, icnt>> /\ pc'[r] = "resume_wait"
    BY <1>1, <1>10, Arrows DEF Step, Resume
  <2> QED  BY <1>1, <1>10, <2>1 DEF Reads, Reading, Resumed
<1>11. CASE q = r /\ pc[r] = "resume_wait"
  <2>1. pc'[r] \in {"aborted", "loop"}
    BY <1>1, <1>11, Arrows DEF Step
  <2> QED  BY <1>11, <2>1 DEF Reads, Reading, Resumed
<1>12. pc[r] \in Running \cup Restarting
  BY <1>1, Arrows DEF Step, Running, Labels, Restarting, Halted
<1> QED  BY <1>3, <1>4, <1>5, <1>6, <1>7, <1>8, <1>9, <1>10, <1>11, <1>12 DEF Restarting

-------------------------------------------------------------------------------
(***************************************************************************)
(* The time file, and what vouches for it.                                 *)
(***************************************************************************)
\* A rank that has something to write finds that the time file stays away.
LEMMA WithdrawnStays ==
    ASSUME NEW b, Telling(b), NEW r \in Rank, Step(r), NEW q \in Rank, pc[q] \in Writing, q # r
    PROVE  disk'.time = disk.time \/ disk'.time = Missing
<1>1. Course
  BY StoryFacts
<1>2. CASE r = Root /\ Dates(r)
  <2>1. pc[Root] \in {"begin", "time", "time_write"}
    BY <1>2, DiskFacts
  <2>2. pc[Root] = "begin"
    BY <1>1, <2>1, AllHaveWritten DEF Writing
  <2>3. BeginDump(r)
    BY <1>2, <2>2 DEF Dates, TimeFile, TimeClose
  <2> QED  BY <1>2, <2>3, DiskFacts
<1> QED  BY <1>2, DiskFacts

LEMMA WithdrawnKept ==
    ASSUME NEW b, Telling(b), NEW r \in Rank, Step(r), NEW q \in Rank
    PROVE  Withdrawn(q)'
<1>1. /\ Course /\ Types /\ KindsFit /\ Contained /\ Withdrawn(q) /\ Withdrawn(Root)
      /\ Root \in Rank /\ pc \in [Rank -> Labels]
  BY StoryFacts, RankFacts
<1>2. Missing' = Missing
  BY DEF Missing, None
<1>3. CASE q # r
  <2>1. pc'[q] = pc[q]
    BY <1>1, <1>3, OthersKeep
  <2>2. pc[q] \in Writing => disk'.time = Missing
    BY <1>1, <1>3, WithdrawnStays DEF Withdrawn
  <2>3. q = Root => disk'.time = disk.time
    BY <1>3, DiskFacts
  <2>4. CASE q = Root /\ pc[q] = "unlinked"
    <3>1. Len(calls[q]) > 0
      BY <1>1, <2>4, InCall DEF Waits
    <3>2. LastCall(q)' = LastCall(q)
      BY <1>1, <1>3, <3>1, OthersSaid
    <3> QED  BY <1>1, <1>2, <2>1, <2>3, <2>4, <3>2 DEF Withdrawn, Writing
  <2>5. CASE ~(q = Root /\ pc[q] = "unlinked")
    BY <1>1, <1>2, <2>1, <2>2, <2>3, <2>5 DEF Withdrawn
  <2> QED  BY <2>4, <2>5
<1>4. CASE q = r /\ pc[r] \in Writing
  <2>1. disk.time = Missing /\ disk'.time = disk.time
    BY <1>1, <1>4, DiskFacts DEF Withdrawn, Writing
  <2> QED  BY <1>2, <1>4, <2>1 DEF Withdrawn
<1>5. CASE q = r /\ pc[r] = "begin"
  <2>1. BeginDump(r) /\ pc'[r] = "unlinked"
    BY <1>1, <1>5, Arrows DEF Step
  <2>2. CASE r = Root /\ disk'.time # Missing
    <3>1. Enter(r, "unlink", 1)
      BY <2>1, <2>2, DiskFacts DEF BeginDump, Dates
    <3>2. LastCall(r)' = [op |-> "unlink", value |-> 1]
      <4>1. "unlink" \in Ops /\ 1 \in Nat
        BY DEF Ops
      <4> QED  BY <1>1, <3>1, <4>1, Said
    <3> QED  BY <1>2, <1>5, <2>1, <3>2 DEF Withdrawn, Writing
  <2>3. CASE r # Root \/ disk'.time = Missing
    BY <1>2, <1>5, <2>1, <2>3 DEF Withdrawn, Writing
  <2> QED  BY <2>2, <2>3
<1>6. CASE q = r /\ pc[r] = "unlinked"
  <2>1. BeginLeave(r) /\ RootEntered(r) /\ disk' = disk
    BY <1>1, <1>6, Arrows DEF Step, BeginLeave
  <2>2. CASE FromRoot(r) = 1
    <3>1. pc'[r] = "report"
      BY <1>1, <2>1, <2>2 DEF BeginLeave, Goto
    <3> QED  BY <1>6, <3>1 DEF Withdrawn, Writing
  <2>3. CASE FromRoot(r) # 1
    BY <1>1, <1>2, <1>6, <2>1, <2>3, TimeFileGone DEF Withdrawn
  <2> QED  BY <2>2, <2>3
<1>7. CASE q = r /\ pc[r] = "fin_wait"
  <2>1. pc'[r] \in {"report", "time"} /\ disk' = disk
    BY <1>1, <1>7, Arrows DEF Step, FinLeave
  <2> QED  BY <1>1, <1>2, <1>7, <2>1 DEF Withdrawn, Writing
<1>8. CASE q = r /\ pc[r] \notin Writing \cup {"begin", "unlinked", "fin_wait"}
  <2>1. pc'[r] \notin Writing \cup {"fin_wait", "time", "unlinked"}
    BY <1>1, <1>8, Arrows DEF Step, Writing
  <2> QED  BY <1>8, <2>1 DEF Withdrawn
<1> QED  BY <1>3, <1>4, <1>5, <1>6, <1>7, <1>8

LEMMA TimeFileKept ==
    ASSUME NEW b, Telling(b), NEW r \in Rank, Step(r)
    PROVE  TimeFileWhole'
<1>1. /\ Types /\ KindsFit /\ Contained /\ Noticed /\ TimeFileWhole /\ Held(b, r)
      /\ Root \in Rank /\ icnt[r] \in 0 .. StepMax /\ Count \in Nat \ {0} /\ job \in 1 .. JobMax
      /\ pc \in [Rank -> Labels]
  BY StoryFacts, RankFacts DEF Telling, Types, TypeOK
<1>2. Missing' = Missing /\ Torn' = Torn /\ Stamp' = Stamp /\ \A s : Whole(s)' = Whole(s)
  BY DEF Missing, Torn, None, Stamp, Whole
<1>3. Missing # Torn /\ \A s : Whole(s) # Torn /\ Whole(s) # Missing
  BY DEF Missing, Torn, Whole
<1>4. CASE r # Root
  <2>1. disk'.time = disk.time /\ pc'[Root] = pc[Root]
    BY <1>1, <1>4, DiskFacts, OthersKeep
  <2> QED  BY <1>1, <1>2, <2>1 DEF TimeFileWhole
<1>5. CASE r = Root /\ TimeFile(r)
  <2>1. CASE pc'[r] = "time_write"
    <3>1. Dates(r)
      BY <1>1, <1>5, <2>1 DEF TimeFile, Goto, Dates
    <3> QED  BY <1>2, <1>3, <1>5, <2>1, <3>1, DiskFacts DEF TimeFileWhole
  <2>2. CASE pc'[r] # "time_write"
    <3>1. disk' = disk /\ pc[r] = "time"
      BY <1>1, <1>5, <2>2 DEF TimeFile, Goto
    <3> QED  BY <1>1, <1>2, <1>3, <1>5, <2>2, <3>1 DEF TimeFileWhole
  <2> QED  BY <2>1, <2>2
<1>6. CASE r = Root /\ TimeClose(r)
  <2>1. disk' = [disk EXCEPT !.time = Whole(mem[r][1])]
    BY <1>1, <1>6 DEF TimeClose, Noticed
  <2>2. disk'.time = Whole(mem[r][1])
    BY <1>6, <2>1, DiskFacts DEF Dates
  <2>3. pc[r] = "time_write" /\ pc'[r] = "time_wait"
    BY <1>1, <1>6, Arrows
  <2>4. mem[r][1] \in Stamp
    <3>1. InStep(r) /\ 1 \in 1 .. Count
      BY <1>1, <2>3 DEF InStep, Running, Labels, Restarting, Halted
    <3>2. mem[r][1] = StampAt(b, icnt[r]) /\ b \in Stamp
      BY <1>1, <3>1 DEF Held
    <3> QED  BY <1>1, <3>2 DEF StampAt, Stamp
  <2> QED  BY <1>2, <1>3, <1>6, <2>2, <2>3, <2>4 DEF TimeFileWhole
<1>7. CASE r = Root /\ ~TimeFile(r) /\ ~TimeClose(r)
  <2>1. pc[r] # "time_write" /\ pc'[r] # "time_write"
    BY <1>1, <1>7, Arrows DEF Step
  <2>2. disk'.time = disk.time \/ disk'.time = Missing
    BY <1>7, DiskFacts DEF Dates
  <2> QED  BY <1>1, <1>2, <1>3, <1>7, <2>1, <2>2 DEF TimeFileWhole
<1> QED  BY <1>4, <1>5, <1>6, <1>7

\* When the time file is written, every region of every file is whole and of one state.
LEMMA CommittedKept ==
    ASSUME NEW b, Telling(b), NEW r \in Rank, Step(r)
    PROVE  CommittedWhole'
<1>1. /\ Types /\ KindsFit /\ Contained /\ Noticed /\ CommittedWhole /\ Course
      /\ Root \in Rank /\ Count \in Nat \ {0} /\ b \in Stamp \cup {None}
      /\ \A q \in Rank : Held(b, q) /\ Stores(q) /\ Withdrawn(q)
  BY StoryFacts, RankFacts DEF Telling
<1>2. /\ Count' = Count /\ (\A s : Whole(s)' = Whole(s))
      /\ \A f : Regions(f)' = Regions(f) /\ Regions(f) \subseteq Rank
  BY <1>1 DEF Step, Count, Whole, Regions, Kind
<1>3. CASE disk'.time = disk.time
  <2>1. CASE pc[r] \in AtFile
    <3>1. disk'.time.state # "whole"
      BY <1>1, <1>3, <2>1 DEF Withdrawn, AtFile, Missing
    <3> QED  BY <3>1 DEF CommittedWhole
  <2>2. CASE pc[r] \notin AtFile
    <3>1. \A f \in 1 .. Count : \A x \in Rank : disk'.part[f][x] = disk.part[f][x]
      BY <2>2, DiskFacts
    <3> QED  BY <1>1, <1>2, <1>3, <3>1 DEF CommittedWhole
  <2> QED  BY <2>1, <2>2
<1>4. CASE disk'.time # disk.time
  <2>1. r = Root /\ Dates(r)
    BY <1>4, DiskFacts
  <2>2. CASE ~TimeClose(r)
    <3>1. disk'.time \in {Missing, Torn}
      BY <2>1, <2>2, DiskFacts DEF Dates
    <3> QED  BY <3>1 DEF CommittedWhole, Missing, Torn
  <2>3. CASE TimeClose(r)
    <3>1. PICK s : s = StampAt(b, icnt[Root])
      OBVIOUS
    <3>2. pc[Root] = "time_write" /\ 1 \in 1 .. Count
      BY <1>1, <2>1, <2>3, Arrows
    <3>3. ASSUME NEW q \in Rank, NEW f \in 1 .. Count PROVE Stored(q, f) /\ mem[q][1] = s
      <4>1. /\ icnt[q] = icnt[Root]
            /\ \/ pc[q] \in {"time", "time_write", "time_wait"}
               \/ pc[q] = "fin_wait" /\ err[q] = 0
        BY <1>1, <3>2, AllHaveWritten
      <4>2. InStep(q)
        BY <4>1 DEF InStep, Running, Labels, Restarting, Halted
      <4>3. mem[q][1] = s
        BY <1>1, <3>1, <3>2, <4>1, <4>2 DEF Held
      <4> QED  BY <1>1, <4>1, <4>3 DEF Stores
    <3>4. disk'.time = Whole(s)
      BY <1>1, <2>1, <2>3, <3>2, <3>3, DiskFacts
    <3>5. ASSUME NEW f \in 1 .. Count, NEW x \in Regions(f)
          PROVE  disk'.part[f][x] = Whole(s)
      <4>1. x \in Rank /\ disk'.part[f][x] = disk.part[f][x]
        BY <1>2, <2>1, DiskFacts
      <4>2. PICK q \in Rank : x \in Owned(q, f)
        BY <1>1, <4>1 DEF Owned
      <4>3. disk.part[f][x] = Whole(mem[q][1])
        BY <3>3, <4>2 DEF Stored
      <4> QED  BY <3>3, <4>1, <4>3
    <3>6. Whole(s).of = s
      BY DEF Whole
    <3> QED  BY <1>2, <3>4, <3>5, <3>6 DEF CommittedWhole
  <2> QED  BY <2>2, <2>3
<1> QED  BY <1>3, <1>4

-------------------------------------------------------------------------------
(***************************************************************************)
(* Where the ranks are, and their return codes.                            *)
(***************************************************************************)
LEMMA SuitsKept ==
    ASSUME NEW b, Telling(b), NEW r \in Rank, Step(r), NEW q \in Rank
    PROVE  Suits(q)'
<1>1. /\ Types /\ KindsFit /\ Contained /\ Suits(q) /\ Root \in Rank
      /\ Fits(layout, pc[q], file[q], err[q]) /\ pc \in [Rank -> Labels]
  BY StoryFacts, RankFacts
<1>2. layout' = layout /\ \A f : Alone(f)' <=> Alone(f)
  BY DEF Step, Alone, Kind
<1>3. CASE q # r
  BY <1>1, <1>2, <1>3, OthersKeep DEF Suits
<1>4. CASE q = r /\ pc'[r] \in {"alloc", "gathered", "opened", "sized"}
  <2>1. GatherAlloc(r) \/ Gather(r) \/ OpenUnified(r) \/ SetSize(r)
    BY <1>1, <1>4, Arrows DEF Step
  <2>2. \/ pc'[r] \in {"alloc", "gathered"} /\ layout.mode = "gather"
        \/ pc'[r] \in {"opened", "sized"} /\ layout.mode = "mpi"
    BY <1>1, <1>4, <2>1, Arrows DEF GatherAlloc, OpenUnified, Suits
  <2> QED  BY <1>2, <1>4, <2>2 DEF Suits
<1>5. CASE q = r /\ pc'[r] = "write"
  <2>1. SharedFile(r) \/ BoundaryOpen(r) \/ OpenOwn(r) \/ Gathered(r) \/ Sized(r)
    BY <1>1, <1>5, Arrows DEF Step
  <2>2. file'[r] = file[r]
    BY <1>1, <2>1, OwnKeeps, Arrows
  <2>3. CASE SharedFile(r) \/ Gathered(r)
    <3>1. r = Root
      BY <1>1, <1>5, <2>3 DEF SharedFile, Gathered, Share, Goto
    <3> QED  BY <1>5, <3>1 DEF Suits
  <2>4. CASE BoundaryOpen(r) \/ OpenOwn(r) \/ Sized(r)
    <3>1. pc[r] \in {"named", "dims", "sized"} /\ (pc[r] = "dims" => layout.mode = "byprocess")
      BY <2>4 DEF BoundaryOpen, OpenOwn, Sized
    <3>2. ~Alone(file[r])
      BY <1>1, <1>5, <3>1 DEF Fits, Alone, Kind, Gridded, Suits
    <3> QED  BY <1>2, <1>5, <2>2, <3>2 DEF Suits
  <2> QED  BY <2>1, <2>3, <2>4
<1>6. CASE q = r /\ pc'[r] = "time_write"
  <2>1. TimeFile(r)
    BY <1>1, <1>6, Arrows DEF Step
  <2>2. r = Root
    BY <1>1, <1>6, <2>1 DEF TimeFile, Goto
  <2> QED  BY <1>6, <2>2 DEF Suits
<1>7. CASE q = r /\ pc'[r] \notin {"alloc", "gathered", "opened", "sized", "write", "time_write"}
  BY <1>7 DEF Suits
<1> QED  BY <1>3, <1>4, <1>5, <1>6, <1>7

\* Every rank is told of the largest value that any of them has given.
LEMMA OwnIsHeard ==
    ASSUME NEW b, Telling(b), NEW r \in Rank, pc[r] \in Waits, Entered(r), How(Loci[r]) # "root"
    PROVE  LastCall(r).value \in 0 .. 2 /\ LastCall(r).value <= Largest(r) /\ Largest(r) \in 0 .. 2
BY StoryFacts, LargestIs, OwnIsGiven

LEMMA CodedKept ==
    ASSUME NEW b, Telling(b), NEW r \in Rank, Step(r), NEW q \in Rank
    PROVE  Coded(q)'
<1>1. /\ Course /\ Types /\ KindsFit /\ Contained /\ Coded(q) /\ err[r] \in Bit
      /\ pc \in [Rank -> Labels] /\ err \in [Rank -> Bit]
  BY StoryFacts, RankFacts
<1>2. err'[r] \in Bit /\ (Fails("grid", "open")' <=> Fails("grid", "open"))
  <2>1. Types'
    BY <1>1, CourseStep DEF Course
  <2> QED  BY <2>1 DEF Types, TypeOK, Fails
<1>3. CASE q # r
  <2>1. pc'[q] = pc[q] /\ err'[q] = err[q]
    BY <1>1, <1>3, OthersKeep
  <2>2. pc[q] = "opened" => LastCall(q)' = LastCall(q)
    BY <1>1, <1>3, InCall, OthersSaid DEF Waits
  <2> QED  BY <1>1, <1>2, <2>1, <2>2 DEF Coded
<1>4. CASE q = r /\ pc'[r] = "file"
  <2>1. BeginLeave(r) \/ Write(r) \/ ShareLeave(r)
    BY <1>1, <1>4, Arrows DEF Step
  <2>2. err'[r] # 1
    <3>1. CASE BeginLeave(r)
      BY <1>1, <1>4, <3>1 DEF BeginLeave, Goto, Code
    <3>2. CASE \E e : FileDone(r, e)
      BY <1>1, <1>4, <3>2, FileDoneIs
    <3>3. CASE ~BeginLeave(r) /\ ~\E e : FileDone(r, e)
      BY <1>1, <1>4, <2>1, <3>3 DEF ShareLeave, Write, Written, Share, Goto
    <3> QED  BY <3>1, <3>2, <3>3
  <2> QED  BY <1>2, <1>4, <2>2 DEF Coded, Bit
<1>5. CASE q = r /\ pc'[r] \in {"named", "dims", "alloc", "gathered", "write"}
  <2>1. pc[r] \in {"file", "named", "dims", "alloc", "gathered", "sized"} /\ pc'[r] # "opened"
    BY <1>1, <1>5, Arrows DEF Step
  <2>2. err[r] = 0 /\ err'[r] = err[r]
    BY <1>1, <1>5, <2>1, OwnKeeps DEF Coded, AtFile, Writing
  <2> QED  BY <1>5, <2>2 DEF Coded
<1>6. CASE q = r /\ pc'[r] = "sized"
  <2>1. SetSize(r) /\ pc[r] = "opened"
    BY <1>1, <1>6, Arrows DEF Step
  <2>2. Entered(r) /\ Largest(r) # 1 /\ err' = err
    BY <1>1, <1>6, <2>1 DEF SetSize, Share, Goto
  <2>3. How(Loci[r]) # "root" /\ pc[r] \in Waits
    BY <1>1, <2>1, Whereabouts DEF How, Waits
  <2>4. LastCall(r).value \in 0 .. 2 /\ LastCall(r).value <= Largest(r) /\ Largest(r) \in 0 .. 2
    BY <2>2, <2>3, OwnIsHeard
  <2>5. Allowed(Loci[r], Largest(r)) /\ Loci[r].op = "opened"
    BY <1>1, <2>1, <2>2, <2>3, Outcome, Whereabouts DEF Course, Returned, Value, How
  <2>6. Largest(r) = 0
    BY <2>2, <2>5 DEF Allowed, Vals, Bit
  <2>7. err[r] = 0
    BY <1>1, <1>6, <2>1, <2>4, <2>6 DEF Coded, Bit
  <2> QED  BY <1>6, <2>2, <2>7 DEF Coded
<1>7. CASE q = r /\ pc'[r] = "opened"
  <2>1. OpenUnified(r)
    BY <1>1, <1>7, Arrows DEF Step
  <2>2. PICK c \in Bit : /\ Enter(r, "opened", c) /\ Code(r, c)
                         /\ c = 1 => Fails("grid", "open")
    BY <2>1 DEF OpenUnified, Bit
  <2>3. LastCall(r)' = [op |-> "opened", value |-> c]
    <3>1. "opened" \in Ops /\ c \in Nat
      BY DEF Ops, Bit
    <3> QED  BY <1>1, <2>2, <3>1, Said
  <2>4. err'[r] = c
    BY <1>1, <2>2 DEF Code
  <2> QED  BY <1>2, <1>7, <2>2, <2>3, <2>4 DEF Coded
<1>8. CASE q = r /\ pc'[r] \notin {"file", "named", "dims", "alloc", "gathered", "write", "sized", "opened"}
  BY <1>8 DEF Coded, AtFile, Writing
<1> QED  BY <1>3, <1>4, <1>5, <1>6, <1>7, <1>8

-------------------------------------------------------------------------------
(***************************************************************************)
(* What the ranks have stored.                                             *)
(***************************************************************************)
\* What a rank that gets to the Allreduce of a file says there, and why.
LEMMA Sharing ==
    ASSUME NEW b, Telling(b), NEW r \in Rank, Step(r), pc'[r] = "share"
    PROVE  \E v \in Bit :
              /\ LastCall(r)' = [op |-> "share", value |-> v]
              /\ Len(calls'[r]) > 1 => Len(calls[r]) > 0 /\ PrevCall(r)' = LastCall(r)
              /\ file'[r] = file[r] /\ mem' = mem
              /\ pc[r] \in {"file", "dims", "gathered", "opened", "write"}
              /\ pc[r] = "opened" => v = err[r] /\ Entered(r) /\ Largest(r) = 1
              /\ pc[r] \in {"file", "dims", "gathered"} /\ v = 0 => Owned(r, file[r]) = {}
              /\ pc[r] = "write" /\ v = 0 => /\ Fill(file[r], Owned(r, file[r]))
                                             /\ Kind(file[r]) # "bnd"
              /\ Kind(file[r]) = "loose" => v = 0
<1>1. /\ Types /\ KindsFit /\ Contained /\ Course /\ OnClaims(b) /\ Suits(r)
      /\ Fits(layout, pc[r], file[r], err[r]) /\ Root \in Rank /\ err[r] \in Bit
      /\ pc \in [Rank -> Labels]
  BY StoryFacts, RankFacts
<1>2. /\ SharedFile(r) \/ OpenOwn(r) \/ Gather(r) \/ Gathered(r) \/ SetSize(r) \/ Write(r)
      /\ pc[r] \in {"file", "dims", "alloc", "gathered", "opened", "write"}
  BY <1>1, Arrows DEF Step
<1>3. mem' = mem
  BY <1>1, <1>2, OwnKeeps
<1>4. ASSUME NEW v \in Bit, Share(r, v)
      PROVE  /\ LastCall(r)' = [op |-> "share", value |-> v] /\ file'[r] = file[r]
             /\ Len(calls'[r]) > 1 => Len(calls[r]) > 0 /\ PrevCall(r)' = LastCall(r)
  <2>1. "share" \in Ops /\ v \in Nat /\ Enter(r, "share", v) /\ file' = file
    BY <1>4 DEF Ops, Bit, Share
  <2> QED  BY <1>1, <2>1, Said
<1>11. /\ Kind(file[r]) = "loose" => ~Fails("grid", "open") /\ ~Fails("loose", "write")
       /\ pc[r] = "opened" /\ err[r] = 1 => Fails("grid", "open")
  BY StoryFacts, RankFacts DEF Noticed, Kind, Count, Coded
<1>5. CASE SharedFile(r)
  <2>1. pc[r] = "file" /\ Kind(file[r]) = "shared"
    BY <1>5 DEF SharedFile
  <2>2. PICK v \in Bit : Share(r, v) /\ (v = 0 => r # Root)
    BY <1>1, <1>5 DEF SharedFile, Open, Goto, Bit
  <2>3. v = 0 => Owned(r, file[r]) = {}
    BY <2>1, <2>2 DEF Owned, Alone
  <2> QED  BY <1>3, <1>4, <2>1, <2>2, <2>3
<1>6. CASE OpenOwn(r)
  <2>1. pc[r] = "dims" /\ Share(r, 1) /\ 1 \in Bit /\ Kind(file[r]) # "loose"
    BY <1>1, <1>6, <1>11 DEF OpenOwn, Open, Goto, Bit
  <2> QED  BY <1>3, <1>4, <2>1
<1>7. CASE Gather(r)
  <2>1. pc[r] = "alloc" /\ Entered(r) /\ How(Loci[r]) = "largest"
    BY <1>1, <1>7, Whereabouts DEF Gather, How
  <2>2. Largest(r) = 0
    BY <1>1, <2>1, AllSucceed DEF Returned, Value
  <2>3. pc'[r] = "gathered"
    BY <1>1, <1>7, <2>2 DEF Gather, Goto
  <2> QED  BY <2>3
<1>8. CASE Gathered(r)
  <2>1. pc[r] = "gathered" /\ layout.mode = "gather" /\ Kind(file[r]) \in Gridded
    BY <1>1, <1>8 DEF Gathered, Suits, Fits, Kind
  <2>2. PICK v \in Bit : /\ Share(r, v) /\ (v = 0 => r # Root)
                         /\ v = 1 => Fails("grid", "open")
    BY <1>1, <1>8 DEF Gathered, Open, Goto, Bit
  <2>3. v = 0 => Owned(r, file[r]) = {}
    BY <2>1, <2>2 DEF Owned, Alone
  <2>4. Kind(file[r]) = "loose" => v = 0
    BY <1>11, <2>2 DEF Bit
  <2> QED  BY <1>3, <1>4, <2>1, <2>2, <2>3, <2>4
<1>9. CASE SetSize(r)
  <2>1. pc[r] = "opened" /\ Share(r, err[r]) /\ Entered(r) /\ Largest(r) = 1
    BY <1>1, <1>9 DEF SetSize, Goto
  <2>2. Kind(file[r]) = "loose" => err[r] = 0
    BY <1>1, <1>11, <2>1 DEF Bit
  <2> QED  BY <1>1, <1>3, <1>4, <2>1, <2>2
<1>10. CASE Write(r)
  <2>1. Kind(file[r]) # "bnd" /\ pc[r] = "write"
    <3>1. CASE FileDone(r, 0) \/ FileDone(r, 1)
      <4>1. pc'[r] \in {"fin", "file"}
        BY <1>1, <3>1, FileDoneIs
      <4> QED  BY <4>1
    <3>2. CASE ~(FileDone(r, 0) \/ FileDone(r, 1))
      BY <1>10, <3>2 DEF Write, Written
    <3> QED  BY <3>1, <3>2
  <2>2. Owned(r, file[r]) = IF layout.mode = "gather" /\ Kind(file[r]) \in Gridded
                            THEN Rank ELSE {r}
    <3>1. Alone(file[r]) => r = Root
      BY <1>1, <2>1 DEF Suits
    <3> QED  BY <2>1, <3>1 DEF Owned, Alone, Gridded, Regions
  <2>3. PICK v \in Bit : /\ Share(r, v) /\ (v = 0 => Fill(file[r], Owned(r, file[r])))
                         /\ v = 1 => Fails(Kind(file[r]), "write")
    BY <1>10, <2>1, <2>2 DEF Write, Written, Bit
  <2>4. Kind(file[r]) = "loose" => v = 0
    BY <1>11, <2>3 DEF Bit
  <2> QED  BY <1>3, <1>4, <2>1, <2>3, <2>4
<1> QED  BY <1>2, <1>5, <1>6, <1>7, <1>8, <1>9, <1>10

LEMMA OpenedIsLast ==
    \A q \in Rank : Course /\ pc[q] \in Waits /\ LastCall(q).op = "opened" => pc[q] = "opened"
BY InCall, Whereabouts DEF Course

LEMMA OpenedIsLastNext ==
    (\A q \in Rank : Course /\ pc[q] \in Waits /\ LastCall(q).op = "opened" => pc[q] = "opened")'
BY OpenedIsLast, PTL

LEMMA RecallsKept ==
    ASSUME NEW b, Telling(b), NEW r \in Rank, Step(r), NEW q \in Rank
    PROVE  Recalls(q)'
<1>1. /\ Course /\ Types /\ KindsFit /\ Contained /\ Recalls(q) /\ Coded(q)
      /\ pc \in [Rank -> Labels]
  BY StoryFacts, RankFacts
<1>2. CASE q # r
  <2>1. pc'[q] = pc[q]
    BY <1>1, <1>2, OthersKeep
  <2>2. /\ Len(calls'[q]) > 0 <=> Len(calls[q]) > 0
        /\ Len(calls'[q]) > 0 => LastCall(q)' = LastCall(q)
        /\ Len(calls'[q]) > 1 => Len(calls[q]) > 1 /\ PrevCall(q)' = PrevCall(q)
    BY <1>1, <1>2, OthersSaid
  <2>3. pc[q] = "share" => LastCall(q)' = LastCall(q)
    BY <1>1, <2>2, InCall DEF Waits
  <2> QED  BY <1>1, <2>1, <2>2, <2>3 DEF Recalls
<1>3. CASE q = r
  <2>1. Len(calls'[r]) > 0 /\ LastCall(r)'.op = "opened" => pc'[r] = "opened"
    <3>1. CASE pc'[r] \in Waits
      <4>1. Course'
        BY <1>1, CourseStep
      <4> QED  BY <3>1, <4>1, OpenedIsLastNext
    <3>2. CASE pc'[r] \notin Waits
      <4>1. Moves(r) /\ Inside \in [Rank -> BOOLEAN]
        BY <1>1, StepMoves, PathsTyped DEF Course
      <4>4. ~Inside'[r]
        BY <3>2 DEF Inside
      <4>2. calls' = calls
        BY <4>1, <4>4 DEF Moves, Along, Entering, Leaving, GoingOn, T!In
      <4>3. pc[r] # "opened"
        BY <1>1, <3>2, Arrows DEF Step, Waits
      <4> QED  BY <1>1, <1>3, <4>2, <4>3 DEF Recalls, LastCall
    <3> QED  BY <3>1, <3>2
  <2>2. ASSUME pc'[r] = "share", Len(calls'[r]) > 1, PrevCall(r)'.op = "opened"
        PROVE  PrevCall(r)'.value = LastCall(r)'.value
    <3>1. PICK v \in Bit :
             /\ LastCall(r)' = [op |-> "share", value |-> v]
             /\ Len(calls'[r]) > 1 => Len(calls[r]) > 0 /\ PrevCall(r)' = LastCall(r)
             /\ pc[r] = "opened" => v = err[r]
      BY <2>2, Sharing
    <3>2. pc[r] = "opened"
      BY <1>1, <1>3, <2>2, <3>1 DEF Recalls
    <3> QED  BY <1>1, <1>3, <2>2, <3>1, <3>2 DEF Coded
  <2> QED  BY <1>3, <2>1, <2>2 DEF Recalls
<1> QED  BY <1>2, <1>3

\* A rank that has written its regions of a file has stored them; rank 0 also those
\* that it has gathered.
LEMMA FilledIsStored ==
    ASSUME NEW b, Telling(b), NEW r \in Rank, pc[r] = "write", NEW f, f = file[r],
           Fill(f, Owned(r, f)), mem' = mem, layout' = layout
    PROVE  Stored(r, f)'
<1>1. /\ Course /\ Types /\ KindsFit /\ Root \in Rank /\ f \in 1 .. Count
      /\ (\A q \in Rank : Held(b, q)) /\ Kind(f) \in Kinds /\ Count \in Nat \ {0}
  BY StoryFacts, RankFacts
<1>2. Owned(r, f) \in SUBSET Rank
  BY <1>1 DEF Owned, Regions
<1>3. \A x \in Owned(r, f) : disk'.part[f][x] = Whole(mem[x][f])
  BY <1>1, <1>2, FillIs
<1>4. InStep(r) /\ 1 \in 1 .. Count
  BY <1>1 DEF InStep, Running, Labels, Restarting, Halted
<1>5. \A g \in 1 .. Count : mem[r][g] = StampAt(b, icnt[r])
  BY <1>1, <1>4 DEF Held
<1>6. ASSUME NEW x \in Owned(r, f) PROVE mem[x][f] = mem[r][1]
  <2>1. CASE x = r
    BY <1>1, <1>4, <1>5, <2>1
  <2>2. CASE x # r
    <3>1. r = Root /\ Kind(f) \in Gridded
      BY <1>1, <2>2 DEF Owned, Alone, Regions
    <3>2. icnt[x] = icnt[r] /\ pc[x] \in Running /\ x \in Rank
      BY <1>1, <1>2, <3>1, AllAtOneStep
    <3>3. mem[x][f] = StampAt(b, icnt[x])
      BY <1>1, <3>2 DEF Held, InStep
    <3> QED  BY <1>4, <1>5, <3>2, <3>3
  <2> QED  BY <2>1, <2>2
<1>7. Owned(r, f)' = Owned(r, f)
  BY DEF Owned, Alone, Kind, Regions
<1> QED  BY <1>3, <1>6, <1>7 DEF Stored, Whole

\* A rank that goes on to the next file, or to fin without an error, has stored the one
\* it leaves.
LEMMA DoneIsStored ==
    ASSUME NEW b, Telling(b), NEW r \in Rank, Step(r), NEW f, f = file[r],
           pc[r] \in {"write", "share"}, pc'[r] \in {"fin", "file"}, err'[r] = 0
    PROVE  /\ Stored(r, f)' /\ mem' = mem
           /\ pc'[r] = "file" => file'[r] = f + 1
           /\ pc'[r] = "fin" => f = Count
<1>1. /\ Course /\ Types /\ KindsFit /\ Contained /\ OnClaims(b) /\ Shares(r)
      /\ f \in 1 .. Count /\ Kind(f) \in Kinds /\ pc \in [Rank -> Labels]
      /\ layout' = layout /\ mem' = mem
  <2>1. mem' = mem
    BY StoryFacts, OwnKeeps
  <2> QED  BY <2>1, StoryFacts, RankFacts DEF Step
<1>2. ASSUME NEW e, FileDone(r, e), e = 0 \/ Kind(f) = "loose"
      PROVE  /\ pc'[r] = "file" => file'[r] = f + 1
             /\ pc'[r] = "fin" => f = Count
  BY <1>1, <1>2, FileDoneIs
<1>3. CASE pc[r] = "write"
  <2>1. Write(r)
    BY <1>1, <1>3, Arrows DEF Step
  <2>2. Kind(f) = "bnd"
    BY <1>1, <2>1 DEF Write, Written, Share, Goto
  <2>3. Fill(f, {r}) /\ FileDone(r, 0)
    BY <1>1, <2>1, <2>2 DEF Write, Written, Contained, Gridded
  <2>4. Owned(r, f) = {r}
    BY <2>2 DEF Owned, Alone, Gridded
  <2>5. Stored(r, f)'
    BY <1>1, <1>3, <2>3, <2>4, FilledIsStored
  <2> QED  BY <1>1, <1>2, <2>3, <2>5
<1>4. CASE pc[r] = "share"
  <2>1. /\ ShareLeave(r) /\ FileDone(r, Largest(r)) /\ Entered(r) /\ disk' = disk
        /\ How(Loci[r]) = "largest" /\ Loci[r].op = "share"
    BY <1>1, <1>4, Arrows, Whereabouts DEF Step, ShareLeave, How
  <2>2. Largest(r) = 0
    <3>1. CASE Kind(f) = "loose"
      BY <1>1, <1>4, <2>1, <3>1, AllSucceed DEF Returned, Value
    <3>2. CASE Kind(f) # "loose"
      BY <1>1, <2>1, <3>2, FileDoneIs
    <3> QED  BY <3>1, <3>2
  <2>3. LastCall(r).value = 0
    BY <1>4, <2>1, <2>2, OwnIsHeard DEF Waits
  <2>4. \A z \in Rank : ~Opposes(z, file[r])
    BY <1>1, <1>4, <2>1, <2>2, NobodyOpposes
  <2>5. Stored(r, f)
    BY <1>1, <1>4, <2>3, <2>4 DEF Shares
  <2>6. Stored(r, f)'
    <3>1. Owned(r, f)' = Owned(r, f)
      BY <1>1 DEF Owned, Alone, Kind, Regions
    <3> QED  BY <1>1, <2>1, <2>5, <3>1 DEF Stored, Whole
  <2> QED  BY <1>1, <1>2, <2>1, <2>2, <2>6
<1> QED  BY <1>3, <1>4

\* Outside of the functions for the files nothing is written of them.
LEMMA StoredOutside ==
    ASSUME NEW b, Telling(b), NEW r \in Rank, Step(r), NEW q \in Rank, NEW f \in 1 .. Count,
           Stored(q, f), mem'[q] = mem[q], pc[r] \notin AtFile
    PROVE  Stored(q, f)'
<1>1. layout' = layout /\ Owned(q, f)' = Owned(q, f) /\ Owned(q, f) \subseteq Rank
  BY RootAssumption DEF Step, Owned, Alone, Kind, Regions
<1>2. \A x \in Owned(q, f) : disk'.part[f][x] = disk.part[f][x]
  BY <1>1, DiskFacts
<1> QED  BY <1>1, <1>2 DEF Stored, Whole

LEMMA StoresKept ==
    ASSUME NEW b, Telling(b), NEW r \in Rank, Step(r), NEW q \in Rank
    PROVE  Stores(q)'
<1>1. /\ Course /\ Types /\ KindsFit /\ Contained /\ OnClaims(b) /\ Stores(q)
      /\ Fits(layout, pc[q], file[q], err[q]) /\ file[q] \in 1 .. Count
      /\ Kind(file[q]) \in Kinds /\ pc \in [Rank -> Labels] /\ err[q] \in Bit
      /\ Count' = Count /\ Count \in Nat
  BY StoryFacts, RankFacts DEF Step, Count
<1>2. CASE q # r
  <2>1. mem'[q] = mem[q] /\ pc'[q] = pc[q] /\ err'[q] = err[q] /\ file'[q] = file[q]
    BY <1>1, <1>2, OthersKeep
  <2>2. CASE pc[r] = "opened" /\ Entered(r) /\ Largest(r) # 1
    <3>1. pc[q] \in {"opened", "sized"} /\ file[q] = file[r]
      BY <1>1, <2>2, AllAtThisFile
    <3>2. ASSUME NEW f \in 1 .. file[q] - 1 PROVE Stored(q, f)'
      <4>1. f \in 1 .. Count /\ f # file[r]
        BY <1>1, <3>1
      <4>2. Stored(q, f)
        BY <1>1, <3>1 DEF Stores, AtFile, Writing
      <4> QED  BY <2>1, <4>1, <4>2, StoredStays
    <3> QED  BY <2>1, <3>1, <3>2 DEF Stores
  <2>3. CASE ~(pc[r] = "opened" /\ Entered(r) /\ Largest(r) # 1)
    <3>1. \A f \in 1 .. Count : Stored(q, f) => Stored(q, f)'
      BY <1>2, <2>1, <2>3, StoredStays
    <3>2. \A f \in 1 .. file[q] - 1 : f \in 1 .. Count
      BY <1>1
    <3> QED  BY <1>1, <2>1, <3>1, <3>2 DEF Stores
  <2> QED  BY <2>2, <2>3
<1>3. CASE q = r /\ pc[r] \in AtFile
  <2>1. mem' = mem /\ file[r] \in 1 .. Count
    BY <1>1, <1>3, OwnKeeps DEF AtFile, Writing
  <2>2. ASSUME NEW f \in 1 .. file[r] - 1 PROVE Stored(r, f)'
    <3>1. f \in 1 .. Count /\ f # file[r] /\ Stored(r, f)
      BY <1>1, <1>3 DEF Stores
    <3> QED  BY <2>1, <3>1, StoredStays
  <2>3. CASE pc'[r] \in {"fin", "file"} /\ pc[r] # "file" /\ err'[r] = 0
    <3>1. pc[r] \in {"write", "share"}
      BY <1>1, <1>3, <2>3, Arrows DEF Step, AtFile, Writing
    <3>2. PICK f : f = file[r]
      OBVIOUS
    <3>3. /\ Stored(r, f)' /\ (pc'[r] = "file" => file'[r] = f + 1)
          /\ (pc'[r] = "fin" => f = Count)
      BY <2>3, <3>1, <3>2, DoneIsStored
    <3>4. \A g \in 1 .. f : Stored(r, g)'
      <4> SUFFICES ASSUME NEW g \in 1 .. f PROVE Stored(r, g)'
        OBVIOUS
      <4>1. g = f \/ g \in 1 .. file[r] - 1
        BY <2>1, <3>2
      <4> QED  BY <2>2, <3>3, <4>1
    <3>5. CASE pc'[r] = "file"
      <4>1. file'[r] - 1 = f
        BY <2>1, <3>2, <3>3, <3>5
      <4> QED  BY <1>3, <3>4, <3>5, <4>1 DEF Stores
    <3>6. CASE pc'[r] = "fin"
      BY <1>1, <1>3, <3>3, <3>4, <3>6 DEF Stores, AtFile
    <3> QED  BY <2>3, <3>5, <3>6
  <2>4. CASE pc'[r] = "fin" /\ err'[r] # 0
    BY <1>3, <2>4 DEF Stores, AtFile
  <2>5. CASE pc'[r] = "fin" /\ pc[r] = "file"
    <3>1. BoundaryName(r) /\ Kind(file[r]) = "bnd" /\ FileDone(r, 1)
      BY <1>1, <2>5, Arrows DEF Step, BoundaryName, Goto
    <3>2. err'[r] = 1
      BY <1>1, <3>1, FileDoneIs
    <3> QED  BY <1>3, <2>5, <3>2 DEF Stores, AtFile
  <2>6. CASE pc'[r] = "file" /\ err'[r] # 0
    <3>1. Coded(r)'
      BY CodedKept
    <3> QED  BY <2>6, <3>1 DEF Coded, AtFile, Writing
  <2>7. CASE pc'[r] \notin {"fin", "file"}
    <3>1. file'[r] = file[r] /\ pc'[r] \in AtFile
      BY <1>1, <1>3, <2>7, OwnKeeps, Arrows DEF Step, AtFile, Writing
    <3> QED  BY <1>3, <2>2, <2>7, <3>1 DEF Stores, AtFile, Writing
  <2>8. pc[r] = "file" => pc'[r] # "file"
    BY <1>1, Arrows DEF Step
  <2> QED  BY <2>3, <2>4, <2>5, <2>6, <2>7, <2>8
<1>4. CASE q = r /\ pc[r] \in {"fin", "fin_wait", "time", "time_write", "time_wait"}
  <2>1. mem' = mem /\ pc[r] \notin AtFile
    BY <1>1, <1>4, OwnKeeps DEF AtFile, Writing
  <2>2. \A f \in 1 .. Count : Stored(r, f) => Stored(r, f)'
    BY <2>1, StoredOutside
  <2>3. CASE pc[r] = "fin"
    <3>1. pc'[r] = "fin_wait" /\ err'[r] = err[r]
      BY <1>1, <2>3, Arrows, OwnKeeps DEF Step, Writing
    <3> QED  BY <1>1, <1>4, <2>2, <2>3, <3>1 DEF Stores, AtFile, Writing
  <2>4. CASE pc[r] = "fin_wait"
    <3>1. FinLeave(r) /\ Entered(r)
      BY <1>1, <2>4, Arrows DEF Step, FinLeave
    <3>2. CASE Largest(r) = 1
      <4>1. pc'[r] = "report"
        BY <1>1, <3>1, <3>2 DEF FinLeave, Goto
      <4> QED  BY <1>4, <4>1 DEF Stores, AtFile, Writing
    <3>3. CASE Largest(r) # 1
      <4>1. pc'[r] = "time"
        BY <1>1, <3>1, <3>3 DEF FinLeave, Goto
      <4>2. Loci[r].op = "fin" /\ Loci[r].e = err[r] /\ How(Loci[r]) = "largest"
        BY <1>1, <2>4, Whereabouts DEF How
      <4>3. Allowed(Loci[r], Largest(r))
        BY <1>1, <2>4, <3>1, <4>2, Outcome DEF Course, Waits, Returned, Value
      <4>4. err[r] = 0
        BY <1>1, <1>4, <3>3, <4>2, <4>3 DEF Allowed, Bit
      <4> QED  BY <1>1, <1>4, <2>2, <2>4, <4>1, <4>4 DEF Stores, AtFile, Writing
    <3> QED  BY <3>2, <3>3
  <2>5. CASE pc[r] \in {"time", "time_write", "time_wait"}
    <3>1. pc'[r] \in {"time_write", "time_wait", "report", "barrier"}
      BY <1>1, <2>5, Arrows DEF Step
    <3> QED  BY <1>1, <1>4, <2>2, <2>5, <3>1 DEF Stores, AtFile, Writing
  <2> QED  BY <1>4, <2>3, <2>4, <2>5
<1>5. CASE q = r /\ pc[r] \notin AtFile \cup {"fin", "fin_wait", "time", "time_write", "time_wait"}
  <2>1. CASE pc'[r] = "file"
    <3>1. BeginLeave(r)
      BY <1>1, <1>5, <2>1, Arrows DEF Step, AtFile, Writing
    <3>2. file'[r] = 1
      BY <1>1, <1>5, <3>1 DEF BeginLeave, Fits
    <3> QED  BY <1>5, <2>1, <3>2 DEF Stores
  <2>2. CASE pc'[r] # "file"
    <3>1. pc'[r] \notin AtFile \cup {"fin", "fin_wait", "time", "time_write", "time_wait"}
      BY <1>1, <1>5, <2>2, Arrows DEF Step, AtFile, Writing
    <3> QED  BY <1>5, <3>1 DEF Stores
  <2> QED  BY <2>1, <2>2
<1> QED  BY <1>2, <1>3, <1>4, <1>5

-------------------------------------------------------------------------------
(***************************************************************************)
(* What the ranks report of it.                                            *)
(***************************************************************************)
LEMMA OpposesOther ==
    ASSUME Course, NEW r \in Rank, Step(r), NEW z \in Rank, z # r, NEW f, Opposes(z, f)
    PROVE  Opposes(z, f)'
<1>1. pc'[z] = pc[z] /\ file'[z] = file[z] /\ err'[z] = err[z]
  BY OthersKeep DEF Course
<1>2. pc[z] = "share" => LastCall(z)' = LastCall(z)
  BY InCall, OthersSaid DEF Waits
<1> QED  BY <1>1, <1>2 DEF Opposes

\* A rank that could not open the file keeps saying so as long as another one is in the
\* Allreduce of that file.
LEMMA OpposesStays ==
    ASSUME NEW b, Telling(b), NEW r \in Rank, Step(r), NEW f, Opposes(r, f),
           NEW q \in Rank, pc[q] = "share"
    PROVE  Opposes(r, f)'
<1>1. /\ Course /\ Types /\ KindsFit /\ Contained /\ Coded(r) /\ OnClaims(b)
      /\ pc \in [Rank -> Labels] /\ file[r] = f /\ err[r] \in Bit
  BY StoryFacts, RankFacts DEF Opposes
<1>2. CASE pc[r] = "opened"
  <2>1. err[r] = 1 /\ SetSize(r) /\ Entered(r)
    BY <1>1, <1>2, Arrows DEF Step, SetSize, Opposes
  <2>2. LastCall(r).value = 1
    BY <1>1, <1>2, <2>1 DEF Coded
  <2>3. Loci[r].op = "opened" /\ How(Loci[r]) = "largest"
    BY <1>1, <1>2, Whereabouts DEF How
  <2>4. Largest(r) = 1
    <3>1. Largest(r) \in 0 .. 2 /\ 1 <= Largest(r)
      BY <1>2, <2>1, <2>2, <2>3, OwnIsHeard DEF Waits
    <3>2. Allowed(Loci[r], Largest(r))
      BY <1>1, <1>2, <2>1, <2>3, Outcome DEF Course, Waits, Returned, Value
    <3> QED  BY <2>3, <3>1, <3>2 DEF Allowed, Vals, Bit
  <2>5. pc'[r] = "share"
    BY <1>1, <2>1, <2>4 DEF SetSize, Share, Goto
  <2>6. LastCall(r)'.value = 1 /\ file'[r] = file[r]
    <3>1. file'[r] = file[r]
      BY <1>1, <1>2, OwnKeeps
    <3>2. PICK v \in Bit :
             /\ LastCall(r)' = [op |-> "share", value |-> v]
             /\ pc[r] = "opened" => v = err[r]
      BY <2>5, Sharing
    <3> QED  BY <1>2, <2>1, <3>1, <3>2
  <2> QED  BY <1>1, <2>5, <2>6 DEF Opposes
<1>3. CASE pc[r] = "share"
  <2>1. /\ ShareLeave(r) /\ Entered(r) /\ FileDone(r, Largest(r))
        /\ Loci[r].op = "share" /\ How(Loci[r]) = "largest" /\ LastCall(r).value = 1
    BY <1>1, <1>3, Arrows, Whereabouts DEF Step, ShareLeave, How, Opposes
  <2>2. Largest(r) = 1
    <3>1. Largest(r) \in 0 .. 2 /\ 1 <= Largest(r)
      BY <1>3, <2>1, OwnIsHeard DEF Waits
    <3>2. Allowed(Loci[r], Largest(r))
      BY <1>1, <1>3, <2>1, Outcome DEF Course, Waits, Returned, Value
    <3> QED  BY <2>1, <3>1, <3>2 DEF Allowed, Vals, Bit
  <2>3. Kind(file[r]) # "loose"
    BY <1>1, <1>3, <2>1, <2>2, AllSucceed DEF Returned, Value
  <2>4. err'[r] = 1 /\ pc'[r] = "fin" /\ file'[r] = file[r]
    BY <1>1, <2>1, <2>2, <2>3, FileDoneIs
  <2> QED  BY <1>1, <2>4 DEF Opposes
<1>4. CASE pc[r] = "fin"
  <2>1. pc'[r] = "fin_wait" /\ err'[r] = err[r] /\ file'[r] = file[r]
    BY <1>1, <1>4, Arrows, OwnKeeps DEF Step, Writing
  <2> QED  BY <1>1, <1>4, <2>1 DEF Opposes
<1>5. CASE pc[r] = "fin_wait"
  <2>1. FinLeave(r) /\ Entered(r) /\ err[r] = 1
    BY <1>1, <1>5, Arrows DEF Step, FinLeave, Opposes
  <2> QED  BY <1>1, <1>5, <2>1, NobodyShares
<1> QED  BY <1>2, <1>3, <1>4, <1>5 DEF Opposes

LEMMA SharesKept ==
    ASSUME NEW b, Telling(b), NEW r \in Rank, Step(r), NEW q \in Rank
    PROVE  Shares(q)'
<1>1. /\ Course /\ Types /\ KindsFit /\ Contained /\ OnClaims(b) /\ Shares(q)
      /\ file[q] \in 1 .. Count /\ pc \in [Rank -> Labels]
      /\ (\A z \in Rank : Coded(z) /\ Recalls(z)) /\ layout' = layout
  BY StoryFacts, RankFacts DEF Step
<1>2. PICK f : f = file[q]
  OBVIOUS
<1>3. CASE q # r
  <2>1. mem'[q] = mem[q] /\ pc'[q] = pc[q] /\ file'[q] = file[q]
    BY <1>1, <1>3, OthersKeep
  <2>2. CASE pc[q] = "share" /\ LastCall(q).value = 0
    <3>1. CASE Stored(q, f)
      <4>1. ~(pc[r] = "opened" /\ Entered(r) /\ Largest(r) # 1)
        BY <1>1, <2>2, AllAtThisFile
      <4>2. Stored(q, f)'
        BY <1>1, <1>2, <1>3, <2>1, <3>1, <4>1, StoredStays
      <4> QED  BY <1>2, <2>1, <4>2 DEF Shares
    <3>2. CASE \E z \in Rank : Opposes(z, f)
      <4>1. PICK z \in Rank : Opposes(z, f)
        BY <3>2
      <4>2. Opposes(z, f)'
        BY <1>1, <2>2, <4>1, OpposesOther, OpposesStays
      <4> QED  BY <1>2, <2>1, <4>2 DEF Shares
    <3> QED  BY <1>1, <1>2, <2>2, <3>1, <3>2 DEF Shares
  <2>3. CASE ~(pc[q] = "share" /\ LastCall(q).value = 0)
    <3>1. pc[q] = "share" => LastCall(q)' = LastCall(q)
      BY <1>1, <1>3, InCall, OthersSaid DEF Waits
    <3> QED  BY <2>1, <2>3, <3>1 DEF Shares
  <2> QED  BY <2>2, <2>3
<1>4. CASE q = r /\ pc'[r] = "share" /\ LastCall(r)'.value = 0
  <2>1. /\ file'[r] = file[r] /\ mem' = mem
        /\ pc[r] \in {"file", "dims", "gathered", "opened", "write"}
        /\ pc[r] = "opened" => err[r] = 0 /\ Entered(r) /\ Largest(r) = 1
        /\ pc[r] \in {"file", "dims", "gathered"} => Owned(r, f) = {}
        /\ pc[r] = "write" => Fill(f, Owned(r, f))
    <3>1. PICK v \in Bit :
             /\ LastCall(r)' = [op |-> "share", value |-> v]
             /\ file'[r] = file[r] /\ mem' = mem
             /\ pc[r] \in {"file", "dims", "gathered", "opened", "write"}
             /\ pc[r] = "opened" => v = err[r] /\ Entered(r) /\ Largest(r) = 1
             /\ pc[r] \in {"file", "dims", "gathered"} /\ v = 0 => Owned(r, file[r]) = {}
             /\ pc[r] = "write" /\ v = 0 => Fill(file[r], Owned(r, file[r]))
      BY <1>4, Sharing
    <3>2. v = 0
      BY <1>4, <3>1
    <3> QED  BY <1>2, <1>4, <3>1, <3>2
  <2>2. CASE pc[r] \in {"file", "dims", "gathered"}
    <3>1. Owned(r, f)' = {}
      BY <1>1, <2>1, <2>2 DEF Owned, Alone, Kind, Regions
    <3>2. Stored(r, f)'
      BY <3>1 DEF Stored
    <3> QED  BY <1>2, <1>4, <2>1, <3>2 DEF Shares
  <2>3. CASE pc[r] = "write"
    <3>1. Stored(r, f)'
      BY <1>1, <1>2, <1>4, <2>1, <2>3, FilledIsStored
    <3> QED  BY <1>2, <1>4, <2>1, <3>1 DEF Shares
  <2>4. CASE pc[r] = "opened"
    <3>1. PICK z \in Rank : Opposes(z, f)
      BY <1>1, <1>2, <1>4, <2>1, <2>4, SomebodyOpposes
    <3>2. z # r
      BY <2>1, <2>4, <3>1 DEF Opposes
    <3>3. Opposes(z, f)'
      BY <1>1, <3>1, <3>2, OpposesOther
    <3> QED  BY <1>2, <1>4, <2>1, <3>3 DEF Shares
  <2> QED  BY <2>1, <2>2, <2>3, <2>4
<1>5. CASE q = r /\ ~(pc'[r] = "share" /\ LastCall(r)'.value = 0)
  BY <1>5 DEF Shares
<1> QED  BY <1>3, <1>4, <1>5

\* A rank in a call is at the label that belongs to its operation.
LEMMA Calling ==
    \A q \in Rank : Types /\ pc[q] \in Waits =>
        /\ Loci[q].layout = layout
        /\ Loci[q].op = "read" => pc[q] = "read_wait"
        /\ Loci[q].op \in {"alloc", "time_read", "values"} => pc[q] = Loci[q].op
        /\ Loci[q].op = "share" => pc[q] = "share" /\ Loci[q].file = file[q]
<1> SUFFICES ASSUME NEW q \in Rank, Types, pc[q] \in Waits
             PROVE  /\ Loci[q].layout = layout
                    /\ Loci[q].op = "read" => pc[q] = "read_wait"
                    /\ Loci[q].op \in {"alloc", "time_read", "values"} => pc[q] = Loci[q].op
                    /\ Loci[q].op = "share" => pc[q] = "share" /\ Loci[q].file = file[q]
  OBVIOUS
<1>1. CASE pc[q] \in {"step_wait", "unlinked", "named", "dims", "alloc", "gathered", "opened"}
  BY <1>1, RankFacts, LocusIs, PlaceFields
<1>2. CASE pc[q] \in {"sized", "share", "fin_wait", "time_wait", "barrier", "report_wait"}
  BY <1>2, RankFacts, LocusIs, PlaceFields
<1>3. CASE pc[q] \in {"time_read", "values", "read_wait", "resume_wait"}
  BY <1>3, RankFacts, LocusIs, PlaceFields
<1> QED  BY <1>1, <1>2, <1>3 DEF Waits

LEMMA CallingNext ==
    (\A q \in Rank : Types /\ pc[q] \in Waits =>
        /\ Loci[q].layout = layout
        /\ Loci[q].op = "read" => pc[q] = "read_wait"
        /\ Loci[q].op \in {"alloc", "time_read", "values"} => pc[q] = Loci[q].op
        /\ Loci[q].op = "share" => pc[q] = "share" /\ Loci[q].file = file[q])'
BY Calling, PTL

\* What is read while the dump is committed can be opened and is complete.
LEMMA ReadFindsAll ==
    ASSUME NEW b, Telling(b), NEW r \in Rank, pc[r] = "read"
    PROVE  ReadCode(r) = 0
<1>1. b \in Stamp /\ disk.time = (IF b = None THEN Missing ELSE Whole(b)) /\ CommittedWhole
      /\ file[r] \in 1 .. Count
  BY StoryFacts DEF Reads, Reading, Telling
<1>2. b # None
  BY <1>1, BoundAssumption DEF Stamp, None
<1>3. r \in Regions(file[r]) => disk.part[file[r]][r] = Whole(b)
  BY <1>1, <1>2 DEF CommittedWhole, Whole
<1> QED  BY <1>3 DEF ReadCode, Whole

\* The value that a rank contributes is one that it may claim.
LEMMA ClaimsMade ==
    ASSUME NEW b, Telling(b), NEW r \in Rank, Step(r), pc'[r] \in Waits, pc'[r] # pc[r],
           NEW t, t = <<Loci'[r], r, LastCall(r)'.value>>, t \in Says
    PROVE  t \in Claims(b)
<1>1. /\ Course /\ Types /\ KindsFit /\ Contained /\ Noticed /\ Reads(b, r) /\ Root \in Rank
      /\ pc \in [Rank -> Labels] /\ icnt[r] \in 0 .. StepMax /\ b \in Stamp \cup {None}
      /\ layout' = layout
  BY StoryFacts, RankFacts DEF Step
<1>2. PICK p, v : p = Loci'[r] /\ v = LastCall(r)'.value
  OBVIOUS
<1>3. t[1] = p /\ t[2] = r /\ t[3] = v
  BY <1>2
<1>4. Types'
  BY <1>1, CourseStep DEF Course
<1>5. /\ p.layout = layout
      /\ p.op = "read" => pc'[r] = "read_wait"
      /\ p.op \in {"alloc", "time_read", "values"} => pc'[r] = p.op
      /\ p.op = "share" => pc'[r] = "share" /\ p.file = file'[r]
  BY <1>1, <1>2, <1>4, CallingNext
<1>6. ASSUME NEW op \in Ops, NEW w \in Nat, Enter(r, op, w) PROVE v = w
  BY <1>1, <1>2, <1>6, Said
<1>7. p.op = "read" => v = 0
  <2> SUFFICES ASSUME p.op = "read" PROVE v = 0
    OBVIOUS
  <2>1. Read(r) /\ pc[r] = "read"
    BY <1>1, <1>5, Arrows DEF Step
  <2>2. Enter(r, "read", 0) /\ "read" \in Ops /\ 0 \in Nat
    BY <2>1, ReadFindsAll DEF Read, Ops
  <2> QED  BY <1>6, <2>2
<1>8. p.op = "alloc" => v = 0
  <2> SUFFICES ASSUME p.op = "alloc" PROVE v = 0
    OBVIOUS
  <2>1. GatherAlloc(r)
    BY <1>1, <1>5, Arrows DEF Step
  <2>2. Enter(r, "alloc", 0) /\ "alloc" \in Ops /\ 0 \in Nat
    BY <1>1, <2>1 DEF GatherAlloc, Ops, Noticed
  <2> QED  BY <1>6, <2>2
<1>9. p.op = "share" /\ p.layout.files[p.file] = "loose" => v = 0
  <2> SUFFICES ASSUME p.op = "share", p.layout.files[p.file] = "loose" PROVE v = 0
    OBVIOUS
  <2>1. PICK w \in Bit :
           /\ LastCall(r)' = [op |-> "share", value |-> w] /\ file'[r] = file[r]
           /\ Kind(file[r]) = "loose" => w = 0
    BY <1>5, Sharing
  <2> QED  BY <1>2, <1>5, <2>1 DEF Kind
<1>10. p.op = "time_read" /\ r = Root => v = IF b = None THEN 1 ELSE 0
  <2> SUFFICES ASSUME p.op = "time_read", r = Root PROVE v = IF b = None THEN 1 ELSE 0
    OBVIOUS
  <2>1. ReadTime(r) /\ pc[r] = "restart"
    BY <1>1, <1>5, Arrows DEF Step
  <2>2. disk.time = IF b = None THEN Missing ELSE Whole(b)
    BY <1>1, <2>1 DEF Reads, Reading
  <2>3. PICK w : w = IF b = None THEN 1 ELSE 0
    OBVIOUS
  <2>4. Enter(r, "time_read", w)
    BY <2>1, <2>2, <2>3 DEF ReadTime, Missing, Whole
  <2>5. "time_read" \in Ops /\ w \in Nat
    BY <2>3 DEF Ops
  <2> QED  BY <1>6, <2>3, <2>4, <2>5
<1>11. p.op = "values" /\ r = Root => v = b[2]
  <2> SUFFICES ASSUME p.op = "values", r = Root PROVE v = b[2]
    OBVIOUS
  <2>1. TimeStat(r) /\ pc[r] = "time_read" /\ RootEntered(r)
    BY <1>1, <1>5, Arrows DEF Step, TimeStat
  <2>2. FromRoot(r) # 1
    BY <1>1, <1>5, <2>1 DEF TimeStat, GiveUp, Goto
  <2>3. b # None
    BY <2>1, <2>2, RootTells
  <2>4. icnt[r] = b[2] /\ icnt[r] \in Nat
    BY <1>1, <2>1, <2>3 DEF Reads
  <2>5. Enter(r, "values", icnt[r]) /\ "values" \in Ops
    BY <2>1, <2>2 DEF TimeStat, Ops
  <2> QED  BY <1>6, <2>4, <2>5
<1> QED  BY <1>3, <1>7, <1>8, <1>9, <1>10, <1>11 DEF Claims

LEMMA ClaimsKept ==
    ASSUME NEW b, Telling(b), NEW r \in Rank, Step(r)
    PROVE  OnClaims(b)'
<1>1. /\ Course /\ Types /\ KindsFit /\ Contained /\ OnClaims(b) /\ Moves(r)
      /\ pc \in [Rank -> Labels]
  BY StoryFacts, RankFacts, StepMoves DEF Course
<1>2. CASE Along(r)
  BY <1>1, <1>2 DEF Along, OnClaims, Claims, Says, Place, Vals
<1>3. CASE ~Along(r)
  <2>1. Inside'[r] => <<Loci'[r], r, T!Last(calls', r).value>> \in Claims(b)
    <3> SUFFICES ASSUME Inside'[r] PROVE <<Loci'[r], r, T!Last(calls', r).value>> \in Claims(b)
      OBVIOUS
    <3>1. pc'[r] \in Waits
      BY DEF Inside
    <3>2. <<Loci'[r], r, T!Last(calls', r).value>> \in Says
      BY <1>1, <1>3, MovesSay
    <3>3. pc'[r] # pc[r]
      BY <1>1, <3>1, Arrows DEF Step, Waits
    <3>4. PICK t : t = <<Loci'[r], r, LastCall(r)'.value>>
      OBVIOUS
    <3>5. t = <<Loci'[r], r, T!Last(calls', r).value>>
      BY <3>4 DEF LastCall
    <3>6. t \in Claims(b)
      BY <3>1, <3>2, <3>3, <3>4, <3>5, ClaimsMade
    <3> QED  BY <3>5, <3>6
  <2>2. T!Together(calls', Inside', Loci', Claims(b))
    BY <1>1, <2>1, MovesKeepTrace DEF OnClaims
  <2> QED  BY <2>2 DEF OnClaims, Claims, Says, Place, Vals
<1> QED  BY <1>2, <1>3

LEMMA TellingStep ==
    ASSUME NEW b, Telling(b), NEW r \in Rank, Step(r)
    PROVE  Telling(b)'
<1>1. Course' /\ Noticed'
  BY CourseStep DEF Telling, Noticed, Contained, Fails
<1>2. TimeFileWhole' /\ CommittedWhole' /\ OnClaims(b)'
  BY TimeFileKept, CommittedKept, ClaimsKept
<1>3. ASSUME NEW q \in Rank PROVE Tale(b, q)'
  BY HeldKept, ReadsKept, WithdrawnKept, SuitsKept, CodedKept, StoresKept, SharesKept,
     RecallsKept DEF Tale
<1>4. (b \in Stamp \cup {None})'
  BY StoryFacts DEF Stamp, None
<1> QED  BY <1>1, <1>2, <1>3, <1>4 DEF Telling, Story

-------------------------------------------------------------------------------
(***************************************************************************)
(* Between the jobs.                                                       *)
(***************************************************************************)
\* A job begins from the state b, or looks for it on the disk, or does not run.
Anew(b) ==
    /\ Noticed /\ Fresh /\ TimeFileWhole /\ CommittedWhole
    /\ b \in Stamp \cup {None}
    /\ \A q \in Rank :
          /\ pc[q] = "loop" => /\ b \in Stamp /\ b[2] = 0
                               /\ \A f \in 1 .. Count : mem[q][f] = b
          /\ pc[q] = "restart" => disk.time = IF b = None THEN Missing ELSE Whole(b)

LEMMA AnewTells == \A b : Anew(b) => Telling(b)
<1> SUFFICES ASSUME NEW b, Anew(b) PROVE Telling(b)
  OBVIOUS
<1>1. /\ Noticed /\ Contained /\ Course /\ TimeFileWhole /\ CommittedWhole
      /\ b \in Stamp \cup {None}
  BY FreshCourse DEF Anew, Noticed
<1>2. PICK start \in {"loop", "restart", "killed"} : pc = [r \in Rank |-> start]
  BY DEF Anew, Fresh
<1>3. \A q \in Rank : /\ pc[q] = start /\ icnt[q] = 0 /\ file[q] = 1 /\ err[q] = 0
                      /\ calls[q] = <<>>
  BY <1>2 DEF Anew, Fresh, NoCalls
<1>4. start \in Labels /\ start \notin Waits
  BY <1>2 DEF Labels, Halted, Restarting, Waits
<1>5. OnClaims(b)
  <2>1. PICK p : p = LocusOf(layout, start, 1, 0, 0)
    OBVIOUS
  <2>2. p \in Place
    <3>1. /\ layout \in Layouts /\ 0 \in 0 .. StepMax /\ 0 \in Bit
          /\ 1 \in 1 .. Len(layout.files)
      BY BoundAssumption, LayoutFacts DEF Anew, Fresh, Bit
    <3> QED  BY <1>4, <2>1, <3>1, LocusTyped
  <2>3. \A r \in Rank : calls[r] = <<>> /\ ~Inside[r] /\ Loci[r] = p
    BY <1>3, <1>4, <2>1 DEF Inside, Loci
  <2> QED  BY <2>2, <2>3, T!TogetherStarts DEF OnClaims
<1>6. ASSUME NEW q \in Rank PROVE Tale(b, q)
  <2>1. pc[q] \in {"loop", "restart", "killed"}
    BY <1>2, <1>3
  <2>2. Held(b, q)
    BY <1>3, <2>1 DEF Anew, Held, StampAt, InStep, Resumed, Running, Restarting, Halted
  <2>3. Reads(b, q)
    BY <2>1 DEF Anew, Reads, Reading, Resumed
  <2>4. Withdrawn(q) /\ Suits(q) /\ Coded(q) /\ Stores(q) /\ Shares(q)
    BY <2>1 DEF Withdrawn, Suits, Coded, Stores, Shares, AtFile, Writing
  <2>5. Recalls(q)
    <3>1. Len(calls[q]) = 0
      BY <1>3
    <3> QED  BY <2>1, <3>1 DEF Recalls
  <2> QED  BY <2>2, <2>3, <2>4, <2>5 DEF Tale
<1> QED  BY <1>1, <1>5, <1>6 DEF Telling, Story

LEMMA AnewTellsNext == (\A b : Anew(b) => Telling(b))'
BY AnewTells, PTL

LEMMA InitAnew == Noticed /\ Init => Anew(<<1, 0>>)
<1> SUFFICES ASSUME Noticed, Init PROVE Anew(<<1, 0>>)
  OBVIOUS
<1>1. Fresh
  BY InitFresh
<1>2. disk.time = Missing /\ \A q \in Rank : pc[q] = "loop"
  BY DEF Init
<1>3. TimeFileWhole /\ CommittedWhole
  BY <1>2, RootAssumption DEF TimeFileWhole, CommittedWhole, Missing, Torn
<1>4. <<1, 0>> \in Stamp
  BY BoundAssumption DEF Stamp
<1>5. \A q \in Rank : \A f \in 1 .. Count : mem[q][f] = <<1, 0>>
  BY DEF Init
<1> QED  BY <1>1, <1>2, <1>3, <1>4, <1>5 DEF Anew

LEMMA ResetAnew ==
    ASSUME NEW b, Telling(b), Kill \/ Submit
    PROVE  \E s : Anew(s)'
<1>1. /\ Noticed' /\ Fresh' /\ layout' = layout /\ disk' = disk /\ Root \in Rank
      /\ TimeFileWhole /\ CommittedWhole /\ Noticed
  <2>1. Types
    BY StoryFacts, RootAssumption
  <2> QED  BY <2>1, ResetFresh, RootAssumption
           DEF Telling, Noticed, Contained, Fails, Kill, Submit
<1>2. /\ Count' = Count /\ Stamp' = Stamp /\ None' = None /\ Missing' = Missing
      /\ Torn' = Torn /\ (\A s : Whole(s)' = Whole(s)) /\ \A f : Regions(f)' = Regions(f)
  BY <1>1 DEF Count, Stamp, None, Missing, Torn, Whole, Regions, Kind
<1>3. CommittedWhole'
  BY <1>1, <1>2 DEF CommittedWhole
<1>4. PICK start, j : Reset(start, j) /\ start \in {"loop", "restart", "killed"}
                      /\ (start = "killed" \/ (Submit /\ j = job + 1))
  BY DEF Kill, Submit
<1>5. \A q \in Rank : pc'[q] = start /\ \A f \in 1 .. Count : mem'[q][f] = <<j, 0>>
  BY <1>4 DEF Reset
<1>6. disk.time # Torn
  <2>1. CASE Kill
    BY <1>1, <2>1 DEF Kill, Noticed
  <2>2. CASE Submit
    BY <1>1, <2>2 DEF Submit, AllHalted, Halted, TimeFileWhole
  <2> QED  BY <2>1, <2>2
<1>7. TimeFileWhole'
  BY <1>1, <1>2, <1>4, <1>5, <1>6 DEF TimeFileWhole
<1>8. CASE start = "killed"
  <2>1. Anew(None)'
    BY <1>1, <1>2, <1>3, <1>5, <1>7, <1>8 DEF Anew
  <2> QED  BY <2>1
<1>9. CASE start = "loop"
  <2>1. PICK s : s = <<job + 1, 0>>
    OBVIOUS
  <2>2. s \in Stamp /\ s[2] = 0 /\ j = job + 1
    <3>1. Types /\ Submit
      BY <1>4, <1>9, StoryFacts, RootAssumption
    <3> QED  BY <1>4, <1>9, <2>1, <3>1, BoundAssumption DEF Submit, Types, TypeOK, Stamp
  <2>3. Anew(s)'
    BY <1>1, <1>2, <1>3, <1>5, <1>7, <1>9, <2>1, <2>2 DEF Anew
  <2> QED  BY <2>3
<1>10. CASE start = "restart"
  <2>1. PICK s \in Stamp \cup {None} : disk.time = IF s = None THEN Missing ELSE Whole(s)
    <3>1. None \notin Stamp
      BY BoundAssumption DEF None, Stamp
    <3> QED  BY <1>1, <1>6, <3>1 DEF TimeFileWhole
  <2>2. Anew(s)'
    BY <1>1, <1>2, <1>3, <1>5, <1>7, <1>10, <2>1 DEF Anew
  <2> QED  BY <2>2
<1> QED  BY <1>4, <1>8, <1>9, <1>10

Told == \E b : Telling(b)

LEMMA ToldNext == Told /\ [Next]_vars => Told'
<1> SUFFICES ASSUME NEW b, Telling(b), [Next]_vars PROVE Told'
  BY DEF Told
<1>1. CASE \E r \in Rank : Step(r)
  <2>1. Telling(b)'
    BY <1>1, TellingStep
  <2> QED  BY <2>1 DEF Told
<1>2. CASE Kill \/ Submit
  <2>1. PICK s : Anew(s)'
    BY <1>2, ResetAnew
  <2>2. Telling(s)'
    BY <2>1, AnewTellsNext
  <2> QED  BY <2>2 DEF Told
<1>3. CASE UNCHANGED vars
  <2>1. /\ layout' = layout /\ job' = job /\ disk' = disk /\ calls' = calls /\ pc' = pc
        /\ mem' = mem /\ icnt' = icnt /\ file' = file /\ err' = err
    BY <1>3 DEF vars, rank
  <2>2. Course' /\ Noticed'
    BY <1>3, CourseNext DEF Telling, Noticed, Contained, Fails
  <2>3. Loci' = Loci /\ Inside' = Inside
    BY <2>1 DEF Loci, Inside
  <2>4. TimeFileWhole' /\ CommittedWhole' /\ OnClaims(b)' /\ (b \in Stamp \cup {None})'
    BY <2>1, <2>3, StoryFacts, RootAssumption
       DEF Telling, TimeFileWhole, CommittedWhole, OnClaims, Claims, Says, Place, Vals,
           Missing, Torn, Whole, None, Stamp, Count, Regions, Kind
  <2>5. ASSUME NEW q \in Rank PROVE Tale(b, q)'
    <3>1. /\ Held(b, q) /\ Reads(b, q) /\ Withdrawn(q) /\ Suits(q)
          /\ Coded(q) /\ Stores(q) /\ Shares(q) /\ Recalls(q)
      BY StoryFacts
    <3>2. Held(b, q)' /\ Reads(b, q)'
      BY <2>1, <3>1 DEF Held, Reads, InStep, Resumed, StampAt, Missing, Whole, None, Stamp, Count
    <3>3. Withdrawn(q)' /\ Suits(q)' /\ Coded(q)' /\ Recalls(q)'
      BY <2>1, <3>1 DEF Withdrawn, Suits, Coded, Recalls, LastCall, PrevCall, Alone, Kind,
            Missing, None, Fails
    <3>4. Stores(q)' /\ Shares(q)'
      BY <2>1, <3>1 DEF Stores, Shares, Stored, Owned, Alone, Kind, Regions, Whole, Count,
            Opposes, LastCall
    <3> QED  BY <3>2, <3>3, <3>4 DEF Tale
  <2>6. Telling(b)'
    BY <2>2, <2>4, <2>5 DEF Telling, Story
  <2> QED  BY <2>6 DEF Told
<1> QED  BY <1>1, <1>2, <1>3 DEF Next, Over

LEMMA ToldAlways == Noticed => (Spec => []Told)
<1>1. Noticed /\ Init => Told
  BY InitAnew, AnewTells DEF Told
<1> QED  BY <1>1, ToldNext, PTL DEF Spec

-------------------------------------------------------------------------------
(***************************************************************************)
(* The theorems.                                                           *)
(***************************************************************************)
\* A time file vouches for the dump, for any number of ranks, files and jobs, in every
\* layout, wherever a job is killed and whatever fails, if the failure is reported to
\* all the ranks: a time file that is complete stands beside a dump that is, and the
\* two are of one state of the calculation.
THEOREM DumpVouchedFor == Noticed => (Spec => []CommittedWhole)
<1>1. Told => CommittedWhole
  BY DEF Told, Telling
<1> QED  BY <1>1, ToldAlways, PTL

\* No rank ever goes on, after a restart or after a dump that was killed, with fields
\* of different states, with a step number that is not theirs, or with a state that is
\* not that of the other ranks at the same step.
THEOREM RestartsWhole == Noticed => (Spec => []RestoredWhole)
<1>1. Told => RestoredWhole
  <2> SUFFICES ASSUME NEW b, Telling(b) PROVE RestoredWhole
    BY DEF Told
  <2>1. ASSUME NEW r \in Rank, pc[r] \notin Restarting \cup Halted
        PROVE  /\ \A f \in 1 .. Count : mem[r][f] = StampAt(b, icnt[r])
               /\ StampAt(b, icnt[r])[2] = icnt[r] /\ 1 \in 1 .. Count
               /\ mem[r] \in [1 .. Count -> Stamp \cup {None}]
    <3>1. InStep(r)
      BY <2>1, StoryFacts DEF InStep, Running
    <3>2. Held(b, r) /\ Types /\ Count \in Nat \ {0}
      BY StoryFacts, RankFacts
    <3>3. StampAt(b, icnt[r])[2] = icnt[r]
      BY DEF StampAt
    <3>4. mem[r] \in [1 .. Count -> Stamp \cup {None}]
      BY <3>2 DEF Types
    <3> QED  BY <3>1, <3>2, <3>3, <3>4 DEF Held
  <2> SUFFICES ASSUME NEW r \in Rank, pc[r] \notin Restarting \cup Halted
               PROVE  /\ \A f \in 1 .. Count : mem[r][f] = mem[r][1]
                      /\ mem[r][1][2] = icnt[r]
                      /\ \A q \in Rank : (pc[q] \notin Restarting \cup Halted
                                          /\ icnt[q] = icnt[r]) => mem[q] = mem[r]
    BY DEF RestoredWhole
  <2>2. (\A f \in 1 .. Count : mem[r][f] = mem[r][1]) /\ mem[r][1][2] = icnt[r]
    BY <2>1
  <2>3. ASSUME NEW q \in Rank, pc[q] \notin Restarting \cup Halted, icnt[q] = icnt[r]
        PROVE  mem[q] = mem[r]
    <3>1. \A f \in 1 .. Count : mem[q][f] = mem[r][f]
      BY <2>1, <2>3
    <3>2. mem[q] = [f \in 1 .. Count |-> mem[q][f]] /\ mem[r] = [f \in 1 .. Count |-> mem[r][f]]
      BY <2>1, <2>3
    <3>3. [f \in 1 .. Count |-> mem[q][f]] = [f \in 1 .. Count |-> mem[r][f]]
      BY <3>1
    <3> QED  BY <3>2, <3>3
  <2> QED  BY <2>2, <2>3
<1> QED  BY <1>1, ToldAlways, PTL

-------------------------------------------------------------------------------
(***************************************************************************)
(* The refinement, step by step: what the actions do to the state of the   *)
(* calculation and to the one that can be restored.                        *)
(***************************************************************************)
Now   == IF pc[Root] \in Restarting \cup Halted THEN None ELSE mem[Root][1]
Saved == IF disk.time.state = "whole" THEN disk.time.of ELSE None

DumpStep ==
    \/ Now = None /\ Now' \in Stamp /\ Saved' = Saved
    \/ Now # None /\ Now' \in Stamp /\ Now'[2] = Now[2] + 1 /\ Saved' = Saved
    \/ Now # None /\ Saved' = None /\ Now' = Now
    \/ Now # None /\ Saved = None /\ Saved' = Now /\ Now' = Now
    \/ Now' = None /\ Saved' = Saved
    \/ Now = None /\ Saved # None /\ Now' = Saved /\ Saved' = Saved
    \/ Now' = Now /\ Saved' = Saved

\* What rank 0 holds while it computes is a state.
LEMMA RootHolds ==
    ASSUME NEW b, Telling(b), InStep(Root)
    PROVE  /\ mem[Root][1] = StampAt(b, icnt[Root]) /\ mem[Root][1] \in Stamp
           /\ mem[Root][1] # None /\ b \in Stamp
<1>1. /\ Held(b, Root) /\ Types /\ Count \in Nat \ {0} /\ icnt[Root] \in 0 .. StepMax
      /\ job \in 1 .. JobMax
  BY StoryFacts, RankFacts, RootAssumption DEF Types, TypeOK
<1>2. 1 \in 1 .. Count /\ mem[Root][1] = StampAt(b, icnt[Root]) /\ b \in Stamp
  BY <1>1 DEF Held
<1>3. mem[Root][1] \in Stamp
  BY <1>1, <1>2 DEF StampAt, Stamp
<1> QED  BY <1>2, <1>3, BoundAssumption DEF Stamp, None

\* A step that changes the time file is rank 0's, and a withdrawal or a publication.
LEMMA SavedSteps ==
    ASSUME NEW b, Telling(b), NEW r \in Rank, Step(r), Saved' # Saved
    PROVE  DumpStep
<1>1. /\ Types /\ KindsFit /\ Contained /\ Root \in Rank /\ Withdrawn(r) /\ Noticed
      /\ TimeFileWhole /\ pc \in [Rank -> Labels]
  BY StoryFacts, RankFacts DEF Telling
<1>2. r = Root /\ Dates(r)
  BY DiskFacts DEF Saved
<1>3. pc[r] \in {"begin", "time", "time_write"}
  BY <1>2, DiskFacts
<1>4. mem' = mem /\ pc'[r] \in {"unlinked", "time_wait", "time_write"}
  BY <1>1, <1>3, OwnKeeps, Arrows DEF Step
<1>5. InStep(Root) /\ Now = mem[Root][1] /\ Now' = Now
  BY <1>2, <1>3, <1>4 DEF InStep, Running, Labels, Restarting, Halted, Now
<1>6. Now # None
  BY <1>5, RootHolds
<1>7. CASE ~TimeClose(r)
  <2>1. disk'.time \in {Missing, Torn}
    BY <1>2, <1>7, DiskFacts DEF Dates
  <2>2. Saved' = None
    BY <2>1 DEF Saved, Missing, Torn, None
  <2> QED  BY <1>5, <1>6, <2>2 DEF DumpStep
<1>8. CASE TimeClose(r)
  <2>1. disk'.time = Whole(mem[r][1]) /\ pc[r] = "time_write"
    BY <1>1, <1>2, <1>8, DiskFacts, Arrows
  <2>2. Saved = None /\ Saved' = Now
    BY <1>1, <1>2, <1>5, <2>1 DEF Saved, TimeFileWhole, Torn, Whole
  <2> QED  BY <1>5, <1>6, <2>2 DEF DumpStep
<1> QED  BY <1>7, <1>8

\* A step that changes the state of the calculation is rank 0's.
LEMMA NowSteps ==
    ASSUME NEW b, Telling(b), NEW r \in Rank, Step(r), Saved' = Saved
    PROVE  DumpStep
<1>1. /\ Types /\ KindsFit /\ Contained /\ Root \in Rank /\ Reads(b, Root)
      /\ pc \in [Rank -> Labels] /\ Count \in Nat \ {0} /\ icnt[Root] \in 0 .. StepMax
      /\ job \in 1 .. JobMax
  BY StoryFacts, RankFacts DEF Types, TypeOK
<1>2. CASE r # Root
  <2>1. Now' = Now
    BY <1>1, <1>2, OthersKeep DEF Now, None
  <2> QED  BY <2>1 DEF DumpStep
<1>3. CASE r = Root /\ Advance(r)
  <2>1. /\ pc[r] = "loop" /\ pc'[r] = "step_wait" /\ icnt[r] < StepMax
        /\ mem' = [mem EXCEPT ![r] = [f \in 1 .. Count |-> <<job, icnt[r] + 1>>]]
    BY <1>1, <1>3, Arrows DEF Advance
  <2>2. mem'[r] = [f \in 1 .. Count |-> <<job, icnt[r] + 1>>] /\ 1 \in 1 .. Count
    BY <1>1, <2>1 DEF Types
  <2>3. Now' = <<job, icnt[r] + 1>> /\ Now = mem[Root][1]
    BY <1>3, <2>1, <2>2 DEF Now, Restarting, Halted
  <2>4. Now # None /\ Now = StampAt(b, icnt[r])
    BY <1>3, <2>1, <2>3, RootHolds DEF InStep, Running, Labels, Restarting, Halted
  <2>5. Now[2] = icnt[r]
    BY <2>4 DEF StampAt
  <2>6. <<job, icnt[r] + 1>> \in Stamp
    BY <1>1, <1>3, <2>1, BoundAssumption DEF Stamp
  <2> QED  BY <2>3, <2>4, <2>5, <2>6 DEF DumpStep
<1>4. CASE r = Root /\ ~Advance(r) /\ pc[r] \in Running
  <2>1. CASE pc'[r] \in Halted
    BY <1>4, <2>1 DEF DumpStep, Now, None
  <2>2. CASE pc'[r] \notin Halted
    <3>1. mem' = mem
      <4>1. CASE pc[r] = "loop"
        <5>1. LoopEnd(r)
          BY <1>1, <1>4, <4>1, Arrows DEF Step
        <5> QED  BY <5>1 DEF LoopEnd
      <4>2. CASE pc[r] # "loop"
        BY <1>1, <1>4, <4>2, OwnKeeps DEF Running, Restarting
      <4> QED  BY <4>1, <4>2
    <3>2. pc'[r] \notin Restarting
      BY <1>1, <1>4, Arrows DEF Step, Running, Restarting, Halted
    <3>3. Now' = Now
      BY <1>4, <2>2, <3>1, <3>2 DEF Now, Running
    <3> QED  BY <3>3 DEF DumpStep
  <2> QED  BY <2>1, <2>2
<1>5. CASE r = Root /\ pc[r] \in Restarting /\ pc'[r] \in Restarting \cup Halted
  <2>1. Now' = Now
    BY <1>5 DEF Now, None
  <2> QED  BY <2>1 DEF DumpStep
<1>6. CASE r = Root /\ pc[r] \in Restarting /\ pc'[r] \notin Restarting \cup Halted
  <2>1. ResumeLeave(r) /\ pc'[r] = "loop"
    BY <1>1, <1>6, Arrows DEF Step, Restarting, Halted
  <2>2. pc[r] = "resume_wait" /\ Entered(r) /\ Largest(r) # 1 /\ mem' = mem
    BY <1>1, <2>1 DEF ResumeLeave, Goto
  <2>3. Resumed(r) /\ InStep(r)
    BY <2>2, ResumedClean DEF Resumed, InStep
  <2>4. disk.time = Whole(b) /\ icnt[r] = b[2]
    BY <1>1, <1>6, <2>3 DEF Reads
  <2>5. mem[r][1] = b /\ b # None
    BY <1>6, <2>3, <2>4, RootHolds DEF StampAt
  <2>6. Saved = b /\ Now' = b /\ Now = None
    BY <1>6, <2>1, <2>2, <2>4, <2>5 DEF Saved, Now, Whole, Restarting, Halted
  <2> QED  BY <2>5, <2>6 DEF DumpStep
<1>7. pc[r] \in Running \cup Restarting
  BY <1>1, Arrows DEF Step, Running, Labels, Restarting, Halted
<1> QED  BY <1>2, <1>3, <1>4, <1>5, <1>6, <1>7

\* The end of a job stops the calculation, the next one starts another.
LEMMA JobSteps ==
    ASSUME NEW b, Telling(b), Kill \/ Submit
    PROVE  DumpStep
<1>1. /\ Types /\ Root \in Rank /\ Count \in Nat \ {0} /\ disk' = disk /\ layout' = layout
  BY StoryFacts, RankFacts, RootAssumption DEF Kill, Submit
<1>2. Saved' = Saved
  BY <1>1 DEF Saved, None
<1>3. CASE Kill
  <2>1. Now' = None
    BY <1>1, <1>3 DEF Kill, Reset, Now, Halted, None
  <2> QED  BY <1>2, <2>1 DEF DumpStep
<1>4. CASE Submit
  <2>1. PICK start \in {"loop", "restart"} : Reset(start, job + 1)
    BY <1>4 DEF Submit
  <2>2. Now = None
    BY <1>1, <1>4 DEF Submit, AllHalted, Now
  <2>3. CASE start = "restart"
    <3>1. Now' = None
      BY <1>1, <2>1, <2>3 DEF Reset, Now, Restarting, None
    <3> QED  BY <1>2, <3>1 DEF DumpStep
  <2>4. CASE start = "loop"
    <3>1. pc'[Root] = "loop" /\ mem'[Root][1] = <<job + 1, 0>>
      BY <1>1, <2>1, <2>4 DEF Reset
    <3>2. Now' = <<job + 1, 0>>
      BY <3>1 DEF Now, Restarting, Halted
    <3>3. <<job + 1, 0>> \in Stamp
      BY <1>1, <1>4, BoundAssumption DEF Submit, Types, TypeOK, Stamp
    <3> QED  BY <1>2, <2>2, <3>2, <3>3 DEF DumpStep
  <2> QED  BY <2>1, <2>3, <2>4
<1> QED  BY <1>3, <1>4

\* A dump is atomic: whatever is killed and whatever fails and is reported, the files of
\* all the ranks together behave like one state that is withdrawn, published and resumed
\* as a whole.
THEOREM DumpImplemented == Noticed => (Spec => ImplementsDump)
<1>1. Noticed /\ Init => Dump!Init
  <2> SUFFICES ASSUME Noticed, Init PROVE Dump!Init
    OBVIOUS
  <2>1. pc[Root] = "loop" /\ disk.time = Missing /\ Count \in Nat \ {0}
    BY RootAssumption, LayoutFacts DEF Init, Count
  <2>2. mem[Root][1] = <<1, 0>> /\ <<1, 0>> \in Stamp
    BY <2>1, RootAssumption, BoundAssumption DEF Init, Stamp
  <2> QED  BY <2>1, <2>2 DEF Dump!Init, Missing, Restarting, Halted
<1>2. Told /\ [Next]_vars => [Dump!Next]_(Dump!vars)
  <2> SUFFICES ASSUME NEW b, Telling(b), [Next]_vars PROVE [Dump!Next]_(Dump!vars)
    BY DEF Told
  <2>1. DumpStep
    <3>1. CASE \E r \in Rank : Step(r)
      BY <3>1, SavedSteps, NowSteps
    <3>2. CASE Kill \/ Submit
      BY <3>2, JobSteps
    <3>3. CASE UNCHANGED vars
      BY <3>3 DEF vars, rank, DumpStep, Now, Saved, None
    <3> QED  BY <3>1, <3>2, <3>3 DEF Next, Over
  <2> QED  BY <2>1 DEF DumpStep, Now, Saved, Dump!Next, Dump!vars, Dump!Start, Dump!Compute,
                       Dump!Withdraw, Dump!Publish, Dump!Stop, Dump!Resume
<1> QED  BY <1>1, <1>2, ToldAlways, PTL DEF Spec, ImplementsDump, Dump!Spec

===============================================================================
