----------------------------- MODULE ControlProofs -----------------------------
(***************************************************************************)
(* Proofs about module ControlUpdate: that the collectives of an update    *)
(* always match, and that the values are whole and of this step, for any   *)
(* number of ranks, executives, controls, fields and steps.                *)
(***************************************************************************)
EXTENDS ControlUpdate, SequenceTheorems, FiniteSetTheorems, WellFoundedInduction, TLAPS

-------------------------------------------------------------------------------
(***************************************************************************)
(* The chains of executives.  Chain is a recursive function: that there is *)
(* one follows from the executives not being connected in a circle.        *)
(***************************************************************************)
Before(f, e) == IF Source[e] = None THEN <<>> ELSE f[Source[e]]

\* f solves the equation of Chain on D, with all that D depends on in it.
Solves(f, D) ==
    /\ D \subseteq Exec
    /\ \A e \in D : /\ Source[e] # None => Source[e] \in D
                    /\ f[e] = Before(f, e) \o <<e>>

LEMMA Sourced ==
    ASSUME NEW e \in Exec
    PROVE  Source[e] = None \/ Source[e] \in Exec
BY ChainAssumption

LEMMA SolutionsAgree ==
    ASSUME NEW f, NEW D, Solves(f, D), NEW g, NEW E, Solves(g, E), NEW e \in D \cap E
    PROVE  f[e] = g[e]
<1> DEFINE S == {x \in D \cap E : f[x] # g[x]}
<1>1. SUFFICES ASSUME S # {} PROVE FALSE
  OBVIOUS
<1>2. S \in SUBSET Exec
  BY DEF Solves
<1>3. PICK x \in S : Source[x] \notin S
  BY <1>1, <1>2, AcyclicAssumption
<1>4. x \in D /\ x \in E /\ f[x] # g[x]
  OBVIOUS
<1>5. Before(f, x) = Before(g, x)
  <2>1. Source[x] # None => Source[x] \in D \cap E
    BY <1>4 DEF Solves
  <2> QED  BY <2>1, <1>3 DEF Before
<1>6. f[x] = Before(f, x) \o <<x>> /\ g[x] = Before(g, x) \o <<x>>
  BY <1>4 DEF Solves
<1> QED  BY <1>4, <1>5, <1>6

LEMMA SolutionExists ==
    ASSUME NEW e \in Exec
    PROVE  \E f, D : Solves(f, D) /\ e \in D
<1> DEFINE Solved(x) == \E f, D : Solves(f, D) /\ x \in D
           S == {x \in Exec : ~Solved(x)}
<1>1. SUFFICES ASSUME S # {} PROVE FALSE
  OBVIOUS
<1>2. S \in SUBSET Exec
  OBVIOUS
<1>3. PICK x \in S : Source[x] \notin S
  <2> HIDE DEF S
  <2> QED  BY <1>1, <1>2, AcyclicAssumption
<1>4. x \in Exec /\ ~Solved(x)
  OBVIOUS
<1>5. PICK f, D : Solves(f, D) /\ (Source[x] # None => Source[x] \in D)
  <2>1. CASE Source[x] = None
    <3>1. Solves(<<>>, {})
      BY DEF Solves
    <3> QED  BY <3>1, <2>1
  <2>2. CASE Source[x] # None
    <3>1. Source[x] \in Exec
      BY <1>4, <2>2, Sourced
    <3>2. Solved(Source[x])
      BY <1>3, <3>1
    <3> QED  BY <3>2
  <2> QED  BY <2>1, <2>2
<1>6. PICK g : g = [y \in D \cup {x} |-> IF y \in D THEN f[y] ELSE Before(f, x) \o <<x>>]
  OBVIOUS
<1>7. x \notin D
  BY <1>4, <1>5
<1>8. \A y \in D : g[y] = f[y]
  BY <1>6
<1>9. g[x] = Before(f, x) \o <<x>>
  BY <1>6, <1>7
<1>10. Solves(g, D \cup {x})
  <2>1. ASSUME NEW y \in D \cup {x}
        PROVE  /\ Source[y] # None => Source[y] \in D
               /\ g[y] = Before(g, y) \o <<y>>
    <3>1. Source[y] # None => Source[y] \in D
      BY <1>5, <2>1 DEF Solves
    <3>2. Before(g, y) = Before(f, y)
      BY <3>1, <1>8 DEF Before
    <3>3. CASE y \in D
      BY <3>1, <3>2, <3>3, <1>5, <1>8 DEF Solves
    <3>4. CASE y = x
      BY <3>1, <3>2, <3>4, <1>9
    <3> QED  BY <3>3, <3>4
  <2> QED  BY <2>1, <1>4, <1>5 DEF Solves
<1> QED  BY <1>4, <1>10

LEMMA ChainEquation ==
    /\ Chain = [e \in Exec |-> (IF Source[e] = None THEN <<>> ELSE Chain[Source[e]]) \o <<e>>]
    /\ \A e \in Exec : Chain[e] = Before(Chain, e) \o <<e>>
<1> DEFINE Is(c) == c = [e \in Exec |-> (IF Source[e] = None THEN <<>> ELSE c[Source[e]]) \o <<e>>]
           Value0(e, v) == \E f, D : Solves(f, D) /\ e \in D /\ v = f[e]
           F == [e \in Exec |-> CHOOSE v : Value0(e, v)]
<1>1. \A e \in Exec : Value0(e, F[e])
  <2>1. \A e \in Exec : \E v : Value0(e, v)
    BY SolutionExists
  <2> HIDE DEF Value0
  <2> QED  BY <2>1
<1>2. ASSUME NEW f, NEW D, Solves(f, D), NEW e \in D PROVE F[e] = f[e]
  <2>1. PICK g, E : Solves(g, E) /\ e \in E /\ F[e] = g[e]
    BY <1>1, <1>2 DEF Solves
  <2> QED  BY <1>2, <2>1, SolutionsAgree
<1>3. ASSUME NEW e \in Exec PROVE F[e] = Before(F, e) \o <<e>>
  <2>1. PICK f, D : Solves(f, D) /\ e \in D /\ F[e] = f[e]
    BY <1>1
  <2>2. f[e] = Before(f, e) \o <<e>> /\ (Source[e] # None => Source[e] \in D)
    BY <2>1 DEF Solves
  <2> HIDE DEF F
  <2>3. Before(F, e) = Before(f, e)
    BY <1>2, <2>1, <2>2 DEF Before
  <2> QED  BY <2>1, <2>2, <2>3
<1>4. Is(F)
  <2>1. F = [e \in Exec |-> F[e]]
    OBVIOUS
  <2> HIDE DEF F
  <2> QED  BY <1>3, <2>1 DEF Before
<1>5. Is(Chain)
  <2> HIDE DEF F
  <2>1. Chain = CHOOSE c : Is(c)
    BY DEF Chain
  <2> HIDE DEF Is
  <2> QED  BY <1>4, <2>1
<1> QED  BY <1>5 DEF Before

\* A chain begins with a grid, ends with its executive, and each of it feeds the next.
ChainIs(ch, e) ==
    /\ ch \in Seq(Exec) /\ Len(ch) \in Nat \ {0} /\ ch[Len(ch)] = e
    /\ \A k \in 1 .. Len(ch) : ch[k] \in Exec
    /\ Source[ch[1]] = None
    /\ \A k \in 2 .. Len(ch) : Source[ch[k]] = ch[k - 1]

LEMMA ChainsAre ==
    ASSUME NEW e \in Exec
    PROVE  ChainIs(Chain[e], e)
<1> DEFINE S == {x \in Exec : ~ChainIs(Chain[x], x)}
<1>1. SUFFICES ASSUME S # {} PROVE FALSE
  OBVIOUS
<1>2. PICK x \in S : Source[x] \notin S
  <2>1. S \in SUBSET Exec
    OBVIOUS
  <2> HIDE DEF S
  <2> QED  BY <1>1, <2>1, AcyclicAssumption
<1>3. x \in Exec /\ ~ChainIs(Chain[x], x)
  OBVIOUS
<1>4. CASE Source[x] = None
  <2>1. Chain[x] = <<>> \o <<x>>
    BY <1>3, <1>4, ChainEquation DEF Before
  <2>2. Chain[x] = <<x>>
    BY <2>1
  <2>3. ChainIs(<<x>>, x)
    BY <1>3, <1>4 DEF ChainIs
  <2> QED  BY <2>2, <2>3, <1>3
<1>5. CASE Source[x] # None
  <2>1. PICK y : y = Source[x]
    OBVIOUS
  <2>2. y \in Exec
    BY <2>1, <1>3, <1>5, Sourced
  <2>3. ChainIs(Chain[y], y)
    BY <2>1, <2>2, <1>2
  <2>4. PICK ch, n : ch = Chain[y] /\ n = Len(ch)
    OBVIOUS
  <2>5. Chain[x] = ch \o <<x>>
    BY <2>1, <2>4, <1>3, <1>5, ChainEquation DEF Before
  <2>6. /\ ch \in Seq(Exec) /\ n \in Nat \ {0} /\ ch[n] = y /\ Source[ch[1]] = None
        /\ \A k \in 1 .. n : ch[k] \in Exec
        /\ \A k \in 2 .. n : Source[ch[k]] = ch[k - 1]
    BY <2>3, <2>4 DEF ChainIs
  <2>7. PICK l : l = ch \o <<x>>
    OBVIOUS
  <2>8. /\ l \in Seq(Exec) /\ Len(l) = n + 1 /\ l[n + 1] = x
        /\ \A k \in 1 .. n : l[k] = ch[k]
    BY <2>4, <2>6, <2>7, <1>3
  <2>9. ASSUME NEW k \in 2 .. n + 1 PROVE Source[l[k]] = l[k - 1]
    <3>1. CASE k = n + 1
      <4>1. l[k] = x /\ l[k - 1] = ch[n]
        BY <3>1, <2>6, <2>8
      <4> QED  BY <4>1, <2>1, <2>6
    <3>2. CASE k # n + 1
      <4>1. k \in 2 .. n /\ k - 1 \in 1 .. n
        BY <3>2, <2>6
      <4>2. k \in 1 .. n
        BY <4>1
      <4> QED  BY <4>1, <4>2, <2>6, <2>8
    <3> QED  BY <3>1, <3>2
  <2>10. ASSUME NEW k \in 1 .. n + 1 PROVE l[k] \in Exec
    <3>1. CASE k = n + 1
      BY <3>1, <2>8, <1>3
    <3>2. CASE k # n + 1
      <4>1. k \in 1 .. n
        BY <3>2, <2>6
      <4> QED  BY <4>1, <2>6, <2>8
    <3> QED  BY <3>1, <3>2
  <2>11. Source[l[1]] = None /\ n + 1 \in Nat \ {0}
    BY <2>6, <2>8
  <2>12. ChainIs(l, x)
    BY <2>8, <2>9, <2>10, <2>11 DEF ChainIs
  <2> QED  BY <2>5, <2>7, <2>12, <1>3
<1> QED  BY <1>4, <1>5

\* No executive comes twice in a chain.
LEMMA ChainOnce ==
    ASSUME NEW e \in Exec, NEW i \in 1 .. Len(Chain[e]), NEW j \in 1 .. i - 1
    PROVE  Chain[e][j] # Chain[e][i]
<1>1. PICK ch, n : ch = Chain[e] /\ n = Len(ch)
  OBVIOUS
<1>2. ChainIs(ch, e)
  BY <1>1, ChainsAre
<1>3. /\ n \in Nat /\ i \in 1 .. n /\ j \in 1 .. i - 1
      /\ \A k \in 1 .. n : ch[k] \in Exec
      /\ \A k \in 2 .. n : Source[ch[k]] = ch[k - 1]
  BY <1>1, <1>2 DEF ChainIs
<1> SUFFICES ASSUME ch[j] = ch[i] PROVE FALSE
  BY <1>1
<1> DEFINE S == {ch[k] : k \in j + 1 .. i}
<1>4. S \in SUBSET Exec /\ S # {}
  <2>1. \A k \in j + 1 .. i : k \in 1 .. n
    BY <1>3
  <2>2. i \in j + 1 .. i
    BY <1>3
  <2> QED  BY <1>3, <2>1, <2>2
<1>5. \A k \in j + 1 .. i : Source[ch[k]] \in S
  <2>1. SUFFICES ASSUME NEW k \in j + 1 .. i PROVE Source[ch[k]] \in S
    OBVIOUS
  <2>2. k \in 2 .. n /\ Source[ch[k]] = ch[k - 1]
    BY <1>3
  <2>3. CASE k = j + 1
    <3>1. ch[k - 1] = ch[i] /\ i \in j + 1 .. i
      BY <2>3, <1>3
    <3> QED  BY <3>1, <2>2
  <2>4. CASE k # j + 1
    <3>1. k - 1 \in j + 1 .. i
      BY <2>4, <1>3
    <3> QED  BY <3>1, <2>2
  <2> QED  BY <2>3, <2>4
<1>6. \A s \in S : Source[s] \in S
  BY <1>5
<1> HIDE DEF S
<1> QED  BY <1>4, <1>6, AcyclicAssumption

-------------------------------------------------------------------------------
(***************************************************************************)
(* The way of a rank through the controls: position i in the chain of      *)
(* control a, and the next statistic or getter, which is the next call.    *)
(***************************************************************************)
Ranks      == Cardinality(Rank)
Beginnings == 1 .. Len(Controls)
Path(a)    == Chain[Controls[a]]
Rest(a, i) == SubSeq(Path(a), i, Len(Path(a)))

Collects(a, i) == Kind[Path(a)[i]] \in {"sum", "get"}
Spots == {s \in Nat \X Nat : /\ s[1] \in Beginnings /\ s[2] \in 1 .. Len(Path(s[1]))
                             /\ Collects(s[1], s[2])}
Ahead(a, i) == {s \in Spots : s[1] > a \/ (s[1] = a /\ s[2] >= i)}

NotAfter(s, t) == s[1] < t[1] \/ (s[1] = t[1] /\ s[2] <= t[2])
Foremost(A, s) == s \in A /\ \A t \in A : NotAfter(s, t)

LEMMA Constants ==
    /\ StepMax \in Nat \ {0} /\ Ranks \in Nat \ {0} /\ Rank = 0 .. Ranks - 1
    /\ Root = 0 /\ Root \in Rank /\ IsFiniteSet(Rank)
<1>1. Ranks \in Nat
  BY RanksAreNumbers, FS_CardinalityType DEF Ranks
<1>2. 0 \in 0 .. Ranks - 1
  BY RanksAreNumbers, RootAssumption DEF Ranks
<1>3. Ranks # 0
  BY <1>1, <1>2
<1> QED  BY <1>1, <1>3, RanksAreNumbers, RootAssumption, ListAssumption DEF Ranks

LEMMA PathIs ==
    ASSUME NEW a \in Beginnings
    PROVE  /\ Path(a) \in Seq(Exec) /\ Len(Path(a)) \in Nat \ {0} /\ Controls[a] \in Exec
           /\ Path(a)[Len(Path(a))] = Controls[a]
           /\ \A k \in 1 .. Len(Path(a)) : Path(a)[k] \in Exec
           /\ Source[Path(a)[1]] = None
           /\ \A k \in 2 .. Len(Path(a)) : Source[Path(a)[k]] = Path(a)[k - 1]
           /\ \A k \in 1 .. Len(Path(a)) : \A j \in 1 .. k - 1 : Path(a)[j] # Path(a)[k]
<1>1. Controls[a] \in Exec
  BY ListAssumption DEF Beginnings
<1>2. ChainIs(Path(a), Controls[a])
  BY <1>1, ChainsAre DEF Path
<1>3. \A k \in 1 .. Len(Path(a)) : \A j \in 1 .. k - 1 : Path(a)[j] # Path(a)[k]
  BY <1>1, ChainOnce DEF Path
<1> QED  BY <1>1, <1>2, <1>3 DEF ChainIs

LEMMA RestIs ==
    ASSUME NEW a \in Beginnings, NEW i \in 1 .. Len(Path(a)) + 1
    PROVE  /\ Rest(a, i) \in Seq(Exec) /\ Len(Rest(a, i)) = Len(Path(a)) - i + 1
           /\ Rest(a, i) = <<>> <=> i = Len(Path(a)) + 1
           /\ i <= Len(Path(a)) => /\ Head(Rest(a, i)) = Path(a)[i]
                                   /\ Tail(Rest(a, i)) = Rest(a, i + 1)
           /\ Rest(a, 1) = Path(a)
           /\ \A k \in 1 .. Len(Path(a)) - i + 1 : Rest(a, i)[k] = Path(a)[i + k - 1]
<1>1. PICK p, n : p = Path(a) /\ n = Len(p)
  OBVIOUS
<1>2. p \in Seq(Exec) /\ n \in Nat \ {0} /\ i \in 1 .. n + 1
  BY <1>1, PathIs
<1>3. PICK t : t = SubSeq(p, i, n)
  OBVIOUS
<1>4. /\ t \in Seq(Exec) /\ Len(t) = n - i + 1
      /\ \A k \in 1 .. n - i + 1 : t[k] = p[i + k - 1]
  <2>1. t = [k \in 1 .. n - i + 1 |-> p[i + k - 1]]
    BY <1>1, <1>2, <1>3
  <2>2. \A k \in 1 .. n - i + 1 : i + k - 1 \in 1 .. n
    BY <1>2
  <2>3. \A k \in 1 .. n - i + 1 : p[i + k - 1] \in Exec
    BY <1>1, <1>2, <2>2
  <2>4. n - i + 1 \in Nat
    BY <1>2
  <2> QED  BY <2>1, <2>3, <2>4, IsASeq
<1>5. t = <<>> <=> i = n + 1
  BY <1>2, <1>4
<1>6. ASSUME i <= n
      PROVE  Head(t) = p[i] /\ Tail(t) = SubSeq(p, i + 1, n)
  <2>1. Head(t) = p[i]
    BY <1>2, <1>4, <1>6
  <2>2. Tail(t) = SubSeq(p, i + 1, n)
    <3>1. /\ Tail(t) \in Seq(Exec) /\ Len(Tail(t)) = n - i
          /\ \A k \in 1 .. n - i : Tail(t)[k] = t[k + 1]
      BY <1>2, <1>4, <1>5, <1>6
    <3>2. PICK u : u = SubSeq(p, i + 1, n)
      OBVIOUS
    <3>3. u = [k \in 1 .. n - i |-> p[i + k]]
      BY <1>1, <1>2, <3>2
    <3>4. \A k \in 1 .. n - i : Tail(t)[k] = p[i + k]
      BY <1>2, <1>4, <3>1
    <3>5. PICK l : l = Tail(t)
      OBVIOUS
    <3>6. l = [k \in 1 .. n - i |-> l[k]]
      <4>1. l \in Seq(Exec) /\ Len(l) = n - i
        BY <3>1, <3>5
      <4>2. l = [k \in 1 .. Len(l) |-> l[k]]
        BY <4>1, SeqDef
      <4> QED  BY <4>1, <4>2
    <3> QED  BY <3>2, <3>3, <3>4, <3>5, <3>6
  <2> QED  BY <2>1, <2>2
<1>7. SubSeq(p, 1, n) = p
  BY <1>1, <1>2
<1> QED  BY <1>1, <1>3, <1>4, <1>5, <1>6, <1>7 DEF Rest

\* What is left of a chain is a suffix of it.
LEMMA RestIsSuffix ==
    ASSUME NEW a \in Beginnings, NEW i \in 1 .. Len(Path(a)) + 1
    PROVE  \E e \in Exec : IsSuffix(Rest(a, i), Chain[e])
<1>1. PICK p, n, t, m : p = Path(a) /\ n = Len(p) /\ t = Rest(a, i) /\ m = Len(t)
  OBVIOUS
<1>2. /\ p \in Seq(Exec) /\ n \in Nat /\ t \in Seq(Exec) /\ m = n - i + 1 /\ i \in 1 .. n + 1
      /\ \A k \in 1 .. m : t[k] = p[i + k - 1]
  <2>1. p \in Seq(Exec) /\ n \in Nat /\ i \in 1 .. n + 1
    BY <1>1, PathIs
  <2>2. t \in Seq(Exec) /\ m = n - i + 1
    BY <1>1, RestIs
  <2>3. \A k \in 1 .. n - i + 1 : t[k] = p[i + k - 1]
    BY <1>1, RestIs
  <2> QED  BY <2>1, <2>2, <2>3
<1>3. PICK rt, rp : /\ rt = [k \in 1 .. m |-> t[(m - k) + 1]]
                    /\ rp = [k \in 1 .. n |-> p[(n - k) + 1]]
  OBVIOUS
<1>4. rt = Reverse(t) /\ rp = Reverse(p)
  BY <1>1, <1>3 DEF Reverse
<1>5. m \in 0 .. n
  BY <1>2
<1>6. Len(rt) = m /\ Len(rp) = n
  BY <1>2, <1>3, <1>5
<1>7. \A k \in 1 .. m : rt[k] = rp[k]
  <2>1. ASSUME NEW k \in 1 .. m PROVE rt[k] = rp[k]
    <3>1. (m - k) + 1 \in 1 .. m /\ k \in 1 .. n /\ (n - k) + 1 = i + ((m - k) + 1) - 1
      BY <1>2, <1>5
    <3> QED  BY <3>1, <1>2, <1>3
  <2> QED  BY <2>1
<1>8. SubSeq(rt, 1, m) = SubSeq(rp, 1, m)
  <2>1. SubSeq(rt, 1, m) = [k \in 1 .. m |-> rt[k]] /\ SubSeq(rp, 1, m) = [k \in 1 .. m |-> rp[k]]
    BY <1>5
  <2> QED  BY <2>1, <1>7
<1>9. IsSuffix(t, p)
  BY <1>4, <1>5, <1>6, <1>8 DEF IsSuffix, IsPrefix
<1>10. Controls[a] \in Exec
  BY PathIs
<1> QED  BY <1>1, <1>9, <1>10 DEF Path

\* Nothing is behind a getter but a writer, and nothing behind a writer.
LEMMA KindAt ==
    ASSUME NEW a \in Beginnings, NEW i \in 1 .. Len(Path(a))
    PROVE  /\ Path(a)[i] \in Exec /\ Kind[Path(a)[i]] \in {"grid", "sum", "get", "csv"}
           /\ Kind[Path(a)[i]] = "csv" => i = Len(Path(a))
           /\ i > 1 => Source[Path(a)[i]] = Path(a)[i - 1]
           /\ Kind[Path(a)[i]] # "grid" => i > 1
           /\ Kind[Path(a)[i]] \in {"sum", "get"} =>
                 Kind[Source[Path(a)[i]]] \in {"grid", "sum"} /\ Source[Path(a)[i]] \in Exec
<1>1. PICK p, n : p = Path(a) /\ n = Len(p)
  OBVIOUS
<1>2. /\ n \in Nat \ {0} /\ \A k \in 1 .. n : p[k] \in Exec
      /\ \A k \in 2 .. n : Source[p[k]] = p[k - 1]
      /\ Source[p[1]] = None
  BY <1>1, PathIs
<1>3. p[i] \in Exec /\ Kind[p[i]] \in {"grid", "sum", "get", "csv"}
  BY <1>1, <1>2, ChainAssumption
<1>4. i > 1 => Source[p[i]] = p[i - 1]
  BY <1>1, <1>2
<1>5. ASSUME Kind[p[i]] # "grid" PROVE i > 1
  <2>1. Source[p[i]] # None
    BY <1>3, <1>5, ChainAssumption
  <2>2. i # 1
    BY <2>1, <1>2
  <2> QED  BY <2>2, <1>1, <1>2
<1>6. ASSUME Kind[p[i]] = "csv", i # n PROVE FALSE
  <2>1. PICK j : j = i + 1
    OBVIOUS
  <2>2. j \in 2 .. n /\ j \in 1 .. n /\ j - 1 = i
    BY <2>1, <1>1, <1>2, <1>6
  <2>3. Source[p[j]] = p[i] /\ p[j] \in Exec
    BY <2>2, <1>2
  <2>4. Kind[Source[p[j]]] = "csv" /\ Source[p[j]] \in Exec
    BY <2>3, <1>3, <1>6
  <2>5. Kind[p[j]] # "grid"
    BY <2>3, <2>4, ChainAssumption
  <2>6. Kind[p[j]] \in {"sum", "get", "csv"}
    BY <2>3, <2>5, ChainAssumption
  <2> QED  BY <2>3, <2>4, <2>6, InputAssumption
<1>7. ASSUME Kind[p[i]] \in {"sum", "get"}
      PROVE  Kind[Source[p[i]]] \in {"grid", "sum"} /\ Source[p[i]] \in Exec
  <2>1. Kind[Source[p[i]]] \in {"grid", "sum"}
    BY <1>3, <1>7, InputAssumption
  <2>2. Kind[p[i]] # "grid"
    BY <1>7
  <2>3. Source[p[i]] # None
    BY <2>2, <1>3, ChainAssumption
  <2> QED  BY <2>1, <2>3, <1>3, Sourced
<1> QED  BY <1>1, <1>3, <1>4, <1>5, <1>6, <1>7

LEMMA AheadIs ==
    ASSUME NEW a \in Beginnings, NEW i \in 1 .. Len(Path(a)) + 1
    PROVE  /\ i <= Len(Path(a)) /\ ~Collects(a, i) => Ahead(a, i) = Ahead(a, i + 1)
           /\ i <= Len(Path(a)) /\ Collects(a, i) => Foremost(Ahead(a, i), <<a, i>>)
           /\ i = Len(Path(a)) + 1 => Ahead(a, i) = Ahead(a + 1, 1)
<1>1. PICK n : n = Len(Path(a))
  OBVIOUS
<1>2. n \in Nat /\ i \in 1 .. n + 1 /\ a \in Nat /\ i \in Nat
  BY <1>1, PathIs DEF Beginnings
<1>3. \A s \in Spots : /\ s[1] \in Nat /\ s[2] \in Nat \ {0} /\ Collects(s[1], s[2])
                       /\ s[1] = a => s[2] <= n
                       /\ s = <<s[1], s[2]>>
  <2>1. ASSUME NEW s \in Spots
        PROVE  /\ s[1] \in Nat /\ s[2] \in Nat \ {0} /\ Collects(s[1], s[2])
               /\ s[1] = a => s[2] <= n
               /\ s = <<s[1], s[2]>>
    <3>1. s \in Nat \X Nat /\ s[2] \in 1 .. Len(Path(s[1])) /\ Collects(s[1], s[2])
      BY DEF Spots
    <3>2. s[1] = a => s[2] \in 1 .. n
      BY <3>1, <1>1
    <3>3. s[1] \in Beginnings
      BY DEF Spots
    <3>4. Len(Path(s[1])) \in Nat
      BY <3>3, PathIs
    <3> QED  BY <3>1, <3>2, <3>4, <1>2
  <2> QED  BY <2>1
<1>4. ASSUME i <= n, ~Collects(a, i) PROVE Ahead(a, i) = Ahead(a, i + 1)
  <2>1. \A s \in Spots : s[1] = a => s[2] # i
    BY <1>3, <1>4
  <2>2. \A s \in Spots : (s[1] > a \/ (s[1] = a /\ s[2] >= i))
                            <=> (s[1] > a \/ (s[1] = a /\ s[2] >= i + 1))
    BY <1>2, <1>3, <2>1
  <2> QED  BY <2>2 DEF Ahead
<1>5. ASSUME i <= n, Collects(a, i) PROVE Foremost(Ahead(a, i), <<a, i>>)
  <2>1. PICK s : s = <<a, i>>
    OBVIOUS
  <2>2. s[1] = a /\ s[2] = i /\ s \in Nat \X Nat
    BY <2>1, <1>2
  <2>3. s \in Spots
    BY <2>2, <1>1, <1>2, <1>5 DEF Spots
  <2>4. s \in Ahead(a, i)
    BY <2>2, <2>3, <1>2 DEF Ahead
  <2>5. \A t \in Ahead(a, i) : NotAfter(s, t)
    BY <2>2, <1>2, <1>3 DEF Ahead, NotAfter
  <2> QED  BY <2>1, <2>4, <2>5 DEF Foremost
<1>6. ASSUME i = n + 1 PROVE Ahead(a, i) = Ahead(a + 1, 1)
  <2>1. \A s \in Spots : (s[1] > a \/ (s[1] = a /\ s[2] >= i))
                            <=> (s[1] > a + 1 \/ (s[1] = a + 1 /\ s[2] >= 1))
    BY <1>2, <1>3, <1>6
  <2> QED  BY <2>1 DEF Ahead
<1> QED  BY <1>1, <1>4, <1>5, <1>6

LEMMA NothingAhead == Ahead(Len(Controls) + 1, 1) = {}
<1>1. Len(Controls) \in Nat
  BY ListAssumption
<1>2. \A s \in Spots : s[1] \in 1 .. Len(Controls)
  BY DEF Spots, Beginnings
<1> QED  BY <1>1, <1>2 DEF Ahead

-------------------------------------------------------------------------------
(***************************************************************************)
(* The places of the program.  All that decides about the next collective  *)
(* is part of the place: the position in the controls and, in a statistic, *)
(* whose fields are gone through, which have been summed and which is at   *)
(* hand.                                                                   *)
(***************************************************************************)
NameSet == ToSet(Names)

Common == [step : Nat, at : Nat, i : Nat, master : Nat, name : NameSet \cup {End},
           summed : SUBSET NameSet]

Rec(s, a, i, m, n, d) ==
    [step |-> s, at |-> a, i |-> i, master |-> m, name |-> n, summed |-> d]
Base(s, a, i) == Rec(s, a, i, 0, End, {})

Place == [op : Ops \cup {"none"}, x : Common]
P(op, x) == [op |-> op, x |-> x]

\* The executive at hand.
Exe(x) == Path(x.at)[x.i]

\* The next call of a rank at position i in control a.
Opening(s, n) ==
    P(IF Kind[Path(s[1])[s[2]]] = "sum" THEN "coords" ELSE "indices", Base(n, s[1], s[2]))

Start(n, a, i) ==
    IF \E s \in Spots : Foremost(Ahead(a, i), s)
    THEN Opening(CHOOSE s \in Spots : Foremost(Ahead(a, i), s), n)
    ELSE P("report", Base(n, Len(Controls) + 1, 0))

GaveUp(x)  == Start(x.step, x.at + 1, 1)
Goes(x)    == Start(x.step, x.at, x.i + 1)

WithMaster(x)   == Rec(x.step, x.at, x.i, x.master + 1, End, x.summed)
WithField(x)    == Rec(x.step, x.at, x.i, x.master, First(x.summed), x.summed)
WithSum(x)      == Rec(x.step, x.at, x.i, x.master, End, x.summed \cup {x.name})
WithAll(x)      == Rec(x.step, x.at, x.i, 0, End, x.summed)

Op(p)  == p.op
How(p) == IF p.op \in {"next", "gather", "values"} THEN "all" ELSE "largest"

\* What follows when one rank that fails stops them all.
OrGiveUp(x, v, op) == IF v = 1 THEN GaveUp(x) ELSE P(op, x)

AfterNext(x) ==
    IF First(x.summed) # End THEN P("local", WithField(x))
    ELSE IF x.master + 1 = Ranks THEN P("post", WithAll(x))
    ELSE P("names", WithMaster(x))

AfterReport(x, v) ==
    IF v = 1 \/ x.step + 1 = StepMax THEN P("none", Base(x.step + 1, 1, 0))
                                     ELSE Start(x.step + 1, 1, 1)

\* Where the ranks go from place p when its call results in v.
After(p, v) ==
    LET x == p.x
    IN CASE p.op = "coords"  -> P("init", x)
         [] p.op = "init"    -> OrGiveUp(x, v, "size")
         [] p.op = "size"    -> P("work", x)
         [] p.op = "work"    -> OrGiveUp(x, v, "names")
         [] p.op = "names"   -> OrGiveUp(x, v, "next")
         [] p.op = "next"    -> AfterNext(x)
         [] p.op = "local"   -> P("gather", x)
         [] p.op = "gather"  -> P("new", x)
         [] p.op = "new"     -> P("add", WithSum(x))
         [] p.op = "add"     -> P("next", x)
         [] p.op = "post"    -> IF v = 1 THEN GaveUp(x) ELSE Goes(x)
         [] p.op = "indices" -> OrGiveUp(x, v, "extents")
         [] p.op = "extents" -> P("fields", x)
         [] p.op = "fields"  -> OrGiveUp(x, v, "values")
         [] p.op = "values"  -> Goes(x)
         [] p.op = "report"  -> AfterReport(x, v)
         [] OTHER            -> P("none", x)

T == INSTANCE CollectiveTrace

\* The labels of a rank that is in the chain of a control, and in a call of a statistic.
SumOps    == {"coords", "init", "size", "work", "names", "next", "local", "gather", "new",
              "add", "post"}
GetOps    == {"indices", "extents", "fields", "values"}
Walking   == SumOps \cup GetOps \cup {"exec", "wild"}
Summing   == {"names", "next", "local", "gather", "new", "add", "post"}
Mastering == Summing \ {"post"}
Fielding  == {"local", "gather", "new"}

LocusOf(l, x) ==
    CASE l \in Ops     -> P(l, x)
      [] l = "control" -> Start(x.step, x.at, 1)
      [] l = "exec"    -> Start(x.step, x.at, x.i)
      [] l = "wild"    -> GaveUp(x)
      [] OTHER         -> P("none", x)

\* What is common to the ranks, as a rank with these variables has it.
Shape(l, s, a, t, m, n, o) ==
    Rec(s, a, IF l \in Walking THEN Len(Path(a)) - Len(t) + 1 ELSE 0,
        IF l \in Mastering THEN m ELSE 0, IF l \in Fielding THEN n ELSE End,
        IF l \in Summing THEN DOMAIN o[Head(t)] ELSE {})

X(r) == Shape(pc[r], step[r], at[r], todo[r], master[r], name[r], out[r])

Loci   == [r \in Rank |-> LocusOf(pc[r], X(r))]
Inside == [r \in Rank |-> pc[r] \in Ops]

\* A statistic of a statistic finds all of it on the root.
SumOf(r, s)   == IF r = Root THEN Rank \X {s} ELSE {}
Part(r, g, s) == IF Kind[g] = "grid" THEN {<<r, s>>} ELSE SumOf(r, s)
Sends(r, x)   == IF Picks(Exe(x), r) THEN Part(r, Source[Exe(x)], x.step) ELSE {}

Value == Bit \cup NameSet \cup {End, None} \cup SUBSET (Rank \X Nat)
Call  == [op : Ops, value : Value]

\* What rank q contributes in a place.
Judged == {"init", "work", "names", "post", "indices", "fields", "report"}
Tacit  == {"coords", "size", "extents", "local", "new", "add"}

Allowed(p, q, v) ==
    CASE p.op \in Judged -> v \in Bit
      [] p.op \in Tacit  -> v = 0
      [] p.op = "next"   -> q = p.x.master => v = First(p.x.summed)
      [] p.op = "gather" -> v = Part(q, Source[Exe(p.x)], p.x.step)
      [] p.op = "values" -> v = Sends(q, p.x)
      [] OTHER           -> FALSE

Says == {t \in Place \X Rank \X Value : Allowed(t[1], t[2], t[3])}

\* The variables fit the place in the program.
Fits(l, x, t) ==
    /\ x.step <= StepMax /\ (l \notin Halted => x.step < StepMax)
    /\ x.at \in 1 .. Len(Controls) + 1
    /\ l \notin Walking => t = <<>> /\ x.i = 0
    /\ l \in Walking => /\ x.at \in Beginnings /\ x.i \in 1 .. Len(Path(x.at)) + 1
                        /\ t = Rest(x.at, x.i)
    /\ l \in SumOps => x.i <= Len(Path(x.at)) /\ Kind[Exe(x)] = "sum"
    /\ l \in GetOps => x.i <= Len(Path(x.at)) /\ Kind[Exe(x)] = "get"
    /\ l \in Mastering => x.master < Ranks /\ (x.master > 0 => x.summed = NameSet)
    /\ l = "post" => x.summed = NameSet
    /\ l \in Fielding => x.name \in NameSet
    /\ l = "report" => x.at = Len(Controls) + 1

\* No two ranks select a value of a grid.
Single == \A p, q \in Selected : p = q

\* Executive e has what it should have on rank r in step s.
Fine(r, e, s, o) ==
    /\ Kind[e] = "grid" => o[e] = Fields(r, s)
    /\ Kind[e] = "sum" => o[e] = [n \in NameSet |-> SumOf(r, s)]
    /\ Kind[e] = "get" /\ Single => o[e] = Whole(e, s)

Data(r, l, x, o, w) ==
    /\ \A k \in 1 .. x.i - 1 : Fine(r, Path(x.at)[k], x.step, o)
    /\ l \in Summing => o[Exe(x)] = [n \in x.summed |-> SumOf(r, x.step)]
    /\ l = "new" => w = SumOf(r, x.step)

Sound(r, l, x, t, o, w) == x \in Common /\ Fits(l, x, t) /\ Data(r, l, x, o, w)

\* The types of what no place tells.
OutTyped(o) ==
    /\ o = [e \in Exec |-> o[e]]
    /\ \A e \in Exec :
         IF Kind[e] \in {"grid", "sum"}
         THEN /\ DOMAIN o[e] \subseteq NameSet
              /\ \A n \in DOMAIN o[e] : o[e][n] \subseteq Contribution
         ELSE o[e] \in Seq(SUBSET Contribution)

Typing(m, n, w, c, o, u) ==
    /\ m \in 0 .. Ranks /\ n \in NameSet \cup {End} /\ w \subseteq Contribution
    /\ c = 0 /\ u \in Bit /\ OutTyped(o)

\* As functions, the variables of the ranks are what they are on each rank.
Functions ==
    /\ pc = [q \in Rank |-> pc[q]] /\ at = [q \in Rank |-> at[q]]
    /\ todo = [q \in Rank |-> todo[q]] /\ master = [q \in Rank |-> master[q]]
    /\ name = [q \in Rank |-> name[q]] /\ work = [q \in Rank |-> work[q]]
    /\ iret = [q \in Rank |-> iret[q]] /\ out = [q \in Rank |-> out[q]]
    /\ status = [q \in Rank |-> status[q]] /\ step = [q \in Rank |-> step[q]]

AllSound ==
    \A r \in Rank : /\ pc[r] \in Labels
                    /\ Sound(r, pc[r], X(r), todo[r], out[r], work[r])
                    /\ Typing(master[r], name[r], work[r], iret[r], out[r], status[r])

Typed == Functions /\ calls \in [Rank -> Seq(Call)] /\ AllSound

OnTrace == T!Together(calls, Inside, Loci, Says)

\* No failure makes one rank give up alone (executive.c:815-845), and none makes the master give
\* up while the others go on (abstract_stats.c:411): what fails is told to all the ranks, or
\* has no call of the chain after it, as in a writer.
Shared == Faults \cap {"output", "local", "new", "add"} = {}

\* A rank has released what it has never allocated, and all are stopped.
Crashed == (\A r \in Rank : pc[r] = "crashed") /\ Matched

Course == Shared /\ ((Typed /\ OnTrace) \/ (TypeOK /\ Crashed))

-------------------------------------------------------------------------------
(***************************************************************************)
(* The places are well formed.                                             *)
(***************************************************************************)
LEMMA SmallestExists ==
    ASSUME NEW V, V \subseteq Nat, V # {}
    PROVE  \E v \in V : \A w \in V : v <= w
<1> DEFINE Less == {ss \in Nat \X Nat : ss[1] < ss[2]}
<1>1. IsWellFoundedOn(Less, Nat)
  BY NatLessThanWellFounded DEF OpToRel
<1>2. PICK v \in V : \A w \in V : <<w, v>> \notin Less
  BY <1>1, WFMin
<1>3. \A w \in V : v <= w
  <2>1. ASSUME NEW w \in V PROVE v <= w
    <3>1. <<w, v>> \in Nat \X Nat /\ <<w, v>>[1] = w /\ <<w, v>>[2] = v
      OBVIOUS
    <3>2. ~(w < v)
      BY <3>1, <1>2
    <3>3. v \in Nat /\ w \in Nat
      OBVIOUS
    <3> QED  BY <3>2, <3>3
  <2> QED  BY <2>1
<1> QED  BY <1>3

\* The next field to sum, or the end.
LEMMA FirstIs ==
    ASSUME NEW d
    PROVE  /\ First(d) = End => NameSet \subseteq d
           /\ NameSet \subseteq d => First(d) = End
           /\ First(d) # End => First(d) \in NameSet /\ First(d) \notin d
           /\ End \notin NameSet
<1>1. /\ End \notin NameSet /\ NameSet = {Names[k] : k \in DOMAIN Names}
      /\ DOMAIN Names = 1 .. Len(Names) /\ Len(Names) \in Nat
  BY ListAssumption DEF NameSet, ToSet, End
<1>2. PICK U : U = Unsummed(d)
  OBVIOUS
<1>3. U = {k \in DOMAIN Names : Names[k] \notin d}
  BY <1>2 DEF Unsummed
<1>4. CASE U = {}
  <2>1. First(d) = End /\ NameSet \subseteq d
    BY <1>1, <1>2, <1>3, <1>4 DEF First
  <2> QED  BY <2>1, <1>1
<1>5. CASE U # {}
  <2>1. U \subseteq Nat
    BY <1>1, <1>3
  <2>2. \E k \in U : \A j \in U : k <= j
    BY <1>5, <2>1, SmallestExists
  <2>3. PICK k : k = CHOOSE m \in U : \A j \in U : m <= j
    OBVIOUS
  <2>4. k \in U
    BY <2>2, <2>3
  <2>5. First(d) = Names[k]
    BY <1>2, <1>5, <2>3 DEF First
  <2>6. Names[k] \in NameSet /\ Names[k] \notin d
    BY <1>1, <1>3, <2>4
  <2> QED  BY <2>5, <2>6, <1>1
<1> QED  BY <1>4, <1>5

LEMMA RecIs ==
    ASSUME NEW s, NEW a, NEW i, NEW m, NEW n, NEW d
    PROVE  LET x == Rec(s, a, i, m, n, d) IN
           /\ x.step = s /\ x.at = a /\ x.i = i /\ x.master = m /\ x.name = n /\ x.summed = d
           /\ s \in Nat /\ a \in Nat /\ i \in Nat /\ m \in Nat /\ n \in NameSet \cup {End}
              /\ d \subseteq NameSet => x \in Common
<1> DEFINE x == Rec(s, a, i, m, n, d)
<1>1. /\ x.step = s /\ x.at = a /\ x.i = i /\ x.master = m /\ x.name = n /\ x.summed = d
  BY DEF Rec
<1>2. s \in Nat /\ a \in Nat /\ i \in Nat /\ m \in Nat /\ n \in NameSet \cup {End}
         /\ d \in SUBSET NameSet => x \in Common
  BY DEF Rec, Common
<1> QED  BY <1>1, <1>2

LEMMA CommonIs ==
    ASSUME NEW x \in Common
    PROVE  /\ x.step \in Nat /\ x.at \in Nat /\ x.i \in Nat /\ x.master \in Nat
           /\ x.name \in NameSet \cup {End} /\ x.summed \subseteq NameSet
           /\ x = Rec(x.step, x.at, x.i, x.master, x.name, x.summed)
BY DEF Common, Rec

LEMMA BaseIs ==
    ASSUME NEW s, NEW a, NEW i
    PROVE  LET x == Base(s, a, i) IN
           /\ x.step = s /\ x.at = a /\ x.i = i /\ x.master = 0 /\ x.name = End /\ x.summed = {}
           /\ s \in Nat /\ a \in Nat /\ i \in Nat => x \in Common
BY RecIs DEF Base

LEMMA PlaceTyped ==
    ASSUME NEW x \in Common, NEW op \in Ops \cup {"none"}
    PROVE  P(op, x) \in Place /\ P(op, x).op = op /\ P(op, x).x = x
BY DEF P, Place

LEMMA PIs == ASSUME NEW x, NEW op PROVE P(op, x).op = op /\ P(op, x).x = x
BY DEF P

LEMMA StartIs ==
    ASSUME NEW n
    PROVE  /\ \A a \in Beginnings : \A i \in 1 .. Len(Path(a)) + 1 :
                 /\ i <= Len(Path(a)) /\ ~Collects(a, i) => Start(n, a, i) = Start(n, a, i + 1)
                 /\ i <= Len(Path(a)) /\ Collects(a, i) => Start(n, a, i) = Opening(<<a, i>>, n)
                 /\ i = Len(Path(a)) + 1 => Start(n, a, i) = Start(n, a + 1, 1)
           /\ Start(n, Len(Controls) + 1, 1) = P("report", Base(n, Len(Controls) + 1, 0))
           /\ n \in Nat => \A a, i : Start(n, a, i) \in Place
<1>1. ASSUME NEW a \in Beginnings, NEW i \in 1 .. Len(Path(a)) + 1
      PROVE  /\ i <= Len(Path(a)) /\ ~Collects(a, i) => Start(n, a, i) = Start(n, a, i + 1)
             /\ i <= Len(Path(a)) /\ Collects(a, i) => Start(n, a, i) = Opening(<<a, i>>, n)
             /\ i = Len(Path(a)) + 1 => Start(n, a, i) = Start(n, a + 1, 1)
  <2>1. i <= Len(Path(a)) /\ ~Collects(a, i) => Start(n, a, i) = Start(n, a, i + 1)
    BY AheadIs DEF Start
  <2>2. i = Len(Path(a)) + 1 => Start(n, a, i) = Start(n, a + 1, 1)
    BY AheadIs DEF Start
  <2>3. ASSUME i <= Len(Path(a)), Collects(a, i)
        PROVE  Start(n, a, i) = Opening(<<a, i>>, n)
    <3>1. PICK A, s : A = Ahead(a, i) /\ s = <<a, i>>
      OBVIOUS
    <3>2. Foremost(A, s)
      BY <2>3, <3>1, AheadIs
    <3>3. s \in Spots /\ A \subseteq Spots
      BY <3>1, <3>2 DEF Foremost, Ahead
    <3>4. ASSUME NEW t \in Spots, Foremost(A, t) PROVE t = s
      <4>1. NotAfter(s, t) /\ NotAfter(t, s)
        BY <3>2, <3>4 DEF Foremost
      <4>2. s \in Nat \X Nat /\ t \in Nat \X Nat
        BY <3>3 DEF Spots
      <4> QED  BY <4>1, <4>2 DEF NotAfter
    <3>5. s = CHOOSE t \in Spots : Foremost(A, t)
      BY <3>2, <3>3, <3>4
    <3> QED  BY <3>1, <3>2, <3>3, <3>5 DEF Start
  <2> QED  BY <2>1, <2>2, <2>3
<1>2. Start(n, Len(Controls) + 1, 1) = P("report", Base(n, Len(Controls) + 1, 0))
  BY NothingAhead DEF Start, Foremost
<1>3. ASSUME n \in Nat, NEW a, NEW i PROVE Start(n, a, i) \in Place
  <2>1. \A s \in Spots : Opening(s, n) \in Place
    <3>1. ASSUME NEW s \in Spots PROVE Opening(s, n) \in Place
      <4>1. s[1] \in Nat /\ s[2] \in Nat
        BY DEF Spots
      <4>2. Base(n, s[1], s[2]) \in Common
        BY <4>1, <1>3, BaseIs
      <4>3. "coords" \in Ops /\ "indices" \in Ops
        BY DEF Ops
      <4> QED  BY <4>2, <4>3, PlaceTyped DEF Opening
    <3> QED  BY <3>1
  <2>2. P("report", Base(n, Len(Controls) + 1, 0)) \in Place
    <3>1. Len(Controls) + 1 \in Nat /\ "report" \in Ops
      BY ListAssumption DEF Ops
    <3> QED  BY <3>1, <1>3, BaseIs, PlaceTyped
  <2>3. CASE \E s \in Spots : Foremost(Ahead(a, i), s)
    <3>1. PICK t : t = CHOOSE s \in Spots : Foremost(Ahead(a, i), s)
      OBVIOUS
    <3>2. t \in Spots
      BY <3>1, <2>3
    <3>3. Start(n, a, i) = Opening(t, n)
      BY <3>1, <2>3 DEF Start
    <3> QED  BY <3>2, <3>3, <2>1
  <2>4. CASE ~\E s \in Spots : Foremost(Ahead(a, i), s)
    BY <2>2, <2>4 DEF Start
  <2> QED  BY <2>3, <2>4
<1> QED  BY <1>1, <1>2, <1>3

LEMMA LabelFacts ==
    /\ Ops = SumOps \cup GetOps \cup {"report"}
    /\ Ops = Judged \cup Tacit \cup {"next", "gather", "values"}
    /\ Labels = Ops \cup {"control", "exec", "wild"} \cup Halted
    /\ {"control", "exec", "wild"} \cap (Ops \cup Halted) = {} /\ Ops \cap Halted = {}
    /\ {"control", "report", "none"} \cap Walking = {} /\ Halted \cap Walking = {}
    /\ Walking \cap Ops = SumOps \cup GetOps /\ SumOps \cap GetOps = {}
    /\ Fielding \subseteq Mastering /\ Mastering \subseteq Summing /\ Summing \subseteq SumOps
    /\ Walking \subseteq Labels
<1>1. Ops = SumOps \cup GetOps \cup {"report"}
  BY DEF Ops, SumOps, GetOps
<1>2. Ops = Judged \cup Tacit \cup {"next", "gather", "values"}
  BY DEF Ops, Judged, Tacit
<1>3. Labels = Ops \cup {"control", "exec", "wild"} \cup Halted
  BY DEF Labels
<1>4. {"control", "exec", "wild"} \cap (Ops \cup Halted) = {} /\ Ops \cap Halted = {}
  BY DEF Ops, Halted
<1>5. {"control", "report", "none"} \cap Walking = {} /\ Halted \cap Walking = {}
  BY DEF Walking, SumOps, GetOps, Halted
<1>6. Walking \cap Ops = SumOps \cup GetOps /\ SumOps \cap GetOps = {}
  BY DEF Walking, SumOps, GetOps, Ops
<1>7. Fielding \subseteq Mastering /\ Mastering \subseteq Summing /\ Summing \subseteq SumOps
  BY DEF Fielding, Mastering, Summing, SumOps
<1>8. Walking \subseteq Labels
  BY DEF Walking, SumOps, GetOps, Labels, Ops
<1> QED  BY <1>1, <1>2, <1>3, <1>4, <1>5, <1>6, <1>7, <1>8

LEMMA LocusIs ==
    ASSUME NEW x
    PROVE  /\ \A l \in Ops : LocusOf(l, x) = P(l, x)
           /\ LocusOf("control", x) = Start(x.step, x.at, 1)
           /\ LocusOf("exec", x) = Start(x.step, x.at, x.i)
           /\ LocusOf("wild", x) = GaveUp(x)
           /\ \A l \in Halted : LocusOf(l, x) = P("none", x)
<1>1. \A l \in Ops : LocusOf(l, x) = P(l, x)
  BY DEF LocusOf, Ops
<1>2. /\ LocusOf("control", x) = Start(x.step, x.at, 1)
      /\ LocusOf("exec", x) = Start(x.step, x.at, x.i)
      /\ LocusOf("wild", x) = GaveUp(x)
  BY DEF LocusOf, Ops
<1>3. \A l \in Halted : LocusOf(l, x) = P("none", x)
  BY DEF LocusOf, Ops, Halted
<1> QED  BY <1>1, <1>2, <1>3

LEMMA LocusTyped ==
    ASSUME NEW x \in Common, NEW l \in Labels
    PROVE  LocusOf(l, x) \in Place
<1>1. x.step \in Nat
  BY CommonIs
<1>2. CASE l \in Ops \cup Halted
  BY <1>2, LocusIs, PlaceTyped
<1>3. CASE l \in {"control", "exec", "wild"}
  BY <1>1, <1>3, LocusIs, StartIs DEF GaveUp
<1> QED  BY <1>2, <1>3, LabelFacts

\* What is common to the ranks, label by label.
LEMMA ShapeIs ==
    ASSUME NEW l, NEW s, NEW a, NEW t, NEW m, NEW n, NEW o
    PROVE  /\ l \in Walking \ Summing =>
                 Shape(l, s, a, t, m, n, o) = Base(s, a, Len(Path(a)) - Len(t) + 1)
           /\ l \notin Walking => Shape(l, s, a, t, m, n, o) = Base(s, a, 0)
           /\ l \in Mastering \ Fielding =>
                 Shape(l, s, a, t, m, n, o) =
                    Rec(s, a, Len(Path(a)) - Len(t) + 1, m, End, DOMAIN o[Head(t)])
           /\ l \in Fielding =>
                 Shape(l, s, a, t, m, n, o) =
                    Rec(s, a, Len(Path(a)) - Len(t) + 1, m, n, DOMAIN o[Head(t)])
           /\ l = "post" =>
                 Shape(l, s, a, t, m, n, o) =
                    Rec(s, a, Len(Path(a)) - Len(t) + 1, 0, End, DOMAIN o[Head(t)])
<1>1. Summing \subseteq Walking /\ Mastering \subseteq Summing /\ Fielding \subseteq Mastering
      /\ "post" \in Summing /\ "post" \notin Mastering
  BY DEF Summing, Walking, SumOps, Mastering, Fielding
<1>2. l \in Walking \ Summing =>
         Shape(l, s, a, t, m, n, o) = Base(s, a, Len(Path(a)) - Len(t) + 1)
  BY <1>1 DEF Shape, Base
<1>3. l \notin Walking => Shape(l, s, a, t, m, n, o) = Base(s, a, 0)
  BY <1>1 DEF Shape, Base
<1>4. l \in Mastering \ Fielding =>
         Shape(l, s, a, t, m, n, o) =
            Rec(s, a, Len(Path(a)) - Len(t) + 1, m, End, DOMAIN o[Head(t)])
  BY <1>1 DEF Shape
<1>5. l \in Fielding =>
         Shape(l, s, a, t, m, n, o) =
            Rec(s, a, Len(Path(a)) - Len(t) + 1, m, n, DOMAIN o[Head(t)])
  BY <1>1 DEF Shape
<1>6. l = "post" =>
         Shape(l, s, a, t, m, n, o) =
            Rec(s, a, Len(Path(a)) - Len(t) + 1, 0, End, DOMAIN o[Head(t)])
  BY <1>1 DEF Shape
<1> QED  BY <1>2, <1>3, <1>4, <1>5, <1>6

-------------------------------------------------------------------------------
(***************************************************************************)
(* What an action of rank r does to the place of r.                        *)
(***************************************************************************)
Meets(r)  == T!Met(Loci[r], calls, Len(calls[r]))
Beyond(r) == After(Loci[r], T!Result(Loci[r], calls, Len(calls[r])))

\* w is v with another value for rank r, or the same.
Keeps(v, w, r) == w = [q \in Rank |-> IF q = r THEN w[r] ELSE v[q]]

Frame(r) ==
    /\ Keeps(pc, pc', r) /\ Keeps(at, at', r) /\ Keeps(todo, todo', r)
    /\ Keeps(master, master', r) /\ Keeps(name, name', r) /\ Keeps(work, work', r)
    /\ Keeps(iret, iret', r) /\ Keeps(out, out', r) /\ Keeps(status, status', r)
    /\ Keeps(step, step', r)

\* Rank r gets to label l, with y as what is common; the collective it is in, if any,
\* leads there, and it enters the collective of the place, if it waits there.
Turn(r, l, y) ==
    /\ l \in Labels /\ Sound(r, l, y, todo'[r], out'[r], work'[r])
    /\ pc'[r] = l /\ X(r)' = y
    /\ IF pc[r] \in Ops THEN Meets(r) /\ LocusOf(l, y) = Beyond(r)
                        ELSE LocusOf(l, y) = Loci[r]
    /\ IF l \in Ops THEN \E v \in Value : Enter(r, l, v) /\ Allowed(P(l, y), r, v)
                    ELSE calls' = calls

\* The variables of rank r keep their types.
TypingKept(r) ==
    Typing(master'[r], name'[r], work'[r], iret'[r], out'[r], status'[r])

Turns(r) == Frame(r) /\ TypingKept(r) /\ \E l, y : Turn(r, l, y)

Crash(r) == Release(r) /\ pc' = [q \in Rank |-> "crashed"]

LEMMA OthersStay ==
    ASSUME NEW r \in Rank, Frame(r), NEW q \in Rank, q # r
    PROVE  /\ pc'[q] = pc[q] /\ todo'[q] = todo[q] /\ master'[q] = master[q]
           /\ name'[q] = name[q] /\ work'[q] = work[q] /\ iret'[q] = iret[q]
           /\ out'[q] = out[q] /\ status'[q] = status[q] /\ X(q)' = X(q)
<1>1. /\ pc'[q] = pc[q] /\ todo'[q] = todo[q] /\ master'[q] = master[q]
      /\ name'[q] = name[q] /\ work'[q] = work[q] /\ iret'[q] = iret[q]
      /\ out'[q] = out[q] /\ status'[q] = status[q] /\ at'[q] = at[q] /\ step'[q] = step[q]
  BY DEF Frame, Keeps
<1>2. X(q)' = X(q)
  BY <1>1 DEF X
<1> QED  BY <1>1, <1>2

LEMMA PathsTyped ==
    ASSUME Typed
    PROVE  /\ Loci \in T!Paths /\ Inside \in [Rank -> BOOLEAN] /\ calls \in T!Lists(Call)
           /\ \A r \in Rank : /\ pc[r] \in Labels /\ Loci[r] = LocusOf(pc[r], X(r))
                              /\ (Inside[r] <=> pc[r] \in Ops) /\ X(r) \in Common
<1>1. \A r \in Rank : pc[r] \in Labels /\ X(r) \in Common
  BY DEF Typed, AllSound, Sound
<1>2. \A r \in Rank : LocusOf(pc[r], X(r)) \in Place
  BY <1>1, LocusTyped
<1>3. calls \in T!Lists(Call)
  BY DEF Typed, T!Lists
<1>4. /\ Loci \in T!Paths
      /\ \A r \in Rank : Loci[r] = LocusOf(pc[r], X(r))
  BY <1>2 DEF Loci, T!Paths
<1>5. \A r \in Rank : Inside[r] <=> pc[r] \in Ops
  BY DEF Inside
<1>6. Inside \in [Rank -> BOOLEAN]
  BY DEF Inside
<1> QED  BY <1>1, <1>3, <1>4, <1>5, <1>6

LEMMA EnterIs ==
    ASSUME Typed, NEW r \in Rank, NEW op \in Ops, NEW v \in Value, Enter(r, op, v)
    PROVE  /\ [op |-> op, value |-> v] \in Call
           /\ calls' = T!Shorter(T!Longer(calls, r, [op |-> op, value |-> v]))
           /\ calls' \in T!Lists(Call)
<1>1. [op |-> op, value |-> v] \in Call
  BY DEF Call
<1>2. calls' = T!Shorter(T!Longer(calls, r, [op |-> op, value |-> v]))
  BY DEF Enter, T!Shorter, T!Longer, T!Past, T!Tails
<1>3. calls \in T!Lists(Call)
  BY PathsTyped
<1> QED  BY <1>1, <1>2, <1>3, T!LastIsNew

LEMMA TurnKeepsTrace ==
    ASSUME Typed, OnTrace, NEW r \in Rank, Turns(r)
    PROVE  OnTrace' /\ calls' \in [Rank -> Seq(Call)]
<1>1. PICK l, y : Turn(r, l, y) /\ Frame(r)
  BY DEF Turns
<1>2. PICK p : p = LocusOf(l, y)
  OBVIOUS
<1>3. /\ Loci \in T!Paths /\ Inside \in [Rank -> BOOLEAN] /\ calls \in T!Lists(Call)
      /\ p \in Place /\ Root \in Rank /\ l \in Labels
  BY <1>1, <1>2, PathsTyped, LocusTyped, Constants DEF Turn, Sound
<1>4. Loci' = T!Moved(Loci, r, p)
  <2>1. Loci' = [q \in Rank |-> LocusOf(pc'[q], X(q)')]
    BY DEF Loci
  <2>2. \A q \in Rank : LocusOf(pc'[q], X(q)') = IF q = r THEN p ELSE Loci[q]
    BY <1>1, <1>2, OthersStay DEF Turn, Loci
  <2>3. Loci' = [q \in Rank |-> IF q = r THEN p ELSE Loci[q]]
    BY <2>1, <2>2
  <2>4. T!Moved(Loci, r, p) = [q \in Rank |-> IF q = r THEN p ELSE Loci[q]]
    BY <1>3 DEF T!Moved, T!Paths
  <2> QED  BY <2>3, <2>4
<1>5. PICK b \in BOOLEAN : b <=> l \in Ops
  OBVIOUS
<1>6. Inside' = [Inside EXCEPT ![r] = b]
  <2>1. Inside' = [q \in Rank |-> pc'[q] \in Ops]
    BY DEF Inside, Ops
  <2>2. \A q \in Rank : (pc'[q] \in Ops) <=> (IF q = r THEN b ELSE Inside[q])
    BY <1>1, <1>5, OthersStay DEF Turn, Inside
  <2>3. \A q \in Rank : (pc'[q] \in Ops) = (IF q = r THEN b ELSE Inside[q])
    BY <2>2, <1>3
  <2>4. Inside' = [q \in Rank |-> IF q = r THEN b ELSE Inside[q]]
    BY <2>1, <2>3
  <2> QED  BY <2>4, <1>3
<1>7. IF Inside[r] THEN /\ T!Met(Loci[r], calls, Len(calls[r]))
                        /\ p = After(Loci[r], T!Result(Loci[r], calls, Len(calls[r])))
                   ELSE p = Loci[r]
  BY <1>1, <1>2, PathsTyped DEF Turn, Meets, Beyond
<1>8. IF b THEN \E e \in Call : /\ calls' = T!Shorter(T!Longer(calls, r, e))
                                /\ e.op = Op(p) /\ <<p, r, e.value>> \in Says
           ELSE calls' = calls
  <2>1. CASE ~b
    BY <2>1, <1>1, <1>5 DEF Turn
  <2>2. CASE b
    <3>1. PICK v \in Value : Enter(r, l, v) /\ Allowed(P(l, y), r, v) /\ l \in Ops
      BY <2>2, <1>1, <1>5 DEF Turn
    <3>2. PICK e : e = [op |-> l, value |-> v]
      OBVIOUS
    <3>3. e \in Call /\ calls' = T!Shorter(T!Longer(calls, r, e))
      BY <3>1, <3>2, EnterIs
    <3>4. p = P(l, y)
      BY <3>1, <1>2, LocusIs
    <3>5. e.op = Op(p) /\ e.value = v
      BY <3>2, <3>4 DEF Op, P
    <3>6. <<p, r, v>> \in Says
      BY <3>1, <3>4, <1>3 DEF Says
    <3> QED  BY <2>2, <3>3, <3>5, <3>6
  <2> QED  BY <2>1, <2>2
<1>9. T!Together(calls', [Inside EXCEPT ![r] = b], T!Moved(Loci, r, p), Says)
  BY <1>3, <1>7, <1>8, T!TogetherMoves DEF OnTrace
<1>10. OnTrace'
  BY <1>4, <1>6, <1>9 DEF OnTrace
<1>11. calls' \in T!Lists(Call)
  BY <1>1, <1>3, EnterIs DEF Turn
<1> QED  BY <1>10, <1>11 DEF T!Lists

\* The types follow from the turn.
LEMMA TurnTyped ==
    ASSUME Typed, OnTrace, NEW r \in Rank, Turns(r)
    PROVE  Typed'
<1>1. PICK l, y : Turn(r, l, y) /\ Frame(r) /\ TypingKept(r)
  BY DEF Turns
<1>2. calls' \in [Rank -> Seq(Call)]
  BY TurnKeepsTrace
<1>3. Functions'
  <2>1. ASSUME NEW v, NEW w, Keeps(v, w, r) PROVE w = [q \in Rank |-> w[q]]
    BY <2>1 DEF Keeps
  <2> QED  BY <2>1, <1>1 DEF Frame, Functions
<1>4. ASSUME NEW q \in Rank
      PROVE  /\ pc'[q] \in Labels
             /\ Sound(q, pc'[q], X(q)', todo'[q], out'[q], work'[q])
             /\ Typing(master'[q], name'[q], work'[q], iret'[q], out'[q], status'[q])
  <2>1. CASE q = r
    BY <2>1, <1>1 DEF Turn, TypingKept
  <2>2. CASE q # r
    BY <2>2, <1>1, OthersStay DEF Typed, AllSound
  <2> QED  BY <2>1, <2>2
<1>5. AllSound'
  BY <1>4 DEF AllSound
<1> QED  BY <1>2, <1>3, <1>5 DEF Typed

-------------------------------------------------------------------------------
(***************************************************************************)
(* What the ranks contribute, and what comes of it.                        *)
(***************************************************************************)
LEMMA AllowedIs ==
    ASSUME NEW l \in Ops, NEW x, NEW q, NEW v
    PROVE  /\ l \in Judged => (Allowed(P(l, x), q, v) <=> v \in Bit)
           /\ l \in Tacit => (Allowed(P(l, x), q, v) <=> v = 0)
           /\ l = "next" => (Allowed(P(l, x), q, v) <=> (q = x.master => v = First(x.summed)))
           /\ l = "gather" => (Allowed(P(l, x), q, v) <=> v = Part(q, Source[Exe(x)], x.step))
           /\ l = "values" => (Allowed(P(l, x), q, v) <=> v = Sends(q, x))
<1>1. PICK p : p = P(l, x)
  OBVIOUS
<1>2. p.op = l /\ p.x = x
  BY <1>1, PIs
<1>3. CASE l \in Judged
  BY <1>1, <1>2, <1>3 DEF Allowed, Judged, Tacit
<1>4. CASE l \in Tacit
  BY <1>1, <1>2, <1>4 DEF Allowed, Judged, Tacit
<1>5. CASE l = "next"
  BY <1>1, <1>2, <1>5 DEF Allowed, Judged, Tacit
<1>6. CASE l = "gather"
  BY <1>1, <1>2, <1>6 DEF Allowed, Judged, Tacit
<1>7. CASE l = "values"
  BY <1>1, <1>2, <1>7 DEF Allowed, Judged, Tacit
<1>8. /\ l \in Judged => l \notin Tacit \cup {"next", "gather", "values"}
      /\ l \in Tacit => l \notin {"next", "gather", "values"}
  BY DEF Judged, Tacit
<1> QED  BY <1>3, <1>4, <1>5, <1>6, <1>7, <1>8, LabelFacts

LEMMA HowIs ==
    ASSUME NEW l \in Ops, NEW x
    PROVE  /\ l \in {"next", "gather", "values"} => How(P(l, x)) = "all"
           /\ l \in Judged \cup Tacit => How(P(l, x)) = "largest"
BY PIs DEF How, Judged, Tacit

\* A rank in a call that all have entered: all contributed what is allowed.
LEMMA GivenAllowed ==
    ASSUME Typed, OnTrace, NEW r \in Rank, pc[r] \in Ops, NEW q \in Rank,
           Len(calls[q]) >= Len(calls[r])
    PROVE  Allowed(P(pc[r], X(r)), q, Given(q, r))
<1>1. Loci[r] = P(pc[r], X(r)) /\ Inside[r] /\ calls \in T!Lists(Call)
  BY PathsTyped, LocusIs
<1>2. PICK n : n = Len(calls[r])
  OBVIOUS
<1>3. <<Loci[r], q, calls[q][n].value>> \in Says
  BY <1>1, <1>2, T!TogetherTold DEF OnTrace
<1> QED  BY <1>1, <1>2, <1>3 DEF Says, Given

\* What leads rank r to a place p.
Leads(r, p) == IF pc[r] \in Ops THEN Meets(r) /\ p = Beyond(r) ELSE p = Loci[r]

\* A rank that leaves a call goes on by what has come of it.
LEMMA InCall ==
    ASSUME Typed, OnTrace, NEW r \in Rank, NEW op \in Ops, pc[r] = op, Entered(r)
    PROVE  /\ Sound(r, op, X(r), todo[r], out[r], work[r])
           /\ \A q \in Rank : Allowed(P(op, X(r)), q, Given(q, r))
           /\ op \in Judged \cup Tacit =>
                 /\ Largest(r) \in Bit /\ (op \in Tacit => Largest(r) = 0)
                 /\ \A q \in Rank : Given(q, r) <= Largest(r)
                 /\ \A p : p = After(P(op, X(r)), Largest(r)) => Leads(r, p)
           /\ \A p : (\A v : p = After(P(op, X(r)), v)) => Leads(r, p)
<1>1. PICK x, n, p : x = X(r) /\ n = Len(calls[r]) /\ p = P(op, X(r))
  OBVIOUS
<1>2. x \in Common /\ Loci[r] = p
  BY <1>1, PathsTyped, LocusIs
<1>3. Meets(r)
  BY <1>1, RootAssumption DEF Meets, T!Met, Entered
<1>4. \A q \in Rank : Allowed(p, q, Given(q, r))
  BY <1>1, GivenAllowed DEF Entered
<1>5. Beyond(r) = After(p, T!Result(p, calls, n))
  BY <1>1, <1>2 DEF Beyond
<1>6. ASSUME op \in Judged \cup Tacit
      PROVE  /\ Beyond(r) = After(p, Largest(r)) /\ Largest(r) \in Bit
             /\ op \in Tacit => Largest(r) = 0
             /\ \A q \in Rank : Given(q, r) <= Largest(r)
  <2>1. PICK V : V = T!Values(calls, n)
    OBVIOUS
  <2>2. V = Contributed(r) /\ V # {}
        /\ V \subseteq Bit /\ (op \in Tacit => V \subseteq {0})
    <3>1. \A q \in Rank : Given(q, r) \in Bit /\ (op \in Tacit => Given(q, r) = 0)
      <4>1. 0 \in Bit
        BY DEF Bit
      <4>2. ASSUME NEW q \in Rank
            PROVE  Given(q, r) \in Bit /\ (op \in Tacit => Given(q, r) = 0)
        <5>1. PICK w : w = Given(q, r)
          OBVIOUS
        <5>2. Allowed(P(op, x), q, w)
          BY <5>1, <1>1, <1>4
        <5>3. (op \in Judged => w \in Bit) /\ (op \in Tacit => w = 0)
          BY <5>2, AllowedIs
        <5> QED  BY <5>1, <5>3, <4>1, <1>6
      <4> QED  BY <4>2
    <3>2. V = Contributed(r) /\ V # {}
      BY <1>1, <2>1, RootAssumption DEF T!Values, Contributed, Given
    <3> QED  BY <3>1, <3>2 DEF Contributed
  <2>3. Largest(r) = T!Greatest(V)
    BY <2>2 DEF Largest, T!Greatest
  <2>4. T!Result(p, calls, n) = Largest(r)
    <3>1. How(p) = "largest"
      BY <1>1, <1>6, HowIs
    <3> QED  BY <3>1, <2>1, <2>3 DEF T!Result
  <2>5. T!Greatest(V) \in V /\ \A w \in V : w <= T!Greatest(V)
    <3>1. V \subseteq 0 .. 1 /\ 1 \in Nat
      BY <2>2 DEF Bit
    <3> QED  BY <2>2, <3>1, T!GreatestIsLargest
  <2> QED  BY <1>5, <2>2, <2>3, <2>4, <2>5 DEF Contributed
<1>7. \A q \in Rank : Allowed(P(op, X(r)), q, Given(q, r))
  BY <1>1, <1>4
<1>8. Sound(r, op, X(r), todo[r], out[r], work[r])
  BY DEF Typed, AllSound
<1>9. op \in Judged \cup Tacit =>
         /\ Largest(r) \in Bit /\ (op \in Tacit => Largest(r) = 0)
         /\ \A q \in Rank : Given(q, r) <= Largest(r)
         /\ \A p2 : p2 = After(P(op, X(r)), Largest(r)) => Leads(r, p2)
  BY <1>1, <1>3, <1>6 DEF Leads
<1>10. \A p2 : (\A v : p2 = After(P(op, X(r)), v)) => Leads(r, p2)
  BY <1>1, <1>3, <1>5 DEF Leads
<1> QED  BY <1>7, <1>8, <1>9, <1>10

LEMMA AtWork ==
    ASSUME Typed, NEW r \in Rank, pc[r] \notin Ops
    PROVE  /\ Sound(r, pc[r], X(r), todo[r], out[r], work[r])
           /\ \A p : p = LocusOf(pc[r], X(r)) => Leads(r, p)
BY PathsTyped DEF Leads, Typed, AllSound

LEMMA AfterIs ==
    ASSUME NEW x, NEW v
    PROVE  /\ After(P("coords", x), v) = P("init", x)
           /\ After(P("init", x), v) = OrGiveUp(x, v, "size")
           /\ After(P("size", x), v) = P("work", x)
           /\ After(P("work", x), v) = OrGiveUp(x, v, "names")
           /\ After(P("names", x), v) = OrGiveUp(x, v, "next")
           /\ After(P("next", x), v) = AfterNext(x)
           /\ After(P("local", x), v) = P("gather", x)
           /\ After(P("gather", x), v) = P("new", x)
           /\ After(P("new", x), v) = P("add", WithSum(x))
           /\ After(P("add", x), v) = P("next", x)
           /\ After(P("post", x), v) = (IF v = 1 THEN GaveUp(x) ELSE Goes(x))
           /\ After(P("indices", x), v) = OrGiveUp(x, v, "extents")
           /\ After(P("extents", x), v) = P("fields", x)
           /\ After(P("fields", x), v) = OrGiveUp(x, v, "values")
           /\ After(P("values", x), v) = Goes(x)
           /\ After(P("report", x), v) = AfterReport(x, v)
<1>1. After(P("coords", x), v) = P("init", x)
  <2>1. PICK p : p = P("coords", x)
    OBVIOUS
  <2>2. p.op = "coords" /\ p.x = x
    BY <2>1, PIs
  <2> QED  BY <2>1, <2>2 DEF After
<1>2. After(P("init", x), v) = OrGiveUp(x, v, "size")
  <2>1. PICK p : p = P("init", x)
    OBVIOUS
  <2>2. p.op = "init" /\ p.x = x
    BY <2>1, PIs
  <2> QED  BY <2>1, <2>2 DEF After
<1>3. After(P("size", x), v) = P("work", x)
  <2>1. PICK p : p = P("size", x)
    OBVIOUS
  <2>2. p.op = "size" /\ p.x = x
    BY <2>1, PIs
  <2> QED  BY <2>1, <2>2 DEF After
<1>4. After(P("work", x), v) = OrGiveUp(x, v, "names")
  <2>1. PICK p : p = P("work", x)
    OBVIOUS
  <2>2. p.op = "work" /\ p.x = x
    BY <2>1, PIs
  <2> QED  BY <2>1, <2>2 DEF After
<1>5. After(P("names", x), v) = OrGiveUp(x, v, "next")
  <2>1. PICK p : p = P("names", x)
    OBVIOUS
  <2>2. p.op = "names" /\ p.x = x
    BY <2>1, PIs
  <2> QED  BY <2>1, <2>2 DEF After
<1>6. After(P("next", x), v) = AfterNext(x)
  <2>1. PICK p : p = P("next", x)
    OBVIOUS
  <2>2. p.op = "next" /\ p.x = x
    BY <2>1, PIs
  <2> QED  BY <2>1, <2>2 DEF After
<1>7. After(P("local", x), v) = P("gather", x)
  <2>1. PICK p : p = P("local", x)
    OBVIOUS
  <2>2. p.op = "local" /\ p.x = x
    BY <2>1, PIs
  <2> QED  BY <2>1, <2>2 DEF After
<1>8. After(P("gather", x), v) = P("new", x)
  <2>1. PICK p : p = P("gather", x)
    OBVIOUS
  <2>2. p.op = "gather" /\ p.x = x
    BY <2>1, PIs
  <2> QED  BY <2>1, <2>2 DEF After
<1>9. After(P("new", x), v) = P("add", WithSum(x))
  <2>1. PICK p : p = P("new", x)
    OBVIOUS
  <2>2. p.op = "new" /\ p.x = x
    BY <2>1, PIs
  <2> QED  BY <2>1, <2>2 DEF After
<1>10. After(P("add", x), v) = P("next", x)
  <2>1. PICK p : p = P("add", x)
    OBVIOUS
  <2>2. p.op = "add" /\ p.x = x
    BY <2>1, PIs
  <2> QED  BY <2>1, <2>2 DEF After
<1>11. After(P("post", x), v) = (IF v = 1 THEN GaveUp(x) ELSE Goes(x))
  <2>1. PICK p : p = P("post", x)
    OBVIOUS
  <2>2. p.op = "post" /\ p.x = x
    BY <2>1, PIs
  <2> QED  BY <2>1, <2>2 DEF After
<1>12. After(P("indices", x), v) = OrGiveUp(x, v, "extents")
  <2>1. PICK p : p = P("indices", x)
    OBVIOUS
  <2>2. p.op = "indices" /\ p.x = x
    BY <2>1, PIs
  <2> QED  BY <2>1, <2>2 DEF After
<1>13. After(P("extents", x), v) = P("fields", x)
  <2>1. PICK p : p = P("extents", x)
    OBVIOUS
  <2>2. p.op = "extents" /\ p.x = x
    BY <2>1, PIs
  <2> QED  BY <2>1, <2>2 DEF After
<1>14. After(P("fields", x), v) = OrGiveUp(x, v, "values")
  <2>1. PICK p : p = P("fields", x)
    OBVIOUS
  <2>2. p.op = "fields" /\ p.x = x
    BY <2>1, PIs
  <2> QED  BY <2>1, <2>2 DEF After
<1>15. After(P("values", x), v) = Goes(x)
  <2>1. PICK p : p = P("values", x)
    OBVIOUS
  <2>2. p.op = "values" /\ p.x = x
    BY <2>1, PIs
  <2> QED  BY <2>1, <2>2 DEF After
<1>16. After(P("report", x), v) = AfterReport(x, v)
  <2>1. PICK p : p = P("report", x)
    OBVIOUS
  <2>2. p.op = "report" /\ p.x = x
    BY <2>1, PIs
  <2> QED  BY <2>1, <2>2 DEF After
<1> QED  BY <1>1, <1>2, <1>3, <1>4, <1>5, <1>6, <1>7, <1>8,
            <1>9, <1>10, <1>11, <1>12, <1>13, <1>14, <1>15, <1>16

-------------------------------------------------------------------------------
(***************************************************************************)
(* The kinds of moves.                                                     *)
(***************************************************************************)
Moves(r) == \E l, y : Turn(r, l, y)

\* It waits in the next call, or works on its own.
LEMMA MovesInto ==
    ASSUME NEW r \in Rank, NEW y, NEW op \in Ops, Sound(r, op, y, todo'[r], out'[r], work'[r]),
           NEW v \in Value, Enter(r, op, v), Allowed(P(op, y), r, v), pc'[r] = op, X(r)' = y,
           Leads(r, P(op, y))
    PROVE  Moves(r)
<1>1. LocusOf(op, y) = P(op, y) /\ op \in Labels
  BY LocusIs, LabelFacts
<1>2. Turn(r, op, y)
  BY <1>1 DEF Turn, Leads
<1> QED  BY <1>2 DEF Moves

LEMMA MovesTo ==
    ASSUME NEW r \in Rank, NEW y, NEW l \in Labels \ Ops,
           Sound(r, l, y, todo'[r], out'[r], work'[r]),
           calls' = calls, pc'[r] = l, X(r)' = y, Leads(r, LocusOf(l, y))
    PROVE  Moves(r)
<1>1. Turn(r, l, y)
  BY DEF Turn, Leads
<1> QED  BY <1>1 DEF Moves

LEMMA OutcomeIs ==
    ASSUME NEW op
    PROVE  Outcome(op) \subseteq Bit
           /\ (Shared /\ op \in {"output", "local", "new", "add"} => Outcome(op) = {0})
BY DEF Outcome, Bit, Shared

\* A rank enters a call in which it tells 0 or 1.
LEMMA Tells ==
    ASSUME Typed, NEW r \in Rank, NEW op \in Judged \cup Tacit, NEW v \in Bit, NEW y,
           Meet(r, op, v), op \in Tacit => v = 0
    PROVE  /\ op \in Ops /\ v \in Value /\ Enter(r, op, v) /\ Allowed(P(op, y), r, v)
           /\ pc'[r] = op
<1>1. op \in Ops /\ v \in Value
  BY LabelFacts DEF Value
<1>2. pc'[r] = op
  BY DEF Meet, Goto, Typed, Functions
<1> QED  BY <1>1, <1>2, AllowedIs DEF Meet

LEMMA XIs ==
    ASSUME NEW r \in Rank
    PROVE  /\ X(r).step = step[r] /\ X(r).at = at[r]
           /\ pc[r] \in Walking => X(r).i = Len(Path(at[r])) - Len(todo[r]) + 1
           /\ pc[r] \in Walking \ Summing => X(r) = Base(X(r).step, X(r).at, X(r).i)
<1>1. PICK l, s, a, t, m, n, o : /\ l = pc[r] /\ s = step[r] /\ a = at[r] /\ t = todo[r]
                                 /\ m = master[r] /\ n = name[r] /\ o = out[r]
  OBVIOUS
<1>2. X(r) = Shape(l, s, a, t, m, n, o)
  BY <1>1 DEF X
<1>3. PICK x : x = X(r)
  OBVIOUS
<1>4. x.step = s /\ x.at = a /\ (l \in Walking => x.i = Len(Path(a)) - Len(t) + 1)
  BY <1>2, <1>3 DEF Shape, Rec
<1>5. l \in Walking \ Summing => x = Base(s, a, Len(Path(a)) - Len(t) + 1)
  BY <1>2, <1>3, ShapeIs
<1> QED  BY <1>1, <1>3, <1>4, <1>5

\* A rank in the chain of a control.
LEMMA Walk ==
    ASSUME NEW r \in Rank, NEW l \in Walking, NEW t, NEW o, NEW w, NEW x, Sound(r, l, x, t, o, w)
    PROVE  /\ x \in Common /\ x.at \in Beginnings /\ x.at \in Nat
           /\ x.at \in 1 .. Len(Controls) + 1 /\ x.at + 1 \in 1 .. Len(Controls) + 1
           /\ x.step \in Nat /\ x.step < StepMax /\ x.step <= StepMax /\ Len(Path(x.at)) \in Nat
           /\ x.i \in 1 .. Len(Path(x.at)) + 1 /\ x.i \in Nat
           /\ t = Rest(x.at, x.i) /\ x.i = Len(Path(x.at)) - Len(t) + 1
           /\ (t = <<>> <=> x.i = Len(Path(x.at)) + 1)
<1>1. /\ x \in Common /\ x.at \in Beginnings /\ x.step <= StepMax
      /\ x.at \in 1 .. Len(Controls) + 1
      /\ x.i \in 1 .. Len(Path(x.at)) + 1 /\ t = Rest(x.at, x.i)
  BY DEF Sound, Fits
<1>2. x.step < StepMax
  BY LabelFacts DEF Sound, Fits
<1>3. x.step \in Nat /\ x.i \in Nat /\ x.at \in Nat
  BY <1>1, CommonIs
<1>4. PICK a, i, n, m : a = x.at /\ i = x.i /\ n = Len(Path(x.at)) /\ m = Len(t)
  OBVIOUS
<1>5. a + 1 \in 1 .. Len(Controls) + 1
  <2>1. a \in 1 .. Len(Controls) /\ Len(Controls) \in Nat
    BY <1>1, <1>4, ListAssumption DEF Beginnings
  <2> QED  BY <2>1
<1>6. a \in Beginnings /\ i \in 1 .. n + 1 /\ t = Rest(a, i) /\ n = Len(Path(a)) /\ i \in Nat
  BY <1>1, <1>3, <1>4
<1>7. n \in Nat
  BY <1>6, PathIs
<1>8. m = n - i + 1
  BY <1>4, <1>6, RestIs
<1>9. t = <<>> <=> i = n + 1
  BY <1>6, RestIs
<1>10. i = n - m + 1
  BY <1>6, <1>7, <1>8
<1> QED  BY <1>1, <1>2, <1>3, <1>4, <1>5, <1>7, <1>9, <1>10

\* One that has an executive at hand.
HasExe(x) == x.i <= Len(Path(x.at))

Leaves(x, t) ==
    /\ Head(t) = Exe(x) /\ Exe(x) \in Exec /\ Tail(t) = Rest(x.at, x.i + 1)
    /\ x.i + 1 \in 1 .. Len(Path(x.at)) + 1 /\ x.i \in 1 .. Len(Path(x.at))
    /\ Len(Path(x.at)) - Len(Tail(t)) + 1 = x.i + 1

LEMMA WalkHere ==
    ASSUME NEW r \in Rank, NEW l \in Walking, NEW t, NEW o, NEW w, NEW x, Sound(r, l, x, t, o, w),
           HasExe(x)
    PROVE  Leaves(x, t)
<1>1. /\ x.at \in Beginnings /\ x.i \in 1 .. Len(Path(x.at)) + 1 /\ t = Rest(x.at, x.i)
      /\ Len(Path(x.at)) \in Nat
  BY Walk
<1>2. PICK a, i, n : a = x.at /\ i = x.i /\ n = Len(Path(x.at))
  OBVIOUS
<1>3. /\ a \in Beginnings /\ i \in 1 .. n + 1 /\ t = Rest(a, i)
      /\ n = Len(Path(a)) /\ n \in Nat /\ i <= n
  BY <1>1, <1>2 DEF HasExe
<1>4. Head(t) = Path(a)[i] /\ Tail(t) = Rest(a, i + 1)
  BY <1>3, RestIs
<1>5. i \in 1 .. n /\ i + 1 \in 1 .. n + 1
  BY <1>3
<1>6. Path(a)[i] \in Exec
  BY <1>3, <1>5, KindAt
<1>7. PICK m : m = Len(Tail(t))
  OBVIOUS
<1>8. m = n - (i + 1) + 1
  BY <1>3, <1>4, <1>5, <1>7, RestIs
<1>9. n - m + 1 = i + 1
  BY <1>3, <1>8
<1> QED  BY <1>2, <1>4, <1>5, <1>6, <1>7, <1>9 DEF Leaves, Exe

LEMMA WalkKinds ==
    ASSUME NEW r, NEW l, NEW t, NEW o, NEW w, NEW x, Sound(r, l, x, t, o, w)
    PROVE  /\ l \in SumOps => HasExe(x) /\ Kind[Exe(x)] = "sum"
           /\ l \in GetOps => HasExe(x) /\ Kind[Exe(x)] = "get"
BY DEF Sound, Fits, HasExe

\* The same of rank r.
LEMMA Walks ==
    ASSUME Typed, NEW r \in Rank, pc[r] \in Walking, NEW x, x = X(r)
    PROVE  /\ Sound(r, pc[r], x, todo[r], out[r], work[r])
           /\ x \in Common /\ x.at \in Beginnings /\ x.at \in Nat
           /\ x.at \in 1 .. Len(Controls) + 1 /\ x.at + 1 \in 1 .. Len(Controls) + 1
           /\ x.step \in Nat /\ x.step < StepMax /\ x.step <= StepMax /\ Len(Path(x.at)) \in Nat
           /\ x.i \in 1 .. Len(Path(x.at)) + 1 /\ x.i \in Nat
           /\ todo[r] = Rest(x.at, x.i) /\ x.i = Len(Path(x.at)) - Len(todo[r]) + 1
           /\ (todo[r] = <<>> <=> x.i = Len(Path(x.at)) + 1)
<1>1. PICK l, t, o, w : l = pc[r] /\ t = todo[r] /\ o = out[r] /\ w = work[r]
  OBVIOUS
<1>2. Sound(r, l, x, t, o, w) /\ l \in Walking
  BY <1>1 DEF Typed, AllSound
<1>3. /\ x \in Common /\ x.at \in Beginnings /\ x.at \in Nat
      /\ x.at \in 1 .. Len(Controls) + 1 /\ x.at + 1 \in 1 .. Len(Controls) + 1
      /\ x.step \in Nat /\ x.step < StepMax /\ x.step <= StepMax /\ Len(Path(x.at)) \in Nat
      /\ x.i \in 1 .. Len(Path(x.at)) + 1 /\ x.i \in Nat
  BY <1>2, Walk
<1>4. /\ t = Rest(x.at, x.i) /\ x.i = Len(Path(x.at)) - Len(t) + 1
      /\ (t = <<>> <=> x.i = Len(Path(x.at)) + 1)
  BY <1>2, Walk
<1> QED  BY <1>1, <1>2, <1>3, <1>4

LEMMA WalksHere ==
    ASSUME Typed, NEW r \in Rank, pc[r] \in Walking, NEW x, x = X(r), HasExe(x)
    PROVE  /\ This(r) = Exe(x) /\ Exe(x) \in Exec /\ Tail(todo[r]) = Rest(x.at, x.i + 1)
           /\ x.i + 1 \in 1 .. Len(Path(x.at)) + 1 /\ x.i \in 1 .. Len(Path(x.at))
           /\ Len(Path(x.at)) - Len(Tail(todo[r])) + 1 = x.i + 1
<1>1. PICK l, t, o, w : l = pc[r] /\ t = todo[r] /\ o = out[r] /\ w = work[r]
  OBVIOUS
<1>2. Sound(r, l, x, t, o, w) /\ l \in Walking
  BY <1>1 DEF Typed, AllSound
<1>3. Leaves(x, t)
  BY <1>2, WalkHere
<1> QED  BY <1>1, <1>3 DEF This, Leaves

\* Outside of the fields of a statistic, there is nothing more to fit.
LEMMA FitsPlain ==
    ASSUME NEW l \in Walking \ Summing, NEW x, NEW t, x.step <= StepMax, x.step < StepMax,
           x.at \in Beginnings, x.at \in 1 .. Len(Controls) + 1,
           x.i \in 1 .. Len(Path(x.at)) + 1, t = Rest(x.at, x.i),
           l \in SumOps => HasExe(x) /\ Kind[Exe(x)] = "sum",
           l \in GetOps => HasExe(x) /\ Kind[Exe(x)] = "get"
    PROVE  Fits(l, x, t)
<1>1. l \notin Mastering /\ l # "post" /\ l \notin Fielding /\ l # "report"
  BY LabelFacts DEF Summing, Mastering, Fielding
<1> QED  BY <1>1 DEF Fits, HasExe

\* At the beginning of a control, nothing else is asked of the variables.
LEMMA ControlSound ==
    ASSUME NEW r, NEW s \in Nat, s < StepMax, NEW a \in 1 .. Len(Controls) + 1, NEW o, NEW w
    PROVE  Sound(r, "control", Base(s, a, 0), <<>>, o, w)
<1>1. PICK y : y = Base(s, a, 0)
  OBVIOUS
<1>2. y \in Common /\ y.step = s /\ y.at = a /\ y.i = 0
  <2>1. a \in Nat /\ 0 \in Nat
    BY ListAssumption
  <2> QED  BY <1>1, <2>1, BaseIs
<1>3. "control" \notin Walking /\ "control" # "report"
  BY LabelFacts
<1>4. "control" \notin SumOps \cup GetOps \cup Mastering \cup Fielding
          \cup Summing \cup {"post", "new"}
  BY DEF SumOps, GetOps, Mastering, Fielding, Summing
<1>5. Fits("control", y, <<>>)
  <2>1. s <= StepMax
    BY Constants
  <2> QED  BY <2>1, <1>2, <1>3, <1>4 DEF Fits
<1>6. Data(r, "control", y, o, w)
  BY <1>2, <1>4 DEF Data
<1> QED  BY <1>1, <1>2, <1>5, <1>6 DEF Sound

\* The next control follows.
LEMMA LeavesControl ==
    ASSUME Typed, NEW r \in Rank, pc[r] \in Walking, calls' = calls,
           pc'[r] = "control", todo'[r] = <<>>, at'[r] = at[r] + 1, step'[r] = step[r],
           Leads(r, GaveUp(X(r)))
    PROVE  Moves(r)
<1>1. PICK x, y : x = X(r) /\ y = Base(X(r).step, X(r).at + 1, 0)
  OBVIOUS
<1>2. x.step \in Nat /\ x.step < StepMax /\ x.at + 1 \in 1 .. Len(Controls) + 1
  BY <1>1, Walks
<1>3. at'[r] = x.at + 1 /\ step'[r] = x.step
  BY <1>1, XIs
<1>4. X(r)' = y
  <2>1. X(r)' = Shape("control", x.step, x.at + 1, <<>>, master'[r], name'[r], out'[r])
    BY <1>3 DEF X
  <2> QED  BY <2>1, <1>1, ShapeIs, LabelFacts
<1>5. Sound(r, "control", y, todo'[r], out'[r], work'[r])
  BY <1>1, <1>2, <1>3, ControlSound
<1>6. Leads(r, LocusOf("control", y))
  <2>1. y.step = x.step /\ y.at = x.at + 1
    BY <1>1, BaseIs
  <2> QED  BY <2>1, <1>1, LocusIs DEF GaveUp
<1>7. "control" \in Labels \ Ops
  BY LabelFacts
<1> QED  BY <1>4, <1>5, <1>6, <1>7, MovesTo

\* A control is given up, by all the ranks or behind the last call of its chain.
LEMMA GivesUp ==
    ASSUME Typed, NEW r \in Rank, pc[r] \in Walking, GiveUp(r), calls' = calls,
           UNCHANGED step, Leads(r, GaveUp(X(r)))
    PROVE  Moves(r)
<1>1. pc'[r] = "control" /\ todo'[r] = <<>> /\ at'[r] = at[r] + 1 /\ step'[r] = step[r]
  BY DEF GiveUp, Goto, Typed, Functions
<1> QED  BY <1>1, LeavesControl

\* The next call for the same executive, in a statistic before it begins with the fields.
LEMMA GoesInto ==
    ASSUME Typed, NEW r \in Rank, pc[r] \in Walking \ Summing,
           NEW op \in Ops \cap (Walking \ Summing), NEW c \in Value, Enter(r, op, c),
           Allowed(P(op, X(r)), r, c), pc'[r] = op, UNCHANGED <<at, todo, step, out>>,
           Leads(r, P(op, X(r))),
           HasExe(X(r)),
           op \in SumOps => Kind[Exe(X(r))] = "sum", op \in GetOps => Kind[Exe(X(r))] = "get"
    PROVE  Moves(r)
<1>1. PICK x : x = X(r)
  OBVIOUS
<1>2. Sound(r, pc[r], x, todo[r], out[r], work[r])
  BY <1>1 DEF Typed, AllSound
<1>3. x \in Common /\ x.i = Len(Path(x.at)) - Len(todo[r]) + 1 /\ todo[r] = Rest(x.at, x.i)
      /\ x.at \in Beginnings /\ x.i \in 1 .. Len(Path(x.at)) + 1 /\ x.step < StepMax
  BY <1>1, Walks
<1>4. op \in Ops /\ c \in Value /\ Enter(r, op, c) /\ Allowed(P(op, x), r, c) /\ pc'[r] = op
  BY <1>1
<1>5. x = Base(x.step, x.at, x.i)
  BY <1>1, XIs
<1>6. X(r)' = x
  <2>0. at'[r] = x.at /\ step'[r] = x.step /\ todo'[r] = todo[r] /\ pc'[r] = op
    BY <1>1, <1>4, XIs
  <2>1. X(r)' = Shape(op, x.step, x.at, todo[r], master'[r], name'[r], out'[r])
    BY <2>0 DEF X
  <2>2. X(r)' = Base(x.step, x.at, Len(Path(x.at)) - Len(todo[r]) + 1)
    <3>1. PICK a, t, m, n, o : /\ a = x.at /\ t = todo[r] /\ m = master'[r]
                               /\ n = name'[r] /\ o = out'[r]
      OBVIOUS
    <3>2. Shape(op, x.step, a, t, m, n, o) = Base(x.step, a, Len(Path(a)) - Len(t) + 1)
      BY ShapeIs
    <3> QED  BY <3>1, <3>2, <2>1
  <2> QED  BY <2>2, <1>3, <1>5
<1>7. Sound(r, op, x, todo'[r], out'[r], work'[r])
  <2>1. op \notin Summing /\ op \notin Mastering /\ op \notin Fielding /\ op # "post" /\ op # "new"
        /\ op # "report" /\ op \in Walking
    BY LabelFacts DEF Summing, Mastering, Fielding
  <2>2. Fits(op, x, todo'[r])
    <3>1. x.at \in 1 .. Len(Controls) + 1 /\ x.step <= StepMax
      BY <1>1, Walks
    <3>2. todo'[r] = Rest(x.at, x.i)
      BY <1>3
    <3>3. /\ op \in SumOps => HasExe(x) /\ Kind[Exe(x)] = "sum"
          /\ op \in GetOps => HasExe(x) /\ Kind[Exe(x)] = "get"
      BY <1>1
    <3> QED  BY <3>1, <3>2, <3>3, <1>3, FitsPlain
  <2>3. Data(r, op, x, out'[r], work'[r])
    BY <2>1, <1>2 DEF Sound, Data
  <2> QED  BY <2>2, <2>3, <1>3 DEF Sound
<1> QED  BY <1>1, <1>4, <1>6, <1>7, MovesInto

LEMMA GoesOn ==
    ASSUME Typed, NEW r \in Rank, pc[r] \in Walking \ Summing,
           NEW op \in (Judged \cup Tacit) \cap (Walking \ Summing), NEW c \in Bit,
           op \in Tacit => c = 0, Meet(r, op, c),
           UNCHANGED <<at, todo, step, out>>, Leads(r, P(op, X(r))),
           HasExe(X(r)),
           op \in SumOps => Kind[Exe(X(r))] = "sum", op \in GetOps => Kind[Exe(X(r))] = "get"
    PROVE  Moves(r)
<1>1. PICK x : x = X(r)
  OBVIOUS
<1>2. /\ op \in Ops /\ c \in Value /\ Enter(r, op, c) /\ Allowed(P(op, x), r, c)
      /\ pc'[r] = op
  BY Tells
<1> QED  BY <1>1, <1>2, GoesInto

\* The executive at hand has been updated.
LEMMA Finishes ==
    ASSUME Typed, NEW r \in Rank, pc[r] \in Walking, Done(r), calls' = calls,
           UNCHANGED <<at, step>>, HasExe(X(r)),
           \A e \in Exec \ {Exe(X(r))} : out'[r][e] = out[r][e],
           Fine(r, Exe(X(r)), X(r).step, out'[r]), Leads(r, Goes(X(r)))
    PROVE  Moves(r)
<1>1. PICK x, y : x = X(r) /\ y = Base(X(r).step, X(r).at, X(r).i + 1)
  OBVIOUS
<1>2. Sound(r, pc[r], x, todo[r], out[r], work[r])
  BY <1>1 DEF Typed, AllSound
<1>3. /\ x.step \in Nat /\ x.step < StepMax /\ x.at \in Nat /\ x.at \in Beginnings
      /\ x.i \in Nat /\ Len(Path(x.at)) \in Nat /\ x.i \in 1 .. Len(Path(x.at)) + 1
  BY <1>2, Walk
<1>4. /\ x.i + 1 \in 1 .. Len(Path(x.at)) + 1 /\ Tail(todo[r]) = Rest(x.at, x.i + 1)
      /\ Len(Path(x.at)) - Len(Tail(todo[r])) + 1 = x.i + 1
  BY <1>1, WalksHere
<1>5. pc'[r] = "exec" /\ todo'[r] = Tail(todo[r]) /\ at'[r] = x.at /\ step'[r] = x.step
  BY <1>1, XIs DEF Done, Goto, Typed, Functions
<1>6. "exec" \in Walking \ Summing /\ "exec" \in Labels \ Ops
      /\ "exec" \notin SumOps \cup GetOps \cup Mastering \cup Fielding \cup Halted
                    \cup {"post", "new", "report"}
  <2>1. "exec" \in Walking
    BY DEF Walking
  <2>2. "exec" \in Labels \ Ops /\ "exec" \notin Halted
    BY LabelFacts
  <2>3. "exec" \notin SumOps \cup GetOps
    BY <2>2, LabelFacts
  <2> QED  BY <2>1, <2>2, <2>3, LabelFacts
<1>7. X(r)' = y
  <2>1. X(r)' = Shape("exec", x.step, x.at, Tail(todo[r]), master'[r], name'[r], out'[r])
    BY <1>5 DEF X
  <2>2. X(r)' = Base(x.step, x.at, Len(Path(x.at)) - Len(Tail(todo[r])) + 1)
    <3>1. PICK a, t, m, n, o : /\ a = x.at /\ t = Tail(todo[r]) /\ m = master'[r]
                               /\ n = name'[r] /\ o = out'[r]
      OBVIOUS
    <3>2. Shape("exec", x.step, a, t, m, n, o) = Base(x.step, a, Len(Path(a)) - Len(t) + 1)
      BY <1>6, ShapeIs
    <3> QED  BY <3>1, <3>2, <2>1
  <2> QED  BY <2>2, <1>1, <1>4
<1>8. y \in Common /\ y.step = x.step /\ y.at = x.at /\ y.i = x.i + 1
  <2>1. x.i + 1 \in Nat
    BY <1>3
  <2> QED  BY <2>1, <1>1, <1>3, BaseIs
<1>9. Fits("exec", y, todo'[r])
  <2>1. x.at \in 1 .. Len(Controls) + 1 /\ x.step <= StepMax
    BY <1>2 DEF Sound, Fits
  <2> QED  BY <2>1, <1>3, <1>4, <1>5, <1>6, <1>8 DEF Fits
<1>10. Data(r, "exec", y, out'[r], work'[r])
  <2>1. ASSUME NEW k \in 1 .. y.i - 1 PROVE Fine(r, Path(y.at)[k], y.step, out'[r])
    <3>1. CASE k = x.i
      BY <3>1, <1>1, <1>8 DEF Exe
    <3>2. CASE k # x.i
      <4>1. k \in 1 .. x.i - 1 /\ k \in 1 .. Len(Path(x.at)) /\ x.i \in 1 .. Len(Path(x.at))
        <5>1. x.i \in 1 .. Len(Path(x.at)) /\ y.i - 1 = x.i /\ k \in 1 .. x.i
          BY <1>3, <1>4, <1>8
        <5> QED  BY <5>1, <3>2, <1>3
      <4>2. Path(x.at)[k] # Exe(x) /\ Path(x.at)[k] \in Exec
        BY <4>1, <1>3, PathIs DEF Exe
      <4>3. Fine(r, Path(x.at)[k], x.step, out[r])
        BY <4>1, <1>2 DEF Sound, Data
      <4>4. out'[r][Path(x.at)[k]] = out[r][Path(x.at)[k]]
        BY <4>2, <1>1
      <4> QED  BY <4>3, <4>4, <1>8 DEF Fine
    <3> QED  BY <3>1, <3>2
  <2> QED  BY <2>1, <1>6 DEF Data
<1>11. Leads(r, LocusOf("exec", y))
  BY <1>1, <1>8, LocusIs DEF Goes
<1> QED  BY <1>5, <1>6, <1>7, <1>8, <1>9, <1>10, <1>11, MovesTo DEF Sound

-------------------------------------------------------------------------------
(***************************************************************************)
(* The actions, one by one.                                                *)
(***************************************************************************)
LEMMA ControlMoves ==
    ASSUME Typed, NEW r \in Rank, Control(r) PROVE Moves(r)
<1>1. PICK x : x = X(r)
  OBVIOUS
<1>2. pc[r] = "control" /\ "control" \notin Ops /\ "control" \notin Walking
      /\ "control" \notin Halted /\ step' = step /\ at' = at
  BY LabelFacts DEF Control
<1>3. Sound(r, "control", x, todo[r], out[r], work[r]) /\ Leads(r, Start(x.step, x.at, 1))
  BY <1>1, <1>2, AtWork, LocusIs
<1>4. x.step = step[r] /\ x.at = at[r]
  BY <1>1, XIs
<1>5. /\ x.at \in 1 .. Len(Controls) + 1 /\ Len(Controls) \in Nat /\ x.step \in Nat
      /\ x.step < StepMax /\ x.step <= StepMax /\ todo[r] = <<>>
  BY <1>2, <1>3, CommonIs, ListAssumption DEF Sound, Fits
<1>6. CASE at[r] > Len(Controls)
  <2>1. PICK y : y = Base(x.step, x.at, 0)
    OBVIOUS
  <2>2. Meet(r, "report", status[r]) /\ todo' = todo /\ x.at = Len(Controls) + 1
    BY <1>4, <1>5, <1>6 DEF Control
  <2>3. status[r] \in Bit /\ "report" \in Judged /\ "report" \notin Tacit /\ "report" \notin Walking
        /\ "report" \notin Halted
    BY LabelFacts DEF Typed, AllSound, Typing, Judged, Tacit, Halted
  <2>4. /\ "report" \in Ops /\ status[r] \in Value /\ Enter(r, "report", status[r])
        /\ Allowed(P("report", y), r, status[r]) /\ pc'[r] = "report"
    BY <2>2, <2>3, Tells
  <2>5. X(r)' = y
    <3>1. X(r)' = Shape("report", x.step, x.at, todo[r], master'[r], name'[r], out'[r])
      BY <1>2, <1>4, <2>2, <2>4 DEF X
    <3> QED  BY <3>1, <2>1, <2>3, ShapeIs
  <2>6. y \in Common /\ y.step = x.step /\ y.at = x.at /\ y.i = 0
    <3>1. x.at \in Nat /\ 0 \in Nat
      BY <1>5
    <3> QED  BY <3>1, <2>1, <1>5, BaseIs
  <2>7. Sound(r, "report", y, todo'[r], out'[r], work'[r])
    <3>1. "report" \notin SumOps \cup GetOps \cup Mastering \cup Fielding
              \cup Summing \cup {"post", "new"}
      BY <2>3, LabelFacts DEF Mastering, Fielding, Summing, SumOps
    <3>2. Fits("report", y, todo'[r])
      BY <3>1, <2>2, <2>3, <2>6, <1>5 DEF Fits
    <3>3. Data(r, "report", y, out'[r], work'[r])
      BY <3>1, <2>6 DEF Data
    <3> QED  BY <3>2, <3>3, <2>6 DEF Sound
  <2>8. Leads(r, P("report", y))
    BY <1>3, <2>1, <2>2, StartIs
  <2> QED  BY <2>4, <2>5, <2>7, <2>8, MovesInto
<1>7. CASE ~(at[r] > Len(Controls))
  <2>1. PICK y : y = Base(x.step, x.at, 1)
    OBVIOUS
  <2>2. x.at \in Beginnings /\ x.at \in Nat
    BY <1>4, <1>5, <1>7 DEF Beginnings
  <2>3. todo'[r] = Path(x.at) /\ pc'[r] = "exec" /\ calls' = calls
    BY <1>4, <1>7 DEF Control, Goto, Typed, Functions, Path
  <2>4. PICK n : n = Len(Path(x.at))
    OBVIOUS
  <2>5. n \in Nat \ {0} /\ 1 \in 1 .. n + 1
    <3>1. n \in Nat \ {0}
      BY <2>2, <2>4, PathIs
    <3> QED  BY <3>1
  <2>6. Path(x.at) = Rest(x.at, 1)
    BY <2>2, <2>4, <2>5, RestIs
  <2>7. "exec" \in Walking \ Summing /\ "exec" \in Labels \ Ops /\ "exec" \notin SumOps \cup GetOps
        /\ "exec" # "new"
    <3>1. "exec" \in Walking /\ "exec" \in Labels \ Ops
      BY LabelFacts DEF Walking
    <3> QED  BY <3>1, LabelFacts
  <2>8. X(r)' = y
    <3>1. X(r)' = Shape("exec", x.step, x.at, Path(x.at), master'[r], name'[r], out'[r])
      BY <1>2, <1>4, <2>3 DEF X
    <3>2. X(r)' = Base(x.step, x.at, n - n + 1)
      <4>1. PICK a, t, m, k, o : /\ a = x.at /\ t = Path(x.at) /\ m = master'[r]
                                 /\ k = name'[r] /\ o = out'[r]
        OBVIOUS
      <4>2. Shape("exec", x.step, a, t, m, k, o) = Base(x.step, a, Len(Path(a)) - Len(t) + 1)
        BY <2>7, ShapeIs
      <4> QED  BY <4>1, <4>2, <3>1, <2>4
    <3>3. n - n + 1 = 1
      BY <2>5
    <3> QED  BY <3>2, <3>3, <2>1
  <2>9. y \in Common /\ y.step = x.step /\ y.at = x.at /\ y.i = 1
    <3>1. 1 \in Nat
      OBVIOUS
    <3> QED  BY <3>1, <2>1, <2>2, <1>5, BaseIs
  <2>10. Fits("exec", y, todo'[r])
    BY <1>5, <2>2, <2>3, <2>4, <2>5, <2>6, <2>7, <2>9, FitsPlain
  <2>11. Data(r, "exec", y, out'[r], work'[r])
    BY <2>7, <2>9 DEF Data
  <2>12. Leads(r, LocusOf("exec", y))
    BY <1>3, <2>9, LocusIs
  <2> QED  BY <2>3, <2>7, <2>8, <2>9, <2>10, <2>11, <2>12, MovesTo DEF Sound
<1> QED  BY <1>6, <1>7

LEMMA RefreshMoves ==
    ASSUME Typed, NEW r \in Rank, Refresh(r) PROVE Moves(r)
<1>1. PICK x : x = X(r)
  OBVIOUS
<1>2. pc[r] = "exec" /\ "exec" \notin Ops /\ "exec" \in Walking /\ todo[r] = <<>>
  BY LabelFacts DEF Refresh, Walking
<1>3. Leads(r, Start(x.step, x.at, x.i))
  BY <1>1, <1>2, AtWork, LocusIs
<1>4. x.at \in Beginnings /\ x.i \in 1 .. Len(Path(x.at)) + 1 /\ x.i = Len(Path(x.at)) + 1
  BY <1>1, <1>2, Walks
<1>5. Start(x.step, x.at, x.i) = Start(x.step, x.at + 1, 1)
  BY <1>4, StartIs
<1>6. pc'[r] = "control" /\ todo'[r] = <<>> /\ at'[r] = at[r] + 1 /\ step'[r] = step[r]
      /\ calls' = calls
  BY <1>2 DEF Refresh, Goto, Typed, Functions
<1> QED  BY <1>1, <1>2, <1>3, <1>5, <1>6, LeavesControl DEF GaveUp

LEMMA ReportMoves ==
    ASSUME Typed, OnTrace, NEW r \in Rank, Report(r) PROVE Moves(r)
<1>1. PICK x, v : x = X(r) /\ v = Largest(r)
  OBVIOUS
<1>2. pc[r] = "report" /\ "report" \in Ops /\ "report" \in Judged /\ "report" \notin Walking
      /\ "report" \notin Halted /\ Entered(r)
  BY LabelFacts DEF Report, Judged, Halted, Waited
<1>3. Sound(r, "report", x, todo[r], out[r], work[r]) /\ v \in Bit
      /\ \A p : p = After(P("report", x), v) => Leads(r, p)
  BY <1>1, <1>2, InCall
<1>4. x.step = step[r]
  BY <1>1, XIs
<1>5. x.step \in Nat /\ x.step < StepMax /\ StepMax \in Nat /\ todo[r] = <<>>
  BY <1>2, <1>3, CommonIs, Constants DEF Sound, Fits
<1>6. /\ step'[r] = x.step + 1 /\ at'[r] = 1 /\ calls' = calls /\ todo'[r] = <<>>
      /\ pc'[r] = IF v = 1 THEN "aborted" ELSE IF x.step + 1 = StepMax THEN "ended" ELSE "control"
  BY <1>1, <1>4, <1>5 DEF Report, Goto, AnyFailed, Typed, Functions
<1>7. PICK y : y = Base(x.step + 1, 1, 0)
  OBVIOUS
<1>8. y \in Common /\ y.step = x.step + 1 /\ y.at = 1 /\ y.i = 0
  <2>1. x.step + 1 \in Nat /\ 1 \in Nat /\ 0 \in Nat
    BY <1>5
  <2> QED  BY <2>1, <1>7, BaseIs
<1>9. 1 \in 1 .. Len(Controls) + 1
  <2>1. Len(Controls) \in Nat
    BY ListAssumption
  <2> QED  BY <2>1
<1>10. pc'[r] \notin Walking => X(r)' = y
  <2>1. X(r)' = Shape(pc'[r], x.step + 1, 1, <<>>, master'[r], name'[r], out'[r])
    BY <1>6 DEF X
  <2> QED  BY <2>1, <1>7, ShapeIs
<1>11. CASE v = 1 \/ x.step + 1 = StepMax
  <2>1. PICK l : l = pc'[r]
    OBVIOUS
  <2>2. l \in Halted /\ l \in Labels \ Ops /\ l \notin Walking
    BY <2>1, <1>6, <1>11, LabelFacts DEF Halted
  <2>3. Leads(r, LocusOf(l, y))
    <3>1. P("none", y) = After(P("report", x), v)
      BY <1>7, <1>11, AfterIs DEF AfterReport
    <3> QED  BY <3>1, <2>2, <1>3, LocusIs
  <2>4. l \notin SumOps \cup GetOps \cup Mastering \cup Fielding \cup Summing
              \cup {"post", "new", "report"}
    BY <2>2, LabelFacts DEF Mastering, Fielding, Summing, SumOps
  <2>5. x.step + 1 <= StepMax
    BY <1>5
  <2>6. Fits(l, y, todo'[r])
    BY <2>2, <2>4, <2>5, <1>6, <1>8, <1>9 DEF Fits
  <2>7. Data(r, l, y, out'[r], work'[r])
    BY <2>4, <1>8 DEF Data
  <2>8. Sound(r, l, y, todo'[r], out'[r], work'[r])
    BY <2>6, <2>7, <1>8 DEF Sound
  <2> QED  BY <2>1, <2>2, <2>3, <2>8, <1>6, <1>10, MovesTo
<1>12. CASE v # 1 /\ x.step + 1 # StepMax
  <2>1. pc'[r] = "control" /\ "control" \in Labels \ Ops /\ "control" \notin Walking
    BY <1>6, <1>12, LabelFacts
  <2>2. Leads(r, LocusOf("control", y))
    <3>1. Start(x.step + 1, 1, 1) = After(P("report", x), v)
      BY <1>12, AfterIs DEF AfterReport
    <3> QED  BY <3>1, <1>3, <1>8, LocusIs
  <2>3. x.step + 1 \in Nat /\ x.step + 1 < StepMax
    BY <1>5, <1>12
  <2>4. Sound(r, "control", y, todo'[r], out'[r], work'[r])
    BY <2>3, <1>6, <1>7, <1>9, ControlSound
  <2> QED  BY <2>1, <2>2, <2>4, <1>6, <1>10, MovesTo
<1> QED  BY <1>11, <1>12

\* A rank that has an executive at hand and stands before it.
Stands(r, x, kind) ==
    /\ pc[r] = "exec" /\ pc[r] \notin Ops /\ pc[r] \in Walking \ Summing
    /\ HasExe(x) /\ This(r) = Exe(x) /\ Exe(x) \in Exec /\ Kind[Exe(x)] = kind
    /\ x = Base(x.step, x.at, x.i)
    /\ kind \in {"sum", "get"} => Leads(r, Opening(<<x.at, x.i>>, x.step))
    /\ kind \notin {"sum", "get"} => Leads(r, Goes(x))
    /\ kind = "csv" => Leads(r, GaveUp(x))

LEMMA AtExec ==
    ASSUME Typed, NEW r \in Rank, NEW kind, At(r, kind), NEW x, x = X(r)
    PROVE  Stands(r, x, kind)
<1>1. pc[r] = "exec" /\ pc[r] \notin Ops /\ pc[r] \in Walking \ Summing /\ todo[r] # <<>>
      /\ Kind[This(r)] = kind
  <2>1. "exec" \notin Ops /\ "exec" \in Walking \ Summing
    BY LabelFacts DEF Walking
  <2> QED  BY <2>1 DEF At
<1>2. Leads(r, Start(x.step, x.at, x.i))
  BY <1>1, AtWork, LocusIs
<1>3. PICK a, i, n : a = x.at /\ i = x.i /\ n = Len(Path(x.at))
  OBVIOUS
<1>4. /\ a \in Beginnings /\ i \in 1 .. n + 1 /\ n \in Nat /\ n = Len(Path(a))
      /\ (todo[r] = <<>> <=> i = n + 1)
  BY <1>1, <1>3, Walks
<1>5. i <= n /\ i \in 1 .. n
  BY <1>1, <1>4
<1>6. HasExe(x)
  BY <1>3, <1>5 DEF HasExe
<1>7. This(r) = Exe(x) /\ Exe(x) \in Exec
  BY <1>1, <1>6, WalksHere
<1>8. x = Base(x.step, x.at, x.i)
  BY <1>1, XIs
<1>9. Collects(a, i) <=> kind \in {"sum", "get"}
  BY <1>1, <1>3, <1>7 DEF Collects, Exe
<1>10. ASSUME kind \in {"sum", "get"} PROVE Leads(r, Opening(<<x.at, x.i>>, x.step))
  <2>1. Start(x.step, a, i) = Opening(<<a, i>>, x.step)
    BY <1>4, <1>5, <1>9, <1>10, StartIs
  <2> QED  BY <2>1, <1>2, <1>3
<1>11. ASSUME kind \notin {"sum", "get"}
       PROVE  Start(x.step, a, i) = Start(x.step, a, i + 1)
  BY <1>4, <1>5, <1>9, <1>11, StartIs
<1>12. ASSUME kind = "csv" PROVE Leads(r, GaveUp(x))
  <2>1. i = n
    BY <1>1, <1>3, <1>4, <1>5, <1>7, <1>12, KindAt DEF Exe
  <2>2. i + 1 \in 1 .. n + 1 /\ i + 1 = n + 1
    BY <2>1, <1>5
  <2>3. Start(x.step, a, i + 1) = Start(x.step, a + 1, 1)
    BY <2>2, <1>4, StartIs
  <2>4. kind \notin {"sum", "get"}
    BY <1>12
  <2> QED  BY <2>3, <2>4, <1>2, <1>3, <1>11 DEF GaveUp
<1>13. kind \notin {"sum", "get"} => Leads(r, Goes(x))
  BY <1>2, <1>3, <1>11 DEF Goes
<1> QED  BY <1>1, <1>6, <1>7, <1>8, <1>10, <1>12, <1>13 DEF Stands

LEMMA GridMoves ==
    ASSUME Shared, Typed, NEW r \in Rank, Grid(r) PROVE Moves(r)
<1>1. PICK x : x = X(r)
  OBVIOUS
<1>2. At(r, "grid") /\ Outcome("output") = {0}
  BY OutcomeIs DEF Grid
<1>3. /\ pc[r] \in Walking /\ HasExe(x) /\ This(r) = Exe(x) /\ Exe(x) \in Exec
      /\ Kind[Exe(x)] = "grid" /\ Leads(r, Goes(x))
  <2>1. Stands(r, x, "grid")
    BY <1>1, <1>2, AtExec
  <2> QED  BY <2>1 DEF Stands
<1>4. Result(r, Fields(r, step[r])) /\ Done(r) /\ UNCHANGED <<at, step>> /\ calls' = calls
  BY <1>2 DEF Grid
<1>5. x.step = step[r]
  BY <1>1, XIs
<1>6. out'[r] = [out[r] EXCEPT ![Exe(x)] = Fields(r, x.step)]
  BY <1>3, <1>4, <1>5 DEF Result, Typed, Functions
<1>7. out[r] = [e \in Exec |-> out[r][e]]
  BY DEF Typed, AllSound, Typing, OutTyped
<1>8. PICK o : o = out[r]
  OBVIOUS
<1>9. /\ out'[r][Exe(x)] = Fields(r, x.step)
      /\ \A e \in Exec \ {Exe(x)} : out'[r][e] = out[r][e]
  <2>1. o = [e \in Exec |-> o[e]] /\ out'[r] = [o EXCEPT ![Exe(x)] = Fields(r, x.step)]
    BY <1>6, <1>7, <1>8
  <2> QED  BY <2>1, <1>3, <1>8
<1>10. Fine(r, Exe(x), x.step, out'[r])
  BY <1>3, <1>9 DEF Fine
<1> QED  BY <1>1, <1>3, <1>4, <1>9, <1>10, Finishes

LEMMA CsvMoves ==
    ASSUME Typed, NEW r \in Rank, Csv(r) PROVE Moves(r)
<1>1. PICK x : x = X(r)
  OBVIOUS
<1>2. At(r, "csv") /\ UNCHANGED <<out, step>> /\ calls' = calls
  BY DEF Csv
<1>3. /\ pc[r] \in Walking /\ HasExe(x) /\ This(r) = Exe(x) /\ Exe(x) \in Exec
      /\ Kind[Exe(x)] = "csv" /\ Leads(r, Goes(x)) /\ Leads(r, GaveUp(x))
  <2>1. Stands(r, x, "csv")
    BY <1>1, <1>2, AtExec
  <2> QED  BY <2>1 DEF Stands
<1>4. CASE GiveUp(r)
  BY <1>1, <1>2, <1>3, <1>4, GivesUp
<1>5. CASE Done(r) /\ UNCHANGED <<at, status>>
  <2>1. Fine(r, Exe(x), x.step, out'[r])
    BY <1>3 DEF Fine
  <2> QED  BY <2>1, <1>1, <1>2, <1>3, <1>5, Finishes
<1> QED  BY <1>4, <1>5 DEF Csv

LEMMA SumMoves ==
    ASSUME Shared, Typed, NEW r \in Rank, Sum(r) PROVE Moves(r)
<1>1. PICK x : x = X(r)
  OBVIOUS
<1>2. At(r, "sum") /\ Outcome("output") = {0} /\ UNCHANGED <<step, out>>
  BY OutcomeIs DEF Sum
<1>3. /\ pc[r] \in Walking \ Summing /\ HasExe(x) /\ Kind[Exe(x)] = "sum"
      /\ x = Base(x.step, x.at, x.i) /\ Leads(r, Opening(<<x.at, x.i>>, x.step))
  <2>1. Stands(r, x, "sum")
    BY <1>1, <1>2, AtExec
  <2> QED  BY <2>1 DEF Stands
<1>4. Meet(r, "coords", 0) /\ UNCHANGED <<at, todo>>
  BY <1>2 DEF Sum
<1>5. Leads(r, P("coords", x))
  BY <1>3 DEF Opening, Exe
<1>6. /\ "coords" \in (Judged \cup Tacit) \cap (Walking \ Summing)
      /\ "coords" \notin GetOps /\ 0 \in Bit
  BY DEF Tacit, Walking, SumOps, Summing, GetOps, Bit
<1> QED  BY <1>1, <1>2, <1>3, <1>4, <1>5, <1>6, GoesOn

LEMMA GetMoves ==
    ASSUME Shared, Typed, NEW r \in Rank, Get(r) PROVE Moves(r)
<1>1. PICK x : x = X(r)
  OBVIOUS
<1>2. At(r, "get") /\ Outcome("output") = {0} /\ UNCHANGED <<step, out>>
  BY OutcomeIs DEF Get
<1>3. /\ pc[r] \in Walking \ Summing /\ HasExe(x) /\ Kind[Exe(x)] = "get"
      /\ x = Base(x.step, x.at, x.i) /\ Leads(r, Opening(<<x.at, x.i>>, x.step))
  <2>1. Stands(r, x, "get")
    BY <1>1, <1>2, AtExec
  <2> QED  BY <2>1 DEF Stands
<1>4. PICK c \in Bit : Meet(r, "indices", c) /\ UNCHANGED <<at, todo>>
  BY <1>2, OutcomeIs DEF Get
<1>5. Leads(r, P("indices", x))
  BY <1>3 DEF Opening, Exe
<1>6. "indices" \in (Judged \cup Tacit) \cap (Walking \ Summing) /\ "indices" \notin SumOps
      /\ "indices" \notin Tacit
  BY DEF Judged, Tacit, Walking, SumOps, Summing, GetOps
<1> QED  BY <1>1, <1>2, <1>3, <1>4, <1>5, <1>6, GoesOn

LEMMA CoordsMoves ==
    ASSUME Typed, OnTrace, NEW r \in Rank, Coords(r) PROVE Moves(r)
<1>1. PICK x : x = X(r)
  OBVIOUS
<1>2. pc[r] = "coords" /\ "coords" \in Ops /\ Entered(r) /\ pc[r] \in Walking \ Summing
      /\ "coords" \in SumOps /\ UNCHANGED <<at, todo, step, out>>
  BY DEF Coords, Waited, Ops, Walking, SumOps, Summing, local
<1>3. Sound(r, "coords", x, todo[r], out[r], work[r])
      /\ \A p : (\A v : p = After(P("coords", x), v)) => Leads(r, p)
  BY <1>1, <1>2, InCall
<1>4. HasExe(x) /\ Kind[Exe(x)] = "sum"
  BY <1>2, <1>3, WalkKinds
<1>5. PICK c \in Bit : Meet(r, "init", c)
  BY OutcomeIs DEF Coords
<1>6. Leads(r, P("init", x))
  BY <1>3, AfterIs
<1>7. "init" \in (Judged \cup Tacit) \cap (Walking \ Summing) /\ "init" \notin GetOps
      /\ "init" \notin Tacit
  BY DEF Judged, Tacit, Walking, SumOps, Summing, GetOps
<1> QED  BY <1>1, <1>2, <1>4, <1>5, <1>6, <1>7, GoesOn

LEMMA SizeMoves ==
    ASSUME Typed, OnTrace, NEW r \in Rank, Size(r) PROVE Moves(r)
<1>1. PICK x : x = X(r)
  OBVIOUS
<1>2. pc[r] = "size" /\ "size" \in Ops /\ Entered(r) /\ pc[r] \in Walking \ Summing
      /\ "size" \in SumOps /\ UNCHANGED <<at, todo, step, out>>
  BY DEF Size, Waited, Ops, Walking, SumOps, Summing, local
<1>3. Sound(r, "size", x, todo[r], out[r], work[r])
      /\ \A p : (\A v : p = After(P("size", x), v)) => Leads(r, p)
  BY <1>1, <1>2, InCall
<1>4. HasExe(x) /\ Kind[Exe(x)] = "sum"
  BY <1>2, <1>3, WalkKinds
<1>5. PICK c \in Bit : Meet(r, "work", c)
  BY OutcomeIs DEF Size
<1>6. Leads(r, P("work", x))
  BY <1>3, AfterIs
<1>7. "work" \in (Judged \cup Tacit) \cap (Walking \ Summing) /\ "work" \notin GetOps
      /\ "work" \notin Tacit
  BY DEF Judged, Tacit, Walking, SumOps, Summing, GetOps
<1> QED  BY <1>1, <1>2, <1>4, <1>5, <1>6, <1>7, GoesOn

LEMMA ExtentsMoves ==
    ASSUME Typed, OnTrace, NEW r \in Rank, Extents(r) PROVE Moves(r)
<1>1. PICK x : x = X(r)
  OBVIOUS
<1>2. pc[r] = "extents" /\ "extents" \in Ops /\ Entered(r) /\ pc[r] \in Walking \ Summing
      /\ "extents" \in GetOps /\ UNCHANGED <<at, todo, step, out>>
  BY DEF Extents, Waited, Ops, Walking, GetOps, Summing, local
<1>3. Sound(r, "extents", x, todo[r], out[r], work[r])
      /\ \A p : (\A v : p = After(P("extents", x), v)) => Leads(r, p)
  BY <1>1, <1>2, InCall
<1>4. HasExe(x) /\ Kind[Exe(x)] = "get"
  BY <1>2, <1>3, WalkKinds
<1>5. PICK c \in Bit : Meet(r, "fields", c)
  BY OutcomeIs DEF Extents
<1>6. Leads(r, P("fields", x))
  BY <1>3, AfterIs
<1>7. "fields" \in (Judged \cup Tacit) \cap (Walking \ Summing) /\ "fields" \notin SumOps
      /\ "fields" \notin Tacit
  BY DEF Judged, Tacit, Walking, SumOps, Summing, GetOps
<1> QED  BY <1>1, <1>2, <1>4, <1>5, <1>6, <1>7, GoesOn

LEMMA InitOutputMoves ==
    ASSUME Typed, OnTrace, NEW r \in Rank, InitOutput(r) PROVE Moves(r)
<1>1. PICK x, v : x = X(r) /\ v = Largest(r)
  OBVIOUS
<1>2. pc[r] = "init" /\ "init" \in Ops /\ Entered(r) /\ pc[r] \in Walking \ Summing
      /\ "init" \in SumOps /\ "init" \in Judged /\ UNCHANGED <<step, out>>
  BY DEF InitOutput, Waited, Ops, Walking, SumOps, Summing, Judged
<1>3. Sound(r, "init", x, todo[r], out[r], work[r])
      /\ \A p : p = After(P("init", x), v) => Leads(r, p)
  BY <1>1, <1>2, InCall
<1>4. HasExe(x) /\ Kind[Exe(x)] = "sum"
  BY <1>2, <1>3, WalkKinds
<1>5. Leads(r, OrGiveUp(x, v, "size"))
  BY <1>3, AfterIs
<1>6. CASE v = 1
  <2>1. GiveUp(r) /\ calls' = calls
    BY <1>1, <1>6 DEF InitOutput, AnyFailed
  <2>2. Leads(r, GaveUp(x))
    BY <1>5, <1>6 DEF OrGiveUp
  <2> QED  BY <2>1, <2>2, <1>1, <1>2, GivesUp
<1>7. CASE v # 1
  <2>1. Meet(r, "size", 0) /\ UNCHANGED <<at, todo>>
    BY <1>1, <1>7 DEF InitOutput, AnyFailed
  <2>2. Leads(r, P("size", x))
    BY <1>5, <1>7 DEF OrGiveUp
  <2>3. "size" \in (Judged \cup Tacit) \cap (Walking \ Summing) /\ "size" \notin GetOps /\ 0 \in Bit
    BY DEF Judged, Tacit, Walking, SumOps, Summing, GetOps, Bit
  <2> QED  BY <2>1, <2>2, <2>3, <1>1, <1>2, <1>4, GoesOn
<1> QED  BY <1>6, <1>7

LEMMA IndicesMoves ==
    ASSUME Typed, OnTrace, NEW r \in Rank, Indices(r) PROVE Moves(r)
<1>1. PICK x, v : x = X(r) /\ v = Largest(r)
  OBVIOUS
<1>2. pc[r] = "indices" /\ "indices" \in Ops /\ Entered(r) /\ pc[r] \in Walking \ Summing
      /\ "indices" \in GetOps /\ "indices" \in Judged /\ UNCHANGED <<step, out>>
  BY DEF Indices, Waited, Ops, Walking, GetOps, Summing, Judged
<1>3. Sound(r, "indices", x, todo[r], out[r], work[r])
      /\ \A p : p = After(P("indices", x), v) => Leads(r, p)
  BY <1>1, <1>2, InCall
<1>4. HasExe(x) /\ Kind[Exe(x)] = "get"
  BY <1>2, <1>3, WalkKinds
<1>5. Leads(r, OrGiveUp(x, v, "extents"))
  BY <1>3, AfterIs
<1>6. CASE v = 1
  <2>1. GiveUp(r) /\ calls' = calls
    BY <1>1, <1>6 DEF Indices, AnyFailed
  <2>2. Leads(r, GaveUp(x))
    BY <1>5, <1>6 DEF OrGiveUp
  <2> QED  BY <2>1, <2>2, <1>1, <1>2, GivesUp
<1>7. CASE v # 1
  <2>1. Meet(r, "extents", 0) /\ UNCHANGED <<at, todo>>
    BY <1>1, <1>7 DEF Indices, AnyFailed
  <2>2. Leads(r, P("extents", x))
    BY <1>5, <1>7 DEF OrGiveUp
  <2>3. /\ "extents" \in (Judged \cup Tacit) \cap (Walking \ Summing)
        /\ "extents" \notin SumOps /\ 0 \in Bit
    BY DEF Judged, Tacit, Walking, SumOps, Summing, GetOps, Bit
  <2> QED  BY <2>1, <2>2, <2>3, <1>1, <1>2, <1>4, GoesOn
<1> QED  BY <1>6, <1>7

LEMMA ReleaseMoves ==
    ASSUME Typed, NEW r \in Rank, Release(r), ~Crash(r) PROVE Moves(r)
<1>1. PICK x : x = X(r)
  OBVIOUS
<1>2. pc[r] = "wild" /\ "wild" \notin Ops /\ "wild" \in Walking /\ calls' = calls /\ step' = step
  BY LabelFacts DEF Release, Walking
<1>3. GiveUp(r)
  BY DEF Release, Crash
<1>4. Leads(r, GaveUp(x))
  BY <1>1, <1>2, AtWork, LocusIs
<1> QED  BY <1>1, <1>2, <1>3, <1>4, GivesUp

\* A rank that goes through the fields.
LEMMA SumState ==
    ASSUME Typed, NEW r \in Rank, NEW l \in Summing, pc[r] = l, NEW x, x = X(r)
    PROVE  /\ HasExe(x) /\ This(r) = Exe(x) /\ Exe(x) \in Exec /\ Kind[Exe(x)] = "sum"
           /\ out[r][Exe(x)] = [n \in x.summed |-> SumOf(r, x.step)]
           /\ x.summed = DOMAIN out[r][Exe(x)] /\ x.summed \subseteq NameSet
           /\ l \in Mastering => /\ x.master = master[r] /\ x.master \in Nat /\ x.master \in Rank
                                 /\ x.master < Ranks /\ (x.master > 0 => x.summed = NameSet)
           /\ l = "post" => x.summed = NameSet /\ x.master = 0
           /\ l \in Fielding => x.name = name[r] /\ x.name \in NameSet
           /\ l \notin Fielding => x.name = End
<1>1. l \in SumOps /\ l \in Walking
  BY LabelFacts DEF Walking
<1>2. PICK a, t, m, n, o, s, w : /\ a = at[r] /\ t = todo[r] /\ m = master[r] /\ n = name[r]
                                 /\ o = out[r] /\ s = step[r] /\ w = work[r]
  OBVIOUS
<1>3. x = Shape(l, s, a, t, m, n, o)
  BY <1>2 DEF X
<1>4. Sound(r, l, x, t, o, w)
  BY <1>2 DEF Typed, AllSound
<1>5. HasExe(x) /\ Kind[Exe(x)] = "sum" /\ x \in Common
  BY <1>1, <1>4, WalkKinds DEF Sound
<1>6. This(r) = Exe(x) /\ Exe(x) \in Exec
  BY <1>1, <1>5, WalksHere
<1>7. Head(t) = Exe(x)
  BY <1>2, <1>6 DEF This
<1>8. o[Exe(x)] = [k \in x.summed |-> SumOf(r, x.step)]
  BY <1>4 DEF Sound, Data
<1>9. x.summed = DOMAIN o[Exe(x)] /\ x.summed \subseteq NameSet
  BY <1>5, <1>8, CommonIs
<1>10. /\ x.master = IF l \in Mastering THEN m ELSE 0
       /\ x.name = IF l \in Fielding THEN n ELSE End
  BY <1>3, RecIs DEF Shape
<1>11. ASSUME l \in Mastering
       PROVE  /\ x.master = master[r] /\ x.master \in Nat /\ x.master \in Rank
              /\ x.master < Ranks /\ (x.master > 0 => x.summed = NameSet)
  <2>1. x.master = master[r]
    BY <1>2, <1>10, <1>11
  <2>2. x.master < Ranks /\ (x.master > 0 => x.summed = NameSet)
    BY <1>4, <1>11 DEF Sound, Fits
  <2>3. x.master \in Nat
    BY <1>5, CommonIs
  <2>4. x.master \in Rank
    BY <2>2, <2>3, Constants
  <2> QED  BY <2>1, <2>2, <2>3, <2>4
<1>12. l = "post" => x.summed = NameSet /\ x.master = 0
  BY <1>4, <1>10 DEF Sound, Fits, Mastering
<1>13. l \in Fielding => x.name = name[r] /\ x.name \in NameSet
  BY <1>2, <1>4, <1>10 DEF Sound, Fits
<1>14. l \notin Fielding => x.name = End
  BY <1>10
<1> QED  BY <1>2, <1>5, <1>6, <1>8, <1>9, <1>11, <1>12, <1>13, <1>14

\* What an executive works on is whole, and of this step.
LEMMA InputIs ==
    ASSUME Typed, NEW r \in Rank, pc[r] \in SumOps \cup GetOps, NEW x, x = X(r)
    PROVE  /\ Kind[Source[Exe(x)]] \in {"grid", "sum"} /\ This(r) = Exe(x) /\ Exe(x) \in Exec
           /\ \A n \in NameSet : Input(r)[n] = Part(r, Source[Exe(x)], x.step)
<1>1. pc[r] \in Walking
  BY DEF Walking
<1>2. Sound(r, pc[r], x, todo[r], out[r], work[r])
  BY DEF Typed, AllSound
<1>3. HasExe(x) /\ Kind[Exe(x)] \in {"sum", "get"}
  BY <1>2, WalkKinds
<1>4. This(r) = Exe(x) /\ Exe(x) \in Exec /\ x.i \in 1 .. Len(Path(x.at)) /\ x.at \in Beginnings
      /\ x.i \in Nat
  BY <1>1, <1>3, Walks, WalksHere
<1>5. PICK a, i, e : a = x.at /\ i = x.i /\ e = Exe(x) /\ e = Path(a)[i]
  BY DEF Exe
<1>6. /\ a \in Beginnings /\ i \in 1 .. Len(Path(a)) /\ i \in Nat
      /\ Kind[Path(a)[i]] \in {"sum", "get"}
  BY <1>3, <1>4, <1>5
<1>7. /\ Kind[Source[e]] \in {"grid", "sum"} /\ i > 1 /\ Source[e] = Path(a)[i - 1]
  <2>1. Kind[Path(a)[i]] # "grid"
    BY <1>6
  <2> QED  BY <2>1, <1>5, <1>6, KindAt
<1>8. i - 1 \in 1 .. i - 1
  BY <1>6, <1>7
<1>9. Fine(r, Source[e], x.step, out[r])
  <2>1. \A k \in 1 .. i - 1 : Fine(r, Path(a)[k], x.step, out[r])
    BY <1>2, <1>5 DEF Sound, Data
  <2> QED  BY <2>1, <1>7, <1>8
<1>10. PICK o, g : o = out[r][Source[e]] /\ g = Source[e]
  OBVIOUS
<1>11. ASSUME NEW n \in NameSet PROVE o[n] = Part(r, g, x.step)
  <2>1. CASE Kind[g] = "grid"
    <3>1. o = Fields(r, x.step)
      BY <2>1, <1>9, <1>10 DEF Fine
    <3>2. o[n] = {<<r, x.step>>}
      BY <3>1 DEF Fields, NameSet
    <3> QED  BY <3>2, <2>1 DEF Part
  <2>2. CASE Kind[g] = "sum"
    <3>1. o = [k \in NameSet |-> SumOf(r, x.step)]
      BY <2>2, <1>9, <1>10 DEF Fine
    <3>2. o[n] = SumOf(r, x.step) /\ Kind[g] # "grid"
      BY <3>1, <2>2
    <3> QED  BY <3>2 DEF Part
  <2> QED  BY <2>1, <2>2, <1>7, <1>10
<1>12. Input(r) = o /\ Source[Exe(x)] = g
  BY <1>4, <1>5, <1>10 DEF Input
<1> QED  BY <1>4, <1>7, <1>10, <1>11, <1>12

LEMMA Earlier ==
    ASSUME NEW a \in Beginnings, NEW i \in 1 .. Len(Path(a)), NEW k \in 1 .. i - 1
    PROVE  Path(a)[k] # Path(a)[i] /\ Path(a)[k] \in Exec
<1>1. PICK p, n : p = Path(a) /\ n = Len(p)
  OBVIOUS
<1>2. n \in Nat /\ i \in 1 .. n /\ k \in 1 .. n
  <2>1. n \in Nat
    BY <1>1, PathIs
  <2> QED  BY <2>1, <1>1
<1>3. p[k] \in Exec
  BY <1>1, <1>2, PathIs
<1>4. p[k] # p[i]
  BY <1>1, <1>2, PathIs
<1> QED  BY <1>1, <1>3, <1>4

\* The next call of a statistic that goes through the fields.
LEMMA SumsOn ==
    ASSUME Typed, NEW r \in Rank, pc[r] \in SumOps, NEW op \in Summing, NEW x, x = X(r),
           UNCHANGED <<at, todo, step>>, pc'[r] = op,
           \A e \in Exec \ {Exe(x)} : out'[r][e] = out[r][e],
           NEW d, d \subseteq NameSet, out'[r][Exe(x)] = [k \in d |-> SumOf(r, x.step)],
           NEW m \in Nat, NEW n, NEW y, y = Rec(x.step, x.at, x.i, m, n, d),
           op \in Mastering => m = master'[r] /\ m < Ranks /\ (m > 0 => d = NameSet),
           op \notin Mastering => m = 0 /\ d = NameSet,
           op \in Fielding => n = name'[r] /\ n \in NameSet, op \notin Fielding => n = End,
           op = "new" => work'[r] = SumOf(r, x.step),
           NEW v \in Value, Enter(r, op, v), Allowed(P(op, y), r, v), Leads(r, P(op, y))
    PROVE  Moves(r)
<1>1. pc[r] \in Walking /\ op \in Walking /\ op \in SumOps /\ op \in Ops /\ op \notin GetOps
      /\ op # "report" /\ op \notin Halted
  <2>1. pc[r] \in Walking /\ op \in SumOps
    BY LabelFacts DEF Walking
  <2>2. "report" \notin SumOps
    BY DEF SumOps
  <2> QED  BY <2>1, <2>2, LabelFacts DEF Walking
<1>2. Sound(r, pc[r], x, todo[r], out[r], work[r])
  BY DEF Typed, AllSound
<1>3. HasExe(x) /\ Kind[Exe(x)] = "sum"
  BY <1>2, WalkKinds
<1>4. This(r) = Exe(x) /\ Exe(x) \in Exec /\ x.i \in 1 .. Len(Path(x.at))
  BY <1>1, <1>3, WalksHere
<1>5. /\ x \in Common /\ x.at \in Beginnings /\ x.at \in Nat /\ x.at \in 1 .. Len(Controls) + 1
      /\ x.step \in Nat /\ x.step < StepMax /\ x.step <= StepMax
      /\ x.i \in 1 .. Len(Path(x.at)) + 1 /\ x.i \in Nat
      /\ todo[r] = Rest(x.at, x.i) /\ x.i = Len(Path(x.at)) - Len(todo[r]) + 1
  BY <1>1, Walks
<1>6. at'[r] = x.at /\ step'[r] = x.step /\ todo'[r] = todo[r]
  BY XIs
<1>7. /\ y.step = x.step /\ y.at = x.at /\ y.i = x.i /\ y.master = m /\ y.name = n
      /\ y.summed = d /\ y \in Common
  <2>1. n \in NameSet \cup {End}
    OBVIOUS
  <2> QED  BY <2>1, <1>5, RecIs
<1>8. X(r)' = y
  <2>1. PICK t, mm, nn, o : t = todo[r] /\ mm = master'[r] /\ nn = name'[r] /\ o = out'[r]
    OBVIOUS
  <2>2. X(r)' = Shape(op, x.step, x.at, t, mm, nn, o)
    <3>1. pc'[r] = op /\ step'[r] = x.step /\ at'[r] = x.at /\ todo'[r] = t
      BY <2>1, <1>6
    <3>2. master'[r] = mm /\ name'[r] = nn /\ out'[r] = o
      BY <2>1
    <3> QED  BY ONLY <3>1, <3>2 DEF X
  <2>3. DOMAIN o[Head(t)] = d
    BY <2>1, <1>4 DEF This
  <2>4. IF op \in Mastering THEN mm = m ELSE m = 0
    BY <2>1
  <2>5. IF op \in Fielding THEN nn = n ELSE n = End
    BY <2>1
  <2>6. x.i = Len(Path(x.at)) - Len(t) + 1
    BY <2>1, <1>5
  <2>7. Shape(op, x.step, x.at, t, mm, nn, o) = Rec(x.step, x.at, x.i, m, n, d)
    BY <2>3, <2>4, <2>5, <2>6, <1>1 DEF Shape
  <2> QED  BY <2>2, <2>7
<1>9. Exe(y) = Exe(x)
  BY <1>7 DEF Exe
<1>10. Fits(op, y, todo'[r])
  <2>1. op = "post" => op \notin Mastering
    BY DEF Mastering
  <2>2. y.i <= Len(Path(y.at)) /\ Kind[Exe(y)] = "sum"
    BY <1>3, <1>7, <1>9 DEF HasExe
  <2> QED  BY <2>1, <2>2, <1>1, <1>5, <1>6, <1>7 DEF Fits
<1>11. Data(r, op, y, out'[r], work'[r])
  <2>1. ASSUME NEW k \in 1 .. y.i - 1 PROVE Fine(r, Path(y.at)[k], y.step, out'[r])
    <3>1. PICK i, p, N : i = x.i /\ p = Path(x.at) /\ N = Len(Path(x.at))
      OBVIOUS
    <3>2. i \in 1 .. N /\ k \in 1 .. i - 1 /\ N \in Nat
      BY <3>1, <1>1, <1>4, <1>7, Walks
    <3>3. k \in 1 .. N
      BY <3>2
    <3>4. p[k] # p[i] /\ p[k] \in Exec
      <4>1. x.at \in Beginnings
        BY <1>5
      <4>2. x.i \in 1 .. Len(Path(x.at)) /\ k \in 1 .. x.i - 1
        BY ONLY <3>1, <3>2
      <4>3. Path(x.at)[k] # Path(x.at)[x.i] /\ Path(x.at)[k] \in Exec
        BY ONLY <4>1, <4>2, Earlier
      <4> QED  BY ONLY <3>1, <4>3
    <3>5. Fine(r, p[k], x.step, out[r])
      BY <3>1, <3>2, <1>2 DEF Sound, Data
    <3>6. out'[r][p[k]] = out[r][p[k]]
      BY <3>1, <3>4 DEF Exe
    <3> QED  BY <3>1, <3>5, <3>6, <1>7 DEF Fine
  <2>2. out'[r][Exe(y)] = [k \in y.summed |-> SumOf(r, y.step)]
    BY <1>7, <1>9
  <2> QED  BY <2>1, <2>2, <1>7 DEF Data
<1> QED  BY <1>1, <1>7, <1>8, <1>10, <1>11, MovesInto DEF Sound

\* The output of an executive of rank r is replaced.
LEMMA Replaced ==
    ASSUME Typed, NEW r \in Rank, NEW e \in Exec, NEW v, This(r) = e, Result(r, v)
    PROVE  out'[r][e] = v /\ \A f \in Exec \ {e} : out'[r][f] = out[r][f]
<1>1. PICK o : o = out[r]
  OBVIOUS
<1>2. o = [f \in Exec |-> o[f]]
  BY <1>1 DEF Typed, AllSound, Typing, OutTyped
<1>3. out'[r] = [o EXCEPT ![e] = v]
  BY <1>1 DEF Result, Typed, Functions
<1> QED  BY <1>1, <1>2, <1>3

LEMMA WorkMoves ==
    ASSUME Typed, OnTrace, NEW r \in Rank, Work(r) PROVE Moves(r)
<1>1. PICK x, v : x = X(r) /\ v = Largest(r)
  OBVIOUS
<1>2. pc[r] = "work" /\ "work" \in Ops /\ Entered(r) /\ pc[r] \in Walking \ Summing
      /\ "work" \in SumOps /\ "work" \in Judged /\ UNCHANGED <<at, todo, step>>
  BY DEF Work, Waited, Ops, Walking, SumOps, Summing, Judged
<1>3. Sound(r, "work", x, todo[r], out[r], work[r])
      /\ \A p : p = After(P("work", x), v) => Leads(r, p)
  BY <1>1, <1>2, InCall
<1>4. HasExe(x) /\ Kind[Exe(x)] = "sum"
  BY <1>2, <1>3, WalkKinds
<1>5. This(r) = Exe(x) /\ Exe(x) \in Exec
  BY <1>1, <1>2, <1>4, WalksHere
<1>6. Leads(r, OrGiveUp(x, v, "names"))
  BY <1>3, AfterIs
<1>7. x = Base(x.step, x.at, x.i)
  BY <1>1, <1>2, XIs
<1>8. CASE v = 1
  <2>1. pc'[r] = "wild" /\ calls' = calls /\ UNCHANGED <<out, work>>
    BY <1>1, <1>8 DEF Work, AnyFailed, Goto, Typed, Functions
  <2>2. "wild" \in Walking \ Summing /\ "wild" \in Labels \ Ops /\ "wild" \notin SumOps \cup GetOps
        /\ "wild" # "new"
    <3>1. "wild" \in Walking /\ "wild" \in Labels \ Ops
      BY LabelFacts DEF Walking
    <3> QED  BY <3>1, LabelFacts
  <2>3. Leads(r, LocusOf("wild", x))
    BY <1>6, <1>8, LocusIs DEF OrGiveUp
  <2>4. /\ x \in Common /\ x.at \in Beginnings /\ x.at \in 1 .. Len(Controls) + 1
        /\ x.step < StepMax /\ x.step <= StepMax /\ x.i \in 1 .. Len(Path(x.at)) + 1
        /\ todo[r] = Rest(x.at, x.i) /\ x.i = Len(Path(x.at)) - Len(todo[r]) + 1
    BY <1>1, <1>2, Walks
  <2>5. X(r)' = x
    <3>1. PICK a, t, m, n, o : /\ a = x.at /\ t = todo[r] /\ m = master'[r]
                               /\ n = name'[r] /\ o = out'[r]
      OBVIOUS
    <3>2. at'[r] = a /\ step'[r] = x.step /\ todo'[r] = t
      BY <3>1, <1>1, <1>2, XIs
    <3>3. X(r)' = Shape("wild", x.step, a, t, m, n, o)
      BY <3>1, <3>2, <2>1 DEF X
    <3>4. Shape("wild", x.step, a, t, m, n, o) = Base(x.step, a, Len(Path(a)) - Len(t) + 1)
      BY <2>2, ShapeIs
    <3> QED  BY <3>1, <3>3, <3>4, <2>4, <1>7
  <2>6. Fits("wild", x, todo'[r])
    BY <2>2, <2>4, <1>2, FitsPlain
  <2>7. Data(r, "wild", x, out'[r], work'[r])
    BY <2>1, <2>2, <1>3 DEF Sound, Data
  <2> QED  BY <2>1, <2>2, <2>3, <2>4, <2>5, <2>6, <2>7, MovesTo DEF Sound
<1>9. CASE v # 1
  <2>1. /\ Result(r, <<>>) /\ master' = [master EXCEPT ![r] = 0]
        /\ \E c \in Outcome("names") : Meet(r, "names", IF r = 0 THEN 0 ELSE c)
    BY <1>1, <1>9 DEF Work, AnyFailed
  <2>2. PICK c \in Bit : Meet(r, "names", c)
    <3>1. 0 \in Bit
      BY DEF Bit
    <3> QED  BY <2>1, <3>1, OutcomeIs
  <2>3. Leads(r, P("names", x))
    BY <1>6, <1>9 DEF OrGiveUp
  <2>4. "names" \in Judged \cup Tacit /\ "names" \notin Tacit /\ "names" \in Summing
        /\ "names" \in Mastering /\ "names" \notin Fielding /\ "names" # "new"
    BY DEF Judged, Tacit, Summing, Mastering, Fielding
  <2>5. c \in Value /\ Enter(r, "names", c) /\ Allowed(P("names", x), r, c) /\ pc'[r] = "names"
    BY <2>2, <2>4, Tells
  <2>6. out'[r][Exe(x)] = <<>> /\ \A e \in Exec \ {Exe(x)} : out'[r][e] = out[r][e]
    BY <2>1, <1>5, Replaced
  <2>7. PICK d : d = {}
    OBVIOUS
  <2>8. out'[r][Exe(x)] = [k \in d |-> SumOf(r, x.step)] /\ d \subseteq NameSet
    <3>1. <<>> = [k \in {} |-> SumOf(r, x.step)]
      OBVIOUS
    <3> QED  BY <3>1, <2>6, <2>7
  <2>9. x = Rec(x.step, x.at, x.i, 0, End, d)
    BY <1>7, <2>7 DEF Base
  <2>10. master'[r] = 0 /\ 0 \in Nat /\ 0 < Ranks /\ ~(0 > 0)
    <3>1. master'[r] = 0
      BY <2>1 DEF Typed, Functions
    <3> QED  BY <3>1, Constants
  <2> QED  BY <2>3, <2>4, <2>5, <2>6, <2>8, <2>9, <2>10, <1>1, <1>2, SumsOn
<1> QED  BY <1>8, <1>9

\* The name a rank sends is that of the next field, if it is the master's turn.
LEMMA OfferIs ==
    ASSUME NEW r \in Rank, NEW x, master[r] = x.master, This(r) = Exe(x),
           DOMAIN out[r][Exe(x)] = x.summed
    PROVE  Offer(r) \in Value /\ Allowed(P("next", x), r, Offer(r))
<1>1. First(x.summed) \in NameSet \cup {End}
  BY FirstIs
<1>2. Offer(r) \in Value
  BY <1>1 DEF Offer, Value
<1>3. r = x.master => Offer(r) = First(x.summed)
  BY DEF Offer
<1>4. "next" \in Ops
  BY DEF Ops
<1> QED  BY <1>2, <1>3, <1>4, AllowedIs

LEMMA NamesLeaveMoves ==
    ASSUME Typed, OnTrace, NEW r \in Rank, NamesLeave(r) PROVE Moves(r)
<1>1. PICK x, v : x = X(r) /\ v = Largest(r)
  OBVIOUS
<1>2. pc[r] = "names" /\ "names" \in Ops /\ Entered(r) /\ pc[r] \in Walking
      /\ "names" \in SumOps /\ "names" \in Summing /\ "names" \in Mastering
      /\ "names" \notin Fielding /\ "names" \in Judged
  BY DEF NamesLeave, Waited, Ops, Walking, SumOps, Summing, Mastering, Fielding, Judged
<1>3. \A p : p = After(P("names", x), v) => Leads(r, p)
  BY <1>1, <1>2, InCall
<1>4. Leads(r, OrGiveUp(x, v, "next"))
  BY <1>3, AfterIs
<1>5. /\ This(r) = Exe(x) /\ Exe(x) \in Exec
      /\ out[r][Exe(x)] = [n \in x.summed |-> SumOf(r, x.step)]
      /\ x.summed = DOMAIN out[r][Exe(x)] /\ x.summed \subseteq NameSet
      /\ x.master = master[r] /\ x.master \in Nat /\ x.master \in Rank
      /\ x.master < Ranks /\ (x.master > 0 => x.summed = NameSet) /\ x.name = End
  BY <1>1, <1>2, SumState
<1>6. CASE v = 1
  <2>1. GiveUp(r) /\ calls' = calls /\ step' = step
    BY <1>1, <1>6 DEF NamesLeave, AnyFailed
  <2>2. Leads(r, GaveUp(x))
    BY <1>4, <1>6 DEF OrGiveUp
  <2> QED  BY <2>1, <2>2, <1>1, <1>2, GivesUp
<1>7. CASE v # 1
  <2>1. Meet(r, "next", Offer(r)) /\ UNCHANGED <<at, todo, step, master, out>>
    BY <1>1, <1>7 DEF NamesLeave, AnyFailed
  <2>2. Leads(r, P("next", x))
    BY <1>4, <1>7 DEF OrGiveUp
  <2>3. "next" \in Summing /\ "next" \in Mastering /\ "next" \notin Fielding /\ "next" # "new"
    BY DEF Summing, Mastering, Fielding
  <2>4. x = Rec(x.step, x.at, x.i, x.master, End, x.summed)
    <3>1. x \in Common
      BY <1>1, PathsTyped
    <3> QED  BY <3>1, <1>5, CommonIs
  <2>5. PICK d, v2 : d = x.summed /\ v2 = Offer(r)
    OBVIOUS
  <2>6. v2 \in Value /\ Allowed(P("next", x), r, v2)
    BY <2>5, <1>5, OfferIs
  <2>7. Enter(r, "next", v2) /\ pc'[r] = "next"
    BY <2>1, <2>5 DEF Meet, Goto, Typed, Functions
  <2>8. \A e \in Exec \ {Exe(x)} : out'[r][e] = out[r][e]
    BY <2>1
  <2>9. out'[r][Exe(x)] = [k \in d |-> SumOf(r, x.step)] /\ d \subseteq NameSet
    BY <2>1, <2>5, <1>5
  <2>10. PICK m \in Nat : m = x.master
    BY <1>5
  <2>11. m = master'[r] /\ m < Ranks /\ (m > 0 => d = NameSet)
    BY <2>1, <2>5, <2>10, <1>5
  <2>12. x = Rec(x.step, x.at, x.i, m, End, d)
    BY <2>4, <2>5, <2>10
  <2> QED  BY <2>1, <2>2, <2>3, <2>6, <2>7, <2>8, <2>9, <2>11, <2>12, <1>1, <1>2, SumsOn
<1> QED  BY <1>6, <1>7

LEMMA NextFieldMoves ==
    ASSUME Shared, Typed, OnTrace, NEW r \in Rank, NextField(r) PROVE Moves(r)
<1>1. PICK x, f : x = X(r) /\ f = Given(master[r], r)
  OBVIOUS
<1>2. pc[r] = "next" /\ "next" \in Ops /\ Entered(r) /\ "next" \in Summing /\ "next" \in Mastering
      /\ "next" \in SumOps /\ "next" \notin Fielding
  BY DEF NextField, Waited, Ops, SumOps, Summing, Mastering, Fielding
<1>3. /\ \A p : (\A v : p = After(P("next", x), v)) => Leads(r, p)
      /\ \A q \in Rank : Allowed(P("next", x), q, Given(q, r))
  BY <1>1, <1>2, InCall
<1>4. Leads(r, AfterNext(x))
  BY <1>3, AfterIs
<1>5. /\ This(r) = Exe(x) /\ Exe(x) \in Exec
      /\ out[r][Exe(x)] = [n \in x.summed |-> SumOf(r, x.step)]
      /\ x.summed = DOMAIN out[r][Exe(x)] /\ x.summed \subseteq NameSet
      /\ x.master = master[r] /\ x.master \in Nat /\ x.master \in Rank
      /\ x.master < Ranks /\ (x.master > 0 => x.summed = NameSet) /\ x.name = End
  BY <1>1, <1>2, SumState
<1>6. f = First(x.summed)
  <2>1. Allowed(P("next", x), x.master, f)
    BY <1>1, <1>3, <1>5
  <2> QED  BY <2>1, <1>2, AllowedIs
<1>7. iret[r] = 0
  BY DEF Typed, AllSound, Typing
<1>8. UNCHANGED <<step, work, out>> /\ name'[r] = f
  BY <1>1 DEF NextField, Typed, Functions
<1>9. \A e \in Exec \ {Exe(x)} : out'[r][e] = out[r][e]
  BY <1>8
<1>10. PICK d : d = x.summed
  OBVIOUS
<1>11. out'[r][Exe(x)] = [k \in d |-> SumOf(r, x.step)] /\ d \subseteq NameSet
  BY <1>5, <1>8, <1>10
<1>12. PICK m \in Nat : m = x.master
  BY <1>5
<1>13. CASE f # End
  <2>1. f \in NameSet
    BY <1>6, <1>13, FirstIs
  <2>2. Outcome("local") = {0}
    BY OutcomeIs
  <2>3. Meet(r, "local", 0) /\ UNCHANGED <<at, todo, master>>
    BY <2>2, <1>1, <1>13 DEF NextField
  <2>4. "local" \in Summing /\ "local" \in Mastering /\ "local" \in Fielding /\ "local" # "new"
        /\ "local" \in Tacit /\ 0 \in Bit
    BY DEF Summing, Mastering, Fielding, Tacit, Bit
  <2>5. PICK y : y = Rec(x.step, x.at, x.i, m, f, d)
    OBVIOUS
  <2>6. y = WithField(x)
    BY <2>5, <1>6, <1>10, <1>12 DEF WithField
  <2>7. Leads(r, P("local", y))
    BY <2>6, <1>4, <1>6, <1>13 DEF AfterNext
  <2>8. 0 \in Value /\ Enter(r, "local", 0) /\ Allowed(P("local", y), r, 0) /\ pc'[r] = "local"
    BY <2>3, <2>4, Tells
  <2>9. m = master'[r] /\ m < Ranks /\ (m > 0 => d = NameSet)
    BY <2>3, <1>5, <1>10, <1>12
  <2> QED  BY <2>1, <2>3, <2>4, <2>5, <2>7, <2>8, <2>9, <1>1, <1>2, <1>8, <1>9, <1>11, SumsOn
<1>14. CASE f = End
  <2>1. d = NameSet
    BY <1>5, <1>6, <1>10, <1>14, FirstIs
  <2>2. NextMaster(r, 0)
    BY <1>1, <1>7, <1>14 DEF NextField
  <2>3. master'[r] = m + 1 /\ m + 1 \in Nat
    BY <2>2, <1>5, <1>12 DEF NextMaster, Typed, Functions
  <2>4. CASE m + 1 = Ranks
    <3>1. EndGrid(r, 0)
      BY <2>2, <2>4, <1>5, <1>12 DEF NextMaster, Ranks
    <3>2. PICK c \in Bit : Meet(r, "post", c)
      <4>1. 0 \in Bit
        BY DEF Bit
      <4> QED  BY <4>1, <3>1, OutcomeIs DEF EndGrid
    <3>3. UNCHANGED <<at, todo>>
      BY <3>1 DEF EndGrid
    <3>4. "post" \in Summing /\ "post" \notin Mastering /\ "post" \notin Fielding /\ "post" # "new"
          /\ "post" \in Judged \cup Tacit /\ "post" \notin Tacit
      BY DEF Summing, Mastering, Fielding, Judged, Tacit
    <3>5. PICK y : y = Rec(x.step, x.at, x.i, 0, End, d)
      OBVIOUS
    <3>6. Leads(r, P("post", y))
      BY <3>5, <2>4, <1>4, <1>6, <1>10, <1>12, <1>14 DEF AfterNext, WithAll
    <3>7. c \in Value /\ Enter(r, "post", c) /\ Allowed(P("post", y), r, c) /\ pc'[r] = "post"
      BY <3>2, <3>4, Tells
    <3>8. 0 \in Nat
      OBVIOUS
    <3> QED  BY <2>1, <3>3, <3>4, <3>5, <3>6, <3>7, <3>8, <1>1, <1>2, <1>8, <1>9, <1>11, SumsOn
  <2>5. CASE m + 1 # Ranks
    <3>1. /\ \E c \in Outcome("names") : Meet(r, "names", IF r = master[r] + 1 THEN 0 ELSE c)
          /\ UNCHANGED <<at, todo>>
      BY <2>2, <2>5, <1>5, <1>12 DEF NextMaster, Ranks
    <3>2. PICK c \in Bit : Meet(r, "names", c)
      <4>1. 0 \in Bit
        BY DEF Bit
      <4> QED  BY <4>1, <3>1, OutcomeIs
    <3>3. "names" \in Summing /\ "names" \in Mastering /\ "names" \notin Fielding /\ "names" # "new"
          /\ "names" \in Judged \cup Tacit /\ "names" \notin Tacit
      BY DEF Summing, Mastering, Fielding, Judged, Tacit
    <3>4. PICK k \in Nat : k = m + 1
      BY <2>3
    <3>5. PICK y : y = Rec(x.step, x.at, x.i, k, End, d)
      OBVIOUS
    <3>6. y = WithMaster(x)
      BY <3>4, <3>5, <1>10, <1>12 DEF WithMaster
    <3>7. Leads(r, P("names", y))
      BY <3>6, <2>5, <1>4, <1>6, <1>12, <1>14 DEF AfterNext
    <3>8. c \in Value /\ Enter(r, "names", c) /\ Allowed(P("names", y), r, c) /\ pc'[r] = "names"
      BY <3>2, <3>3, Tells
    <3>9. k = master'[r] /\ k < Ranks
      <4>1. m < Ranks /\ Ranks \in Nat
        BY <1>5, <1>12, Constants
      <4> QED  BY <4>1, <2>3, <2>5, <3>4
    <3> QED  BY <2>1, <3>1, <3>3, <3>5, <3>7, <3>8, <3>9, <1>1, <1>2, <1>8, <1>9, <1>11, SumsOn
  <2> QED  BY <2>4, <2>5
<1> QED  BY <1>13, <1>14

LEMMA LocalLeaveMoves ==
    ASSUME Typed, OnTrace, NEW r \in Rank, LocalLeave(r) PROVE Moves(r)
<1>1. PICK x : x = X(r)
  OBVIOUS
<1>2. pc[r] = "local" /\ "local" \in Ops /\ Entered(r) /\ "local" \in Summing
      /\ "local" \in Mastering /\ "local" \in SumOps /\ "local" \in Fielding /\ "local" \in Tacit
  BY DEF LocalLeave, Waited, Ops, SumOps, Summing, Mastering, Fielding, Tacit
<1>3. /\ \A p : (\A v : p = After(P("local", x), v)) => Leads(r, p)
      /\ Largest(r) = 0
  BY <1>1, <1>2, InCall
<1>4. Leads(r, P("gather", x))
  BY <1>3, AfterIs
<1>5. /\ This(r) = Exe(x) /\ Exe(x) \in Exec
      /\ out[r][Exe(x)] = [n \in x.summed |-> SumOf(r, x.step)]
      /\ x.summed = DOMAIN out[r][Exe(x)] /\ x.summed \subseteq NameSet
      /\ x.master = master[r] /\ x.master \in Nat
      /\ x.master < Ranks /\ (x.master > 0 => x.summed = NameSet)
      /\ x.name = name[r] /\ x.name \in NameSet
  BY <1>1, <1>2, SumState
<1>6. /\ Meet(r, "gather", Input(r)[name[r]])
      /\ UNCHANGED <<at, todo, master, name, out, step>>
  BY <1>3 DEF LocalLeave, AnyFailed
<1>7. PICK v : v = Part(r, Source[Exe(x)], x.step)
  OBVIOUS
<1>8. Input(r)[name[r]] = v
  BY <1>1, <1>2, <1>5, <1>7, InputIs
<1>9. Enter(r, "gather", v) /\ pc'[r] = "gather"
  BY <1>6, <1>8 DEF Meet, Goto, Typed, Functions
<1>10. v \in Value
  <2>1. x.step \in Nat /\ r \in Rank
    BY <1>1, PathsTyped, CommonIs
  <2>2. v \subseteq Rank \X Nat
    BY <2>1, <1>7 DEF Part, SumOf
  <2> QED  BY <2>2 DEF Value
<1>11. "gather" \in Summing /\ "gather" \in Mastering /\ "gather" \in Fielding /\ "gather" # "new"
       /\ "gather" \in Ops
  BY DEF Summing, Mastering, Fielding, Ops
<1>12. Allowed(P("gather", x), r, v)
  BY <1>7, <1>11, AllowedIs
<1>13. PICK d, n : d = x.summed /\ n = x.name
  OBVIOUS
<1>14. PICK m \in Nat : m = x.master
  BY <1>5
<1>15. x = Rec(x.step, x.at, x.i, m, n, d)
  <2>1. x \in Common
    BY <1>1, PathsTyped
  <2> QED  BY <2>1, <1>13, <1>14, CommonIs
<1>16. \A e \in Exec \ {Exe(x)} : out'[r][e] = out[r][e]
  BY <1>6
<1>17. out'[r][Exe(x)] = [k \in d |-> SumOf(r, x.step)] /\ d \subseteq NameSet
  BY <1>5, <1>6, <1>13
<1>18. m = master'[r] /\ m < Ranks /\ (m > 0 => d = NameSet) /\ n = name'[r] /\ n \in NameSet
  BY <1>5, <1>6, <1>13, <1>14
<1> QED  BY <1>1, <1>2, <1>4, <1>6, <1>9, <1>10, <1>11, <1>12, <1>15, <1>16, <1>17, <1>18, SumsOn

\* What all the ranks contribute to the sum of a field.
LEMMA SumOfParts ==
    ASSUME NEW r \in Rank, NEW g, NEW s, \A q \in Rank : Given(q, r) = Part(q, g, s)
    PROVE  UNION Contributed(r) = Rank \X {s}
<1>2. Contributed(r) = {Part(q, g, s) : q \in Rank}
  BY DEF Contributed
<1>3. CASE Kind[g] = "grid"
  <2>1. Contributed(r) = {{<<q, s>>} : q \in Rank}
    BY <1>2, <1>3 DEF Part
  <2>2. \A t : t \in UNION {{<<q, s>>} : q \in Rank} <=> t \in Rank \X {s}
    OBVIOUS
  <2> QED  BY <2>1, <2>2
<1>4. CASE Kind[g] # "grid"
  <2>1. Contributed(r) = {SumOf(q, s) : q \in Rank}
    BY <1>2, <1>4 DEF Part
  <2>2. SumOf(Root, s) = Rank \X {s} /\ Root \in Rank
    BY Constants DEF SumOf
  <2>3. ASSUME NEW q \in Rank PROVE SumOf(q, s) \subseteq Rank \X {s}
    BY DEF SumOf
  <2> QED  BY <2>1, <2>2, <2>3
<1> QED  BY <1>3, <1>4

LEMMA GatherMoves ==
    ASSUME Shared, Typed, OnTrace, NEW r \in Rank, Gather(r) PROVE Moves(r)
<1>1. PICK x : x = X(r)
  OBVIOUS
<1>2. pc[r] = "gather" /\ "gather" \in Ops /\ Entered(r) /\ "gather" \in Summing
      /\ "gather" \in Mastering /\ "gather" \in SumOps /\ "gather" \in Fielding
  BY DEF Gather, Waited, Ops, SumOps, Summing, Mastering, Fielding
<1>3. /\ \A p : (\A v : p = After(P("gather", x), v)) => Leads(r, p)
      /\ \A q \in Rank : Allowed(P("gather", x), q, Given(q, r))
  BY <1>1, <1>2, InCall
<1>4. Leads(r, P("new", x))
  BY <1>3, AfterIs
<1>5. /\ This(r) = Exe(x) /\ Exe(x) \in Exec
      /\ out[r][Exe(x)] = [n \in x.summed |-> SumOf(r, x.step)]
      /\ x.summed = DOMAIN out[r][Exe(x)] /\ x.summed \subseteq NameSet
      /\ x.master = master[r] /\ x.master \in Nat
      /\ x.master < Ranks /\ (x.master > 0 => x.summed = NameSet)
      /\ x.name = name[r] /\ x.name \in NameSet
  BY <1>1, <1>2, SumState
<1>6. UNCHANGED <<at, todo, master, name, out, step>>
  BY DEF Gather
<1>7. Meet(r, "new", 0)
  BY OutcomeIs DEF Gather
<1>8. "new" \in Summing /\ "new" \in Mastering /\ "new" \in Fielding /\ "new" \in Tacit /\ 0 \in Bit
  BY DEF Summing, Mastering, Fielding, Tacit, Bit
<1>9. 0 \in Value /\ Enter(r, "new", 0) /\ Allowed(P("new", x), r, 0) /\ pc'[r] = "new"
  BY <1>7, <1>8, Tells
<1>10. work'[r] = SumOf(r, x.step)
  <2>1. work'[r] = IF r = Root THEN UNION Contributed(r) ELSE {}
    BY DEF Gather, Typed, Functions
  <2>2. PICK g, s : g = Source[Exe(x)] /\ s = x.step
    OBVIOUS
  <2>3. ASSUME NEW q \in Rank PROVE Given(q, r) = Part(q, g, s)
    <3>1. PICK v : v = Given(q, r)
      OBVIOUS
    <3>2. Allowed(P("gather", x), q, v)
      BY <3>1, <1>3
    <3>3. v = Part(q, Source[Exe(x)], x.step)
      BY <3>2, <1>2, AllowedIs
    <3> QED  BY <3>1, <3>3, <2>2
  <2>4. UNION Contributed(r) = Rank \X {s}
    BY <2>3, SumOfParts
  <2> QED  BY <2>1, <2>2, <2>4 DEF SumOf
<1>13. PICK d, n : d = x.summed /\ n = x.name
  OBVIOUS
<1>14. PICK m \in Nat : m = x.master
  BY <1>5
<1>15. x = Rec(x.step, x.at, x.i, m, n, d)
  <2>1. x \in Common
    BY <1>1, PathsTyped
  <2> QED  BY <2>1, <1>13, <1>14, CommonIs
<1>16. \A e \in Exec \ {Exe(x)} : out'[r][e] = out[r][e]
  BY <1>6
<1>17. out'[r][Exe(x)] = [k \in d |-> SumOf(r, x.step)] /\ d \subseteq NameSet
  BY <1>5, <1>6, <1>13
<1>18. m = master'[r] /\ m < Ranks /\ (m > 0 => d = NameSet) /\ n = name'[r] /\ n \in NameSet
  BY <1>5, <1>6, <1>13, <1>14
<1> QED  BY <1>1, <1>2, <1>4, <1>6, <1>8, <1>9, <1>10, <1>15, <1>16, <1>17, <1>18, SumsOn

LEMMA NewMoves ==
    ASSUME Shared, Typed, OnTrace, NEW r \in Rank, New(r) PROVE Moves(r)
<1>1. PICK x : x = X(r)
  OBVIOUS
<1>2. pc[r] = "new" /\ "new" \in Ops /\ Entered(r) /\ "new" \in Summing
      /\ "new" \in Mastering /\ "new" \in SumOps /\ "new" \in Fielding /\ "new" \in Tacit
  BY DEF New, Waited, Ops, SumOps, Summing, Mastering, Fielding, Tacit
<1>3. /\ \A p : (\A v : p = After(P("new", x), v)) => Leads(r, p)
      /\ Largest(r) = 0 /\ Sound(r, "new", x, todo[r], out[r], work[r])
  BY <1>1, <1>2, InCall
<1>4. Leads(r, P("add", WithSum(x)))
  BY <1>3, AfterIs
<1>5. /\ This(r) = Exe(x) /\ Exe(x) \in Exec
      /\ out[r][Exe(x)] = [n \in x.summed |-> SumOf(r, x.step)]
      /\ x.summed = DOMAIN out[r][Exe(x)] /\ x.summed \subseteq NameSet
      /\ x.master = master[r] /\ x.master \in Nat
      /\ x.master < Ranks /\ (x.master > 0 => x.summed = NameSet)
      /\ x.name = name[r] /\ x.name \in NameSet
  BY <1>1, <1>2, SumState
<1>6. work[r] = SumOf(r, x.step)
  BY <1>3 DEF Sound, Data
<1>7. PICK w, b : w = [n \in DOMAIN out[r][This(r)] \cup {name[r]} |->
                          IF n = name[r] THEN work[r] ELSE out[r][This(r)][n]]
                  /\ b = 0
  OBVIOUS
<1>8. Meet(r, "add", 0) /\ Result(r, w) /\ UNCHANGED <<at, todo, master, step>>
  <2>1. Outcome("add") = {0} /\ ~AnyFailed(r)
    BY <1>3, OutcomeIs DEF AnyFailed
  <2>2. \E c \in {0} : /\ Meet(r, "add", c)
                       /\ IF c = 1 THEN UNCHANGED out ELSE Result(r, w)
    BY <2>1, <1>7 DEF New
  <2>3. UNCHANGED <<at, todo, master, step>>
    BY <2>1 DEF New
  <2> QED  BY <2>2, <2>3
<1>9. out'[r][Exe(x)] = w /\ \A e \in Exec \ {Exe(x)} : out'[r][e] = out[r][e]
  BY <1>5, <1>8, Replaced
<1>10. PICK d : d = x.summed \cup {x.name}
  OBVIOUS
<1>11. w = [k \in d |-> SumOf(r, x.step)]
  BY <1>5, <1>6, <1>7, <1>10
<1>12. d \subseteq NameSet /\ (x.summed = NameSet => d = NameSet)
  BY <1>5, <1>10
<1>13. PICK m \in Nat : m = x.master
  BY <1>5
<1>14. PICK y : y = Rec(x.step, x.at, x.i, m, End, d)
  OBVIOUS
<1>15. y = WithSum(x)
  BY <1>10, <1>13, <1>14 DEF WithSum
<1>16. "add" \in Summing /\ "add" \in Mastering /\ "add" \notin Fielding /\ "add" \in Tacit
       /\ "add" # "new" /\ 0 \in Bit
  BY DEF Summing, Mastering, Fielding, Tacit, Bit
<1>17. 0 \in Value /\ Enter(r, "add", 0) /\ Allowed(P("add", y), r, 0) /\ pc'[r] = "add"
  BY <1>8, <1>16, Tells
<1>18. m = master'[r] /\ m < Ranks /\ (m > 0 => d = NameSet)
  BY <1>5, <1>8, <1>12, <1>13
<1>19. Leads(r, P("add", y)) /\ out'[r][Exe(x)] = [k \in d |-> SumOf(r, x.step)]
  BY <1>4, <1>9, <1>11, <1>15
<1> QED  BY <1>1, <1>2, <1>8, <1>9, <1>12, <1>14, <1>16, <1>17, <1>18, <1>19, SumsOn

LEMMA AddMoves ==
    ASSUME Typed, OnTrace, NEW r \in Rank, Add(r) PROVE Moves(r)
<1>1. PICK x : x = X(r)
  OBVIOUS
<1>2. pc[r] = "add" /\ "add" \in Ops /\ Entered(r) /\ "add" \in Summing
      /\ "add" \in Mastering /\ "add" \in SumOps /\ "add" \notin Fielding /\ "add" \in Tacit
  BY DEF Add, Waited, Ops, SumOps, Summing, Mastering, Fielding, Tacit
<1>3. /\ \A p : (\A v : p = After(P("add", x), v)) => Leads(r, p)
      /\ Largest(r) = 0
  BY <1>1, <1>2, InCall
<1>4. Leads(r, P("next", x))
  BY <1>3, AfterIs
<1>5. /\ This(r) = Exe(x) /\ Exe(x) \in Exec
      /\ out[r][Exe(x)] = [n \in x.summed |-> SumOf(r, x.step)]
      /\ x.summed = DOMAIN out[r][Exe(x)] /\ x.summed \subseteq NameSet
      /\ x.master = master[r] /\ x.master \in Nat
      /\ x.master < Ranks /\ (x.master > 0 => x.summed = NameSet) /\ x.name = End
  BY <1>1, <1>2, SumState
<1>6. Meet(r, "next", Offer(r)) /\ UNCHANGED <<at, todo, step, master, out>>
  BY <1>3 DEF Add, AnyFailed
<1>7. "next" \in Summing /\ "next" \in Mastering /\ "next" \notin Fielding /\ "next" # "new"
  BY DEF Summing, Mastering, Fielding
<1>8. PICK d, v : d = x.summed /\ v = Offer(r)
  OBVIOUS
<1>9. v \in Value /\ Allowed(P("next", x), r, v)
  BY <1>5, <1>8, OfferIs
<1>10. Enter(r, "next", v) /\ pc'[r] = "next"
  BY <1>6, <1>8 DEF Meet, Goto, Typed, Functions
<1>11. \A e \in Exec \ {Exe(x)} : out'[r][e] = out[r][e]
  BY <1>6
<1>12. out'[r][Exe(x)] = [k \in d |-> SumOf(r, x.step)] /\ d \subseteq NameSet
  BY <1>5, <1>6, <1>8
<1>13. PICK m \in Nat : m = x.master
  BY <1>5
<1>14. m = master'[r] /\ m < Ranks /\ (m > 0 => d = NameSet)
  BY <1>5, <1>6, <1>8, <1>13
<1>15. x = Rec(x.step, x.at, x.i, m, End, d)
  <2>1. x \in Common
    BY <1>1, PathsTyped
  <2> QED  BY <2>1, <1>5, <1>8, <1>13, CommonIs
<1> QED  BY <1>1, <1>2, <1>4, <1>6, <1>7, <1>9, <1>10, <1>11, <1>12, <1>14, <1>15, SumsOn

LEMMA PostMoves ==
    ASSUME Typed, OnTrace, NEW r \in Rank, Post(r) PROVE Moves(r)
<1>1. PICK x, v : x = X(r) /\ v = Largest(r)
  OBVIOUS
<1>2. pc[r] = "post" /\ "post" \in Ops /\ Entered(r) /\ pc[r] \in Walking
      /\ "post" \in SumOps /\ "post" \in Summing /\ "post" \in Judged
  BY DEF Post, Waited, Ops, Walking, SumOps, Summing, Judged
<1>3. \A p : p = After(P("post", x), v) => Leads(r, p)
  BY <1>1, <1>2, InCall
<1>4. Leads(r, IF v = 1 THEN GaveUp(x) ELSE Goes(x))
  BY <1>3, AfterIs
<1>5. UNCHANGED <<calls, out, step>>
  BY DEF Post
<1>6. CASE v = 1
  <2>1. GiveUp(r)
    BY <1>1, <1>6 DEF Post, AnyFailed
  <2>2. Leads(r, GaveUp(x))
    BY <1>4, <1>6
  <2> QED  BY <2>1, <2>2, <1>1, <1>2, <1>5, GivesUp
<1>7. CASE v # 1
  <2>1. Done(r) /\ UNCHANGED at
    BY <1>1, <1>7 DEF Post, AnyFailed
  <2>2. Leads(r, Goes(x))
    BY <1>4, <1>7
  <2>3. /\ HasExe(x) /\ Kind[Exe(x)] = "sum"
        /\ out[r][Exe(x)] = [n \in x.summed |-> SumOf(r, x.step)] /\ x.summed = NameSet
    BY <1>1, <1>2, SumState
  <2>4. Fine(r, Exe(x), x.step, out'[r])
    BY <2>3, <1>5 DEF Fine
  <2> QED  BY <2>1, <2>2, <2>3, <2>4, <1>1, <1>2, <1>5, Finishes
<1> QED  BY <1>6, <1>7

LEMMA FieldsLeaveMoves ==
    ASSUME Typed, OnTrace, NEW r \in Rank, FieldsLeave(r) PROVE Moves(r)
<1>1. PICK x, v : x = X(r) /\ v = Largest(r)
  OBVIOUS
<1>2. pc[r] = "fields" /\ "fields" \in Ops /\ Entered(r) /\ pc[r] \in Walking \ Summing
      /\ "fields" \in GetOps /\ "fields" \in Judged /\ UNCHANGED <<step, out>>
  BY DEF FieldsLeave, Waited, Ops, Walking, GetOps, Summing, Judged
<1>3. Sound(r, "fields", x, todo[r], out[r], work[r])
      /\ \A p : p = After(P("fields", x), v) => Leads(r, p)
  BY <1>1, <1>2, InCall
<1>4. HasExe(x) /\ Kind[Exe(x)] = "get"
  BY <1>2, <1>3, WalkKinds
<1>5. Leads(r, OrGiveUp(x, v, "values"))
  BY <1>3, AfterIs
<1>6. CASE v = 1
  <2>1. GiveUp(r) /\ calls' = calls
    BY <1>1, <1>6 DEF FieldsLeave, AnyFailed
  <2>2. Leads(r, GaveUp(x))
    BY <1>5, <1>6 DEF OrGiveUp
  <2> QED  BY <2>1, <2>2, <1>1, <1>2, GivesUp
<1>7. CASE v # 1
  <2>1. /\ Meet(r, "values", IF Picks(This(r), r) THEN Input(r)[Names[1]] ELSE {})
        /\ UNCHANGED <<at, todo>>
    BY <1>1, <1>7 DEF FieldsLeave, AnyFailed
  <2>2. Leads(r, P("values", x))
    BY <1>5, <1>7 DEF OrGiveUp
  <2>3. PICK c : c = Sends(r, x)
    OBVIOUS
  <2>4. c = IF Picks(This(r), r) THEN Input(r)[Names[1]] ELSE {}
    <3>1. Names[1] \in NameSet
      BY ListAssumption DEF NameSet, ToSet
    <3>2. /\ This(r) = Exe(x)
          /\ Input(r)[Names[1]] = Part(r, Source[Exe(x)], x.step)
      BY <3>1, <1>1, <1>2, InputIs
    <3> QED  BY <3>2, <2>3 DEF Sends
  <2>5. c \in Value
    <3>1. x.step \in Nat /\ r \in Rank
      BY <1>1, PathsTyped, CommonIs
    <3>2. c \subseteq Rank \X Nat
      BY <3>1, <2>3 DEF Sends, Part, SumOf
    <3> QED  BY <3>2 DEF Value
  <2>6. Enter(r, "values", c) /\ pc'[r] = "values"
    BY <2>1, <2>4 DEF Meet, Goto, Typed, Functions
  <2>7. "values" \in Ops \cap (Walking \ Summing) /\ "values" \notin SumOps
    BY DEF Ops, Walking, SumOps, Summing, GetOps
  <2>8. Allowed(P("values", x), r, c)
    BY <2>3, <2>7, AllowedIs
  <2> QED  BY <2>1, <2>2, <2>5, <2>6, <2>7, <2>8, <1>1, <1>2, <1>4, GoesInto
<1> QED  BY <1>6, <1>7

\* The ranks that have a value for a getter, in their order.
LEMMA PickersAre ==
    ASSUME NEW e
    PROVE  /\ Cardinality(Picking(e)) \in Nat /\ Len(Pickers(e)) = Cardinality(Picking(e))
           /\ Picking(e) = {} <=> Len(Pickers(e)) = 0
           /\ \A q : Picking(e) = {q} => Len(Pickers(e)) = 1 /\ Pickers(e)[1] = q
<1>1. PICK S, n : S = Picking(e) /\ n = Cardinality(S)
  OBVIOUS
<1>2. S \subseteq Rank /\ IsFiniteSet(S)
  BY <1>1, Constants, FS_Subset DEF Picking
<1>3. n \in Nat /\ (S = {} <=> n = 0)
  BY <1>1, <1>2, FS_CardinalityType, FS_EmptySet
<1>4. PICK p : p = Pickers(e)
  OBVIOUS
<1>5. p = [k \in 1 .. n |-> CHOOSE q \in S : Cardinality({t \in S : t < q}) = k - 1]
  BY <1>1, <1>4 DEF Pickers
<1>6. Len(p) = n
  BY <1>3, <1>5
<1>7. ASSUME NEW q, S = {q} PROVE n = 1 /\ p[1] = q
  <2>1. n = 1
    BY <1>1, <1>7, FS_Singleton
  <2>2. {t \in S : t < q} = {}
    <3>1. q \in Int
      BY <1>2, <1>7, Constants
    <3> QED  BY <3>1, <1>7
  <2>3. Cardinality({t \in S : t < q}) = 0
    BY <2>2, FS_EmptySet
  <2>4. p[1] = CHOOSE t \in S : Cardinality({u \in S : u < t}) = 0
    BY <2>1, <1>5
  <2>5. p[1] \in S
    BY <2>3, <2>4, <1>7
  <2> QED  BY <2>1, <2>5, <1>7
<1> QED  BY <1>1, <1>3, <1>4, <1>6, <1>7

\* A value arrives last from one of them.
LEMMA LastFromIs ==
    ASSUME NEW r \in Rank, Picking(This(r)) # {}
    PROVE  LastFrom(r) \in Picking(This(r))
<1>1. PICK S : S = Picking(This(r))
  OBVIOUS
<1>2. S \subseteq Rank /\ S # {}
  BY <1>1 DEF Picking
<1>3. PICK V : V = {Behind(r, p) : p \in S}
  OBVIOUS
<1>4. V \subseteq 0 .. Ranks /\ V # {} /\ Ranks \in Nat
  <2>1. Ranks \in Nat \ {0} /\ Rank \subseteq Int
    BY Constants
  <2>2. ASSUME NEW p \in S PROVE Behind(r, p) \in 0 .. Ranks
    <3>1. PICK d \in Int : d = r - p
      BY <2>1, <1>2
    <3>2. d % Ranks \in 0 .. Ranks - 1
      BY <2>1, <3>1
    <3>3. Behind(r, p) = d % Ranks
      BY <3>1 DEF Behind, Ranks
    <3> QED  BY <2>1, <3>2, <3>3
  <2> QED  BY <2>1, <2>2, <1>2, <1>3
<1>5. \E v \in V : \A w \in V : w <= v
  BY <1>4, T!LargestExists
<1>6. \E q \in S : \A p \in S : Behind(r, p) <= Behind(r, q)
  BY <1>3, <1>5
<1>7. LastFrom(r) = CHOOSE q \in S : \A p \in S : Behind(r, p) <= Behind(r, q)
  BY <1>1 DEF LastFrom
<1> QED  BY <1>1, <1>6, <1>7

\* What a getter has afterwards: the last value at the first place, and the rest as it was.
Arrived(r, n, v) ==
    \E b \in [1 .. n -> SUBSET Contribution] :
        v = [k \in 1 .. n |-> IF k = 1 THEN Given(LastFrom(r), r) ELSE b[k]]

LEMMA ValuesAre ==
    ASSUME Typed, NEW r \in Rank, Values(r), NEW e \in Exec, This(r) = e, Kind[e] = "get",
           NEW n, n = Len(Pickers(e))
    PROVE  Arrived(r, n, out'[r][e])
<1>1. PICK o, g, C : o = out[r][e] /\ g = Given(LastFrom(r), r) /\ C = SUBSET Contribution
  OBVIOUS
<1>2. o \in Seq(C) /\ n \in Nat
  <2>1. Kind[e] \notin {"grid", "sum"}
    OBVIOUS
  <2>2. OutTyped(out[r])
    BY DEF Typed, AllSound, Typing
  <2>3. o \in Seq(C)
    BY <2>1, <2>2, <1>1 DEF OutTyped
  <2> QED  BY <2>3, PickersAre
<1>3. PICK b : b = IF DOMAIN o = 1 .. n THEN o ELSE [k \in 1 .. n |-> {}]
  OBVIOUS
<1>4. b \in [1 .. n -> C]
  <2>1. CASE DOMAIN o = 1 .. n
    <3>1. o \in [1 .. Len(o) -> C] /\ DOMAIN o = 1 .. Len(o)
      BY <1>2
    <3> QED  BY <3>1, <2>1, <1>3
  <2>2. CASE DOMAIN o # 1 .. n
    <3>1. {} \in C
      BY <1>1
    <3> QED  BY <3>1, <2>2, <1>3
  <2> QED  BY <2>1, <2>2
<1>5. out'[r][e] = IF 1 .. n = {} THEN b ELSE [b EXCEPT ![1] = g]
  <2>1. PICK w : w = IF 1 .. n = {} THEN b ELSE [b EXCEPT ![1] = g]
    OBVIOUS
  <2>2. Result(r, w)
    BY <2>1, <1>1, <1>3 DEF Values
  <2> QED  BY <2>1, <2>2, Replaced
<1>6. out'[r][e] = [k \in 1 .. n |-> IF k = 1 THEN g ELSE b[k]]
  <2>1. CASE 1 .. n = {}
    <3>1. b = [k \in 1 .. n |-> IF k = 1 THEN g ELSE b[k]]
      BY <2>1, <1>4
    <3> QED  BY <3>1, <2>1, <1>5
  <2>2. CASE 1 .. n # {}
    <3>1. [b EXCEPT ![1] = g] = [k \in 1 .. n |-> IF k = 1 THEN g ELSE b[k]]
      BY <1>4
    <3> QED  BY <3>1, <2>2, <1>5
  <2> QED  BY <2>1, <2>2
<1> QED  BY <1>1, <1>4, <1>6 DEF Arrived

LEMMA ValuesMoves ==
    ASSUME Typed, OnTrace, NEW r \in Rank, Values(r) PROVE Moves(r)
<1>1. PICK x, e, s : x = X(r) /\ e = Exe(x) /\ s = x.step
  OBVIOUS
<1>2. pc[r] = "values" /\ "values" \in Ops /\ Entered(r) /\ pc[r] \in Walking
      /\ "values" \in GetOps /\ Done(r) /\ UNCHANGED <<calls, at, step>>
  BY DEF Values, Waited, Ops, Walking, GetOps
<1>3. /\ Sound(r, "values", x, todo[r], out[r], work[r])
      /\ \A p : (\A v : p = After(P("values", x), v)) => Leads(r, p)
      /\ \A q \in Rank : Allowed(P("values", x), q, Given(q, r))
  BY <1>1, <1>2, InCall
<1>4. HasExe(x) /\ Kind[e] = "get" /\ Kind[Source[e]] \in {"grid", "sum"} /\ This(r) = e
      /\ e \in Exec
  <2>1. HasExe(x) /\ Kind[e] = "get"
    BY <1>1, <1>2, <1>3, WalkKinds
  <2>2. Kind[Source[Exe(x)]] \in {"grid", "sum"} /\ This(r) = Exe(x) /\ Exe(x) \in Exec
    BY <1>1, <1>2, InputIs
  <2> QED  BY <2>1, <2>2, <1>1
<1>5. Leads(r, Goes(x))
  BY <1>3, AfterIs
<1>6. \A f \in Exec \ {e} : out'[r][f] = out[r][f]
  <2>1. PICK w : Result(r, w)
    BY DEF Values
  <2> QED  BY <2>1, <1>4, Replaced
<1>7. PICK n : n = Len(Pickers(e))
  OBVIOUS
<1>8. PICK b \in [1 .. n -> SUBSET Contribution] :
         out'[r][e] = [k \in 1 .. n |-> IF k = 1 THEN Given(LastFrom(r), r) ELSE b[k]]
  <2>1. Arrived(r, n, out'[r][e])
    BY <1>4, <1>7, ValuesAre
  <2> QED  BY <2>1 DEF Arrived
<1>9. ASSUME Single PROVE out'[r][e] = Whole(e, s)
  <2>1. PICK S : S = Picking(e)
    OBVIOUS
  <2>2. S = {} \/ \E q \in Rank : S = {q}
    <3>1. CASE Kind[Source[e]] = "sum"
      <4>1. S = {Root}
        BY <2>1, <3>1, Constants DEF Picking, Picks
      <4> QED  BY <4>1, Constants
    <3>2. CASE Kind[Source[e]] # "sum"
      <4>1. S \subseteq Selected /\ S \subseteq Rank
        BY <2>1, <3>2 DEF Picking, Picks
      <4>2. \A p, q \in S : p = q
        BY <4>1, <1>9 DEF Single
      <4> QED  BY <4>1, <4>2
    <3> QED  BY <3>1, <3>2
  <2>3. PICK W : W = Whole(e, s)
    OBVIOUS
  <2>4. W = [k \in 1 .. n |-> IF Kind[Source[e]] = "sum" THEN Rank \X {s}
                                                        ELSE {<<Pickers(e)[k], s>>}]
    BY <2>3, <1>7 DEF Whole
  <2>5. CASE S = {}
    <3>1. 1 .. n = {}
      <4>1. n = 0
        BY <2>1, <2>5, <1>7, PickersAre
      <4> QED  BY <4>1
    <3> QED  BY <3>1, <2>3, <2>4, <1>8
  <2>6. ASSUME NEW q \in Rank, S = {q} PROVE out'[r][e] = W
    <3>1. n = 1 /\ Pickers(e)[1] = q
      BY <2>1, <2>6, <1>7, PickersAre
    <3>2. LastFrom(r) = q
      BY <2>1, <2>6, <1>4, LastFromIs
    <3>3. PICK v : v = Given(q, r)
      OBVIOUS
    <3>4. v = Sends(q, x)
      <4>1. Allowed(P("values", x), q, v)
        BY <3>3, <1>3
      <4> QED  BY <4>1, <1>2, AllowedIs
    <3>5. Picks(e, q)
      BY <2>1, <2>6 DEF Picking
    <3>6. v = Part(q, Source[e], s)
      BY <3>4, <3>5, <1>1 DEF Sends
    <3>7. v = W[1]
      <4>1. CASE Kind[Source[e]] = "sum"
        <5>1. q = Root
          BY <3>5, <4>1 DEF Picks
        <5>2. v = Rank \X {s}
          BY <5>1, <3>6, <4>1 DEF Part, SumOf
        <5> QED  BY <5>2, <4>1, <3>1, <2>4
      <4>2. CASE Kind[Source[e]] = "grid"
        <5>1. v = {<<q, s>>}
          BY <3>6, <4>2 DEF Part
        <5> QED  BY <5>1, <4>2, <3>1, <2>4
      <4> QED  BY <4>1, <4>2, <1>4
    <3>8. out'[r][e] = [k \in 1 .. 1 |-> v]
      <4>1. out'[r][e] = [k \in 1 .. 1 |-> IF k = 1 THEN v ELSE b[k]]
        BY <3>1, <3>2, <3>3, <1>8
      <4> QED  BY <4>1
    <3>9. W = [k \in 1 .. 1 |-> W[k]]
      BY <3>1, <2>4
    <3> QED  BY <3>7, <3>8, <3>9
  <2> QED  BY <2>2, <2>3, <2>5, <2>6
<1>10. Fine(r, e, s, out'[r])
  BY <1>4, <1>9 DEF Fine
<1> QED  BY <1>1, <1>2, <1>4, <1>5, <1>6, <1>10, Finishes

-------------------------------------------------------------------------------
(***************************************************************************)
(* Every step.                                                             *)
(***************************************************************************)
LEMMA Frames ==
    ASSUME Functions, NEW r \in Rank, Step(r), ~Crash(r)
    PROVE  Frame(r)
<1>1. CASE Control(r) \/ Refresh(r) \/ Report(r)
  BY <1>1 DEF Functions, Frame, Keeps, Control, Refresh, Report, Meet, Goto
<1>2. CASE Grid(r) \/ Csv(r)
  BY <1>2 DEF Functions, Frame, Keeps, Grid, Csv, Result, Done, GiveUp, Goto
<1>3. CASE Sum(r) \/ Coords(r) \/ InitOutput(r) \/ Size(r)
  BY <1>3 DEF Functions, Frame, Keeps, Sum, Coords, InitOutput, Size, GiveUp, Meet, Goto, local
<1>4. CASE Work(r)
  BY <1>4 DEF Functions, Frame, Keeps, Work, Result, Meet, Goto
<1>5. CASE Release(r)
  BY <1>5 DEF Functions, Frame, Keeps, Release, Crash, GiveUp, Goto
<1>6. CASE NamesLeave(r)
  BY <1>6 DEF Functions, Frame, Keeps, NamesLeave, GiveUp, Meet, Goto
<1>7. CASE NextField(r)
  BY <1>7 DEF Functions, Frame, Keeps, NextField, NextMaster, EndGrid, GiveUp, Meet, Goto
<1>8. CASE LocalLeave(r)
  BY <1>8 DEF Functions, Frame, Keeps, LocalLeave, ArrayFailed, NextMaster, EndGrid, GiveUp,
          Meet, Goto
<1>9. CASE Gather(r)
  BY <1>9 DEF Functions, Frame, Keeps, Gather, Meet, Goto
<1>10. CASE New(r)
  BY <1>10 DEF Functions, Frame, Keeps, New, Result, ArrayFailed, NextMaster, EndGrid, GiveUp,
          Meet, Goto
<1>11. CASE Add(r)
  BY <1>11 DEF Functions, Frame, Keeps, Add, ArrayFailed, NextMaster, EndGrid, GiveUp,
          Meet, Goto
<1>12. CASE Post(r)
  BY <1>12 DEF Functions, Frame, Keeps, Post, GiveUp, Done, Goto
<1>13. CASE Get(r) \/ Indices(r) \/ Extents(r) \/ FieldsLeave(r)
  BY <1>13 DEF Functions, Frame, Keeps, Get, Indices, Extents, FieldsLeave, GiveUp, Meet, Goto,
          local
<1>14. CASE Values(r)
  <2>1. PICK w : Result(r, w)
    BY <1>14 DEF Values
  <2>2. Done(r) /\ UNCHANGED <<at, master, name, work, iret, status, step>>
    BY <1>14 DEF Values
  <2> QED  BY <2>1, <2>2 DEF Functions, Frame, Keeps, Result, Done, Goto
<1> QED  BY <1>1, <1>2, <1>3, <1>4, <1>5, <1>6, <1>7, <1>8, <1>9, <1>10, <1>11, <1>12, <1>13,
            <1>14 DEF Step

LEMMA StepMoves ==
    ASSUME Shared, Typed, OnTrace, NEW r \in Rank, Step(r), ~Crash(r)
    PROVE  Moves(r)
<1>1. CASE Control(r) \/ Refresh(r) \/ Report(r) \/ Grid(r) \/ Csv(r) \/ Sum(r) \/ Coords(r)
  BY <1>1, ControlMoves, RefreshMoves, ReportMoves, GridMoves, CsvMoves, SumMoves, CoordsMoves
<1>2. CASE InitOutput(r) \/ Size(r) \/ Work(r) \/ Release(r) \/ NamesLeave(r) \/ NextField(r)
           \/ LocalLeave(r)
  BY <1>2, InitOutputMoves, SizeMoves, WorkMoves, ReleaseMoves, NamesLeaveMoves,
     NextFieldMoves, LocalLeaveMoves
<1>3. CASE Gather(r) \/ New(r) \/ Add(r) \/ Post(r)
  BY <1>3, GatherMoves, NewMoves, AddMoves, PostMoves
<1>4. CASE Get(r) \/ Indices(r) \/ Extents(r) \/ FieldsLeave(r) \/ Values(r)
  BY <1>4, GetMoves, IndicesMoves, ExtentsMoves, FieldsLeaveMoves, ValuesMoves
<1> QED  BY <1>1, <1>2, <1>3, <1>4 DEF Step

\* Which actions change what the place of a rank does not tell.
LEMMA DataChanges ==
    ASSUME NEW r \in Rank, Step(r)
    PROVE  /\ work' = work \/ Gather(r)
           /\ name' = name \/ NextField(r)
           /\ UNCHANGED <<master, iret>> \/ Work(r) \/ NextField(r) \/ LocalLeave(r)
                 \/ New(r) \/ Add(r)
           /\ out' = out \/ Grid(r) \/ Work(r) \/ New(r) \/ Values(r)
           /\ status' = status \/ GiveUp(r) \/ Refresh(r)
<1>1. CASE Control(r) \/ Refresh(r) \/ Report(r) \/ Grid(r) \/ Csv(r)
  BY <1>1 DEF Control, Refresh, Report, Grid, Csv
<1>2. CASE Sum(r) \/ Coords(r) \/ InitOutput(r) \/ Size(r) \/ Work(r) \/ Release(r)
  BY <1>2 DEF Sum, Coords, InitOutput, Size, Work, Release, local
<1>3. CASE NamesLeave(r) \/ NextField(r)
  BY <1>3 DEF NamesLeave, NextField, NextMaster, EndGrid
<1>4. CASE LocalLeave(r) \/ New(r) \/ Add(r)
  BY <1>4 DEF LocalLeave, New, Add, ArrayFailed, NextMaster, EndGrid
<1>5. CASE Gather(r) \/ Post(r)
  BY <1>5 DEF Gather, Post
<1>6. CASE Get(r) \/ Indices(r) \/ Extents(r) \/ FieldsLeave(r) \/ Values(r)
  BY <1>6 DEF Get, Indices, Extents, FieldsLeave, Values, local
<1> QED  BY <1>1, <1>2, <1>3, <1>4, <1>5, <1>6 DEF Step

\* The state of a rank that is about to take the name of the next field.
LEMMA NextState ==
    ASSUME Typed, NEW r \in Rank, pc[r] = "next", NEW x, x = X(r)
    PROVE  x.master = master[r] /\ x.master \in Nat /\ x.master \in Rank /\ x.master < Ranks
<1>1. PICK l : l = "next"
  OBVIOUS
<1>2. l \in Summing /\ l \in Mastering /\ pc[r] = l
  BY <1>1 DEF Summing, Mastering
<1> QED  BY <1>2, SumState

LEMMA StatusTyped ==
    ASSUME Typed, NEW r \in Rank, Step(r)
    PROVE  status'[r] \in Bit
<1>1. status[r] \in Bit /\ status = [q \in Rank |-> status[q]] /\ 1 \in Bit
  BY DEF Typed, AllSound, Typing, Functions, Bit
<1>2. CASE status' = status
  BY <1>1, <1>2
<1>3. CASE GiveUp(r)
  BY <1>1, <1>3 DEF GiveUp
<1>4. CASE Refresh(r)
  BY <1>1, <1>4 DEF Refresh
<1> QED  BY <1>2, <1>3, <1>4, DataChanges

LEMMA NameTyped ==
    ASSUME Typed, OnTrace, NEW r \in Rank, Step(r)
    PROVE  name'[r] \in NameSet \cup {End}
<1>1. name[r] \in NameSet \cup {End} /\ name = [q \in Rank |-> name[q]]
  BY DEF Typed, AllSound, Typing, Functions
<1>2. CASE name' = name
  BY <1>1, <1>2
<1>3. CASE NextField(r)
  <2>1. PICK x, f : x = X(r) /\ f = Given(master[r], r)
    OBVIOUS
  <2>2. pc[r] = "next" /\ "next" \in Ops /\ Entered(r) /\ "next" \in Summing /\ "next" \in Mastering
    BY <1>3 DEF NextField, Waited, Ops, Summing, Mastering
  <2>3. \A q \in Rank : Allowed(P("next", x), q, Given(q, r))
    BY <2>1, <2>2, InCall
  <2>4. x.master = master[r] /\ x.master \in Rank
    <3>1. pc[r] = "next" /\ x = X(r)
      BY <2>1, <2>2
    <3> QED  BY <3>1, NextState
  <2>5. Allowed(P("next", x), x.master, f)
    BY <2>1, <2>3, <2>4
  <2>6. f = First(x.summed)
    BY <2>2, <2>5, AllowedIs
  <2>7. name'[r] = f
    BY <2>1, <1>1, <1>3 DEF NextField
  <2> QED  BY <2>6, <2>7, FirstIs
<1> QED  BY <1>2, <1>3, DataChanges

LEMMA WorkTyped ==
    ASSUME Typed, OnTrace, NEW r \in Rank, Step(r), Moves(r)
    PROVE  work'[r] \subseteq Contribution
<1>1. work[r] \subseteq Contribution
  BY DEF Typed, AllSound, Typing
<1>2. CASE work' = work
  BY <1>1, <1>2
<1>3. CASE Gather(r)
  <2>1. pc'[r] = "new"
    BY <1>3 DEF Gather, Meet, Goto, Typed, Functions
  <2>2. PICK y : Sound(r, "new", y, todo'[r], out'[r], work'[r])
    BY <2>1 DEF Moves, Turn
  <2>3. y \in Common /\ y.step <= StepMax /\ work'[r] = SumOf(r, y.step)
    BY <2>2 DEF Sound, Fits, Data
  <2>4. y.step \in 0 .. StepMax
    BY <2>3, CommonIs, Constants
  <2>5. PICK s \in 0 .. StepMax : s = y.step
    BY <2>4
  <2>6. SumOf(r, s) \subseteq Contribution
    BY DEF SumOf, Contribution
  <2> QED  BY <2>3, <2>5, <2>6
<1> QED  BY <1>2, <1>3, DataChanges

LEMMA TurnsTyped ==
    ASSUME Shared, Typed, OnTrace, NEW r \in Rank, Step(r)
    PROVE  master'[r] \in 0 .. Ranks /\ iret'[r] = 0
<1>1. /\ master[r] \in 0 .. Ranks /\ iret[r] = 0 /\ Ranks \in Nat
      /\ master = [q \in Rank |-> master[q]] /\ iret = [q \in Rank |-> iret[q]]
  BY Constants DEF Typed, AllSound, Typing, Functions
<1>2. CASE UNCHANGED <<master, iret>>
  BY <1>1, <1>2
<1>3. CASE Work(r)
  <2>1. UNCHANGED <<master, iret>> \/ (master'[r] = 0 /\ iret'[r] = 0)
    BY <1>1, <1>3 DEF Work
  <2> QED  BY <2>1, <1>1
<1>4. CASE NextField(r)
  <2>1. pc[r] = "next"
    BY <1>4 DEF NextField, Waited
  <2>2. PICK m \in Nat : m = master[r] /\ m < Ranks
    <3>1. PICK x : x = X(r)
      OBVIOUS
    <3>2. x.master = master[r] /\ x.master \in Nat /\ x.master < Ranks
      BY <2>1, <3>1, NextState
    <3> QED  BY <3>2
  <2>3. UNCHANGED <<master, iret>> \/ (master'[r] = m + 1 /\ iret'[r] = iret[r])
    BY <2>2, <1>1, <1>4 DEF NextField, NextMaster
  <2> QED  BY <2>2, <2>3, <1>1
<1>5. CASE LocalLeave(r) \/ New(r) \/ Add(r)
  <2>1. PICK op \in {"local", "new", "add"} : pc[r] = op /\ Entered(r)
    BY <1>5 DEF LocalLeave, New, Add, Waited
  <2>2. op \in Ops /\ op \in Tacit
    BY <2>1 DEF Ops, Tacit
  <2>3. Largest(r) = 0
    BY <2>1, <2>2, InCall
  <2>4. UNCHANGED <<master, iret>>
    BY <2>3, <1>5 DEF LocalLeave, New, Add, AnyFailed
  <2> QED  BY <2>4, <1>2
<1> QED  BY <1>2, <1>3, <1>4, <1>5, DataChanges

\* The output of one executive is replaced.
LEMMA ReplacedTyped ==
    ASSUME Typed, NEW r \in Rank, NEW e \in Exec, This(r) = e, NEW v, Result(r, v),
           Kind[e] \in {"grid", "sum"} =>
              /\ DOMAIN v \subseteq NameSet /\ \A n \in DOMAIN v : v[n] \subseteq Contribution,
           Kind[e] \notin {"grid", "sum"} => v \in Seq(SUBSET Contribution)
    PROVE  OutTyped(out'[r])
<1>1. PICK o, w : o = out[r] /\ w = out'[r]
  OBVIOUS
<1>2. OutTyped(o)
  BY <1>1 DEF Typed, AllSound, Typing
<1>3. w[e] = v /\ \A f \in Exec \ {e} : w[f] = o[f]
  BY <1>1, Replaced
<1>4. w = [f \in Exec |-> w[f]]
  <2>1. o = [f \in Exec |-> o[f]] /\ w = [o EXCEPT ![e] = v]
    BY <1>1, <1>2 DEF Result, Typed, Functions, OutTyped
  <2> QED  BY <2>1
<1>5. ASSUME NEW f \in Exec
      PROVE  IF Kind[f] \in {"grid", "sum"}
             THEN /\ DOMAIN w[f] \subseteq NameSet
                  /\ \A n \in DOMAIN w[f] : w[f][n] \subseteq Contribution
             ELSE w[f] \in Seq(SUBSET Contribution)
  <2>1. CASE f = e
    BY <2>1, <1>3
  <2>2. CASE f # e
    BY <2>2, <1>2, <1>3 DEF OutTyped
  <2> QED  BY <2>1, <2>2
<1> QED  BY <1>1, <1>4, <1>5 DEF OutTyped

LEMMA GridTyped ==
    ASSUME Typed, NEW r \in Rank, Grid(r)
    PROVE  OutTyped(out'[r])
<1>1. PICK x, e : x = X(r) /\ e = Exe(x)
  OBVIOUS
<1>2. pc[r] \in Walking /\ This(r) = e /\ e \in Exec /\ Kind[e] = "grid"
  <2>1. Stands(r, x, "grid")
    BY <1>1, AtExec DEF Grid
  <2> QED  BY <2>1, <1>1 DEF Stands
<1>3. step[r] \in 0 .. StepMax
  <2>1. x.step = step[r] /\ x.step \in Nat /\ x.step <= StepMax
    BY <1>1, <1>2, XIs, Walks
  <2> QED  BY <2>1, Constants
<1>4. PICK w : w = Fields(r, step[r])
  OBVIOUS
<1>5. DOMAIN w \subseteq NameSet /\ \A n \in DOMAIN w : w[n] \subseteq Contribution
  BY <1>3, <1>4 DEF Fields, NameSet, Contribution
<1>6. CASE Result(r, w)
  BY <1>2, <1>5, <1>6, ReplacedTyped
<1>7. CASE out' = out
  BY <1>7 DEF Typed, AllSound, Typing
<1> QED  BY <1>4, <1>6, <1>7 DEF Grid

LEMMA WorkOutTyped ==
    ASSUME Typed, NEW r \in Rank, Work(r)
    PROVE  OutTyped(out'[r])
<1>1. PICK x, e : x = X(r) /\ e = Exe(x)
  OBVIOUS
<1>2. pc[r] = "work" /\ "work" \in SumOps /\ "work" \in Walking
  BY DEF Work, Waited, SumOps, Walking
<1>3. HasExe(x) /\ Kind[e] = "sum"
  <2>1. Sound(r, "work", x, todo[r], out[r], work[r])
    BY <1>1, <1>2 DEF Typed, AllSound
  <2> QED  BY <2>1, <1>1, <1>2, WalkKinds
<1>4. This(r) = e /\ e \in Exec
  BY <1>1, <1>2, <1>3, WalksHere
<1>5. PICK w : w = <<>>
  OBVIOUS
<1>6. DOMAIN w = {}
  BY <1>5
<1>7. CASE Result(r, w)
  BY <1>3, <1>4, <1>6, <1>7, ReplacedTyped
<1>8. CASE out' = out
  BY <1>8 DEF Typed, AllSound, Typing
<1> QED  BY <1>5, <1>7, <1>8 DEF Work

LEMMA NewTyped ==
    ASSUME Typed, NEW r \in Rank, New(r)
    PROVE  OutTyped(out'[r])
<1>1. PICK x, e : x = X(r) /\ e = Exe(x)
  OBVIOUS
<1>2. pc[r] = "new" /\ "new" \in Summing /\ "new" \in Fielding
  BY DEF New, Waited, Summing, Fielding
<1>3. /\ This(r) = e /\ e \in Exec /\ Kind[e] = "sum" /\ name[r] \in NameSet
      /\ out[r][e] = [n \in x.summed |-> SumOf(r, x.step)] /\ x.summed \subseteq NameSet
      /\ x.summed = DOMAIN out[r][e]
  BY <1>1, <1>2, SumState
<1>4. /\ work[r] \subseteq Contribution
      /\ \A n \in DOMAIN out[r][e] : out[r][e][n] \subseteq Contribution
  BY <1>3 DEF Typed, AllSound, Typing, OutTyped
<1>5. PICK o, k : o = out[r][e] /\ k = name[r]
  OBVIOUS
<1>6. PICK w : w = [n \in DOMAIN o \cup {k} |-> IF n = k THEN work[r] ELSE o[n]]
  OBVIOUS
<1>7. DOMAIN w \subseteq NameSet /\ \A n \in DOMAIN w : w[n] \subseteq Contribution
  <2>1. /\ DOMAIN o \subseteq NameSet /\ k \in NameSet
        /\ \A n \in DOMAIN o : o[n] \subseteq Contribution
    BY <1>3, <1>4, <1>5
  <2> QED  BY <2>1, <1>4, <1>6
<1>8. CASE Result(r, w)
  BY <1>3, <1>7, <1>8, ReplacedTyped
<1>9. CASE out' = out
  BY <1>9 DEF Typed, AllSound, Typing
<1>10. out' = out \/ Result(r, w)
  BY <1>3, <1>5, <1>6 DEF New
<1> QED  BY <1>8, <1>9, <1>10

\* What a getter is sent has its type.
LEMMA ValuesTyped ==
    ASSUME Typed, OnTrace, NEW r \in Rank, Values(r)
    PROVE  OutTyped(out'[r])
<1>1. PICK x, e : x = X(r) /\ e = Exe(x)
  OBVIOUS
<1>2. pc[r] = "values" /\ "values" \in Ops /\ Entered(r) /\ pc[r] \in Walking /\ "values" \in GetOps
  BY DEF Values, Waited, Ops, Walking, GetOps
<1>3. /\ Sound(r, "values", x, todo[r], out[r], work[r])
      /\ \A q \in Rank : Allowed(P("values", x), q, Given(q, r))
  BY <1>1, <1>2, InCall
<1>4. Kind[e] = "get" /\ This(r) = e /\ e \in Exec
  <2>1. Kind[e] = "get"
    BY <1>1, <1>2, <1>3, WalkKinds
  <2>2. This(r) = Exe(x) /\ Exe(x) \in Exec
    BY <1>1, <1>2, InputIs
  <2> QED  BY <2>1, <2>2, <1>1
<1>5. PICK n, w, g : n = Len(Pickers(e)) /\ w = out'[r][e] /\ g = Given(LastFrom(r), r)
  OBVIOUS
<1>6. PICK b \in [1 .. n -> SUBSET Contribution] : w = [k \in 1 .. n |-> IF k = 1 THEN g ELSE b[k]]
  <2>1. Arrived(r, n, w)
    BY <1>4, <1>5, ValuesAre
  <2> QED  BY <2>1, <1>5 DEF Arrived
<1>7. ASSUME Picking(e) # {} PROVE g \subseteq Contribution
  <2>1. PICK q \in Rank : q = LastFrom(r)
    BY <1>4, <1>7, LastFromIs DEF Picking
  <2>2. g = Sends(q, x)
    <3>1. Allowed(P("values", x), q, g)
      BY <2>1, <1>3, <1>5
    <3> QED  BY <3>1, <1>2, AllowedIs
  <2>3. PICK s \in 0 .. StepMax : s = x.step
    <3>1. x.step \in Nat /\ x.step <= StepMax
      BY <1>1, <1>2, Walks
    <3> QED  BY <3>1, Constants
  <2> QED  BY <2>2, <2>3 DEF Sends, Part, SumOf, Contribution
<1>8. n \in Nat /\ (1 \in 1 .. n => Picking(e) # {})
  <2>1. n \in Nat /\ (Picking(e) = {} <=> n = 0)
    BY <1>5, PickersAre
  <2> QED  BY <2>1
<1>9. w \in Seq(SUBSET Contribution)
  <2>1. \A k \in 1 .. n : (IF k = 1 THEN g ELSE b[k]) \in SUBSET Contribution
    BY <1>6, <1>7, <1>8
  <2>2. w \in [1 .. n -> SUBSET Contribution]
    BY <2>1, <1>6
  <2> QED  BY <2>2, <1>8, SeqDef
<1>10. PICK v : Result(r, v)
  BY DEF Values
<1>11. v = w
  BY <1>4, <1>5, <1>10, Replaced
<1> QED  BY <1>4, <1>9, <1>10, <1>11, ReplacedTyped

LEMMA StepTyped ==
    ASSUME Shared, Typed, OnTrace, NEW r \in Rank, Step(r), Moves(r)
    PROVE  TypingKept(r)
<1>1. OutTyped(out'[r])
  <2>1. CASE out' = out
    BY <2>1 DEF Typed, AllSound, Typing
  <2> QED  BY <2>1, DataChanges, GridTyped, WorkOutTyped, NewTyped, ValuesTyped
<1>2. status'[r] \in Bit
  BY StatusTyped
<1>3. name'[r] \in NameSet \cup {End}
  BY NameTyped
<1>4. work'[r] \subseteq Contribution
  BY WorkTyped
<1>5. master'[r] \in 0 .. Ranks /\ iret'[r] = 0
  BY TurnsTyped
<1> QED  BY <1>1, <1>2, <1>3, <1>4, <1>5 DEF TypingKept, Typing

LEMMA StepTurns ==
    ASSUME Shared, Typed, OnTrace, NEW r \in Rank, Step(r), ~Crash(r)
    PROVE  Turns(r)
<1>1. Frame(r)
  BY Frames DEF Typed
<1>2. Moves(r)
  BY StepMoves
<1>3. TypingKept(r)
  BY <1>2, StepTyped
<1> QED  BY <1>1, <1>2, <1>3 DEF Turns, Moves

-------------------------------------------------------------------------------
(***************************************************************************)
(* What follows from the ranks being on one trace.                         *)
(***************************************************************************)
LEMMA TypedIsTypeOK ==
    ASSUME Typed
    PROVE  TypeOK
<1>1. ASSUME NEW r \in Rank
      PROVE  /\ pc[r] \in Labels /\ at[r] \in 1 .. Len(Controls) + 1
             /\ step[r] \in 0 .. StepMax
             /\ todo[r] = <<>> \/ \E e \in Exec : IsSuffix(todo[r], Chain[e])
  <2>1. PICK x : x = X(r)
    OBVIOUS
  <2>2. Sound(r, pc[r], x, todo[r], out[r], work[r]) /\ pc[r] \in Labels
    BY <2>1 DEF Typed, AllSound
  <2>3. x.at = at[r] /\ x.step = step[r]
    BY <2>1, XIs
  <2>4. x.at \in 1 .. Len(Controls) + 1 /\ x.step <= StepMax /\ x.step \in Nat
    BY <2>2, CommonIs DEF Sound, Fits
  <2>5. x.step \in 0 .. StepMax
    BY <2>4, Constants
  <2>6. CASE pc[r] \in Walking
    <3>1. /\ x.at \in Beginnings /\ x.i \in 1 .. Len(Path(x.at)) + 1
          /\ todo[r] = Rest(x.at, x.i)
      BY <2>1, <2>6, Walks
    <3> QED  BY <3>1, <2>2, <2>3, <2>4, <2>5, RestIsSuffix
  <2>7. CASE pc[r] \notin Walking
    <3>1. todo[r] = <<>>
      BY <2>2, <2>7 DEF Sound, Fits
    <3> QED  BY <3>1, <2>2, <2>3, <2>4, <2>5
  <2> QED  BY <2>6, <2>7
<1>2. ASSUME NEW r \in Rank
      PROVE  Typing(master[r], name[r], work[r], iret[r], out[r], status[r])
  BY DEF Typed, AllSound
<1>3. pc \in [Rank -> Labels] /\ at \in [Rank -> 1 .. Len(Controls) + 1]
      /\ step \in [Rank -> 0 .. StepMax]
  BY <1>1 DEF Typed, Functions
<1>4. /\ master \in [Rank -> 0 .. Cardinality(Rank)] /\ name \in [Rank -> ToSet(Names) \cup {End}]
      /\ work \in [Rank -> SUBSET Contribution]
  BY <1>2 DEF Typed, Functions, Typing, Ranks, NameSet
<1>5. iret \in [Rank -> Bit] /\ status \in [Rank -> Bit]
  BY <1>2 DEF Typed, Functions, Typing, Bit
<1>6. ASSUME NEW r \in Rank, NEW e \in Exec
      PROVE  IF Kind[e] \in {"grid", "sum"}
             THEN /\ DOMAIN out[r][e] \subseteq ToSet(Names)
                  /\ \A n \in DOMAIN out[r][e] : out[r][e][n] \subseteq Contribution
             ELSE out[r][e] \in Seq(SUBSET Contribution)
  <2>1. OutTyped(out[r])
    BY <1>2 DEF Typing
  <2> QED  BY <2>1 DEF OutTyped, NameSet
<1> QED  BY <1>1, <1>3, <1>4, <1>5, <1>6 DEF TypeOK

\* The ranks on one trace enter the same calls.
LEMMA TraceMatched ==
    ASSUME Typed, OnTrace
    PROVE  Matched
<1> SUFFICES ASSUME NEW q \in Rank, NEW r \in Rank, NEW k \in 1 .. Len(calls[q]),
                    k <= Len(calls[r])
             PROVE  calls[q][k].op = calls[r][k].op
  BY DEF Matched
<1>1. calls \in T!Lists(Call)
  BY PathsTyped
<1> QED  BY <1>1, T!TogetherMatches DEF OnTrace

\* A control that has been updated has what its executives have found.
LEMMA TypedIsWhole ==
    ASSUME Single, Typed
    PROVE  FieldsWhole
<1> SUFFICES ASSUME NEW r \in Rank, pc[r] = "exec", todo[r] = <<>>,
                    NEW c, c = Controls[at[r]],
                    NEW e, e = (IF Kind[c] = "csv" THEN Source[c] ELSE c), Kind[e] = "get"
             PROVE  out[r][e] = Whole(e, step[r])
  BY DEF FieldsWhole
<1>1. PICK x, a, n, p : x = X(r) /\ a = x.at /\ p = Path(a) /\ n = Len(p)
  OBVIOUS
<1>2. pc[r] \in Walking
  BY DEF Walking
<1>3. x.at = at[r] /\ x.step = step[r] /\ a \in Beginnings /\ x.i = n + 1 /\ a = at[r]
  BY <1>1, <1>2, XIs, Walks
<1>4. n \in Nat \ {0} /\ p[n] = c /\ n \in 1 .. n
  <2>1. n \in Nat \ {0} /\ p[n] = c
    BY <1>1, <1>3, PathIs
  <2> QED  BY <2>1
<1>5. \A k \in 1 .. n : Fine(r, p[k], step[r], out[r])
  <2>1. Sound(r, pc[r], x, todo[r], out[r], work[r])
    BY <1>1 DEF Typed, AllSound
  <2>2. \A k \in 1 .. x.i - 1 : Fine(r, p[k], step[r], out[r])
    BY <2>1, <1>1, <1>3 DEF Sound, Data
  <2>3. x.i - 1 = n
    BY <1>3, <1>4
  <2> QED  BY <2>2, <2>3
<1>6. \E k \in 1 .. n : p[k] = e
  <2>1. CASE Kind[c] # "csv"
    BY <2>1, <1>4
  <2>2. CASE Kind[c] = "csv"
    <3>1. n > 1 /\ Source[p[n]] = p[n - 1]
      <4>1. Kind[p[n]] # "grid"
        BY <2>2, <1>4
      <4> QED  BY <4>1, <1>1, <1>3, <1>4, KindAt
    <3>2. n - 1 \in 1 .. n
      BY <3>1, <1>4
    <3> QED  BY <3>1, <3>2, <2>2, <1>4
  <2> QED  BY <2>1, <2>2
<1>7. Fine(r, e, step[r], out[r])
  BY <1>5, <1>6
<1> QED  BY <1>7 DEF Fine

-------------------------------------------------------------------------------
(***************************************************************************)
(* The invariant.                                                          *)
(***************************************************************************)
\* When the program is stopped by a pointer that was never set, the rest stays as it is.
LEMMA CrashIsOver ==
    ASSUME Typed, OnTrace, NEW r \in Rank, Crash(r)
    PROVE  TypeOK' /\ Crashed'
<1>1. pc' = [q \in Rank |-> "crashed"] /\ pc'[r] # "control"
  BY DEF Crash
<1>2. UNCHANGED <<calls, at, todo, master, name, work, iret, out, status, step>>
  <2>1. ~GiveUp(r)
    BY <1>1 DEF GiveUp, Goto, Typed, Functions
  <2> QED  BY <2>1 DEF Crash, Release
<1>3. "crashed" \in Labels
  BY DEF Labels, Halted
<1>4. TypeOK
  BY TypedIsTypeOK
<1>5. TypeOK'
  BY <1>1, <1>2, <1>3, <1>4 DEF TypeOK
<1>6. Matched'
  BY <1>2, TraceMatched DEF Matched
<1> QED  BY <1>1, <1>5, <1>6 DEF Crashed

LEMMA CrashedIsOver ==
    ASSUME Crashed, NEW r \in Rank
    PROVE  ~Step(r)
<1>1. pc[r] = "crashed"
  BY DEF Crashed
<1>2. ~(Control(r) \/ Refresh(r) \/ Report(r) \/ Grid(r) \/ Csv(r) \/ Sum(r) \/ Coords(r)
           \/ InitOutput(r) \/ Size(r) \/ Work(r) \/ Release(r) \/ NamesLeave(r))
  BY <1>1 DEF Control, Refresh, Report, Grid, Csv, Sum, Coords, InitOutput, Size, Work, Release,
          NamesLeave, At, Waited
<1>3. ~(NextField(r) \/ LocalLeave(r) \/ Gather(r) \/ New(r) \/ Add(r) \/ Post(r) \/ Get(r)
           \/ Indices(r) \/ Extents(r) \/ FieldsLeave(r) \/ Values(r))
  BY <1>1 DEF NextField, LocalLeave, Gather, New, Add, Post, Get, Indices, Extents, FieldsLeave,
          Values, At, Waited
<1> QED  BY <1>2, <1>3 DEF Step

LEMMA CourseStep ==
    ASSUME Course, NEW r \in Rank, Step(r)
    PROVE  Course'
<1>1. CASE Typed /\ OnTrace /\ ~Crash(r)
  <2>1. Turns(r)
    BY <1>1, StepTurns DEF Course
  <2>2. OnTrace' /\ Typed'
    BY <1>1, <2>1, TurnKeepsTrace, TurnTyped
  <2> QED  BY <2>2 DEF Course, Shared
<1>2. CASE Typed /\ OnTrace /\ Crash(r)
  BY <1>2, CrashIsOver DEF Course, Shared
<1>3. CASE Crashed
  BY <1>3, CrashedIsOver
<1> QED  BY <1>1, <1>2, <1>3 DEF Course

\* Nothing happens.
LEMMA CourseStutters == Course /\ UNCHANGED vars => Course'
<1> SUFFICES ASSUME Course, UNCHANGED vars PROVE Course'
  OBVIOUS
<1>1. /\ calls' = calls /\ pc' = pc /\ at' = at /\ todo' = todo /\ master' = master
      /\ name' = name /\ work' = work /\ iret' = iret /\ out' = out /\ status' = status
      /\ step' = step
  BY DEF vars, local
<1>2. \A r \in Rank : X(r)' = X(r)
  BY <1>1 DEF X
<1>3. Loci' = Loci /\ Inside' = Inside
  BY <1>1, <1>2 DEF Loci, Inside, Ops
<1>4. OnTrace => OnTrace'
  BY <1>1, <1>3 DEF OnTrace
<1>5. Typed => Typed'
  <2>1. AllSound => AllSound'
    BY <1>1, <1>2 DEF AllSound, Labels, Ops, Halted
  <2> QED  BY <2>1, <1>1 DEF Typed, Functions
<1>6. (TypeOK => TypeOK') /\ (Crashed => Crashed')
  BY <1>1 DEF TypeOK, Crashed, Matched
<1> QED  BY <1>4, <1>5, <1>6 DEF Course, Shared

LEMMA CourseNext == Course /\ [Next]_vars => Course'
BY CourseStep, CourseStutters DEF Next, Over

LEMMA InitCourse == Shared /\ Init => Course
<1> SUFFICES ASSUME Shared, Init PROVE Course
  OBVIOUS
<1>1. PICK x, o : x = Base(0, 1, 0) /\ o = [e \in Exec |-> <<>>]
  OBVIOUS
<1>2. "control" \in Labels /\ "control" \notin Ops /\ "control" \notin Walking
  BY LabelFacts
<1>3. ASSUME NEW r \in Rank
      PROVE  /\ pc[r] = "control" /\ todo[r] = <<>> /\ out[r] = o /\ calls[r] = <<>>
             /\ X(r) = x
  <2>1. X(r) = x
    <3>1. X(r) = Shape("control", 0, 1, todo[r], master[r], name[r], out[r])
      BY DEF Init, X
    <3> QED  BY <3>1, <1>1, <1>2, ShapeIs
  <2>2. pc[r] = "control" /\ todo[r] = <<>>
    BY DEF Init
  <2>3. out[r] = o
    BY <1>1 DEF Init
  <2>4. calls[r] = <<>>
    BY DEF Init, NoCalls
  <2> QED  BY <2>1, <2>2, <2>3, <2>4
<1>4. ASSUME NEW r \in Rank PROVE Sound(r, "control", x, <<>>, o, work[r])
  <2>1. 0 < StepMax /\ 0 \in Nat /\ 1 \in 1 .. Len(Controls) + 1
    BY Constants, ListAssumption
  <2> QED  BY <2>1, <1>1, ControlSound
<1>5. ASSUME NEW r \in Rank
      PROVE  Typing(master[r], name[r], work[r], iret[r], out[r], status[r])
  <2>1. OutTyped(o)
    <3>1. <<>> \in Seq(SUBSET Contribution) /\ DOMAIN <<>> = {}
      OBVIOUS
    <3> QED  BY <3>1, <1>1 DEF OutTyped
  <2>2. master[r] = 0 /\ name[r] = End /\ work[r] = {} /\ iret[r] = 0 /\ status[r] = 0
    BY DEF Init
  <2>3. 0 \in 0 .. Ranks
    BY Constants
  <2> QED  BY <2>1, <2>2, <2>3, <1>3 DEF Typing, Bit
<1>6. Functions
  BY DEF Init, Functions
<1>7. calls \in [Rank -> Seq(Call)]
  BY DEF Init, NoCalls
<1>8. Typed
  <2>1. ASSUME NEW r \in Rank
        PROVE  /\ pc[r] \in Labels
               /\ Sound(r, pc[r], X(r), todo[r], out[r], work[r])
               /\ Typing(master[r], name[r], work[r], iret[r], out[r], status[r])
    <3>1. pc[r] \in Labels /\ Sound(r, pc[r], X(r), todo[r], out[r], work[r])
      BY <1>2, <1>3, <1>4
    <3> QED  BY <3>1, <1>5
  <2>2. AllSound
    BY <2>1, Zenon DEF AllSound
  <2> QED  BY <2>2, <1>6, <1>7 DEF Typed
<1>9. OnTrace
  <2>1. PICK p : p = LocusOf("control", x)
    OBVIOUS
  <2>2. p \in Place
    <3>1. x \in Common
      <4>1. 0 \in Nat /\ 1 \in Nat
        OBVIOUS
      <4> QED  BY <4>1, <1>1, BaseIs
    <3> QED  BY <2>1, <3>1, <1>2, LocusTyped
  <2>3. ASSUME NEW r \in Rank PROVE calls[r] = <<>> /\ ~Inside[r] /\ Loci[r] = p
    <3>1. calls[r] = <<>> /\ ~Inside[r]
      BY <1>2, <1>3 DEF Inside
    <3>2. LocusOf(pc[r], X(r)) = p
      BY <1>3, <2>1
    <3> QED  BY <3>1, <3>2 DEF Loci
  <2> QED  BY <2>2, <2>3, T!TogetherStarts DEF OnTrace
<1> QED  BY <1>8, <1>9 DEF Course

LEMMA CourseAlways == Shared => (Spec => []Course)
BY InitCourse, CourseNext, PTL DEF Spec

\* The same with a condition on the constants more.
Alone == Single /\ Course

LEMMA AloneAlways == Shared /\ Single => (Spec => []Alone)
<1>1. Shared /\ Single /\ Init => Alone
  BY InitCourse DEF Alone
<1>2. Alone /\ [Next]_vars => Alone'
  BY CourseNext DEF Alone, Single
<1> QED  BY <1>1, <1>2, PTL DEF Spec

\* Whatever fails on a rank that all the ranks are told of, the position in the controls, the
\* turn of the masters and the outputs of the executives keep to their types: what is left is
\* always the end of a chain, and no more masters have had their turn than there are ranks.
THEOREM UpdatesTyped == Shared => (Spec => []TypeOK)
<1>1. Course => TypeOK
  BY TypedIsTypeOK DEF Course
<1> QED  BY <1>1, CourseAlways, PTL

\* The ranks enter the same collectives in the same order through all the updates, whichever
\* executives are connected, on whichever ranks a value is selected, and whatever fails on some
\* of them, if it is a failure whose return codes are compared before the next call (Shared).
THEOREM UpdateCallsMatch == Shared => (Spec => []CollectivesMatch)
<1>1. Course => CollectivesMatch
  BY TraceMatched DEF Course, Crashed, CollectivesMatch
<1> QED  BY <1>1, CourseAlways, PTL

\* A getter that has been updated holds on every rank the values of this step, that of a
\* statistic with the contributions of all the ranks, if not more than one rank has a value
\* that it selects.
THEOREM FieldsAlwaysWhole == Shared /\ Single => (Spec => []FieldsWhole)
<1>1. Alone => FieldsWhole
  BY TypedIsWhole DEF Alone, Course, Crashed, FieldsWhole
<1> QED  BY <1>1, AloneAlways, PTL

===============================================================================
