---------------------------- MODULE CouplingProofs ----------------------------
(***************************************************************************)
(* Proofs about module RadiationCoupling, for any number of subdomains,    *)
(* of angular ranges, of fields and of rounds.                             *)
(***************************************************************************)
EXTENDS RadiationCoupling, SequenceTheorems, FiniteSetTheorems, WellFoundedInduction, TLAPS

-------------------------------------------------------------------------------
\* Sequences that are put together from others.
LEMMA SmallestExists ==
    ASSUME NEW V, V \subseteq Nat, V # {}
    PROVE  \E v \in V : \A w \in V : v <= w
<1> DEFINE Less == {ss \in Nat \X Nat : ss[1] < ss[2]}
<1>1. IsWellFoundedOn(Less, Nat)
  BY NatLessThanWellFounded DEF OpToRel
<1>2. PICK v \in V : \A w \in V : <<w, v>> \notin Less
  BY <1>1, WFMin
<1>3. \A w \in V : v <= w
  <2>1. ASSUME NEW w \in V PROVE v <= w
    <3>1. <<w, v>> \in Nat \X Nat /\ <<w, v>>[1] = w /\ <<w, v>>[2] = v
      OBVIOUS
    <3>2. ~(w < v)
      BY <3>1, <1>2
    <3>3. v \in Nat /\ w \in Nat
      OBVIOUS
    <3> QED  BY <3>2, <3>3
  <2> QED  BY <2>1
<1> QED  BY <1>3

LEMMA MinIs ==
    ASSUME NEW V, V \subseteq Nat, V # {}
    PROVE  Min(V) \in V /\ \A w \in V : Min(V) <= w
<1>1. \E v \in V : \A w \in V : v <= w
  BY SmallestExists
<1> QED  BY <1>1 DEF Min

\* What the sequence s is made of: g names the piece of ss, and the place there, from
\* which each of its elements comes, in the order of the pieces.
Pieces(s, g, ss, m) ==
    /\ \A i \in DOMAIN s : /\ g[i][1] \in 1 .. m /\ g[i][2] \in DOMAIN ss[g[i][1]]
                           /\ s[i] = ss[g[i][1]][g[i][2]]
    /\ \A i, j \in DOMAIN s : i < j =>
          \/ g[i][1] < g[j][1]
          \/ g[i][1] = g[j][1] /\ g[i][2] < g[j][2]
    /\ \A k \in 1 .. m : \A l \in DOMAIN ss[k] : \E i \in DOMAIN s : g[i] = <<k, l>>

LEMMA OnePiece ==
    ASSUME NEW T, NEW ss \in Seq(Seq(T)), ss # <<>>
    PROVE  \E g : Pieces(ss[1], g, ss, 1)
<1>1. ss[1] \in Seq(T)
  OBVIOUS
<1>2. PICK g : g = [i \in DOMAIN ss[1] |-> <<1, i>>]
  OBVIOUS
<1>3. \A i \in DOMAIN ss[1] : i \in Nat /\ g[i] = <<1, i>> /\ g[i][1] = 1 /\ g[i][2] = i
  BY <1>1, <1>2
<1>4. Pieces(ss[1], g, ss, 1)
  BY <1>3 DEF Pieces
<1> QED  BY <1>4

LEMMA NextPiece ==
    ASSUME NEW T, NEW ss \in Seq(Seq(T)), NEW m \in Nat, m + 1 \in 1 .. Len(ss), m # 0,
           NEW s \in Seq(T), NEW g, Pieces(s, g, ss, m)
    PROVE  \E h : Pieces(s \o ss[m + 1], h, ss, m + 1)
<1>1. PICK t \in Seq(T) : t = ss[m + 1]
  OBVIOUS
<1>2. PICK a : a = s \o t
  OBVIOUS
<1>0. PICK x \in Nat, y \in Nat : x = Len(s) /\ y = Len(t)
  OBVIOUS
<1>3. /\ DOMAIN a = 1 .. x + y /\ DOMAIN s = 1 .. x /\ DOMAIN t = 1 .. y
      /\ \A i \in 1 .. x + y : i <= x => a[i] = s[i]
      /\ \A i \in 1 .. x + y : i > x => a[i] = t[i - x]
  BY <1>0, <1>2
<1>4. PICK h : h = [i \in 1 .. x + y |-> IF i <= x THEN g[i] ELSE <<m + 1, i - x>>]
  OBVIOUS
<1>5. /\ \A i \in 1 .. x + y : i <= x => h[i] = g[i]
      /\ \A i \in 1 .. x + y : i > x =>
            h[i] = <<m + 1, i - x>> /\ h[i][1] = m + 1 /\ h[i][2] = i - x
  BY <1>3, <1>4
<1>6. ASSUME NEW i \in 1 .. x + y
      PROVE  /\ h[i][1] \in 1 .. m + 1 /\ h[i][2] \in DOMAIN ss[h[i][1]]
             /\ a[i] = ss[h[i][1]][h[i][2]]
  <2>1. CASE i <= x
    <3>1. i \in DOMAIN s
      BY <2>1, <1>3
    <3>2. /\ g[i][1] \in 1 .. m /\ g[i][2] \in DOMAIN ss[g[i][1]]
          /\ s[i] = ss[g[i][1]][g[i][2]]
      BY <3>1 DEF Pieces
    <3>3. h[i] = g[i] /\ a[i] = s[i]
      BY <2>1, <1>3, <1>5
    <3> QED  BY <3>2, <3>3, SMTT(20)
  <2>2. CASE i > x
    <3>1. i - x \in DOMAIN t
      BY <2>2, <1>3
    <3>2. a[i] = t[i - x] /\ h[i][1] = m + 1 /\ h[i][2] = i - x
      BY <2>2, <1>3, <1>5
    <3>3. t = ss[h[i][1]]
      BY <3>2, <1>1
    <3> QED  BY <3>1, <3>2, <3>3
  <2> QED  BY <1>3, <2>1, <2>2
<1>7. ASSUME NEW i \in 1 .. x + y, NEW j \in 1 .. x + y, i < j
      PROVE  \/ h[i][1] < h[j][1]
             \/ h[i][1] = h[j][1] /\ h[i][2] < h[j][2]
  <2>1. CASE j <= x
    <3>1. i \in DOMAIN s /\ j \in DOMAIN s /\ h[i] = g[i] /\ h[j] = g[j]
      BY <2>1, <1>3, <1>5, <1>7
    <3>2. \/ g[i][1] < g[j][1]
          \/ g[i][1] = g[j][1] /\ g[i][2] < g[j][2]
      BY <3>1, <1>7 DEF Pieces
    <3> QED  BY <3>1, <3>2
  <2>2. CASE i <= x /\ j > x
    <3>1. i \in DOMAIN s /\ h[i] = g[i] /\ h[j][1] = m + 1
      BY <2>2, <1>3, <1>5
    <3>2. g[i][1] \in 1 .. m
      BY <3>1 DEF Pieces
    <3> QED  BY <3>1, <3>2
  <2>3. CASE i > x
    <3>1. h[i][1] = m + 1 /\ h[j][1] = m + 1 /\ h[i][2] = i - x /\ h[j][2] = j - x
      BY <2>3, <1>3, <1>5, <1>7
    <3> QED  BY <3>1, <1>3, <1>7
  <2> QED  BY <1>3, <2>1, <2>2, <2>3
<1>8. ASSUME NEW k \in 1 .. m + 1, NEW l \in DOMAIN ss[k]
      PROVE  \E i \in 1 .. x + y : h[i] = <<k, l>>
  <2>1. CASE k = m + 1
    <3>1. l \in DOMAIN t
      BY <2>1, <1>1, <1>8
    <3>2. PICK i : i = x + l
      OBVIOUS
    <3>3. i \in 1 .. x + y /\ i > x /\ i - x = l
      BY <3>1, <3>2, <1>3
    <3>4. h[i] = <<m + 1, i - x>>
      BY <3>3, <1>5
    <3>5. i \in 1 .. x + y
      BY <3>3, <1>3
    <3> QED  BY <3>3, <3>4, <3>5, <2>1
  <2>2. CASE k # m + 1
    <3>1. k \in 1 .. m
      BY <2>2
    <3>2. PICK i \in DOMAIN s : g[i] = <<k, l>>
      BY <3>1 DEF Pieces
    <3>3. i \in 1 .. x + y /\ i <= x
      BY <1>3
    <3>4. h[i] = <<k, l>>
      BY <3>2, <3>3, <1>5
    <3> QED  BY <3>3, <3>4
  <2> QED  BY <2>1, <2>2
<1>9. Pieces(a, h, ss, m + 1)
  <2>1. DOMAIN a = 1 .. x + y
    BY <1>3
  <2>2. \A i \in DOMAIN a : /\ h[i][1] \in 1 .. m + 1 /\ h[i][2] \in DOMAIN ss[h[i][1]]
                            /\ a[i] = ss[h[i][1]][h[i][2]]
    BY <2>1, <1>6
  <2>3. \A i, j \in DOMAIN a : i < j =>
          \/ h[i][1] < h[j][1]
          \/ h[i][1] = h[j][1] /\ h[i][2] < h[j][2]
    BY <2>1, <1>7
  <2>4. \A k \in 1 .. m + 1 : \A l \in DOMAIN ss[k] : \E i \in DOMAIN a : h[i] = <<k, l>>
    BY <2>1, <1>8
  <2> QED  BY <2>2, <2>3, <2>4 DEF Pieces
<1> QED  BY <1>1, <1>2, <1>9

Flatten(ss, f, m) ==
    f = [i \in 1 .. m |-> IF i = 1 THEN ss[i] ELSE f[i - 1] \o ss[i]]

LEMMA FlattenExists ==
    ASSUME NEW ss, NEW n \in Nat
    PROVE  \E f : Flatten(ss, f, n)
<1>1. PICK Bad : Bad = {m \in Nat : ~\E f : Flatten(ss, f, m)}
  OBVIOUS
<1>2. SUFFICES ASSUME Bad # {} PROVE FALSE
  BY <1>1
<1>3. PICK v \in Bad : \A w \in Bad : v <= w
  BY <1>1, <1>2, SmallestExists
<1>4. v \in Nat /\ ~\E f : Flatten(ss, f, v)
  BY <1>1
<1>5. CASE v = 0
  <2>1. PICK f : f = [i \in 1 .. 0 |-> <<>>]
    OBVIOUS
  <2>2. f = [i \in 1 .. 0 |-> IF i = 1 THEN ss[i] ELSE f[i - 1] \o ss[i]]
    BY <2>1
  <2>3. Flatten(ss, f, v)
    BY <2>2, <1>5 DEF Flatten
  <2> QED  BY <2>3, <1>4
<1>6. CASE v # 0
  <2>1. v - 1 \in Nat /\ v - 1 \notin Bad
    BY <1>3, <1>4, <1>6
  <2>2. PICK f : Flatten(ss, f, v - 1)
    BY <1>1, <2>1
  <2>3. PICK last : last = IF v = 1 THEN ss[1] ELSE f[v - 1] \o ss[v]
    OBVIOUS
  <2>4. PICK g : g = [i \in 1 .. v |-> IF i = v THEN last ELSE f[i]]
    OBVIOUS
  <2>5. ASSUME NEW i \in 1 .. v
        PROVE  g[i] = IF i = 1 THEN ss[i] ELSE g[i - 1] \o ss[i]
    <3>1. CASE i = v
      <4>1. i # 1 => i - 1 \in 1 .. v /\ i - 1 # v
        BY <3>1, <1>4
      <4>2. i # 1 => g[i - 1] = f[v - 1]
        BY <4>1, <3>1, <2>4
      <4> QED  BY <4>2, <3>1, <2>3, <2>4
    <3>2. CASE i # v
      <4>1. i \in 1 .. v - 1 /\ (i # 1 => i - 1 \in 1 .. v /\ i - 1 # v)
        BY <3>2, <1>4
      <4>2. f[i] = IF i = 1 THEN ss[i] ELSE f[i - 1] \o ss[i]
        BY <4>1, <2>2 DEF Flatten
      <4>3. g[i] = f[i] /\ (i # 1 => g[i - 1] = f[i - 1])
        BY <4>1, <3>2, <2>4
      <4> QED  BY <4>2, <4>3
    <3> QED  BY <3>1, <3>2
  <2>6. g = [i \in 1 .. v |-> g[i]]
    BY <2>4
  <2>7. Flatten(ss, g, v)
    BY <2>5, <2>6 DEF Flatten
  <2> QED  BY <2>7, <1>4
<1> QED  BY <1>5, <1>6

LEMMA Flattened ==
    ASSUME NEW T, NEW ss \in Seq(Seq(T))
    PROVE  FlattenSeq(ss) \in Seq(T) /\ \E g : Pieces(FlattenSeq(ss), g, ss, Len(ss))
<1>1. Len(ss) \in Nat
  OBVIOUS
<1>2. CASE Len(ss) = 0
  <2>1. ss = <<>> /\ FlattenSeq(ss) = ss
    BY <1>2 DEF FlattenSeq
  <2>2. Pieces(<<>>, <<>>, ss, 0)
    BY DEF Pieces
  <2>3. FlattenSeq(ss) \in Seq(T)
    <3>1. PICK e : e = FlattenSeq(ss)
      OBVIOUS
    <3>2. e = <<>>
      BY <2>1, <3>1
    <3>3. e \in Seq(T)
      BY <3>2
    <3> QED  BY <3>1, <3>3
  <2> QED  BY <2>1, <2>2, <2>3, <1>2
<1>3. CASE Len(ss) # 0
  <2>1. PICK f : f = CHOOSE h : Flatten(ss, h, Len(ss))
    OBVIOUS
  <2>2. Flatten(ss, f, Len(ss))
    BY <2>1, <1>1, FlattenExists
  <2>3. FlattenSeq(ss) = f[Len(ss)]
    BY <2>1, <1>3 DEF FlattenSeq, Flatten
  <2>4. PICK Bad : Bad = {m \in 1 .. Len(ss) : ~(f[m] \in Seq(T) /\ \E g : Pieces(f[m], g, ss, m))}
    OBVIOUS
  <2>5. SUFFICES Bad = {}
    BY <2>3, <2>4, <1>1, <1>3
  <2>6. SUFFICES ASSUME Bad # {} PROVE FALSE
    OBVIOUS
  <2>7. PICK v \in Bad : \A w \in Bad : v <= w
    <3>1. Bad \subseteq Nat
      BY <2>4, <1>1
    <3> QED  BY <3>1, <2>6, SmallestExists
  <2>8. v \in 1 .. Len(ss) /\ ~(f[v] \in Seq(T) /\ \E g : Pieces(f[v], g, ss, v))
    BY <2>4
  <2>9. f[v] = IF v = 1 THEN ss[v] ELSE f[v - 1] \o ss[v]
    BY <2>2, <2>8 DEF Flatten
  <2>10. CASE v = 1
    <3>1. f[v] = ss[1] /\ ss[1] \in Seq(T) /\ ss # <<>>
      BY <2>9, <2>10, <1>1, <1>3
    <3> QED  BY <3>1, <2>8, <2>10, OnePiece
  <2>11. CASE v # 1
    <3>1. PICK m : m = v - 1
      OBVIOUS
    <3>2. m \in Nat /\ m \in 1 .. Len(ss) /\ m + 1 = v /\ m # 0 /\ m \notin Bad
      BY <3>1, <2>7, <2>8, <2>11, <1>1
    <3>3. f[m] \in Seq(T) /\ \E g : Pieces(f[m], g, ss, m)
      BY <3>2, <2>4
    <3>4. PICK g : Pieces(f[m], g, ss, m)
      BY <3>3
    <3>5. \E h : Pieces(f[m] \o ss[m + 1], h, ss, m + 1)
      BY <3>2, <3>3, <3>4, <2>8, NextPiece
    <3>6. f[v] = f[m] \o ss[m + 1] /\ ss[m + 1] \in Seq(T)
      <4>1. f[v] = f[v - 1] \o ss[v]
        BY <2>9, <2>11
      <4>2. ss[v] \in Seq(T)
        BY <2>8
      <4> QED  BY <4>1, <4>2, <3>1, <3>2
    <3>7. f[v] \in Seq(T)
      BY <3>3, <3>6
    <3> QED  BY <3>2, <3>5, <3>6, <3>7, <2>8
  <2> QED  BY <2>10, <2>11
<1> QED  BY <1>2, <1>3

-------------------------------------------------------------------------------
\* Angular ranges and neighbours.
LEMMA Division ==
    ASSUME NEW n \in Nat \ {0}, NEW a \in Int
    PROVE  /\ a % n \in 0 .. n - 1
           /\ a \div n \in Int
           /\ a = n * (a \div n) + (a % n)
<1>1. a % n \in 0 .. n - 1
  OBVIOUS
<1>2. a \div n \in Int
  OBVIOUS
<1>3. a = n * (a \div n) + (a % n)
  OBVIOUS
<1> QED  BY <1>1, <1>2, <1>3

LEMMA Quotient ==
    ASSUME NEW n \in Nat \ {0}, NEW k \in Int, NEW q \in Int, NEW m \in 0 .. n - 1,
           n * q + m >= 0, n * q + m < n * k
    PROVE  q \in 0 .. k - 1
<1>1. CASE q < 0
  <2>1. n * q <= n * (-1)
    BY <1>1
  <2> QED  BY <2>1
<1>2. CASE q >= k
  <2>1. n * q >= n * k
    BY <1>2
  <2> QED  BY <2>1
<1> QED  BY <1>1, <1>2

LEMMA SameQuotient ==
    ASSUME NEW n \in Nat \ {0}, NEW q \in Nat, NEW m \in 0 .. n - 1
    PROVE  (n * q + m) \div n = q
<1>1. PICK a : a = n * q + m
  OBVIOUS
<1>2. a \in Int /\ a % n \in 0 .. n - 1 /\ a \div n \in Int /\ a = n * (a \div n) + (a % n)
  BY <1>1, Division
<1>3. PICK p \in Int, r \in 0 .. n - 1 : p = a \div n /\ r = a % n
  BY <1>2
<1>4. n * p + r = n * q + m
  BY <1>1, <1>2, <1>3
<1>5. CASE p < q
  <2>1. n * p <= n * (q - 1)
    BY <1>5
  <2> QED  BY <2>1, <1>4
<1>6. CASE p > q
  <2>1. n * p >= n * (q + 1)
    BY <1>6
  <2> QED  BY <2>1, <1>4
<1> QED  BY <1>1, <1>3, <1>5, <1>6

LEMMA SlaveOf ==
    ASSUME NEW q \in 0 .. N - 1, NEW j \in 0 .. L - 2
    PROVE  LET s == N + (L - 1) * q + j
           IN  s \in RadRank /\ ~IsMaster(s) /\ master_lat(s) = q
<1>1. PICK n : n = L - 1
  OBVIOUS
<1>2. n \in Nat \ {0} /\ j \in 0 .. n - 1 /\ N \in Nat \ {0} /\ L = n + 1 /\ q \in Nat
  BY <1>1, SizeAssumption
<1>3. PICK s : s = N + n * q + j
  OBVIOUS
<1>4. n * q <= n * (N - 1) /\ n * q >= 0 /\ n * q \in Int
  BY <1>2
<1>5. N * L = N + n * N /\ n * (N - 1) = n * N - n /\ n * N \in Int
  BY <1>2
<1>6. s \in RadRank /\ ~IsMaster(s)
  BY <1>2, <1>3, <1>4, <1>5 DEF RadRank, IsMaster
<1>7. s - N = n * q + j
  BY <1>2, <1>3, <1>4
<1>8. (s - N) \div n = q
  BY <1>2, <1>7, SameQuotient
<1> QED  BY <1>1, <1>3, <1>6, <1>8 DEF master_lat

LEMMA SlaveIs ==
    ASSUME NEW s \in RadRank, ~IsMaster(s)
    PROVE  /\ L >= 2 /\ master_lat(s) \in 0 .. N - 1
           /\ \E j \in 0 .. L - 2 : s = N + (L - 1) * master_lat(s) + j
<1>1. PICK n : n = L - 1
  OBVIOUS
<1>2. N \in Nat \ {0} /\ L \in Nat \ {0} /\ n \in Nat /\ L = n + 1
  BY <1>1, SizeAssumption
<1>3. s \in Nat /\ s >= N /\ s < N * L /\ N * L = N + n * N /\ n * N \in Int
  BY <1>2 DEF RadRank, IsMaster
<1>4. n \in Nat \ {0}
  BY <1>2, <1>3
<1>5. PICK p \in Int, r \in 0 .. n - 1 : p = (s - N) \div n /\ r = (s - N) % n
  <2>1. s - N \in Int
    BY <1>2, <1>3
  <2>2. (s - N) % n \in 0 .. n - 1 /\ (s - N) \div n \in Int
    BY <2>1, <1>4, Division
  <2> QED  BY <2>2
<1>6. s - N = n * p + r
  BY <1>2, <1>3, <1>4, <1>5, Division
<1>7. n * p + r >= 0 /\ n * p + r < n * N
  BY <1>2, <1>3, <1>6
<1>8. p \in 0 .. N - 1
  BY <1>2, <1>4, <1>7, Quotient
<1>9. master_lat(s) = p
  BY <1>1, <1>5 DEF master_lat
<1>10. r \in 0 .. L - 2 /\ s = N + (L - 1) * p + r
  <2>1. n * p \in Int
    BY <1>2
  <2> QED  BY <2>1, <1>1, <1>2, <1>3, <1>6
<1> QED  BY <1>2, <1>4, <1>8, <1>9, <1>10

LEMMA MasterLat ==
    ASSUME NEW q \in RadRank
    PROVE  master_lat(q) \in 0 .. N - 1
<1>1. CASE IsMaster(q)
  BY <1>1, SizeAssumption DEF master_lat, IsMaster, RadRank
<1>2. CASE ~IsMaster(q)
  BY <1>2, SlaveIs
<1> QED  BY <1>1, <1>2

\* The rank that has the same angular range in another subdomain.
LEMMA CorrespondingIs ==
    ASSUME NEW q \in RadRank, NEW m \in 0 .. N - 1
    PROVE  LET c == Corresponding(q, m)
           IN  /\ c \in RadRank /\ master_lat(c) = m /\ Corresponding(c, master_lat(q)) = q
               /\ IsMaster(c) <=> IsMaster(q)
<1>1. PICK c : c = Corresponding(q, m)
  OBVIOUS
<1>2. N \in Nat \ {0} /\ L \in Nat \ {0}
  BY SizeAssumption
<1>3. CASE IsMaster(q)
  <2>1. c = m /\ IsMaster(c) /\ q \in Nat
    BY <1>1, <1>2, <1>3 DEF Corresponding, IsMaster, RadRank
  <2>2. c \in RadRank
    <3>1. N * L >= N * 1 /\ N * L \in Int
      BY <1>2
    <3> QED  BY <2>1, <3>1, <1>2 DEF RadRank
  <2> QED  BY <2>1, <2>2, <1>1, <1>3 DEF Corresponding, master_lat
<1>4. CASE ~IsMaster(q)
  <2>1. PICK j \in 0 .. L - 2 : q = N + (L - 1) * master_lat(q) + j
    BY <1>4, SlaveIs
  <2>2. PICK n, k : n = L - 1 /\ k = master_lat(q)
    OBVIOUS
  <2>3. n \in Nat /\ k \in 0 .. N - 1 /\ k \in Int /\ m \in Int /\ j \in Int
    BY <2>2, <1>2, MasterLat
  <2>4. c = q + n * (m - k) /\ q = N + n * k + j
    BY <2>1, <2>2, <1>1, <1>4 DEF Corresponding
  <2>5. n * (m - k) = n * m - n * k /\ n * (k - m) = n * k - n * m
        /\ n * m \in Int /\ n * k \in Int
    BY <2>3
  <2>6. c = N + n * m + j /\ c \in Int
    BY <2>3, <2>4, <2>5, <1>2
  <2>7. c \in RadRank /\ ~IsMaster(c) /\ master_lat(c) = m
    BY <2>2, <2>6, SlaveOf
  <2>8. Corresponding(c, k) = c + n * (k - m)
    BY <2>2, <2>7 DEF Corresponding
  <2>9. Corresponding(c, k) = q
    BY <2>3, <2>4, <2>5, <2>6, <2>8, <1>2
  <2> QED  BY <2>2, <2>7, <2>9, <1>1, <1>4
<1> QED  BY <1>3, <1>4

LEMMA Neighbours ==
    ASSUME NEW q \in RadRank
    PROVE  /\ rank1(q) > -1 => rank1(q) \in RadRank /\ rank2(rank1(q)) = q
           /\ rank2(q) > -1 => rank2(q) \in RadRank /\ rank1(rank2(q)) = q
           /\ rank1(q) \in Int /\ rank2(q) \in Int /\ q \in Nat
<1>1. PICK k : k = master_lat(q)
  OBVIOUS
<1>2. k \in 0 .. N - 1 /\ N \in Nat \ {0} /\ q \in Nat
  BY <1>1, MasterLat, SizeAssumption DEF RadRank
<1>5. k = 0 => rank1(q) = -1
  BY <1>1 DEF rank1
<1>6. k = N - 1 => rank2(q) = -1
  BY <1>1 DEF rank2
<1> QED
  <2>1. /\ rank1(q) > -1 => rank1(q) \in RadRank /\ rank2(rank1(q)) = q
        /\ rank1(q) \in Int
    <3>1. CASE k = 0
      BY <3>1, <1>5
    <3>2. CASE k # 0
      <4>1. rank1(q) = Corresponding(q, k - 1) /\ k - 1 \in 0 .. N - 1
        BY <1>1, <1>2, <3>2 DEF rank1
      <4>2. PICK c : c = Corresponding(q, k - 1)
        OBVIOUS
      <4>3. c \in RadRank /\ master_lat(c) = k - 1 /\ Corresponding(c, k) = q
        BY <4>1, <4>2, <1>1, CorrespondingIs
      <4>4. rank2(c) = Corresponding(c, k)
        BY <4>1, <4>3, <1>2 DEF rank2
      <4> QED  BY <4>1, <4>2, <4>3, <4>4 DEF RadRank
    <3> QED  BY <3>1, <3>2
  <2>2. /\ rank2(q) > -1 => rank2(q) \in RadRank /\ rank1(rank2(q)) = q
        /\ rank2(q) \in Int
    <3>1. CASE k = N - 1
      BY <3>1, <1>6
    <3>2. CASE k # N - 1
      <4>1. rank2(q) = Corresponding(q, k + 1) /\ k + 1 \in 0 .. N - 1
        BY <1>1, <1>2, <3>2 DEF rank2
      <4>2. PICK c : c = Corresponding(q, k + 1)
        OBVIOUS
      <4>3. c \in RadRank /\ master_lat(c) = k + 1 /\ Corresponding(c, k) = q
        BY <4>1, <4>2, <1>1, CorrespondingIs
      <4>4. rank1(c) = Corresponding(c, k)
        BY <4>1, <4>3, <1>2 DEF rank1
      <4> QED  BY <4>1, <4>2, <4>3, <4>4 DEF RadRank
    <3> QED  BY <3>1, <3>2
  <2> QED  BY <2>1, <2>2, <1>2

-------------------------------------------------------------------------------
\* The order of the calls in a script.  All calls that are no waits for
\* sends are different, and they are sorted by their stage, which can be
\* read off a call alone.
Kinds == {"send", "wait", "recv", "post", "waitlast", "judge"}
Others == {"heat", "iflg", "halo", "E", "dE", "ads", "boundary", "error", "iexit"}
Whats == FieldSet \cup Others \cup {""}
OpSet == [kind : Kinds, peer : Int, tag : Int, what : Whats]

Stage(o) ==
    CASE o.kind = "post" -> 1
      [] o.kind = "waitlast" -> 2
      [] o.kind = "judge" -> 7
      [] OTHER -> CASE o.what = "heat" -> 0
                    [] o.what = "halo" -> 3
                    [] o.what = "dE" -> 4
                    [] o.what \in {"ads", "boundary"} -> 5
                    [] o.what = "error" -> 6
                    [] o.what = "iexit" -> 8
                    [] OTHER -> IF o.kind = "recv" THEN 1 ELSE 2

Active(o) == o.kind # "wait"

Has(s, o) == \E i \in DOMAIN s : s[i] = o

Block(s, lo, hi) ==
    /\ s \in Seq(OpSet)
    /\ \A i \in DOMAIN s : Active(s[i]) => Stage(s[i]) \in lo .. hi
    /\ \A i, j \in DOMAIN s : i < j /\ Active(s[i]) /\ Active(s[j]) =>
          Stage(s[i]) <= Stage(s[j]) /\ s[i] # s[j]

LEMMA StageIs ==
    ASSUME NEW o
    PROVE  Stage(o) \in 0 .. 8
BY DEF Stage

LEMMA OpIs ==
    ASSUME NEW k \in Kinds, NEW p \in Int, NEW t \in Int, NEW w \in Whats
    PROVE  /\ Op(k, p, t, w) \in OpSet
           /\ Op(k, p, t, w).kind = k /\ Op(k, p, t, w).peer = p
           /\ Op(k, p, t, w).tag = t /\ Op(k, p, t, w).what = w
BY DEF Op, OpSet

LEMMA BlockEmpty ==
    ASSUME NEW lo \in Int, NEW hi \in Int
    PROVE  Block(<<>>, lo, hi) /\ \A o : ~Has(<<>>, o)
BY DEF Block, Has

LEMMA BlockOne ==
    ASSUME NEW a \in OpSet, NEW k \in Int, Active(a) => Stage(a) = k
    PROVE  Block(<<a>>, k, k) /\ \A o : Has(<<a>>, o) <=> o = a
<1>1. PICK s : s = <<a>>
  OBVIOUS
<1>2. s \in Seq(OpSet) /\ DOMAIN s = {1} /\ s[1] = a
  BY <1>1
<1>3. \A i \in DOMAIN s : i = 1
  BY <1>2
<1>4. Block(s, k, k)
  BY <1>2, <1>3 DEF Block
<1>5. \A o : Has(s, o) <=> o = a
  BY <1>2 DEF Has
<1> QED  BY <1>1, <1>4, <1>5

LEMMA Joined ==
    ASSUME NEW T, NEW s \in Seq(T), NEW t \in Seq(T)
    PROVE  LET a == s \o t
               x == Len(s)
               y == Len(t)
           IN  /\ a \in Seq(T) /\ DOMAIN a = 1 .. x + y /\ x \in Nat /\ y \in Nat
               /\ DOMAIN s = 1 .. x /\ DOMAIN t = 1 .. y
               /\ \A i \in 1 .. x + y : i <= x => i \in DOMAIN s /\ a[i] = s[i]
               /\ \A i \in 1 .. x + y : i > x => i - x \in DOMAIN t /\ a[i] = t[i - x]
OBVIOUS

LEMMA HasJoined ==
    ASSUME NEW T, NEW s \in Seq(T), NEW t \in Seq(T), NEW o
    PROVE  Has(s \o t, o) <=> Has(s, o) \/ Has(t, o)
<1>1. PICK a, x, y : a = s \o t /\ x = Len(s) /\ y = Len(t)
  OBVIOUS
<1>2. /\ a \in Seq(T) /\ DOMAIN a = 1 .. x + y /\ x \in Nat /\ y \in Nat
      /\ DOMAIN s = 1 .. x /\ DOMAIN t = 1 .. y
      /\ \A i \in 1 .. x + y : i <= x => i \in DOMAIN s /\ a[i] = s[i]
      /\ \A i \in 1 .. x + y : i > x => i - x \in DOMAIN t /\ a[i] = t[i - x]
  BY <1>1, Joined
<1>3. ASSUME Has(a, o) PROVE Has(s, o) \/ Has(t, o)
  <2>1. PICK i \in 1 .. x + y : a[i] = o
    BY <1>2, <1>3 DEF Has
  <2>2. CASE i <= x
    BY <2>1, <2>2, <1>2 DEF Has
  <2>3. CASE i > x
    BY <2>1, <2>3, <1>2 DEF Has
  <2> QED  BY <2>2, <2>3, <1>2
<1>4. ASSUME Has(s, o) PROVE Has(a, o)
  <2>1. PICK i \in 1 .. x : s[i] = o
    BY <1>2, <1>4 DEF Has
  <2>2. i \in 1 .. x + y /\ a[i] = o
    BY <2>1, <1>2
  <2> QED  BY <2>2, <1>2 DEF Has
<1>5. ASSUME Has(t, o) PROVE Has(a, o)
  <2>1. PICK i \in 1 .. y : t[i] = o
    BY <1>2, <1>5 DEF Has
  <2>2. PICK j : j = i + x
    OBVIOUS
  <2>3. j \in 1 .. x + y /\ j > x /\ j - x = i
    BY <2>2, <1>2
  <2>4. a[j] = o
    BY <2>1, <2>3, <1>2
  <2> QED  BY <2>3, <2>4, <1>2 DEF Has
<1> QED  BY <1>1, <1>3, <1>4, <1>5

LEMMA BlockJoined ==
    ASSUME NEW lo \in Int, NEW m \in Int, NEW n \in Int, NEW hi \in Int,
           lo <= n, m <= n, m <= hi, NEW s, NEW t, Block(s, lo, m), Block(t, n, hi),
           \A o : Active(o) /\ Has(s, o) => ~Has(t, o)
    PROVE  /\ Block(s \o t, lo, hi)
           /\ \A o : Has(s \o t, o) <=> Has(s, o) \/ Has(t, o)
<1>1. PICK a, x, y : a = s \o t /\ x = Len(s) /\ y = Len(t)
  OBVIOUS
<1>2. s \in Seq(OpSet) /\ t \in Seq(OpSet)
  BY DEF Block
<1>3. /\ a \in Seq(OpSet) /\ DOMAIN a = 1 .. x + y /\ x \in Nat /\ y \in Nat
      /\ DOMAIN s = 1 .. x /\ DOMAIN t = 1 .. y
      /\ \A i \in 1 .. x + y : i <= x => i \in DOMAIN s /\ a[i] = s[i]
      /\ \A i \in 1 .. x + y : i > x => i - x \in DOMAIN t /\ a[i] = t[i - x]
  BY <1>1, <1>2, Joined
<1>4. /\ \A i \in DOMAIN s : Active(s[i]) => Stage(s[i]) \in lo .. m
      /\ \A i \in DOMAIN t : Active(t[i]) => Stage(t[i]) \in n .. hi
      /\ \A i, j \in DOMAIN s : i < j /\ Active(s[i]) /\ Active(s[j]) =>
            Stage(s[i]) <= Stage(s[j]) /\ s[i] # s[j]
      /\ \A i, j \in DOMAIN t : i < j /\ Active(t[i]) /\ Active(t[j]) =>
            Stage(t[i]) <= Stage(t[j]) /\ t[i] # t[j]
  BY DEF Block
<1>5. ASSUME NEW i \in DOMAIN a, Active(a[i]) PROVE Stage(a[i]) \in lo .. hi
  <2>1. CASE i <= x
    <3>1. i \in DOMAIN s /\ a[i] = s[i]
      BY <2>1, <1>3
    <3>2. Stage(s[i]) \in lo .. m
      BY <3>1, <1>4, <1>5
    <3> QED  BY <3>1, <3>2
  <2>2. CASE i > x
    <3>1. i - x \in DOMAIN t /\ a[i] = t[i - x]
      BY <2>2, <1>3
    <3>2. Stage(t[i - x]) \in n .. hi
      BY <3>1, <1>4, <1>5
    <3> QED  BY <3>1, <3>2
  <2> QED  BY <2>1, <2>2, <1>3
<1>6. ASSUME NEW i \in DOMAIN a, NEW j \in DOMAIN a, i < j, Active(a[i]), Active(a[j])
      PROVE  Stage(a[i]) <= Stage(a[j]) /\ a[i] # a[j]
  <2>1. CASE j <= x
    <3>1. i \in DOMAIN s /\ j \in DOMAIN s /\ a[i] = s[i] /\ a[j] = s[j]
      BY <2>1, <1>3, <1>6
    <3> QED  BY <3>1, <1>4, <1>6
  <2>2. CASE i <= x /\ j > x
    <3>1. i \in DOMAIN s /\ a[i] = s[i] /\ j - x \in DOMAIN t /\ a[j] = t[j - x]
      BY <2>2, <1>3
    <3>2. Stage(s[i]) \in lo .. m /\ Stage(t[j - x]) \in n .. hi
      BY <3>1, <1>4, <1>6
    <3>3. Has(s, a[i]) /\ Has(t, a[j])
      BY <3>1 DEF Has
    <3> QED  BY <3>1, <3>2, <3>3, <1>6
  <2>3. CASE i > x
    <3>1. /\ i - x \in DOMAIN t /\ a[i] = t[i - x] /\ j - x \in DOMAIN t /\ a[j] = t[j - x]
          /\ i - x < j - x
      BY <2>3, <1>3, <1>6
    <3> QED  BY <3>1, <1>4, <1>6
  <2> QED  BY <2>1, <2>2, <2>3, <1>3
<1>7. Block(a, lo, hi)
  BY <1>3, <1>5, <1>6 DEF Block
<1>8. \A o : Has(a, o) <=> Has(s, o) \/ Has(t, o)
  BY <1>1, <1>2, HasJoined
<1> QED  BY <1>1, <1>7, <1>8

LEMMA BlockAfter ==
    ASSUME NEW lo \in Int, NEW m \in Int, NEW n \in Int, NEW hi \in Int,
           lo <= n, m < n, m <= hi, NEW s, NEW t, Block(s, lo, m), Block(t, n, hi)
    PROVE  /\ Block(s \o t, lo, hi)
           /\ \A o : Has(s \o t, o) <=> Has(s, o) \/ Has(t, o)
<1>1. ASSUME NEW o, Active(o), Has(s, o), Has(t, o) PROVE FALSE
  <2>1. PICK i \in DOMAIN s : s[i] = o
    BY <1>1 DEF Has
  <2>2. PICK j \in DOMAIN t : t[j] = o
    BY <1>1 DEF Has
  <2>3. Stage(o) \in lo .. m /\ Stage(o) \in n .. hi
    BY <2>1, <2>2, <1>1 DEF Block
  <2> QED  BY <2>3
<1> QED  BY <1>1, BlockJoined

LEMMA BlockWait ==
    ASSUME NEW lo \in Int, NEW hi \in Int, NEW s, Block(s, lo, hi), lo <= hi,
           NEW p \in Int, NEW t \in Int
    PROVE  /\ Block(s \o Wait(p, t), lo, hi)
           /\ \A o : Active(o) => (Has(s \o Wait(p, t), o) <=> Has(s, o))
<1>1. PICK a : a = Op("wait", p, t, "")
  OBVIOUS
<1>2. a \in OpSet /\ ~Active(a)
  <2>1. "wait" \in Kinds /\ "" \in Whats
    BY DEF Kinds, Whats
  <2>2. a \in OpSet /\ a.kind = "wait"
    BY <2>1, <1>1 DEF Op, OpSet
  <2> QED  BY <2>2 DEF Active
<1>3. Block(<<a>>, hi, hi) /\ \A o : Has(<<a>>, o) <=> o = a
  BY <1>2, BlockOne
<1>4. \A o : Active(o) /\ Has(s, o) => ~Has(<<a>>, o)
  BY <1>2, <1>3
<1>5. Wait(p, t) = <<a>>
  BY <1>1 DEF Wait
<1> QED  BY <1>2, <1>3, <1>4, <1>5, BlockJoined

LEMMA BlockWider ==
    ASSUME NEW lo \in Int, NEW hi \in Int, NEW m \in Int, NEW n \in Int, m <= lo, hi <= n,
           NEW s, Block(s, lo, hi)
    PROVE  Block(s, m, n)
BY DEF Block

LEMMA BlockFlat ==
    ASSUME NEW ss \in Seq(Seq(OpSet)), NEW n \in Int,
           \A k \in DOMAIN ss : Block(ss[k], n, n),
           \A k, l \in DOMAIN ss : \A o : Active(o) /\ Has(ss[k], o) /\ Has(ss[l], o) => k = l
    PROVE  /\ Block(FlattenSeq(ss), n, n)
           /\ \A o : Has(FlattenSeq(ss), o) <=> \E k \in DOMAIN ss : Has(ss[k], o)
<1>1. PICK s, g : s = FlattenSeq(ss) /\ s \in Seq(OpSet) /\ Pieces(s, g, ss, Len(ss))
  BY Flattened
<1>2. DOMAIN ss = 1 .. Len(ss)
  OBVIOUS
<1>3. ASSUME NEW i \in DOMAIN s
      PROVE  /\ g[i][1] \in DOMAIN ss /\ g[i][2] \in DOMAIN ss[g[i][1]]
             /\ s[i] = ss[g[i][1]][g[i][2]]
  BY <1>1, <1>2 DEF Pieces
<1>4. ASSUME NEW i \in DOMAIN s, Active(s[i]) PROVE Stage(s[i]) = n
  <2>1. PICK k, l : k = g[i][1] /\ l = g[i][2]
    OBVIOUS
  <2>2. k \in DOMAIN ss /\ l \in DOMAIN ss[k] /\ s[i] = ss[k][l]
    BY <2>1, <1>3
  <2>3. Stage(ss[k][l]) \in n .. n
    BY <2>2, <1>4 DEF Block
  <2> QED  BY <2>2, <2>3
<1>5. ASSUME NEW i \in DOMAIN s, NEW j \in DOMAIN s, i < j, Active(s[i]), Active(s[j])
      PROVE  s[i] # s[j]
  <2>1. SUFFICES ASSUME s[i] = s[j] PROVE FALSE
    OBVIOUS
  <2>2. PICK k, l, u, v : k = g[i][1] /\ l = g[i][2] /\ u = g[j][1] /\ v = g[j][2]
    OBVIOUS
  <2>3. /\ k \in DOMAIN ss /\ l \in DOMAIN ss[k] /\ s[i] = ss[k][l]
        /\ u \in DOMAIN ss /\ v \in DOMAIN ss[u] /\ s[j] = ss[u][v]
    BY <2>2, <1>3
  <2>4. k = u
    BY <2>1, <2>3, <1>5 DEF Has
  <2>5. k < u \/ (k = u /\ l < v)
    BY <2>2, <1>1, <1>5 DEF Pieces
  <2>6. l < v
    BY <2>3, <2>4, <2>5, <1>2
  <2>7. Block(ss[k], n, n)
    BY <2>3
  <2>8. ss[k][l] # ss[k][v]
    BY <2>1, <2>3, <2>4, <2>6, <2>7, <1>5 DEF Block
  <2> QED  BY <2>1, <2>3, <2>4, <2>8
<1>6. Block(s, n, n)
  <2>1. \A i \in DOMAIN s : Active(s[i]) => Stage(s[i]) \in n .. n
    BY <1>4
  <2>2. \A i, j \in DOMAIN s : i < j /\ Active(s[i]) /\ Active(s[j]) =>
          Stage(s[i]) <= Stage(s[j]) /\ s[i] # s[j]
    BY <1>4, <1>5
  <2> QED  BY <2>1, <2>2, <1>1 DEF Block
<1>7. ASSUME NEW o PROVE Has(s, o) <=> \E k \in DOMAIN ss : Has(ss[k], o)
  <2>1. ASSUME Has(s, o) PROVE \E k \in DOMAIN ss : Has(ss[k], o)
    <3>1. PICK i \in DOMAIN s : s[i] = o
      BY <2>1 DEF Has
    <3>2. PICK k, l : k = g[i][1] /\ l = g[i][2]
      OBVIOUS
    <3>3. k \in DOMAIN ss /\ l \in DOMAIN ss[k] /\ ss[k][l] = o
      BY <3>1, <3>2, <1>3
    <3> QED  BY <3>3 DEF Has
  <2>2. ASSUME NEW k \in DOMAIN ss, Has(ss[k], o) PROVE Has(s, o)
    <3>1. PICK l \in DOMAIN ss[k] : ss[k][l] = o
      BY <2>2 DEF Has
    <3>2. PICK i \in DOMAIN s : g[i] = <<k, l>>
      BY <1>1, <1>2 DEF Pieces
    <3>3. g[i][1] = k /\ g[i][2] = l
      BY <3>2
    <3> QED  BY <3>1, <3>3, <1>3 DEF Has
  <2> QED  BY <2>1, <2>2
<1> QED  BY <1>1, <1>6, <1>7

-------------------------------------------------------------------------------
\* What the scripts are made of.
LEMMA FieldsAre ==
    /\ \E n \in Nat \ {0} : n = Len(Fields) /\ DOMAIN Fields = 1 .. n
    /\ \A k \in DOMAIN Fields : Fields[k] \in FieldSet
    /\ \A f \in FieldSet : \E k \in DOMAIN Fields : f = Fields[k]
    /\ \A k, l \in DOMAIN Fields : Fields[k] = Fields[l] => k = l
    /\ FieldSet \cap Others = {} /\ "tmp" \in FieldSet /\ "" \notin FieldSet
<1>1. Fields \in Seq(STRING) /\ IsInjective(Fields) /\ "tmp" \in Range(Fields)
  BY FieldAssumption
<1>2. PICK k \in DOMAIN Fields : Fields[k] = "tmp"
  BY <1>1 DEF Range
<1>3. Len(Fields) \in Nat /\ DOMAIN Fields = 1 .. Len(Fields)
  BY <1>1
<1>4. Len(Fields) # 0
  BY <1>2, <1>3
<1>5. FieldSet \cap Others = {} /\ "" \notin FieldSet
  BY FieldAssumption DEF FieldSet, Others
<1> QED  BY <1>1, <1>3, <1>4, <1>5 DEF FieldSet, Range, IsInjective

LEMMA TagsAre ==
    /\ tag = 10 /\ tag + 10 = 20
    /\ \A k, l \in DOMAIN Fields : FieldTag(k) \in Int /\ (FieldTag(k) = FieldTag(l) => k = l)
<1>1. PICK n \in Nat : DOMAIN Fields = 1 .. n
  BY FieldsAre
<1>2. \A k \in 1 .. n : FieldTag(k) = 10 + 10 * (k - 1)
  BY DEF tag, FieldTag
<1>3. \A k, l \in 1 .. n : FieldTag(k) \in Int /\ (FieldTag(k) = FieldTag(l) => k = l)
  BY <1>2
<1> QED  BY <1>1, <1>3 DEF tag

LEMMA OpSame ==
    ASSUME NEW k, NEW p, NEW t, NEW w, NEW l, NEW q, NEW u, NEW v
    PROVE  Op(k, p, t, w) = Op(l, q, u, v) <=> k = l /\ p = q /\ t = u /\ w = v
<1>1. ASSUME Op(k, p, t, w) = Op(l, q, u, v) PROVE k = l /\ p = q /\ t = u /\ w = v
  <2>1. PICK a, b : a = Op(k, p, t, w) /\ b = Op(l, q, u, v)
    OBVIOUS
  <2>2. a.kind = k /\ a.peer = p /\ a.tag = t /\ a.what = w
    BY <2>1 DEF Op
  <2>3. b.kind = l /\ b.peer = q /\ b.tag = u /\ b.what = v
    BY <2>1 DEF Op
  <2> QED  BY <2>1, <2>2, <2>3, <1>1
<1> QED  BY <1>1

\* The stage of what is sent, and of what is received.
SendStage(w) == IF w = "heat" THEN 0 ELSE IF w = "halo" THEN 3 ELSE IF w = "dE" THEN 4
                ELSE IF w \in {"ads", "boundary"} THEN 5 ELSE IF w = "error" THEN 6
                ELSE IF w = "iexit" THEN 8 ELSE 2
RecvStage(w) == IF w = "heat" THEN 0 ELSE IF w = "halo" THEN 3 ELSE IF w = "dE" THEN 4
                ELSE IF w \in {"ads", "boundary"} THEN 5 ELSE IF w = "error" THEN 6
                ELSE IF w = "iexit" THEN 8 ELSE 1

LEMMA StageOf ==
    ASSUME NEW p, NEW t, NEW w
    PROVE  /\ Stage(Op("send", p, t, w)) = SendStage(w)
           /\ Stage(Op("recv", p, t, w)) = RecvStage(w)
           /\ Op("send", p, t, w).kind = "send" /\ Op("recv", p, t, w).kind = "recv"
           /\ Active(Op("send", p, t, w)) /\ Active(Op("recv", p, t, w))
<1>1. PICK a, b : a = Op("send", p, t, w) /\ b = Op("recv", p, t, w)
  OBVIOUS
<1>2. a.kind = "send" /\ a.what = w /\ b.kind = "recv" /\ b.what = w
  BY <1>1 DEF Op
<1>3. Stage(a) = SendStage(w)
  BY <1>2 DEF Stage, SendStage
<1>4. Stage(b) = RecvStage(w)
  BY <1>2 DEF Stage, RecvStage
<1> QED  BY <1>1, <1>2, <1>3, <1>4 DEF Active

LEMMA IsendIs ==
    ASSUME NEW p \in Int, NEW t \in Int, NEW w \in Whats
    PROVE  /\ Block(Isend(p, t, w), SendStage(w), SendStage(w))
           /\ \A o : Has(Isend(p, t, w), o) <=> o = Op("send", p, t, w)
<1>1. PICK a : a = Op("send", p, t, w)
  OBVIOUS
<1>2. "send" \in Kinds
  BY DEF Kinds
<1>3. a \in OpSet
  BY <1>1, <1>2, OpIs
<1>4. Stage(a) = SendStage(w) /\ SendStage(w) \in Int
  BY <1>1, StageOf DEF SendStage
<1>5. Block(<<a>>, SendStage(w), SendStage(w)) /\ \A o : Has(<<a>>, o) <=> o = a
  BY <1>3, <1>4, BlockOne
<1> QED  BY <1>1, <1>5 DEF Isend

LEMMA RecvIs ==
    ASSUME NEW p \in Int, NEW t \in Int, NEW w \in Whats
    PROVE  /\ Block(Recv(p, t, w), RecvStage(w), RecvStage(w))
           /\ \A o : Has(Recv(p, t, w), o) <=> o = Op("recv", p, t, w)
<1>1. PICK a : a = Op("recv", p, t, w)
  OBVIOUS
<1>2. "recv" \in Kinds
  BY DEF Kinds
<1>3. a \in OpSet
  BY <1>1, <1>2, OpIs
<1>4. Stage(a) = RecvStage(w) /\ RecvStage(w) \in Int
  BY <1>1, StageOf DEF RecvStage
<1>5. Block(<<a>>, RecvStage(w), RecvStage(w)) /\ \A o : Has(<<a>>, o) <=> o = a
  BY <1>3, <1>4, BlockOne
<1> QED  BY <1>1, <1>5 DEF Recv

LEMMA SendIs ==
    ASSUME NEW p \in Int, NEW t \in Int, NEW w \in Whats
    PROVE  /\ Block(Send(p, t, w), SendStage(w), SendStage(w))
           /\ \A o : Active(o) => (Has(Send(p, t, w), o) <=> o = Op("send", p, t, w))
<1>1. SendStage(w) \in Int
  BY DEF SendStage
<1>2. /\ Block(Isend(p, t, w), SendStage(w), SendStage(w))
      /\ \A o : Has(Isend(p, t, w), o) <=> o = Op("send", p, t, w)
  BY IsendIs
<1>3. /\ Block(Isend(p, t, w) \o Wait(p, t), SendStage(w), SendStage(w))
      /\ \A o : Active(o) => (Has(Isend(p, t, w) \o Wait(p, t), o) <=> Has(Isend(p, t, w), o))
  BY <1>1, <1>2, BlockWait
<1> QED  BY <1>2, <1>3 DEF Send

LEMMA SeqOfMany ==
    ASSUME NEW T, NEW m \in Nat, NEW G, G = [i \in 1 .. m |-> G[i]], \A i \in 1 .. m : G[i] \in T
    PROVE  G \in Seq(T) /\ DOMAIN G = 1 .. m
<1>1. PICK H : H = [i \in 1 .. m |-> G[i]]
  OBVIOUS
<1>2. H \in [1 .. m -> T] /\ DOMAIN H = 1 .. m
  BY <1>1
<1>3. Seq(T) = UNION {[1 .. k -> T] : k \in Nat}
  BY SeqDef
<1>4. H \in Seq(T)
  BY <1>2, <1>3
<1>5. G = H
  BY <1>1, Zenon
<1> QED  BY <1>2, <1>4, <1>5

\* A loop over ranks, each of which is sent something or is received from.
LEMMA LoopOverRanks ==
    ASSUME NEW s \in Seq(Int), \A i, j \in DOMAIN s : s[i] = s[j] => i = j,
           NEW G, NEW n \in Int, G = [i \in DOMAIN s |-> G[i]],
           \A i \in DOMAIN s : /\ Block(G[i], n, n)
                               /\ \A o : Active(o) /\ Has(G[i], o) => o.peer = Rad(s[i])
    PROVE  /\ Block(FlattenSeq(G), n, n)
           /\ \A o : Has(FlattenSeq(G), o) <=> \E i \in DOMAIN s : Has(G[i], o)
<1>1. \A i \in DOMAIN s : G[i] \in Seq(OpSet)
  BY DEF Block
<1>2. PICK m \in Nat : DOMAIN s = 1 .. m
  OBVIOUS
<1>3. G \in Seq(Seq(OpSet)) /\ DOMAIN G = DOMAIN s
  <2>1. PICK T : T = Seq(OpSet)
    OBVIOUS
  <2>2. G = [i \in 1 .. m |-> G[i]]
    BY <1>2, Zenon
  <2>3. \A i \in 1 .. m : G[i] \in T
    BY <1>1, <1>2, <2>1
  <2>4. G \in Seq(T) /\ DOMAIN G = 1 .. m
    BY ONLY <1>2, <2>2, <2>3, SeqOfMany
  <2> QED  BY <1>2, <2>1, <2>4
<1>4. ASSUME NEW i \in DOMAIN s, NEW j \in DOMAIN s, NEW o, Active(o), Has(G[i], o), Has(G[j], o)
      PROVE  i = j
  <2>1. Rad(s[i]) = Rad(s[j]) /\ s[i] \in Int /\ s[j] \in Int
    BY <1>4
  <2>2. s[i] = s[j]
    BY <2>1, SizeAssumption DEF Rad
  <2> QED  BY <2>2
<1>5. \A k \in DOMAIN G : Block(G[k], n, n)
  BY <1>3
<1>6. \A k, l \in DOMAIN G : \A o : Active(o) /\ Has(G[k], o) /\ Has(G[l], o) => k = l
  BY <1>3, <1>4
<1> QED  BY <1>3, <1>5, <1>6, BlockFlat

LEMMA LoopOverFields ==
    ASSUME NEW G, NEW n \in Int, G = [k \in DOMAIN Fields |-> G[k]],
           \A k \in DOMAIN Fields : /\ Block(G[k], n, n)
                                    /\ \A o : Active(o) /\ Has(G[k], o) => o.what = Fields[k]
    PROVE  /\ Block(FlattenSeq(G), n, n)
           /\ \A o : Has(FlattenSeq(G), o) <=> \E k \in DOMAIN Fields : Has(G[k], o)
<1>1. \A i \in DOMAIN Fields : G[i] \in Seq(OpSet)
  BY DEF Block
<1>2. PICK m \in Nat : DOMAIN Fields = 1 .. m
  BY FieldsAre
<1>3. G \in Seq(Seq(OpSet)) /\ DOMAIN G = DOMAIN Fields
  <2>1. PICK T : T = Seq(OpSet)
    OBVIOUS
  <2>2. G = [i \in 1 .. m |-> G[i]]
    BY <1>2, Zenon
  <2>3. \A i \in 1 .. m : G[i] \in T
    BY <1>1, <1>2, <2>1
  <2>4. G \in Seq(T) /\ DOMAIN G = 1 .. m
    BY ONLY <1>2, <2>2, <2>3, SeqOfMany
  <2> QED  BY <1>2, <2>1, <2>4
<1>4. ASSUME NEW k \in DOMAIN Fields, NEW l \in DOMAIN Fields, NEW o, Active(o), Has(G[k], o),
             Has(G[l], o)
      PROVE  k = l
  <2>1. Fields[k] = Fields[l]
    BY <1>4
  <2> QED  BY <2>1, FieldsAre
<1>5. \A k \in DOMAIN G : Block(G[k], n, n)
  BY <1>3
<1>6. \A k, l \in DOMAIN G : \A o : Active(o) /\ Has(G[k], o) /\ Has(G[l], o) => k = l
  BY <1>3, <1>4
<1> QED  BY <1>3, <1>5, <1>6, BlockFlat

LEMMA SlavesAre ==
    ASSUME NEW q \in 0 .. N - 1
    PROVE  /\ SlavesOf(q) \in Seq(Int) /\ DOMAIN SlavesOf(q) = 1 .. L - 1
           /\ \A i \in 1 .. L - 1 : /\ SlavesOf(q)[i] \in RadRank /\ ~IsMaster(SlavesOf(q)[i])
                                    /\ master_lat(SlavesOf(q)[i]) = q
           /\ \A i, j \in 1 .. L - 1 : SlavesOf(q)[i] = SlavesOf(q)[j] => i = j
           /\ \A s \in RadRank : ~IsMaster(s) /\ master_lat(s) = q =>
                 \E i \in 1 .. L - 1 : SlavesOf(q)[i] = s
<1>1. PICK x : x = (L - 1) * q
  OBVIOUS
<1>2. N \in Nat \ {0} /\ L \in Nat \ {0} /\ x \in Int
  BY <1>1, SizeAssumption
<1>3. PICK sl : sl = SlavesOf(q)
  OBVIOUS
<1>4. sl = [i \in 1 .. L - 1 |-> N + x + i - 1]
  BY <1>1, <1>3 DEF SlavesOf
<1>5. sl \in Seq(Int) /\ DOMAIN sl = 1 .. L - 1
  BY <1>2, <1>4
<1>6. \A i \in 1 .. L - 1 : sl[i] = N + x + (i - 1) /\ i - 1 \in 0 .. L - 2
  BY <1>2, <1>4
<1>7. \A i \in 1 .. L - 1 : sl[i] \in RadRank /\ ~IsMaster(sl[i]) /\ master_lat(sl[i]) = q
  BY <1>1, <1>6, SlaveOf
<1>8. \A i, j \in 1 .. L - 1 : sl[i] = sl[j] => i = j
  BY <1>2, <1>6
<1>9. ASSUME NEW s \in RadRank, ~IsMaster(s), master_lat(s) = q
      PROVE  \E i \in 1 .. L - 1 : sl[i] = s
  <2>1. PICK j \in 0 .. L - 2 : s = N + x + j
    BY <1>1, <1>9, SlaveIs
  <2>2. j + 1 \in 1 .. L - 1 /\ sl[j + 1] = N + x + j
    BY <1>2, <1>6
  <2> QED  BY <2>1, <2>2
<1> QED  BY <1>3, <1>5, <1>7, <1>8, <1>9

LEMMA StagesAre ==
    /\ \A w \in Others : w \in Whats
    /\ \A w \in FieldSet : w \in Whats /\ SendStage(w) = 2 /\ RecvStage(w) = 1
    /\ SendStage("heat") = 0 /\ RecvStage("heat") = 0
    /\ SendStage("iflg") = 2 /\ RecvStage("iflg") = 1
    /\ SendStage("E") = 2 /\ RecvStage("E") = 1
    /\ SendStage("halo") = 3 /\ RecvStage("halo") = 3
    /\ SendStage("dE") = 4 /\ RecvStage("dE") = 4
    /\ SendStage("ads") = 5 /\ RecvStage("ads") = 5
    /\ SendStage("boundary") = 5 /\ RecvStage("boundary") = 5
    /\ SendStage("error") = 6 /\ RecvStage("error") = 6
    /\ SendStage("iexit") = 8 /\ RecvStage("iexit") = 8
<1>1. ASSUME NEW w \in FieldSet
      PROVE  w \in Whats /\ SendStage(w) = 2 /\ RecvStage(w) = 1
  <2>1. w \notin Others
    BY FieldsAre
  <2> QED  BY <2>1 DEF Whats, Others, SendStage, RecvStage
<1> QED  BY <1>1 DEF Whats, Others, SendStage, RecvStage

LEMMA RadInt ==
    /\ \A q \in Int : Rad(q) \in Int
    /\ \A q \in RadRank : Rad(q) \in RadProc /\ Rad(q) \in Proc /\ myrank(Rad(q)) = q
    /\ \A q, s \in Int : Rad(q) = Rad(s) => q = s
    /\ \A p \in RadProc : \E q \in RadRank : p = Rad(q)
    /\ \A p \in RadProc : p \in Int /\ myrank(p) \in RadRank /\ Rad(myrank(p)) = p /\ p \notin JupiterProc
    /\ \A p \in JupiterProc : p \in RadRank /\ p \in 0 .. N - 1 /\ IsMaster(p)
    /\ 0 \in JupiterProc
<1>1. N \in Nat \ {0} /\ L \in Nat \ {0} /\ N * L \in Nat
  BY SizeAssumption
<1>2. N * L >= N * 1
  BY <1>1
<1>3. \A q \in RadRank : q \in Int /\ q >= 0
  BY <1>1 DEF RadRank
<1> QED  BY <1>1, <1>2, <1>3 DEF Rad, RadProc, Proc, myrank, JupiterProc, RadRank, IsMaster

LEMMA JupiterExchangeIs ==
    ASSUME NEW r \in JupiterProc
    PROVE  /\ Block(JupiterExchange(r), 0, 2)
           /\ \A o : Active(o) => (Has(JupiterExchange(r), o) <=>
                \/ o = Op("recv", Rad(r), 10, "heat")
                \/ o = Op("send", Rad(r), 20, "iflg"))
<1>1. PICK a, b : a = Recv(Rad(r), 10, "heat") /\ b = Send(Rad(r), 20, "iflg")
  OBVIOUS
<1>2. Rad(r) \in Int /\ "heat" \in Whats /\ "iflg" \in Whats
  BY RadInt, StagesAre DEF Others, RadRank
<1>3. Block(a, 0, 0) /\ \A o : Has(a, o) <=> o = Op("recv", Rad(r), 10, "heat")
  BY <1>1, <1>2, RecvIs, StagesAre
<1>4. Block(b, 2, 2) /\ \A o : Active(o) => (Has(b, o) <=> o = Op("send", Rad(r), 20, "iflg"))
  BY <1>1, <1>2, SendIs, StagesAre
<1>5. Block(a \o b, 0, 2) /\ \A o : Has(a \o b, o) <=> Has(a, o) \/ Has(b, o)
  BY <1>3, <1>4, BlockAfter
<1>6. JupiterExchange(r) = a \o b
  BY <1>1, TagsAre DEF JupiterExchange
<1> QED  BY <1>3, <1>4, <1>5, <1>6

LEMMA JupiterFieldsIs ==
    ASSUME NEW r \in JupiterProc
    PROVE  /\ Block(JupiterFields(r), 2, 2)
           /\ \A o : Active(o) => (Has(JupiterFields(r), o) <=>
                \E k \in DOMAIN Fields : o = Op("send", Rad(r), FieldTag(k), Fields[k]))
<1>1. PICK G : G = [k \in DOMAIN Fields |-> Send(Rad(r), FieldTag(k), Fields[k])]
  OBVIOUS
<1>2. JupiterFields(r) = FlattenSeq(G)
  BY <1>1 DEF JupiterFields, ForFields
<1>3. ASSUME NEW k \in DOMAIN Fields
      PROVE  /\ Block(G[k], 2, 2)
             /\ \A o : Active(o) => (Has(G[k], o) <=> o = Op("send", Rad(r), FieldTag(k), Fields[k]))
  <2>1. Rad(r) \in Int /\ FieldTag(k) \in Int /\ Fields[k] \in FieldSet /\ Fields[k] \in Whats
    BY RadInt, TagsAre, FieldsAre, StagesAre DEF RadRank
  <2>2. G[k] = Send(Rad(r), FieldTag(k), Fields[k])
    BY <1>1
  <2> QED  BY <2>1, <2>2, SendIs, StagesAre
<1>4. \A k \in DOMAIN Fields : \A o : Active(o) /\ Has(G[k], o) => o.what = Fields[k]
  BY <1>3 DEF Op
<1>5. G = [k \in DOMAIN Fields |-> G[k]]
  BY <1>1
<1>6. /\ Block(FlattenSeq(G), 2, 2)
      /\ \A o : Has(FlattenSeq(G), o) <=> \E k \in DOMAIN Fields : Has(G[k], o)
  BY <1>3, <1>4, <1>5, LoopOverFields
<1> QED  BY <1>2, <1>3, <1>6

LEMMA WaitLastIs ==
    ASSUME NEW q \in 0 .. N - 1, NEW t \in Int, NEW lo \in Int, NEW hi \in Int, lo <= hi,
           NEW s, Block(s, lo, hi)
    PROVE  /\ Block(s \o WaitLastSlave(q, t), lo, hi)
           /\ \A o : Active(o) => (Has(s \o WaitLastSlave(q, t), o) <=> Has(s, o))
<1>1. CASE L > 1
  <2>1. PICK x : x = Rad(Last(SlavesOf(q)))
    OBVIOUS
  <2>2. x \in Int
    <3>1. PICK sl \in Seq(Int), n \in Nat : sl = SlavesOf(q) /\ n = L - 1 /\ DOMAIN sl = 1 .. n
      BY SlavesAre, SizeAssumption
    <3>2. Len(sl) = n /\ n \in 1 .. n
      BY <3>1, <1>1, SizeAssumption
    <3>3. sl[n] \in Int
      BY <3>1, <3>2
    <3> QED  BY <2>1, <3>1, <3>2, <3>3, RadInt DEF Last
  <2>3. WaitLastSlave(q, t) = Wait(x, t)
    BY <1>1, <2>1 DEF WaitLastSlave
  <2> QED  BY <2>2, <2>3, BlockWait
<1>2. CASE ~(L > 1)
  <2>1. WaitLastSlave(q, t) = <<>> /\ s \in Seq(OpSet)
    BY <1>2 DEF WaitLastSlave, Block
  <2>2. s \o <<>> = s
    BY <2>1
  <2> QED  BY <2>1, <2>2
<1> QED  BY <1>1, <1>2

\* The loop of a master over its slaves, with one call for each.
LEMMA SlaveLoop ==
    ASSUME NEW q \in 0 .. N - 1, NEW G, NEW n \in Int, NEW op,
           G = [i \in DOMAIN SlavesOf(q) |-> G[i]],
           \A i \in DOMAIN SlavesOf(q) :
              /\ Block(G[i], n, n)
              /\ \A o : Active(o) => (Has(G[i], o) <=> o = op[SlavesOf(q)[i]])
              /\ op[SlavesOf(q)[i]].peer = Rad(SlavesOf(q)[i])
    PROVE  /\ Block(FlattenSeq(G), n, n)
           /\ \A o : Active(o) => (Has(FlattenSeq(G), o) <=>
                 \E s \in RadRank : ~IsMaster(s) /\ master_lat(s) = q /\ o = op[s])
<1>1. PICK sl : sl = SlavesOf(q)
  OBVIOUS
<1>0. sl \in Seq(Int) /\ DOMAIN sl = 1 .. L - 1
  BY <1>1, SlavesAre
<1>2. /\ \A i, j \in DOMAIN sl : sl[i] = sl[j] => i = j
      /\ \A i \in DOMAIN sl : sl[i] \in RadRank /\ ~IsMaster(sl[i]) /\ master_lat(sl[i]) = q
      /\ \A s \in RadRank : ~IsMaster(s) /\ master_lat(s) = q => \E i \in DOMAIN sl : sl[i] = s
  <2>1. /\ \A i \in 1 .. L - 1 : sl[i] \in RadRank /\ ~IsMaster(sl[i]) /\ master_lat(sl[i]) = q
        /\ \A i, j \in 1 .. L - 1 : sl[i] = sl[j] => i = j
        /\ \A s \in RadRank : ~IsMaster(s) /\ master_lat(s) = q => \E i \in 1 .. L - 1 : sl[i] = s
    BY <1>1, SlavesAre
  <2> QED  BY <2>1, <1>0
<1>3. /\ Block(FlattenSeq(G), n, n)
      /\ \A o : Has(FlattenSeq(G), o) <=> \E i \in DOMAIN sl : Has(G[i], o)
  <2>1. \A i \in DOMAIN sl : /\ Block(G[i], n, n)
                             /\ \A o : Active(o) /\ Has(G[i], o) => o.peer = Rad(sl[i])
    BY <1>1
  <2>2. G = [i \in DOMAIN sl |-> G[i]]
    BY <1>1
  <2> QED  BY <1>0, <1>2, <2>1, <2>2, LoopOverRanks
<1>4. ASSUME NEW o, Active(o)
      PROVE  (\E i \in DOMAIN sl : Has(G[i], o)) <=>
             (\E s \in RadRank : ~IsMaster(s) /\ master_lat(s) = q /\ o = op[s])
  BY <1>1, <1>2, <1>4
<1> QED  BY <1>3, <1>4

LEMMA MasterExchangeIs ==
    ASSUME NEW q \in 0 .. N - 1
    PROVE  /\ Block(MasterExchange(q), 0, 2)
           /\ \A o : Active(o) => (Has(MasterExchange(q), o) <=>
                \/ o = Op("send", q, 10, "heat")
                \/ o = Op("recv", q, 20, "iflg")
                \/ \E s \in RadRank : /\ ~IsMaster(s) /\ master_lat(s) = q
                                      /\ o = Op("send", Rad(s), 10, "iflg"))
<1>1. PICK a, b : a = Send(q, 10, "heat") /\ b = Recv(q, 20, "iflg")
  OBVIOUS
<1>2. q \in Int /\ "heat" \in Whats /\ "iflg" \in Whats
  BY StagesAre, SizeAssumption DEF Others
<1>3. Block(a, 0, 0) /\ \A o : Active(o) => (Has(a, o) <=> o = Op("send", q, 10, "heat"))
  BY <1>1, <1>2, SendIs, StagesAre
<1>4. Block(b, 1, 1) /\ \A o : Has(b, o) <=> o = Op("recv", q, 20, "iflg")
  BY <1>1, <1>2, RecvIs, StagesAre
<1>5. Block(a \o b, 0, 1) /\ \A o : Has(a \o b, o) <=> Has(a, o) \/ Has(b, o)
  BY <1>3, <1>4, BlockAfter
<1>6. PICK G : G = [i \in DOMAIN SlavesOf(q) |-> Isend(Rad(SlavesOf(q)[i]), 10, "iflg")]
  OBVIOUS
<1>7. PICK op : op = [s \in RadRank |-> Op("send", Rad(s), 10, "iflg")]
  OBVIOUS
<1>8. ASSUME NEW i \in DOMAIN SlavesOf(q)
      PROVE  /\ Block(G[i], 2, 2)
             /\ \A o : Active(o) => (Has(G[i], o) <=> o = op[SlavesOf(q)[i]])
             /\ op[SlavesOf(q)[i]].peer = Rad(SlavesOf(q)[i])
  <2>1. PICK s : s = SlavesOf(q)[i]
    OBVIOUS
  <2>2. s \in RadRank /\ Rad(s) \in Int
    BY <2>1, SlavesAre, RadInt
  <2>3. G[i] = Isend(Rad(s), 10, "iflg") /\ op[s] = Op("send", Rad(s), 10, "iflg")
    BY <2>1, <2>2, <1>6, <1>7
  <2>4. op[s].peer = Rad(s)
    BY <2>3 DEF Op
  <2> QED  BY <2>1, <2>2, <2>3, <2>4, <1>2, IsendIs, StagesAre
<1>9. G = [i \in DOMAIN SlavesOf(q) |-> G[i]]
  BY <1>6
<1>10. /\ Block(FlattenSeq(G), 2, 2)
       /\ \A o : Active(o) => (Has(FlattenSeq(G), o) <=>
             \E s \in RadRank : ~IsMaster(s) /\ master_lat(s) = q /\ o = op[s])
  BY <1>8, <1>9, SlaveLoop
<1>11. PICK c : c = FlattenSeq(G)
  OBVIOUS
<1>12. Block((a \o b) \o c, 0, 2) /\ \A o : Has((a \o b) \o c, o) <=> Has(a \o b, o) \/ Has(c, o)
  BY <1>5, <1>10, <1>11, BlockAfter
<1>13. MasterExchange(q) = ((a \o b) \o c) \o WaitLastSlave(q, 10)
  BY <1>1, <1>6, <1>11, TagsAre DEF MasterExchange, ForRanks
<1>14. /\ Block(MasterExchange(q), 0, 2)
       /\ \A o : Active(o) => (Has(MasterExchange(q), o) <=> Has((a \o b) \o c, o))
  BY <1>12, <1>13, WaitLastIs
<1>15. \A s \in RadRank : op[s] = Op("send", Rad(s), 10, "iflg")
  BY <1>7
<1> QED  BY <1>3, <1>4, <1>5, <1>10, <1>11, <1>12, <1>14, <1>15

LEMMA SlaveExchangeIs ==
    ASSUME NEW q \in RadRank
    PROVE  /\ Block(SlaveExchange(q), 0, 2)
           /\ \A o : Has(SlaveExchange(q), o) <=> o = Op("recv", Rad(master_lat(q)), 10, "iflg")
<1>1. Rad(master_lat(q)) \in Int /\ "iflg" \in Whats
  BY MasterLat, RadInt, StagesAre, SizeAssumption DEF Others
<1>2. /\ Block(SlaveExchange(q), 1, 1)
      /\ \A o : Has(SlaveExchange(q), o) <=> o = Op("recv", Rad(master_lat(q)), 10, "iflg")
  BY <1>1, RecvIs, StagesAre, TagsAre DEF SlaveExchange
<1> QED  BY <1>2, BlockWider

\* A call that is made only if there is a neighbour.
LEMMA OptionalSend ==
    ASSUME NEW c \in BOOLEAN, NEW p \in Int, NEW t \in Int, NEW w \in Whats, NEW s,
           s = IF c THEN Isend(p, t, w) ELSE <<>>
    PROVE  /\ Block(s, SendStage(w), SendStage(w))
           /\ \A o : Active(o) => (Has(s, o) <=> c /\ o = Op("send", p, t, w))
<1>1. CASE c
  BY <1>1, IsendIs
<1>2. CASE ~c
  <2>1. SendStage(w) \in Int
    BY DEF SendStage
  <2> QED  BY <2>1, <1>2, BlockEmpty
<1> QED  BY <1>1, <1>2

LEMMA RecvWaitIs ==
    ASSUME NEW p \in Int, NEW t \in Int, NEW u \in Int, NEW w \in Whats
    PROVE  /\ Block(Recv(p, t, w) \o Wait(p, u), RecvStage(w), RecvStage(w))
           /\ \A o : Active(o) => (Has(Recv(p, t, w) \o Wait(p, u), o) <=> o = Op("recv", p, t, w))
<1>1. PICK n \in Int : n = RecvStage(w)
  BY DEF RecvStage
<1>2. PICK r : r = Recv(p, t, w)
  OBVIOUS
<1>3. Block(r, n, n) /\ n <= n /\ \A o : Has(r, o) <=> o = Op("recv", p, t, w)
  BY <1>1, <1>2, RecvIs
<1>4. /\ Block(r \o Wait(p, u), n, n)
      /\ \A o : Active(o) => (Has(r \o Wait(p, u), o) <=> Has(r, o))
  BY <1>3, BlockWait
<1> QED  BY <1>1, <1>2, <1>3, <1>4

RecvIf(c, p, t, u, w) == IF c THEN Recv(p, t, w) \o Wait(p, u) ELSE <<>>

LEMMA OptionalRecv ==
    ASSUME NEW c \in BOOLEAN, NEW p \in Int, NEW t \in Int, NEW u \in Int, NEW w \in Whats
    PROVE  /\ Block(RecvIf(c, p, t, u, w), RecvStage(w), RecvStage(w))
           /\ \A o : Active(o) =>
                 (Has(RecvIf(c, p, t, u, w), o) <=> c /\ o = Op("recv", p, t, w))
<1>1. CASE c
  BY <1>1, RecvWaitIs DEF RecvIf
<1>2. CASE ~c
  <2>1. RecvStage(w) \in Int
    BY DEF RecvStage
  <2> QED  BY <2>1, <1>2, BlockEmpty DEF RecvIf
<1> QED  BY <1>1, <1>2

\* What is exchanged with the neighbours in the row: the halos, or the masters' boundary.
HaloOps(q, w, o) ==
    \/ rank1(q) > -1 /\ o = Op("send", Rad(rank1(q)), 20, w)
    \/ rank2(q) > -1 /\ o = Op("send", Rad(rank2(q)), 10, w)
    \/ rank1(q) > -1 /\ o = Op("recv", Rad(rank1(q)), 10, w)
    \/ rank2(q) > -1 /\ o = Op("recv", Rad(rank2(q)), 20, w)

LEMMA NeighboursIs ==
    ASSUME NEW q \in RadRank, NEW w \in Whats, NEW n \in Int, SendStage(w) = n, RecvStage(w) = n,
           NEW h, h = mpi_isend_irecv_x_dble(q, w)
    PROVE  /\ Block(h, n, n)
           /\ \A o : Active(o) => (Has(h, o) <=> HaloOps(q, w, o))
<1>1. PICK x, y : x = Rad(rank1(q)) /\ y = Rad(rank2(q))
  OBVIOUS
<1>2. PICK u \in BOOLEAN, v \in BOOLEAN : (u <=> rank1(q) > -1) /\ (v <=> rank2(q) > -1)
  OBVIOUS
<1>3. x \in Int /\ y \in Int
  BY <1>1, Neighbours, RadInt
<1>4. PICK t1 \in Int, t2 \in Int : t1 = 10 /\ t2 = 20
  OBVIOUS
<1>5. PICK a, b, c, d : /\ a = IF u THEN Isend(x, t2, w) ELSE <<>>
                        /\ b = IF v THEN Isend(y, t1, w) ELSE <<>>
                        /\ c = RecvIf(u, x, t1, t2, w)
                        /\ d = RecvIf(v, y, t2, t1, w)
  OBVIOUS
<1>6. h = ((a \o b) \o c) \o d
  <2>1. h = (IF u THEN Isend(x, 20, w) ELSE <<>>)
            \o (IF v THEN Isend(y, 10, w) ELSE <<>>)
            \o (IF u THEN Recv(x, 10, w) \o Wait(x, 20) ELSE <<>>)
            \o (IF v THEN Recv(y, 20, w) \o Wait(y, 10) ELSE <<>>)
    BY <1>1, <1>2, Zenon DEF mpi_isend_irecv_x_dble
  <2> QED  BY <2>1, <1>4, <1>5 DEF RecvIf
<1>7. Block(a, n, n) /\ \A o : Active(o) => (Has(a, o) <=> u /\ o = Op("send", x, t2, w))
  BY <1>3, <1>5, OptionalSend
<1>8. Block(b, n, n) /\ \A o : Active(o) => (Has(b, o) <=> v /\ o = Op("send", y, t1, w))
  BY <1>3, <1>5, OptionalSend
<1>9. Block(c, n, n) /\ \A o : Active(o) => (Has(c, o) <=> u /\ o = Op("recv", x, t1, w))
  BY <1>3, <1>5, OptionalRecv
<1>10. Block(d, n, n) /\ \A o : Active(o) => (Has(d, o) <=> v /\ o = Op("recv", y, t2, w))
  BY <1>3, <1>5, OptionalRecv
<1>11. /\ Op("send", x, t2, w) # Op("send", y, t1, w) /\ Op("recv", x, t1, w) # Op("recv", y, t2, w)
       /\ \A p, q1, u1, u2 : Op("send", p, u1, w) # Op("recv", q1, u2, w)
  BY <1>4, OpSame
<1>12. n <= n
  OBVIOUS
<1>13. Block(a \o b, n, n) /\ \A o : Has(a \o b, o) <=> Has(a, o) \/ Has(b, o)
  BY <1>7, <1>8, <1>11, <1>12, BlockJoined
<1>14. /\ Block((a \o b) \o c, n, n)
       /\ \A o : Has((a \o b) \o c, o) <=> Has(a \o b, o) \/ Has(c, o)
  <2>1. \A o : Active(o) /\ Has(a \o b, o) => ~Has(c, o)
    BY <1>7, <1>8, <1>9, <1>11, <1>13
  <2> QED  BY <2>1, <1>9, <1>12, <1>13, BlockJoined
<1>15. /\ Block(((a \o b) \o c) \o d, n, n)
       /\ \A o : Has(((a \o b) \o c) \o d, o) <=> Has((a \o b) \o c, o) \/ Has(d, o)
  <2>1. \A o : Active(o) /\ Has((a \o b) \o c, o) => ~Has(d, o)
    BY <1>7, <1>8, <1>9, <1>10, <1>11, <1>13, <1>14
  <2> QED  BY <2>1, <1>10, <1>12, <1>14, BlockJoined
<1>16. \A o : Active(o) => (Has(h, o) <=>
          \/ u /\ o = Op("send", x, t2, w)
          \/ v /\ o = Op("send", y, t1, w)
          \/ u /\ o = Op("recv", x, t1, w)
          \/ v /\ o = Op("recv", y, t2, w))
  BY <1>6, <1>7, <1>8, <1>9, <1>10, <1>13, <1>14, <1>15
<1>17. \A o : HaloOps(q, w, o) <=>
          \/ u /\ o = Op("send", x, t2, w)
          \/ v /\ o = Op("send", y, t1, w)
          \/ u /\ o = Op("recv", x, t1, w)
          \/ v /\ o = Op("recv", y, t2, w)
  BY <1>1, <1>2, <1>4 DEF HaloOps
<1> QED  BY <1>6, <1>15, <1>16, <1>17

LEMMA HaloIs ==
    ASSUME NEW q \in RadRank
    PROVE  /\ Block(Halo(q), 3, 3)
           /\ \A o : Active(o) => (Has(Halo(q), o) <=> HaloOps(q, "halo", o))
<1>1. PICK w \in Whats, n \in Int : w = "halo" /\ n = 3 /\ SendStage(w) = n /\ RecvStage(w) = n
  BY StagesAre DEF Others
<1>2. Halo(q) = mpi_isend_irecv_x_dble(q, w)
  BY <1>1 DEF Halo
<1>3. Block(Halo(q), n, n) /\ \A o : Active(o) => (Has(Halo(q), o) <=> HaloOps(q, w, o))
  BY <1>1, <1>2, NeighboursIs
<1> QED  BY <1>1, <1>3

\* What a master receives from JUPITER, and what it passes on to a slave.
LEMMA ReceivedFieldsAre ==
    ASSUME NEW q \in 0 .. N - 1, NEW s,
           s = FlattenSeq([k \in DOMAIN Fields |-> Recv(q, FieldTag(k), Fields[k])])
    PROVE  /\ Block(s, 1, 1)
           /\ \A o : Active(o) => (Has(s, o) <=>
                \E k \in DOMAIN Fields : o = Op("recv", q, FieldTag(k), Fields[k]))
<1>1. PICK G : G = [k \in DOMAIN Fields |-> Recv(q, FieldTag(k), Fields[k])]
  OBVIOUS
<1>2. s = FlattenSeq(G)
  BY <1>1
<1>3. ASSUME NEW k \in DOMAIN Fields
      PROVE  /\ Block(G[k], 1, 1)
             /\ \A o : Active(o) => (Has(G[k], o) <=> o = Op("recv", q, FieldTag(k), Fields[k]))
  <2>0. q \in Int
    BY SizeAssumption
  <2>1. q \in Int /\ FieldTag(k) \in Int /\ Fields[k] \in FieldSet /\ Fields[k] \in Whats
    BY <2>0, TagsAre, FieldsAre, StagesAre
  <2>2. G[k] = Recv(q, FieldTag(k), Fields[k])
    BY <1>1
  <2> QED  BY <2>1, <2>2, RecvIs, StagesAre
<1>4. \A k \in DOMAIN Fields : \A o : Active(o) /\ Has(G[k], o) => o.what = Fields[k]
  BY <1>3 DEF Op
<1>5. G = [k \in DOMAIN Fields |-> G[k]]
  BY <1>1
<1>6. /\ Block(FlattenSeq(G), 1, 1)
      /\ \A o : Has(FlattenSeq(G), o) <=> \E k \in DOMAIN Fields : Has(G[k], o)
  BY <1>3, <1>4, <1>5, LoopOverFields
<1>7. ASSUME NEW o, Active(o)
      PROVE  Has(s, o) <=> \E k \in DOMAIN Fields : o = Op("recv", q, FieldTag(k), Fields[k])
  BY <1>2, <1>3, <1>6, <1>7
<1> QED  BY <1>2, <1>6, <1>7

LEMMA PassedFieldsAre ==
    ASSUME NEW x \in Int, NEW s,
           s = FlattenSeq([k \in DOMAIN Fields |-> Isend(x, FieldTag(k), Fields[k])])
    PROVE  /\ Block(s, 2, 2)
           /\ \A o : Active(o) => (Has(s, o) <=>
                \E k \in DOMAIN Fields : o = Op("send", x, FieldTag(k), Fields[k]))
<1>1. PICK G : G = [k \in DOMAIN Fields |-> Isend(x, FieldTag(k), Fields[k])]
  OBVIOUS
<1>2. s = FlattenSeq(G)
  BY <1>1
<1>3. ASSUME NEW k \in DOMAIN Fields
      PROVE  /\ Block(G[k], 2, 2)
             /\ \A o : Active(o) => (Has(G[k], o) <=> o = Op("send", x, FieldTag(k), Fields[k]))
  <2>1. FieldTag(k) \in Int /\ Fields[k] \in FieldSet /\ Fields[k] \in Whats
    BY TagsAre, FieldsAre, StagesAre
  <2>2. G[k] = Isend(x, FieldTag(k), Fields[k])
    BY <1>1
  <2> QED  BY <2>1, <2>2, IsendIs, StagesAre
<1>4. \A k \in DOMAIN Fields : \A o : Active(o) /\ Has(G[k], o) => o.what = Fields[k]
  BY <1>3 DEF Op
<1>5. G = [k \in DOMAIN Fields |-> G[k]]
  BY <1>1
<1>6. /\ Block(FlattenSeq(G), 2, 2)
      /\ \A o : Has(FlattenSeq(G), o) <=> \E k \in DOMAIN Fields : Has(G[k], o)
  BY <1>3, <1>4, <1>5, LoopOverFields
<1>7. ASSUME NEW o, Active(o)
      PROVE  Has(s, o) <=> \E k \in DOMAIN Fields : o = Op("send", x, FieldTag(k), Fields[k])
  BY <1>2, <1>3, <1>6, <1>7
<1> QED  BY <1>2, <1>6, <1>7

\* The loop of a master over its slaves, with any calls for each.
LEMMA SlaveLoopOfMany ==
    ASSUME NEW q \in 0 .. N - 1, NEW G, NEW n \in Int, NEW X,
           G = [i \in DOMAIN SlavesOf(q) |-> G[i]],
           \A i \in DOMAIN SlavesOf(q) :
              /\ Block(G[i], n, n)
              /\ \A o : Active(o) => (Has(G[i], o) <=> o \in X[SlavesOf(q)[i]])
              /\ \A o \in X[SlavesOf(q)[i]] : o.peer = Rad(SlavesOf(q)[i])
    PROVE  /\ Block(FlattenSeq(G), n, n)
           /\ \A o : Active(o) => (Has(FlattenSeq(G), o) <=>
                 \E s \in RadRank : ~IsMaster(s) /\ master_lat(s) = q /\ o \in X[s])
<1>1. PICK sl : sl = SlavesOf(q)
  OBVIOUS
<1>0. sl \in Seq(Int) /\ DOMAIN sl = 1 .. L - 1
  BY <1>1, SlavesAre
<1>2. /\ \A i, j \in DOMAIN sl : sl[i] = sl[j] => i = j
      /\ \A i \in DOMAIN sl : sl[i] \in RadRank /\ ~IsMaster(sl[i]) /\ master_lat(sl[i]) = q
      /\ \A s \in RadRank : ~IsMaster(s) /\ master_lat(s) = q => \E i \in DOMAIN sl : sl[i] = s
  <2>1. /\ \A i \in 1 .. L - 1 : sl[i] \in RadRank /\ ~IsMaster(sl[i]) /\ master_lat(sl[i]) = q
        /\ \A i, j \in 1 .. L - 1 : sl[i] = sl[j] => i = j
        /\ \A s \in RadRank : ~IsMaster(s) /\ master_lat(s) = q => \E i \in 1 .. L - 1 : sl[i] = s
    BY <1>1, SlavesAre
  <2> QED  BY <2>1, <1>0
<1>3. /\ Block(FlattenSeq(G), n, n)
      /\ \A o : Has(FlattenSeq(G), o) <=> \E i \in DOMAIN sl : Has(G[i], o)
  <2>1. \A i \in DOMAIN sl : /\ Block(G[i], n, n)
                             /\ \A o : Active(o) /\ Has(G[i], o) => o.peer = Rad(sl[i])
    BY <1>1
  <2>2. G = [i \in DOMAIN sl |-> G[i]]
    BY <1>1
  <2> QED  BY <1>0, <1>2, <2>1, <2>2, LoopOverRanks
<1>4. ASSUME NEW o, Active(o)
      PROVE  (\E i \in DOMAIN sl : Has(G[i], o)) <=>
             (\E s \in RadRank : ~IsMaster(s) /\ master_lat(s) = q /\ o \in X[s])
  BY <1>1, <1>2, <1>4
<1> QED  BY <1>3, <1>4

MasterFieldsOps(q, o) ==
    \/ \E k \in DOMAIN Fields : o = Op("recv", q, FieldTag(k), Fields[k])
    \/ \E s \in RadRank, k \in DOMAIN Fields :
          /\ ~IsMaster(s) /\ master_lat(s) = q
          /\ o = Op("send", Rad(s), FieldTag(k), Fields[k])
    \/ HaloOps(q, "halo", o)

LEMMA MasterFieldsIs ==
    ASSUME NEW q \in 0 .. N - 1
    PROVE  /\ Block(MasterFields(q), 0, 8)
           /\ \A o : Active(o) => (Has(MasterFields(q), o) <=> MasterFieldsOps(q, o))
<1>1. PICK a : a = FlattenSeq([k \in DOMAIN Fields |-> Recv(q, FieldTag(k), Fields[k])])
  OBVIOUS
<1>2. /\ Block(a, 1, 1)
      /\ \A o : Active(o) => (Has(a, o) <=>
           \E k \in DOMAIN Fields : o = Op("recv", q, FieldTag(k), Fields[k]))
  BY <1>1, ReceivedFieldsAre
<1>3. PICK G : G = [i \in DOMAIN SlavesOf(q) |->
                  FlattenSeq([k \in DOMAIN Fields |->
                                Isend(Rad(SlavesOf(q)[i]), FieldTag(k), Fields[k])])]
  OBVIOUS
<1>4. PICK b : b = FlattenSeq(G)
  OBVIOUS
<1>5. /\ Block(b, 2, 2)
      /\ \A o : Active(o) => (Has(b, o) <=>
           \E s \in RadRank, k \in DOMAIN Fields :
                   /\ ~IsMaster(s) /\ master_lat(s) = q
                   /\ o = Op("send", Rad(s), FieldTag(k), Fields[k]))
  <2>1. G = [i \in DOMAIN SlavesOf(q) |-> G[i]]
    BY <1>3
  <2>0. PICK X : X = [z \in RadRank |->
                        {Op("send", Rad(z), FieldTag(k), Fields[k]) : k \in DOMAIN Fields}]
    OBVIOUS
  <2>2. ASSUME NEW i \in DOMAIN SlavesOf(q)
        PROVE  /\ Block(G[i], 2, 2)
               /\ \A o : Active(o) => (Has(G[i], o) <=> o \in X[SlavesOf(q)[i]])
               /\ \A o \in X[SlavesOf(q)[i]] : o.peer = Rad(SlavesOf(q)[i])
    <3>1. PICK z \in RadRank, x \in Int : z = SlavesOf(q)[i] /\ x = Rad(z)
      BY SlavesAre, RadInt
    <3>2. x \in Int
      BY <3>1, RadInt
    <3>3. G[i] = FlattenSeq([k \in DOMAIN Fields |-> Isend(x, FieldTag(k), Fields[k])])
      BY <1>3, <3>1
    <3>4. /\ Block(G[i], 2, 2)
          /\ \A o : Active(o) => (Has(G[i], o) <=>
               \E k \in DOMAIN Fields : o = Op("send", x, FieldTag(k), Fields[k]))
      BY <3>2, <3>3, PassedFieldsAre
    <3>5. X[z] = {Op("send", x, FieldTag(k), Fields[k]) : k \in DOMAIN Fields}
      BY <2>0, <3>1
    <3>6. \A t, w : Op("send", x, t, w).peer = x
      BY DEF Op
    <3>7. \A o : o \in X[z] <=> \E k \in DOMAIN Fields : o = Op("send", x, FieldTag(k), Fields[k])
      BY <3>5
    <3>8. \A o \in X[z] : o.peer = x
      BY <3>6, <3>7
    <3>9. Block(G[i], 2, 2) /\ \A o : Active(o) => (Has(G[i], o) <=> o \in X[z])
      BY <3>4, <3>7
    <3> QED  BY <3>1, <3>8, <3>9
  <2>4. /\ Block(FlattenSeq(G), 2, 2)
        /\ \A o : Active(o) => (Has(FlattenSeq(G), o) <=>
                \E s \in RadRank : ~IsMaster(s) /\ master_lat(s) = q /\ o \in X[s])
    <3>1. PICK n \in Int : n = 2
      OBVIOUS
    <3>2. \A i \in DOMAIN SlavesOf(q) :
            /\ Block(G[i], n, n)
            /\ \A o : Active(o) => (Has(G[i], o) <=> o \in X[SlavesOf(q)[i]])
            /\ \A o \in X[SlavesOf(q)[i]] : o.peer = Rad(SlavesOf(q)[i])
      BY <2>2, <3>1
    <3>3. /\ Block(FlattenSeq(G), n, n)
          /\ \A o : Active(o) => (Has(FlattenSeq(G), o) <=>
                \E s \in RadRank : ~IsMaster(s) /\ master_lat(s) = q /\ o \in X[s])
      BY <2>1, <3>2, SlaveLoopOfMany
    <3> QED  BY <3>1, <3>3
  <2>5. \A s \in RadRank : \A o : o \in X[s] <=>
            \E k \in DOMAIN Fields : o = Op("send", Rad(s), FieldTag(k), Fields[k])
    BY <2>0
  <2>3. /\ Block(FlattenSeq(G), 2, 2)
        /\ \A o : Active(o) => (Has(FlattenSeq(G), o) <=>
                \E s \in RadRank, k \in DOMAIN Fields :
                   /\ ~IsMaster(s) /\ master_lat(s) = q
                   /\ o = Op("send", Rad(s), FieldTag(k), Fields[k]))
    BY <2>4, <2>5
  <2> QED  BY <2>3, <1>4
<1>6. Block(a \o b, 1, 2) /\ \A o : Has(a \o b, o) <=> Has(a, o) \/ Has(b, o)
  BY <1>2, <1>5, BlockAfter
<1>7. PICK c, t : c = (a \o b) \o WaitLastSlave(q, t) /\ t = FieldTag(Len(Fields))
  OBVIOUS
<1>8. t \in Int
  <2>1. Len(Fields) \in DOMAIN Fields
    <3>1. PICK n \in Nat \ {0} : n = Len(Fields) /\ DOMAIN Fields = 1 .. n
      BY FieldsAre
    <3> QED  BY <3>1
  <2> QED  BY <2>1, <1>7, TagsAre
<1>9. Block(c, 1, 2) /\ \A o : Active(o) => (Has(c, o) <=> Has(a \o b, o))
  BY <1>6, <1>7, <1>8, WaitLastIs
<1>10. q \in RadRank
  BY RadInt DEF JupiterProc
<1>11. Block(Halo(q), 3, 3) /\ \A o : Active(o) => (Has(Halo(q), o) <=> HaloOps(q, "halo", o))
  BY <1>10, HaloIs
<1>12. PICK h : h = Halo(q)
  OBVIOUS
<1>13. Block(c \o h, 1, 3) /\ \A o : Has(c \o h, o) <=> Has(c, o) \/ Has(h, o)
  BY <1>9, <1>11, <1>12, BlockAfter
<1>14. MasterFields(q) = c \o h
  BY <1>1, <1>3, <1>4, <1>7, <1>12 DEF MasterFields, ForFields, ForRanks
<1>15. Block(c \o h, 0, 8)
  BY <1>13, BlockWider
<1> QED  BY <1>2, <1>5, <1>6, <1>9, <1>11, <1>12, <1>13, <1>14, <1>15 DEF MasterFieldsOps

LEMMA KindsAre ==
    /\ "send" \in Kinds /\ "recv" \in Kinds /\ "post" \in Kinds /\ "waitlast" \in Kinds
    /\ "judge" \in Kinds /\ "wait" \in Kinds /\ "" \in Whats
BY DEF Kinds, Whats

LEMMA BlockTwo ==
    ASSUME NEW a \in OpSet, NEW b \in OpSet, a # b, NEW m \in Int, NEW n \in Int, m <= n,
           Stage(a) = m, Stage(b) = n
    PROVE  Block(<<a, b>>, m, n) /\ \A o : Has(<<a, b>>, o) <=> o = a \/ o = b
<1>1. PICK s : s = <<a, b>>
  OBVIOUS
<1>2. s \in Seq(OpSet) /\ DOMAIN s = 1 .. 2 /\ s[1] = a /\ s[2] = b
  BY <1>1
<1>3. \A i \in DOMAIN s : i = 1 \/ i = 2
  BY <1>2
<1>4. \A i, j \in DOMAIN s : i < j => i = 1 /\ j = 2
  BY <1>3
<1>5. Block(s, m, n)
  BY <1>2, <1>3, <1>4 DEF Block
<1>6. \A o : Has(s, o) <=> o = a \/ o = b
  BY <1>2, <1>3 DEF Has
<1> QED  BY <1>1, <1>5, <1>6

LEMMA SlaveFieldsIs ==
    ASSUME NEW q \in RadRank
    PROVE  /\ Block(SlaveFields(q), 0, 8)
           /\ \A o : Active(o) => (Has(SlaveFields(q), o) <=>
                \/ o = Op("post", Rad(master_lat(q)), 0, "")
                \/ o = Op("waitlast", Rad(master_lat(q)), 0, "")
                \/ HaloOps(q, "halo", o))
<1>1. PICK x \in Int : x = Rad(master_lat(q))
  BY MasterLat, RadInt, SizeAssumption
<1>2. PICK a, b : a = Op("post", x, 0, "") /\ b = Op("waitlast", x, 0, "")
  OBVIOUS
<1>3. /\ a \in OpSet /\ a.kind = "post" /\ b \in OpSet /\ b.kind = "waitlast"
  <2>0. PICK z \in Int : z = 0
    OBVIOUS
  <2>1. PICK k \in Kinds, l \in Kinds, w \in Whats : k = "post" /\ l = "waitlast" /\ w = ""
    BY KindsAre, Zenon
  <2>2. a = Op(k, x, z, w) /\ b = Op(l, x, z, w)
    BY <2>0, <2>1, <1>2
  <2>3. a \in OpSet /\ a.kind = k /\ b \in OpSet /\ b.kind = l
    BY <2>2, OpIs
  <2> QED  BY <2>1, <2>3
<1>4. Stage(a) = 1 /\ Stage(b) = 2
  BY <1>3 DEF Stage
<1>9. PICK c, h : c = <<a, b>> /\ h = Halo(q)
  OBVIOUS
<1>10. Block(c, 1, 2) /\ \A o : Has(c, o) <=> o = a \/ o = b
  <2>1. PICK m \in Int, n \in Int : m = 1 /\ n = 2
    OBVIOUS
  <2>2. a # b /\ m <= n /\ Stage(a) = m /\ Stage(b) = n
    BY <2>1, <1>3, <1>4
  <2>3. Block(c, m, n) /\ \A o : Has(c, o) <=> o = a \/ o = b
    BY <2>2, <1>3, <1>9, BlockTwo
  <2> QED  BY <2>1, <2>3
<1>11. Block(h, 3, 3) /\ \A o : Active(o) => (Has(h, o) <=> HaloOps(q, "halo", o))
  BY <1>9, HaloIs
<1>12. Block(c \o h, 1, 3) /\ \A o : Has(c \o h, o) <=> Has(c, o) \/ Has(h, o)
  BY <1>10, <1>11, BlockAfter
<1>13. SlaveFields(q) = c \o h
  BY <1>1, <1>2, <1>9 DEF SlaveFields
<1>14. Block(c \o h, 0, 8)
  BY <1>12, BlockWider
<1> QED  BY <1>1, <1>2, <1>10, <1>11, <1>12, <1>13, <1>14

\* A loop over the ranks from 1 to n, with one call for each.
LEMMA CountLoop ==
    ASSUME NEW n \in Nat, NEW G, NEW c \in Int, NEW op,
           G = [i \in 1 .. n |-> G[i]],
           \A i \in 1 .. n :
              /\ Block(G[i], c, c)
              /\ \A o : Active(o) => (Has(G[i], o) <=> o = op[i])
              /\ op[i].peer = Rad(i)
    PROVE  /\ Block(FlattenSeq(G), c, c)
           /\ \A o : Active(o) => (Has(FlattenSeq(G), o) <=> \E i \in 1 .. n : o = op[i])
<1>1. PICK s : s = [i \in 1 .. n |-> i]
  OBVIOUS
<1>2. s \in Seq(Int) /\ DOMAIN s = 1 .. n /\ \A i \in 1 .. n : s[i] = i
  BY <1>1
<1>3. \A i, j \in DOMAIN s : s[i] = s[j] => i = j
  BY <1>2
<1>4. \A i \in DOMAIN s : /\ Block(G[i], c, c)
                          /\ \A o : Active(o) /\ Has(G[i], o) => o.peer = Rad(s[i])
  BY <1>2
<1>5. G = [i \in DOMAIN s |-> G[i]]
  BY <1>2
<1>6. /\ Block(FlattenSeq(G), c, c)
      /\ \A o : Has(FlattenSeq(G), o) <=> \E i \in DOMAIN s : Has(G[i], o)
  BY <1>2, <1>3, <1>4, <1>5, LoopOverRanks, Zenon
<1>7. PICK b : b = FlattenSeq(G)
  OBVIOUS
<1>8. Block(b, c, c) /\ \A o : Has(b, o) <=> \E i \in 1 .. n : Has(G[i], o)
  BY <1>2, <1>6, <1>7
<1>9. \A o : Active(o) => (Has(b, o) <=> \E i \in 1 .. n : o = op[i])
  BY <1>8
<1> QED  BY <1>7, <1>8, <1>9

ErrorsOps(q, o) ==
    \/ q # 0 /\ o = Op("send", Rad(0), 10, "error")
    \/ q = 0 /\ \E m \in 1 .. N - 1 : o = Op("recv", Rad(m), 10, "error")

LEMMA ErrorsIs ==
    ASSUME NEW q \in 0 .. N - 1
    PROVE  /\ Block(Errors(q), 6, 6)
           /\ \A o : Active(o) => (Has(Errors(q), o) <=> ErrorsOps(q, o))
<1>1. Rad(0) \in Int /\ "error" \in Whats
  BY RadInt, StagesAre DEF Others
<1>2. CASE q # 0
  <2>1. Errors(q) = Send(Rad(0), 10, "error")
    BY <1>2, TagsAre DEF Errors
  <2> QED  BY <2>1, <1>1, <1>2, SendIs, StagesAre DEF ErrorsOps
<1>3. CASE q = 0
  <2>1. PICK n \in Nat : n = N - 1
    BY SizeAssumption
  <2>2. PICK G, op : /\ G = [i \in 1 .. n |-> Recv(Rad(i), 10, "error")]
                     /\ op = [i \in 1 .. n |-> Op("recv", Rad(i), 10, "error")]
    OBVIOUS
  <2>3. Errors(q) = FlattenSeq(G)
    <3>1. \A i \in 1 .. n : [m \in 1 .. N - 1 |-> m][i] = i
      BY <2>1
    <3> QED  BY <3>1, <2>1, <2>2, <1>3, TagsAre DEF Errors, ForRanks
  <2>4. ASSUME NEW i \in 1 .. n
        PROVE  /\ Block(G[i], 6, 6)
               /\ \A o : Active(o) => (Has(G[i], o) <=> o = op[i])
               /\ op[i].peer = Rad(i)
    <3>1. Rad(i) \in Int /\ G[i] = Recv(Rad(i), 10, "error") /\ op[i] = Op("recv", Rad(i), 10, "error")
      BY <2>2, RadInt
    <3>2. op[i].peer = Rad(i)
      BY <3>1 DEF Op
    <3> QED  BY <3>1, <3>2, <1>1, RecvIs, StagesAre
  <2>5. G = [i \in 1 .. n |-> G[i]]
    BY <2>2
  <2>6. /\ Block(FlattenSeq(G), 6, 6)
        /\ \A o : Active(o) => (Has(FlattenSeq(G), o) <=> \E i \in 1 .. n : o = op[i])
    BY <2>4, <2>5, CountLoop
  <2>7. \A o : (\E i \in 1 .. n : o = op[i]) <=> \E m \in 1 .. N - 1 : o = Op("recv", Rad(m), 10, "error")
    BY <2>1, <2>2
  <2> QED  BY <2>3, <2>6, <2>7, <1>3 DEF ErrorsOps
<1> QED  BY <1>2, <1>3

VerdictOps(q, o) ==
    \/ q # 0 /\ o = Op("recv", Rad(0), 10, "iexit")
    \/ q = 0 /\ o = Op("judge", 0, 0, "")
    \/ q = 0 /\ \E n \in 1 .. N * L - 1 : o = Op("send", Rad(n), 10, "iexit")

LEMMA VerdictIs ==
    ASSUME NEW q \in RadRank
    PROVE  /\ Block(Verdict(q), 7, 8)
           /\ \A o : Active(o) => (Has(Verdict(q), o) <=> VerdictOps(q, o))
<1>1. Rad(0) \in Int /\ "iexit" \in Whats
  BY RadInt, StagesAre DEF Others
<1>2. CASE q # 0
  <2>1. Verdict(q) = Recv(Rad(0), 10, "iexit")
    BY <1>2, TagsAre DEF Verdict
  <2>2. Block(Verdict(q), 8, 8) /\ \A o : Has(Verdict(q), o) <=> o = Op("recv", Rad(0), 10, "iexit")
    BY <2>1, <1>1, RecvIs, StagesAre
  <2>3. Block(Verdict(q), 7, 8)
    BY <2>2, BlockWider
  <2> QED  BY <2>2, <2>3, <1>2 DEF VerdictOps
<1>3. CASE q = 0
  <2>1. PICK n \in Nat : n = N * L - 1
    <3>1. PICK m \in Int : m = N * L
      BY SizeAssumption
    <3>2. 0 \in 0 .. m - 1
      BY <3>1, <1>3 DEF RadRank
    <3> QED  BY <3>1, <3>2
  <2>2. PICK G, op : /\ G = [i \in 1 .. n |-> Send(Rad(i), 10, "iexit")]
                     /\ op = [i \in 1 .. n |-> Op("send", Rad(i), 10, "iexit")]
    OBVIOUS
  <2>3. PICK j, b : j = Op("judge", 0, 0, "") /\ b = FlattenSeq(G)
    OBVIOUS
  <2>4. Verdict(q) = <<j>> \o b
    <3>1. \A i \in 1 .. n : [m \in 1 .. N * L - 1 |-> m][i] = i
      BY <2>1
    <3> QED  BY <3>1, <2>1, <2>2, <2>3, <1>3, TagsAre DEF Verdict, ForRanks
  <2>5. ASSUME NEW i \in 1 .. n
        PROVE  /\ Block(G[i], 8, 8)
               /\ \A o : Active(o) => (Has(G[i], o) <=> o = op[i])
               /\ op[i].peer = Rad(i)
    <3>1. Rad(i) \in Int /\ G[i] = Send(Rad(i), 10, "iexit") /\ op[i] = Op("send", Rad(i), 10, "iexit")
      BY <2>2, RadInt
    <3>2. op[i].peer = Rad(i)
      BY <3>1 DEF Op
    <3> QED  BY <3>1, <3>2, <1>1, SendIs, StagesAre
  <2>6. G = [i \in 1 .. n |-> G[i]]
    BY <2>2
  <2>7. /\ Block(b, 8, 8)
        /\ \A o : Active(o) => (Has(b, o) <=> \E i \in 1 .. n : o = op[i])
    <3>1. PICK c \in Int : c = 8
      OBVIOUS
    <3>2. \A i \in 1 .. n :
               /\ Block(G[i], c, c)
               /\ \A o : Active(o) => (Has(G[i], o) <=> o = op[i])
               /\ op[i].peer = Rad(i)
      BY <2>5, <3>1
    <3>3. /\ Block(FlattenSeq(G), c, c)
          /\ \A o : Active(o) => (Has(FlattenSeq(G), o) <=> \E i \in 1 .. n : o = op[i])
      <4>1. \A i \in 1 .. n : Block(G[i], c, c)
        BY <3>2
      <4>2. \A i \in 1 .. n : \A o : Active(o) => (Has(G[i], o) <=> o = op[i])
        BY <3>2
      <4>3. \A i \in 1 .. n : op[i].peer = Rad(i)
        BY <3>2
      <4> QED  BY <4>1, <4>2, <4>3, <2>6, CountLoop
    <3> QED  BY <3>1, <3>3, <2>3
  <2>8. \A o : (\E i \in 1 .. n : o = op[i]) <=> \E m \in 1 .. N * L - 1 : o = Op("send", Rad(m), 10, "iexit")
    BY <2>1, <2>2
  <2>9. j \in OpSet /\ Stage(j) = 7
    <3>1. j \in OpSet /\ j.kind = "judge"
      <4>0. PICK z \in Int : z = 0
        OBVIOUS
      <4>1. PICK k \in Kinds, w \in Whats : k = "judge" /\ w = ""
        BY KindsAre, Zenon
      <4>2. j = Op(k, z, z, w)
        BY <4>0, <4>1, <2>3
      <4>3. j \in OpSet /\ j.kind = k
        BY <4>2, OpIs
      <4> QED  BY <4>1, <4>3
    <3> QED  BY <3>1 DEF Stage
  <2>10. Block(<<j>>, 7, 7) /\ \A o : Has(<<j>>, o) <=> o = j
    BY <2>9, BlockOne
  <2>11. Block(<<j>> \o b, 7, 8) /\ \A o : Has(<<j>> \o b, o) <=> Has(<<j>>, o) \/ Has(b, o)
    BY <2>7, <2>10, BlockAfter
  <2> QED  BY <2>3, <2>4, <2>7, <2>8, <2>10, <2>11, <1>3 DEF VerdictOps
<1> QED  BY <1>2, <1>3

\* A loop of a master over its slaves, from each of which it receives a sum.
LEMMA SumsAre ==
    ASSUME NEW q \in 0 .. N - 1, NEW w \in Whats, NEW n \in Int, n = RecvStage(w), NEW b,
           b = FlattenSeq([i \in DOMAIN SlavesOf(q) |-> Recv(Rad(SlavesOf(q)[i]), 10, w)])
    PROVE  /\ Block(b, n, n)
           /\ \A o : Active(o) => (Has(b, o) <=>
                \E s \in RadRank : /\ ~IsMaster(s) /\ master_lat(s) = q
                                   /\ o = Op("recv", Rad(s), 10, w))
<1>1. PICK G : G = [i \in DOMAIN SlavesOf(q) |-> Recv(Rad(SlavesOf(q)[i]), 10, w)]
  OBVIOUS
<1>2. PICK op : op = [s \in RadRank |-> Op("recv", Rad(s), 10, w)]
  OBVIOUS
<1>3. ASSUME NEW i \in DOMAIN SlavesOf(q)
      PROVE  /\ Block(G[i], n, n)
             /\ \A o : Active(o) => (Has(G[i], o) <=> o = op[SlavesOf(q)[i]])
             /\ op[SlavesOf(q)[i]].peer = Rad(SlavesOf(q)[i])
  <2>0. PICK s \in RadRank : s = SlavesOf(q)[i]
    BY SlavesAre
  <2>1. PICK x \in Int, t \in Int : s = SlavesOf(q)[i] /\ x = Rad(s) /\ t = 10
    BY <2>0, RadInt
  <2>2. G[i] = Recv(x, t, w) /\ op[s] = Op("recv", x, t, w)
    BY <2>1, <1>1, <1>2
  <2>3. op[s].peer = x
    BY <2>2 DEF Op
  <2>4. Block(G[i], n, n) /\ \A o : Has(G[i], o) <=> o = op[s]
    BY <2>2, RecvIs
  <2> QED  BY <2>1, <2>3, <2>4
<1>4. G = [i \in DOMAIN SlavesOf(q) |-> G[i]]
  BY <1>1
<1>5. /\ Block(FlattenSeq(G), n, n)
      /\ \A o : Active(o) => (Has(FlattenSeq(G), o) <=>
            \E s \in RadRank : ~IsMaster(s) /\ master_lat(s) = q /\ o = op[s])
  BY <1>3, <1>4, SlaveLoop
<1>6. \A s \in RadRank : op[s] = Op("recv", Rad(s), 10, w)
  BY <1>2
<1>7. b = FlattenSeq(G)
  BY <1>1
<1> QED  BY <1>5, <1>6, <1>7

\* The temperature and the energy go to every slave.
LEMMA TemperaturesAre ==
    ASSUME NEW q \in 0 .. N - 1
    PROVE  \E b : /\ b = FlattenSeq([i \in DOMAIN SlavesOf(q) |->
                                         Send(Rad(SlavesOf(q)[i]), 10, "tmp")
                                         \o Send(Rad(SlavesOf(q)[i]), 20, "E")])
                  /\ Block(b, 2, 2)
                  /\ \A o : Active(o) => (Has(b, o) <=>
                       \E s \in RadRank : /\ ~IsMaster(s) /\ master_lat(s) = q
                                          /\ \/ o = Op("send", Rad(s), 10, "tmp")
                                             \/ o = Op("send", Rad(s), 20, "E"))
<1>0. PICK G : G = [i \in DOMAIN SlavesOf(q) |-> Send(Rad(SlavesOf(q)[i]), 10, "tmp")
                                                \o Send(Rad(SlavesOf(q)[i]), 20, "E")]
  OBVIOUS
<1>1. PICK X : X = [s \in RadRank |-> {Op("send", Rad(s), 10, "tmp"), Op("send", Rad(s), 20, "E")}]
  OBVIOUS
<1>2. PICK n \in Int : n = 2
  OBVIOUS
<1>3. ASSUME NEW i \in DOMAIN SlavesOf(q)
      PROVE  /\ Block(G[i], n, n)
             /\ \A o : Active(o) => (Has(G[i], o) <=> o \in X[SlavesOf(q)[i]])
             /\ \A o \in X[SlavesOf(q)[i]] : o.peer = Rad(SlavesOf(q)[i])
  <2>0. PICK s \in RadRank : s = SlavesOf(q)[i]
    BY SlavesAre
  <2>1. PICK x \in Int, t \in Int, u \in Int :
           s = SlavesOf(q)[i] /\ x = Rad(s) /\ t = 10 /\ u = 20
    BY <2>0, RadInt
  <2>2. PICK w \in Whats, v \in Whats : w = "tmp" /\ v = "E" /\ SendStage(w) = n /\ SendStage(v) = n
    <3>1. "tmp" \in FieldSet /\ "E" \in Others
      BY FieldsAre DEF Others
    <3> QED  BY <3>1, <1>2, StagesAre
  <2>3. PICK a, c : a = Send(x, t, w) /\ c = Send(x, u, v)
    OBVIOUS
  <2>4. Block(a, n, n) /\ \A o : Active(o) => (Has(a, o) <=> o = Op("send", x, t, w))
    BY <2>2, <2>3, SendIs
  <2>5. Block(c, n, n) /\ \A o : Active(o) => (Has(c, o) <=> o = Op("send", x, u, v))
    BY <2>2, <2>3, SendIs
  <2>6. Op("send", x, t, w) # Op("send", x, u, v)
    BY <2>2, OpSame
  <2>7. Block(a \o c, n, n) /\ \A o : Has(a \o c, o) <=> Has(a, o) \/ Has(c, o)
    <3>1. \A o : Active(o) /\ Has(a, o) => ~Has(c, o)
      BY <2>4, <2>5, <2>6
    <3>2. n <= n
      OBVIOUS
    <3> QED  BY <3>1, <3>2, <2>4, <2>5, BlockJoined
  <2>8. G[i] = a \o c
    BY <2>1, <2>2, <2>3, <1>0
  <2>9. X[s] = {Op("send", x, t, w), Op("send", x, u, v)}
    BY <2>1, <2>2, <1>1
  <2>10. Op("send", x, t, w).peer = x /\ Op("send", x, u, v).peer = x
    BY DEF Op
  <2>11. \A o \in X[s] : o.peer = x
    BY <2>9, <2>10
  <2>12. \A o : Active(o) => (Has(G[i], o) <=> o \in X[s])
    BY <2>4, <2>5, <2>7, <2>8, <2>9
  <2> QED  BY <2>1, <2>7, <2>8, <2>11, <2>12
<1>4. G = [i \in DOMAIN SlavesOf(q) |-> G[i]]
  BY <1>0
<1>5. /\ Block(FlattenSeq(G), n, n)
      /\ \A o : Active(o) => (Has(FlattenSeq(G), o) <=>
            \E s \in RadRank : ~IsMaster(s) /\ master_lat(s) = q /\ o \in X[s])
  <2>1. \A i \in DOMAIN SlavesOf(q) :
          /\ Block(G[i], n, n)
          /\ \A o : Active(o) => (Has(G[i], o) <=> o \in X[SlavesOf(q)[i]])
          /\ \A o \in X[SlavesOf(q)[i]] : o.peer = Rad(SlavesOf(q)[i])
    BY <1>3
  <2> QED  BY <2>1, <1>4, SlaveLoopOfMany
<1>6. \A s \in RadRank : \A o : o \in X[s] <=> \/ o = Op("send", Rad(s), 10, "tmp")
                                               \/ o = Op("send", Rad(s), 20, "E")
  BY <1>1
<1>7. PICK b : b = FlattenSeq(G)
  OBVIOUS
<1>8. b = FlattenSeq([i \in DOMAIN SlavesOf(q) |-> Send(Rad(SlavesOf(q)[i]), 10, "tmp")
                                                \o Send(Rad(SlavesOf(q)[i]), 20, "E")])
  BY <1>0, <1>7
<1>9. /\ Block(b, 2, 2)
      /\ \A o : Active(o) => (Has(b, o) <=>
           \E s \in RadRank : /\ ~IsMaster(s) /\ master_lat(s) = q
                              /\ \/ o = Op("send", Rad(s), 10, "tmp")
                                 \/ o = Op("send", Rad(s), 20, "E"))
  BY <1>2, <1>5, <1>6, <1>7
<1> QED  BY <1>8, <1>9

MasterPicardOps(q, o) ==
    \/ \E s \in RadRank : /\ ~IsMaster(s) /\ master_lat(s) = q
                          /\ \/ o = Op("send", Rad(s), 10, "tmp")
                             \/ o = Op("send", Rad(s), 20, "E")
    \/ HaloOps(q, "halo", o)
    \/ \E s \in RadRank : /\ ~IsMaster(s) /\ master_lat(s) = q
                          /\ o = Op("recv", Rad(s), 10, "dE")
    \/ \E s \in RadRank : /\ ~IsMaster(s) /\ master_lat(s) = q
                          /\ o = Op("recv", Rad(s), 10, "ads")
    \/ HaloOps(q, "boundary", o)
    \/ ErrorsOps(q, o)
    \/ VerdictOps(q, o)

LEMMA MasterPicardIs ==
    ASSUME NEW q \in 0 .. N - 1
    PROVE  /\ Block(MasterPicard(q), 0, 8)
           /\ \A o : Active(o) => (Has(MasterPicard(q), o) <=> MasterPicardOps(q, o))
<1>0. q \in RadRank
  BY RadInt DEF JupiterProc
<1>1. PICK a : a = FlattenSeq([i \in DOMAIN SlavesOf(q) |-> Send(Rad(SlavesOf(q)[i]), 10, "tmp")
                                                            \o Send(Rad(SlavesOf(q)[i]), 20, "E")])
  OBVIOUS
<1>2. PICK b, c : /\ b = FlattenSeq([i \in DOMAIN SlavesOf(q) |-> Recv(Rad(SlavesOf(q)[i]), 10, "dE")])
                  /\ c = FlattenSeq([i \in DOMAIN SlavesOf(q) |-> Recv(Rad(SlavesOf(q)[i]), 10, "ads")])
  OBVIOUS
<1>3. PICK h, d, e, v : /\ h = Halo(q) /\ d = Set_Boundary_tmp_cell(q)
                        /\ e = Errors(q) /\ v = Verdict(q)
  OBVIOUS
<1>4. MasterPicard(q) = (((((a \o h) \o b) \o c) \o d) \o e) \o v
  BY <1>1, <1>2, <1>3, TagsAre DEF MasterPicard, ForRanks
<1>5. /\ Block(a, 2, 2)
      /\ \A o : Active(o) => (Has(a, o) <=>
                \E s \in RadRank : /\ ~IsMaster(s) /\ master_lat(s) = q
                                   /\ \/ o = Op("send", Rad(s), 10, "tmp")
                                      \/ o = Op("send", Rad(s), 20, "E"))
  BY <1>1, TemperaturesAre
<1>6. Block(h, 3, 3) /\ \A o : Active(o) => (Has(h, o) <=> HaloOps(q, "halo", o))
  BY <1>0, <1>3, HaloIs
<1>7. /\ Block(b, 4, 4)
      /\ \A o : Active(o) => (Has(b, o) <=>
                \E s \in RadRank : /\ ~IsMaster(s) /\ master_lat(s) = q
                                   /\ o = Op("recv", Rad(s), 10, "dE"))
  <2>1. PICK w \in Whats, n \in Int : w = "dE" /\ n = 4 /\ n = RecvStage(w)
    BY StagesAre DEF Others
  <2>2. b = FlattenSeq([i \in DOMAIN SlavesOf(q) |-> Recv(Rad(SlavesOf(q)[i]), 10, w)])
    BY <2>1, <1>2
  <2>3. /\ Block(b, n, n)
        /\ \A o : Active(o) => (Has(b, o) <=>
                \E s \in RadRank : /\ ~IsMaster(s) /\ master_lat(s) = q
                                   /\ o = Op("recv", Rad(s), 10, w))
    BY <2>1, <2>2, SumsAre
  <2> QED  BY <2>1, <2>3
<1>8. /\ Block(c, 5, 5)
      /\ \A o : Active(o) => (Has(c, o) <=>
                \E s \in RadRank : /\ ~IsMaster(s) /\ master_lat(s) = q
                                   /\ o = Op("recv", Rad(s), 10, "ads"))
  <2>1. PICK w \in Whats, n \in Int : w = "ads" /\ n = 5 /\ n = RecvStage(w)
    BY StagesAre DEF Others
  <2>2. c = FlattenSeq([i \in DOMAIN SlavesOf(q) |-> Recv(Rad(SlavesOf(q)[i]), 10, w)])
    BY <2>1, <1>2
  <2>3. /\ Block(c, n, n)
        /\ \A o : Active(o) => (Has(c, o) <=>
                \E s \in RadRank : /\ ~IsMaster(s) /\ master_lat(s) = q
                                   /\ o = Op("recv", Rad(s), 10, w))
    BY <2>1, <2>2, SumsAre
  <2> QED  BY <2>1, <2>3
<1>9. Block(e, 6, 6) /\ \A o : Active(o) => (Has(e, o) <=> ErrorsOps(q, o))
  BY <1>3, ErrorsIs
<1>10. Block(v, 7, 8) /\ \A o : Active(o) => (Has(v, o) <=> VerdictOps(q, o))
  BY <1>0, <1>3, VerdictIs
<1>11. PICK f : f = a \o h
  OBVIOUS
<1>12. Block(f, 2, 3) /\ \A o : Has(f, o) <=> Has(a, o) \/ Has(h, o)
  BY <1>5, <1>6, <1>11, BlockAfter
<1>13. PICK g : g = f \o b
  OBVIOUS
<1>14. Block(g, 2, 4) /\ \A o : Has(g, o) <=> Has(f, o) \/ Has(b, o)
  BY <1>7, <1>12, <1>13, BlockAfter
<1>15. PICK j : j = g \o c
  OBVIOUS
<1>16. Block(j, 2, 5) /\ \A o : Has(j, o) <=> Has(g, o) \/ Has(c, o)
  BY <1>8, <1>14, <1>15, BlockAfter
<1>17. Block(d, 5, 5) /\ \A o : Active(o) => (Has(d, o) <=> HaloOps(q, "boundary", o))
  <2>1. PICK w \in Whats, n \in Int :
           w = "boundary" /\ n = 5 /\ SendStage(w) = n /\ RecvStage(w) = n
    BY StagesAre DEF Others
  <2>2. d = mpi_isend_irecv_x_dble(q, w)
    BY <2>1, <1>3 DEF Set_Boundary_tmp_cell
  <2>3. Block(d, n, n) /\ \A o : Active(o) => (Has(d, o) <=> HaloOps(q, w, o))
    BY <2>1, <2>2, <1>0, NeighboursIs
  <2> QED  BY <2>1, <2>3
<1>18. PICK m : m = j \o d
  OBVIOUS
<1>19. Block(m, 2, 5) /\ \A o : Has(m, o) <=> Has(j, o) \/ Has(d, o)
  <2>1. ASSUME NEW o, Active(o), Has(d, o) PROVE o.what = "boundary"
    BY <2>1, <1>17 DEF HaloOps, Op
  <2>2. ASSUME NEW o, Active(o), Has(j, o) PROVE o.what # "boundary"
    <3>1. Has(a, o) \/ Has(c, o) \/ Has(b, o) => o.what # "boundary"
      BY <2>2, <1>5, <1>7, <1>8 DEF Op
    <3>2. Has(h, o) => o.what # "boundary"
      BY <2>2, <1>6 DEF HaloOps, Op
    <3>3. Has(h, o) \/ Has(a, o) \/ Has(c, o) \/ Has(b, o)
      BY <2>2, <1>12, <1>14, <1>16
    <3> QED  BY <3>1, <3>2, <3>3
  <2>3. \A o : Active(o) /\ Has(j, o) => ~Has(d, o)
    BY <2>1, <2>2
  <2>4. PICK y \in Int : y = 5 /\ 2 <= y /\ y <= y
    OBVIOUS
  <2> QED  BY <2>3, <2>4, <1>16, <1>17, <1>18, BlockJoined
<1>20. PICK k : k = m \o e
  OBVIOUS
<1>21. Block(k, 2, 6) /\ \A o : Has(k, o) <=> Has(m, o) \/ Has(e, o)
  BY <1>9, <1>19, <1>20, BlockAfter
<1>22. PICK l : l = k \o v
  OBVIOUS
<1>23. Block(l, 2, 8) /\ \A o : Has(l, o) <=> Has(k, o) \/ Has(v, o)
  BY <1>10, <1>21, <1>22, BlockAfter
<1>24. Block(l, 0, 8)
  BY <1>23, BlockWider
<1>25. MasterPicard(q) = l
  BY <1>4, <1>11, <1>13, <1>15, <1>18, <1>20, <1>22
<1>26. \A o : Active(o) => (Has(l, o) <=> MasterPicardOps(q, o))
  <2>1. \A o : Has(l, o) <=> \/ Has(a, o) \/ Has(h, o) \/ Has(b, o) \/ Has(c, o)
                             \/ Has(d, o) \/ Has(e, o) \/ Has(v, o)
    BY <1>12, <1>14, <1>16, <1>19, <1>21, <1>23
  <2> QED  BY <2>1, <1>5, <1>6, <1>7, <1>8, <1>9, <1>10, <1>17 DEF MasterPicardOps
<1> QED  BY <1>24, <1>25, <1>26

SlavePicardOps(q, o) ==
    \/ o = Op("recv", Rad(master_lat(q)), 10, "tmp")
    \/ o = Op("recv", Rad(master_lat(q)), 20, "E")
    \/ HaloOps(q, "halo", o)
    \/ o = Op("send", Rad(master_lat(q)), 10, "dE")
    \/ o = Op("send", Rad(master_lat(q)), 10, "ads")
    \/ VerdictOps(q, o)

LEMMA SlavePicardIs ==
    ASSUME NEW q \in RadRank
    PROVE  /\ Block(SlavePicard(q), 0, 8)
           /\ \A o : Active(o) => (Has(SlavePicard(q), o) <=> SlavePicardOps(q, o))
<1>1. PICK x \in Int : x = Rad(master_lat(q))
  BY MasterLat, RadInt, SizeAssumption
<1>2. PICK a, b, h, c, d, v :
         /\ a = Recv(x, 10, "tmp") /\ b = Recv(x, 20, "E") /\ h = Halo(q)
         /\ c = Send(x, 10, "dE") /\ d = Send(x, 10, "ads") /\ v = Verdict(q)
  OBVIOUS
<1>3. SlavePicard(q) = ((((a \o b) \o h) \o c) \o d) \o v
  BY <1>1, <1>2, TagsAre DEF SlavePicard
<1>4. "tmp" \in Whats /\ "E" \in Whats /\ "dE" \in Whats /\ "ads" \in Whats
      /\ RecvStage("tmp") = 1 /\ RecvStage("E") = 1 /\ SendStage("dE") = 4 /\ SendStage("ads") = 5
  BY StagesAre, FieldsAre DEF Others
<1>5. Block(a, 1, 1) /\ \A o : Has(a, o) <=> o = Op("recv", x, 10, "tmp")
  BY <1>2, <1>4, RecvIs
<1>6. Block(b, 1, 1) /\ \A o : Has(b, o) <=> o = Op("recv", x, 20, "E")
  BY <1>2, <1>4, RecvIs
<1>7. Block(h, 3, 3) /\ \A o : Active(o) => (Has(h, o) <=> HaloOps(q, "halo", o))
  BY <1>2, HaloIs
<1>8. Block(c, 4, 4) /\ \A o : Active(o) => (Has(c, o) <=> o = Op("send", x, 10, "dE"))
  BY <1>2, <1>4, SendIs
<1>9. Block(d, 5, 5) /\ \A o : Active(o) => (Has(d, o) <=> o = Op("send", x, 10, "ads"))
  BY <1>2, <1>4, SendIs
<1>10. Block(v, 7, 8) /\ \A o : Active(o) => (Has(v, o) <=> VerdictOps(q, o))
  BY <1>2, VerdictIs
<1>11. PICK f : f = a \o b
  OBVIOUS
<1>12. Block(f, 1, 1) /\ \A o : Has(f, o) <=> Has(a, o) \/ Has(b, o)
  <2>1. Op("recv", x, 10, "tmp") # Op("recv", x, 20, "E")
    BY OpSame
  <2>2. \A o : Active(o) /\ Has(a, o) => ~Has(b, o)
    BY <2>1, <1>5, <1>6
  <2>3. PICK n \in Int : n = 1 /\ n <= n
    OBVIOUS
  <2>4. Block(a, n, n) /\ Block(b, n, n)
    BY <2>3, <1>5, <1>6
  <2>5. Block(a \o b, n, n) /\ \A o : Has(a \o b, o) <=> Has(a, o) \/ Has(b, o)
    BY <2>2, <2>3, <2>4, BlockJoined
  <2> QED  BY <2>3, <2>5, <1>11
<1>13. PICK g : g = f \o h
  OBVIOUS
<1>14. Block(g, 1, 3) /\ \A o : Has(g, o) <=> Has(f, o) \/ Has(h, o)
  BY <1>7, <1>12, <1>13, BlockAfter
<1>15. PICK j : j = g \o c
  OBVIOUS
<1>16. Block(j, 1, 4) /\ \A o : Has(j, o) <=> Has(g, o) \/ Has(c, o)
  BY <1>8, <1>14, <1>15, BlockAfter
<1>17. PICK k : k = j \o d
  OBVIOUS
<1>18. Block(k, 1, 5) /\ \A o : Has(k, o) <=> Has(j, o) \/ Has(d, o)
  BY <1>9, <1>16, <1>17, BlockAfter
<1>19. PICK l : l = k \o v
  OBVIOUS
<1>20. Block(l, 1, 8) /\ \A o : Has(l, o) <=> Has(k, o) \/ Has(v, o)
  BY <1>10, <1>18, <1>19, BlockAfter
<1>21. Block(l, 0, 8)
  BY <1>20, BlockWider
<1>22. SlavePicard(q) = l
  BY <1>3, <1>11, <1>13, <1>15, <1>17, <1>19
<1>23. \A o : Active(o) => (Has(l, o) <=> SlavePicardOps(q, o))
  BY <1>1, <1>5, <1>6, <1>7, <1>8, <1>9, <1>10, <1>12, <1>14, <1>16, <1>18, <1>20 DEF SlavePicardOps
<1> QED  BY <1>21, <1>22, <1>23

-------------------------------------------------------------------------------
\* Who sends what to whom, and in which segment.
MasterSlave(s, d) == \E x \in RadRank : ~IsMaster(x) /\ s = Rad(master_lat(x)) /\ d = Rad(x)

Halos(s, d, t) ==
    \E q \in RadRank : /\ s = Rad(q)
                       /\ \/ rank1(q) > -1 /\ t = 20 /\ d = Rad(rank1(q))
                          \/ rank2(q) > -1 /\ t = 10 /\ d = Rad(rank2(q))

Exchanged(s, d, t, w) ==
    \/ w = "heat" /\ t = 10 /\ d \in JupiterProc /\ s = Rad(d)
    \/ w = "iflg" /\ t = 20 /\ s \in JupiterProc /\ d = Rad(s)
    \/ w = "iflg" /\ t = 10 /\ MasterSlave(s, d)

AField(t, w) == \E k \in DOMAIN Fields : t = FieldTag(k) /\ w = Fields[k]

Passed(s, d, t, w) ==
    \/ AField(t, w) /\ s \in JupiterProc /\ d = Rad(s)
    \/ AField(t, w) /\ MasterSlave(s, d)
    \/ w = "halo" /\ Halos(s, d, t)

Iterated(s, d, t, w) ==
    \/ w = "tmp" /\ t = 10 /\ MasterSlave(s, d)
    \/ w = "E" /\ t = 20 /\ MasterSlave(s, d)
    \/ w = "halo" /\ Halos(s, d, t)
    \/ w = "dE" /\ t = 10 /\ MasterSlave(d, s)
    \/ w = "ads" /\ t = 10 /\ MasterSlave(d, s)
    \/ w = "boundary" /\ Halos(s, d, t) /\ (\E m \in 0 .. N - 1 : s = Rad(m))
    \/ w = "error" /\ t = 10 /\ s # Rad(0) /\ (\E m \in 0 .. N - 1 : s = Rad(m)) /\ d = Rad(0)
    \/ w = "iexit" /\ t = 10 /\ s = Rad(0) /\ d # Rad(0) /\ (\E n \in RadRank : d = Rad(n))

Sends(s, g, d, t, w) ==
    \/ g = "exchange" /\ Exchanged(s, d, t, w)
    \/ g = "fields" /\ Passed(s, d, t, w)
    \/ g = "picard" /\ Iterated(s, d, t, w)

\* The receives that a slave posts together.
Posts(g, s, d, t, w) == g = "fields" /\ AField(t, w) /\ MasterSlave(s, d)

LEMMA RadSame ==
    ASSUME NEW q \in RadRank, NEW x \in RadRank
    PROVE  Rad(q) = Rad(x) <=> q = x
BY SizeAssumption DEF Rad, RadRank

LEMMA MasterSlaveIs ==
    ASSUME NEW q \in RadRank
    PROVE  /\ IsMaster(q) => /\ \A d : MasterSlave(Rad(q), d) <=>
                                  \E x \in RadRank : ~IsMaster(x) /\ master_lat(x) = q /\ d = Rad(x)
                             /\ \A s : ~MasterSlave(s, Rad(q))
           /\ ~IsMaster(q) => /\ \A s : MasterSlave(s, Rad(q)) <=> s = Rad(master_lat(q))
                              /\ \A d : ~MasterSlave(Rad(q), d)
<1>1. \A x \in RadRank : master_lat(x) \in RadRank /\ IsMaster(master_lat(x))
  <2>1. ASSUME NEW x \in RadRank PROVE master_lat(x) \in RadRank /\ IsMaster(master_lat(x))
    <3>1. master_lat(x) \in JupiterProc
      BY MasterLat DEF JupiterProc
    <3> QED  BY <3>1, RadInt
  <2> QED  BY <2>1
<1>2. \A x \in RadRank : (Rad(q) = Rad(x) <=> q = x)
  BY RadSame
<1>3. \A x \in RadRank : (Rad(q) = Rad(master_lat(x)) <=> q = master_lat(x))
  BY <1>1, RadSame
<1>4. CASE IsMaster(q)
  BY <1>1, <1>2, <1>3, <1>4 DEF MasterSlave
<1>5. CASE ~IsMaster(q)
  BY <1>1, <1>2, <1>3, <1>5 DEF MasterSlave
<1> QED  BY <1>4, <1>5

LEMMA NotMasterSlave ==
    ASSUME NEW r \in JupiterProc
    PROVE  \A p : /\ ~MasterSlave(r, p) /\ ~MasterSlave(p, r)
                  /\ \A t : ~Halos(r, p, t) /\ ~Halos(p, r, t)
                  /\ \A q \in RadRank : r # Rad(q)
<1>1. \A q \in RadRank : r # Rad(q)
  BY RadInt
<1>2. \A x \in RadRank : r # Rad(master_lat(x))
  <2>1. ASSUME NEW x \in RadRank PROVE r # Rad(master_lat(x))
    <3>1. master_lat(x) \in JupiterProc
      BY MasterLat DEF JupiterProc
    <3>2. master_lat(x) \in RadRank
      BY <3>1, RadInt
    <3> QED  BY <3>2, <1>1
  <2> QED  BY <2>1
<1>3. \A q \in RadRank : /\ rank1(q) > -1 => r # Rad(rank1(q))
                         /\ rank2(q) > -1 => r # Rad(rank2(q))
  BY <1>1, Neighbours
<1> QED  BY <1>1, <1>2, <1>3 DEF MasterSlave, Halos

LEMMA HalosIs ==
    ASSUME NEW q \in RadRank
    PROVE  /\ \A d, t : Halos(Rad(q), d, t) <=>
                  \/ rank1(q) > -1 /\ t = 20 /\ d = Rad(rank1(q))
                  \/ rank2(q) > -1 /\ t = 10 /\ d = Rad(rank2(q))
           /\ \A s, t : Halos(s, Rad(q), t) <=>
                  \/ rank1(q) > -1 /\ t = 10 /\ s = Rad(rank1(q))
                  \/ rank2(q) > -1 /\ t = 20 /\ s = Rad(rank2(q))
<1>1. \A x \in RadRank : (Rad(q) = Rad(x) <=> q = x)
  BY RadSame
<1>2. \A d, t : Halos(Rad(q), d, t) <=>
                  \/ rank1(q) > -1 /\ t = 20 /\ d = Rad(rank1(q))
                  \/ rank2(q) > -1 /\ t = 10 /\ d = Rad(rank2(q))
  BY <1>1 DEF Halos
<1>3. ASSUME NEW s, NEW t, Halos(s, Rad(q), t)
      PROVE  \/ rank1(q) > -1 /\ t = 10 /\ s = Rad(rank1(q))
             \/ rank2(q) > -1 /\ t = 20 /\ s = Rad(rank2(q))
  <2>1. PICK x \in RadRank : /\ s = Rad(x)
                             /\ \/ rank1(x) > -1 /\ t = 20 /\ Rad(q) = Rad(rank1(x))
                                \/ rank2(x) > -1 /\ t = 10 /\ Rad(q) = Rad(rank2(x))
    BY <1>3 DEF Halos
  <2>2. x \in Nat /\ x > -1
    BY Neighbours
  <2>3. CASE rank1(x) > -1 /\ t = 20 /\ Rad(q) = Rad(rank1(x))
    <3>1. rank1(x) \in RadRank /\ rank2(rank1(x)) = x
      BY <2>3, Neighbours
    <3>2. rank1(x) = q
      BY <2>3, <3>1, <1>1
    <3> QED  BY <2>1, <2>2, <2>3, <3>1, <3>2
  <2>4. CASE rank2(x) > -1 /\ t = 10 /\ Rad(q) = Rad(rank2(x))
    <3>1. rank2(x) \in RadRank /\ rank1(rank2(x)) = x
      BY <2>4, Neighbours
    <3>2. rank2(x) = q
      BY <2>4, <3>1, <1>1
    <3> QED  BY <2>1, <2>2, <2>4, <3>1, <3>2
  <2> QED  BY <2>1, <2>3, <2>4
<1>4. ASSUME NEW t, rank1(q) > -1, t = 10 PROVE Halos(Rad(rank1(q)), Rad(q), t)
  <2>1. PICK x \in RadRank : x = rank1(q) /\ rank2(x) = q
    BY <1>4, Neighbours
  <2>2. q > -1
    BY Neighbours
  <2> QED  BY <2>1, <2>2, <1>4 DEF Halos
<1>5. ASSUME NEW t, rank2(q) > -1, t = 20 PROVE Halos(Rad(rank2(q)), Rad(q), t)
  <2>1. PICK x \in RadRank : x = rank2(q) /\ rank1(x) = q
    BY <1>5, Neighbours
  <2>2. q > -1
    BY Neighbours
  <2> QED  BY <2>1, <2>2, <1>5 DEF Halos
<1> QED  BY <1>2, <1>3, <1>4, <1>5

\* The parts of the scripts, one by one.
LEMMA HaloTable ==
    ASSUME NEW q \in RadRank, NEW v, NEW p, NEW t, NEW w
    PROVE  /\ HaloOps(q, v, Op("send", p, t, w)) <=> w = v /\ Halos(Rad(q), p, t)
           /\ HaloOps(q, v, Op("recv", p, t, w)) <=> w = v /\ Halos(p, Rad(q), t)
           /\ ~HaloOps(q, v, Op("judge", p, t, w)) /\ ~HaloOps(q, v, Op("post", p, t, w))
           /\ ~HaloOps(q, v, Op("waitlast", p, t, w))
<1>1. HaloOps(q, v, Op("send", p, t, w)) <=> w = v /\ Halos(Rad(q), p, t)
  BY OpSame, HalosIs DEF HaloOps
<1>2. HaloOps(q, v, Op("recv", p, t, w)) <=> w = v /\ Halos(p, Rad(q), t)
  BY OpSame, HalosIs DEF HaloOps
<1>3. /\ ~HaloOps(q, v, Op("judge", p, t, w)) /\ ~HaloOps(q, v, Op("post", p, t, w))
      /\ ~HaloOps(q, v, Op("waitlast", p, t, w))
  BY OpSame DEF HaloOps
<1> QED  BY <1>1, <1>2, <1>3

\* Beside a master there are masters only.
LEMMA MasterNeighbours ==
    ASSUME NEW q \in RadRank
    PROVE  /\ rank1(q) > -1 => (IsMaster(rank1(q)) <=> IsMaster(q))
           /\ rank2(q) > -1 => (IsMaster(rank2(q)) <=> IsMaster(q))
<1>1. master_lat(q) \in 0 .. N - 1
  BY MasterLat
<1>2. ASSUME rank1(q) > -1 PROVE IsMaster(rank1(q)) <=> IsMaster(q)
  <2>1. master_lat(q) - 1 \in 0 .. N - 1 /\ rank1(q) = Corresponding(q, master_lat(q) - 1)
    BY <1>1, <1>2, SizeAssumption DEF rank1
  <2> QED  BY <2>1, CorrespondingIs
<1>3. ASSUME rank2(q) > -1 PROVE IsMaster(rank2(q)) <=> IsMaster(q)
  <2>1. master_lat(q) + 1 \in 0 .. N - 1 /\ rank2(q) = Corresponding(q, master_lat(q) + 1)
    BY <1>1, <1>3, SizeAssumption DEF rank2
  <2> QED  BY <2>1, CorrespondingIs
<1> QED  BY <1>2, <1>3

LEMMA MastersApart ==
    ASSUME NEW q \in RadRank, NEW p, NEW t
    PROVE  /\ (\E m \in 0 .. N - 1 : Rad(q) = Rad(m)) <=> IsMaster(q)
           /\ Halos(p, Rad(q), t) => ((\E m \in 0 .. N - 1 : p = Rad(m)) <=> IsMaster(q))
<1>1. ASSUME NEW x \in RadRank PROVE (\E m \in 0 .. N - 1 : Rad(x) = Rad(m)) <=> IsMaster(x)
  <2>1. \A m \in 0 .. N - 1 : m \in RadRank /\ IsMaster(m)
    BY RadInt DEF JupiterProc
  <2>2. IsMaster(x) => x \in 0 .. N - 1
    BY SizeAssumption DEF IsMaster, RadRank
  <2> QED  BY <2>1, <2>2, RadSame
<1>2. ASSUME Halos(p, Rad(q), t)
      PROVE  (\E m \in 0 .. N - 1 : p = Rad(m)) <=> IsMaster(q)
  <2>1. PICK x \in RadRank : p = Rad(x) /\ (IsMaster(x) <=> IsMaster(q))
    BY <1>2, HalosIs, MasterNeighbours, Neighbours
  <2> QED  BY <2>1, <1>1
<1> QED  BY <1>1, <1>2

LEMMA ErrorsTable ==
    ASSUME NEW q \in RadRank, IsMaster(q), NEW p, NEW t, NEW w
    PROVE  /\ ErrorsOps(q, Op("send", p, t, w)) <=> q # 0 /\ p = Rad(0) /\ t = 10 /\ w = "error"
           /\ ErrorsOps(q, Op("recv", p, t, w)) <=>
                 q = 0 /\ p # Rad(0) /\ (\E m \in 0 .. N - 1 : p = Rad(m)) /\ t = 10 /\ w = "error"
           /\ ~ErrorsOps(q, Op("judge", p, t, w)) /\ ~ErrorsOps(q, Op("post", p, t, w))
           /\ ~ErrorsOps(q, Op("waitlast", p, t, w))
<1>1. ErrorsOps(q, Op("send", p, t, w)) <=> q # 0 /\ p = Rad(0) /\ t = 10 /\ w = "error"
  BY OpSame DEF ErrorsOps
<1>2. ErrorsOps(q, Op("recv", p, t, w)) <=>
         q = 0 /\ p # Rad(0) /\ (\E m \in 0 .. N - 1 : p = Rad(m)) /\ t = 10 /\ w = "error"
  <2>1. (\E m \in 1 .. N - 1 : p = Rad(m)) <=> p # Rad(0) /\ (\E m \in 0 .. N - 1 : p = Rad(m))
    BY SizeAssumption DEF Rad
  <2>2. ErrorsOps(q, Op("recv", p, t, w)) <=>
         q = 0 /\ (\E m \in 1 .. N - 1 : p = Rad(m)) /\ t = 10 /\ w = "error"
    BY OpSame DEF ErrorsOps
  <2> QED  BY <2>1, <2>2
<1>3. /\ ~ErrorsOps(q, Op("judge", p, t, w)) /\ ~ErrorsOps(q, Op("post", p, t, w))
      /\ ~ErrorsOps(q, Op("waitlast", p, t, w))
  BY OpSame DEF ErrorsOps
<1> QED  BY <1>1, <1>2, <1>3

LEMMA VerdictTable ==
    ASSUME NEW q \in RadRank, NEW p, NEW t, NEW w
    PROVE  /\ VerdictOps(q, Op("send", p, t, w)) <=>
                 q = 0 /\ p # Rad(0) /\ (\E n \in RadRank : p = Rad(n)) /\ t = 10 /\ w = "iexit"
           /\ VerdictOps(q, Op("recv", p, t, w)) <=> q # 0 /\ p = Rad(0) /\ t = 10 /\ w = "iexit"
           /\ VerdictOps(q, Op("judge", p, t, w)) <=> q = 0 /\ p = 0 /\ t = 0 /\ w = ""
           /\ ~VerdictOps(q, Op("post", p, t, w)) /\ ~VerdictOps(q, Op("waitlast", p, t, w))
<1>0. PICK R : R = 1 .. N * L - 1
  OBVIOUS
<1>5. \A o : VerdictOps(q, o) <=>
         \/ q # 0 /\ o = Op("recv", Rad(0), 10, "iexit")
         \/ q = 0 /\ o = Op("judge", 0, 0, "")
         \/ q = 0 /\ \E n \in R : o = Op("send", Rad(n), 10, "iexit")
  BY <1>0, Zenon DEF VerdictOps
<1>1. VerdictOps(q, Op("send", p, t, w)) <=>
         q = 0 /\ p # Rad(0) /\ (\E n \in RadRank : p = Rad(n)) /\ t = 10 /\ w = "iexit"
  <2>1. (\E n \in 1 .. N * L - 1 : p = Rad(n)) <=> p # Rad(0) /\ (\E n \in RadRank : p = Rad(n))
    <3>1. PICK m \in Int : m = N * L
      BY SizeAssumption
    <3>2. RadRank = 0 .. m - 1
      BY <3>1 DEF RadRank
    <3>3. 0 \in RadRank
      BY RadInt
    <3>4. \A n \in RadRank : (Rad(n) = Rad(0) <=> n = 0)
      BY <3>3, RadSame
    <3>5. \A n : n \in 1 .. m - 1 <=> n \in RadRank /\ n # 0
      BY <3>1, <3>2
    <3> QED  BY <3>1, <3>4, <3>5
  <2>2. VerdictOps(q, Op("send", p, t, w)) <=>
         q = 0 /\ (\E n \in R : p = Rad(n)) /\ t = 10 /\ w = "iexit"
    <3>1. PICK o : o = Op("send", p, t, w)
      OBVIOUS
    <3>2. o = Op("recv", Rad(0), 10, "iexit") <=> FALSE
      BY <3>1 DEF Op
    <3>3. o = Op("judge", 0, 0, "") <=> FALSE
      BY <3>1 DEF Op
    <3>4. \A n \in R : o = Op("send", Rad(n), 10, "iexit") <=> p = Rad(n) /\ t = 10 /\ w = "iexit"
      BY <3>1 DEF Op
    <3>5. VerdictOps(q, o) <=>
             \/ q # 0 /\ o = Op("recv", Rad(0), 10, "iexit")
             \/ q = 0 /\ o = Op("judge", 0, 0, "")
             \/ q = 0 /\ \E n \in R : o = Op("send", Rad(n), 10, "iexit")
      BY <1>5
    <3> QED  BY <3>1, <3>2, <3>3, <3>4, <3>5
  <2> QED  BY <2>1, <2>2, <1>0
<1>2. VerdictOps(q, Op("recv", p, t, w)) <=> q # 0 /\ p = Rad(0) /\ t = 10 /\ w = "iexit"
  <2>1. PICK o : o = Op("recv", p, t, w)
    OBVIOUS
  <2>2. o = Op("recv", Rad(0), 10, "iexit") <=> p = Rad(0) /\ t = 10 /\ w = "iexit"
    BY <2>1 DEF Op
  <2>3. o = Op("judge", 0, 0, "") <=> FALSE
    BY <2>1 DEF Op
  <2>4. \A n \in R : o = Op("send", Rad(n), 10, "iexit") <=> FALSE
    BY <2>1 DEF Op
  <2>5. VerdictOps(q, o) <=>
           \/ q # 0 /\ o = Op("recv", Rad(0), 10, "iexit")
           \/ q = 0 /\ o = Op("judge", 0, 0, "")
           \/ q = 0 /\ \E n \in R : o = Op("send", Rad(n), 10, "iexit")
    BY <1>5
  <2> QED  BY <2>1, <2>2, <2>3, <2>4, <2>5
<1>3. VerdictOps(q, Op("judge", p, t, w)) <=> q = 0 /\ p = 0 /\ t = 0 /\ w = ""
  <2>1. PICK o : o = Op("judge", p, t, w)
    OBVIOUS
  <2>2. o = Op("recv", Rad(0), 10, "iexit") <=> FALSE
    BY <2>1 DEF Op
  <2>3. o = Op("judge", 0, 0, "") <=> p = 0 /\ t = 0 /\ w = ""
    BY <2>1 DEF Op
  <2>4. \A n \in R : o = Op("send", Rad(n), 10, "iexit") <=> FALSE
    BY <2>1 DEF Op
  <2>5. VerdictOps(q, o) <=>
           \/ q # 0 /\ o = Op("recv", Rad(0), 10, "iexit")
           \/ q = 0 /\ o = Op("judge", 0, 0, "")
           \/ q = 0 /\ \E n \in R : o = Op("send", Rad(n), 10, "iexit")
    BY <1>5
  <2> QED  BY <2>1, <2>2, <2>3, <2>4, <2>5
<1>4. ~VerdictOps(q, Op("post", p, t, w)) /\ ~VerdictOps(q, Op("waitlast", p, t, w))
  <2>1. ~VerdictOps(q, Op("post", p, t, w))
    <3>1. PICK o : o = Op("post", p, t, w)
      OBVIOUS
    <3>2. o = Op("recv", Rad(0), 10, "iexit") <=> FALSE
      BY <3>1 DEF Op
    <3>3. o = Op("judge", 0, 0, "") <=> FALSE
      BY <3>1 DEF Op
    <3>4. \A n \in R : o = Op("send", Rad(n), 10, "iexit") <=> FALSE
      BY <3>1 DEF Op
    <3>5. VerdictOps(q, o) <=>
             \/ q # 0 /\ o = Op("recv", Rad(0), 10, "iexit")
             \/ q = 0 /\ o = Op("judge", 0, 0, "")
             \/ q = 0 /\ \E n \in R : o = Op("send", Rad(n), 10, "iexit")
      BY <1>5
    <3> QED  BY <3>1, <3>2, <3>3, <3>4, <3>5
  <2>2. ~VerdictOps(q, Op("waitlast", p, t, w))
    <3>1. PICK o : o = Op("waitlast", p, t, w)
      OBVIOUS
    <3>2. o = Op("recv", Rad(0), 10, "iexit") <=> FALSE
      BY <3>1 DEF Op
    <3>3. o = Op("judge", 0, 0, "") <=> FALSE
      BY <3>1 DEF Op
    <3>4. \A n \in R : o = Op("send", Rad(n), 10, "iexit") <=> FALSE
      BY <3>1 DEF Op
    <3>5. VerdictOps(q, o) <=>
             \/ q # 0 /\ o = Op("recv", Rad(0), 10, "iexit")
             \/ q = 0 /\ o = Op("judge", 0, 0, "")
             \/ q = 0 /\ \E n \in R : o = Op("send", Rad(n), 10, "iexit")
      BY <1>5
    <3> QED  BY <3>1, <3>2, <3>3, <3>4, <3>5
  <2> QED  BY <2>1, <2>2
<1> QED  BY <1>1, <1>2, <1>3, <1>4

LEMMA RoutesOfJupiter ==
    ASSUME NEW r \in JupiterProc, NEW p, NEW t, NEW w
    PROVE  /\ Exchanged(r, p, t, w) <=> w = "iflg" /\ t = 20 /\ p = Rad(r)
           /\ Exchanged(p, r, t, w) <=> w = "heat" /\ t = 10 /\ p = Rad(r)
           /\ Passed(r, p, t, w) <=> AField(t, w) /\ p = Rad(r)
           /\ ~Passed(p, r, t, w) /\ ~Iterated(r, p, t, w) /\ ~Iterated(p, r, t, w)
<1>1. /\ ~MasterSlave(r, p) /\ ~MasterSlave(p, r) /\ ~Halos(r, p, t) /\ ~Halos(p, r, t)
      /\ \A q \in RadRank : r # Rad(q)
  BY NotMasterSlave
<1>2. \A x \in JupiterProc : r # Rad(x)
  BY <1>1, RadInt
<1>3. \A m \in 0 .. N - 1 : r # Rad(m)
  BY <1>2 DEF JupiterProc
<1>4. r # Rad(0)
  BY <1>2, RadInt
<1>5. /\ Exchanged(r, p, t, w) <=> w = "iflg" /\ t = 20 /\ p = Rad(r)
      /\ Exchanged(p, r, t, w) <=> w = "heat" /\ t = 10 /\ p = Rad(r)
  BY <1>1, <1>2 DEF Exchanged
<1>6. /\ Passed(r, p, t, w) <=> AField(t, w) /\ p = Rad(r)
      /\ ~Passed(p, r, t, w)
  BY <1>1, <1>2 DEF Passed
<1>7. ~Iterated(r, p, t, w) /\ ~Iterated(p, r, t, w)
  BY <1>1, <1>3, <1>4 DEF Iterated
<1> QED  BY <1>5, <1>6, <1>7

LEMMA RoutesOfMaster ==
    ASSUME NEW q \in RadRank, IsMaster(q), NEW p, NEW t, NEW w
    PROVE  /\ Exchanged(Rad(q), p, t, w) <=>
                 \/ w = "heat" /\ t = 10 /\ p = q
                 \/ w = "iflg" /\ t = 10 /\ MasterSlave(Rad(q), p)
           /\ Exchanged(p, Rad(q), t, w) <=> w = "iflg" /\ t = 20 /\ p = q
           /\ Passed(Rad(q), p, t, w) <=> \/ AField(t, w) /\ MasterSlave(Rad(q), p)
                                          \/ w = "halo" /\ Halos(Rad(q), p, t)
           /\ Passed(p, Rad(q), t, w) <=> \/ AField(t, w) /\ p = q
                                          \/ w = "halo" /\ Halos(p, Rad(q), t)
           /\ Iterated(Rad(q), p, t, w) <=>
                 \/ w = "tmp" /\ t = 10 /\ MasterSlave(Rad(q), p)
                 \/ w = "E" /\ t = 20 /\ MasterSlave(Rad(q), p)
                 \/ w \in {"halo", "boundary"} /\ Halos(Rad(q), p, t)
                 \/ w = "error" /\ t = 10 /\ q # 0 /\ p = Rad(0)
                 \/ w = "iexit" /\ t = 10 /\ q = 0 /\ p # Rad(0) /\ (\E n \in RadRank : p = Rad(n))
           /\ Iterated(p, Rad(q), t, w) <=>
                 \/ w \in {"halo", "boundary"} /\ Halos(p, Rad(q), t)
                 \/ w = "dE" /\ t = 10 /\ MasterSlave(Rad(q), p)
                 \/ w = "ads" /\ t = 10 /\ MasterSlave(Rad(q), p)
                 \/ w = "error" /\ t = 10 /\ q = 0 /\ p # Rad(0) /\ (\E m \in 0 .. N - 1 : p = Rad(m))
                 \/ w = "iexit" /\ t = 10 /\ q # 0 /\ p = Rad(0)
<1>1. ~MasterSlave(p, Rad(q))
  BY MasterSlaveIs
<1>2. q \in JupiterProc /\ q \in 0 .. N - 1
  BY SizeAssumption DEF IsMaster, JupiterProc, RadRank
<1>3. \A x \in JupiterProc : (Rad(q) = Rad(x) <=> q = x)
  BY RadSame, RadInt
<1>4. Rad(q) \notin JupiterProc
  BY RadInt
<1>5. 0 \in RadRank /\ (Rad(q) = Rad(0) <=> q = 0) /\ (\E m \in 0 .. N - 1 : Rad(q) = Rad(m))
      /\ (\E n \in RadRank : Rad(q) = Rad(n))
  BY <1>2, RadSame, RadInt
<1>6. Exchanged(Rad(q), p, t, w) <=>
                 \/ w = "heat" /\ t = 10 /\ p = q
                 \/ w = "iflg" /\ t = 10 /\ MasterSlave(Rad(q), p)
  BY <1>2, <1>3, <1>4 DEF Exchanged
<1>7. Exchanged(p, Rad(q), t, w) <=> w = "iflg" /\ t = 20 /\ p = q
  BY <1>1, <1>2, <1>3, <1>4 DEF Exchanged
<1>8. Passed(Rad(q), p, t, w) <=> \/ AField(t, w) /\ MasterSlave(Rad(q), p)
                                  \/ w = "halo" /\ Halos(Rad(q), p, t)
  BY <1>4 DEF Passed
<1>9. Passed(p, Rad(q), t, w) <=> \/ AField(t, w) /\ p = q
                                  \/ w = "halo" /\ Halos(p, Rad(q), t)
  BY <1>1, <1>2, <1>3 DEF Passed
<1>10. Iterated(Rad(q), p, t, w) <=>
                 \/ w = "tmp" /\ t = 10 /\ MasterSlave(Rad(q), p)
                 \/ w = "E" /\ t = 20 /\ MasterSlave(Rad(q), p)
                 \/ w \in {"halo", "boundary"} /\ Halos(Rad(q), p, t)
                 \/ w = "error" /\ t = 10 /\ q # 0 /\ p = Rad(0)
                 \/ w = "iexit" /\ t = 10 /\ q = 0 /\ p # Rad(0) /\ (\E n \in RadRank : p = Rad(n))
  BY <1>1, <1>5 DEF Iterated
<1>11. Iterated(p, Rad(q), t, w) <=>
                 \/ w \in {"halo", "boundary"} /\ Halos(p, Rad(q), t)
                 \/ w = "dE" /\ t = 10 /\ MasterSlave(Rad(q), p)
                 \/ w = "ads" /\ t = 10 /\ MasterSlave(Rad(q), p)
                 \/ w = "error" /\ t = 10 /\ q = 0 /\ p # Rad(0) /\ (\E m \in 0 .. N - 1 : p = Rad(m))
                 \/ w = "iexit" /\ t = 10 /\ q # 0 /\ p = Rad(0)
  BY <1>1, <1>5, MastersApart DEF Iterated
<1> QED  BY <1>6, <1>7, <1>8, <1>9, <1>10, <1>11

LEMMA RoutesOfSlave ==
    ASSUME NEW q \in RadRank, ~IsMaster(q), NEW p, NEW t, NEW w
    PROVE  /\ ~Exchanged(Rad(q), p, t, w)
           /\ Exchanged(p, Rad(q), t, w) <=> w = "iflg" /\ t = 10 /\ p = Rad(master_lat(q))
           /\ Passed(Rad(q), p, t, w) <=> w = "halo" /\ Halos(Rad(q), p, t)
           /\ Passed(p, Rad(q), t, w) <=> \/ AField(t, w) /\ p = Rad(master_lat(q))
                                          \/ w = "halo" /\ Halos(p, Rad(q), t)
           /\ Iterated(Rad(q), p, t, w) <=>
                 \/ w = "halo" /\ Halos(Rad(q), p, t)
                 \/ w = "dE" /\ t = 10 /\ p = Rad(master_lat(q))
                 \/ w = "ads" /\ t = 10 /\ p = Rad(master_lat(q))
           /\ Iterated(p, Rad(q), t, w) <=>
                 \/ w = "tmp" /\ t = 10 /\ p = Rad(master_lat(q))
                 \/ w = "E" /\ t = 20 /\ p = Rad(master_lat(q))
                 \/ w = "halo" /\ Halos(p, Rad(q), t)
                 \/ w = "iexit" /\ t = 10 /\ p = Rad(0)
           /\ q # 0
<1>1. /\ ~MasterSlave(Rad(q), p)
      /\ MasterSlave(p, Rad(q)) <=> p = Rad(master_lat(q))
  BY MasterSlaveIs
<1>2. q # 0
  BY SizeAssumption DEF IsMaster
<1>3. \A x \in JupiterProc : Rad(q) # Rad(x)
  BY RadSame, RadInt
<1>4. Rad(q) \notin JupiterProc
  BY RadInt
<1>5. 0 \in RadRank /\ Rad(q) # Rad(0) /\ ~(\E m \in 0 .. N - 1 : Rad(q) = Rad(m))
      /\ (\E n \in RadRank : Rad(q) = Rad(n))
  BY <1>2, <1>3, RadSame, RadInt DEF JupiterProc
<1>6. ~Exchanged(Rad(q), p, t, w)
  BY <1>1, <1>3, <1>4 DEF Exchanged
<1>7. Exchanged(p, Rad(q), t, w) <=> w = "iflg" /\ t = 10 /\ p = Rad(master_lat(q))
  BY <1>1, <1>3, <1>4 DEF Exchanged
<1>8. Passed(Rad(q), p, t, w) <=> w = "halo" /\ Halos(Rad(q), p, t)
  BY <1>1, <1>4 DEF Passed
<1>9. Passed(p, Rad(q), t, w) <=> \/ AField(t, w) /\ p = Rad(master_lat(q))
                                  \/ w = "halo" /\ Halos(p, Rad(q), t)
  BY <1>1, <1>3 DEF Passed
<1>10. Iterated(Rad(q), p, t, w) <=>
                 \/ w = "halo" /\ Halos(Rad(q), p, t)
                 \/ w = "dE" /\ t = 10 /\ p = Rad(master_lat(q))
                 \/ w = "ads" /\ t = 10 /\ p = Rad(master_lat(q))
  BY <1>1, <1>5, MastersApart DEF Iterated
<1>11. Iterated(p, Rad(q), t, w) <=>
                 \/ w = "tmp" /\ t = 10 /\ p = Rad(master_lat(q))
                 \/ w = "E" /\ t = 20 /\ p = Rad(master_lat(q))
                 \/ w = "halo" /\ Halos(p, Rad(q), t)
                 \/ w = "iexit" /\ t = 10 /\ p = Rad(0)
  BY <1>1, <1>5, MastersApart DEF Iterated
<1> QED  BY <1>2, <1>6, <1>7, <1>8, <1>9, <1>10, <1>11

\* The script s is what process p does in segment g: all its calls are known.
Faithful(p, g, s) ==
    /\ Block(s, 0, 8)
    /\ \A x, t, w : Has(s, Op("send", x, t, w)) <=> Sends(p, g, x, t, w)
    /\ \A x, t, w : Has(s, Op("recv", x, t, w)) <=> Sends(x, g, p, t, w) /\ ~Posts(g, x, p, t, w)
    /\ \A x, t, w : Has(s, Op("judge", x, t, w)) <=>
          g = "picard" /\ p = Rad(0) /\ x = 0 /\ t = 0 /\ w = ""
    /\ \A x, t, w : Has(s, Op("post", x, t, w)) <=>
          g = "fields" /\ MasterSlave(x, p) /\ t = 0 /\ w = ""
    /\ \A x, t, w : Has(s, Op("waitlast", x, t, w)) <=>
          g = "fields" /\ MasterSlave(x, p) /\ t = 0 /\ w = ""

LEMMA ActiveKinds ==
    ASSUME NEW p, NEW t, NEW w
    PROVE  /\ Active(Op("send", p, t, w)) /\ Active(Op("recv", p, t, w))
           /\ Active(Op("judge", p, t, w)) /\ Active(Op("post", p, t, w))
           /\ Active(Op("waitlast", p, t, w))
BY DEF Active, Op

LEMMA NothingFaithful ==
    ASSUME NEW p, NEW g, g \in {"idle", "done"} \/ (g = "picard" /\ p \in JupiterProc)
    PROVE  Faithful(p, g, <<>>)
<1>1. Block(<<>>, 0, 8) /\ \A o : ~Has(<<>>, o)
  BY BlockEmpty
<1>2. CASE g \in {"idle", "done"}
  <2>1. \A x, t, w : ~Sends(p, g, x, t, w) /\ ~Sends(x, g, p, t, w)
    BY <1>2 DEF Sends
  <2> QED  BY <1>1, <1>2, <2>1 DEF Faithful
<1>3. CASE g = "picard" /\ p \in JupiterProc
  <2>1. \A x, t, w : ~Iterated(p, x, t, w) /\ ~Iterated(x, p, t, w)
    BY <1>3, RoutesOfJupiter
  <2>2. \A x, t, w : ~Sends(p, g, x, t, w) /\ ~Sends(x, g, p, t, w)
    BY <1>3, <2>1 DEF Sends
  <2>3. p # Rad(0)
    BY <1>3, RadInt
  <2> QED  BY <1>1, <1>3, <2>2, <2>3 DEF Faithful
<1> QED  BY <1>2, <1>3

LEMMA JupiterFaithful ==
    ASSUME NEW r \in JupiterProc
    PROVE  /\ Faithful(r, "exchange", JupiterExchange(r))
           /\ Faithful(r, "fields", JupiterFields(r))
<1>0. \A p : ~MasterSlave(r, p) /\ ~MasterSlave(p, r)
  BY NotMasterSlave
<1>1. Faithful(r, "exchange", JupiterExchange(r))
  <2>0. PICK s : s = JupiterExchange(r)
    OBVIOUS
  <2>1. /\ Block(s, 0, 2)
        /\ \A o : Active(o) => (Has(s, o) <=>
                \/ o = Op("recv", Rad(r), 10, "heat")
                \/ o = Op("send", Rad(r), 20, "iflg"))
    BY <2>0, JupiterExchangeIs
  <2>2. Block(s, 0, 8)
    BY <2>1, BlockWider
  <2>3. ASSUME NEW x, NEW t, NEW w
        PROVE  /\ Has(s, Op("send", x, t, w)) <=> w = "iflg" /\ t = 20 /\ x = Rad(r)
               /\ Has(s, Op("recv", x, t, w)) <=> w = "heat" /\ t = 10 /\ x = Rad(r)
               /\ ~Has(s, Op("judge", x, t, w))
               /\ ~Has(s, Op("post", x, t, w))
               /\ ~Has(s, Op("waitlast", x, t, w))
    BY <2>1, ActiveKinds DEF Op
  <2>4. ASSUME NEW x, NEW t, NEW w
        PROVE  /\ Sends(r, "exchange", x, t, w) <=> w = "iflg" /\ t = 20 /\ x = Rad(r)
               /\ Sends(x, "exchange", r, t, w) <=> w = "heat" /\ t = 10 /\ x = Rad(r)
               /\ ~Posts("exchange", x, r, t, w)
    BY RoutesOfJupiter DEF Sends, Posts
  <2>5. Faithful(r, "exchange", s)
    BY <2>2, <2>3, <2>4 DEF Faithful
  <2> QED  BY <2>0, <2>5
<1>2. Faithful(r, "fields", JupiterFields(r))
  <2>0. PICK s : s = JupiterFields(r)
    OBVIOUS
  <2>1. /\ Block(s, 2, 2)
        /\ \A o : Active(o) => (Has(s, o) <=>
                \E k \in DOMAIN Fields : o = Op("send", Rad(r), FieldTag(k), Fields[k]))
    BY <2>0, JupiterFieldsIs
  <2>2. Block(s, 0, 8)
    BY <2>1, BlockWider
  <2>3. ASSUME NEW x, NEW t, NEW w
        PROVE  /\ Has(s, Op("send", x, t, w)) <=> AField(t, w) /\ x = Rad(r)
               /\ ~Has(s, Op("recv", x, t, w))
               /\ ~Has(s, Op("judge", x, t, w))
               /\ ~Has(s, Op("post", x, t, w))
               /\ ~Has(s, Op("waitlast", x, t, w))
    BY <2>1, ActiveKinds DEF Op, AField
  <2>4. ASSUME NEW x, NEW t, NEW w
        PROVE  /\ Sends(r, "fields", x, t, w) <=> AField(t, w) /\ x = Rad(r)
               /\ ~Sends(x, "fields", r, t, w)
    BY RoutesOfJupiter DEF Sends
  <2>5. Faithful(r, "fields", s)
    BY <1>0, <2>2, <2>3, <2>4 DEF Faithful
  <2> QED  BY <2>0, <2>5
<1> QED  BY <1>1, <1>2

LEMMA MasterFaithful ==
    ASSUME NEW q \in RadRank, IsMaster(q)
    PROVE  /\ Faithful(Rad(q), "exchange", MasterExchange(q))
           /\ Faithful(Rad(q), "fields", MasterFields(q))
           /\ Faithful(Rad(q), "picard", MasterPicard(q))
<1>0. q \in 0 .. N - 1
  BY SizeAssumption DEF IsMaster, RadRank
<1>1. \A x : ~MasterSlave(x, Rad(q))
  BY MasterSlaveIs
<1>2. \A x : MasterSlave(Rad(q), x) <=>
                \E s \in RadRank : ~IsMaster(s) /\ master_lat(s) = q /\ x = Rad(s)
  BY MasterSlaveIs
<1>3. Faithful(Rad(q), "exchange", MasterExchange(q))
  <2>0. PICK s : s = MasterExchange(q)
    OBVIOUS
  <2>1. /\ Block(s, 0, 2)
        /\ \A o : Active(o) => (Has(s, o) <=>
                \/ o = Op("send", q, 10, "heat")
                \/ o = Op("recv", q, 20, "iflg")
                \/ \E y \in RadRank : /\ ~IsMaster(y) /\ master_lat(y) = q
                                      /\ o = Op("send", Rad(y), 10, "iflg"))
    BY <1>0, <2>0, MasterExchangeIs
  <2>2. Block(s, 0, 8)
    BY <2>1, BlockWider
  <2>3. ASSUME NEW x, NEW t, NEW w
        PROVE  /\ Has(s, Op("send", x, t, w)) <=>
                    \/ w = "heat" /\ t = 10 /\ x = q
                    \/ w = "iflg" /\ t = 10 /\ MasterSlave(Rad(q), x)
               /\ Has(s, Op("recv", x, t, w)) <=> w = "iflg" /\ t = 20 /\ x = q
               /\ ~Has(s, Op("judge", x, t, w))
               /\ ~Has(s, Op("post", x, t, w))
               /\ ~Has(s, Op("waitlast", x, t, w))
    BY <1>2, <2>1, ActiveKinds DEF Op
  <2>4. ASSUME NEW x, NEW t, NEW w
        PROVE  /\ Sends(Rad(q), "exchange", x, t, w) <=>
                    \/ w = "heat" /\ t = 10 /\ x = q
                    \/ w = "iflg" /\ t = 10 /\ MasterSlave(Rad(q), x)
               /\ Sends(x, "exchange", Rad(q), t, w) <=> w = "iflg" /\ t = 20 /\ x = q
               /\ ~Posts("exchange", x, Rad(q), t, w)
    BY RoutesOfMaster DEF Sends, Posts
  <2>5. Faithful(Rad(q), "exchange", s)
    BY <2>2, <2>3, <2>4 DEF Faithful
  <2> QED  BY <2>0, <2>5
<1>4. Faithful(Rad(q), "fields", MasterFields(q))
  <2>0. PICK s : s = MasterFields(q)
    OBVIOUS
  <2>1. /\ Block(s, 0, 8)
        /\ \A o : Active(o) => (Has(s, o) <=> MasterFieldsOps(q, o))
    BY <1>0, <2>0, MasterFieldsIs
  <2>3. ASSUME NEW x, NEW t, NEW w
        PROVE  /\ MasterFieldsOps(q, Op("send", x, t, w)) <=>
                    \/ AField(t, w) /\ MasterSlave(Rad(q), x)
                    \/ w = "halo" /\ Halos(Rad(q), x, t)
               /\ MasterFieldsOps(q, Op("recv", x, t, w)) <=>
                    \/ AField(t, w) /\ x = q
                    \/ w = "halo" /\ Halos(x, Rad(q), t)
               /\ ~MasterFieldsOps(q, Op("judge", x, t, w))
               /\ ~MasterFieldsOps(q, Op("post", x, t, w))
               /\ ~MasterFieldsOps(q, Op("waitlast", x, t, w))
    <3>1. MasterFieldsOps(q, Op("send", x, t, w)) <=>
                    \/ AField(t, w) /\ MasterSlave(Rad(q), x)
                    \/ w = "halo" /\ Halos(Rad(q), x, t)
      BY <1>2, HaloTable, OpSame DEF MasterFieldsOps, AField
    <3>2. MasterFieldsOps(q, Op("recv", x, t, w)) <=>
                    \/ AField(t, w) /\ x = q
                    \/ w = "halo" /\ Halos(x, Rad(q), t)
      BY HaloTable, OpSame DEF MasterFieldsOps, AField
    <3>3. /\ ~MasterFieldsOps(q, Op("judge", x, t, w))
          /\ ~MasterFieldsOps(q, Op("post", x, t, w))
          /\ ~MasterFieldsOps(q, Op("waitlast", x, t, w))
      BY HaloTable, OpSame DEF MasterFieldsOps
    <3> QED  BY <3>1, <3>2, <3>3
  <2>4. ASSUME NEW x, NEW t, NEW w
        PROVE  /\ Sends(Rad(q), "fields", x, t, w) <=>
                    \/ AField(t, w) /\ MasterSlave(Rad(q), x)
                    \/ w = "halo" /\ Halos(Rad(q), x, t)
               /\ Sends(x, "fields", Rad(q), t, w) <=>
                    \/ AField(t, w) /\ x = q
                    \/ w = "halo" /\ Halos(x, Rad(q), t)
               /\ ~Posts("fields", x, Rad(q), t, w)
    BY <1>1, RoutesOfMaster DEF Sends, Posts
  <2>5. ASSUME NEW x, NEW t, NEW w
        PROVE  /\ Has(s, Op("send", x, t, w)) <=> Sends(Rad(q), "fields", x, t, w)
               /\ Has(s, Op("recv", x, t, w)) <=>
                     Sends(x, "fields", Rad(q), t, w) /\ ~Posts("fields", x, Rad(q), t, w)
               /\ ~Has(s, Op("judge", x, t, w)) /\ ~Has(s, Op("post", x, t, w))
               /\ ~Has(s, Op("waitlast", x, t, w))
    <3>1. /\ Has(s, Op("send", x, t, w)) <=> MasterFieldsOps(q, Op("send", x, t, w))
          /\ Has(s, Op("recv", x, t, w)) <=> MasterFieldsOps(q, Op("recv", x, t, w))
          /\ Has(s, Op("judge", x, t, w)) <=> MasterFieldsOps(q, Op("judge", x, t, w))
          /\ Has(s, Op("post", x, t, w)) <=> MasterFieldsOps(q, Op("post", x, t, w))
          /\ Has(s, Op("waitlast", x, t, w)) <=> MasterFieldsOps(q, Op("waitlast", x, t, w))
      BY <2>1, ActiveKinds
    <3> QED  BY <3>1, <2>3, <2>4
  <2>6. Faithful(Rad(q), "fields", s)
    BY <1>1, <2>1, <2>5 DEF Faithful
  <2> QED  BY <2>0, <2>6
<1>5. Faithful(Rad(q), "picard", MasterPicard(q))
  <2>0. PICK s : s = MasterPicard(q)
    OBVIOUS
  <2>1. /\ Block(s, 0, 8)
        /\ \A o : Active(o) => (Has(s, o) <=> MasterPicardOps(q, o))
    BY <1>0, <2>0, MasterPicardIs
  <2>3. ASSUME NEW x, NEW t, NEW w
        PROVE  /\ MasterPicardOps(q, Op("send", x, t, w)) <=> Iterated(Rad(q), x, t, w)
               /\ MasterPicardOps(q, Op("recv", x, t, w)) <=> Iterated(x, Rad(q), t, w)
               /\ MasterPicardOps(q, Op("judge", x, t, w)) <=> q = 0 /\ x = 0 /\ t = 0 /\ w = ""
               /\ ~MasterPicardOps(q, Op("post", x, t, w))
               /\ ~MasterPicardOps(q, Op("waitlast", x, t, w))
    <3>a. /\ HaloOps(q, "halo", Op("send", x, t, w)) <=> w = "halo" /\ Halos(Rad(q), x, t)
          /\ HaloOps(q, "halo", Op("recv", x, t, w)) <=> w = "halo" /\ Halos(x, Rad(q), t)
          /\ ~HaloOps(q, "halo", Op("judge", x, t, w)) /\ ~HaloOps(q, "halo", Op("post", x, t, w))
          /\ ~HaloOps(q, "halo", Op("waitlast", x, t, w))
      BY HaloTable
    <3>e. /\ HaloOps(q, "boundary", Op("send", x, t, w)) <=> w = "boundary" /\ Halos(Rad(q), x, t)
          /\ HaloOps(q, "boundary", Op("recv", x, t, w)) <=> w = "boundary" /\ Halos(x, Rad(q), t)
          /\ ~HaloOps(q, "boundary", Op("judge", x, t, w))
          /\ ~HaloOps(q, "boundary", Op("post", x, t, w))
          /\ ~HaloOps(q, "boundary", Op("waitlast", x, t, w))
      BY HaloTable
    <3>b. /\ ErrorsOps(q, Op("send", x, t, w)) <=> q # 0 /\ x = Rad(0) /\ t = 10 /\ w = "error"
          /\ ErrorsOps(q, Op("recv", x, t, w)) <=>
                q = 0 /\ x # Rad(0) /\ (\E m \in 0 .. N - 1 : x = Rad(m)) /\ t = 10 /\ w = "error"
          /\ ~ErrorsOps(q, Op("judge", x, t, w)) /\ ~ErrorsOps(q, Op("post", x, t, w))
          /\ ~ErrorsOps(q, Op("waitlast", x, t, w))
      BY ErrorsTable
    <3>c. /\ VerdictOps(q, Op("send", x, t, w)) <=>
                q = 0 /\ x # Rad(0) /\ (\E n \in RadRank : x = Rad(n)) /\ t = 10 /\ w = "iexit"
          /\ VerdictOps(q, Op("recv", x, t, w)) <=> q # 0 /\ x = Rad(0) /\ t = 10 /\ w = "iexit"
          /\ VerdictOps(q, Op("judge", x, t, w)) <=> q = 0 /\ x = 0 /\ t = 0 /\ w = ""
          /\ ~VerdictOps(q, Op("post", x, t, w)) /\ ~VerdictOps(q, Op("waitlast", x, t, w))
      BY VerdictTable
    <3>d. /\ Iterated(Rad(q), x, t, w) <=>
                \/ w = "tmp" /\ t = 10 /\ MasterSlave(Rad(q), x)
                \/ w = "E" /\ t = 20 /\ MasterSlave(Rad(q), x)
                \/ w \in {"halo", "boundary"} /\ Halos(Rad(q), x, t)
                \/ w = "error" /\ t = 10 /\ q # 0 /\ x = Rad(0)
                \/ w = "iexit" /\ t = 10 /\ q = 0 /\ x # Rad(0) /\ (\E n \in RadRank : x = Rad(n))
          /\ Iterated(x, Rad(q), t, w) <=>
                \/ w \in {"halo", "boundary"} /\ Halos(x, Rad(q), t)
                \/ w = "dE" /\ t = 10 /\ MasterSlave(Rad(q), x)
                \/ w = "ads" /\ t = 10 /\ MasterSlave(Rad(q), x)
                \/ w = "error" /\ t = 10 /\ q = 0 /\ x # Rad(0) /\ (\E m \in 0 .. N - 1 : x = Rad(m))
                \/ w = "iexit" /\ t = 10 /\ q # 0 /\ x = Rad(0)
      BY RoutesOfMaster
    <3>1. MasterPicardOps(q, Op("send", x, t, w)) <=>
            \/ w = "tmp" /\ t = 10 /\ MasterSlave(Rad(q), x)
            \/ w = "E" /\ t = 20 /\ MasterSlave(Rad(q), x)
            \/ HaloOps(q, "halo", Op("send", x, t, w))
            \/ HaloOps(q, "boundary", Op("send", x, t, w))
            \/ ErrorsOps(q, Op("send", x, t, w))
            \/ VerdictOps(q, Op("send", x, t, w))
      BY <1>2, OpSame DEF MasterPicardOps
    <3>2. MasterPicardOps(q, Op("send", x, t, w)) <=> Iterated(Rad(q), x, t, w)
      BY <3>1, <3>a, <3>e, <3>b, <3>c, <3>d
    <3>3. MasterPicardOps(q, Op("recv", x, t, w)) <=>
            \/ w = "dE" /\ t = 10 /\ MasterSlave(Rad(q), x)
            \/ w = "ads" /\ t = 10 /\ MasterSlave(Rad(q), x)
            \/ HaloOps(q, "halo", Op("recv", x, t, w))
            \/ HaloOps(q, "boundary", Op("recv", x, t, w))
            \/ ErrorsOps(q, Op("recv", x, t, w))
            \/ VerdictOps(q, Op("recv", x, t, w))
      BY <1>2, OpSame DEF MasterPicardOps
    <3>4. MasterPicardOps(q, Op("recv", x, t, w)) <=> Iterated(x, Rad(q), t, w)
      BY <3>3, <3>a, <3>e, <3>b, <3>c, <3>d
    <3>5. MasterPicardOps(q, Op("judge", x, t, w)) <=> q = 0 /\ x = 0 /\ t = 0 /\ w = ""
      BY <3>a, <3>e, <3>b, <3>c DEF MasterPicardOps, Op
    <3>6. /\ ~MasterPicardOps(q, Op("post", x, t, w))
          /\ ~MasterPicardOps(q, Op("waitlast", x, t, w))
      BY <3>a, <3>e, <3>b, <3>c DEF MasterPicardOps, Op
    <3> QED  BY <3>2, <3>4, <3>5, <3>6
  <2>4. ASSUME NEW x, NEW t, NEW w
        PROVE  /\ Sends(Rad(q), "picard", x, t, w) <=> Iterated(Rad(q), x, t, w)
               /\ Sends(x, "picard", Rad(q), t, w) <=> Iterated(x, Rad(q), t, w)
               /\ ~Posts("picard", x, Rad(q), t, w)
    BY DEF Sends, Posts
  <2>5. Rad(q) = Rad(0) <=> q = 0
    BY RadSame, RadInt
  <2>6. ASSUME NEW x, NEW t, NEW w
        PROVE  /\ Has(s, Op("send", x, t, w)) <=> Sends(Rad(q), "picard", x, t, w)
               /\ Has(s, Op("recv", x, t, w)) <=>
                     Sends(x, "picard", Rad(q), t, w) /\ ~Posts("picard", x, Rad(q), t, w)
               /\ Has(s, Op("judge", x, t, w)) <=> Rad(q) = Rad(0) /\ x = 0 /\ t = 0 /\ w = ""
               /\ ~Has(s, Op("post", x, t, w)) /\ ~Has(s, Op("waitlast", x, t, w))
    <3>1. /\ Has(s, Op("send", x, t, w)) <=> MasterPicardOps(q, Op("send", x, t, w))
          /\ Has(s, Op("recv", x, t, w)) <=> MasterPicardOps(q, Op("recv", x, t, w))
          /\ Has(s, Op("judge", x, t, w)) <=> MasterPicardOps(q, Op("judge", x, t, w))
          /\ Has(s, Op("post", x, t, w)) <=> MasterPicardOps(q, Op("post", x, t, w))
          /\ Has(s, Op("waitlast", x, t, w)) <=> MasterPicardOps(q, Op("waitlast", x, t, w))
      BY <2>1, ActiveKinds
    <3>2. Has(s, Op("send", x, t, w)) <=> Sends(Rad(q), "picard", x, t, w)
      BY <3>1, <2>3, <2>4
    <3>3. Has(s, Op("recv", x, t, w)) <=>
             Sends(x, "picard", Rad(q), t, w) /\ ~Posts("picard", x, Rad(q), t, w)
      BY <3>1, <2>3, <2>4
    <3>4. Has(s, Op("judge", x, t, w)) <=> Rad(q) = Rad(0) /\ x = 0 /\ t = 0 /\ w = ""
      <4>1. MasterPicardOps(q, Op("judge", x, t, w)) <=> q = 0 /\ x = 0 /\ t = 0 /\ w = ""
        BY <2>3
      <4> QED  BY <3>1, <4>1, <2>5, Zenon
    <3>5. ~Has(s, Op("post", x, t, w)) /\ ~Has(s, Op("waitlast", x, t, w))
      BY <3>1, <2>3
    <3> QED  BY <3>2, <3>3, <3>4, <3>5
  <2>7. Faithful(Rad(q), "picard", s)
    BY <2>1, <2>6 DEF Faithful
  <2> QED  BY <2>0, <2>7
<1> QED  BY <1>3, <1>4, <1>5

LEMMA SlaveFaithful ==
    ASSUME NEW q \in RadRank, ~IsMaster(q)
    PROVE  /\ Faithful(Rad(q), "exchange", SlaveExchange(q))
           /\ Faithful(Rad(q), "fields", SlaveFields(q))
           /\ Faithful(Rad(q), "picard", SlavePicard(q))
<1>1. \A x : MasterSlave(x, Rad(q)) <=> x = Rad(master_lat(q))
  BY MasterSlaveIs
<1>2. q # 0
  BY SizeAssumption DEF IsMaster
<1>3. Faithful(Rad(q), "exchange", SlaveExchange(q))
  <2>0. PICK s : s = SlaveExchange(q)
    OBVIOUS
  <2>1. /\ Block(s, 0, 2)
        /\ \A o : Has(s, o) <=> o = Op("recv", Rad(master_lat(q)), 10, "iflg")
    BY <2>0, SlaveExchangeIs
  <2>2. Block(s, 0, 8)
    BY <2>1, BlockWider
  <2>3. ASSUME NEW x, NEW t, NEW w
        PROVE  /\ ~Has(s, Op("send", x, t, w))
               /\ Has(s, Op("recv", x, t, w)) <=> w = "iflg" /\ t = 10 /\ x = Rad(master_lat(q))
               /\ ~Has(s, Op("judge", x, t, w))
               /\ ~Has(s, Op("post", x, t, w))
               /\ ~Has(s, Op("waitlast", x, t, w))
    BY <2>1 DEF Op
  <2>4. ASSUME NEW x, NEW t, NEW w
        PROVE  /\ ~Sends(Rad(q), "exchange", x, t, w)
               /\ Sends(x, "exchange", Rad(q), t, w) <=>
                    w = "iflg" /\ t = 10 /\ x = Rad(master_lat(q))
               /\ ~Posts("exchange", x, Rad(q), t, w)
    BY RoutesOfSlave DEF Sends, Posts
  <2>5. Faithful(Rad(q), "exchange", s)
    BY <2>2, <2>3, <2>4 DEF Faithful
  <2> QED  BY <2>0, <2>5
<1>4. Faithful(Rad(q), "fields", SlaveFields(q))
  <2>0. PICK s : s = SlaveFields(q)
    OBVIOUS
  <2>1. /\ Block(s, 0, 8)
        /\ \A o : Active(o) => (Has(s, o) <=>
                \/ o = Op("post", Rad(master_lat(q)), 0, "")
                \/ o = Op("waitlast", Rad(master_lat(q)), 0, "")
                \/ HaloOps(q, "halo", o))
    BY <2>0, SlaveFieldsIs
  <2>3. ASSUME NEW x, NEW t, NEW w
        PROVE  /\ Has(s, Op("send", x, t, w)) <=> w = "halo" /\ Halos(Rad(q), x, t)
               /\ Has(s, Op("recv", x, t, w)) <=> w = "halo" /\ Halos(x, Rad(q), t)
               /\ ~Has(s, Op("judge", x, t, w))
               /\ Has(s, Op("post", x, t, w)) <=> MasterSlave(x, Rad(q)) /\ t = 0 /\ w = ""
               /\ Has(s, Op("waitlast", x, t, w)) <=> MasterSlave(x, Rad(q)) /\ t = 0 /\ w = ""
    <3>a. /\ HaloOps(q, "halo", Op("send", x, t, w)) <=> w = "halo" /\ Halos(Rad(q), x, t)
          /\ HaloOps(q, "halo", Op("recv", x, t, w)) <=> w = "halo" /\ Halos(x, Rad(q), t)
          /\ ~HaloOps(q, "halo", Op("judge", x, t, w)) /\ ~HaloOps(q, "halo", Op("post", x, t, w))
          /\ ~HaloOps(q, "halo", Op("waitlast", x, t, w))
      BY HaloTable
    <3>0. PICK y : y = Rad(master_lat(q))
      OBVIOUS
    <3>f. \A o : Active(o) => (Has(s, o) <=> \/ o = Op("post", y, 0, "")
                                              \/ o = Op("waitlast", y, 0, "")
                                              \/ HaloOps(q, "halo", o))
      BY <2>1, <3>0
    <3>1. Has(s, Op("send", x, t, w)) <=> w = "halo" /\ Halos(Rad(q), x, t)
      BY <3>f, <3>a, ActiveKinds DEF Op
    <3>2. Has(s, Op("recv", x, t, w)) <=> w = "halo" /\ Halos(x, Rad(q), t)
      BY <3>f, <3>a, ActiveKinds DEF Op
    <3>3. ~Has(s, Op("judge", x, t, w))
      BY <3>f, <3>a, ActiveKinds DEF Op
    <3>4. Has(s, Op("post", x, t, w)) <=> MasterSlave(x, Rad(q)) /\ t = 0 /\ w = ""
      BY <1>1, <3>0, <3>f, <3>a, ActiveKinds DEF Op
    <3>5. Has(s, Op("waitlast", x, t, w)) <=> MasterSlave(x, Rad(q)) /\ t = 0 /\ w = ""
      BY <1>1, <3>0, <3>f, <3>a, ActiveKinds DEF Op
    <3> QED  BY <3>1, <3>2, <3>3, <3>4, <3>5
  <2>4. ASSUME NEW x, NEW t, NEW w
        PROVE  /\ Sends(Rad(q), "fields", x, t, w) <=> w = "halo" /\ Halos(Rad(q), x, t)
               /\ Sends(x, "fields", Rad(q), t, w) /\ ~Posts("fields", x, Rad(q), t, w)
                     <=> w = "halo" /\ Halos(x, Rad(q), t)
    <3>1. /\ Sends(Rad(q), "fields", x, t, w) <=> w = "halo" /\ Halos(Rad(q), x, t)
          /\ Sends(x, "fields", Rad(q), t, w) <=> \/ AField(t, w) /\ MasterSlave(x, Rad(q))
                                                  \/ w = "halo" /\ Halos(x, Rad(q), t)
      BY <1>1, RoutesOfSlave DEF Sends
    <3>2. w = "halo" => ~AField(t, w)
      BY FieldsAre DEF AField, Others
    <3> QED  BY <3>1, <3>2 DEF Posts
  <2>5. \A x, t, w : Has(s, Op("send", x, t, w)) <=> Sends(Rad(q), "fields", x, t, w)
    BY <2>3, <2>4
  <2>6. \A x, t, w : Has(s, Op("recv", x, t, w)) <=>
                        Sends(x, "fields", Rad(q), t, w) /\ ~Posts("fields", x, Rad(q), t, w)
    BY <2>3, <2>4
  <2>7. ASSUME NEW x, NEW t, NEW w
        PROVE  /\ Has(s, Op("judge", x, t, w)) <=>
                     "fields" = "picard" /\ Rad(q) = Rad(0) /\ x = 0 /\ t = 0 /\ w = ""
               /\ Has(s, Op("post", x, t, w)) <=>
                     "fields" = "fields" /\ MasterSlave(x, Rad(q)) /\ t = 0 /\ w = ""
               /\ Has(s, Op("waitlast", x, t, w)) <=>
                     "fields" = "fields" /\ MasterSlave(x, Rad(q)) /\ t = 0 /\ w = ""
    <3>1. ~Has(s, Op("judge", x, t, w))
      BY <2>3
    <3>2. Has(s, Op("post", x, t, w)) <=> MasterSlave(x, Rad(q)) /\ t = 0 /\ w = ""
      BY <2>3
    <3>3. Has(s, Op("waitlast", x, t, w)) <=> MasterSlave(x, Rad(q)) /\ t = 0 /\ w = ""
      BY <2>3
    <3> QED  BY <3>1, <3>2, <3>3
  <2>8. Faithful(Rad(q), "fields", s)
    BY <2>1, <2>5, <2>6, <2>7, Zenon DEF Faithful
  <2> QED  BY <2>0, <2>8
<1>5. Faithful(Rad(q), "picard", SlavePicard(q))
  <2>0. PICK s : s = SlavePicard(q)
    OBVIOUS
  <2>1. /\ Block(s, 0, 8)
        /\ \A o : Active(o) => (Has(s, o) <=> SlavePicardOps(q, o))
    BY <2>0, SlavePicardIs
  <2>3. ASSUME NEW x, NEW t, NEW w
        PROVE  /\ SlavePicardOps(q, Op("send", x, t, w)) <=> Iterated(Rad(q), x, t, w)
               /\ SlavePicardOps(q, Op("recv", x, t, w)) <=> Iterated(x, Rad(q), t, w)
               /\ ~SlavePicardOps(q, Op("judge", x, t, w))
               /\ ~SlavePicardOps(q, Op("post", x, t, w))
               /\ ~SlavePicardOps(q, Op("waitlast", x, t, w))
    <3>a. /\ HaloOps(q, "halo", Op("send", x, t, w)) <=> w = "halo" /\ Halos(Rad(q), x, t)
          /\ HaloOps(q, "halo", Op("recv", x, t, w)) <=> w = "halo" /\ Halos(x, Rad(q), t)
          /\ ~HaloOps(q, "halo", Op("judge", x, t, w)) /\ ~HaloOps(q, "halo", Op("post", x, t, w))
          /\ ~HaloOps(q, "halo", Op("waitlast", x, t, w))
      BY HaloTable
    <3>c. /\ VerdictOps(q, Op("send", x, t, w)) <=>
                q = 0 /\ x # Rad(0) /\ (\E n \in RadRank : x = Rad(n)) /\ t = 10 /\ w = "iexit"
          /\ VerdictOps(q, Op("recv", x, t, w)) <=> q # 0 /\ x = Rad(0) /\ t = 10 /\ w = "iexit"
          /\ VerdictOps(q, Op("judge", x, t, w)) <=> q = 0 /\ x = 0 /\ t = 0 /\ w = ""
          /\ ~VerdictOps(q, Op("post", x, t, w)) /\ ~VerdictOps(q, Op("waitlast", x, t, w))
      BY VerdictTable
    <3>d. /\ Iterated(Rad(q), x, t, w) <=>
                \/ w = "halo" /\ Halos(Rad(q), x, t)
                \/ w = "dE" /\ t = 10 /\ x = Rad(master_lat(q))
                \/ w = "ads" /\ t = 10 /\ x = Rad(master_lat(q))
          /\ Iterated(x, Rad(q), t, w) <=>
                \/ w = "tmp" /\ t = 10 /\ x = Rad(master_lat(q))
                \/ w = "E" /\ t = 20 /\ x = Rad(master_lat(q))
                \/ w = "halo" /\ Halos(x, Rad(q), t)
                \/ w = "iexit" /\ t = 10 /\ x = Rad(0)
      BY RoutesOfSlave
    <3>1. SlavePicardOps(q, Op("send", x, t, w)) <=>
            \/ w = "dE" /\ t = 10 /\ x = Rad(master_lat(q))
            \/ w = "ads" /\ t = 10 /\ x = Rad(master_lat(q))
            \/ HaloOps(q, "halo", Op("send", x, t, w))
            \/ VerdictOps(q, Op("send", x, t, w))
      BY OpSame DEF SlavePicardOps
    <3>2. SlavePicardOps(q, Op("send", x, t, w)) <=> Iterated(Rad(q), x, t, w)
      BY <1>2, <3>1, <3>a, <3>c, <3>d
    <3>3. SlavePicardOps(q, Op("recv", x, t, w)) <=>
            \/ w = "tmp" /\ t = 10 /\ x = Rad(master_lat(q))
            \/ w = "E" /\ t = 20 /\ x = Rad(master_lat(q))
            \/ HaloOps(q, "halo", Op("recv", x, t, w))
            \/ VerdictOps(q, Op("recv", x, t, w))
      BY OpSame DEF SlavePicardOps
    <3>4. SlavePicardOps(q, Op("recv", x, t, w)) <=> Iterated(x, Rad(q), t, w)
      BY <1>2, <3>3, <3>a, <3>c, <3>d
    <3>5. ~SlavePicardOps(q, Op("judge", x, t, w))
      BY <1>2, <3>a, <3>c DEF SlavePicardOps, Op
    <3>6. /\ ~SlavePicardOps(q, Op("post", x, t, w))
          /\ ~SlavePicardOps(q, Op("waitlast", x, t, w))
      BY <3>a, <3>c DEF SlavePicardOps, Op
    <3> QED  BY <3>2, <3>4, <3>5, <3>6
  <2>4. ASSUME NEW x, NEW t, NEW w
        PROVE  /\ Sends(Rad(q), "picard", x, t, w) <=> Iterated(Rad(q), x, t, w)
               /\ Sends(x, "picard", Rad(q), t, w) <=> Iterated(x, Rad(q), t, w)
               /\ ~Posts("picard", x, Rad(q), t, w)
    BY DEF Sends, Posts
  <2>5. Rad(q) # Rad(0)
    BY <1>2, RadSame, RadInt
  <2>6. ASSUME NEW x, NEW t, NEW w
        PROVE  /\ Has(s, Op("send", x, t, w)) <=> Sends(Rad(q), "picard", x, t, w)
               /\ Has(s, Op("recv", x, t, w)) <=>
                     Sends(x, "picard", Rad(q), t, w) /\ ~Posts("picard", x, Rad(q), t, w)
               /\ Has(s, Op("judge", x, t, w)) <=> Rad(q) = Rad(0) /\ x = 0 /\ t = 0 /\ w = ""
               /\ ~Has(s, Op("post", x, t, w)) /\ ~Has(s, Op("waitlast", x, t, w))
    <3>1. /\ Has(s, Op("send", x, t, w)) <=> SlavePicardOps(q, Op("send", x, t, w))
          /\ Has(s, Op("recv", x, t, w)) <=> SlavePicardOps(q, Op("recv", x, t, w))
          /\ Has(s, Op("judge", x, t, w)) <=> SlavePicardOps(q, Op("judge", x, t, w))
          /\ Has(s, Op("post", x, t, w)) <=> SlavePicardOps(q, Op("post", x, t, w))
          /\ Has(s, Op("waitlast", x, t, w)) <=> SlavePicardOps(q, Op("waitlast", x, t, w))
      BY <2>1, ActiveKinds
    <3>2. Has(s, Op("send", x, t, w)) <=> Sends(Rad(q), "picard", x, t, w)
      BY <3>1, <2>3, <2>4
    <3>3. Has(s, Op("recv", x, t, w)) <=>
             Sends(x, "picard", Rad(q), t, w) /\ ~Posts("picard", x, Rad(q), t, w)
      BY <3>1, <2>3, <2>4
    <3>4. Has(s, Op("judge", x, t, w)) <=> Rad(q) = Rad(0) /\ x = 0 /\ t = 0 /\ w = ""
      BY <3>1, <2>3, <2>5
    <3>5. ~Has(s, Op("post", x, t, w)) /\ ~Has(s, Op("waitlast", x, t, w))
      BY <3>1, <2>3
    <3> QED  BY <3>2, <3>3, <3>4, <3>5
  <2>7. Faithful(Rad(q), "picard", s)
    BY <2>1, <2>6 DEF Faithful
  <2> QED  BY <2>0, <2>7
<1> QED  BY <1>3, <1>4, <1>5
LEMMA HaloApart ==
    ASSUME NEW q \in RadRank
    PROVE  /\ rank1(q) > -1 => Rad(q) # Rad(rank1(q))
           /\ rank2(q) > -1 => Rad(q) # Rad(rank2(q))
<1>1. q \in JupiterProc \/ ~IsMaster(q)
  BY SizeAssumption DEF IsMaster, JupiterProc, RadRank
<1>2. master_lat(q) \in 0 .. N - 1
  BY MasterLat
<1>3. rank1(q) > -1 => rank1(q) \in RadRank /\ master_lat(rank1(q)) = master_lat(q) - 1
  <2>1. CASE master_lat(q) = 0
    BY <2>1 DEF rank1
  <2>2. CASE master_lat(q) # 0
    <3>1. master_lat(q) - 1 \in 0 .. N - 1
      BY <1>2, <2>2, SizeAssumption
    <3>2. rank1(q) = Corresponding(q, master_lat(q) - 1)
      BY <2>2 DEF rank1
    <3> QED  BY <3>1, <3>2, CorrespondingIs
  <2> QED  BY <2>1, <2>2
<1>4. rank2(q) > -1 => rank2(q) \in RadRank /\ master_lat(rank2(q)) = master_lat(q) + 1
  <2>1. CASE master_lat(q) = N - 1
    BY <2>1 DEF rank2
  <2>2. CASE master_lat(q) # N - 1
    <3>1. master_lat(q) + 1 \in 0 .. N - 1
      BY <1>2, <2>2, SizeAssumption
    <3>2. rank2(q) = Corresponding(q, master_lat(q) + 1)
      BY <2>2 DEF rank2
    <3> QED  BY <3>1, <3>2, CorrespondingIs
  <2> QED  BY <2>1, <2>2
<1>5. rank1(q) > -1 => rank1(q) # q
  BY <1>2, <1>3, SizeAssumption
<1>6. rank2(q) > -1 => rank2(q) # q
  BY <1>2, <1>4, SizeAssumption
<1> QED  BY <1>3, <1>4, <1>5, <1>6, RadSame

-------------------------------------------------------------------------------
\* All that is needed about the scripts.
LEMMA ScriptFaithful ==
    ASSUME NEW p \in Proc, NEW g \in Segments
    PROVE  Faithful(p, g, ScriptTable[p][g])
<1>1. ScriptTable[p][g] = Script(p, g)
  BY DEF ScriptTable
<1>2. CASE g \in {"idle", "done"}
  BY <1>1, <1>2, NothingFaithful DEF Script
<1>3. CASE p \in JupiterProc /\ g \notin {"idle", "done"}
  <2>1. p \notin RadProc
    BY <1>3, RadInt
  <2>2. CASE g = "exchange"
    BY <1>1, <1>3, <2>1, <2>2, JupiterFaithful DEF Script
  <2>3. CASE g = "fields"
    BY <1>1, <1>3, <2>1, <2>3, JupiterFaithful DEF Script
  <2>4. CASE g = "picard"
    BY <1>1, <1>3, <2>1, <2>4, NothingFaithful DEF Script
  <2> QED  BY <1>3, <2>2, <2>3, <2>4 DEF Segments
<1>4. CASE p \in RadProc /\ g \notin {"idle", "done"}
  <2>1. PICK q \in RadRank : q = myrank(p) /\ p = Rad(q)
    BY <1>4, RadInt
  <2>2. p \notin JupiterProc
    BY <1>4, RadInt
  <2>3. ASSUME IsMaster(q) PROVE Faithful(p, g, ScriptTable[p][g])
    <3>1. CASE g = "exchange"
      BY <1>1, <1>4, <2>1, <2>2, <2>3, <3>1, MasterFaithful DEF Script
    <3>2. CASE g = "fields"
      BY <1>1, <1>4, <2>1, <2>2, <2>3, <3>2, MasterFaithful DEF Script
    <3>3. CASE g = "picard"
      BY <1>1, <1>4, <2>1, <2>2, <2>3, <3>3, MasterFaithful DEF Script
    <3> QED  BY <1>4, <3>1, <3>2, <3>3 DEF Segments
  <2>4. ASSUME ~IsMaster(q) PROVE Faithful(p, g, ScriptTable[p][g])
    <3>1. CASE g = "exchange"
      BY <1>1, <1>4, <2>1, <2>2, <2>4, <3>1, SlaveFaithful DEF Script
    <3>2. CASE g = "fields"
      BY <1>1, <1>4, <2>1, <2>2, <2>4, <3>2, SlaveFaithful DEF Script
    <3>3. CASE g = "picard"
      BY <1>1, <1>4, <2>1, <2>2, <2>4, <3>3, SlaveFaithful DEF Script
    <3> QED  BY <1>4, <3>1, <3>2, <3>3 DEF Segments
  <2> QED  BY <2>3, <2>4
<1> QED  BY <1>2, <1>3, <1>4 DEF Proc

LEMMA HaloProcs ==
    ASSUME NEW s, NEW d, NEW t, Halos(s, d, t)
    PROVE  s \in RadProc /\ d \in RadProc /\ t \in Int
<1>1. PICK q \in RadRank : /\ s = Rad(q)
                           /\ \/ rank1(q) > -1 /\ t = 20 /\ d = Rad(rank1(q))
                              \/ rank2(q) > -1 /\ t = 10 /\ d = Rad(rank2(q))
  BY DEF Halos
<1>2. /\ rank1(q) > -1 => rank1(q) \in RadRank
      /\ rank2(q) > -1 => rank2(q) \in RadRank
  BY Neighbours
<1> QED  BY <1>1, <1>2, RadInt

LEMMA MasterSlaveProcs ==
    ASSUME NEW s, NEW d, MasterSlave(s, d)
    PROVE  /\ s \in RadProc /\ d \in RadProc
           /\ s = Rad(master_lat(myrank(d))) /\ ~IsMaster(myrank(d)) /\ IsMaster(myrank(s))
<1>1. PICK x \in RadRank : ~IsMaster(x) /\ s = Rad(master_lat(x)) /\ d = Rad(x)
  BY DEF MasterSlave
<1>2. master_lat(x) \in JupiterProc
  BY MasterLat DEF JupiterProc
<1>3. master_lat(x) \in RadRank /\ IsMaster(master_lat(x))
  BY <1>2, RadInt
<1>4. /\ Rad(x) \in RadProc /\ myrank(Rad(x)) = x
      /\ Rad(master_lat(x)) \in RadProc /\ myrank(Rad(master_lat(x))) = master_lat(x)
  BY <1>3, RadInt
<1> QED  BY <1>1, <1>3, <1>4

\* Who sends, to whom, what, and where the call is.
LEMMA SendsIs ==
    ASSUME NEW s, NEW g, NEW d, NEW t, NEW w, Sends(s, g, d, t, w)
    PROVE  /\ s \in Proc /\ d \in Proc /\ t \in Int /\ w \in Whats
           /\ g \in {"exchange", "fields", "picard"}
           /\ g = "exchange" <=> w \in {"heat", "iflg"}
           /\ g = "picard" => s \in RadProc /\ d \in RadProc
           /\ s # d
<1>0. /\ \A w1 \in Others : w1 \in Whats
      /\ \A w1 \in FieldSet : w1 \in Whats
  BY StagesAre
<1>1. CASE g = "exchange" /\ Exchanged(s, d, t, w)
  <2>1. w \in {"heat", "iflg"} /\ t \in Int /\ w \in Whats
    BY <1>0, <1>1 DEF Exchanged, Others
  <2>2. s \in Proc /\ d \in Proc /\ s # d
    <3>1. CASE d \in JupiterProc /\ s = Rad(d)
      BY <3>1, RadInt DEF Proc
    <3>2. CASE s \in JupiterProc /\ d = Rad(s)
      BY <3>2, RadInt DEF Proc
    <3>3. CASE MasterSlave(s, d)
      BY <3>3, MasterSlaveProcs DEF Proc
    <3> QED  BY <1>1, <3>1, <3>2, <3>3 DEF Exchanged
  <2> QED  BY <1>1, <2>1, <2>2
<1>2. CASE g = "fields" /\ Passed(s, d, t, w)
  <2>1. CASE AField(t, w)
    <3>1. w \in FieldSet /\ t \in Int
      BY <2>1, FieldsAre, TagsAre DEF AField
    <3>2. w \notin {"heat", "iflg"} /\ w \in Whats
      BY <3>1, <1>0, FieldsAre DEF Others
    <3>3. CASE s \in JupiterProc /\ d = Rad(s)
      BY <1>2, <3>1, <3>2, <3>3, RadInt DEF Proc
    <3>4. CASE MasterSlave(s, d)
      BY <1>2, <3>1, <3>2, <3>4, MasterSlaveProcs DEF Proc
    <3>5. CASE w = "halo"
      BY <2>1, <3>1, <3>5, FieldsAre DEF Others
    <3> QED  BY <1>2, <3>3, <3>4, <3>5 DEF Passed
  <2>2. CASE w = "halo" /\ Halos(s, d, t)
    <3>1. s \in RadProc /\ d \in RadProc /\ t \in Int
      BY <2>2, HaloProcs
    <3>2. s # d
      <4>1. PICK q \in RadRank : /\ s = Rad(q)
                                 /\ \/ rank1(q) > -1 /\ d = Rad(rank1(q))
                                    \/ rank2(q) > -1 /\ d = Rad(rank2(q))
        BY <2>2 DEF Halos
      <4> QED  BY <4>1, HaloApart
    <3>3. w \in Whats
      BY <1>0, <2>2 DEF Others
    <3> QED  BY <1>2, <2>2, <3>1, <3>2, <3>3 DEF Proc
  <2> QED  BY <1>2, <2>1, <2>2 DEF Passed
<1>3. CASE g = "picard" /\ Iterated(s, d, t, w)
  <2>1. t \in Int /\ w \in Whats /\ w \notin {"heat", "iflg"}
    <3>1. w \in {"halo", "boundary"} => t \in Int
      BY <1>3, HaloProcs DEF Iterated
    <3>2. w \in {"tmp", "E", "halo", "dE", "ads", "boundary", "error", "iexit"}
      BY <1>3 DEF Iterated
    <3>3. w \notin {"halo", "boundary"} => t \in Int
      BY <1>3 DEF Iterated
    <3>4. w \in Whats
      BY <1>0, <3>2, FieldsAre DEF Others
    <3> QED  BY <3>1, <3>2, <3>3, <3>4
  <2>2. s \in RadProc /\ d \in RadProc /\ s # d
    <3>1. CASE Halos(s, d, t)
      <4>1. PICK q \in RadRank : /\ s = Rad(q)
                                 /\ \/ rank1(q) > -1 /\ d = Rad(rank1(q))
                                    \/ rank2(q) > -1 /\ d = Rad(rank2(q))
        BY <3>1 DEF Halos
      <4> QED  BY <3>1, <4>1, HaloApart, HaloProcs
    <3>2. CASE MasterSlave(s, d) \/ MasterSlave(d, s)
      BY <3>2, MasterSlaveProcs
    <3>3. CASE s # Rad(0) /\ (\E m \in 0 .. N - 1 : s = Rad(m)) /\ d = Rad(0)
      BY <3>3, RadInt DEF JupiterProc
    <3>4. CASE s = Rad(0) /\ d # Rad(0) /\ (\E n \in RadRank : d = Rad(n))
      BY <3>4, RadInt DEF JupiterProc
    <3> QED  BY <1>3, <3>1, <3>2, <3>3, <3>4 DEF Iterated
  <2> QED  BY <1>3, <2>1, <2>2 DEF Proc
<1> QED  BY <1>1, <1>2, <1>3 DEF Sends

\* A halo joins two masters or two slaves.
LEMMA MasterNoHalo ==
    ASSUME NEW s, NEW d, NEW t, MasterSlave(s, d)
    PROVE  ~Halos(s, d, t)
<1>1. SUFFICES ASSUME Halos(s, d, t) PROVE FALSE
  OBVIOUS
<1>2. PICK x \in RadRank : ~IsMaster(x) /\ s = Rad(master_lat(x)) /\ d = Rad(x)
  BY DEF MasterSlave
<1>3. PICK q \in RadRank : /\ s = Rad(q)
                           /\ \/ rank1(q) > -1 /\ d = Rad(rank1(q))
                              \/ rank2(q) > -1 /\ d = Rad(rank2(q))
  BY <1>1 DEF Halos
<1>4. master_lat(x) \in JupiterProc
  BY MasterLat DEF JupiterProc
<1>5. master_lat(x) \in RadRank /\ IsMaster(master_lat(x))
  BY <1>4, RadInt
<1>6. q = master_lat(x)
  BY <1>2, <1>3, <1>5, RadSame
<1>7. /\ rank1(q) > -1 => rank1(q) \in RadRank
      /\ rank2(q) > -1 => rank2(q) \in RadRank
  BY Neighbours
<1>8. /\ rank1(q) > -1 /\ d = Rad(rank1(q)) => x = rank1(q)
      /\ rank2(q) > -1 /\ d = Rad(rank2(q)) => x = rank2(q)
  BY <1>2, <1>7, RadSame
<1>9. /\ rank1(q) > -1 => IsMaster(rank1(q))
      /\ rank2(q) > -1 => IsMaster(rank2(q))
  BY <1>5, <1>6, MasterNeighbours
<1> QED  BY <1>2, <1>3, <1>8, <1>9

LEMMA AFieldIs ==
    ASSUME NEW t, NEW w, AField(t, w)
    PROVE  w \in FieldSet /\ w \notin Others /\ SendStage(w) = 2 /\ RecvStage(w) = 1 /\ t \in Int
<1>1. PICK k \in DOMAIN Fields : t = FieldTag(k) /\ w = Fields[k]
  BY DEF AField
<1>2. w \in FieldSet
  BY <1>1, FieldsAre
<1>3. w \notin Others
  BY <1>2, FieldsAre
<1>4. SendStage(w) = 2 /\ RecvStage(w) = 1
  BY <1>2, StagesAre
<1>5. t \in Int
  BY <1>1, TagsAre
<1> QED  BY <1>2, <1>3, <1>4, <1>5

\* Messages of one tag on one link, in one segment, have different stages.
LEMMA SameStage ==
    ASSUME NEW s, NEW g, NEW d, NEW t, NEW w, NEW v,
           Sends(s, g, d, t, w), Sends(s, g, d, t, v), SendStage(w) = SendStage(v)
    PROVE  w = v
<1>1. CASE g = "exchange"
  BY <1>1 DEF Sends, Exchanged, SendStage
<1>2. CASE g = "fields"
  <2>1. Passed(s, d, t, w) /\ Passed(s, d, t, v)
    BY <1>2 DEF Sends
  <2>2. /\ AField(t, w) \/ w = "halo"
        /\ AField(t, v) \/ v = "halo"
    BY <2>1 DEF Passed
  <2>3. AField(t, w) /\ AField(t, v) => w = v
    BY TagsAre DEF AField
  <2>4. /\ AField(t, w) => SendStage(w) = 2
        /\ AField(t, v) => SendStage(v) = 2
    BY AFieldIs
  <2>5. SendStage("halo") = 3
    BY StagesAre
  <2> QED  BY <2>2, <2>3, <2>4, <2>5
<1>3. CASE g = "picard"
  <2>1. Iterated(s, d, t, w) /\ Iterated(s, d, t, v)
    BY <1>3 DEF Sends
  <2>2. /\ w \in {"tmp", "E", "halo", "dE", "ads", "boundary", "error", "iexit"}
        /\ v \in {"tmp", "E", "halo", "dE", "ads", "boundary", "error", "iexit"}
        /\ w = "tmp" => t = 10
        /\ w = "E" => t = 20
        /\ v = "tmp" => t = 10
        /\ v = "E" => t = 20
    BY <2>1 DEF Iterated
  <2>3. ~(MasterSlave(d, s) /\ \E m \in 0 .. N - 1 : s = Rad(m))
    <3>1. ASSUME NEW m \in 0 .. N - 1 PROVE ~MasterSlave(d, Rad(m))
      <4>1. m \in RadRank /\ IsMaster(m)
        BY RadInt DEF JupiterProc
      <4> QED  BY <4>1, MasterSlaveIs
    <3> QED  BY <3>1
  <2>4. ~(w = "ads" /\ v = "boundary") /\ ~(w = "boundary" /\ v = "ads")
    BY <2>1, <2>3 DEF Iterated
  <2> QED  BY <2>2, <2>4 DEF SendStage
<1> QED  BY <1>1, <1>2, <1>3 DEF Sends

LEMMA StagesRelated ==
    ASSUME NEW w
    PROVE  /\ SendStage(w) \in {0, 2, 3, 4, 5, 6, 8}
           /\ RecvStage(w) = IF SendStage(w) = 2 THEN 1 ELSE SendStage(w)
BY DEF SendStage, RecvStage

\* A posted receive.
LEMMA PostsIs ==
    ASSUME NEW g, NEW s, NEW d, NEW t, NEW w
    PROVE  /\ Posts(g, s, d, t, w) =>
                 /\ g = "fields" /\ s \in RadProc /\ d \in RadProc /\ w \in FieldSet
                 /\ s = Rad(master_lat(myrank(d))) /\ ~IsMaster(myrank(d))
                 /\ Sends(s, g, d, t, w)
                 /\ \E k \in DOMAIN Fields : t = FieldTag(k) /\ w = Fields[k]
           /\ \A v : Posts(g, s, d, t, w) /\ Sends(s, g, d, t, v) => v = w
<1>1. ASSUME Posts(g, s, d, t, w)
      PROVE  /\ g = "fields" /\ s \in RadProc /\ d \in RadProc /\ w \in FieldSet
             /\ s = Rad(master_lat(myrank(d))) /\ ~IsMaster(myrank(d))
             /\ Sends(s, g, d, t, w)
             /\ \E k \in DOMAIN Fields : t = FieldTag(k) /\ w = Fields[k]
  <2>1. g = "fields" /\ AField(t, w) /\ MasterSlave(s, d)
    BY <1>1 DEF Posts
  <2>2. Sends(s, g, d, t, w)
    BY <2>1 DEF Sends, Passed
  <2>3. w \in FieldSet
    BY <2>1, AFieldIs
  <2> QED  BY <2>1, <2>2, <2>3, MasterSlaveProcs DEF AField
<1>2. ASSUME NEW v, Posts(g, s, d, t, w), Sends(s, g, d, t, v)
      PROVE  v = w
  <2>1. g = "fields" /\ AField(t, w) /\ MasterSlave(s, d)
    BY <1>2 DEF Posts
  <2>2. Passed(s, d, t, v)
    BY <1>2, <2>1 DEF Sends
  <2>3. ~Halos(s, d, t)
    BY <2>1, MasterNoHalo
  <2>4. AField(t, v)
    BY <2>2, <2>3 DEF Passed
  <2> QED  BY <2>1, <2>4, TagsAre DEF AField
<1> QED  BY <1>1, <1>2

-------------------------------------------------------------------------------
\* The calls that a process has made in its segment.
MadeAt(p, g, i) == {o \in OpSet : Active(o) /\ \E j \in 1 .. i - 1 : ScriptTable[p][g][j] = o}

LEMMA ScriptIs ==
    ASSUME NEW p \in Proc, NEW g \in Segments
    PROVE  \E n \in Nat : /\ n = Len(ScriptTable[p][g]) /\ DOMAIN ScriptTable[p][g] = 1 .. n
                          /\ \A i \in 1 .. n : ScriptTable[p][g][i] \in OpSet
                          /\ Block(ScriptTable[p][g], 0, 8)
<1>1. Block(ScriptTable[p][g], 0, 8)
  BY ScriptFaithful DEF Faithful
<1>2. ScriptTable[p][g] \in Seq(OpSet)
  BY <1>1 DEF Block
<1> QED  BY <1>1, <1>2

LEMMA MadeIs ==
    ASSUME NEW p \in Proc, NEW g \in Segments, NEW n \in Nat, n = Len(ScriptTable[p][g])
    PROVE  /\ MadeAt(p, g, 1) = {}
           /\ \A i \in 1 .. n + 1 : \A o \in MadeAt(p, g, i) :
                 /\ Active(o) /\ Has(ScriptTable[p][g], o)
                 /\ \A x : Active(x) /\ Has(ScriptTable[p][g], x) /\ Stage(x) < Stage(o) =>
                       x \in MadeAt(p, g, i)
           /\ \A i \in 1 .. n : Active(ScriptTable[p][g][i]) =>
                 /\ ScriptTable[p][g][i] \notin MadeAt(p, g, i)
                 /\ \A o \in MadeAt(p, g, i) : Stage(o) <= Stage(ScriptTable[p][g][i])
                 /\ \A x : /\ Active(x) /\ Has(ScriptTable[p][g], x)
                           /\ Stage(x) < Stage(ScriptTable[p][g][i])
                           => x \in MadeAt(p, g, i)
           /\ \A x : Active(x) /\ Has(ScriptTable[p][g], x) => x \in MadeAt(p, g, n + 1)
<1>1. PICK s : s = ScriptTable[p][g]
  OBVIOUS
<1>2. /\ DOMAIN s = 1 .. n
      /\ \A i \in 1 .. n : s[i] \in OpSet
      /\ \A i, j \in 1 .. n : i < j /\ Active(s[i]) /\ Active(s[j]) =>
            Stage(s[i]) <= Stage(s[j]) /\ s[i] # s[j]
  BY <1>1, ScriptIs DEF Block
<1>3. \A i : \A o : o \in MadeAt(p, g, i) <=>
                o \in OpSet /\ Active(o) /\ \E j \in 1 .. i - 1 : s[j] = o
  BY <1>1 DEF MadeAt
<1>4. \A o : Has(s, o) <=> \E j \in 1 .. n : s[j] = o
  BY <1>2 DEF Has
<1>5. \A o : Stage(o) \in Int
  BY StageIs
<1>6. MadeAt(p, g, 1) = {}
  <2>1. \A o : o \notin MadeAt(p, g, 1)
    BY <1>3
  <2> QED  BY <2>1
<1>7. ASSUME NEW i \in 1 .. n + 1, NEW o \in MadeAt(p, g, i)
      PROVE  /\ Active(o) /\ Has(s, o)
             /\ \A x : Active(x) /\ Has(s, x) /\ Stage(x) < Stage(o) => x \in MadeAt(p, g, i)
  <2>1. Active(o) /\ o \in OpSet
    BY <1>3, <1>7
  <2>2. PICK j \in 1 .. i - 1 : s[j] = o
    BY <1>3, <1>7
  <2>3. j \in 1 .. n
    BY <2>2
  <2>4. ASSUME NEW x, Active(x), Has(s, x), Stage(x) < Stage(o) PROVE x \in MadeAt(p, g, i)
    <3>1. PICK k \in 1 .. n : s[k] = x
      BY <2>4, <1>4
    <3>2. ~(j < k)
      BY <1>2, <1>5, <2>1, <2>2, <2>3, <2>4, <3>1
    <3>3. k \in 1 .. i - 1 /\ x \in OpSet
      BY <1>2, <2>2, <3>1, <3>2
    <3> QED  BY <1>3, <2>4, <3>1, <3>3
  <2> QED  BY <1>4, <2>1, <2>2, <2>3, <2>4
<1>8. ASSUME NEW i \in 1 .. n, Active(s[i])
      PROVE  /\ s[i] \notin MadeAt(p, g, i)
             /\ \A o \in MadeAt(p, g, i) : Stage(o) <= Stage(s[i])
             /\ \A x : Active(x) /\ Has(s, x) /\ Stage(x) < Stage(s[i]) => x \in MadeAt(p, g, i)
  <2>1. ASSUME NEW o \in MadeAt(p, g, i) PROVE Stage(o) <= Stage(s[i]) /\ o # s[i]
    <3>1. PICK j \in 1 .. i - 1 : s[j] = o
      BY <1>3, <2>1
    <3>2. Active(o) /\ j \in 1 .. n /\ j < i
      BY <1>3, <2>1, <3>1
    <3> QED  BY <1>2, <1>8, <3>1, <3>2
  <2>2. ASSUME NEW x, Active(x), Has(s, x), Stage(x) < Stage(s[i]) PROVE x \in MadeAt(p, g, i)
    <3>1. PICK k \in 1 .. n : s[k] = x
      BY <2>2, <1>4
    <3>2. ~(i < k) /\ k # i
      BY <1>2, <1>5, <1>8, <2>2, <3>1
    <3>3. k \in 1 .. i - 1 /\ x \in OpSet
      BY <1>2, <3>1, <3>2
    <3> QED  BY <1>3, <2>2, <3>1, <3>3
  <2> QED  BY <2>1, <2>2
<1>9. ASSUME NEW x, Active(x), Has(s, x) PROVE x \in MadeAt(p, g, n + 1)
  <2>1. PICK k \in 1 .. n : s[k] = x
    BY <1>9, <1>4
  <2>2. k \in 1 .. (n + 1) - 1 /\ x \in OpSet
    BY <1>2, <2>1
  <2> QED  BY <1>3, <1>9, <2>1, <2>2
<1> QED  BY <1>1, <1>6, <1>7, <1>8, <1>9

LEMMA NextMade ==
    ASSUME NEW p \in Proc, NEW g \in Segments, NEW n \in Nat, n = Len(ScriptTable[p][g]),
           NEW i \in 1 .. n, NEW e \in BOOLEAN
    PROVE  /\ NextCall[e][p][g][i] \in i + 1 .. n + 1
           /\ Active(ScriptTable[p][g][i]) =>
                 MadeAt(p, g, NextCall[e][p][g][i]) = MadeAt(p, g, i) \cup {ScriptTable[p][g][i]}
           /\ ~Active(ScriptTable[p][g][i]) =>
                 MadeAt(p, g, NextCall[e][p][g][i]) = MadeAt(p, g, i)
<1>1. PICK s : s = ScriptTable[p][g]
  OBVIOUS
<1>2. n = Len(s) /\ DOMAIN s = 1 .. n /\ \A j \in 1 .. n : s[j] \in OpSet
  BY <1>1, ScriptIs
<1>3. NextCall[e][p][g][i] = After(s, i, e)
  BY <1>1, <1>2 DEF NextCall
<1>4. PICK V : V = {k \in i + 1 .. n + 1 : (e /\ k <= n) => s[k].kind # "wait"}
  OBVIOUS
<1>5. V \subseteq Nat /\ V # {}
  <2>1. n + 1 \in V
    BY <1>4
  <2> QED  BY <1>4, <2>1
<1>6. PICK k : k = Min(V)
  OBVIOUS
<1>7. k \in V /\ \A v \in V : k <= v
  BY <1>5, <1>6, MinIs
<1>8. NextCall[e][p][g][i] = k
  <2>1. After(s, i, e) = Min(V)
    BY <1>2, <1>4 DEF After
  <2> QED  BY <1>3, <1>6, <2>1
<1>9. k \in i + 1 .. n + 1
  BY <1>4, <1>7
<1>10. ASSUME NEW j \in i + 1 .. k - 1 PROVE ~Active(s[j])
  <2>1. j \notin V
    BY <1>7, <1>9
  <2>2. j \in i + 1 .. n + 1
    BY <1>9
  <2> QED  BY <1>4, <2>1, <2>2 DEF Active
<1>11. \A l : \A o : o \in MadeAt(p, g, l) <=>
                o \in OpSet /\ Active(o) /\ \E j \in 1 .. l - 1 : s[j] = o
  BY <1>1 DEF MadeAt
<1>12. \A o : o \in MadeAt(p, g, k) <=> o \in MadeAt(p, g, i) \/ (o = s[i] /\ Active(s[i]))
  <2>1. ASSUME NEW o, o \in MadeAt(p, g, k)
        PROVE  o \in MadeAt(p, g, i) \/ (o = s[i] /\ Active(s[i]))
    <3>1. PICK j \in 1 .. k - 1 : s[j] = o
      BY <1>11, <2>1
    <3>2. Active(o) /\ o \in OpSet
      BY <1>11, <2>1
    <3>3. CASE j < i
      <4>1. j \in 1 .. i - 1
        BY <3>3
      <4> QED  BY <1>11, <3>1, <3>2, <4>1
    <3>4. CASE j > i
      <4>1. j \in i + 1 .. k - 1
        BY <3>4
      <4> QED  BY <1>10, <3>1, <3>2, <4>1
    <3> QED  BY <3>1, <3>2, <3>3, <3>4
  <2>2. ASSUME NEW o, o \in MadeAt(p, g, i) PROVE o \in MadeAt(p, g, k)
    <3>1. PICK j \in 1 .. i - 1 : s[j] = o
      BY <1>11, <2>2
    <3>2. j \in 1 .. k - 1
      BY <1>9
    <3> QED  BY <1>11, <2>2, <3>1, <3>2
  <2>3. ASSUME Active(s[i]) PROVE s[i] \in MadeAt(p, g, k)
    <3>1. i \in 1 .. k - 1
      BY <1>9
    <3> QED  BY <1>2, <1>11, <2>3, <3>1
  <2> QED  BY <2>1, <2>2, <2>3
<1> QED  BY <1>1, <1>8, <1>9, <1>12

-------------------------------------------------------------------------------
\* A link.  A message is an event: its round, the phase of that round in
\* which it is sent, its tag and what it carries.  The messages on a link
\* are the events that have been sent and not been received, and those of
\* one tag are in the order of sending.
Msg == [tag : Int, what : Whats, round : Nat, iteration : Nat, value : Int]

\* Phase 0 is the exchange, phase 1 the fields, and phase k + 1 Picard iteration k.
MsgPhase(m) == IF m.iteration > 0 THEN m.iteration + 1
               ELSE IF m.what \in {"heat", "iflg"} THEN 0 ELSE 1

Event == Nat \X Nat \X Int \X Whats
Ev(m) == <<m.round, MsgPhase(m), m.tag, m.what>>

Less(e, f) ==
    \/ e[1] < f[1]
    \/ e[1] = f[1] /\ e[2] < f[2]
    \/ e[1] = f[1] /\ e[2] = f[2] /\ SendStage(e[4]) < SendStage(f[4])

\* A holds what has been sent, B what has been received.
Chan(c, A, B) ==
    /\ c \in Seq(Msg)
    /\ \A i \in DOMAIN c : Ev(c[i]) \in A /\ Ev(c[i]) \notin B
    /\ \A e \in A : e \notin B => \E i \in DOMAIN c : Ev(c[i]) = e
    /\ \A i, j \in DOMAIN c : i < j /\ c[i].tag = c[j].tag => Less(Ev(c[i]), Ev(c[j]))
    /\ B \subseteq A

LEMMA EvIs ==
    ASSUME NEW m \in Msg
    PROVE  /\ Ev(m) \in Event /\ Ev(m)[1] = m.round /\ Ev(m)[2] = MsgPhase(m)
           /\ Ev(m)[3] = m.tag /\ Ev(m)[4] = m.what /\ MsgPhase(m) \in Nat
<1>1. /\ m.tag \in Int /\ m.what \in Whats /\ m.round \in Nat /\ m.iteration \in Nat
  BY DEF Msg
<1>2. MsgPhase(m) \in Nat
  BY <1>1 DEF MsgPhase
<1> QED  BY <1>1, <1>2 DEF Ev, Event

LEMMA LessIs ==
    ASSUME NEW e \in Event
    PROVE  ~Less(e, e)
<1>1. e[1] \in Nat /\ e[2] \in Nat /\ SendStage(e[4]) \in Nat
  BY StagesRelated DEF Event
<1> QED  BY <1>1 DEF Less

LEMMA Removed ==
    ASSUME NEW T, NEW c \in Seq(T), NEW n \in Nat, n = Len(c), NEW k \in 1 .. n
    PROVE  /\ RemoveAt(c, k) \in Seq(T) /\ Len(RemoveAt(c, k)) = n - 1
           /\ \A i \in 1 .. n - 1 : RemoveAt(c, k)[i] = IF i < k THEN c[i] ELSE c[i + 1]
<1>1. PICK a : a = SubSeq(c, 1, k - 1)
  OBVIOUS
<1>2. PICK b : b = SubSeq(c, k + 1, n)
  OBVIOUS
<1>3. a \in Seq(T) /\ Len(a) = k - 1 /\ \A i \in 1 .. k - 1 : a[i] = c[i]
  BY <1>1
<1>4. b \in Seq(T) /\ Len(b) = n - k /\ \A i \in 1 .. n - k : b[i] = c[k + i]
  BY <1>2
<1>5. RemoveAt(c, k) = a \o b
  BY <1>1, <1>2 DEF RemoveAt
<1>6. PICK r : r = a \o b
  OBVIOUS
<1>7. r \in Seq(T) /\ Len(r) = n - 1
  <2>1. a \in Seq(T) /\ b \in Seq(T)
    BY <1>3, <1>4
  <2>2. r \in Seq(T) /\ Len(r) = Len(a) + Len(b)
    BY <2>1, <1>6
  <2> QED  BY <2>2, <1>3, <1>4
<1>8. ASSUME NEW i \in 1 .. n - 1 PROVE r[i] = IF i < k THEN c[i] ELSE c[i + 1]
  <2>1. CASE i < k
    BY <2>1, <1>3, <1>4, <1>6
  <2>2. CASE i >= k
    <3>1. r[i] = b[i - (k - 1)]
      BY <2>2, <1>3, <1>4, <1>6
    <3>2. PICK j \in 1 .. n - k : j = i - (k - 1) /\ k + j = i + 1
      BY <2>2
    <3> QED  BY <2>2, <3>1, <3>2, <1>4
  <2> QED  BY <2>1, <2>2
<1> QED  BY <1>5, <1>6, <1>7, <1>8

LEMMA ChanSend ==
    ASSUME NEW c, NEW A, NEW B, Chan(c, A, B), NEW m \in Msg, Ev(m) \notin A,
           \A e \in A : e[3] = m.tag => Less(e, Ev(m))
    PROVE  /\ Chan(Append(c, m), A \cup {Ev(m)}, B)
           /\ \A i \in DOMAIN Append(c, m) :
                 (\E j \in DOMAIN c : Append(c, m)[i] = c[j]) \/ Append(c, m)[i] = m
<1>1. PICK n \in Nat : n = Len(c) /\ DOMAIN c = 1 .. n
  BY DEF Chan
<1>2. PICK r : r = Append(c, m)
  OBVIOUS
<1>3. /\ r \in Seq(Msg) /\ DOMAIN r = 1 .. n + 1 /\ r[n + 1] = m
      /\ \A i \in 1 .. n : r[i] = c[i]
  BY <1>1, <1>2 DEF Chan
<1>4. PICK x : x = Ev(m)
  OBVIOUS
<1>5. x \notin B
  BY <1>4 DEF Chan
<1>6. ASSUME NEW i \in 1 .. n + 1 PROVE Ev(r[i]) \in A \cup {x} /\ Ev(r[i]) \notin B
  <2>1. CASE i = n + 1
    BY <1>3, <1>4, <1>5, <2>1
  <2>2. CASE i \in 1 .. n
    BY <1>1, <1>3, <2>2 DEF Chan
  <2> QED  BY <2>1, <2>2
<1>7. ASSUME NEW e \in A \cup {x}, e \notin B PROVE \E i \in 1 .. n + 1 : Ev(r[i]) = e
  <2>1. CASE e = x
    <3>1. n + 1 \in 1 .. n + 1
      OBVIOUS
    <3> QED  BY <2>1, <3>1, <1>3, <1>4
  <2>2. CASE e \in A
    <3>1. PICK i \in 1 .. n : Ev(c[i]) = e
      BY <2>2, <1>1, <1>7 DEF Chan
    <3>2. i \in 1 .. n + 1
      OBVIOUS
    <3> QED  BY <3>1, <3>2, <1>3
  <2> QED  BY <2>1, <2>2, <1>7
<1>8. ASSUME NEW i \in 1 .. n + 1, NEW j \in 1 .. n + 1, i < j, r[i].tag = r[j].tag
      PROVE  Less(Ev(r[i]), Ev(r[j]))
  <2>0. i \in 1 .. n /\ r[i] = c[i]
    BY <1>3, <1>8
  <2>1. CASE j \in 1 .. n
    BY <2>0, <2>1, <1>1, <1>3, <1>8 DEF Chan
  <2>2. CASE j = n + 1
    <3>1. Ev(c[i]) \in A /\ c[i] \in Msg
      BY <2>0, <1>1 DEF Chan
    <3>2. Ev(c[i])[3] = m.tag
      BY <3>1, <2>0, <2>2, <1>3, <1>8, EvIs
    <3> QED  BY <2>0, <2>2, <3>1, <3>2, <1>3
  <2> QED  BY <2>1, <2>2
<1>9. B \subseteq A \cup {x}
  BY DEF Chan
<1>10. Chan(r, A \cup {x}, B)
  BY <1>3, <1>6, <1>7, <1>8, <1>9 DEF Chan
<1>11. \A i \in DOMAIN r : (\E j \in DOMAIN c : r[i] = c[j]) \/ r[i] = m
  BY <1>1, <1>3
<1> QED  BY <1>2, <1>4, <1>10, <1>11

LEMMA ChanTake ==
    ASSUME NEW c, NEW A, NEW B, A \subseteq Event, Chan(c, A, B), NEW k \in DOMAIN c
    PROVE  /\ Chan(RemoveAt(c, k), A, B \cup {Ev(c[k])})
           /\ \A i \in DOMAIN RemoveAt(c, k) : \E j \in DOMAIN c : RemoveAt(c, k)[i] = c[j]
<1>1. PICK n \in Nat : n = Len(c) /\ DOMAIN c = 1 .. n
  BY DEF Chan
<1>2. PICK r : r = RemoveAt(c, k)
  OBVIOUS
<1>3. r \in Seq(Msg) /\ Len(r) = n - 1 /\ \A i \in 1 .. n - 1 : r[i] = IF i < k THEN c[i] ELSE c[i + 1]
  <2>0. PICK T : T = Msg
    OBVIOUS
  <2>1. c \in Seq(T) /\ k \in 1 .. n /\ n = Len(c)
    BY <1>1, <2>0 DEF Chan
  <2>2. /\ RemoveAt(c, k) \in Seq(T) /\ Len(RemoveAt(c, k)) = n - 1
        /\ \A i \in 1 .. n - 1 : RemoveAt(c, k)[i] = IF i < k THEN c[i] ELSE c[i + 1]
    BY <1>1, <2>1, Removed
  <2> QED  BY <1>2, <2>0, <2>2
<1>4. DOMAIN r = 1 .. n - 1
  BY <1>3
<1>5. PICK x : x = Ev(c[k])
  OBVIOUS
<1>6. \A i \in 1 .. n : c[i] \in Msg /\ Ev(c[i]) \in A /\ Ev(c[i]) \in Event
  BY <1>1 DEF Chan
<1>7. ASSUME NEW i \in 1 .. n, Ev(c[i]) = x PROVE i = k
  <2>1. c[i].tag = c[k].tag
    BY <1>1, <1>5, <1>6, <1>7, EvIs
  <2>2. i < k => Less(x, x)
    BY <2>1, <1>1, <1>5, <1>7 DEF Chan
  <2>3. k < i => Less(x, x)
    BY <2>1, <1>1, <1>5, <1>7 DEF Chan
  <2>4. ~Less(x, x)
    BY <1>6, <1>7, LessIs
  <2> QED  BY <1>1, <2>2, <2>3, <2>4
<1>8. ASSUME NEW i \in 1 .. n - 1
      PROVE  \E j \in 1 .. n : j = (IF i < k THEN i ELSE i + 1) /\ j # k /\ r[i] = c[j]
  <2>1. CASE i < k
    BY <2>1, <1>1, <1>3
  <2>2. CASE i >= k
    <3>1. i + 1 \in 1 .. n /\ i + 1 # k
      BY <2>2, <1>1
    <3> QED  BY <2>2, <3>1, <1>1, <1>3
  <2> QED  BY <2>1, <2>2, <1>1
<1>9. ASSUME NEW i \in 1 .. n - 1 PROVE Ev(r[i]) \in A /\ Ev(r[i]) \notin B \cup {x}
  <2>1. PICK j \in 1 .. n : j # k /\ r[i] = c[j]
    BY <1>8
  <2>2. Ev(c[j]) # x
    BY <2>1, <1>7
  <2> QED  BY <2>1, <2>2, <1>1 DEF Chan
<1>10. ASSUME NEW e \in A, e \notin B \cup {x} PROVE \E i \in 1 .. n - 1 : Ev(r[i]) = e
  <2>1. PICK j \in 1 .. n : Ev(c[j]) = e
    BY <1>1, <1>10 DEF Chan
  <2>2. j # k
    BY <2>1, <1>5, <1>10
  <2>3. CASE j < k
    <3>1. j \in 1 .. n - 1 /\ r[j] = c[j]
      BY <2>3, <1>1, <1>3
    <3> QED  BY <3>1, <2>1
  <2>4. CASE j > k
    <3>1. PICK i : i = j - 1
      OBVIOUS
    <3>2. i \in 1 .. n - 1 /\ ~(i < k) /\ i + 1 = j
      BY <2>4, <3>1, <1>1
    <3>3. r[i] = c[j]
      BY <3>2, <1>3
    <3> QED  BY <3>2, <3>3, <2>1
  <2> QED  BY <2>2, <2>3, <2>4, <1>1
<1>11. ASSUME NEW i \in 1 .. n - 1, NEW j \in 1 .. n - 1, i < j, r[i].tag = r[j].tag
       PROVE  Less(Ev(r[i]), Ev(r[j]))
  <2>1. PICK a \in 1 .. n : a = (IF i < k THEN i ELSE i + 1) /\ r[i] = c[a]
    BY <1>8
  <2>2. PICK b \in 1 .. n : b = (IF j < k THEN j ELSE j + 1) /\ r[j] = c[b]
    BY <1>8
  <2>3. a < b
    BY <2>1, <2>2, <1>1, <1>11
  <2> QED  BY <2>1, <2>2, <2>3, <1>1, <1>11 DEF Chan
<1>12. B \cup {x} \subseteq A
  BY <1>1, <1>5, <1>6 DEF Chan
<1>13. Chan(r, A, B \cup {x})
  BY <1>3, <1>4, <1>9, <1>10, <1>11, <1>12 DEF Chan
<1>14. \A i \in DOMAIN r : \E j \in DOMAIN c : r[i] = c[j]
  BY <1>1, <1>4, <1>8
<1> QED  BY <1>2, <1>5, <1>13, <1>14

\* The oldest message with a tag.
LEMMA ChanHead ==
    ASSUME NEW c, NEW A, NEW B, Chan(c, A, B), NEW t, NEW K,
           \A i : i \in K <=> i \in DOMAIN c /\ c[i].tag = t
    PROVE  /\ K # {} => Min(K) \in DOMAIN c /\ c[Min(K)].tag = t /\ Min(K) \in Nat
                        /\ \A i \in K : Min(K) <= i
           /\ K = {} <=> \A e \in A : e \in B \/ e[3] # t
           /\ \A e \in A : e \notin B /\ e[3] = t =>
                 e = Ev(c[Min(K)]) \/ Less(Ev(c[Min(K)]), e)
<1>1. PICK n \in Nat : n = Len(c) /\ DOMAIN c = 1 .. n
  BY DEF Chan
<1>2. K \subseteq Nat
  BY <1>1
<1>3. PICK k : k = Min(K)
  OBVIOUS
<1>4. K # {} => k \in K /\ \A i \in K : k <= i
  BY <1>2, <1>3, MinIs
<1>5. \A i \in DOMAIN c : c[i] \in Msg
  BY DEF Chan
<1>6. ASSUME NEW e \in A, e \notin B, e[3] = t
      PROVE  K # {} /\ (e = Ev(c[k]) \/ Less(Ev(c[k]), e))
  <2>1. PICK i \in DOMAIN c : Ev(c[i]) = e
    BY <1>6 DEF Chan
  <2>2. i \in K
    BY <2>1, <1>5, <1>6, EvIs
  <2>3. k \in K /\ k <= i
    BY <2>2, <1>4
  <2>4. k = i \/ k < i
    BY <2>2, <2>3, <1>2
  <2>5. k < i => Less(Ev(c[k]), Ev(c[i]))
    BY <2>2, <2>3 DEF Chan
  <2> QED  BY <2>1, <2>2, <2>4, <2>5
<1>7. ASSUME K # {} PROVE \E e \in A : e \notin B /\ e[3] = t
  <2>1. k \in DOMAIN c /\ c[k].tag = t
    BY <1>4, <1>7
  <2>2. Ev(c[k]) \in A /\ Ev(c[k]) \notin B /\ Ev(c[k])[3] = t
    BY <2>1, <1>5, EvIs DEF Chan
  <2> QED  BY <2>2
<1>8. K # {} => k \in DOMAIN c /\ c[k].tag = t /\ k \in Nat /\ \A i \in K : k <= i
  BY <1>2, <1>4
<1> QED  BY <1>3, <1>6, <1>7, <1>8

-------------------------------------------------------------------------------
\* The inductive invariant.
\*
\* A round consists of phases, which are numbered as above; every process
\* is in one phase of one round.  S[n] is the number of verdicts that were
\* given before round n: with the plan of JUPITER and the verdicts, it
\* says which phases there are.  Some process may be far ahead of another,
\* but none is in, or past, a phase that there is not.
Phase(p) == IF segment[p] = "exchange" THEN 0
            ELSE IF segment[p] = "picard" THEN picard[p] + 1
            ELSE IF segment[p] = "idle" THEN 2 ELSE 1
SegOf(a) == IF a = 0 THEN "exchange" ELSE IF a = 1 THEN "fields" ELSE "picard"

Earlier(n, a, m, b) == n < m \/ (n = m /\ a < b)

Made(p) == MadeAt(p, segment[p], ip[p])

Real(S, n, a) ==
    /\ n >= 1
    /\ \/ a = 0
       \/ a = 1 /\ n <= Len(plan) /\ plan[n] = 0
       \/ /\ a >= 2 /\ n <= Len(S) /\ a - 1 <= PicardMax /\ S[n] + a - 2 <= Len(verdicts)
          /\ \A j \in 1 .. a - 2 : verdicts[S[n] + j] = 0

\* The events of a link that there are ...
Events(S, s, d) == {e \in Event : Sends(s, SegOf(e[2]), d, e[3], e[4]) /\ Real(S, e[1], e[2])}

\* ... those that have been sent ...
Sent(s, d, e) ==
    \/ Earlier(e[1], e[2], Round(s), Phase(s))
    \/ e[1] = Round(s) /\ e[2] = Phase(s) /\ Op("send", d, e[3], e[4]) \in Made(s)
SentSet(S, s, d) == {e \in Events(S, s, d) : Sent(s, d, e)}

\* ... and those that have been received.
Got(s, d, e) ==
    \/ Earlier(e[1], e[2], Round(d), Phase(d))
    \/ /\ e[1] = Round(d) /\ e[2] = Phase(d)
       /\ \/ Op("recv", s, e[3], e[4]) \in Made(d)
          \/ /\ Posts(SegOf(e[2]), s, d, e[3], e[4])
             /\ Op("post", s, 0, "") \in Made(d) /\ pending[d][e[4]] = 0
GotSet(S, s, d) == {e \in Events(S, s, d) : Got(s, d, e)}

\* A message carries what the plan, the verdicts or its round say.
Right(S, m) ==
    /\ m.what = "iflg" => m.round <= Len(plan) /\ m.value = plan[m.round]
    /\ m.what = "iexit" => /\ S[m.round] + m.iteration <= Len(verdicts)
                           /\ m.value = verdicts[S[m.round] + m.iteration]
    /\ m.what \in FieldSet => m.value = m.round

LinkOk(S, s, d) ==
    /\ Chan(chan[<<s, d>>], SentSet(S, s, d), GotSet(S, s, d))
    /\ \A i \in DOMAIN chan[<<s, d>>] : Right(S, chan[<<s, d>>][i])

PlanOk ==
    /\ plan \in Seq({0, 1}) /\ Len(plan) <= RoundBound
    /\ \A n \in 1 .. Len(plan) - 1 : plan[n] = 0
    /\ Len(plan) = RoundBound => plan[RoundBound] = 1

\* Every round but the last has been ended by a verdict, or by its last iteration.
VerdictsOk(S) ==
    /\ verdicts \in Seq({0, 1}) /\ S \in Seq(Nat) /\ Len(S) >= 1 /\ S[1] = 0
    /\ \A n \in 1 .. Len(S) : S[n] <= Len(verdicts)
    /\ \A n \in 1 .. Len(S) - 1 :
          /\ S[n] < S[n + 1] /\ S[n + 1] <= S[n] + PicardMax
          /\ \A j \in S[n] + 1 .. S[n + 1] - 1 : verdicts[j] = 0
          /\ verdicts[S[n + 1]] = 1 \/ S[n + 1] = S[n] + PicardMax
    /\ \A j \in S[Len(S)] + 1 .. Len(verdicts) : verdicts[j] = 0
    /\ Len(verdicts) < S[Len(S)] + PicardMax

VarsOk ==
    /\ eager \in BOOLEAN /\ eager \in Eager
    /\ at \in [JupiterProc -> Nat]
    /\ segment \in [Proc -> Segments]
    /\ ip \in [Proc -> Nat]
    /\ \A p \in Proc : ip[p] \in 1 .. Len(ScriptTable[p][segment[p]]) + 1
    /\ it \in [RadProc -> Nat]
    /\ picard \in [RadProc -> Nat]
    /\ flag \in [Proc -> {0, 1}]
    /\ pending \in [RadProc -> [FieldSet -> {0, 1}]]
    /\ have \in [RadProc -> [FieldSet -> 0 .. RoundBound]]
    /\ obeyed \in [RadProc -> Nat]
    /\ DOMAIN chan = Links

JupiterOk(r) ==
    /\ segment[r] # "picard" /\ at[r] <= Len(plan)
    /\ segment[r] # "idle" => at[r] >= 1 /\ flag[r] = plan[at[r]]
    /\ segment[r] \in {"idle", "fields"} => at[r] = 0 \/ plan[at[r]] = 0
    /\ segment[r] = "done" => plan[at[r]] = 1

Heard(p) == Op("judge", 0, 0, "") \in Made(p) \/ Op("recv", Rad(0), 10, "iexit") \in Made(p)

RoundOk(S, p) ==
    /\ segment[p] # "idle"
    /\ it[p] >= 1 /\ it[p] <= Len(S) /\ it[p] <= Len(plan) + 1
    /\ it[p] > 1 => plan[it[p] - 1] = 0
    /\ segment[p] # "exchange" => it[p] <= Len(plan)
    /\ segment[p] \in {"fields", "picard"} => plan[it[p]] = 0
    /\ segment[p] = "done" => plan[it[p]] = 1
    /\ \A s, t : segment[p] = "exchange" /\ Op("recv", s, t, "iflg") \in Made(p) =>
          it[p] <= Len(plan) /\ flag[p] = plan[it[p]]

IterationOk(S, p) ==
    /\ segment[p] # "picard" => picard[p] = 0 /\ obeyed[p] = S[it[p]]
    /\ segment[p] = "picard" =>
          /\ picard[p] >= 1 /\ picard[p] <= PicardMax
          /\ \A j \in 1 .. picard[p] - 1 : verdicts[S[it[p]] + j] = 0
          /\ ~Heard(p) => obeyed[p] = S[it[p]] + picard[p] - 1
          /\ Heard(p) => obeyed[p] = S[it[p]] + picard[p] /\ flag[p] = verdicts[obeyed[p]]
    /\ obeyed[p] <= Len(verdicts)
    /\ p = Rad(0) => obeyed[p] = Len(verdicts)

HaveOk(p) ==
    /\ segment[p] = "picard" => \A f \in FieldSet : have[p][f] = it[p]
    /\ segment[p] = "fields" =>
          \A s, t, w : /\ AField(t, w)
                       /\ \/ Op("recv", s, t, w) \in Made(p)
                          \/ /\ MasterSlave(s, p) /\ Op("post", s, 0, "") \in Made(p)
                             /\ pending[p][w] = 0
                       => have[p][w] = it[p]

\* Receives are posted in one go, and are complete when the last one is.
PostedOk(p) ==
    /\ \A f \in FieldSet : pending[p][f] # 0 =>
          /\ segment[p] = "fields" /\ MasterSlave(Rad(master_lat(myrank(p))), p)
          /\ Op("post", Rad(master_lat(myrank(p))), 0, "") \in Made(p)
          /\ Op("waitlast", Rad(master_lat(myrank(p))), 0, "") \notin Made(p)
    /\ \A j, k \in DOMAIN Fields : j < k /\ pending[p][Fields[k]] = 0 => pending[p][Fields[j]] = 0

Inv(S) ==
    /\ VarsOk /\ PlanOk /\ VerdictsOk(S)
    /\ \A r \in JupiterProc : JupiterOk(r)
    /\ \A p \in RadProc : RoundOk(S, p) /\ IterationOk(S, p) /\ HaveOk(p) /\ PostedOk(p)
    /\ \A s, d \in Proc : <<s, d>> \in Links => LinkOk(S, s, d)

IInv == \E S \in Seq(Nat) : Inv(S)

-------------------------------------------------------------------------------
\* What is known of a process in a state.
LEMMA ProcIs ==
    ASSUME NEW p \in Proc
    PROVE  /\ p \in JupiterProc \/ p \in RadProc
           /\ p \in JupiterProc <=> p \notin RadProc
           /\ p \in RadProc => p \in Proc
BY RadInt DEF Proc

LEMMA OpsAre ==
    ASSUME VarsOk, NEW p \in Proc
    PROVE  /\ segment[p] \in Segments
           /\ \E n \in Nat : /\ n = Len(ScriptTable[p][segment[p]]) /\ n = Len(Ops(p))
                             /\ Ops(p) = ScriptTable[p][segment[p]] /\ DOMAIN Ops(p) = 1 .. n
                             /\ ip[p] \in 1 .. n + 1
                             /\ \A i \in 1 .. n : Ops(p)[i] \in OpSet
<1>1. segment[p] \in Segments /\ ip[p] \in 1 .. Len(ScriptTable[p][segment[p]]) + 1
  BY DEF VarsOk
<1>2. PICK n \in Nat : /\ n = Len(ScriptTable[p][segment[p]])
                       /\ DOMAIN ScriptTable[p][segment[p]] = 1 .. n
                       /\ \A i \in 1 .. n : ScriptTable[p][segment[p]][i] \in OpSet
  BY <1>1, ScriptIs
<1> QED  BY <1>1, <1>2 DEF Ops

LEMMA MadeNow ==
    ASSUME VarsOk, NEW p \in Proc
    PROVE  /\ \A o \in Made(p) :
                 /\ Active(o) /\ Has(Ops(p), o)
                 /\ \A x : Active(x) /\ Has(Ops(p), x) /\ Stage(x) < Stage(o) => x \in Made(p)
           /\ Finished(p) => \A x : Active(x) /\ Has(Ops(p), x) => x \in Made(p)
           /\ ~Finished(p) /\ Active(Cur(p)) =>
                 /\ Cur(p) \in OpSet /\ Has(Ops(p), Cur(p)) /\ Cur(p) \notin Made(p)
                 /\ \A o \in Made(p) : Stage(o) <= Stage(Cur(p))
                 /\ \A x : Active(x) /\ Has(Ops(p), x) /\ Stage(x) < Stage(Cur(p)) => x \in Made(p)
<1>1. PICK g \in Segments : g = segment[p]
  BY OpsAre
<1>2. PICK n \in Nat : /\ n = Len(ScriptTable[p][g]) /\ n = Len(Ops(p))
                       /\ Ops(p) = ScriptTable[p][g] /\ DOMAIN Ops(p) = 1 .. n
                       /\ ip[p] \in 1 .. n + 1
                       /\ \A i \in 1 .. n : Ops(p)[i] \in OpSet
  BY <1>1, OpsAre
<1>3. PICK i \in 1 .. n + 1 : i = ip[p]
  BY <1>2
<1>4. PICK s : s = ScriptTable[p][g]
  OBVIOUS
<1>5. Made(p) = MadeAt(p, g, i)
  BY <1>1, <1>3 DEF Made
<1>6. /\ \A o \in MadeAt(p, g, i) :
                 /\ Active(o) /\ Has(s, o)
                 /\ \A x : Active(x) /\ Has(s, x) /\ Stage(x) < Stage(o) =>
                       x \in MadeAt(p, g, i)
      /\ i \in 1 .. n => (Active(s[i]) =>
                 /\ s[i] \notin MadeAt(p, g, i)
                 /\ \A o \in MadeAt(p, g, i) : Stage(o) <= Stage(s[i])
                 /\ \A x : Active(x) /\ Has(s, x) /\ Stage(x) < Stage(s[i]) => x \in MadeAt(p, g, i))
      /\ \A x : Active(x) /\ Has(s, x) => x \in MadeAt(p, g, n + 1)
  BY <1>2, <1>3, <1>4, MadeIs
<1>7. Finished(p) => i = n + 1
  BY <1>2, <1>3 DEF Finished
<1>8. ~Finished(p) => i \in 1 .. n /\ Cur(p) = s[i]
  BY <1>2, <1>3, <1>4 DEF Finished, Cur
<1>9. \A o : Has(Ops(p), o) <=> Has(s, o)
  BY <1>2, <1>4
<1>10. \A j \in 1 .. n : s[j] \in OpSet /\ Has(s, s[j])
  BY <1>2, <1>4 DEF Has
<1>11. /\ \A o \in Made(p) :
                 /\ Active(o) /\ Has(Ops(p), o)
                 /\ \A x : Active(x) /\ Has(Ops(p), x) /\ Stage(x) < Stage(o) => x \in Made(p)
  BY <1>5, <1>6, <1>9
<1>12. Finished(p) => \A x : Active(x) /\ Has(Ops(p), x) => x \in Made(p)
  BY <1>5, <1>6, <1>7, <1>9
<1>13. ASSUME ~Finished(p), Active(Cur(p))
       PROVE  /\ Cur(p) \in OpSet /\ Has(Ops(p), Cur(p)) /\ Cur(p) \notin Made(p)
              /\ \A o \in Made(p) : Stage(o) <= Stage(Cur(p))
              /\ \A x : Active(x) /\ Has(Ops(p), x) /\ Stage(x) < Stage(Cur(p)) => x \in Made(p)
  BY <1>5, <1>6, <1>8, <1>9, <1>10, <1>13
<1> QED  BY <1>11, <1>12, <1>13

LEMMA NothingMade ==
    ASSUME VarsOk, NEW p \in Proc, segment[p] \in {"idle", "done"}
    PROVE  Made(p) = {} /\ Finished(p)
<1>1. ScriptTable[p][segment[p]] = <<>>
  BY DEF ScriptTable, Script, Segments
<1>2. PICK n \in Nat : /\ n = Len(Ops(p)) /\ Ops(p) = <<>> /\ ip[p] \in 1 .. n + 1
  BY <1>1, OpsAre
<1>3. n = 0 /\ ip[p] = 1
  BY <1>2
<1>4. Finished(p)
  BY <1>2, <1>3 DEF Finished
<1>5. Made(p) = {}
  BY <1>3 DEF Made, MadeAt
<1> QED  BY <1>4, <1>5

\* The calls of a process in its segment.
LEMMA CallsAre ==
    ASSUME VarsOk, NEW p \in Proc, NEW x, NEW t, NEW w
    PROVE  /\ Has(Ops(p), Op("send", x, t, w)) <=> Sends(p, segment[p], x, t, w)
           /\ Has(Ops(p), Op("recv", x, t, w)) <=>
                 Sends(x, segment[p], p, t, w) /\ ~Posts(segment[p], x, p, t, w)
           /\ Has(Ops(p), Op("judge", x, t, w)) <=>
                 segment[p] = "picard" /\ p = Rad(0) /\ x = 0 /\ t = 0 /\ w = ""
           /\ Has(Ops(p), Op("post", x, t, w)) <=>
                 segment[p] = "fields" /\ MasterSlave(x, p) /\ t = 0 /\ w = ""
           /\ Has(Ops(p), Op("waitlast", x, t, w)) <=>
                 segment[p] = "fields" /\ MasterSlave(x, p) /\ t = 0 /\ w = ""
<1>1. PICK g \in Segments : g = segment[p]
  BY OpsAre
<1>2. PICK s : s = Ops(p)
  OBVIOUS
<1>3. Faithful(p, g, s)
  BY <1>1, <1>2, ScriptFaithful DEF Ops
<1>4. Has(s, Op("send", x, t, w)) <=> Sends(p, g, x, t, w)
  BY <1>3 DEF Faithful
<1>5. Has(s, Op("recv", x, t, w)) <=> Sends(x, g, p, t, w) /\ ~Posts(g, x, p, t, w)
  BY <1>3 DEF Faithful
<1>6. Has(s, Op("judge", x, t, w)) <=> g = "picard" /\ p = Rad(0) /\ x = 0 /\ t = 0 /\ w = ""
  BY <1>3, Zenon DEF Faithful
<1>7. Has(s, Op("post", x, t, w)) <=> g = "fields" /\ MasterSlave(x, p) /\ t = 0 /\ w = ""
  BY <1>3, Zenon DEF Faithful
<1>8. Has(s, Op("waitlast", x, t, w)) <=> g = "fields" /\ MasterSlave(x, p) /\ t = 0 /\ w = ""
  BY <1>3, Zenon DEF Faithful
<1> QED  BY <1>1, <1>2, <1>4, <1>5, <1>6, <1>7, <1>8, Zenon

\* The current call.
LEMMA CurIs ==
    ASSUME VarsOk, NEW p \in Proc, NEW k, k # "wait", At(p, k)
    PROVE  /\ ~Finished(p) /\ Active(Cur(p)) /\ Cur(p).kind = k
           /\ Cur(p) = Op(k, Cur(p).peer, Cur(p).tag, Cur(p).what)
           /\ Has(Ops(p), Cur(p)) /\ Cur(p) \notin Made(p)
           /\ \A o \in Made(p) : Stage(o) <= Stage(Cur(p))
           /\ \A x : Active(x) /\ Has(Ops(p), x) /\ Stage(x) < Stage(Cur(p)) => x \in Made(p)
<1>1. PICK n \in Nat : /\ n = Len(Ops(p)) /\ DOMAIN Ops(p) = 1 .. n /\ ip[p] \in 1 .. n + 1
  BY OpsAre
<1>2. ~Finished(p) /\ Cur(p).kind = k
  BY <1>1 DEF At, Finished, Cur
<1>3. Active(Cur(p))
  BY <1>2 DEF Active
<1>4. Cur(p) \in OpSet
  BY <1>2, <1>3, MadeNow
<1>5. Cur(p) = Op(k, Cur(p).peer, Cur(p).tag, Cur(p).what)
  BY <1>2, <1>4 DEF OpSet, Op
<1> QED  BY <1>2, <1>3, <1>5, MadeNow

LEMMA StepMade ==
    ASSUME VarsOk, NEW p \in Proc, ~Finished(p), Step(p), segment' = segment
    PROVE  /\ ip' \in [Proc -> Nat]
           /\ \A q \in Proc : ip'[q] \in 1 .. Len(ScriptTable[q][segment'[q]]) + 1
           /\ Active(Cur(p)) => Made(p)' = Made(p) \cup {Cur(p)}
           /\ ~Active(Cur(p)) => Made(p)' = Made(p)
           /\ \A q \in Proc : q # p => Made(q)' = Made(q) /\ ip'[q] = ip[q]
<1>1. PICK g \in Segments : g = segment[p]
  BY OpsAre
<1>2. PICK n \in Nat : /\ n = Len(ScriptTable[p][g]) /\ n = Len(Ops(p))
                       /\ Ops(p) = ScriptTable[p][g] /\ ip[p] \in 1 .. n + 1
  BY <1>1, OpsAre
<1>3. PICK i \in 1 .. n : i = ip[p]
  BY <1>2 DEF Finished
<1>4. eager \in BOOLEAN /\ ip \in [Proc -> Nat]
  BY DEF VarsOk
<1>a. PICK e \in BOOLEAN : e = eager
  BY <1>4
<1>5. PICK k : k = NextCall[e][p][g][i]
  OBVIOUS
<1>6. /\ k \in i + 1 .. n + 1
      /\ Active(ScriptTable[p][g][i]) => MadeAt(p, g, k) = MadeAt(p, g, i) \cup {ScriptTable[p][g][i]}
      /\ ~Active(ScriptTable[p][g][i]) => MadeAt(p, g, k) = MadeAt(p, g, i)
  <2>1. /\ NextCall[e][p][g][i] \in i + 1 .. n + 1
        /\ Active(ScriptTable[p][g][i]) =>
             MadeAt(p, g, NextCall[e][p][g][i]) = MadeAt(p, g, i) \cup {ScriptTable[p][g][i]}
        /\ ~Active(ScriptTable[p][g][i]) => MadeAt(p, g, NextCall[e][p][g][i]) = MadeAt(p, g, i)
    <3>1. n \in Nat /\ n = Len(ScriptTable[p][g])
      BY <1>2
    <3>2. g \in Segments /\ i \in 1 .. n /\ e \in BOOLEAN
      BY <1>a, <1>1, <1>3
    <3> QED  BY <3>1, <3>2, NextMade
  <2> QED  BY <1>5, <2>1
<1>7. ip' = [ip EXCEPT ![p] = k]
  BY <1>a, <1>1, <1>3, <1>5 DEF Step
<1>8. ip'[p] = k /\ k \in Nat /\ \A q \in Proc : q # p => ip'[q] = ip[q]
  BY <1>4, <1>6, <1>7
<1>9. ip' \in [Proc -> Nat]
  BY <1>4, <1>7, <1>8
<1>10. ASSUME NEW q \in Proc PROVE ip'[q] \in 1 .. Len(ScriptTable[q][segment'[q]]) + 1
  <2>1. CASE q = p
    BY <1>1, <1>2, <1>6, <1>8, <2>1
  <2>2. CASE q # p
    BY <1>8, <2>2 DEF VarsOk
  <2> QED  BY <2>1, <2>2
<1>11. Cur(p) = ScriptTable[p][g][i]
  BY <1>2, <1>3 DEF Cur
<1>12. Made(p) = MadeAt(p, g, i) /\ Made(p)' = MadeAt(p, g, k)
  BY <1>1, <1>3, <1>8 DEF Made
<1>13. ASSUME NEW q \in Proc, q # p PROVE Made(q)' = Made(q)
  BY <1>8, <1>13 DEF Made
<1> QED  BY <1>6, <1>8, <1>9, <1>10, <1>11, <1>12, <1>13

LEMMA EnterMade ==
    ASSUME VarsOk, NEW p \in Proc, NEW g \in Segments, Enter(p, g)
    PROVE  /\ segment' \in [Proc -> Segments] /\ ip' \in [Proc -> Nat]
           /\ \A q \in Proc : ip'[q] \in 1 .. Len(ScriptTable[q][segment'[q]]) + 1
           /\ segment'[p] = g /\ Made(p)' = {}
           /\ \A q \in Proc : q # p => Made(q)' = Made(q) /\ segment'[q] = segment[q]
                                       /\ ip'[q] = ip[q]
<1>1. segment \in [Proc -> Segments] /\ ip \in [Proc -> Nat]
  BY DEF VarsOk
<1>2. segment' = [segment EXCEPT ![p] = g] /\ ip' = [ip EXCEPT ![p] = 1]
  BY DEF Enter
<1>3. /\ segment' \in [Proc -> Segments] /\ ip' \in [Proc -> Nat]
      /\ segment'[p] = g /\ ip'[p] = 1
      /\ \A q \in Proc : q # p => segment'[q] = segment[q] /\ ip'[q] = ip[q]
  BY <1>1, <1>2
<1>4. PICK n \in Nat : n = Len(ScriptTable[p][g])
  BY ScriptIs
<1>5. ASSUME NEW q \in Proc PROVE ip'[q] \in 1 .. Len(ScriptTable[q][segment'[q]]) + 1
  <2>1. CASE q = p
    BY <1>3, <1>4, <2>1
  <2>2. CASE q # p
    BY <1>3, <2>2 DEF VarsOk
  <2> QED  BY <2>1, <2>2
<1>6. Made(p)' = {}
  <2>1. Made(p)' = MadeAt(p, g, 1)
    BY <1>3 DEF Made
  <2> QED  BY <2>1, <1>4, MadeIs
<1>7. ASSUME NEW q \in Proc, q # p PROVE Made(q)' = Made(q)
  BY <1>3, <1>7 DEF Made
<1> QED  BY <1>3, <1>5, <1>6, <1>7

-------------------------------------------------------------------------------
\* Rounds and phases.
Extends(x, y) == Len(x) <= Len(y) /\ \A n \in 1 .. Len(x) : y[n] = x[n]

LEMMA SegOfIs ==
    ASSUME NEW a \in Nat
    PROVE  /\ SegOf(a) = "exchange" <=> a = 0
           /\ SegOf(a) = "fields" <=> a = 1
           /\ SegOf(a) = "picard" <=> a >= 2
BY DEF SegOf

LEMMA PlanIs ==
    ASSUME PlanOk
    PROVE  \E n \in Nat : /\ n = Len(plan) /\ n <= RoundBound /\ RoundBound \in Nat
                          /\ \A i \in 1 .. n : plan[i] \in {0, 1}
                          /\ \A i \in 1 .. n : i < n => plan[i] = 0
                          /\ n = RoundBound => plan[RoundBound] = 1
<1>1. plan \in Seq({0, 1}) /\ Len(plan) \in Nat
  BY DEF PlanOk
<1>2. \A i \in 1 .. Len(plan) : plan[i] \in {0, 1}
  BY <1>1
<1>3. \A i \in 1 .. Len(plan) : i < Len(plan) => plan[i] = 0
  BY <1>1 DEF PlanOk
<1> QED  BY <1>1, <1>2, <1>3, BoundAssumption DEF PlanOk

LEMMA VerdictsAre ==
    ASSUME NEW S, VerdictsOk(S)
    PROVE  \E v, l \in Nat :
              /\ v = Len(verdicts) /\ l = Len(S) /\ l >= 1 /\ S[1] = 0
              /\ \A i \in 1 .. v : verdicts[i] \in {0, 1}
              /\ \A n \in 1 .. l : S[n] \in Nat /\ S[n] <= v
              /\ \A n \in 1 .. l : n < l =>
                   /\ S[n] < S[n + 1] /\ S[n + 1] <= S[n] + PicardMax
                   /\ \A j \in S[n] + 1 .. S[n + 1] - 1 : verdicts[j] = 0
                   /\ verdicts[S[n + 1]] = 1 \/ S[n + 1] = S[n] + PicardMax
              /\ \A j \in S[l] + 1 .. v : verdicts[j] = 0
              /\ v < S[l] + PicardMax
<1>1. /\ verdicts \in Seq({0, 1}) /\ S \in Seq(Nat) /\ Len(verdicts) \in Nat /\ Len(S) \in Nat
  BY DEF VerdictsOk
<1>2. \A i \in 1 .. Len(verdicts) : verdicts[i] \in {0, 1}
  BY <1>1
<1>3. \A n \in 1 .. Len(S) : S[n] \in Nat
  BY <1>1
<1>4. \A n \in 1 .. Len(S) : n < Len(S) => n \in 1 .. Len(S) - 1
  BY <1>1
<1> QED  BY <1>1, <1>2, <1>3, <1>4 DEF VerdictsOk

LEMMA PhaseIs ==
    ASSUME NEW S, Inv(S), NEW p \in Proc
    PROVE  /\ Phase(p) \in Nat /\ Round(p) \in Nat
           /\ segment[p] \in {"exchange", "fields", "picard"} => SegOf(Phase(p)) = segment[p]
           /\ segment[p] = "exchange" <=> Phase(p) = 0
           /\ segment[p] \in {"fields", "done"} => Phase(p) = 1
           /\ segment[p] = "picard" => p \in RadProc /\ Phase(p) = picard[p] + 1 /\ Phase(p) >= 2
           /\ segment[p] = "idle" => p \in JupiterProc /\ Phase(p) = 2
           /\ p \in RadProc /\ segment[p] # "picard" => picard[p] = 0
           /\ p \in JupiterProc => Round(p) = at[p] /\ Iteration(p) = 0
           /\ p \in RadProc => Round(p) = it[p] /\ Iteration(p) = picard[p]
           /\ segment[p] \in Segments
<1>1. segment[p] \in Segments
  BY DEF Inv, VarsOk
<1>2. CASE p \in JupiterProc
  <2>1. p \notin RadProc
    BY <1>2, ProcIs
  <2>2. segment[p] # "picard"
    BY <1>2 DEF Inv, JupiterOk
  <2>3. at[p] \in Nat
    BY <1>2 DEF Inv, VarsOk
  <2> QED  BY <1>1, <1>2, <2>1, <2>2, <2>3 DEF Phase, Round, Iteration, SegOf, Segments
<1>3. CASE p \in RadProc
  <2>1. p \notin JupiterProc
    BY <1>3, ProcIs
  <2>2. it[p] \in Nat /\ picard[p] \in Nat
    BY <1>3 DEF Inv, VarsOk
  <2>3. segment[p] # "idle"
    BY <1>3 DEF Inv, RoundOk
  <2>4. /\ segment[p] = "picard" => picard[p] >= 1
        /\ segment[p] # "picard" => picard[p] = 0
    BY <1>3 DEF Inv, IterationOk
  <2>5. Round(p) = it[p] /\ Iteration(p) = picard[p]
    BY <2>1 DEF Round, Iteration
  <2>6. /\ Phase(p) \in Nat
        /\ segment[p] \in {"exchange", "fields", "picard"} => SegOf(Phase(p)) = segment[p]
        /\ segment[p] = "exchange" <=> Phase(p) = 0
        /\ segment[p] \in {"fields", "done"} => Phase(p) = 1
        /\ segment[p] = "picard" => Phase(p) = picard[p] + 1 /\ Phase(p) >= 2
    BY <1>1, <2>2, <2>3, <2>4 DEF Phase, SegOf, Segments
  <2> QED  BY <1>1, <1>3, <2>1, <2>2, <2>3, <2>4, <2>5, <2>6
<1> QED  BY <1>2, <1>3, ProcIs

LEMMA MomentReal ==
    ASSUME NEW S, Inv(S), NEW p \in Proc, segment[p] \in {"exchange", "fields", "picard"}
    PROVE  Real(S, Round(p), Phase(p))
<1>1. PICK n \in Nat : /\ n = Len(plan) /\ \A i \in 1 .. n : plan[i] \in {0, 1}
  BY PlanIs DEF Inv
<1>2. PICK v, l \in Nat : /\ v = Len(verdicts) /\ l = Len(S)
                          /\ \A i \in 1 .. l : S[i] \in Nat /\ S[i] <= v
  BY VerdictsAre DEF Inv
<1>3. /\ Phase(p) \in Nat /\ Round(p) \in Nat
      /\ segment[p] = "exchange" <=> Phase(p) = 0
      /\ segment[p] = "fields" => Phase(p) = 1
      /\ segment[p] = "picard" => p \in RadProc /\ Phase(p) = picard[p] + 1 /\ Phase(p) >= 2
      /\ p \in JupiterProc => Round(p) = at[p]
      /\ p \in RadProc => Round(p) = it[p]
  BY PhaseIs
<1>4. CASE p \in JupiterProc
  <2>1. /\ at[p] >= 1 /\ at[p] <= n
        /\ segment[p] = "fields" => at[p] = 0 \/ plan[at[p]] = 0
        /\ segment[p] # "picard"
    BY <1>1, <1>4 DEF Inv, JupiterOk
  <2> QED  BY <1>1, <1>3, <1>4, <2>1 DEF Real
<1>5. CASE p \in RadProc
  <2>1. /\ it[p] >= 1 /\ it[p] <= l
        /\ segment[p] # "exchange" => it[p] <= n
        /\ segment[p] = "fields" => plan[it[p]] = 0
    BY <1>1, <1>2, <1>5 DEF Inv, RoundOk
  <2>2. CASE segment[p] = "picard"
    <3>1. /\ picard[p] >= 1 /\ picard[p] <= PicardMax
          /\ \A j \in 1 .. picard[p] - 1 : verdicts[S[it[p]] + j] = 0
          /\ obeyed[p] = S[it[p]] + picard[p] - 1 \/ obeyed[p] = S[it[p]] + picard[p]
          /\ obeyed[p] <= v
      BY <1>2, <1>5, <2>2 DEF Inv, IterationOk
    <3>2. picard[p] \in Nat
      BY <1>5 DEF Inv, VarsOk
    <3>3. PICK a \in Nat : a = Phase(p) /\ a = picard[p] + 1
      BY <1>3, <2>2
    <3>4. PICK m \in Nat : m = it[p] /\ m = Round(p) /\ m >= 1 /\ m <= l
      BY <1>3, <1>5, <2>1
    <3>5. S[m] \in Nat /\ S[m] + a - 2 <= v
      BY <1>2, <3>1, <3>2, <3>3, <3>4
    <3>6. \A j \in 1 .. a - 2 : verdicts[S[m] + j] = 0
      BY <3>1, <3>2, <3>3, <3>4
    <3>7. a >= 2 /\ a - 1 <= PicardMax
      BY <3>1, <3>2, <3>3
    <3> QED  BY <1>2, <3>3, <3>4, <3>5, <3>6, <3>7 DEF Real
  <2>3. CASE segment[p] # "picard"
    BY <1>1, <1>3, <1>5, <2>1, <2>3 DEF Real
  <2> QED  BY <2>2, <2>3
<1> QED  BY <1>4, <1>5, ProcIs

LEMMA RealStays ==
    ASSUME NEW S, VerdictsOk(S), PlanOk, NEW T, T \in Seq(Nat), Extends(S, T), Extends(plan, plan'),
           Extends(verdicts, verdicts'), plan' \in Seq({0, 1}), verdicts' \in Seq({0, 1}),
           NEW n \in Nat, NEW a \in Nat, Real(S, n, a)
    PROVE  Real(T, n, a)'
<1>1. PICK x \in Nat : /\ x = Len(plan) /\ \A i \in 1 .. x : plan[i] \in {0, 1}
  BY PlanIs
<1>2. PICK v, l \in Nat : /\ v = Len(verdicts) /\ l = Len(S)
                          /\ \A i \in 1 .. l : S[i] \in Nat /\ S[i] <= v
  BY VerdictsAre
<1>3. PICK xx \in Nat : xx = Len(plan') /\ x <= xx /\ \A i \in 1 .. x : plan'[i] = plan[i]
  <2>1. Len(plan') \in Nat
    OBVIOUS
  <2>2. x <= Len(plan') /\ \A i \in 1 .. x : plan'[i] = plan[i]
    BY <1>1 DEF Extends
  <2> QED  BY <2>1, <2>2
<1>4. PICK vv \in Nat : vv = Len(verdicts') /\ v <= vv /\ \A i \in 1 .. v : verdicts'[i] = verdicts[i]
  <2>1. Len(verdicts') \in Nat
    OBVIOUS
  <2>2. v <= Len(verdicts') /\ \A i \in 1 .. v : verdicts'[i] = verdicts[i]
    BY <1>2 DEF Extends
  <2> QED  BY <2>1, <2>2
<1>5. PICK ll \in Nat : ll = Len(T) /\ l <= ll /\ \A i \in 1 .. l : T[i] = S[i]
  <2>1. Len(T) \in Nat
    OBVIOUS
  <2>2. l <= Len(T) /\ \A i \in 1 .. l : T[i] = S[i]
    BY <1>2 DEF Extends
  <2> QED  BY <2>1, <2>2
<1>6. n >= 1
  BY DEF Real
<1>7. CASE a = 0
  BY <1>6, <1>7 DEF Real
<1>8. CASE a = 1 /\ n <= Len(plan) /\ plan[n] = 0
  BY <1>1, <1>3, <1>6, <1>8 DEF Real
<1>9. CASE /\ a >= 2 /\ n <= Len(S) /\ a - 1 <= PicardMax /\ S[n] + a - 2 <= Len(verdicts)
           /\ \A j \in 1 .. a - 2 : verdicts[S[n] + j] = 0
  <2>1. S[n] \in Nat /\ T[n] = S[n] /\ n <= ll
    BY <1>2, <1>5, <1>6, <1>9
  <2>2. \A j \in 1 .. a - 2 : S[n] + j \in 1 .. v
    BY <1>2, <1>9, <2>1
  <2>3. \A j \in 1 .. a - 2 : verdicts'[T[n] + j] = 0
    BY <1>4, <1>9, <2>1, <2>2
  <2>4. T[n] + a - 2 <= vv
    BY <1>2, <1>4, <1>9, <2>1
  <2> QED  BY <1>4, <1>5, <1>6, <1>9, <2>1, <2>3, <2>4 DEF Real
<1> QED  BY <1>7, <1>8, <1>9 DEF Real

\* No phase that comes into being is in the past of a process, or its present.
LEMMA NearSame ==
    ASSUME NEW S, Inv(S), NEW T, T \in Seq(Nat), Extends(S, T), Extends(plan, plan'),
           Extends(verdicts, verdicts'), plan' \in Seq({0, 1}), verdicts' \in Seq({0, 1}),
           NEW p \in Proc, NEW n \in Nat, NEW a \in Nat, p \in JupiterProc => a <= 1,
           Earlier(n, a, Round(p), Phase(p)) \/ (n = Round(p) /\ a = Phase(p))
    PROVE  Real(T, n, a)' <=> Real(S, n, a)
<1>1. PICK x \in Nat : /\ x = Len(plan) /\ \A i \in 1 .. x : plan[i] \in {0, 1}
  BY PlanIs DEF Inv
<1>2. PICK v, l \in Nat :
          /\ v = Len(verdicts) /\ l = Len(S)
          /\ \A i \in 1 .. l : S[i] \in Nat /\ S[i] <= v
          /\ \A i \in 1 .. l : i < l =>
                /\ S[i] < S[i + 1] /\ S[i + 1] <= S[i] + PicardMax
                /\ verdicts[S[i + 1]] = 1 \/ S[i + 1] = S[i] + PicardMax
  <2>1. VerdictsOk(S)
    BY DEF Inv
  <2>2. PICK v, l \in Nat :
              /\ v = Len(verdicts) /\ l = Len(S) /\ l >= 1 /\ S[1] = 0
              /\ \A i \in 1 .. v : verdicts[i] \in {0, 1}
              /\ \A i \in 1 .. l : S[i] \in Nat /\ S[i] <= v
              /\ \A i \in 1 .. l : i < l =>
                   /\ S[i] < S[i + 1] /\ S[i + 1] <= S[i] + PicardMax
                   /\ \A j \in S[i] + 1 .. S[i + 1] - 1 : verdicts[j] = 0
                   /\ verdicts[S[i + 1]] = 1 \/ S[i + 1] = S[i] + PicardMax
              /\ \A j \in S[l] + 1 .. v : verdicts[j] = 0
              /\ v < S[l] + PicardMax
    BY <2>1, VerdictsAre
  <2>3. \A i \in 1 .. l : i < l =>
            /\ S[i] < S[i + 1] /\ S[i + 1] <= S[i] + PicardMax
            /\ verdicts[S[i + 1]] = 1 \/ S[i + 1] = S[i] + PicardMax
    BY <2>2
  <2> QED  BY <2>2, <2>3
<1>3. PICK xx \in Nat : xx = Len(plan') /\ x <= xx /\ \A i \in 1 .. x : plan'[i] = plan[i]
  <2>1. Len(plan') \in Nat
    OBVIOUS
  <2>2. x <= Len(plan') /\ \A i \in 1 .. x : plan'[i] = plan[i]
    BY <1>1 DEF Extends
  <2> QED  BY <2>1, <2>2
<1>4. PICK vv \in Nat : vv = Len(verdicts') /\ v <= vv /\ \A i \in 1 .. v : verdicts'[i] = verdicts[i]
  <2>1. Len(verdicts') \in Nat
    OBVIOUS
  <2>2. v <= Len(verdicts') /\ \A i \in 1 .. v : verdicts'[i] = verdicts[i]
    BY <1>2 DEF Extends
  <2> QED  BY <2>1, <2>2
<1>5. PICK ll \in Nat : ll = Len(T) /\ l <= ll /\ \A i \in 1 .. l : T[i] = S[i]
  <2>1. Len(T) \in Nat
    OBVIOUS
  <2>2. l <= Len(T) /\ \A i \in 1 .. l : T[i] = S[i]
    BY <1>2 DEF Extends
  <2> QED  BY <2>1, <2>2
<1>6. /\ Phase(p) \in Nat /\ Round(p) \in Nat
      /\ segment[p] = "exchange" <=> Phase(p) = 0
      /\ segment[p] \in {"fields", "done"} => Phase(p) = 1
      /\ segment[p] = "picard" => p \in RadProc /\ Phase(p) = picard[p] + 1 /\ Phase(p) >= 2
      /\ p \in JupiterProc => Round(p) = at[p]
      /\ p \in RadProc => Round(p) = it[p]
      /\ segment[p] \in Segments /\ (segment[p] = "idle" => p \in JupiterProc)
  BY PhaseIs
<1>7. n <= Round(p) /\ (n = Round(p) => a <= Phase(p))
  BY <1>6 DEF Earlier
<1>8. Real(S, n, a) => Real(T, n, a)'
  BY RealStays DEF Inv
<1>9. SUFFICES ASSUME Real(T, n, a)' PROVE Real(S, n, a)
  BY <1>8
<1>10. n >= 1
  BY <1>9 DEF Real
<1>11. CASE a = 0
  BY <1>10, <1>11 DEF Real
<1>12. CASE a = 1
  <2>1. plan'[n] = 0
    BY <1>9, <1>12 DEF Real
  <2>2. n <= x
    <3>1. CASE p \in JupiterProc
      <4>1. at[p] <= x
        BY <1>1, <3>1 DEF Inv, JupiterOk
      <4> QED  BY <1>6, <1>7, <3>1, <4>1
    <3>2. CASE p \in RadProc
      <4>1. it[p] <= x + 1 /\ (segment[p] # "exchange" => it[p] <= x)
        BY <1>1, <3>2 DEF Inv, RoundOk
      <4> QED  BY <1>6, <1>7, <1>12, <3>2, <4>1
    <3> QED  BY <3>1, <3>2, ProcIs
  <2>3. plan[n] = 0
    BY <1>3, <1>10, <2>1, <2>2
  <2> QED  BY <1>1, <1>10, <1>12, <2>2, <2>3 DEF Real
<1>13. CASE a >= 2
  <2>1. p \in RadProc
    BY <1>13, ProcIs
  <2>2. it[p] \in Nat /\ it[p] <= l /\ picard[p] \in Nat
    BY <1>2, <2>1 DEF Inv, RoundOk, VarsOk
  <2>3. n <= l
    BY <1>6, <1>7, <2>1, <2>2
  <2>4. /\ a - 1 <= PicardMax /\ T[n] + a - 2 <= vv
        /\ \A j \in 1 .. a - 2 : verdicts'[T[n] + j] = 0
    BY <1>4, <1>9, <1>13 DEF Real
  <2>5. T[n] = S[n] /\ S[n] \in Nat /\ S[n] <= v
    BY <1>2, <1>5, <1>10, <2>3
  <2>6. S[n] + a - 2 <= v
    <3>1. CASE n = Round(p)
      <4>1. segment[p] = "picard" /\ a <= picard[p] + 1
        BY <1>6, <1>7, <1>13, <2>1, <3>1, ProcIs DEF Segments
      <4>2. /\ obeyed[p] = S[it[p]] + picard[p] - 1 \/ obeyed[p] = S[it[p]] + picard[p]
            /\ obeyed[p] <= v
        BY <1>2, <2>1, <4>1 DEF Inv, IterationOk
      <4>3. S[it[p]] = S[n]
        BY <1>6, <2>1, <3>1
      <4>4. PICK k \in Nat : k = picard[p]
        BY <2>2
      <4>5. PICK z \in Nat : z = S[n]
        BY <2>5
      <4>6. PICK y : y <= v /\ (y = z + k - 1 \/ y = z + k)
        BY <4>2, <4>3, <4>4, <4>5
      <4>7. a <= k + 1
        BY <4>1, <4>4
      <4> QED  BY <4>5, <4>6, <4>7
    <3>2. CASE n < Round(p)
      <4>1. n < l /\ n \in 1 .. l /\ n + 1 \in 1 .. l
        BY <1>6, <1>10, <2>1, <2>2, <3>2
      <4>2. /\ S[n] < S[n + 1] /\ S[n + 1] <= S[n] + PicardMax /\ S[n + 1] \in Nat /\ S[n + 1] <= v
            /\ verdicts[S[n + 1]] = 1 \/ S[n + 1] = S[n] + PicardMax
        BY <1>2, <4>1
      <4>3. PICK K \in Nat : S[n + 1] = S[n] + K /\ K >= 1
        <5>1. PICK y, z \in Nat : y = S[n + 1] /\ z = S[n] /\ z < y
          BY <2>5, <4>2
        <5>2. y - z \in Nat /\ y = z + (y - z) /\ y - z >= 1
          BY ONLY <5>1
        <5> QED  BY ONLY <5>1, <5>2
      <4>4. a - 2 <= K
        <5>1. SUFFICES ASSUME a - 2 > K PROVE FALSE
          BY <4>3
        <5>2. K \in 1 .. a - 2
          BY <4>3, <5>1
        <5>3. verdicts'[S[n] + K] = 0
          BY <2>4, <2>5, <5>2
        <5>4. verdicts[S[n + 1]] = 0
          <6>1. S[n + 1] \in 1 .. v
            BY <2>5, <4>2
          <6> QED  BY <1>4, <4>3, <5>3, <6>1
        <5> QED  BY <2>4, <2>5, <4>2, <4>3, <5>1, <5>4, BoundAssumption
      <4> QED  BY <2>5, <4>2, <4>3, <4>4
    <3> QED  BY <1>6, <1>7, <3>1, <3>2
  <2>7. \A j \in 1 .. a - 2 : verdicts[S[n] + j] = 0
    <3>1. ASSUME NEW j \in 1 .. a - 2 PROVE verdicts[S[n] + j] = 0
      <4>1. PICK z \in Nat : z = S[n] /\ z + a - 2 <= v
        BY <2>5, <2>6
      <4>2. z + j \in 1 .. v
        BY ONLY <4>1, z \in Nat, v \in Nat, a \in Nat, j \in 1 .. a - 2
      <4> QED  BY <1>4, <2>4, <2>5, <4>1, <4>2
    <3> QED  BY <3>1
  <2> QED  BY <1>2, <1>10, <1>13, <2>3, <2>4, <2>6, <2>7 DEF Real
<1> QED  BY <1>11, <1>12, <1>13

-------------------------------------------------------------------------------
\* What a step leaves as it is.
Before(p, e) == Earlier(e[1], e[2], Round(p), Phase(p))
Now(p, e) == e[1] = Round(p) /\ e[2] = Phase(p)

\* The call for e has been made by its sender, or by its receiver.
Given(s, d, e) == Op("send", d, e[3], e[4]) \in Made(s)
Taken(s, d, e) ==
    \/ Op("recv", s, e[3], e[4]) \in Made(d)
    \/ /\ Posts(SegOf(e[2]), s, d, e[3], e[4])
       /\ Op("post", s, 0, "") \in Made(d) /\ pending[d][e[4]] = 0

\* The plan and the verdicts grow, and the rounds with them.
Ext(S, T) ==
    /\ T \in Seq(Nat) /\ Extends(S, T)
    /\ Extends(plan, plan') /\ plan' \in Seq({0, 1})
    /\ Extends(verdicts, verdicts') /\ verdicts' \in Seq({0, 1})

\* Nothing of q changes.
Quiet(q) ==
    /\ segment'[q] = segment[q] /\ Made(q)' = Made(q) /\ flag'[q] = flag[q]
    /\ q \in JupiterProc => at'[q] = at[q]
    /\ q \in RadProc => /\ it'[q] = it[q] /\ picard'[q] = picard[q] /\ obeyed'[q] = obeyed[q]
                        /\ pending'[q] = pending[q] /\ have'[q] = have[q]

LEMMA LinksAre ==
    ASSUME NEW s \in Proc, NEW d \in Proc
    PROVE  /\ \A g, t, w : Sends(s, g, d, t, w) => <<s, d>> \in Links
           /\ <<s, d>> \in Links => s # d
<1>1. \A g : \A t, w : Sends(s, g, d, t, w) =>
           /\ g \in {"exchange", "fields", "picard"} /\ g \in Segments /\ s # d
           /\ Has(ScriptTable[s][g], Op("send", d, t, w))
  <2>1. ASSUME NEW g, NEW t, NEW w, Sends(s, g, d, t, w)
        PROVE  /\ g \in {"exchange", "fields", "picard"} /\ g \in Segments /\ s # d
               /\ Has(ScriptTable[s][g], Op("send", d, t, w))
    <3>1. g \in {"exchange", "fields", "picard"} /\ s # d
      BY <2>1, SendsIs
    <3>2. g \in Segments
      BY <3>1 DEF Segments
    <3>3. Faithful(s, g, ScriptTable[s][g])
      BY <3>2, ScriptFaithful
    <3> QED  BY <2>1, <3>1, <3>2, <3>3 DEF Faithful
  <2> QED  BY <2>1
<1>2. \A g \in Segments : ScriptTable[s][g] = Script(s, g)
  BY DEF ScriptTable
<1>3. ASSUME NEW g, NEW t, NEW w, Sends(s, g, d, t, w) PROVE <<s, d>> \in Links
  <2>0. PICK o : o = Op("send", d, t, w)
    OBVIOUS
  <2>1. o = Op("send", d, t, w) /\ o.kind = "send" /\ o.peer = d
    BY <2>0 DEF Op
  <2>2. PICK i \in DOMAIN Script(s, g) : Script(s, g)[i] = o
    BY <1>1, <1>2, <1>3, <2>1 DEF Has
  <2>3. o \in Range(Script(s, g))
    BY <2>2 DEF Range
  <2>4. g \in {"exchange", "fields", "picard"}
    BY <1>1, <1>3
  <2>5. <<s, d>> \in Proc \X Proc /\ <<s, d>>[1] = s /\ <<s, d>>[2] = d
    OBVIOUS
  <2>6. \E op \in Range(Script(<<s, d>>[1], g)) : op.kind = "send" /\ op.peer = <<s, d>>[2]
    BY <2>1, <2>3, <2>5
  <2> QED  BY <2>4, <2>5, <2>6 DEF Links
<1>4. ASSUME <<s, d>> \in Links PROVE s # d
  <2>1. PICK l : l = <<s, d>> /\ l \in Links /\ l[1] = s /\ l[2] = d
    BY <1>4
  <2>2. PICK g \in {"exchange", "fields", "picard"} :
            \E op \in Range(Script(l[1], g)) : op.kind = "send" /\ op.peer = l[2]
    BY <2>1 DEF Links
  <2>3. PICK o \in Range(Script(s, g)) : o.kind = "send" /\ o.peer = d
    BY <2>1, <2>2
  <2>4. g \in Segments /\ ScriptTable[s][g] = Script(s, g)
    BY <1>2 DEF Segments
  <2>5. Has(ScriptTable[s][g], o)
    BY <2>3, <2>4 DEF Has, Range
  <2>6. o \in OpSet
    BY <2>4, <2>5, ScriptIs DEF Has
  <2>7. o = Op("send", d, o.tag, o.what)
    BY <2>3, <2>6 DEF OpSet, Op
  <2>8. Faithful(s, g, ScriptTable[s][g])
    BY <2>4, ScriptFaithful
  <2>9. Sends(s, g, d, o.tag, o.what)
    BY <2>5, <2>7, <2>8 DEF Faithful
  <2> QED  BY <1>1, <2>9
<1> QED  BY <1>3, <1>4

LEMMA EventsNear ==
    ASSUME NEW S, Inv(S), NEW T, Ext(S, T), NEW s \in Proc, NEW d \in Proc, NEW p \in {s, d},
           NEW e, Before(p, e) \/ Now(p, e)
    PROVE  e \in Events(T, s, d)' <=> e \in Events(S, s, d)
<1>1. SUFFICES ASSUME e \in Event, Sends(s, SegOf(e[2]), d, e[3], e[4])
               PROVE  Real(T, e[1], e[2])' <=> Real(S, e[1], e[2])
  BY DEF Events
<1>2. PICK n \in Nat, a \in Nat : n = e[1] /\ a = e[2]
  BY <1>1 DEF Event
<1>3. p \in Proc
  OBVIOUS
<1>4. p \in JupiterProc => a <= 1
  <2>1. SegOf(a) = "picard" => p \notin JupiterProc
    <3>1. SegOf(a) = "picard" => s \in RadProc /\ d \in RadProc
      BY <1>1, <1>2, SendsIs
    <3> QED  BY <3>1, ProcIs
  <2> QED  BY <2>1, SegOfIs
<1>5. Earlier(n, a, Round(p), Phase(p)) \/ (n = Round(p) /\ a = Phase(p))
  BY <1>2 DEF Before, Now
<1>6. /\ T \in Seq(Nat) /\ Extends(S, T) /\ Extends(plan, plan')
      /\ Extends(verdicts, verdicts') /\ plan' \in Seq({0, 1}) /\ verdicts' \in Seq({0, 1})
  BY DEF Ext
<1>7. Real(T, n, a)' <=> Real(S, n, a)
  BY <1>3, <1>4, <1>5, <1>6, NearSame
<1> QED  BY <1>2, <1>7

LEMMA SentMoved ==
    ASSUME NEW S, Inv(S), NEW T, Ext(S, T), NEW p \in Proc, NEW d \in Proc,
           Round(p)' = Round(p), Phase(p)' = Phase(p)
    PROVE  \A e : e \in SentSet(T, p, d)' <=>
               e \in Events(S, p, d) /\ (Before(p, e) \/ (Now(p, e) /\ Given(p, d, e)'))
<1>1. SUFFICES ASSUME NEW e
               PROVE  e \in SentSet(T, p, d)' <=>
                         e \in Events(S, p, d) /\ (Before(p, e) \/ (Now(p, e) /\ Given(p, d, e)'))
  OBVIOUS
<1>2. e \in SentSet(T, p, d)' <=> e \in Events(T, p, d)' /\ Sent(p, d, e)'
  BY DEF SentSet
<1>3. Sent(p, d, e)' <=> Before(p, e) \/ (Now(p, e) /\ Given(p, d, e)')
  BY DEF Sent, Before, Now, Given
<1>4. Before(p, e) \/ Now(p, e) => (e \in Events(T, p, d)' <=> e \in Events(S, p, d))
  BY EventsNear
<1> QED  BY <1>2, <1>3, <1>4

LEMMA GotMoved ==
    ASSUME NEW S, Inv(S), NEW T, Ext(S, T), NEW p \in Proc, NEW s \in Proc,
           Round(p)' = Round(p), Phase(p)' = Phase(p)
    PROVE  \A e : e \in GotSet(T, s, p)' <=>
               e \in Events(S, s, p) /\ (Before(p, e) \/ (Now(p, e) /\ Taken(s, p, e)'))
<1>1. SUFFICES ASSUME NEW e
               PROVE  e \in GotSet(T, s, p)' <=>
                         e \in Events(S, s, p) /\ (Before(p, e) \/ (Now(p, e) /\ Taken(s, p, e)'))
  OBVIOUS
<1>2. e \in GotSet(T, s, p)' <=> e \in Events(T, s, p)' /\ Got(s, p, e)'
  BY DEF GotSet
<1>3. Got(s, p, e)' <=> Before(p, e) \/ (Now(p, e) /\ Taken(s, p, e)')
  BY DEF Got, Before, Now, Taken
<1>4. Before(p, e) \/ Now(p, e) => (e \in Events(T, s, p)' <=> e \in Events(S, s, p))
  BY EventsNear
<1> QED  BY <1>2, <1>3, <1>4

\* The sets, in words of Before and Now.
LEMMA SetsAre ==
    ASSUME NEW S, NEW s, NEW d
    PROVE  /\ \A e : e \in SentSet(S, s, d) <=>
                 e \in Events(S, s, d) /\ (Before(s, e) \/ (Now(s, e) /\ Given(s, d, e)))
           /\ \A e : e \in GotSet(S, s, d) <=>
                 e \in Events(S, s, d) /\ (Before(d, e) \/ (Now(d, e) /\ Taken(s, d, e)))
BY DEF SentSet, Sent, GotSet, Got, Before, Now, Given, Taken

LEMMA QuietMoment ==
    ASSUME NEW S, Inv(S), NEW q \in Proc, Quiet(q)
    PROVE  Round(q)' = Round(q) /\ Phase(q)' = Phase(q) /\ Iteration(q)' = Iteration(q)
<1>1. q \in JupiterProc => q \notin RadProc
  BY ProcIs
<1>2. Round(q)' = Round(q) /\ Iteration(q)' = Iteration(q)
  BY <1>1, ProcIs DEF Quiet, Round, Iteration
<1>3. segment'[q] = "picard" /\ q \in RadProc => Phase(q)' = Phase(q)
  BY DEF Quiet, Phase
<1>4. segment'[q] # "picard" => Phase(q)' = Phase(q)
  BY DEF Quiet, Phase
<1>5. q \in JupiterProc => segment'[q] # "picard"
  BY DEF Quiet, Inv, JupiterOk
<1> QED  BY <1>2, <1>3, <1>4, <1>5, ProcIs

LEMMA PlanGrows ==
    ASSUME NEW S, Inv(S), NEW T, Ext(S, T)
    PROVE  \E x, xx \in Nat : /\ x = Len(plan) /\ xx = Len(plan') /\ x <= xx
                              /\ \A i \in 1 .. x : plan'[i] = plan[i]
<1>1. PICK x \in Nat : x = Len(plan)
  BY PlanIs DEF Inv
<1>2. Len(plan') \in Nat
  BY DEF Ext
<1>3. x <= Len(plan') /\ \A i \in 1 .. x : plan'[i] = plan[i]
  BY <1>1 DEF Ext, Extends
<1> QED  BY <1>1, <1>2, <1>3

LEMMA VerdictsGrow ==
    ASSUME NEW S, Inv(S), NEW T, Ext(S, T)
    PROVE  \E v, vv \in Nat : /\ v = Len(verdicts) /\ vv = Len(verdicts') /\ v <= vv
                              /\ \A i \in 1 .. v : verdicts'[i] = verdicts[i]
<1>1. PICK v \in Nat : v = Len(verdicts)
  BY VerdictsAre DEF Inv
<1>2. Len(verdicts') \in Nat
  BY DEF Ext
<1>3. v <= Len(verdicts') /\ \A i \in 1 .. v : verdicts'[i] = verdicts[i]
  BY <1>1 DEF Ext, Extends
<1> QED  BY <1>1, <1>2, <1>3

LEMMA RoundsGrow ==
    ASSUME NEW S, Inv(S), NEW T, Ext(S, T)
    PROVE  \E l, ll \in Nat :
              /\ l = Len(S) /\ ll = Len(T) /\ l <= ll
              /\ \A i \in 1 .. l : T[i] = S[i] /\ S[i] \in Nat /\ S[i] <= Len(verdicts)
<1>1. PICK v, l \in Nat : v = Len(verdicts) /\ l = Len(S) /\ \A i \in 1 .. l : S[i] \in Nat /\ S[i] <= v
  BY VerdictsAre DEF Inv
<1>2. T \in Seq(Nat)
  BY DEF Ext
<1>3. Len(T) \in Nat
  BY <1>2
<1>4. l <= Len(T) /\ \A i \in 1 .. l : T[i] = S[i]
  BY <1>1 DEF Ext, Extends
<1> QED  BY <1>1, <1>3, <1>4

LEMMA QuietJupiter ==
    ASSUME NEW S, Inv(S), NEW T, Ext(S, T), NEW q \in JupiterProc, Quiet(q)
    PROVE  JupiterOk(q)'
<1>1. PICK x, xx \in Nat : /\ x = Len(plan) /\ xx = Len(plan') /\ x <= xx
                           /\ \A i \in 1 .. x : plan'[i] = plan[i]
  BY PlanGrows
<1>2. PICK g, a, f : g = segment[q] /\ a = at[q] /\ f = flag[q]
  OBVIOUS
<1>3. segment'[q] = g /\ at'[q] = a /\ flag'[q] = f
  BY <1>2 DEF Quiet
<1>4. a \in Nat
  BY <1>2 DEF Inv, VarsOk
<1>5. /\ g # "picard" /\ a <= x
      /\ g # "idle" => a >= 1 /\ f = plan[a]
      /\ g \in {"idle", "fields"} => a = 0 \/ plan[a] = 0
      /\ g = "done" => plan[a] = 1
  BY <1>1, <1>2 DEF Inv, JupiterOk
<1>6. a >= 1 => plan'[a] = plan[a]
  BY <1>1, <1>4, <1>5
<1>7. /\ g # "picard" /\ a <= xx
      /\ g # "idle" => a >= 1 /\ f = plan'[a]
      /\ g \in {"idle", "fields"} => a = 0 \/ plan'[a] = 0
      /\ g = "done" => plan'[a] = 1
  BY <1>1, <1>4, <1>5, <1>6
<1> QED  BY <1>1, <1>3, <1>7 DEF JupiterOk

LEMMA QuietRound ==
    ASSUME NEW S, Inv(S), NEW T, Ext(S, T), NEW q \in RadProc, Quiet(q)
    PROVE  RoundOk(T, q)'
<1>a. PICK x, xx \in Nat : /\ x = Len(plan) /\ xx = Len(plan') /\ x <= xx
                           /\ \A i \in 1 .. x : plan'[i] = plan[i]
  BY PlanGrows
<1>c. PICK l, ll \in Nat :
              /\ l = Len(S) /\ ll = Len(T) /\ l <= ll
              /\ \A i \in 1 .. l : T[i] = S[i] /\ S[i] \in Nat /\ S[i] <= Len(verdicts)
  BY RoundsGrow
<1>2. PICK g, n, f, M : g = segment[q] /\ n = it[q] /\ f = flag[q] /\ M = Made(q)
  OBVIOUS
<1>3. segment'[q] = g /\ it'[q] = n /\ flag'[q] = f /\ Made(q)' = M
  BY <1>2 DEF Quiet
<1>4. n \in Nat
  BY <1>2 DEF Inv, VarsOk
<1>5. /\ g # "idle"
      /\ n >= 1 /\ n <= l /\ n <= x + 1
      /\ n > 1 => plan[n - 1] = 0
      /\ g # "exchange" => n <= x
      /\ g \in {"fields", "picard"} => plan[n] = 0
      /\ g = "done" => plan[n] = 1
      /\ \A s, t : g = "exchange" /\ Op("recv", s, t, "iflg") \in M => n <= x /\ f = plan[n]
  BY <1>a, <1>c, <1>2 DEF Inv, RoundOk
<1>6. n > 1 => plan'[n - 1] = plan[n - 1]
  BY <1>a, <1>c, <1>4, <1>5
<1>7. n <= x => plan'[n] = plan[n]
  BY <1>a, <1>c, <1>4, <1>5
<1>8. \A s, t : g = "exchange" /\ Op("recv", s, t, "iflg") \in M => n <= xx /\ f = plan'[n]
  BY <1>a, <1>c, <1>4, <1>5, <1>7
<1>9. /\ g # "idle"
      /\ n >= 1 /\ n <= ll /\ n <= xx + 1
      /\ n > 1 => plan'[n - 1] = 0
      /\ g # "exchange" => n <= xx
      /\ g \in {"fields", "picard"} => plan'[n] = 0
      /\ g = "done" => plan'[n] = 1
  BY <1>a, <1>c, <1>4, <1>5, <1>6, <1>7
<1> QED  BY <1>a, <1>c, <1>3, <1>8, <1>9 DEF RoundOk

LEMMA QuietIteration ==
    ASSUME NEW S, Inv(S), NEW T, Ext(S, T), NEW q \in RadProc, Quiet(q),
           q = Rad(0) => verdicts' = verdicts
    PROVE  IterationOk(T, q)'
<1>b. PICK v, vv \in Nat : /\ v = Len(verdicts) /\ vv = Len(verdicts') /\ v <= vv
                           /\ \A i \in 1 .. v : verdicts'[i] = verdicts[i]
  BY VerdictsGrow
<1>c. PICK l, ll \in Nat :
              /\ l = Len(S) /\ ll = Len(T) /\ l <= ll
              /\ \A i \in 1 .. l : T[i] = S[i] /\ S[i] \in Nat /\ S[i] <= Len(verdicts)
  BY RoundsGrow
<1>2. PICK g, n, k, f, b, M : /\ g = segment[q] /\ n = it[q] /\ k = picard[q] /\ f = flag[q]
                              /\ b = obeyed[q] /\ M = Made(q)
  OBVIOUS
<1>3. /\ segment'[q] = g /\ it'[q] = n /\ picard'[q] = k /\ flag'[q] = f
      /\ obeyed'[q] = b /\ Made(q)' = M
  BY <1>2 DEF Quiet
<1>4. n \in Nat /\ k \in Nat /\ b \in Nat
  BY <1>2 DEF Inv, VarsOk
<1>5. n \in 1 .. l
  BY <1>b, <1>c, <1>2, <1>4 DEF Inv, RoundOk
<1>6. PICK z \in Nat : z = S[n] /\ z = T[n] /\ z <= v
  BY <1>b, <1>c, <1>5
<1>7. Heard(q)' <=> Heard(q)
  BY <1>2, <1>3 DEF Heard
<1>8. PICK h \in BOOLEAN : h <=> Heard(q)
  OBVIOUS
<1>9. IterationOk(S, q)
  BY DEF Inv
<1>10. /\ g # "picard" => k = 0 /\ b = z
       /\ g = "picard" =>
          /\ k >= 1 /\ k <= PicardMax
          /\ \A j \in 1 .. k - 1 : verdicts[z + j] = 0
          /\ ~h => b = z + k - 1
          /\ h => b = z + k /\ f = verdicts[b]
       /\ b <= v
       /\ q = Rad(0) => b = v
  BY <1>b, <1>c, <1>2, <1>6, <1>8, <1>9 DEF IterationOk
<1>11. g = "picard" => \A j \in 1 .. k - 1 : verdicts'[z + j] = 0
  <2>1. ASSUME g = "picard", NEW j \in 1 .. k - 1 PROVE verdicts'[z + j] = 0
    <3>1. z + j \in 1 .. v
      BY <1>4, <1>10, <2>1
    <3> QED  BY <1>b, <1>c, <1>10, <2>1, <3>1
  <2> QED  BY <2>1
<1>12. g = "picard" /\ h => f = verdicts'[b]
  <2>1. ASSUME g = "picard", h PROVE f = verdicts'[b]
    <3>1. b \in 1 .. v
      BY <1>4, <1>10, <2>1
    <3> QED  BY <1>b, <1>c, <1>10, <2>1, <3>1
  <2> QED  BY <2>1
<1>13. q = Rad(0) => b = vv
  BY <1>b, <1>c, <1>10
<1>14. b <= vv
  BY <1>b, <1>c, <1>4, <1>10
<1> QED  BY <1>b, <1>c, <1>3, <1>6, <1>7, <1>8, <1>10, <1>11, <1>12, <1>13, <1>14 DEF IterationOk

LEMMA QuietHave ==
    ASSUME NEW q \in RadProc, Quiet(q), HaveOk(q), PostedOk(q)
    PROVE  HaveOk(q)' /\ PostedOk(q)'
<1>1. PICK g, n, M, P, H : /\ g = segment[q] /\ n = it[q] /\ M = Made(q)
                           /\ P = pending[q] /\ H = have[q]
  OBVIOUS
<1>2. segment'[q] = g /\ it'[q] = n /\ Made(q)' = M /\ pending'[q] = P /\ have'[q] = H
  BY <1>1 DEF Quiet
<1>3. HaveOk(q)'
  BY <1>1, <1>2 DEF HaveOk
<1>4. PostedOk(q)'
  BY <1>1, <1>2 DEF PostedOk
<1> QED  BY <1>3, <1>4

LEMMA QuietSets ==
    ASSUME NEW S, Inv(S), NEW T, Ext(S, T), NEW q \in Proc, NEW x \in Proc, Quiet(q)
    PROVE  SentSet(T, q, x)' = SentSet(S, q, x) /\ GotSet(T, x, q)' = GotSet(S, x, q)
<1>1. Round(q)' = Round(q) /\ Phase(q)' = Phase(q)
  BY QuietMoment
<1>2. Made(q)' = Made(q) /\ (q \in RadProc => pending'[q] = pending[q])
  BY DEF Quiet
<1>3. ASSUME NEW e PROVE (Given(q, x, e)' <=> Given(q, x, e)) /\ (Taken(x, q, e)' <=> Taken(x, q, e))
  <2>1. Given(q, x, e)' <=> Given(q, x, e)
    BY <1>2 DEF Given
  <2>2. Posts(SegOf(e[2]), x, q, e[3], e[4]) => pending'[q] = pending[q]
    BY <1>2, PostsIs
  <2>3. Taken(x, q, e)' <=> Taken(x, q, e)
    BY <1>2, <2>2 DEF Taken
  <2> QED  BY <2>1, <2>3
<1>4. \A e : e \in SentSet(T, q, x)' <=>
            e \in Events(S, q, x) /\ (Before(q, e) \/ (Now(q, e) /\ Given(q, x, e)'))
  BY <1>1, SentMoved
<1>5. \A e : e \in GotSet(T, x, q)' <=>
            e \in Events(S, x, q) /\ (Before(q, e) \/ (Now(q, e) /\ Taken(x, q, e)'))
  BY <1>1, GotMoved
<1>7. \A e : e \in SentSet(T, q, x)' <=> e \in SentSet(S, q, x)
  BY <1>3, <1>4, SetsAre
<1>8. \A e : e \in GotSet(T, x, q)' <=> e \in GotSet(S, x, q)
  BY <1>3, <1>5, SetsAre
<1>9. /\ SentSet(T, q, x)' \subseteq Event /\ SentSet(S, q, x) \subseteq Event
      /\ GotSet(T, x, q)' \subseteq Event /\ GotSet(S, x, q) \subseteq Event
  BY DEF SentSet, GotSet, Events
<1> QED  BY <1>7, <1>8, <1>9

\* What a message says stays right.
LEMMA RightKept ==
    ASSUME NEW S, Inv(S), NEW T, Ext(S, T), NEW s, NEW d, NEW m \in Msg,
           Ev(m) \in Events(S, s, d), Right(S, m)
    PROVE  Right(T, m)'
<1>a. PICK x, xx \in Nat : /\ x = Len(plan) /\ xx = Len(plan') /\ x <= xx
                           /\ \A i \in 1 .. x : plan'[i] = plan[i]
  BY PlanGrows
<1>b. PICK v, vv \in Nat : /\ v = Len(verdicts) /\ vv = Len(verdicts') /\ v <= vv
                           /\ \A i \in 1 .. v : verdicts'[i] = verdicts[i]
  BY VerdictsGrow
<1>c. PICK l, ll \in Nat :
              /\ l = Len(S) /\ ll = Len(T) /\ l <= ll
              /\ \A i \in 1 .. l : T[i] = S[i] /\ S[i] \in Nat /\ S[i] <= Len(verdicts)
  BY RoundsGrow
<1>2. PICK n \in Nat, k \in Nat : n = m.round /\ k = m.iteration
  BY DEF Msg
<1>3. Real(S, n, MsgPhase(m)) /\ Sends(s, SegOf(MsgPhase(m)), d, m.tag, m.what)
  BY <1>2, EvIs DEF Events
<1>4. n >= 1
  BY <1>3 DEF Real
<1>5. m.what = "iexit" => k >= 1 /\ n \in 1 .. l
  <2>1. ASSUME m.what = "iexit" PROVE k >= 1 /\ n \in 1 .. l
    <3>1. SegOf(MsgPhase(m)) = "picard"
      <4>1. ~Exchanged(s, d, m.tag, m.what)
        BY <2>1 DEF Exchanged
      <4>2. "iexit" \notin FieldSet
        BY FieldsAre DEF Others
      <4>3. ~Passed(s, d, m.tag, m.what)
        BY <2>1, <4>2, AFieldIs DEF Passed
      <4> QED  BY <1>3, <4>1, <4>3 DEF Sends
    <3>2. MsgPhase(m) >= 2 /\ MsgPhase(m) \in Nat
      BY <3>1, EvIs, SegOfIs
    <3>3. k >= 1
      BY <1>2, <3>2 DEF MsgPhase
    <3>4. n <= l
      BY <1>a, <1>b, <1>c, <1>3, <3>2 DEF Real
    <3> QED  BY <1>4, <3>3, <3>4
  <2> QED  BY <2>1
<1>6. m.what = "iflg" => n <= xx /\ m.value = plan'[n]
  BY <1>a, <1>b, <1>c, <1>2, <1>4 DEF Right
<1>7. m.what = "iexit" => T[n] + k <= vv /\ m.value = verdicts'[T[n] + k]
  <2>1. ASSUME m.what = "iexit" PROVE T[n] + k <= vv /\ m.value = verdicts'[T[n] + k]
    <3>1. PICK z \in Nat : z = S[n] /\ z = T[n]
      BY <1>a, <1>b, <1>c, <1>5, <2>1
    <3>2. z + k <= v /\ m.value = verdicts[z + k]
      BY <1>a, <1>b, <1>c, <1>2, <2>1, <3>1 DEF Right
    <3>3. z + k \in 1 .. v
      BY <1>5, <2>1, <3>2
    <3> QED  BY <1>a, <1>b, <1>c, <3>1, <3>2, <3>3
  <2> QED  BY <2>1
<1>8. m.what \in FieldSet => m.value = n
  BY <1>2 DEF Right
<1> QED  BY <1>a, <1>b, <1>c, <1>2, <1>6, <1>7, <1>8 DEF Right

LEMMA SendCall ==
    ASSUME VarsOk, NEW p \in Proc, NEW x, NEW t, NEW w
    PROVE  Has(Ops(p), Op("send", x, t, w)) <=> Sends(p, segment[p], x, t, w)
<1>1. segment[p] \in Segments
  BY OpsAre
<1>2. Faithful(p, segment[p], Ops(p))
  BY <1>1, ScriptFaithful DEF Ops
<1> QED  BY <1>2 DEF Faithful

LEMMA RecvCall ==
    ASSUME VarsOk, NEW p \in Proc, NEW x, NEW t, NEW w
    PROVE  Has(Ops(p), Op("recv", x, t, w)) <=>
              Sends(x, segment[p], p, t, w) /\ ~Posts(segment[p], x, p, t, w)
<1>1. segment[p] \in Segments
  BY OpsAre
<1>2. Faithful(p, segment[p], Ops(p))
  BY <1>1, ScriptFaithful DEF Ops
<1> QED  BY <1>2 DEF Faithful

LEMMA RightOnLink ==
    ASSUME NEW S, Inv(S), NEW T, Ext(S, T), NEW s \in Proc, NEW d \in Proc, <<s, d>> \in Links,
           NEW c, c = chan[<<s, d>>]
    PROVE  \A i \in DOMAIN c : Right(T, c[i])'
<1>1. LinkOk(S, s, d)
  BY DEF Inv
<1>a. Chan(c, SentSet(S, s, d), GotSet(S, s, d)) /\ \A i \in DOMAIN c : Right(S, c[i])
  BY <1>1 DEF LinkOk
<1>2. ASSUME NEW i \in DOMAIN c PROVE Right(T, c[i])'
  <2>1. PICK m : m = c[i]
    OBVIOUS
  <2>2. Right(S, m)
    BY <1>a, <2>1
  <2>3. Ev(m) \in SentSet(S, s, d) /\ m \in Msg
    <3>1. PICK A : A = SentSet(S, s, d)
      OBVIOUS
    <3>2. PICK B : B = GotSet(S, s, d)
      OBVIOUS
    <3>3. Chan(c, A, B)
      BY <1>a, <3>1, <3>2
    <3>4. Ev(m) \in A /\ m \in Msg
      BY <2>1, <3>3 DEF Chan
    <3> QED  BY <3>1, <3>4
  <2>4. Ev(m) \in Events(S, s, d)
    BY <2>3 DEF SentSet
  <2>5. Right(T, m)'
    BY <2>2, <2>3, <2>4, RightKept
  <2> QED  BY <2>1, <2>5
<1> QED  BY <1>2

LEMMA LinkKept ==
    ASSUME NEW S, Inv(S), NEW T, Ext(S, T), NEW s \in Proc, NEW d \in Proc, <<s, d>> \in Links,
           SentSet(T, s, d)' = SentSet(S, s, d), GotSet(T, s, d)' = GotSet(S, s, d),
           chan'[<<s, d>>] = chan[<<s, d>>]
    PROVE  LinkOk(T, s, d)'
<1>1. LinkOk(S, s, d)
  BY DEF Inv
<1>2. PICK c : c = chan[<<s, d>>]
  OBVIOUS
<1>4. Chan(c, SentSet(S, s, d), GotSet(S, s, d))
  BY <1>1, <1>2 DEF LinkOk
<1>5. chan'[<<s, d>>] = c
  BY <1>2
<1>6. Chan(c, SentSet(T, s, d)', GotSet(T, s, d)')
  BY <1>4
<1>7. \A i \in DOMAIN c : Right(T, c[i])'
  BY <1>2, RightOnLink
<1>8. (\A i \in DOMAIN chan[<<s, d>>] : Right(T, chan[<<s, d>>][i]))'
  BY <1>5, <1>7
<1>9. Chan(chan[<<s, d>>], SentSet(T, s, d), GotSet(T, s, d))'
  BY <1>5, <1>6
<1> QED  BY <1>8, <1>9 DEF LinkOk

\* It is enough to look at the process that moves, and at its links.
LEMMA Moved ==
    ASSUME NEW S, Inv(S), NEW T, Ext(S, T), NEW p \in Proc, VarsOk', PlanOk', VerdictsOk(T)',
           \A q \in Proc : q # p => Quiet(q), p = Rad(0) \/ verdicts' = verdicts,
           p \in JupiterProc => JupiterOk(p)',
           p \in RadProc => RoundOk(T, p)' /\ IterationOk(T, p)' /\ HaveOk(p)' /\ PostedOk(p)',
           \A x \in Proc : <<p, x>> \in Links => LinkOk(T, p, x)',
           \A x \in Proc : <<x, p>> \in Links => LinkOk(T, x, p)',
           \A s, d \in Proc : <<s, d>> \in Links /\ s # p /\ d # p =>
                chan'[<<s, d>>] = chan[<<s, d>>]
    PROVE  Inv(T)'
<1>1. ASSUME NEW q \in JupiterProc PROVE JupiterOk(q)'
  <2>1. q \in Proc
    BY DEF Proc
  <2> QED  BY <2>1, QuietJupiter
<1>2. ASSUME NEW q \in RadProc PROVE RoundOk(T, q)' /\ IterationOk(T, q)' /\ HaveOk(q)' /\ PostedOk(q)'
  <2>1. q \in Proc
    BY DEF Proc
  <2>2. CASE q # p
    <3>1. Quiet(q) /\ (q = Rad(0) => verdicts' = verdicts)
      BY <2>1, <2>2
    <3>2. HaveOk(q) /\ PostedOk(q)
      BY DEF Inv
    <3>3. RoundOk(T, q)'
      BY <3>1, QuietRound
    <3>4. IterationOk(T, q)'
      BY <3>1, QuietIteration
    <3>5. HaveOk(q)' /\ PostedOk(q)'
      BY <3>1, <3>2, QuietHave
    <3> QED  BY <3>3, <3>4, <3>5
  <2> QED  BY <2>1, <2>2
<1>3. ASSUME NEW s \in Proc, NEW d \in Proc, <<s, d>> \in Links PROVE LinkOk(T, s, d)'
  <2>1. CASE s # p /\ d # p
    <3>1. Quiet(s) /\ Quiet(d) /\ chan'[<<s, d>>] = chan[<<s, d>>]
      BY <2>1, <1>3
    <3>2. SentSet(T, s, d)' = SentSet(S, s, d)
      BY <3>1, QuietSets
    <3>3. GotSet(T, s, d)' = GotSet(S, s, d)
      BY <3>1, QuietSets
    <3> QED  BY <1>3, <3>1, <3>2, <3>3, LinkKept
  <2> QED  BY <1>3, <2>1
<1> QED  BY <1>1, <1>2, <1>3 DEF Inv

\* A process that goes from one phase to the next there is takes nothing back.
LEMMA EnterSets ==
    ASSUME NEW S, Inv(S), NEW T, Ext(S, T), NEW p \in Proc, NEW x \in Proc,
           Finished(p), segment[p] # "done", Made(p)' = {},
           NEW n2 \in Nat, NEW a2 \in Nat, Round(p)' = n2, Phase(p)' = a2,
           Earlier(Round(p), Phase(p), n2, a2),
           \A n, a \in Nat : /\ Earlier(Round(p), Phase(p), n, a) /\ Earlier(n, a, n2, a2)
                             /\ p \in JupiterProc => a <= 1
                             => ~Real(T, n, a)'
    PROVE  SentSet(T, p, x)' = SentSet(S, p, x) /\ GotSet(T, x, p)' = GotSet(S, x, p)
<1>0. VarsOk
  BY DEF Inv
<1>1. PICK n1 \in Nat, a1 \in Nat : n1 = Round(p) /\ a1 = Phase(p)
  BY PhaseIs
<1>2. /\ segment[p] \in {"exchange", "fields", "picard"} => SegOf(a1) = segment[p]
      /\ segment[p] = "idle" => p \in JupiterProc /\ a1 = 2
      /\ segment[p] \in {"idle", "exchange", "fields", "picard"}
  BY <1>1, PhaseIs DEF Segments
<1>3. \A e : (Sent(p, x, e)' <=> Earlier(e[1], e[2], n2, a2)) /\ (Got(x, p, e)' <=> Earlier(e[1], e[2], n2, a2))
  BY DEF Sent, Got
<1>4. ASSUME NEW e \in Event, NEW s \in Proc, NEW d \in Proc, p \in {s, d},
             Sends(s, SegOf(e[2]), d, e[3], e[4])
      PROVE  /\ p \in JupiterProc => e[2] <= 1
             /\ Now(p, e) => SegOf(e[2]) = segment[p]
  <2>1. e[1] \in Nat /\ e[2] \in Nat
    BY DEF Event
  <2>2. SegOf(e[2]) = "picard" => p \notin JupiterProc
    <3>1. SegOf(e[2]) = "picard" => s \in RadProc /\ d \in RadProc
      BY <1>4, SendsIs
    <3> QED  BY <1>4, <3>1, ProcIs
  <2>3. p \in JupiterProc => e[2] <= 1
    BY <2>1, <2>2, SegOfIs
  <2>4. Now(p, e) => SegOf(e[2]) = segment[p]
    BY <1>1, <1>2, <2>3 DEF Now
  <2> QED  BY <2>3, <2>4
<1>5. ASSUME NEW e, NEW s \in Proc, NEW d \in Proc, p \in {s, d}
      PROVE  e \in Events(T, s, d)' /\ Earlier(e[1], e[2], n2, a2) <=>
                e \in Events(S, s, d) /\ (Before(p, e) \/ Now(p, e))
  <2>1. Before(p, e) \/ Now(p, e) => (e \in Events(T, s, d)' <=> e \in Events(S, s, d))
    BY <1>5, EventsNear
  <2>2. ASSUME e \in Event, Before(p, e) \/ Now(p, e) PROVE Earlier(e[1], e[2], n2, a2)
    <3>1. e[1] \in Nat /\ e[2] \in Nat
      BY <2>2 DEF Event
    <3> QED  BY <1>1, <2>2, <3>1 DEF Before, Now, Earlier
  <2>3. ASSUME e \in Events(T, s, d)', Earlier(e[1], e[2], n2, a2) PROVE Before(p, e) \/ Now(p, e)
    <3>1. e \in Event /\ Sends(s, SegOf(e[2]), d, e[3], e[4]) /\ Real(T, e[1], e[2])'
      BY <2>3 DEF Events
    <3>2. e[1] \in Nat /\ e[2] \in Nat
      BY <3>1 DEF Event
    <3>3. p \in JupiterProc => e[2] <= 1
      BY <1>4, <1>5, <3>1
    <3>4. ~Earlier(Round(p), Phase(p), e[1], e[2])
      BY <2>3, <3>1, <3>2, <3>3
    <3> QED  BY <1>1, <3>2, <3>4 DEF Earlier, Before, Now
  <2>4. e \in Events(S, s, d) => e \in Event
    BY DEF Events
  <2> QED  BY <2>1, <2>2, <2>3, <2>4
<1>6. ASSUME NEW e, e \in Events(S, p, x), Now(p, e) PROVE Given(p, x, e)
  <2>1. e \in Event /\ Sends(p, SegOf(e[2]), x, e[3], e[4])
    BY <1>6 DEF Events
  <2>2. Sends(p, segment[p], x, e[3], e[4])
    BY <1>4, <1>6, <2>1
  <2>3. Has(Ops(p), Op("send", x, e[3], e[4]))
    BY <1>0, <2>2, SendCall
  <2> QED  BY <1>0, <2>3, MadeNow, ActiveKinds DEF Given
<1>7. ASSUME NEW e, e \in Events(S, x, p), Now(p, e) PROVE Taken(x, p, e)
  <2>1. e \in Event /\ Sends(x, SegOf(e[2]), p, e[3], e[4])
    BY <1>7 DEF Events
  <2>2. Sends(x, segment[p], p, e[3], e[4]) /\ SegOf(e[2]) = segment[p]
    BY <1>4, <1>7, <2>1
  <2>3. CASE ~Posts(segment[p], x, p, e[3], e[4])
    <3>1. Has(Ops(p), Op("recv", x, e[3], e[4]))
      BY <1>0, <2>2, <2>3, RecvCall
    <3> QED  BY <1>0, <3>1, MadeNow, ActiveKinds DEF Taken
  <2>4. CASE Posts(segment[p], x, p, e[3], e[4])
    <3>1. /\ segment[p] = "fields" /\ p \in RadProc /\ e[4] \in FieldSet
          /\ x = Rad(master_lat(myrank(p)))
      BY <2>4, PostsIs
    <3>2. MasterSlave(x, p)
      BY <2>4 DEF Posts
    <3>3. Has(Ops(p), Op("post", x, 0, "")) /\ Has(Ops(p), Op("waitlast", x, 0, ""))
      BY <1>0, <3>1, <3>2, CallsAre
    <3>4. Op("post", x, 0, "") \in Made(p) /\ Op("waitlast", x, 0, "") \in Made(p)
      BY <1>0, <3>3, MadeNow, ActiveKinds
    <3>5. PostedOk(p)
      BY <3>1 DEF Inv
    <3>6. pending[p][e[4]] = 0
      BY <3>1, <3>4, <3>5 DEF PostedOk
    <3> QED  BY <2>2, <2>4, <3>4, <3>6 DEF Taken
  <2> QED  BY <2>3, <2>4
<1>8. \A e : e \in SentSet(T, p, x)' <=> e \in SentSet(S, p, x)
  <2>1. ASSUME NEW e PROVE e \in SentSet(T, p, x)' <=> e \in SentSet(S, p, x)
    <3>1. e \in SentSet(T, p, x)' <=> e \in Events(T, p, x)' /\ Earlier(e[1], e[2], n2, a2)
      BY <1>3 DEF SentSet
    <3> QED  BY <1>5, <1>6, <3>1, SetsAre
  <2> QED  BY <2>1
<1>9. \A e : e \in GotSet(T, x, p)' <=> e \in GotSet(S, x, p)
  <2>1. ASSUME NEW e PROVE e \in GotSet(T, x, p)' <=> e \in GotSet(S, x, p)
    <3>1. e \in GotSet(T, x, p)' <=> e \in Events(T, x, p)' /\ Earlier(e[1], e[2], n2, a2)
      BY <1>3 DEF GotSet
    <3> QED  BY <1>5, <1>7, <3>1, SetsAre
  <2> QED  BY <2>1
<1>10. /\ SentSet(T, p, x)' \subseteq Event /\ SentSet(S, p, x) \subseteq Event
       /\ GotSet(T, x, p)' \subseteq Event /\ GotSet(S, x, p) \subseteq Event
  BY DEF SentSet, GotSet, Events
<1> QED  BY <1>8, <1>9, <1>10

-------------------------------------------------------------------------------
\* The message that a receive takes.
LEMMA EventNow ==
    ASSUME NEW S, Inv(S), NEW p \in Proc, NEW s, NEW d, NEW t, NEW w,
           Sends(s, segment[p], d, t, w), NEW e, e = <<Round(p), Phase(p), t, w>>
    PROVE  /\ e \in Events(S, s, d) /\ Now(p, e) /\ SegOf(e[2]) = segment[p]
           /\ e[1] = Round(p) /\ e[2] = Phase(p) /\ e[3] = t /\ e[4] = w
           /\ segment[p] \in {"exchange", "fields", "picard"}
<1>1. t \in Int /\ w \in Whats /\ segment[p] \in {"exchange", "fields", "picard"}
  BY SendsIs
<1>2. Round(p) \in Nat /\ Phase(p) \in Nat /\ SegOf(Phase(p)) = segment[p]
  BY <1>1, PhaseIs
<1>3. e \in Event /\ e[1] = Round(p) /\ e[2] = Phase(p) /\ e[3] = t /\ e[4] = w
  BY <1>1, <1>2 DEF Event
<1>4. Real(S, Round(p), Phase(p))
  BY <1>1, MomentReal
<1>5. Sends(s, SegOf(e[2]), d, e[3], e[4]) /\ Real(S, e[1], e[2])
  BY <1>2, <1>3, <1>4
<1> QED  BY <1>1, <1>2, <1>3, <1>5 DEF Events, Now

LEMMA HeadIs ==
    ASSUME NEW S, Inv(S), NEW s \in Proc, NEW p \in Proc, <<s, p>> \in Links,
           NEW x \in Events(S, s, p), Now(p, x), x \notin GotSet(S, s, p),
           \A f \in Events(S, s, p) :
               Now(p, f) /\ f[3] = x[3] /\ SendStage(f[4]) < SendStage(x[4]) => Taken(s, p, f),
           NEW c, Chan(c, SentSet(S, s, p), GotSet(S, s, p)), \A i \in DOMAIN c : Right(S, c[i]),
           NEW t, t = x[3], NEW K, K # {}, \A i : i \in K <=> i \in DOMAIN c /\ c[i].tag = t
    PROVE  /\ Min(K) \in DOMAIN c /\ c[Min(K)] \in Msg /\ Ev(c[Min(K)]) = x
           /\ Right(S, c[Min(K)])
<1>0. VarsOk
  BY DEF Inv
<1>2. PICK A : A = SentSet(S, s, p)
  OBVIOUS
<1>3. PICK B : B = GotSet(S, s, p)
  OBVIOUS
<1>4. Chan(c, A, B)
  BY <1>2, <1>3
<1>b. K # {} => Min(K) \in DOMAIN c /\ c[Min(K)].tag = t /\ Min(K) \in Nat
                /\ \A i \in K : Min(K) <= i
  BY <1>4, ChanHead
<1>5. Min(K) \in DOMAIN c /\ c[Min(K)].tag = t
  BY <1>b
<1>6. \A e \in A : e \notin B /\ e[3] = t => e = Ev(c[Min(K)]) \/ Less(Ev(c[Min(K)]), e)
  BY <1>4, ChanHead
<1>7. PICK k, f : k = Min(K) /\ f = Ev(c[k])
  OBVIOUS
<1>a. c[k] \in Msg /\ f \in A /\ f \notin B
  BY <1>4, <1>5, <1>7 DEF Chan
<1>8. k \in DOMAIN c /\ c[k] \in Msg /\ Right(S, c[k]) /\ f \in A /\ f \notin B /\ f[3] = x[3]
  BY <1>5, <1>7, <1>a, EvIs
<1>9. f \in Events(S, s, p) /\ Sent(s, p, f) /\ ~Got(s, p, f)
  BY <1>2, <1>3, <1>8 DEF SentSet, GotSet
<1>10. ~Before(p, f) /\ ~(Now(p, f) /\ Taken(s, p, f))
  BY <1>9, SetsAre DEF Got, Before, Now, Taken
<1>11. f \in Event /\ x \in Event
  BY <1>9 DEF Events
<1>12. /\ f[1] \in Nat /\ f[2] \in Nat /\ x[1] \in Nat /\ x[2] \in Nat
       /\ SendStage(f[4]) \in Nat /\ SendStage(x[4]) \in Nat
  BY <1>11, StagesRelated DEF Event
<1>13. x[1] = Round(p) /\ x[2] = Phase(p)
  BY DEF Now
<1>14. ~Earlier(f[1], f[2], x[1], x[2])
  BY <1>10, <1>13 DEF Before
<1>15. ASSUME f[1] = x[1], f[2] = x[2], SendStage(f[4]) < SendStage(x[4]) PROVE FALSE
  <2>1. Now(p, f)
    BY <1>13, <1>15 DEF Now
  <2> QED  BY <1>8, <1>9, <1>10, <1>15, <2>1
<1>16. ASSUME f[1] = x[1], f[2] = x[2], SendStage(f[4]) = SendStage(x[4]) PROVE f = x
  <2>1. /\ Sends(s, SegOf(x[2]), p, x[3], x[4])
        /\ Sends(s, SegOf(x[2]), p, x[3], f[4])
    BY <1>8, <1>9, <1>16 DEF Events
  <2>2. f[4] = x[4]
    BY <1>16, <2>1, SameStage
  <2> QED  BY <1>8, <1>11, <1>16, <2>2 DEF Event
<1>17. CASE x \in A
  <2>1. x = f \/ Less(f, x)
    BY <1>3, <1>6, <1>7, <1>17
  <2>2. ~Less(f, x)
    BY <1>14, <1>15 DEF Less, Earlier
  <2> QED  BY <1>7, <1>8, <2>1, <2>2
<1>18. CASE x \notin A
  <2>1. ~Before(s, x) /\ ~(Now(s, x) /\ Given(s, p, x))
    BY <1>2, <1>18, SetsAre
  <2>2. Before(s, f) \/ (Now(s, f) /\ Given(s, p, f))
    BY <1>2, <1>8, SetsAre
  <2>3. PICK n \in Nat, a \in Nat : n = Round(s) /\ a = Phase(s)
    BY PhaseIs
  <2>4. f[1] = x[1] /\ f[2] = x[2] /\ Now(s, x) /\ Now(s, f) /\ Given(s, p, f)
    <3>1. ~Earlier(x[1], x[2], n, a)
      BY <2>1, <2>3 DEF Before
    <3>2. Earlier(f[1], f[2], n, a) \/ (f[1] = n /\ f[2] = a /\ Given(s, p, f))
      BY <2>2, <2>3 DEF Before, Now
    <3>3. f[1] = n /\ f[2] = a /\ Given(s, p, f) /\ x[1] = n /\ x[2] = a
      BY <1>12, <1>14, <2>3, <3>1, <3>2 DEF Earlier
    <3> QED  BY <2>3, <3>3 DEF Now
  <2>5. ~Given(s, p, x)
    BY <2>1, <2>4
  <2>6. Sends(s, SegOf(x[2]), p, x[3], x[4])
    BY DEF Events
  <2>7. SegOf(x[2]) = segment[s]
    <3>1. SegOf(x[2]) \in {"exchange", "fields", "picard"} /\ (SegOf(x[2]) = "picard" => s \in RadProc)
      BY <2>6, SendsIs
    <3>2. x[2] = Phase(s)
      BY <2>4 DEF Now
    <3>3. segment[s] # "idle"
      <4>1. SUFFICES ASSUME segment[s] = "idle" PROVE FALSE
        OBVIOUS
      <4>2. s \in JupiterProc /\ x[2] = 2
        BY <3>2, <4>1, PhaseIs
      <4>3. SegOf(x[2]) = "picard"
        BY <1>12, <4>2, SegOfIs
      <4> QED  BY <3>1, <4>2, <4>3, ProcIs
    <3>4. segment[s] # "done"
      BY <1>0, <2>4, NothingMade DEF Given
    <3> QED  BY <3>2, <3>3, <3>4, PhaseIs DEF Segments
  <2>8. Has(Ops(s), Op("send", p, x[3], x[4]))
    BY <1>0, <2>6, <2>7, SendCall
  <2>9. ~(Stage(Op("send", p, x[3], x[4])) < Stage(Op("send", p, f[3], f[4])))
    BY <1>0, <2>4, <2>5, <2>8, MadeNow, ActiveKinds DEF Given
  <2>10. ~(SendStage(x[4]) < SendStage(f[4]))
    <3>1. Stage(Op("send", p, x[3], x[4])) = SendStage(x[4])
      BY StageOf
    <3>2. Stage(Op("send", p, f[3], f[4])) = SendStage(f[4])
      BY StageOf
    <3> QED  BY <2>9, <3>1, <3>2
  <2>11. f = x
    BY <1>12, <1>15, <1>16, <2>4, <2>10
  <2> QED  BY <1>7, <1>8, <2>11
<1> QED  BY <1>17, <1>18

\* The message of an event.
LEMMA MsgOf ==
    ASSUME NEW S, Inv(S), NEW p \in Proc, NEW t, NEW w, NEW m \in Msg,
           Ev(m) = <<Round(p), Phase(p), t, w>>,
           segment[p] \in {"exchange", "fields", "picard"}
    PROVE  m.round = Round(p) /\ m.iteration = Iteration(p) /\ m.tag = t /\ m.what = w
<1>1. m.round = Round(p) /\ MsgPhase(m) = Phase(p) /\ m.tag = t /\ m.what = w
  BY DEF Ev
<1>2. m.iteration \in Nat
  BY DEF Msg
<1>3. /\ segment[p] = "picard" => Phase(p) >= 2 /\ Phase(p) = picard[p] + 1 /\ p \in RadProc
      /\ segment[p] # "picard" => Phase(p) \in {0, 1} /\ Iteration(p) = 0
      /\ p \in RadProc => Iteration(p) = picard[p]
  BY PhaseIs, ProcIs
<1>4. MsgPhase(m) = IF m.iteration > 0 THEN m.iteration + 1
                    ELSE IF m.what \in {"heat", "iflg"} THEN 0 ELSE 1
  BY DEF MsgPhase
<1>5. CASE segment[p] = "picard"
  <2>1. picard[p] \in Nat
    BY <1>3, <1>5 DEF Inv, VarsOk
  <2> QED  BY <1>1, <1>2, <1>3, <1>4, <1>5, <2>1
<1>6. CASE segment[p] # "picard"
  BY <1>1, <1>2, <1>3, <1>4, <1>6
<1> QED  BY <1>1, <1>5, <1>6

LEMMA RecvCur ==
    ASSUME NEW S, Inv(S), NEW p \in Proc, At(p, "recv")
    PROVE  \E s, t, w : /\ s = Cur(p).peer /\ t = Cur(p).tag /\ w = Cur(p).what
                        /\ Cur(p) = Op("recv", s, t, w)
                        /\ s \in Proc /\ <<s, p>> \in Links /\ s # p
                        /\ Sends(s, segment[p], p, t, w) /\ ~Posts(segment[p], s, p, t, w)
<1>0. VarsOk
  BY DEF Inv
<1>1. PICK s : s = Cur(p).peer
  OBVIOUS
<1>2. PICK t : t = Cur(p).tag
  OBVIOUS
<1>3. PICK w : w = Cur(p).what
  OBVIOUS
<1>a. PICK k : k = "recv"
  OBVIOUS
<1>b. k # "wait" /\ At(p, k)
  BY <1>a
<1>4. Cur(p) = Op(k, Cur(p).peer, Cur(p).tag, Cur(p).what) /\ Has(Ops(p), Cur(p))
  BY <1>0, <1>b, CurIs
<1>5. Cur(p) = Op("recv", s, t, w) /\ Has(Ops(p), Op("recv", s, t, w))
  BY <1>1, <1>2, <1>3, <1>4, <1>a
<1>6. Sends(s, segment[p], p, t, w) /\ ~Posts(segment[p], s, p, t, w)
  BY <1>0, <1>5, RecvCall
<1>7. s \in Proc /\ s # p
  BY <1>6, SendsIs
<1>8. <<s, p>> \in Links
  BY <1>6, <1>7, LinksAre
<1> QED  BY <1>1, <1>2, <1>3, <1>5, <1>6, <1>7, <1>8

\* A slave receives from its master in the fields segment what it has posted, only.
LEMMA NoRecvBesidePosts ==
    ASSUME NEW s, NEW p, NEW t, NEW w, Sends(s, "fields", p, t, w), MasterSlave(s, p)
    PROVE  Posts("fields", s, p, t, w)
<1>1. Passed(s, p, t, w)
  BY DEF Sends
<1>2. ~Halos(s, p, t)
  BY MasterNoHalo
<1>3. s \notin JupiterProc
  BY MasterSlaveProcs, RadInt
<1>4. AField(t, w)
  BY <1>1, <1>2, <1>3 DEF Passed
<1> QED  BY <1>4 DEF Posts

LEMMA MatchingIs ==
    ASSUME NEW S, Inv(S), NEW s \in Proc, NEW d \in Proc, <<s, d>> \in Links, NEW t,
           NEW c, c = chan[<<s, d>>]
    PROVE  /\ \A k : k \in Matching(s, d, t) <=> k \in DOMAIN c /\ c[k].tag = t
           /\ Matching(s, d, t) \subseteq Nat /\ IsFiniteSet(Matching(s, d, t))
           /\ c \in Seq(Msg) /\ Len(c) \in Nat /\ DOMAIN c = 1 .. Len(c)
<1>1. Chan(c, SentSet(S, s, d), GotSet(S, s, d))
  BY DEF Inv, LinkOk
<1>2. c \in Seq(Msg)
  BY <1>1 DEF Chan
<1>3. Len(c) \in Nat /\ DOMAIN c = 1 .. Len(c)
  BY <1>2
<1>4. \A k : k \in Matching(s, d, t) <=> k \in DOMAIN c /\ c[k].tag = t
  BY DEF Matching
<1>5. Matching(s, d, t) \subseteq 1 .. Len(c)
  BY <1>3, <1>4
<1>6. IsFiniteSet(1 .. Len(c))
  BY <1>3, FS_Interval
<1> QED  BY <1>2, <1>3, <1>4, <1>5, <1>6, FS_Subset

LEMMA AvailableIs ==
    ASSUME NEW S, Inv(S), NEW s \in Proc, NEW p \in Proc, <<s, p>> \in Links, NEW t, NEW w,
           Sends(s, segment[p], p, t, w), ~Posts(segment[p], s, p, t, w)
    PROVE  Available(s, p, t) = Matching(s, p, t)
<1>1. PICK K : K = Matching(s, p, t)
  OBVIOUS
<1>2. IsFiniteSet(K) /\ K \subseteq Nat
  BY <1>1, MatchingIs
<1>3. PICK n : n = Posted(s, p, t)
  OBVIOUS
<1>4. n = 0
  <2>1. CASE p \in RadProc /\ s = Rad(master_lat(myrank(p))) /\ FieldOf(t) \in DOMAIN Fields
    <3>1. PICK f \in FieldSet : f = Fields[FieldOf(t)]
      BY <2>1, FieldsAre
    <3>2. n = pending[p][f]
      BY <1>3, <2>1, <3>1 DEF Posted
    <3>3. SUFFICES ASSUME pending[p][f] # 0 PROVE FALSE
      BY <3>2
    <3>4. PostedOk(p)
      BY <2>1 DEF Inv
    <3>5. segment[p] = "fields" /\ MasterSlave(s, p)
      BY <2>1, <3>3, <3>4 DEF PostedOk
    <3> QED  BY <3>5, NoRecvBesidePosts
  <2>2. CASE ~(p \in RadProc /\ s = Rad(master_lat(myrank(p))) /\ FieldOf(t) \in DOMAIN Fields)
    BY <1>3, <2>2 DEF Posted
  <2> QED  BY <2>1, <2>2
<1>5. \A k \in K : Cardinality({j \in K : j < k}) >= n
  <2>1. ASSUME NEW k \in K PROVE Cardinality({j \in K : j < k}) >= n
    <3>1. PICK V : V = {j \in K : j < k}
      OBVIOUS
    <3>2. V \subseteq K
      BY <3>1
    <3>3. IsFiniteSet(V)
      BY <1>2, <3>2, FS_Subset
    <3>4. Cardinality(V) \in Nat
      BY <3>3, FS_CardinalityType
    <3> QED  BY <1>4, <3>1, <3>4
  <2> QED  BY <2>1
<1>6. Available(s, p, t) = {k \in K : Cardinality({j \in K : j < k}) >= n}
  BY <1>1, <1>3 DEF Available
<1> QED  BY <1>1, <1>5, <1>6

\* What the current receive is waiting for has not come, and what comes before it has.
LEMMA RecvEvent ==
    ASSUME NEW S, Inv(S), NEW p \in Proc, At(p, "recv"), NEW s \in Proc, NEW t, NEW w,
           Cur(p) = Op("recv", s, t, w), Sends(s, segment[p], p, t, w),
           ~Posts(segment[p], s, p, t, w), NEW x, x = <<Round(p), Phase(p), t, w>>
    PROVE  /\ x \in Events(S, s, p) /\ Now(p, x) /\ x \notin GotSet(S, s, p)
           /\ x[3] = t /\ x[4] = w /\ segment[p] \in {"exchange", "fields", "picard"}
           /\ \A f \in Events(S, s, p) :
                 Now(p, f) /\ f[3] = x[3] /\ SendStage(f[4]) < SendStage(x[4]) => Taken(s, p, f)
<1>0. VarsOk
  BY DEF Inv
<1>1. /\ x \in Events(S, s, p) /\ Now(p, x) /\ SegOf(x[2]) = segment[p]
      /\ x[1] = Round(p) /\ x[2] = Phase(p) /\ x[3] = t /\ x[4] = w
      /\ segment[p] \in {"exchange", "fields", "picard"}
  BY EventNow
<1>a. PICK k : k = "recv"
  OBVIOUS
<1>b. k # "wait" /\ At(p, k)
  BY <1>a
<1>2. /\ Cur(p) \notin Made(p)
      /\ \A o : Active(o) /\ Has(Ops(p), o) /\ Stage(o) < Stage(Cur(p)) => o \in Made(p)
  BY <1>0, <1>b, CurIs
<1>3. ~Taken(s, p, x)
  BY <1>1, <1>2 DEF Taken
<1>4. PICK n \in Nat, a \in Nat : n = Round(p) /\ a = Phase(p)
  BY PhaseIs
<1>5. ~Before(p, x)
  BY <1>1, <1>4 DEF Before, Earlier
<1>6. x \notin GotSet(S, s, p)
  BY <1>3, <1>5, SetsAre
<1>7. ASSUME NEW f \in Events(S, s, p), Now(p, f), SendStage(f[4]) < SendStage(x[4])
      PROVE  Taken(s, p, f)
  <2>1. Sends(s, SegOf(f[2]), p, f[3], f[4]) /\ SegOf(f[2]) = segment[p]
    BY <1>1, <1>7 DEF Events, Now
  <2>2. ~Posts(segment[p], s, p, f[3], f[4])
    <3>1. SUFFICES ASSUME Posts(segment[p], s, p, f[3], f[4]) PROVE FALSE
      OBVIOUS
    <3>2. segment[p] = "fields" /\ MasterSlave(s, p)
      BY <3>1 DEF Posts
    <3> QED  BY <3>2, NoRecvBesidePosts
  <2>3. PICK o : o = Op("recv", s, f[3], f[4])
    OBVIOUS
  <2>4. Has(Ops(p), o)
    BY <1>0, <2>1, <2>2, <2>3, RecvCall
  <2>5. Active(o) /\ Stage(o) = RecvStage(f[4])
    BY <2>3, StageOf
  <2>6. Stage(Cur(p)) = RecvStage(w)
    BY StageOf
  <2>7. RecvStage(f[4]) < RecvStage(w)
    BY <1>1, <1>7, StagesRelated
  <2>8. o \in Made(p)
    BY <1>2, <2>4, <2>5, <2>6, <2>7
  <2> QED  BY <2>3, <2>8 DEF Taken
<1> QED  BY <1>1, <1>6, <1>7

LEMMA RecvHead ==
    ASSUME NEW S, Inv(S), NEW p \in Proc, At(p, "recv"), NEW s \in Proc, NEW t, NEW w,
           Cur(p) = Op("recv", s, t, w), Sends(s, segment[p], p, t, w),
           ~Posts(segment[p], s, p, t, w), <<s, p>> \in Links, Available(s, p, t) # {}
    PROVE  \E k, m : /\ k = Min(Available(s, p, t)) /\ m = chan[<<s, p>>][k]
                     /\ k \in DOMAIN chan[<<s, p>>] /\ m \in Msg /\ Right(S, m)
                     /\ Ev(m) = <<Round(p), Phase(p), t, w>>
                     /\ m.what = w /\ m.round = Round(p) /\ m.iteration = Iteration(p)
<1>1. PICK x : x = <<Round(p), Phase(p), t, w>>
  OBVIOUS
<1>2. /\ x \in Events(S, s, p) /\ Now(p, x) /\ x \notin GotSet(S, s, p)
      /\ x[3] = t /\ x[4] = w /\ segment[p] \in {"exchange", "fields", "picard"}
      /\ \A f \in Events(S, s, p) :
            Now(p, f) /\ f[3] = x[3] /\ SendStage(f[4]) < SendStage(x[4]) => Taken(s, p, f)
  BY <1>1, RecvEvent
<1>3. PICK c : c = chan[<<s, p>>]
  OBVIOUS
<1>4. Chan(c, SentSet(S, s, p), GotSet(S, s, p)) /\ \A i \in DOMAIN c : Right(S, c[i])
  BY <1>3 DEF Inv, LinkOk
<1>5. PICK K : K = Available(s, p, t)
  OBVIOUS
<1>6. K # {} /\ \A i : i \in K <=> i \in DOMAIN c /\ c[i].tag = t
  <2>1. K = Matching(s, p, t)
    BY <1>5, AvailableIs
  <2> QED  BY <1>3, <1>5, <2>1, MatchingIs
<1>7. Min(K) \in DOMAIN c /\ c[Min(K)] \in Msg /\ Ev(c[Min(K)]) = x /\ Right(S, c[Min(K)])
  <2>1. PICK u : u = x[3]
    OBVIOUS
  <2>2. \A i : i \in K <=> i \in DOMAIN c /\ c[i].tag = u
    BY <1>2, <1>6, <2>1
  <2> QED  BY <1>2, <1>4, <1>6, <2>1, <2>2, HeadIs
<1>8. PICK k, m : k = Min(K) /\ m = c[k]
  OBVIOUS
<1>9. m \in Msg /\ Ev(m) = <<Round(p), Phase(p), t, w>>
  BY <1>1, <1>7, <1>8
<1>10. m.what = w /\ m.round = Round(p) /\ m.iteration = Iteration(p)
  BY <1>2, <1>9, MsgOf
<1> QED  BY <1>3, <1>5, <1>7, <1>8, <1>9, <1>10

-------------------------------------------------------------------------------
\* A call changes what its process has sent or received.
LEMMA SameExt ==
    ASSUME NEW S, Inv(S), plan' = plan, verdicts' = verdicts
    PROVE  Ext(S, S) /\ PlanOk' /\ VerdictsOk(S)'
<1>1. /\ plan \in Seq({0, 1}) /\ verdicts \in Seq({0, 1}) /\ S \in Seq(Nat)
      /\ PlanOk /\ VerdictsOk(S)
  BY DEF Inv, PlanOk, VerdictsOk
<1>2. Len(plan) <= Len(plan) /\ Len(verdicts) <= Len(verdicts) /\ Len(S) <= Len(S)
  BY <1>1
<1>3. Ext(S, S)
  BY <1>1, <1>2 DEF Ext, Extends
<1>4. PlanOk'
  BY <1>1 DEF PlanOk
<1>5. VerdictsOk(S)'
  BY <1>1 DEF VerdictsOk
<1> QED  BY <1>3, <1>4, <1>5

LEMMA MomentSame ==
    ASSUME NEW p, segment' = segment, at' = at, it' = it, picard' = picard
    PROVE  Round(p)' = Round(p) /\ Phase(p)' = Phase(p) /\ Iteration(p)' = Iteration(p)
BY DEF Round, Phase, Iteration

LEMMA SentSame ==
    ASSUME NEW S, Inv(S), NEW T, Ext(S, T), NEW p \in Proc, NEW d \in Proc,
           Round(p)' = Round(p), Phase(p)' = Phase(p),
           \A e \in Events(S, p, d) : Now(p, e) => (Given(p, d, e)' <=> Given(p, d, e))
    PROVE  SentSet(T, p, d)' = SentSet(S, p, d)
<1>1. \A e : e \in SentSet(T, p, d)' <=>
               e \in Events(S, p, d) /\ (Before(p, e) \/ (Now(p, e) /\ Given(p, d, e)'))
  BY SentMoved
<1>2. \A e : e \in SentSet(T, p, d)' <=> e \in SentSet(S, p, d)
  BY <1>1, SetsAre
<1>3. SentSet(T, p, d)' \subseteq Event /\ SentSet(S, p, d) \subseteq Event
  BY DEF SentSet, Events
<1> QED  BY <1>2, <1>3

LEMMA GotSame ==
    ASSUME NEW S, Inv(S), NEW T, Ext(S, T), NEW p \in Proc, NEW s \in Proc,
           Round(p)' = Round(p), Phase(p)' = Phase(p),
           \A e \in Events(S, s, p) : Now(p, e) => (Taken(s, p, e)' <=> Taken(s, p, e))
    PROVE  GotSet(T, s, p)' = GotSet(S, s, p)
<1>1. \A e : e \in GotSet(T, s, p)' <=>
               e \in Events(S, s, p) /\ (Before(p, e) \/ (Now(p, e) /\ Taken(s, p, e)'))
  BY GotMoved
<1>2. \A e : e \in GotSet(T, s, p)' <=> e \in GotSet(S, s, p)
  BY <1>1, SetsAre
<1>3. GotSet(T, s, p)' \subseteq Event /\ GotSet(S, s, p) \subseteq Event
  BY DEF GotSet, Events
<1> QED  BY <1>2, <1>3

LEMMA SentOne ==
    ASSUME NEW S, Inv(S), NEW T, Ext(S, T), NEW p \in Proc, NEW d \in Proc,
           Round(p)' = Round(p), Phase(p)' = Phase(p), NEW x \in Events(S, p, d), Now(p, x),
           \A e \in Events(S, p, d) : Now(p, e) => (Given(p, d, e)' <=> Given(p, d, e) \/ e = x)
    PROVE  SentSet(T, p, d)' = SentSet(S, p, d) \cup {x}
<1>1. \A e : e \in SentSet(T, p, d)' <=>
               e \in Events(S, p, d) /\ (Before(p, e) \/ (Now(p, e) /\ Given(p, d, e)'))
  BY SentMoved
<1>2. \A e : e \in SentSet(T, p, d)' <=> e \in SentSet(S, p, d) \/ e = x
  BY <1>1, SetsAre
<1>3. SentSet(T, p, d)' \subseteq Event /\ SentSet(S, p, d) \subseteq Event
  BY DEF SentSet, Events
<1> QED  BY <1>2, <1>3

LEMMA GotOne ==
    ASSUME NEW S, Inv(S), NEW T, Ext(S, T), NEW p \in Proc, NEW s \in Proc,
           Round(p)' = Round(p), Phase(p)' = Phase(p), NEW x \in Events(S, s, p), Now(p, x),
           \A e \in Events(S, s, p) : Now(p, e) => (Taken(s, p, e)' <=> Taken(s, p, e) \/ e = x)
    PROVE  GotSet(T, s, p)' = GotSet(S, s, p) \cup {x}
<1>1. \A e : e \in GotSet(T, s, p)' <=>
               e \in Events(S, s, p) /\ (Before(p, e) \/ (Now(p, e) /\ Taken(s, p, e)'))
  BY GotMoved
<1>2. \A e : e \in GotSet(T, s, p)' <=> e \in GotSet(S, s, p) \/ e = x
  BY <1>1, SetsAre
<1>3. GotSet(T, s, p)' \subseteq Event /\ GotSet(S, s, p) \subseteq Event
  BY DEF GotSet, Events
<1> QED  BY <1>2, <1>3

LEMMA VarsSame ==
    ASSUME VarsOk, eager' = eager, at' = at, segment' = segment, it' = it, picard' = picard,
           ip' \in [Proc -> Nat],
           \A q \in Proc : ip'[q] \in 1 .. Len(ScriptTable[q][segment'[q]]) + 1,
           flag' \in [Proc -> {0, 1}], pending' \in [RadProc -> [FieldSet -> {0, 1}]],
           have' \in [RadProc -> [FieldSet -> 0 .. RoundBound]], obeyed' \in [RadProc -> Nat],
           DOMAIN chan' = Links
    PROVE  VarsOk'
BY DEF VarsOk

LEMMA LocalSame ==
    ASSUME NEW S, NEW p \in Proc, plan' = plan, verdicts' = verdicts, segment' = segment,
           at' = at, it' = it, picard' = picard, flag' = flag, pending' = pending,
           have' = have, obeyed' = obeyed,
           \A k \in {"recv", "post", "waitlast", "judge"} : \A x, t, w :
               Op(k, x, t, w) \in Made(p)' <=> Op(k, x, t, w) \in Made(p)
    PROVE  /\ JupiterOk(p) => JupiterOk(p)'
           /\ RoundOk(S, p) => RoundOk(S, p)'
           /\ IterationOk(S, p) => IterationOk(S, p)'
           /\ HaveOk(p) => HaveOk(p)'
           /\ PostedOk(p) => PostedOk(p)'
<1>1. JupiterOk(p) => JupiterOk(p)'
  BY DEF JupiterOk
<1>2. PICK M : M = Made(p)'
  OBVIOUS
<1>3. /\ \A x, t, w : Op("recv", x, t, w) \in M <=> Op("recv", x, t, w) \in Made(p)
      /\ \A x, t, w : Op("post", x, t, w) \in M <=> Op("post", x, t, w) \in Made(p)
      /\ \A x, t, w : Op("waitlast", x, t, w) \in M <=> Op("waitlast", x, t, w) \in Made(p)
      /\ \A x, t, w : Op("judge", x, t, w) \in M <=> Op("judge", x, t, w) \in Made(p)
  <2>1. PICK a \in {"recv", "post", "waitlast", "judge"} : a = "recv"
    OBVIOUS
  <2>2. PICK b \in {"recv", "post", "waitlast", "judge"} : b = "post"
    OBVIOUS
  <2>3. PICK c \in {"recv", "post", "waitlast", "judge"} : c = "waitlast"
    OBVIOUS
  <2>4. PICK d \in {"recv", "post", "waitlast", "judge"} : d = "judge"
    OBVIOUS
  <2>5. \A x, t, w : Op(a, x, t, w) \in M <=> Op(a, x, t, w) \in Made(p)
    BY <1>2
  <2>6. \A x, t, w : Op(b, x, t, w) \in M <=> Op(b, x, t, w) \in Made(p)
    BY <1>2
  <2>7. \A x, t, w : Op(c, x, t, w) \in M <=> Op(c, x, t, w) \in Made(p)
    BY <1>2
  <2>8. \A x, t, w : Op(d, x, t, w) \in M <=> Op(d, x, t, w) \in Made(p)
    BY <1>2
  <2> QED  BY <2>1, <2>2, <2>3, <2>4, <2>5, <2>6, <2>7, <2>8
<1>4. RoundOk(S, p) => RoundOk(S, p)'
  BY <1>2, <1>3 DEF RoundOk
<1>5. Heard(p)' <=> Heard(p)
  BY <1>2, <1>3 DEF Heard
<1>6. IterationOk(S, p) => IterationOk(S, p)'
  BY <1>5 DEF IterationOk
<1>7. HaveOk(p) => HaveOk(p)'
  BY <1>2, <1>3 DEF HaveOk
<1>8. PostedOk(p) => PostedOk(p)'
  BY <1>2, <1>3 DEF PostedOk
<1> QED  BY <1>1, <1>4, <1>6, <1>7, <1>8

\* A send.
LEMMA SendCur ==
    ASSUME NEW S, Inv(S), NEW p \in Proc, At(p, "send")
    PROVE  \E d, t, w : /\ d = Cur(p).peer /\ t = Cur(p).tag /\ w = Cur(p).what
                        /\ Cur(p) = Op("send", d, t, w)
                        /\ d \in Proc /\ <<p, d>> \in Links /\ p # d /\ t \in Int /\ w \in Whats
                        /\ Sends(p, segment[p], d, t, w)
                        /\ Cur(p) \notin Made(p) /\ ~Finished(p) /\ Active(Cur(p))
                        /\ \A o \in Made(p) : Stage(o) <= Stage(Cur(p))
                        /\ \A x : Active(x) /\ Has(Ops(p), x) /\ Stage(x) < Stage(Cur(p)) =>
                              x \in Made(p)
<1>0. VarsOk
  BY DEF Inv
<1>1. PICK d : d = Cur(p).peer
  OBVIOUS
<1>2. PICK t : t = Cur(p).tag
  OBVIOUS
<1>3. PICK w : w = Cur(p).what
  OBVIOUS
<1>a. PICK k : k = "send"
  OBVIOUS
<1>b. k # "wait" /\ At(p, k)
  BY <1>a
<1>4. /\ Cur(p) = Op(k, Cur(p).peer, Cur(p).tag, Cur(p).what) /\ Has(Ops(p), Cur(p))
      /\ Cur(p) \notin Made(p) /\ ~Finished(p) /\ Active(Cur(p))
      /\ \A o \in Made(p) : Stage(o) <= Stage(Cur(p))
      /\ \A x : Active(x) /\ Has(Ops(p), x) /\ Stage(x) < Stage(Cur(p)) => x \in Made(p)
  BY <1>0, <1>b, CurIs
<1>5. Cur(p) = Op("send", d, t, w) /\ Has(Ops(p), Op("send", d, t, w))
  BY <1>1, <1>2, <1>3, <1>4, <1>a
<1>6. Sends(p, segment[p], d, t, w)
  BY <1>0, <1>5, SendCall
<1>7. d \in Proc /\ p # d /\ t \in Int /\ w \in Whats
  BY <1>6, SendsIs
<1>8. <<p, d>> \in Links
  BY <1>6, <1>7, LinksAre
<1> QED  BY <1>1, <1>2, <1>3, <1>4, <1>5, <1>6, <1>7, <1>8

LEMMA SentMessage ==
    ASSUME NEW S, Inv(S), NEW p \in Proc, NEW d, NEW t, NEW w, Sends(p, segment[p], d, t, w),
           NEW m, m = Message(p, Op("send", d, t, w))
    PROVE  /\ m \in Msg /\ Ev(m) = <<Round(p), Phase(p), t, w>>
           /\ m.what = w /\ m.round = Round(p) /\ m.iteration = Iteration(p)
           /\ m.value = Payload(p, w)
<1>0. VarsOk
  BY DEF Inv
<1>1. PICK g : g = segment[p]
  OBVIOUS
<1>2. /\ t \in Int /\ w \in Whats /\ g \in {"exchange", "fields", "picard"}
      /\ g = "exchange" <=> w \in {"heat", "iflg"}
      /\ g = "picard" => p \in RadProc
  BY <1>1, SendsIs
<1>3. /\ Phase(p) \in Nat /\ Round(p) \in Nat
      /\ g = "exchange" <=> Phase(p) = 0
      /\ g = "fields" => Phase(p) = 1
      /\ g = "picard" => p \in RadProc /\ Phase(p) = picard[p] + 1 /\ Phase(p) >= 2
      /\ p \in RadProc /\ g # "picard" => picard[p] = 0
      /\ p \in JupiterProc => Round(p) = at[p] /\ Iteration(p) = 0
      /\ p \in RadProc => Round(p) = it[p] /\ Iteration(p) = picard[p]
  BY <1>1, PhaseIs
<1>4. m = [tag |-> t, what |-> w, round |-> Round(p), iteration |-> Iteration(p),
           value |-> Payload(p, w)]
  <2>1. Op("send", d, t, w).tag = t /\ Op("send", d, t, w).what = w
    BY DEF Op
  <2> QED  BY <2>1 DEF Message
<1>5. Iteration(p) \in Nat
  <2>1. p \in RadProc => picard[p] \in Nat
    BY <1>0 DEF VarsOk
  <2> QED  BY <1>3, <2>1, ProcIs
<1>6. Payload(p, w) \in Int
  <2>1. flag[p] \in Int
    BY <1>0 DEF VarsOk
  <2>2. p \in JupiterProc => at[p] \in Int
    BY <1>0 DEF VarsOk
  <2>3. p \in RadProc /\ w \in FieldSet => have[p][w] \in Int
    <3>1. ASSUME p \in RadProc, w \in FieldSet PROVE have[p][w] \in Int
      <4>1. have[p] \in [FieldSet -> 0 .. RoundBound]
        BY <1>0, <3>1 DEF VarsOk
      <4>2. have[p][w] \in 0 .. RoundBound
        BY <3>1, <4>1
      <4> QED  BY <4>2
    <3> QED  BY <3>1
  <2>4. p \notin JupiterProc => p \in RadProc
    BY ProcIs
  <2> QED  BY <2>1, <2>2, <2>3, <2>4 DEF Payload
<1>7. m \in Msg
  BY <1>2, <1>3, <1>4, <1>5, <1>6 DEF Msg
<1>8. /\ m.what = w /\ m.round = Round(p) /\ m.iteration = Iteration(p) /\ m.tag = t
      /\ m.value = Payload(p, w)
  BY <1>4
<1>9. MsgPhase(m) = Phase(p)
  <2>1. CASE g = "picard"
    <3>1. picard[p] \in Nat
      BY <1>0, <1>3, <2>1 DEF VarsOk
    <3> QED  BY <1>3, <1>8, <2>1, <3>1 DEF MsgPhase
  <2>2. CASE g # "picard"
    <3>1. Iteration(p) = 0
      BY <1>3, <2>2, ProcIs
    <3> QED  BY <1>2, <1>3, <1>8, <2>2, <3>1 DEF MsgPhase
  <2> QED  BY <2>1, <2>2
<1>10. Ev(m) = <<Round(p), Phase(p), t, w>>
  BY <1>8, <1>9 DEF Ev
<1> QED  BY <1>7, <1>8, <1>10

LEMMA MasterIs ==
    ASSUME NEW p \in RadProc, NEW d, MasterSlave(p, d)
    PROVE  \E q \in JupiterProc : q = myrank(p) /\ p = Rad(q) /\ q \in Proc
<1>1. IsMaster(myrank(p)) /\ myrank(p) \in RadRank /\ Rad(myrank(p)) = p
  BY MasterSlaveProcs, RadInt
<1>2. myrank(p) \in JupiterProc
  BY <1>1, SizeAssumption DEF IsMaster, RadRank, JupiterProc
<1> QED  BY <1>1, <1>2 DEF Proc

LEMMA JudgeCall ==
    ASSUME VarsOk, NEW p \in Proc
    PROVE  Has(Ops(p), Op("judge", 0, 0, "")) <=> segment[p] = "picard" /\ p = Rad(0)
<1>1. segment[p] \in Segments
  BY OpsAre
<1>2. Faithful(p, segment[p], Ops(p))
  BY <1>1, ScriptFaithful DEF Ops
<1>3. \A x, t, w : Has(Ops(p), Op("judge", x, t, w)) <=>
          segment[p] = "picard" /\ p = Rad(0) /\ x = 0 /\ t = 0 /\ w = ""
  BY <1>2 DEF Faithful
<1> QED  BY <1>3

LEMMA OtherStages ==
    ASSUME NEW x, NEW t, NEW w
    PROVE  /\ Stage(Op("judge", x, t, w)) = 7 /\ Stage(Op("post", x, t, w)) = 1
           /\ Stage(Op("waitlast", x, t, w)) = 2
           /\ Active(Op("judge", x, t, w)) /\ Active(Op("post", x, t, w))
           /\ Active(Op("waitlast", x, t, w))
<1>1. /\ Op("judge", x, t, w).kind = "judge" /\ Op("post", x, t, w).kind = "post"
      /\ Op("waitlast", x, t, w).kind = "waitlast"
  BY DEF Op
<1> QED  BY <1>1 DEF Stage, Active

LEMMA RightFlag ==
    ASSUME NEW S, Inv(S), NEW p \in Proc, NEW d, NEW t, Sends(p, segment[p], d, t, "iflg"),
           \A x : Active(x) /\ Has(Ops(p), x) /\ Stage(x) < 2 => x \in Made(p)
    PROVE  Round(p) <= Len(plan) /\ flag[p] = plan[Round(p)]
<1>0. VarsOk
  BY DEF Inv
<1>1. segment[p] = "exchange"
  BY SendsIs
<1>2. CASE p \in JupiterProc
  <2>1. Round(p) = at[p]
    BY <1>2, PhaseIs
  <2>2. at[p] <= Len(plan) /\ flag[p] = plan[at[p]]
    BY <1>1, <1>2 DEF Inv, JupiterOk
  <2> QED  BY <2>1, <2>2
<1>3. CASE p \in RadProc
  <2>1. Exchanged(p, d, t, "iflg")
    BY <1>1 DEF Sends
  <2>2. p \notin JupiterProc
    BY <1>3, ProcIs
  <2>3. MasterSlave(p, d)
    BY <2>1, <2>2 DEF Exchanged
  <2>4. PICK q \in JupiterProc : p = Rad(q) /\ q \in Proc
    BY <1>3, <2>3, MasterIs
  <2>5. Exchanged(q, p, 20, "iflg")
    BY <2>4 DEF Exchanged
  <2>6. Sends(q, segment[p], p, 20, "iflg") /\ ~Posts(segment[p], q, p, 20, "iflg")
    BY <1>1, <2>5 DEF Sends, Posts
  <2>7. Has(Ops(p), Op("recv", q, 20, "iflg"))
    BY <1>0, <2>6, RecvCall
  <2>8. PICK o : o = Op("recv", q, 20, "iflg")
    OBVIOUS
  <2>9. Active(o) /\ Stage(o) = RecvStage("iflg")
    BY <2>8, StageOf
  <2>10. RecvStage("iflg") < 2
    BY DEF RecvStage
  <2>11. o \in Made(p)
    BY <2>7, <2>8, <2>9, <2>10
  <2>12. it[p] <= Len(plan) /\ flag[p] = plan[it[p]]
    BY <1>1, <1>3, <2>8, <2>11 DEF Inv, RoundOk
  <2>13. Round(p) = it[p]
    BY <1>3, PhaseIs
  <2> QED  BY <2>12, <2>13
<1> QED  BY <1>2, <1>3, ProcIs

LEMMA RightExit ==
    ASSUME NEW S, Inv(S), NEW p \in Proc, NEW d, NEW t, Sends(p, segment[p], d, t, "iexit"),
           \A x : Active(x) /\ Has(Ops(p), x) /\ Stage(x) < 8 => x \in Made(p)
    PROVE  /\ S[Round(p)] + Iteration(p) <= Len(verdicts)
           /\ flag[p] = verdicts[S[Round(p)] + Iteration(p)]
<1>0. VarsOk
  BY DEF Inv
<1>1. ~Exchanged(p, d, t, "iexit")
  BY DEF Exchanged
<1>2. "iexit" \notin FieldSet
  BY FieldsAre DEF Others
<1>3. ~Passed(p, d, t, "iexit")
  BY <1>2, AFieldIs DEF Passed
<1>4. segment[p] = "picard" /\ p = Rad(0)
  BY <1>1, <1>3 DEF Sends, Iterated
<1>5. Has(Ops(p), Op("judge", 0, 0, ""))
  BY <1>0, <1>4, JudgeCall
<1>6. PICK o : o = Op("judge", 0, 0, "")
  OBVIOUS
<1>7. Stage(o) = 7 /\ Active(o)
  BY <1>6, OtherStages
<1>a. Stage(o) < 8
  BY <1>7
<1>b. o \in Made(p)
  BY <1>5, <1>6, <1>7, <1>a
<1>8. Heard(p)
  BY <1>6, <1>b DEF Heard
<1>9. p \in RadProc
  BY <1>4, PhaseIs
<1>10. /\ obeyed[p] = S[it[p]] + picard[p] /\ flag[p] = verdicts[obeyed[p]]
       /\ obeyed[p] <= Len(verdicts)
  BY <1>4, <1>8, <1>9 DEF Inv, IterationOk
<1>11. Round(p) = it[p] /\ Iteration(p) = picard[p]
  BY <1>9, PhaseIs
<1> QED  BY <1>10, <1>11

LEMMA RightField ==
    ASSUME NEW S, Inv(S), NEW p \in Proc, NEW d, NEW t, NEW w \in FieldSet,
           Sends(p, segment[p], d, t, w),
           \A x : Active(x) /\ Has(Ops(p), x) /\ Stage(x) < 2 => x \in Made(p)
    PROVE  Payload(p, w) = Round(p)
<1>0. VarsOk
  BY DEF Inv
<1>1. w \notin Others
  BY FieldsAre
<1>2. w \notin {"iflg", "iexit"} /\ w \notin {"heat", "iflg"} /\ w # "halo"
  BY <1>1 DEF Others
<1>3. segment[p] \in {"fields", "picard"}
  BY <1>2, SendsIs
<1>4. CASE p \in JupiterProc
  <2>1. Round(p) = at[p]
    BY <1>4, PhaseIs
  <2> QED  BY <1>2, <1>4, <2>1 DEF Payload
<1>5. CASE p \in RadProc
  <2>1. p \notin JupiterProc /\ Round(p) = it[p]
    BY <1>5, ProcIs, PhaseIs
  <2>2. Payload(p, w) = have[p][w]
    BY <1>2, <2>1 DEF Payload
  <2>3. HaveOk(p)
    BY <1>5 DEF Inv
  <2>4. CASE segment[p] = "picard"
    BY <2>1, <2>2, <2>3, <2>4 DEF HaveOk
  <2>5. CASE segment[p] = "fields"
    <3>1. Passed(p, d, t, w)
      BY <2>5 DEF Sends
    <3>2. AField(t, w) /\ MasterSlave(p, d)
      BY <1>2, <2>1, <3>1 DEF Passed
    <3>3. PICK q \in JupiterProc : p = Rad(q) /\ q \in Proc
      BY <1>5, <3>2, MasterIs
    <3>4. q \notin RadProc
      BY <3>3, ProcIs
    <3>5. ~MasterSlave(q, p)
      BY <3>4, MasterSlaveProcs
    <3>6. Sends(q, segment[p], p, t, w) /\ ~Posts(segment[p], q, p, t, w)
      BY <2>5, <3>2, <3>3, <3>5 DEF Sends, Passed, Posts
    <3>7. Has(Ops(p), Op("recv", q, t, w))
      BY <1>0, <3>6, RecvCall
    <3>8. PICK o : o = Op("recv", q, t, w)
      OBVIOUS
    <3>9. Active(o) /\ Stage(o) = RecvStage(w) /\ RecvStage(w) = 1
      BY <3>2, <3>8, StageOf, AFieldIs
    <3>10. o \in Made(p)
      BY <3>7, <3>8, <3>9
    <3>11. have[p][w] = it[p]
      BY <2>3, <2>5, <3>2, <3>8, <3>10 DEF HaveOk
    <3> QED  BY <2>1, <2>2, <3>11
  <2> QED  BY <1>3, <2>4, <2>5
<1> QED  BY <1>4, <1>5, ProcIs

LEMMA SentRight ==
    ASSUME NEW S, Inv(S), NEW p \in Proc, NEW d, NEW t, NEW w, Sends(p, segment[p], d, t, w),
           \A x : Active(x) /\ Has(Ops(p), x) /\ Stage(x) < SendStage(w) => x \in Made(p),
           NEW m, m.what = w, m.round = Round(p), m.iteration = Iteration(p),
           m.value = Payload(p, w)
    PROVE  Right(S, m)
<1>1. w = "iflg" => Round(p) <= Len(plan) /\ Payload(p, w) = plan[Round(p)]
  <2>1. ASSUME w = "iflg" PROVE Round(p) <= Len(plan) /\ Payload(p, w) = plan[Round(p)]
    <3>a. SendStage(w) = 2
      BY <2>1 DEF SendStage
    <3>b. Payload(p, w) = flag[p]
      <4>1. w \notin FieldSet
        BY <2>1, FieldsAre DEF Others
      <4> QED  BY <2>1, <4>1 DEF Payload
    <3>c. Sends(p, segment[p], d, t, "iflg")
      BY <2>1
    <3>1. SendStage(w) = 2 /\ Payload(p, w) = flag[p] /\ Sends(p, segment[p], d, t, "iflg")
      BY <3>a, <3>b, <3>c
    <3>2. \A x : Active(x) /\ Has(Ops(p), x) /\ Stage(x) < 2 => x \in Made(p)
      BY <3>1
    <3>3. Round(p) <= Len(plan) /\ flag[p] = plan[Round(p)]
      BY <3>1, <3>2, RightFlag
    <3> QED  BY <3>1, <3>3
  <2> QED  BY <2>1
<1>2. w = "iexit" => /\ S[Round(p)] + Iteration(p) <= Len(verdicts)
                     /\ Payload(p, w) = verdicts[S[Round(p)] + Iteration(p)]
  <2>1. ASSUME w = "iexit"
        PROVE  /\ S[Round(p)] + Iteration(p) <= Len(verdicts)
               /\ Payload(p, w) = verdicts[S[Round(p)] + Iteration(p)]
    <3>a. SendStage(w) = 8
      BY <2>1 DEF SendStage
    <3>b. Payload(p, w) = flag[p]
      <4>1. w \notin FieldSet
        BY <2>1, FieldsAre DEF Others
      <4> QED  BY <2>1, <4>1 DEF Payload
    <3>c. Sends(p, segment[p], d, t, "iexit")
      BY <2>1
    <3>1. SendStage(w) = 8 /\ Payload(p, w) = flag[p] /\ Sends(p, segment[p], d, t, "iexit")
      BY <3>a, <3>b, <3>c
    <3>2. \A x : Active(x) /\ Has(Ops(p), x) /\ Stage(x) < 8 => x \in Made(p)
      BY <3>1
    <3>3. /\ S[Round(p)] + Iteration(p) <= Len(verdicts)
          /\ flag[p] = verdicts[S[Round(p)] + Iteration(p)]
      BY <3>1, <3>2, RightExit
    <3> QED  BY <3>1, <3>3
  <2> QED  BY <2>1
<1>3. w \in FieldSet => Payload(p, w) = Round(p)
  <2>1. ASSUME w \in FieldSet PROVE Payload(p, w) = Round(p)
    <3>1. SendStage(w) = 2
      BY <2>1, StagesAre
    <3>2. \A x : Active(x) /\ Has(Ops(p), x) /\ Stage(x) < 2 => x \in Made(p)
      BY <3>1
    <3> QED  BY <2>1, <3>2, RightField
  <2> QED  BY <2>1
<1> QED  BY <1>1, <1>2, <1>3 DEF Right

-------------------------------------------------------------------------------
\* The calls, one by one.
OthersSame(p) ==
    \A q \in Proc : q # p =>
        /\ flag'[q] = flag[q]
        /\ q \in RadProc => /\ pending'[q] = pending[q] /\ have'[q] = have[q]
                            /\ obeyed'[q] = obeyed[q]

\* Everything is of its type, and p stays in its segment.
Typed ==
    /\ flag' \in [Proc -> {0, 1}] /\ pending' \in [RadProc -> [FieldSet -> {0, 1}]]
    /\ have' \in [RadProc -> [FieldSet -> 0 .. RoundBound]] /\ obeyed' \in [RadProc -> Nat]
    /\ DOMAIN chan' = Links
Staying == eager' = eager /\ at' = at /\ segment' = segment /\ it' = it /\ picard' = picard

LEMMA CallQuiet ==
    ASSUME VarsOk, NEW p \in Proc, ~Finished(p), Step(p), Staying, Typed, OthersSame(p)
    PROVE  /\ VarsOk' /\ \A q \in Proc : q # p => Quiet(q)
           /\ Active(Cur(p)) => Made(p)' = Made(p) \cup {Cur(p)}
           /\ ~Active(Cur(p)) => Made(p)' = Made(p)
<1>1. /\ eager' = eager /\ at' = at /\ segment' = segment /\ it' = it /\ picard' = picard
  BY DEF Staying
<1>2. /\ ip' \in [Proc -> Nat]
      /\ \A q \in Proc : ip'[q] \in 1 .. Len(ScriptTable[q][segment'[q]]) + 1
      /\ Active(Cur(p)) => Made(p)' = Made(p) \cup {Cur(p)}
      /\ ~Active(Cur(p)) => Made(p)' = Made(p)
      /\ \A q \in Proc : q # p => Made(q)' = Made(q)
  BY <1>1, StepMade
<1>3. VarsOk'
  BY <1>1, <1>2, VarsSame DEF Typed
<1>4. \A q \in Proc : q # p => Quiet(q)
  BY <1>1, <1>2 DEF Quiet, OthersSame
<1> QED  BY <1>2, <1>3, <1>4

LEMMA OutKept ==
    ASSUME NEW S, Inv(S), NEW T, Ext(S, T), NEW p \in Proc, NEW x \in Proc, <<p, x>> \in Links,
           Quiet(x), SentSet(T, p, x)' = SentSet(S, p, x), chan'[<<p, x>>] = chan[<<p, x>>]
    PROVE  LinkOk(T, p, x)'
<1>1. GotSet(T, p, x)' = GotSet(S, p, x)
  BY QuietSets
<1> QED  BY <1>1, LinkKept

LEMMA InKept ==
    ASSUME NEW S, Inv(S), NEW T, Ext(S, T), NEW p \in Proc, NEW x \in Proc, <<x, p>> \in Links,
           Quiet(x), GotSet(T, x, p)' = GotSet(S, x, p), chan'[<<x, p>>] = chan[<<x, p>>]
    PROVE  LinkOk(T, x, p)'
<1>1. SentSet(T, x, p)' = SentSet(S, x, p)
  BY QuietSets
<1> QED  BY <1>1, LinkKept

\* A call that is not a receive, a post or the end of one takes nothing.
LEMMA TakenSame ==
    ASSUME NEW p, NEW s, NEW e, pending'[p] = pending[p], NEW o, Made(p)' \subseteq Made(p) \cup {o},
           Made(p) \subseteq Made(p)', o.kind \notin {"recv", "post"}
    PROVE  Taken(s, p, e)' <=> Taken(s, p, e)
<1>1. PICK a : a = Op("recv", s, e[3], e[4])
  OBVIOUS
<1>2. PICK b : b = Op("post", s, 0, "")
  OBVIOUS
<1>3. a.kind = "recv" /\ b.kind = "post"
  BY <1>1, <1>2 DEF Op
<1>4. a # o /\ b # o
  BY <1>3
<1>5. (a \in Made(p)' <=> a \in Made(p)) /\ (b \in Made(p)' <=> b \in Made(p))
  BY <1>4
<1>6. Taken(s, p, e)' <=> \/ a \in Made(p)'
                          \/ /\ Posts(SegOf(e[2]), s, p, e[3], e[4]) /\ b \in Made(p)'
                             /\ pending[p][e[4]] = 0
  BY <1>1, <1>2 DEF Taken
<1>7. Taken(s, p, e) <=> \/ a \in Made(p)
                         \/ /\ Posts(SegOf(e[2]), s, p, e[3], e[4]) /\ b \in Made(p)
                            /\ pending[p][e[4]] = 0
  BY <1>1, <1>2 DEF Taken
<1> QED  BY <1>5, <1>6, <1>7

LEMMA GivenSame ==
    ASSUME NEW p, NEW d, NEW e, NEW o, Made(p)' \subseteq Made(p) \cup {o},
           Made(p) \subseteq Made(p)', o.kind # "send" \/ o.peer # d
    PROVE  Given(p, d, e)' <=> Given(p, d, e)
<1>1. PICK a : a = Op("send", d, e[3], e[4])
  OBVIOUS
<1>2. a.kind = "send" /\ a.peer = d
  BY <1>1 DEF Op
<1>3. a # o
  BY <1>2
<1>4. a \in Made(p)' <=> a \in Made(p)
  BY <1>3
<1> QED  BY <1>1, <1>4 DEF Given

LEMMA SendLink ==
    ASSUME NEW S, Inv(S), Ext(S, S), plan' = plan, verdicts' = verdicts, NEW p \in Proc,
           NEW d \in Proc, <<p, d>> \in Links, NEW t, NEW w, NEW o, o = Op("send", d, t, w),
           Sends(p, segment[p], d, t, w), o \notin Made(p), Made(p)' = Made(p) \cup {o},
           \A y \in Made(p) : Stage(y) <= Stage(o),
           \A y : Active(y) /\ Has(Ops(p), y) /\ Stage(y) < Stage(o) => y \in Made(p),
           Round(p)' = Round(p), Phase(p)' = Phase(p), Quiet(d),
           chan'[<<p, d>>] = Append(chan[<<p, d>>], Message(p, o))
    PROVE  LinkOk(S, p, d)'
<1>1. PICK m : m = Message(p, Op("send", d, t, w))
  OBVIOUS
<1>2. /\ m \in Msg /\ Ev(m) = <<Round(p), Phase(p), t, w>>
      /\ m.what = w /\ m.round = Round(p) /\ m.iteration = Iteration(p)
      /\ m.value = Payload(p, w)
  BY <1>1, SentMessage
<1>3. PICK x : x = <<Round(p), Phase(p), t, w>>
  OBVIOUS
<1>4. /\ x \in Events(S, p, d) /\ Now(p, x) /\ SegOf(x[2]) = segment[p]
      /\ x[1] = Round(p) /\ x[2] = Phase(p) /\ x[3] = t /\ x[4] = w
      /\ segment[p] \in {"exchange", "fields", "picard"}
  <2>1. t \in Int /\ w \in Whats /\ segment[p] \in {"exchange", "fields", "picard"}
    BY SendsIs
  <2>2. Round(p) \in Nat /\ Phase(p) \in Nat /\ SegOf(Phase(p)) = segment[p]
    BY <2>1, PhaseIs
  <2>3. x \in Event /\ x[1] = Round(p) /\ x[2] = Phase(p) /\ x[3] = t /\ x[4] = w
    BY <1>3, <2>1, <2>2 DEF Event
  <2>4. Real(S, Round(p), Phase(p))
    BY <2>1, MomentReal
  <2>5. Sends(p, SegOf(x[2]), d, x[3], x[4]) /\ Real(S, x[1], x[2])
    BY <2>2, <2>3, <2>4
  <2> QED  BY <2>1, <2>2, <2>3, <2>5 DEF Events, Now
<1>5. m.tag = t
  BY <1>2, <1>3, <1>4, EvIs
<1>6. PICK n \in Nat, a \in Nat : n = Round(p) /\ a = Phase(p)
  BY PhaseIs
<1>7. Stage(o) = SendStage(w)
  BY StageOf
<1>8. ~Given(p, d, x)
  BY <1>4 DEF Given
<1>9. x \notin SentSet(S, p, d)
  <2>1. ~Before(p, x)
    BY <1>4, <1>6 DEF Before, Earlier
  <2> QED  BY <1>8, <2>1, SetsAre
<1>10. ASSUME NEW e \in SentSet(S, p, d), e[3] = t PROVE Less(e, x)
  <2>1. e \in Events(S, p, d) /\ (Before(p, e) \/ (Now(p, e) /\ Given(p, d, e)))
    BY <1>10, SetsAre
  <2>2. e \in Event /\ e[1] \in Nat /\ e[2] \in Nat
    BY <2>1 DEF Events, Event
  <2>3. CASE Before(p, e)
    BY <1>4, <1>6, <2>2, <2>3 DEF Before, Earlier, Less
  <2>4. CASE Now(p, e) /\ Given(p, d, e)
    <3>1. e[1] = x[1] /\ e[2] = x[2] /\ Sends(p, segment[p], d, t, e[4])
      BY <1>4, <1>10, <2>1, <2>4 DEF Now, Events
    <3>2. PICK y : y = Op("send", d, e[3], e[4])
      OBVIOUS
    <3>3. Stage(y) <= Stage(o) /\ Stage(y) = SendStage(e[4])
      BY <2>4, <3>2, StageOf DEF Given
    <3>4. SendStage(e[4]) # SendStage(w)
      <4>1. SUFFICES ASSUME SendStage(e[4]) = SendStage(w) PROVE FALSE
        OBVIOUS
      <4>2. e[4] = w
        BY <3>1, <4>1, SameStage
      <4> QED  BY <1>10, <2>4, <4>2 DEF Given
    <3>5. SendStage(e[4]) \in Int /\ SendStage(w) \in Int
      BY StagesRelated
    <3>6. SendStage(e[4]) < SendStage(x[4])
      BY <1>4, <1>7, <3>3, <3>4, <3>5
    <3> QED  BY <3>1, <3>6 DEF Less
  <2> QED  BY <2>1, <2>3, <2>4
<1>11. PICK c : c = chan[<<p, d>>]
  OBVIOUS
<1>12. Chan(c, SentSet(S, p, d), GotSet(S, p, d)) /\ \A i \in DOMAIN c : Right(S, c[i])'
  <2>1. \A i \in DOMAIN c : Right(S, c[i])'
    BY <1>11, RightOnLink
  <2> QED  BY <1>11, <2>1 DEF Inv, LinkOk
<1>13. PICK A : A = SentSet(S, p, d)
  OBVIOUS
<1>14. PICK B : B = GotSet(S, p, d)
  OBVIOUS
<1>15. /\ Chan(Append(c, m), A \cup {x}, B)
       /\ \A i \in DOMAIN Append(c, m) :
             (\E j \in DOMAIN c : Append(c, m)[i] = c[j]) \/ Append(c, m)[i] = m
  <2>1. Chan(c, A, B) /\ Ev(m) = x /\ x \notin A /\ \A e \in A : e[3] = m.tag => Less(e, x)
    BY <1>2, <1>3, <1>5, <1>9, <1>10, <1>12, <1>13, <1>14
  <2> QED  BY <1>2, <2>1, ChanSend
<1>16. Right(S, m)'
  <2>1. \A y : Active(y) /\ Has(Ops(p), y) /\ Stage(y) < SendStage(w) => y \in Made(p)
    BY <1>7
  <2>2. Right(S, m)
    BY <1>2, <2>1, SentRight
  <2> QED  BY <2>2 DEF Right
<1>17. SentSet(S, p, d)' = SentSet(S, p, d) \cup {x}
  <2>1. ASSUME NEW e \in Events(S, p, d), Now(p, e)
        PROVE  Given(p, d, e)' <=> Given(p, d, e) \/ e = x
    <3>1. Given(p, d, e)' <=> Given(p, d, e) \/ Op("send", d, e[3], e[4]) = o
      BY DEF Given
    <3>2. Op("send", d, e[3], e[4]) = o <=> e[3] = t /\ e[4] = w
      BY OpSame
    <3>3. e \in Event /\ x \in Event
      BY <1>4 DEF Events
    <3>4. e = x <=> e[3] = t /\ e[4] = w
      BY <1>4, <2>1, <3>3 DEF Now, Event
    <3> QED  BY <3>1, <3>2, <3>4
  <2> QED  BY <1>4, <2>1, SentOne
<1>18. GotSet(S, p, d)' = GotSet(S, p, d)
  BY QuietSets
<1>19. PICK r : r = Append(c, m)
  OBVIOUS
<1>20. chan'[<<p, d>>] = r
  BY <1>1, <1>11, <1>19
<1>21. Chan(r, SentSet(S, p, d)', GotSet(S, p, d)')
  BY <1>13, <1>14, <1>15, <1>17, <1>18, <1>19
<1>22. \A i \in DOMAIN r : Right(S, r[i])'
  BY <1>12, <1>15, <1>16, <1>19
<1>23. Chan(chan[<<p, d>>], SentSet(S, p, d), GotSet(S, p, d))'
  BY <1>20, <1>21
<1>24. (\A i \in DOMAIN chan[<<p, d>>] : Right(S, chan[<<p, d>>][i]))'
  BY <1>20, <1>22
<1> QED  BY <1>23, <1>24 DEF LinkOk

\* DoSend.
LEMMA SendKeeps ==
    ASSUME NEW S, Inv(S), NEW p \in Proc, DoSend(p)
    PROVE  Inv(S)'
<1>0. VarsOk
  BY DEF Inv
<1>1. /\ At(p, "send") /\ Step(p)
      /\ chan' = [chan EXCEPT ![<<p, Cur(p).peer>>] = Append(@, Message(p, Cur(p)))]
      /\ eager' = eager /\ plan' = plan /\ at' = at /\ segment' = segment /\ it' = it
      /\ picard' = picard /\ flag' = flag /\ pending' = pending /\ have' = have
      /\ verdicts' = verdicts /\ obeyed' = obeyed
  BY DEF DoSend, jupiter
<1>2. PICK d, t, w : /\ d = Cur(p).peer /\ t = Cur(p).tag /\ w = Cur(p).what
                     /\ Cur(p) = Op("send", d, t, w)
                     /\ d \in Proc /\ <<p, d>> \in Links /\ p # d /\ t \in Int /\ w \in Whats
                     /\ Sends(p, segment[p], d, t, w)
                     /\ Cur(p) \notin Made(p) /\ ~Finished(p) /\ Active(Cur(p))
                     /\ \A o \in Made(p) : Stage(o) <= Stage(Cur(p))
                     /\ \A x : Active(x) /\ Has(Ops(p), x) /\ Stage(x) < Stage(Cur(p)) =>
                           x \in Made(p)
  BY <1>1, SendCur
<1>3. DOMAIN chan = Links
  BY <1>0 DEF VarsOk
<1>4. /\ DOMAIN chan' = Links
      /\ chan'[<<p, d>>] = Append(chan[<<p, d>>], Message(p, Cur(p)))
      /\ \A l \in Links : l # <<p, d>> => chan'[l] = chan[l]
  BY <1>1, <1>2, <1>3
<1>5. Staying /\ OthersSame(p)
  BY <1>1 DEF Staying, OthersSame
<1>6. Typed
  BY <1>0, <1>1, <1>4 DEF Typed, VarsOk
<1>7. /\ VarsOk' /\ \A q \in Proc : q # p => Quiet(q)
      /\ Made(p)' = Made(p) \cup {Cur(p)}
  BY <1>0, <1>1, <1>2, <1>5, <1>6, CallQuiet
<1>8. Ext(S, S) /\ PlanOk' /\ VerdictsOk(S)'
  BY <1>1, SameExt
<1>9. Round(p)' = Round(p) /\ Phase(p)' = Phase(p)
  BY <1>1, MomentSame
<1>10. PICK o : o = Cur(p)
  OBVIOUS
<1>11. o.kind = "send" /\ o.peer = d /\ o.kind \notin {"recv", "post"}
  BY <1>2, <1>10 DEF Op
<1>12. Made(p)' \subseteq Made(p) \cup {o} /\ Made(p) \subseteq Made(p)'
  BY <1>7, <1>10
<1>13. ASSUME NEW x \in Proc, <<p, x>> \in Links PROVE LinkOk(S, p, x)'
  <2>1. CASE x = d
    <3>1. Quiet(d)
      BY <1>2, <1>7
    <3>2. LinkOk(S, p, d)'
      <4>1. /\ o = Op("send", d, t, w) /\ Sends(p, segment[p], d, t, w) /\ o \notin Made(p)
            /\ Made(p)' = Made(p) \cup {o} /\ \A y \in Made(p) : Stage(y) <= Stage(o)
            /\ \A y : Active(y) /\ Has(Ops(p), y) /\ Stage(y) < Stage(o) => y \in Made(p)
        BY <1>2, <1>7, <1>10
      <4>2. chan'[<<p, d>>] = Append(chan[<<p, d>>], Message(p, o))
        BY <1>4, <1>10
      <4> QED  BY <1>1, <1>2, <1>8, <1>9, <3>1, <4>1, <4>2, SendLink
    <3> QED  BY <2>1, <3>2
  <2>2. CASE x # d
    <3>1. p # x
      BY <1>13, LinksAre
    <3>2. Quiet(x)
      BY <1>7, <3>1
    <3>3. chan'[<<p, x>>] = chan[<<p, x>>]
      BY <1>4, <1>13, <2>2
    <3>4. \A e \in Events(S, p, x) : Now(p, e) => (Given(p, x, e)' <=> Given(p, x, e))
      BY <1>11, <1>12, <2>2, GivenSame
    <3>5. SentSet(S, p, x)' = SentSet(S, p, x)
      BY <1>8, <1>9, <3>4, SentSame
    <3> QED  BY <1>8, <1>13, <3>2, <3>3, <3>5, OutKept
  <2> QED  BY <2>1, <2>2
<1>14. ASSUME NEW x \in Proc, <<x, p>> \in Links PROVE LinkOk(S, x, p)'
  <2>1. p # x
    BY <1>14, LinksAre
  <2>2. Quiet(x)
    BY <1>7, <2>1
  <2>3. chan'[<<x, p>>] = chan[<<x, p>>]
    BY <1>4, <1>14, <2>1
  <2>4. \A e \in Events(S, x, p) : Now(p, e) => (Taken(x, p, e)' <=> Taken(x, p, e))
    BY <1>1, <1>11, <1>12, TakenSame
  <2>5. GotSet(S, x, p)' = GotSet(S, x, p)
    BY <1>8, <1>9, <2>4, GotSame
  <2> QED  BY <1>8, <1>14, <2>2, <2>3, <2>5, InKept
<1>15. ASSUME NEW s \in Proc, NEW x \in Proc, <<s, x>> \in Links, s # p, x # p
       PROVE  chan'[<<s, x>>] = chan[<<s, x>>]
  BY <1>4, <1>15
<1>16. \A k \in {"recv", "post", "waitlast", "judge"} : \A x, u, v :
           Op(k, x, u, v) \in Made(p)' <=> Op(k, x, u, v) \in Made(p)
  <2>1. ASSUME NEW k \in {"recv", "post", "waitlast", "judge"}, NEW x, NEW u, NEW v
        PROVE  Op(k, x, u, v) \in Made(p)' <=> Op(k, x, u, v) \in Made(p)
    <3>1. Op(k, x, u, v).kind = k
      BY DEF Op
    <3>2. Op(k, x, u, v) # o
      BY <1>11, <3>1
    <3> QED  BY <1>12, <3>2
  <2> QED  BY <2>1
<1>17. /\ JupiterOk(p) => JupiterOk(p)'
       /\ RoundOk(S, p) => RoundOk(S, p)'
       /\ IterationOk(S, p) => IterationOk(S, p)'
       /\ HaveOk(p) => HaveOk(p)'
       /\ PostedOk(p) => PostedOk(p)'
  BY <1>1, <1>16, LocalSame
<1>18. /\ p \in JupiterProc => JupiterOk(p)'
       /\ p \in RadProc => RoundOk(S, p)' /\ IterationOk(S, p)' /\ HaveOk(p)' /\ PostedOk(p)'
  BY <1>17 DEF Inv
<1> QED  BY <1>1, <1>7, <1>8, <1>13, <1>14, <1>15, <1>18, Moved

LEMMA StillLinks ==
    ASSUME NEW S, Inv(S), NEW T, Ext(S, T), NEW p \in Proc, chan' = chan,
           \A q \in Proc : q # p => Quiet(q),
           \A x \in Proc : SentSet(T, p, x)' = SentSet(S, p, x),
           \A x \in Proc : GotSet(T, x, p)' = GotSet(S, x, p)
    PROVE  /\ \A x \in Proc : <<p, x>> \in Links => LinkOk(T, p, x)'
           /\ \A x \in Proc : <<x, p>> \in Links => LinkOk(T, x, p)'
<1>1. ASSUME NEW x \in Proc, <<p, x>> \in Links PROVE LinkOk(T, p, x)'
  <2>1. p # x
    BY <1>1, LinksAre
  <2>2. Quiet(x) /\ chan'[<<p, x>>] = chan[<<p, x>>]
    BY <2>1
  <2> QED  BY <1>1, <2>2, OutKept
<1>2. ASSUME NEW x \in Proc, <<x, p>> \in Links PROVE LinkOk(T, x, p)'
  <2>1. p # x
    BY <1>2, LinksAre
  <2>2. Quiet(x) /\ chan'[<<x, p>>] = chan[<<x, p>>]
    BY <2>1
  <2> QED  BY <1>2, <2>2, InKept
<1> QED  BY <1>1, <1>2

LEMMA RoundSame ==
    ASSUME NEW S, NEW T, Len(S) \in Nat, Len(T) \in Nat, Len(S) <= Len(T), NEW p \in RadProc,
           VarsOk, RoundOk(S, p), plan' = plan, segment' = segment, it' = it,
           \/ segment[p] # "exchange"
           \/ /\ flag'[p] = flag[p]
              /\ \A s, t, w : Op("recv", s, t, w) \in Made(p)' => Op("recv", s, t, w) \in Made(p)
    PROVE  RoundOk(T, p)'
<1>1. it[p] \in Nat
  BY DEF VarsOk
<1>2. /\ segment[p] # "idle"
      /\ it[p] >= 1 /\ it[p] <= Len(S) /\ it[p] <= Len(plan) + 1
      /\ it[p] > 1 => plan[it[p] - 1] = 0
      /\ segment[p] # "exchange" => it[p] <= Len(plan)
      /\ segment[p] \in {"fields", "picard"} => plan[it[p]] = 0
      /\ segment[p] = "done" => plan[it[p]] = 1
  BY DEF RoundOk
<1>3. it[p] <= Len(T)
  BY <1>1, <1>2
<1>4. PICK M : M = Made(p)'
  OBVIOUS
<1>5. \A s, t : segment[p] = "exchange" /\ Op("recv", s, t, "iflg") \in M =>
          it[p] <= Len(plan) /\ flag'[p] = plan[it[p]]
  <2>1. ASSUME NEW s, NEW t, segment[p] = "exchange", Op("recv", s, t, "iflg") \in M
        PROVE  it[p] <= Len(plan) /\ flag'[p] = plan[it[p]]
    <3>0. PICK w : w = "iflg"
      OBVIOUS
    <3>1. Op("recv", s, t, w) \in Made(p)'
      BY <1>4, <2>1, <3>0
    <3>2. flag'[p] = flag[p] /\ Op("recv", s, t, w) \in Made(p)
      BY <2>1, <3>1
    <3> QED  BY <2>1, <3>0, <3>2 DEF RoundOk
  <2> QED  BY <2>1
<1>6. (\A s, t : segment[p] = "exchange" /\ Op("recv", s, t, "iflg") \in Made(p) =>
          it[p] <= Len(plan) /\ flag[p] = plan[it[p]])'
  BY <1>4, <1>5
<1> QED  BY <1>2, <1>3, <1>6 DEF RoundOk

LEMMA HaveSame ==
    ASSUME NEW p, HaveOk(p), segment' = segment, it' = it, have'[p] = have[p],
           \A s, t, w : AField(t, w) /\ Op("recv", s, t, w) \in Made(p)' =>
                Op("recv", s, t, w) \in Made(p),
           \A s, w : MasterSlave(s, p) /\ w \in FieldSet /\ pending'[p][w] = 0
                /\ Op("post", s, 0, "") \in Made(p)' =>
                Op("post", s, 0, "") \in Made(p) /\ pending[p][w] = 0
    PROVE  HaveOk(p)'
<1>1. PICK M : M = Made(p)'
  OBVIOUS
<1>2. ASSUME segment[p] = "fields", NEW s, NEW t, NEW w, AField(t, w),
             \/ Op("recv", s, t, w) \in M
             \/ MasterSlave(s, p) /\ Op("post", s, 0, "") \in M /\ pending'[p][w] = 0
      PROVE  have'[p][w] = it'[p]
  <2>1. w \in FieldSet
    BY <1>2, AFieldIs
  <2>2. \/ Op("recv", s, t, w) \in Made(p)
        \/ MasterSlave(s, p) /\ Op("post", s, 0, "") \in Made(p) /\ pending[p][w] = 0
    BY <1>1, <1>2, <2>1
  <2> QED  BY <1>2, <2>2 DEF HaveOk
<1>3. segment[p] = "picard" => \A f \in FieldSet : have'[p][f] = it'[p]
  BY DEF HaveOk
<1> QED  BY <1>1, <1>2, <1>3 DEF HaveOk

LEMMA IterationSame ==
    ASSUME NEW S, NEW p, IterationOk(S, p), segment' = segment, it' = it, picard' = picard,
           verdicts' = verdicts, obeyed'[p] = obeyed[p], Heard(p)' <=> Heard(p),
           segment[p] # "picard" \/ flag'[p] = flag[p]
    PROVE  IterationOk(S, p)'
BY DEF IterationOk

LEMMA SameLength ==
    ASSUME NEW S, Inv(S)
    PROVE  Len(S) \in Nat /\ Len(S) <= Len(S) /\ S \in Seq(Nat)
<1>1. S \in Seq(Nat)
  BY DEF Inv, VerdictsOk
<1> QED  BY <1>1

\* DoWait.
LEMMA WaitKeeps ==
    ASSUME NEW S, Inv(S), NEW p \in Proc, DoWait(p)
    PROVE  Inv(S)'
<1>0. VarsOk
  BY DEF Inv
<1>1. /\ At(p, "wait") /\ Step(p) /\ chan' = chan
      /\ eager' = eager /\ plan' = plan /\ at' = at /\ segment' = segment /\ it' = it
      /\ picard' = picard /\ flag' = flag /\ pending' = pending /\ have' = have
      /\ verdicts' = verdicts /\ obeyed' = obeyed
  BY DEF DoWait, jupiter
<1>2. ~Finished(p) /\ Cur(p).kind = "wait"
  <2>1. PICK n \in Nat : n = Len(Ops(p)) /\ ip[p] \in 1 .. n + 1
    BY <1>0, OpsAre
  <2> QED  BY <1>1, <2>1 DEF At, Finished, Cur
<1>3. ~Active(Cur(p))
  BY <1>2 DEF Active
<1>4. Staying /\ OthersSame(p) /\ Typed
  BY <1>0, <1>1 DEF Staying, OthersSame, Typed, VarsOk
<1>5. VarsOk' /\ (\A q \in Proc : q # p => Quiet(q)) /\ Made(p)' = Made(p)
  BY <1>0, <1>1, <1>2, <1>3, <1>4, CallQuiet
<1>6. Ext(S, S) /\ PlanOk' /\ VerdictsOk(S)'
  BY <1>1, SameExt
<1>7. Quiet(p)
  BY <1>1, <1>5 DEF Quiet
<1>8. \A x \in Proc : SentSet(S, p, x)' = SentSet(S, p, x)
  BY <1>6, <1>7, QuietSets
<1>9. \A x \in Proc : GotSet(S, x, p)' = GotSet(S, x, p)
  BY <1>6, <1>7, QuietSets
<1>10. /\ \A x \in Proc : <<p, x>> \in Links => LinkOk(S, p, x)'
       /\ \A x \in Proc : <<x, p>> \in Links => LinkOk(S, x, p)'
  BY <1>1, <1>5, <1>6, <1>8, <1>9, StillLinks
<1>11. p \in JupiterProc => JupiterOk(p)'
  BY <1>6, <1>7, QuietJupiter
<1>12. ASSUME p \in RadProc
       PROVE  RoundOk(S, p)' /\ IterationOk(S, p)' /\ HaveOk(p)' /\ PostedOk(p)'
  <2>1. HaveOk(p) /\ PostedOk(p)
    BY <1>12 DEF Inv
  <2>2. RoundOk(S, p)'
    BY <1>6, <1>7, <1>12, QuietRound
  <2>3. IterationOk(S, p)'
    BY <1>1, <1>6, <1>7, <1>12, QuietIteration
  <2>4. HaveOk(p)' /\ PostedOk(p)'
    BY <1>7, <1>12, <2>1, QuietHave
  <2> QED  BY <2>2, <2>3, <2>4
<1> QED  BY <1>1, <1>5, <1>6, <1>10, <1>11, <1>12, Moved

LEMMA PostCalls ==
    ASSUME VarsOk, NEW p \in Proc, NEW x, NEW t, NEW w
    PROVE  /\ Has(Ops(p), Op("post", x, t, w)) =>
                 segment[p] = "fields" /\ MasterSlave(x, p) /\ t = 0 /\ w = ""
           /\ Has(Ops(p), Op("waitlast", x, t, w)) =>
                 segment[p] = "fields" /\ MasterSlave(x, p) /\ t = 0 /\ w = ""
<1>1. segment[p] \in Segments
  BY OpsAre
<1>2. Faithful(p, segment[p], Ops(p))
  BY <1>1, ScriptFaithful DEF Ops
<1>3. Has(Ops(p), Op("post", x, t, w)) => segment[p] = "fields" /\ MasterSlave(x, p) /\ t = 0 /\ w = ""
  BY <1>2, Zenon DEF Faithful
<1>4. Has(Ops(p), Op("waitlast", x, t, w)) =>
          segment[p] = "fields" /\ MasterSlave(x, p) /\ t = 0 /\ w = ""
  BY <1>2, Zenon DEF Faithful
<1> QED  BY <1>3, <1>4

LEMMA PostCur ==
    ASSUME NEW S, Inv(S), NEW p \in Proc, NEW k \in {"post", "waitlast"}, At(p, k)
    PROVE  /\ p \in RadProc /\ segment[p] = "fields"
           /\ MasterSlave(Rad(master_lat(myrank(p))), p)
           /\ Cur(p) = Op(k, Rad(master_lat(myrank(p))), 0, "")
           /\ ~Finished(p) /\ Active(Cur(p)) /\ Cur(p) \notin Made(p) /\ Cur(p).kind = k
           /\ \A o \in Made(p) : Stage(o) <= Stage(Cur(p))
           /\ \A x : Active(x) /\ Has(Ops(p), x) /\ Stage(x) < Stage(Cur(p)) => x \in Made(p)
<1>0. VarsOk
  BY DEF Inv
<1>1. PICK x : x = Cur(p).peer
  OBVIOUS
<1>2. PICK t : t = Cur(p).tag
  OBVIOUS
<1>3. PICK w : w = Cur(p).what
  OBVIOUS
<1>4. k # "wait"
  OBVIOUS
<1>5. /\ Cur(p) = Op(k, Cur(p).peer, Cur(p).tag, Cur(p).what) /\ Has(Ops(p), Cur(p))
      /\ Cur(p) \notin Made(p) /\ ~Finished(p) /\ Active(Cur(p)) /\ Cur(p).kind = k
      /\ \A o \in Made(p) : Stage(o) <= Stage(Cur(p))
      /\ \A y : Active(y) /\ Has(Ops(p), y) /\ Stage(y) < Stage(Cur(p)) => y \in Made(p)
  BY <1>0, <1>4, CurIs
<1>6. Cur(p) = Op(k, x, t, w) /\ Has(Ops(p), Op(k, x, t, w))
  BY <1>1, <1>2, <1>3, <1>5
<1>7. segment[p] = "fields" /\ MasterSlave(x, p) /\ t = 0 /\ w = ""
  <2>1. CASE k = "post"
    <3>1. Has(Ops(p), Op("post", x, t, w))
      BY <1>6, <2>1
    <3> QED  BY <1>0, <3>1, PostCalls
  <2>2. CASE k = "waitlast"
    <3>1. Has(Ops(p), Op("waitlast", x, t, w))
      BY <1>6, <2>2
    <3> QED  BY <1>0, <3>1, PostCalls
  <2> QED  BY <2>1, <2>2
<1>8. p \in RadProc /\ x = Rad(master_lat(myrank(p)))
  BY <1>7, MasterSlaveProcs
<1> QED  BY <1>5, <1>6, <1>7, <1>8

\* WaitLast.
LEMMA WaitLastKeeps ==
    ASSUME NEW S, Inv(S), NEW p \in Proc, WaitLast(p)
    PROVE  Inv(S)'
<1>0. VarsOk
  BY DEF Inv
<1>1. /\ At(p, "waitlast") /\ Step(p) /\ chan' = chan /\ pending[p][LastField] = 0
      /\ eager' = eager /\ plan' = plan /\ at' = at /\ segment' = segment /\ it' = it
      /\ picard' = picard /\ flag' = flag /\ pending' = pending /\ have' = have
      /\ verdicts' = verdicts /\ obeyed' = obeyed
  BY DEF WaitLast, jupiter
<1>a. PICK k \in {"post", "waitlast"} : k = "waitlast"
  OBVIOUS
<1>2. /\ p \in RadProc /\ segment[p] = "fields" /\ ~Finished(p) /\ Active(Cur(p))
      /\ Cur(p).kind = "waitlast"
  BY <1>1, <1>a, PostCur
<1>4. Staying /\ OthersSame(p) /\ Typed
  BY <1>0, <1>1 DEF Staying, OthersSame, Typed, VarsOk
<1>5. /\ VarsOk' /\ (\A q \in Proc : q # p => Quiet(q))
      /\ Made(p)' = Made(p) \cup {Cur(p)}
  BY <1>0, <1>1, <1>2, <1>4, CallQuiet
<1>6. Ext(S, S) /\ PlanOk' /\ VerdictsOk(S)'
  BY <1>1, SameExt
<1>7. Round(p)' = Round(p) /\ Phase(p)' = Phase(p)
  BY <1>1, MomentSame
<1>b. PICK o : o = Cur(p)
  OBVIOUS
<1>c. /\ Made(p)' \subseteq Made(p) \cup {o} /\ Made(p) \subseteq Made(p)'
      /\ o.kind \notin {"recv", "post", "judge", "send"}
  BY <1>2, <1>5, <1>b
<1>8. \A x \in Proc : SentSet(S, p, x)' = SentSet(S, p, x)
  <2>1. ASSUME NEW x \in Proc PROVE SentSet(S, p, x)' = SentSet(S, p, x)
    <3>1. \A e \in Events(S, p, x) : Now(p, e) => (Given(p, x, e)' <=> Given(p, x, e))
      BY <1>c, GivenSame
    <3> QED  BY <1>6, <1>7, <3>1, SentSame
  <2> QED  BY <2>1
<1>9. \A x \in Proc : GotSet(S, x, p)' = GotSet(S, x, p)
  <2>1. ASSUME NEW x \in Proc PROVE GotSet(S, x, p)' = GotSet(S, x, p)
    <3>1. \A e \in Events(S, x, p) : Now(p, e) => (Taken(x, p, e)' <=> Taken(x, p, e))
      BY <1>1, <1>c, TakenSame
    <3> QED  BY <1>6, <1>7, <3>1, GotSame
  <2> QED  BY <2>1
<1>10. /\ \A x \in Proc : <<p, x>> \in Links => LinkOk(S, p, x)'
       /\ \A x \in Proc : <<x, p>> \in Links => LinkOk(S, x, p)'
  BY <1>1, <1>5, <1>6, <1>8, <1>9, StillLinks
<1>11. p \notin JupiterProc
  BY <1>2, ProcIs
<1>12. RoundOk(S, p) /\ IterationOk(S, p) /\ HaveOk(p) /\ PostedOk(p)
  BY <1>2 DEF Inv
<1>13. RoundOk(S, p)'
  BY <1>0, <1>1, <1>2, <1>12, SameLength, RoundSame
<1>14. \A l \in {"recv", "post", "judge", "send"} : \A x, u, v :
           Op(l, x, u, v) \in Made(p)' <=> Op(l, x, u, v) \in Made(p)
  <2>1. ASSUME NEW l \in {"recv", "post", "judge", "send"}, NEW x, NEW u, NEW v
        PROVE  Op(l, x, u, v) \in Made(p)' <=> Op(l, x, u, v) \in Made(p)
    <3>1. Op(l, x, u, v).kind = l
      BY DEF Op
    <3>2. Op(l, x, u, v) # o
      BY <1>c, <3>1
    <3> QED  BY <1>c, <3>2
  <2> QED  BY <2>1
<1>15. IterationOk(S, p)'
  <2>1. ~(segment[p] = "picard") /\ segment'[p] # "picard"
    BY <1>1, <1>2
  <2> QED  BY <1>1, <1>12, <2>1 DEF IterationOk
<1>16. HaveOk(p)'
  <2>1. PICK r \in {"recv", "post", "judge", "send"} : r = "recv"
    OBVIOUS
  <2>2. PICK s \in {"recv", "post", "judge", "send"} : s = "post"
    OBVIOUS
  <2>3. \A x, u, v : Op("recv", x, u, v) \in Made(p)' => Op("recv", x, u, v) \in Made(p)
    BY <1>14, <2>1
  <2>4. \A x, u, v : Op("post", x, u, v) \in Made(p)' => Op("post", x, u, v) \in Made(p)
    BY <1>14, <2>2
  <2>5. \A x : Op("post", x, 0, "") \in Made(p)' => Op("post", x, 0, "") \in Made(p)
    BY <2>4
  <2> QED  BY <1>1, <1>12, <2>3, <2>5, HaveSame
<1>17. \A f \in FieldSet : pending[p][f] = 0
  <2>1. ASSUME NEW f \in FieldSet PROVE pending[p][f] = 0
    <3>1. PICK n \in Nat \ {0} : n = Len(Fields) /\ DOMAIN Fields = 1 .. n
      BY FieldsAre
    <3>2. PICK j \in 1 .. n : f = Fields[j]
      BY <2>1, <3>1, FieldsAre
    <3>3. LastField = Fields[n]
      BY <3>1 DEF LastField, Last
    <3>4. CASE j = n
      BY <1>1, <3>2, <3>3, <3>4
    <3>5. CASE j < n
      <4>1. \A a, b \in DOMAIN Fields : a < b /\ pending[p][Fields[b]] = 0 => pending[p][Fields[a]] = 0
        BY <1>12 DEF PostedOk
      <4>2. n \in DOMAIN Fields /\ j \in DOMAIN Fields /\ pending[p][Fields[n]] = 0
        BY <1>1, <3>1, <3>3
      <4> QED  BY <3>2, <3>5, <4>1, <4>2
    <3> QED  BY <3>4, <3>5
  <2> QED  BY <2>1
<1>18. PostedOk(p)'
  <2>1. \A f \in FieldSet : pending'[p][f] = 0
    BY <1>1, <1>17
  <2>2. \A j \in DOMAIN Fields : Fields[j] \in FieldSet
    BY FieldsAre
  <2> QED  BY <2>1, <2>2 DEF PostedOk
<1> QED  BY <1>1, <1>2, <1>5, <1>6, <1>10, <1>11, <1>13, <1>15, <1>16, <1>18, Moved

\* PostFields.
LEMMA PostKeeps ==
    ASSUME NEW S, Inv(S), NEW p \in Proc, PostFields(p)
    PROVE  Inv(S)'
<1>0. VarsOk
  BY DEF Inv
<1>1. /\ At(p, "post") /\ Step(p) /\ chan' = chan
      /\ pending' = [pending EXCEPT ![p] = [f \in FieldSet |-> @[f] + 1]]
      /\ eager' = eager /\ plan' = plan /\ at' = at /\ segment' = segment /\ it' = it
      /\ picard' = picard /\ flag' = flag /\ have' = have
      /\ verdicts' = verdicts /\ obeyed' = obeyed
  BY DEF PostFields, jupiter
<1>a. PICK k \in {"post", "waitlast"} : k = "post"
  OBVIOUS
<1>b. PICK y : y = Rad(master_lat(myrank(p)))
  OBVIOUS
<1>2. /\ p \in RadProc /\ segment[p] = "fields" /\ ~Finished(p) /\ Active(Cur(p))
      /\ Cur(p).kind = "post" /\ Cur(p) = Op("post", y, 0, "") /\ MasterSlave(y, p)
      /\ Cur(p) \notin Made(p) /\ \A o \in Made(p) : Stage(o) <= Stage(Cur(p))
  BY <1>1, <1>a, <1>b, PostCur
<1>12. RoundOk(S, p) /\ IterationOk(S, p) /\ HaveOk(p) /\ PostedOk(p)
  BY <1>2 DEF Inv
<1>c. \A f \in FieldSet : pending[p][f] = 0
  BY <1>b, <1>2, <1>12 DEF PostedOk
<1>d. pending \in [RadProc -> [FieldSet -> {0, 1}]]
  BY <1>0 DEF VarsOk
<1>e. /\ pending'[p] = [f \in FieldSet |-> pending[p][f] + 1]
      /\ \A q \in RadProc : q # p => pending'[q] = pending[q]
      /\ DOMAIN pending' = RadProc
  BY <1>1, <1>2, <1>d
<1>f. pending'[p] \in [FieldSet -> {0, 1}] /\ \A f \in FieldSet : pending'[p][f] = 1
  BY <1>c, <1>e
<1>k. \A f \in FieldSet : pending'[p][f] # 0
  BY <1>f
<1>g. pending' \in [RadProc -> [FieldSet -> {0, 1}]]
  <2>1. \A q \in RadProc : pending'[q] \in [FieldSet -> {0, 1}]
    BY <1>d, <1>e, <1>f
  <2>2. pending' = [q \in RadProc |-> pending'[q]]
    BY <1>1, <1>d
  <2> QED  BY <2>1, <2>2
<1>4. Staying /\ OthersSame(p) /\ Typed
  BY <1>0, <1>1, <1>e, <1>g DEF Staying, OthersSame, Typed, VarsOk
<1>5. /\ VarsOk' /\ (\A q \in Proc : q # p => Quiet(q))
      /\ Made(p)' = Made(p) \cup {Cur(p)}
  BY <1>0, <1>1, <1>2, <1>4, CallQuiet
<1>6. Ext(S, S) /\ PlanOk' /\ VerdictsOk(S)'
  BY <1>1, SameExt
<1>7. Round(p)' = Round(p) /\ Phase(p)' = Phase(p)
  BY <1>1, MomentSame
<1>h. PICK o : o = Cur(p)
  OBVIOUS
<1>i. /\ Made(p)' = Made(p) \cup {o} /\ Made(p)' \subseteq Made(p) \cup {o}
      /\ Made(p) \subseteq Made(p)'
      /\ o.kind \notin {"recv", "waitlast", "judge", "send"} /\ o.kind = "post"
  BY <1>2, <1>5, <1>h
<1>14. \A l \in {"recv", "waitlast", "judge", "send"} : \A x, u, v :
           Op(l, x, u, v) \in Made(p)' <=> Op(l, x, u, v) \in Made(p)
  <2>1. ASSUME NEW l \in {"recv", "waitlast", "judge", "send"}, NEW x, NEW u, NEW v
        PROVE  Op(l, x, u, v) \in Made(p)' <=> Op(l, x, u, v) \in Made(p)
    <3>1. Op(l, x, u, v).kind = l
      BY DEF Op
    <3>2. Op(l, x, u, v) # o
      BY <1>i, <3>1
    <3> QED  BY <1>i, <3>2
  <2> QED  BY <2>1
<1>j. \A x, u, v : Op("recv", x, u, v) \in Made(p)' <=> Op("recv", x, u, v) \in Made(p)
  <2>1. PICK r \in {"recv", "waitlast", "judge", "send"} : r = "recv"
    OBVIOUS
  <2> QED  BY <1>14, <2>1
<1>8. \A x \in Proc : SentSet(S, p, x)' = SentSet(S, p, x)
  <2>1. ASSUME NEW x \in Proc PROVE SentSet(S, p, x)' = SentSet(S, p, x)
    <3>1. \A e \in Events(S, p, x) : Now(p, e) => (Given(p, x, e)' <=> Given(p, x, e))
      BY <1>i, GivenSame
    <3> QED  BY <1>6, <1>7, <3>1, SentSame
  <2> QED  BY <2>1
<1>9. \A x \in Proc : GotSet(S, x, p)' = GotSet(S, x, p)
  <2>1. ASSUME NEW x \in Proc PROVE GotSet(S, x, p)' = GotSet(S, x, p)
    <3>1. ASSUME NEW e \in Events(S, x, p) PROVE Taken(x, p, e)' <=> Taken(x, p, e)
      <4>1. PICK r : r = Op("recv", x, e[3], e[4])
        OBVIOUS
      <4>2. PICK z : z = Op("post", x, 0, "")
        OBVIOUS
      <4>3. r \in Made(p)' <=> r \in Made(p)
        BY <1>j, <4>1
      <4>4. Posts(SegOf(e[2]), x, p, e[3], e[4]) => /\ z \notin Made(p)
                                                    /\ pending'[p][e[4]] # 0
        <5>1. ASSUME Posts(SegOf(e[2]), x, p, e[3], e[4]) PROVE z \notin Made(p) /\ pending'[p][e[4]] # 0
          <6>1. x = y /\ e[4] \in FieldSet
            BY <1>b, <5>1, PostsIs
          <6>2. z = Cur(p)
            BY <1>2, <4>2, <6>1
          <6>3. z \notin Made(p)
            BY <1>2, <6>2
          <6>4. pending'[p][e[4]] # 0
            BY <1>k, <6>1
          <6> QED  BY <6>3, <6>4
        <5> QED  BY <5>1
      <4>5. Taken(x, p, e)' <=> \/ r \in Made(p)'
                                \/ /\ Posts(SegOf(e[2]), x, p, e[3], e[4]) /\ z \in Made(p)'
                                   /\ pending'[p][e[4]] = 0
        BY <4>1, <4>2 DEF Taken
      <4>6. Taken(x, p, e) <=> \/ r \in Made(p)
                               \/ /\ Posts(SegOf(e[2]), x, p, e[3], e[4]) /\ z \in Made(p)
                                  /\ pending[p][e[4]] = 0
        BY <4>1, <4>2 DEF Taken
      <4> QED  BY <4>3, <4>4, <4>5, <4>6
    <3> QED  BY <1>6, <1>7, <3>1, GotSame
  <2> QED  BY <2>1
<1>10. /\ \A x \in Proc : <<p, x>> \in Links => LinkOk(S, p, x)'
       /\ \A x \in Proc : <<x, p>> \in Links => LinkOk(S, x, p)'
  BY <1>1, <1>5, <1>6, <1>8, <1>9, StillLinks
<1>11. p \notin JupiterProc
  BY <1>2, ProcIs
<1>13. RoundOk(S, p)'
  BY <1>0, <1>1, <1>2, <1>12, SameLength, RoundSame
<1>15. IterationOk(S, p)'
  <2>1. ~(segment[p] = "picard") /\ segment'[p] # "picard"
    BY <1>1, <1>2
  <2> QED  BY <1>1, <1>12, <2>1 DEF IterationOk
<1>16. HaveOk(p)'
  <2>1. \A s, w : ~(MasterSlave(s, p) /\ w \in FieldSet /\ pending'[p][w] = 0
                /\ Op("post", s, 0, "") \in Made(p)')
    BY <1>k
  <2> QED  BY <1>1, <1>12, <1>j, <2>1, HaveSame
<1>18. PostedOk(p)'
  <2>1. PICK M : M = Made(p)'
    OBVIOUS
  <2>2. Op("post", y, 0, "") \in M
    BY <1>2, <1>5, <2>1
  <2>3. Op("waitlast", y, 0, "") \notin M
    <3>1. PICK x : x = Op("waitlast", y, 0, "")
      OBVIOUS
    <3>2. Stage(x) = 2
      BY <3>1, OtherStages
    <3>3. Stage(Cur(p)) = 1
      BY <1>2, OtherStages
    <3>4. x \notin Made(p) /\ x # Cur(p)
      <4>1. \A u \in Made(p) : Stage(u) <= 1
        BY <1>2, <3>3
      <4>2. ~(Stage(x) <= 1) /\ Stage(x) # Stage(Cur(p))
        BY <3>2, <3>3
      <4> QED  BY <4>1, <4>2
    <3> QED  BY <1>5, <2>1, <3>1, <3>4
  <2>4. \A j \in DOMAIN Fields : Fields[j] \in FieldSet
    BY FieldsAre
  <2>5. \A f \in FieldSet : pending'[p][f] # 0
    BY <1>f
  <2>6. (\A f \in FieldSet : pending[p][f] # 0 =>
          /\ segment[p] = "fields" /\ MasterSlave(Rad(master_lat(myrank(p))), p)
          /\ Op("post", Rad(master_lat(myrank(p))), 0, "") \in Made(p)
          /\ Op("waitlast", Rad(master_lat(myrank(p))), 0, "") \notin Made(p))'
    BY <1>1, <1>2, <1>b, <2>1, <2>2, <2>3
  <2> QED  BY <2>4, <2>5, <2>6 DEF PostedOk
<1> QED  BY <1>1, <1>2, <1>5, <1>6, <1>10, <1>11, <1>13, <1>15, <1>16, <1>18, Moved

\* A message is taken from a link.
LEMMA TakeLink ==
    ASSUME NEW S, Inv(S), Ext(S, S), NEW p \in Proc, NEW s \in Proc, <<s, p>> \in Links,
           NEW x, GotSet(S, s, p)' = GotSet(S, s, p) \cup {x}, Quiet(s),
           NEW k \in DOMAIN chan[<<s, p>>], Ev(chan[<<s, p>>][k]) = x,
           chan'[<<s, p>>] = RemoveAt(chan[<<s, p>>], k)
    PROVE  LinkOk(S, s, p)'
<1>1. PICK c : c = chan[<<s, p>>]
  OBVIOUS
<1>2. Chan(c, SentSet(S, s, p), GotSet(S, s, p)) /\ \A i \in DOMAIN c : Right(S, c[i])'
  <2>1. \A i \in DOMAIN c : Right(S, c[i])'
    BY <1>1, RightOnLink
  <2> QED  BY <1>1, <2>1 DEF Inv, LinkOk
<1>3. PICK A : A = SentSet(S, s, p)
  OBVIOUS
<1>4. PICK B : B = GotSet(S, s, p)
  OBVIOUS
<1>5. /\ Chan(RemoveAt(c, k), A, B \cup {x})
      /\ \A i \in DOMAIN RemoveAt(c, k) : \E j \in DOMAIN c : RemoveAt(c, k)[i] = c[j]
  <2>1. Chan(c, A, B) /\ Ev(c[k]) = x /\ k \in DOMAIN c
    BY <1>1, <1>2, <1>3, <1>4
  <2>2. A \subseteq Event
    BY <1>3 DEF SentSet, Events
  <2>3. /\ Chan(RemoveAt(c, k), A, B \cup {Ev(c[k])})
        /\ \A i \in DOMAIN RemoveAt(c, k) : \E j \in DOMAIN c : RemoveAt(c, k)[i] = c[j]
    <3>1. Chan(c, A, B) /\ k \in DOMAIN c
      BY <2>1
    <3> QED  BY ONLY <3>1, <2>2, ChanTake
  <2> QED  BY <2>1, <2>3
<1>7. SentSet(S, s, p)' = SentSet(S, s, p)
  BY QuietSets
<1>8. PICK r : r = RemoveAt(c, k)
  OBVIOUS
<1>9. chan'[<<s, p>>] = r
  BY <1>1, <1>8
<1>10. Chan(r, SentSet(S, s, p)', GotSet(S, s, p)')
  BY <1>3, <1>4, <1>5, <1>7, <1>8
<1>11. \A i \in DOMAIN r : Right(S, r[i])'
  BY <1>2, <1>5, <1>8
<1>12. Chan(chan[<<s, p>>], SentSet(S, s, p), GotSet(S, s, p))'
  BY <1>9, <1>10
<1>13. (\A i \in DOMAIN chan[<<s, p>>] : Right(S, chan[<<s, p>>][i]))'
  BY <1>9, <1>11
<1> QED  BY <1>12, <1>13 DEF LinkOk

\* DoRecv.
LEMMA RecvLink ==
    ASSUME NEW S, Inv(S), Ext(S, S), NEW p \in Proc,
           NEW s \in Proc, <<s, p>> \in Links, NEW t, NEW w, NEW o, o = Op("recv", s, t, w),
           NEW x \in Events(S, s, p), Now(p, x), x[3] = t, x[4] = w,
           Made(p)' = Made(p) \cup {o}, pending'[p] = pending[p],
           Round(p)' = Round(p), Phase(p)' = Phase(p), Quiet(s),
           NEW k \in DOMAIN chan[<<s, p>>], Ev(chan[<<s, p>>][k]) = x,
           chan'[<<s, p>>] = RemoveAt(chan[<<s, p>>], k)
    PROVE  LinkOk(S, s, p)'
<1>1. GotSet(S, s, p)' = GotSet(S, s, p) \cup {x}
  <2>1. ASSUME NEW e \in Events(S, s, p), Now(p, e)
        PROVE  Taken(s, p, e)' <=> Taken(s, p, e) \/ e = x
    <3>1. PICK r : r = Op("recv", s, e[3], e[4])
      OBVIOUS
    <3>2. PICK z : z = Op("post", s, 0, "")
      OBVIOUS
    <3>3. z # o
      <4>1. z.kind = "post" /\ o.kind = "recv"
        BY <3>2 DEF Op
      <4> QED  BY <4>1
    <3>4. r = o <=> e[3] = t /\ e[4] = w
      BY <3>1, OpSame
    <3>5. e \in Event /\ x \in Event
      BY DEF Events
    <3>6. e = x <=> e[3] = t /\ e[4] = w
      BY <2>1, <3>5 DEF Now, Event
    <3>7. Taken(s, p, e)' <=> \/ r \in Made(p)'
                              \/ /\ Posts(SegOf(e[2]), s, p, e[3], e[4]) /\ z \in Made(p)'
                                 /\ pending[p][e[4]] = 0
      BY <3>1, <3>2 DEF Taken
    <3>8. Taken(s, p, e) <=> \/ r \in Made(p)
                             \/ /\ Posts(SegOf(e[2]), s, p, e[3], e[4]) /\ z \in Made(p)
                                /\ pending[p][e[4]] = 0
      BY <3>1, <3>2 DEF Taken
    <3> QED  BY <3>3, <3>4, <3>6, <3>7, <3>8
  <2> QED  BY <2>1, GotOne
<1> QED  BY <1>1, TakeLink

\* What comes where.
LEMMA RecvWhat ==
    ASSUME NEW g, NEW p \in Proc, NEW s, NEW t, NEW w, Sends(s, g, p, t, w)
    PROVE  /\ p \in JupiterProc <=> w = "heat"
           /\ g = "exchange" => w \in {"heat", "iflg"}
           /\ w = "iflg" => g = "exchange"
           /\ w = "iexit" => g = "picard" /\ s = Rad(0) /\ t = 10 /\ p # Rad(0) /\ p \in RadProc
           /\ w \in FieldSet => g \in {"fields", "picard"} /\ w \notin Others
           /\ g = "fields" /\ w \in FieldSet => AField(t, w)
<1>1. FieldSet \cap Others = {}
  BY FieldsAre
<1>2. w \in FieldSet => w \notin {"heat", "iflg", "iexit", "halo"} /\ w \notin Others
  BY <1>1 DEF Others
<1>3. AField(t, w) => w \in FieldSet
  BY AFieldIs
<1>4. p \in JupiterProc <=> p \notin RadProc
  BY ProcIs
<1>5. /\ g \in {"exchange", "fields", "picard"}
      /\ g = "exchange" <=> w \in {"heat", "iflg"}
      /\ g = "picard" => p \in RadProc
  BY SendsIs
<1>6. CASE g = "exchange"
  <2>1. Exchanged(s, p, t, w)
    BY <1>6 DEF Sends
  <2>2. w = "heat" => p \in JupiterProc
    BY <2>1 DEF Exchanged
  <2>3. w = "iflg" => p \in RadProc
    <3>1. ASSUME NEW q \in JupiterProc PROVE Rad(q) \in RadProc
      BY RadInt
    <3> QED  BY <2>1, <3>1, MasterSlaveProcs DEF Exchanged
  <2> QED  BY <1>2, <1>4, <1>5, <1>6, <2>2, <2>3
<1>7. CASE g = "fields"
  <2>1. Passed(s, p, t, w)
    BY <1>7 DEF Sends
  <2>2. p \in RadProc
    <3>1. ASSUME NEW q \in JupiterProc PROVE Rad(q) \in RadProc
      BY RadInt
    <3> QED  BY <2>1, <3>1, MasterSlaveProcs, HaloProcs DEF Passed
  <2>3. w # "iexit"
    BY <1>2, <1>3, <2>1 DEF Passed
  <2>4. w \in FieldSet => AField(t, w)
    BY <1>2, <2>1 DEF Passed
  <2> QED  BY <1>2, <1>4, <1>5, <1>7, <2>2, <2>3, <2>4
<1>8. CASE g = "picard"
  <2>1. Iterated(s, p, t, w)
    BY <1>8 DEF Sends
  <2>2. w = "iexit" => s = Rad(0) /\ t = 10 /\ p # Rad(0)
    BY <2>1 DEF Iterated
  <2> QED  BY <1>2, <1>4, <1>5, <1>8, <2>2
<1> QED  BY <1>5, <1>6, <1>7, <1>8

\* The values that come.
LEMMA RecvValue ==
    ASSUME NEW S, Inv(S), NEW p \in RadProc, NEW w, NEW m, Right(S, m), m.what = w,
           m.round = it[p], m.iteration = picard[p]
    PROVE  /\ w = "iflg" => it[p] <= Len(plan) /\ m.value = plan[it[p]] /\ m.value \in {0, 1}
           /\ w = "iexit" /\ segment[p] = "picard" =>
                 /\ S[it[p]] + picard[p] <= Len(verdicts)
                 /\ m.value = verdicts[S[it[p]] + picard[p]] /\ m.value \in {0, 1}
           /\ w \in FieldSet /\ segment[p] # "exchange" => m.value = it[p] /\ m.value \in 0 .. RoundBound
<1>1. PICK n \in Nat : n = Len(plan) /\ n <= RoundBound /\ \A i \in 1 .. n : plan[i] \in {0, 1}
  BY PlanIs DEF Inv
<1>2. PICK v, l \in Nat : /\ v = Len(verdicts) /\ l = Len(S) /\ \A i \in 1 .. v : verdicts[i] \in {0, 1}
                          /\ \A i \in 1 .. l : S[i] \in Nat
  BY VerdictsAre DEF Inv
<1>3. it[p] \in Nat /\ picard[p] \in Nat
  BY DEF Inv, VarsOk
<1>4. it[p] >= 1 /\ it[p] <= l /\ (segment[p] # "exchange" => it[p] <= n)
  BY <1>1, <1>2 DEF Inv, RoundOk
<1>5. w = "iflg" => it[p] <= n /\ m.value = plan[it[p]]
  BY <1>1 DEF Right
<1>6. ASSUME w = "iexit", segment[p] = "picard"
      PROVE  /\ S[it[p]] + picard[p] <= v
             /\ m.value = verdicts[S[it[p]] + picard[p]] /\ m.value \in {0, 1}
  <2>1. /\ S[it[p]] + picard[p] <= v /\ m.value = verdicts[S[it[p]] + picard[p]]
    BY <1>2, <1>6 DEF Right
  <2>2. picard[p] >= 1
    BY <1>6 DEF Inv, IterationOk
  <2>3. S[it[p]] \in Nat
    BY <1>2, <1>3, <1>4
  <2>4. S[it[p]] + picard[p] \in 1 .. v
    BY <1>3, <2>1, <2>2, <2>3
  <2> QED  BY <1>2, <2>1, <2>4
<1>7. w \in FieldSet => m.value = it[p]
  BY DEF Right
<1>8. w = "iflg" => m.value \in {0, 1}
  BY <1>1, <1>3, <1>4, <1>5
<1>9. segment[p] # "exchange" => it[p] \in 0 .. RoundBound
  BY <1>1, <1>3, <1>4, BoundAssumption
<1> QED  BY <1>1, <1>2, <1>5, <1>6, <1>7, <1>8, <1>9

LEMMA RecvRound ==
    ASSUME NEW S, Inv(S), NEW p \in RadProc, NEW w, plan' = plan, segment' = segment, it' = it,
           segment[p] = "exchange" => /\ w = "iflg" /\ it[p] <= Len(plan)
                                      /\ flag'[p] = plan[it[p]]
    PROVE  RoundOk(S, p)'
<1>1. RoundOk(S, p)
  BY DEF Inv
<1>2. segment[p] = "exchange" => it[p] <= Len(plan) /\ flag'[p] = plan[it[p]]
  OBVIOUS
<1>3. (\A s, t : segment[p] = "exchange" /\ Op("recv", s, t, "iflg") \in Made(p) =>
          it[p] <= Len(plan) /\ flag[p] = plan[it[p]])'
  BY <1>2
<1> QED  BY <1>1, <1>3 DEF RoundOk

LEMMA RecvIteration ==
    ASSUME NEW S, Inv(S), NEW p \in RadProc, NEW s, NEW t, NEW w, NEW o, o = Op("recv", s, t, w),
           o \notin Made(p), Made(p)' = Made(p) \cup {o}, verdicts' = verdicts,
           segment' = segment, it' = it, picard' = picard,
           w = "iexit" => segment[p] = "picard" /\ s = Rad(0) /\ t = 10 /\ p # Rad(0),
           w = "iflg" => segment[p] = "exchange", NEW v,
           w = "iexit" => S[it[p]] + picard[p] <= Len(verdicts) /\ v = verdicts[S[it[p]] + picard[p]],
           flag'[p] = IF w \in {"iflg", "iexit"} THEN v ELSE flag[p],
           obeyed'[p] = IF w = "iexit" THEN obeyed[p] + 1 ELSE obeyed[p]
    PROVE  IterationOk(S, p)'
<1>0. IterationOk(S, p) /\ VarsOk
  BY DEF Inv
<1>1. PICK j : j = Op("judge", 0, 0, "")
  OBVIOUS
<1>2. PICK r : r = Op("recv", Rad(0), 10, "iexit")
  OBVIOUS
<1>3. Heard(p) <=> j \in Made(p) \/ r \in Made(p)
  BY <1>1, <1>2 DEF Heard
<1>4. Heard(p)' <=> j \in Made(p)' \/ r \in Made(p)'
  BY <1>1, <1>2 DEF Heard
<1>5. j # o
  <2>1. j.kind = "judge" /\ o.kind = "recv"
    BY <1>1 DEF Op
  <2> QED  BY <2>1
<1>6. CASE w = "iexit"
  <2>1. r = o
    BY <1>2, <1>6
  <2>2. j \notin Made(p)
    <3>1. SUFFICES ASSUME j \in Made(p) PROVE FALSE
      OBVIOUS
    <3>2. p \in Proc
      BY ProcIs DEF Proc
    <3>3. Has(Ops(p), j)
      BY <1>0, <3>1, <3>2, MadeNow
    <3>4. p = Rad(0)
      BY <1>0, <1>1, <3>2, <3>3, JudgeCall
    <3> QED  BY <1>6, <3>4
  <2>3. ~Heard(p) /\ Heard(p)'
    BY <1>3, <1>4, <2>1, <2>2
  <2>4. segment[p] = "picard"
    BY <1>6
  <2>5. /\ picard[p] >= 1 /\ picard[p] <= PicardMax
        /\ \A i \in 1 .. picard[p] - 1 : verdicts[S[it[p]] + i] = 0
        /\ obeyed[p] = S[it[p]] + picard[p] - 1
    BY <1>0, <2>3, <2>4 DEF IterationOk
  <2>6. PICK a : a = S[it[p]] + picard[p]
    OBVIOUS
  <2>7. obeyed'[p] = a /\ a <= Len(verdicts) /\ flag'[p] = verdicts[a]
    <3>1. S[it[p]] \in Nat /\ picard[p] \in Nat
      <4>1. it[p] \in Nat /\ it[p] >= 1 /\ it[p] <= Len(S) /\ picard[p] \in Nat
        BY DEF Inv, RoundOk, VarsOk
      <4>2. S \in Seq(Nat) /\ Len(S) \in Nat
        BY DEF Inv, VerdictsOk
      <4> QED  BY <4>1, <4>2
    <3>2. obeyed'[p] = a
      BY <1>6, <2>5, <2>6, <3>1
    <3> QED  BY <1>6, <2>6, <3>2
  <2>8. /\ segment[p] # "picard" => picard[p] = 0 /\ obeyed'[p] = S[it[p]]
        /\ segment[p] = "picard" =>
              /\ picard[p] >= 1 /\ picard[p] <= PicardMax
              /\ \A i \in 1 .. picard[p] - 1 : verdicts[S[it[p]] + i] = 0
              /\ ~Heard(p)' => obeyed'[p] = S[it[p]] + picard[p] - 1
              /\ Heard(p)' => obeyed'[p] = S[it[p]] + picard[p] /\ flag'[p] = verdicts[obeyed'[p]]
        /\ obeyed'[p] <= Len(verdicts)
        /\ p = Rad(0) => obeyed'[p] = Len(verdicts)
    BY <1>6, <2>3, <2>4, <2>5, <2>6, <2>7
  <2> QED  BY <2>8 DEF IterationOk
<1>7. CASE w # "iexit"
  <2>1. r # o
    BY <1>2, <1>7, OpSame
  <2>2. Heard(p)' <=> Heard(p)
    BY <1>3, <1>4, <1>5, <2>1
  <2>3. obeyed'[p] = obeyed[p]
    BY <1>7
  <2>4. segment[p] # "picard" \/ flag'[p] = flag[p]
    BY <1>7
  <2> QED  BY <1>0, <2>2, <2>3, <2>4, IterationSame
<1> QED  BY <1>6, <1>7

LEMMA RecvHave ==
    ASSUME NEW p \in RadProc, VarsOk, HaveOk(p), NEW s, NEW t, NEW w, NEW o, o = Op("recv", s, t, w),
           Made(p)' = Made(p) \cup {o}, segment' = segment, it' = it, pending'[p] = pending[p],
           segment[p] = "fields" /\ w \in FieldSet => AField(t, w),
           have'[p] = IF w \in FieldSet THEN [have[p] EXCEPT ![w] = it[p]] ELSE have[p]
    PROVE  HaveOk(p)'
<1>1. have[p] \in [FieldSet -> 0 .. RoundBound]
  BY DEF VarsOk
<1>2. PICK h : h = have'[p]
  OBVIOUS
<1>3. /\ \A f \in FieldSet : f # w => h[f] = have[p][f]
      /\ w \in FieldSet => h[w] = it[p]
  BY <1>1, <1>2
<1>4. PICK M : M = Made(p)'
  OBVIOUS
<1>5. segment[p] = "picard" => \A f \in FieldSet : h[f] = it[p]
  BY <1>3 DEF HaveOk
<1>6. ASSUME segment[p] = "fields", NEW x, NEW u, NEW f, AField(u, f),
             \/ Op("recv", x, u, f) \in M
             \/ MasterSlave(x, p) /\ Op("post", x, 0, "") \in M /\ pending[p][f] = 0
      PROVE  h[f] = it[p]
  <2>1. f \in FieldSet
    BY <1>6, AFieldIs
  <2>2. CASE f = w
    BY <1>3, <2>1, <2>2
  <2>3. CASE f # w
    <3>1. PICK r : r = Op("recv", x, u, f)
      OBVIOUS
    <3>2. PICK z : z = Op("post", x, 0, "")
      OBVIOUS
    <3>3. r # o
      BY <2>3, <3>1, OpSame
    <3>4. z # o
      <4>1. z.kind = "post" /\ o.kind = "recv"
        BY <3>2 DEF Op
      <4> QED  BY <4>1
    <3>5. \/ r \in Made(p)
          \/ MasterSlave(x, p) /\ z \in Made(p) /\ pending[p][f] = 0
      BY <1>4, <1>6, <3>1, <3>2, <3>3, <3>4
    <3>6. have[p][f] = it[p]
      BY <1>6, <3>1, <3>2, <3>5 DEF HaveOk
    <3> QED  BY <1>3, <2>1, <2>3, <3>6
  <2> QED  BY <2>2, <2>3
<1>7. (segment[p] = "picard" => \A f \in FieldSet : have[p][f] = it[p])'
  BY <1>2, <1>5
<1>8. (segment[p] = "fields" =>
          \A x, u, f : /\ AField(u, f)
                       /\ \/ Op("recv", x, u, f) \in Made(p)
                          \/ /\ MasterSlave(x, p) /\ Op("post", x, 0, "") \in Made(p)
                             /\ pending[p][f] = 0
                       => have[p][f] = it[p])'
  BY <1>2, <1>4, <1>6
<1> QED  BY <1>7, <1>8 DEF HaveOk

LEMMA PostedSame ==
    ASSUME NEW p, PostedOk(p), segment' = segment, pending'[p] = pending[p],
           NEW o, Made(p)' = Made(p) \cup {o}, o.kind # "waitlast"
    PROVE  PostedOk(p)'
<1>1. PICK y : y = Rad(master_lat(myrank(p)))
  OBVIOUS
<1>2. PICK M : M = Made(p)'
  OBVIOUS
<1>3. Op("post", y, 0, "") \in Made(p) => Op("post", y, 0, "") \in M
  BY <1>2
<1>4. Op("waitlast", y, 0, "") \in M => Op("waitlast", y, 0, "") \in Made(p)
  <2>1. PICK x : x = Op("waitlast", y, 0, "")
    OBVIOUS
  <2>2. x.kind = "waitlast"
    BY <2>1 DEF Op
  <2>3. x # o
    BY <2>2
  <2> QED  BY <1>2, <2>1, <2>3
<1>5. ASSUME NEW f \in FieldSet, pending'[p][f] # 0
      PROVE  /\ segment'[p] = "fields" /\ MasterSlave(y, p)
             /\ Op("post", y, 0, "") \in M /\ Op("waitlast", y, 0, "") \notin M
  <2>1. /\ segment[p] = "fields" /\ MasterSlave(y, p)
        /\ Op("post", y, 0, "") \in Made(p) /\ Op("waitlast", y, 0, "") \notin Made(p)
    BY <1>1, <1>5 DEF PostedOk
  <2> QED  BY <1>3, <1>4, <2>1
<1>6. \A j, k \in DOMAIN Fields : j < k /\ pending'[p][Fields[k]] = 0 => pending'[p][Fields[j]] = 0
  BY DEF PostedOk
<1>7. (\A f \in FieldSet : pending[p][f] # 0 =>
          /\ segment[p] = "fields" /\ MasterSlave(Rad(master_lat(myrank(p))), p)
          /\ Op("post", Rad(master_lat(myrank(p))), 0, "") \in Made(p)
          /\ Op("waitlast", Rad(master_lat(myrank(p))), 0, "") \notin Made(p))'
  BY <1>1, <1>2, <1>5
<1> QED  BY <1>6, <1>7 DEF PostedOk

LEMMA RecvKeeps ==
    ASSUME NEW S, Inv(S), NEW p \in Proc, DoRecv(p)
    PROVE  Inv(S)'
<1>0. VarsOk
  BY DEF Inv
<1>1. /\ At(p, "recv") /\ Step(p)
      /\ eager' = eager /\ plan' = plan /\ at' = at /\ segment' = segment /\ it' = it
      /\ picard' = picard /\ pending' = pending /\ verdicts' = verdicts
  BY DEF DoRecv, jupiter
<1>2. PICK s, t, w : /\ s = Cur(p).peer /\ t = Cur(p).tag /\ w = Cur(p).what
                     /\ Cur(p) = Op("recv", s, t, w)
                     /\ s \in Proc /\ <<s, p>> \in Links /\ s # p
                     /\ Sends(s, segment[p], p, t, w) /\ ~Posts(segment[p], s, p, t, w)
  BY <1>1, RecvCur
<1>a. At(p, "recv")
  BY <1>1
<1>b. /\ Cur(p) = Op("recv", s, t, w) /\ s \in Proc /\ <<s, p>> \in Links
      /\ Sends(s, segment[p], p, t, w) /\ ~Posts(segment[p], s, p, t, w)
  BY <1>2
<1>3. PICK A : A = Available(s, p, t)
  OBVIOUS
<1>4. /\ A # {} /\ Take(s, p, Min(A))
      /\ flag' = IF w \in {"iflg", "iexit"}
                 THEN [flag EXCEPT ![p] = chan[<<s, p>>][Min(A)].value] ELSE flag
      /\ have' = IF w \in FieldSet
                 THEN [have EXCEPT ![p][w] = chan[<<s, p>>][Min(A)].value] ELSE have
      /\ obeyed' = IF w = "iexit" THEN [obeyed EXCEPT ![p] = @ + 1] ELSE obeyed
  BY <1>2, <1>3 DEF DoRecv
<1>5. PICK k, m : /\ k = Min(A) /\ m = chan[<<s, p>>][k]
                  /\ k \in DOMAIN chan[<<s, p>>] /\ m \in Msg /\ Right(S, m)
                  /\ Ev(m) = <<Round(p), Phase(p), t, w>>
                  /\ m.what = w /\ m.round = Round(p) /\ m.iteration = Iteration(p)
  <2>1. Available(s, p, t) # {}
    BY <1>3, <1>4
  <2>2. PICK k, m : /\ k = Min(Available(s, p, t)) /\ m = chan[<<s, p>>][k]
                    /\ k \in DOMAIN chan[<<s, p>>] /\ m \in Msg /\ Right(S, m)
                    /\ Ev(m) = <<Round(p), Phase(p), t, w>>
                    /\ m.what = w /\ m.round = Round(p) /\ m.iteration = Iteration(p)
    BY <1>a, <1>b, <2>1, RecvHead
  <2> QED  BY <1>3, <2>2
<1>6. PICK x : x = <<Round(p), Phase(p), t, w>>
  OBVIOUS
<1>7. x \in Events(S, s, p) /\ Now(p, x) /\ x[3] = t /\ x[4] = w
  BY <1>a, <1>b, <1>6, RecvEvent
<1>8. /\ ~Finished(p) /\ Active(Cur(p)) /\ Cur(p) \notin Made(p)
  <2>1. PICK l : l = "recv"
    OBVIOUS
  <2>2. l # "wait" /\ At(p, l)
    BY <1>1, <2>1
  <2> QED  BY <1>0, <2>2, CurIs
<1>9. DOMAIN chan = Links
  BY <1>0 DEF VarsOk
<1>10. /\ DOMAIN chan' = Links /\ chan'[<<s, p>>] = RemoveAt(chan[<<s, p>>], k)
       /\ \A l \in Links : l # <<s, p>> => chan'[l] = chan[l]
  <2>1. chan' = [chan EXCEPT ![<<s, p>>] = RemoveAt(@, k)]
    BY <1>4, <1>5 DEF Take
  <2> QED  BY <1>2, <1>9, <2>1
<1>11. /\ flag' = IF w \in {"iflg", "iexit"} THEN [flag EXCEPT ![p] = m.value] ELSE flag
       /\ have' = IF w \in FieldSet THEN [have EXCEPT ![p][w] = m.value] ELSE have
       /\ obeyed' = IF w = "iexit" THEN [obeyed EXCEPT ![p] = @ + 1] ELSE obeyed
  BY <1>4, <1>5
<1>12. /\ p \in JupiterProc <=> w = "heat"
       /\ segment[p] = "exchange" => w \in {"heat", "iflg"}
       /\ w = "iflg" => segment[p] = "exchange"
       /\ w = "iexit" => segment[p] = "picard" /\ s = Rad(0) /\ t = 10 /\ p # Rad(0) /\ p \in RadProc
       /\ w \in FieldSet => segment[p] \in {"fields", "picard"} /\ w \notin Others
       /\ segment[p] = "fields" /\ w \in FieldSet => AField(t, w)
  BY <1>2, RecvWhat
<1>13. p \in RadProc =>
       /\ w = "iflg" => it[p] <= Len(plan) /\ m.value = plan[it[p]] /\ m.value \in {0, 1}
       /\ w = "iexit" => /\ S[it[p]] + picard[p] <= Len(verdicts)
                         /\ m.value = verdicts[S[it[p]] + picard[p]] /\ m.value \in {0, 1}
       /\ w \in FieldSet => m.value = it[p] /\ m.value \in 0 .. RoundBound
  <2>1. ASSUME p \in RadProc
        PROVE  /\ w = "iflg" => it[p] <= Len(plan) /\ m.value = plan[it[p]] /\ m.value \in {0, 1}
               /\ w = "iexit" => /\ S[it[p]] + picard[p] <= Len(verdicts)
                                 /\ m.value = verdicts[S[it[p]] + picard[p]] /\ m.value \in {0, 1}
               /\ w \in FieldSet => m.value = it[p] /\ m.value \in 0 .. RoundBound
    <3>1. m.round = it[p] /\ m.iteration = picard[p]
      BY <1>5, <2>1, PhaseIs
    <3>2. /\ w = "iflg" => it[p] <= Len(plan) /\ m.value = plan[it[p]] /\ m.value \in {0, 1}
          /\ w = "iexit" /\ segment[p] = "picard" =>
                /\ S[it[p]] + picard[p] <= Len(verdicts)
                /\ m.value = verdicts[S[it[p]] + picard[p]] /\ m.value \in {0, 1}
          /\ w \in FieldSet /\ segment[p] # "exchange" => m.value = it[p] /\ m.value \in 0 .. RoundBound
      BY <1>5, <2>1, <3>1, RecvValue
    <3> QED  BY <1>12, <3>2
  <2> QED  BY <2>1
<1>14. "heat" \notin FieldSet
  BY FieldsAre DEF Others
<1>15. p \in JupiterProc => flag' = flag /\ have' = have /\ obeyed' = obeyed
  BY <1>11, <1>12, <1>14
<1>16. p \notin JupiterProc => p \in RadProc
  BY ProcIs
<1>17. flag' \in [Proc -> {0, 1}] /\ \A q \in Proc : q # p => flag'[q] = flag[q]
  <2>1. flag \in [Proc -> {0, 1}]
    BY <1>0 DEF VarsOk
  <2>2. w \in {"iflg", "iexit"} => m.value \in {0, 1}
    BY <1>12, <1>13, <1>16
  <2> QED  BY <1>11, <2>1, <2>2
<1>18. have \in [RadProc -> [FieldSet -> 0 .. RoundBound]]
  BY <1>0 DEF VarsOk
<1>19. /\ have' \in [RadProc -> [FieldSet -> 0 .. RoundBound]]
       /\ \A q \in RadProc : q # p => have'[q] = have[q]
       /\ p \in RadProc => have'[p] = IF w \in FieldSet THEN [have[p] EXCEPT ![w] = it[p]] ELSE have[p]
  <2>1. CASE w \in FieldSet /\ p \in RadProc
    <3>1. have' = [have EXCEPT ![p][w] = it[p]] /\ it[p] \in 0 .. RoundBound
      BY <1>11, <1>13, <2>1
    <3>2. have' = [have EXCEPT ![p] = [have[p] EXCEPT ![w] = it[p]]]
      BY <3>1
    <3>3. [have[p] EXCEPT ![w] = it[p]] \in [FieldSet -> 0 .. RoundBound]
      <4>1. have[p] \in [FieldSet -> 0 .. RoundBound]
        BY <1>18, <2>1
      <4> QED  BY <2>1, <3>1, <4>1
    <3>4. have' \in [RadProc -> [FieldSet -> 0 .. RoundBound]]
      BY <1>18, <3>2, <3>3
    <3>5. \A q \in RadProc : q # p => have'[q] = have[q]
      BY <1>18, <3>2
    <3>6. have'[p] = [have[p] EXCEPT ![w] = it[p]]
      BY <1>18, <2>1, <3>2
    <3> QED  BY <2>1, <3>4, <3>5, <3>6
  <2>2. CASE w \notin FieldSet
    <3>1. have' = have
      BY <1>11, <2>2
    <3> QED  BY <1>18, <2>2, <3>1
  <2>3. CASE p \notin RadProc
    <3>1. have' = have
      BY <1>15, <2>3, ProcIs
    <3> QED  BY <1>18, <2>3, <3>1
  <2> QED  BY <2>1, <2>2, <2>3
<1>20. obeyed \in [RadProc -> Nat]
  BY <1>0 DEF VarsOk
<1>21. /\ obeyed' \in [RadProc -> Nat] /\ \A q \in RadProc : q # p => obeyed'[q] = obeyed[q]
       /\ p \in RadProc => obeyed'[p] = IF w = "iexit" THEN obeyed[p] + 1 ELSE obeyed[p]
  <2>1. CASE w = "iexit"
    <3>1. obeyed' = [obeyed EXCEPT ![p] = obeyed[p] + 1]
      BY <1>11, <2>1
    <3>2. \A q \in RadProc : obeyed[q] + 1 \in Nat
      BY <1>20
    <3> QED  BY <1>20, <2>1, <3>1, <3>2
  <2>2. CASE w # "iexit"
    BY <1>11, <1>20, <2>2
  <2> QED  BY <2>1, <2>2
<1>22. Staying
  BY <1>1 DEF Staying
<1>23. OthersSame(p)
  BY <1>1, <1>17, <1>19, <1>21 DEF OthersSame
<1>24. Typed
  BY <1>0, <1>1, <1>10, <1>17, <1>19, <1>21 DEF Typed, VarsOk
<1>25. /\ VarsOk' /\ \A q \in Proc : q # p => Quiet(q)
       /\ Made(p)' = Made(p) \cup {Cur(p)}
  BY <1>0, <1>1, <1>8, <1>22, <1>23, <1>24, CallQuiet
<1>26. Ext(S, S) /\ PlanOk' /\ VerdictsOk(S)'
  BY <1>1, SameExt
<1>27. Round(p)' = Round(p) /\ Phase(p)' = Phase(p)
  BY <1>1, MomentSame
<1>28. PICK o : o = Cur(p)
  OBVIOUS
<1>29. /\ o = Op("recv", s, t, w) /\ o \notin Made(p) /\ Made(p)' = Made(p) \cup {o}
       /\ Made(p)' \subseteq Made(p) \cup {o} /\ Made(p) \subseteq Made(p)'
  BY <1>2, <1>8, <1>25, <1>28
<1>30. o.kind \notin {"send", "waitlast"} /\ o.peer = s
  BY <1>29 DEF Op
<1>31. ASSUME NEW y \in Proc, <<p, y>> \in Links PROVE LinkOk(S, p, y)'
  <2>1. p # y
    BY <1>31, LinksAre
  <2>2. Quiet(y) /\ chan'[<<p, y>>] = chan[<<p, y>>]
    BY <1>10, <1>25, <1>31, <2>1
  <2>3. \A e \in Events(S, p, y) : Now(p, e) => (Given(p, y, e)' <=> Given(p, y, e))
    BY <1>29, <1>30, GivenSame
  <2>4. SentSet(S, p, y)' = SentSet(S, p, y)
    BY <1>26, <1>27, <2>3, SentSame
  <2> QED  BY <1>26, <1>31, <2>2, <2>4, OutKept
<1>32. ASSUME NEW y \in Proc, <<y, p>> \in Links PROVE LinkOk(S, y, p)'
  <2>1. p # y
    BY <1>32, LinksAre
  <2>2. CASE y = s
    <3>1. Quiet(s) /\ pending'[p] = pending[p]
      BY <1>1, <1>2, <1>25
    <3>2. Ev(chan[<<s, p>>][k]) = x
      BY <1>5, <1>6
    <3>3. LinkOk(S, s, p)'
      BY <1>2, <1>5, <1>7, <1>10, <1>26, <1>27, <1>29, <3>1, <3>2, RecvLink
    <3> QED  BY <2>2, <3>3
  <2>3. CASE y # s
    <3>1. Quiet(y) /\ chan'[<<y, p>>] = chan[<<y, p>>]
      BY <1>10, <1>25, <1>32, <2>1, <2>3
    <3>2. ASSUME NEW e \in Events(S, y, p) PROVE Taken(y, p, e)' <=> Taken(y, p, e)
      <4>1. PICK r : r = Op("recv", y, e[3], e[4])
        OBVIOUS
      <4>2. PICK z : z = Op("post", y, 0, "")
        OBVIOUS
      <4>3. r # o /\ z # o
        <5>1. r.peer = y /\ z.peer = y
          BY <4>1, <4>2 DEF Op
        <5> QED  BY <1>30, <2>3, <5>1
      <4>4. Taken(y, p, e)' <=> \/ r \in Made(p)'
                                \/ /\ Posts(SegOf(e[2]), y, p, e[3], e[4]) /\ z \in Made(p)'
                                   /\ pending[p][e[4]] = 0
        BY <1>1, <4>1, <4>2 DEF Taken
      <4>5. Taken(y, p, e) <=> \/ r \in Made(p)
                               \/ /\ Posts(SegOf(e[2]), y, p, e[3], e[4]) /\ z \in Made(p)
                                  /\ pending[p][e[4]] = 0
        BY <4>1, <4>2 DEF Taken
      <4> QED  BY <1>29, <4>3, <4>4, <4>5
    <3>3. GotSet(S, y, p)' = GotSet(S, y, p)
      BY <1>26, <1>27, <3>2, GotSame
    <3> QED  BY <1>26, <1>32, <3>1, <3>3, InKept
  <2> QED  BY <2>2, <2>3
<1>33. ASSUME NEW y \in Proc, NEW d \in Proc, <<y, d>> \in Links, y # p, d # p
       PROVE  chan'[<<y, d>>] = chan[<<y, d>>]
  BY <1>10, <1>33
<1>34. p \in JupiterProc => JupiterOk(p)'
  <2>1. ASSUME p \in JupiterProc PROVE JupiterOk(p)'
    <3>1. JupiterOk(p)
      BY <2>1 DEF Inv
    <3> QED  BY <1>1, <1>15, <2>1, <3>1 DEF JupiterOk
  <2> QED  BY <2>1
<1>35. ASSUME p \in RadProc PROVE RoundOk(S, p)' /\ IterationOk(S, p)' /\ HaveOk(p)' /\ PostedOk(p)'
  <2>0. p \notin JupiterProc /\ RoundOk(S, p) /\ HaveOk(p) /\ PostedOk(p)
    BY <1>35, ProcIs DEF Inv
  <2>1. flag'[p] = IF w \in {"iflg", "iexit"} THEN m.value ELSE flag[p]
    <3>1. flag \in [Proc -> {0, 1}]
      BY <1>0 DEF VarsOk
    <3> QED  BY <1>11, <3>1
  <2>2. RoundOk(S, p)'
    <3>1. segment[p] = "exchange" => w = "iflg"
      BY <1>12, <2>0
    <3>2. segment[p] = "exchange" => /\ w = "iflg" /\ it[p] <= Len(plan)
                                     /\ flag'[p] = plan[it[p]]
      BY <1>13, <1>35, <2>1, <3>1
    <3> QED  BY <1>1, <1>35, <3>2, RecvRound
  <2>3. IterationOk(S, p)'
    <3>1. PICK v : v = m.value
      OBVIOUS
    <3>2. w = "iexit" => segment[p] = "picard" /\ s = Rad(0) /\ t = 10 /\ p # Rad(0)
      BY <1>12
    <3>3. w = "iexit" => S[it[p]] + picard[p] <= Len(verdicts) /\ v = verdicts[S[it[p]] + picard[p]]
      BY <1>13, <1>35, <3>1
    <3>4. flag'[p] = IF w \in {"iflg", "iexit"} THEN v ELSE flag[p]
      BY <2>1, <3>1
    <3>5. obeyed'[p] = IF w = "iexit" THEN obeyed[p] + 1 ELSE obeyed[p]
      BY <1>21, <1>35
    <3>6. w = "iflg" => segment[p] = "exchange"
      BY <1>12
    <3> QED  BY <1>1, <1>29, <1>35, <3>2, <3>3, <3>4, <3>5, <3>6, RecvIteration
  <2>4. HaveOk(p)'
    <3>1. have'[p] = IF w \in FieldSet THEN [have[p] EXCEPT ![w] = it[p]] ELSE have[p]
      BY <1>19, <1>35
    <3>2. segment[p] = "fields" /\ w \in FieldSet => AField(t, w)
      BY <1>12
    <3> QED  BY <1>0, <1>1, <1>29, <1>35, <2>0, <3>1, <3>2, RecvHave
  <2>5. PostedOk(p)'
    BY <1>1, <1>29, <1>30, <2>0, PostedSame
  <2> QED  BY <2>2, <2>3, <2>4, <2>5
<1> QED  BY <1>1, <1>25, <1>26, <1>31, <1>32, <1>33, <1>34, <1>35, Moved

\* FieldArrives.  Receives complete in the order of posting: the fields before this one
\* have come.
Arrival(S, p, k, w, t, s, x) ==
    /\ w = Fields[k] /\ t = FieldTag(k) /\ s = Rad(master_lat(myrank(p)))
    /\ segment[p] = "fields" /\ MasterSlave(s, p) /\ s \in Proc /\ p \in Proc
    /\ <<s, p>> \in Links /\ w \in FieldSet /\ Posts(segment[p], s, p, t, w)
    /\ x \in Events(S, s, p) /\ Now(p, x) /\ x[3] = t /\ x[4] = w
    /\ Op("post", s, 0, "") \in Made(p) /\ Op("waitlast", s, 0, "") \notin Made(p)
    /\ Min(Matching(s, p, t)) \in DOMAIN chan[<<s, p>>]
    /\ Ev(chan[<<s, p>>][Min(Matching(s, p, t))]) = x
    /\ chan[<<s, p>>][Min(Matching(s, p, t))].value = it[p]

LEMMA ArriveHead ==
    ASSUME NEW S, Inv(S), NEW p \in RadProc, NEW k \in DOMAIN Fields, pending[p][Fields[k]] # 0,
           Matching(Rad(master_lat(myrank(p))), p, FieldTag(k)) # {}
    PROVE  \E w, t, s, x :
           Arrival(S, p, k, w, t, s, x)
<1> SUFFICES ASSUME NEW w, w = Fields[k], NEW t, t = FieldTag(k), pending[p][w] # 0,
                    NEW s, s = Rad(master_lat(myrank(p))), Matching(s, p, t) # {},
                    NEW x, x = <<Round(p), Phase(p), t, w>>
             PROVE  Arrival(S, p, k, w, t, s, x)
  OBVIOUS
<1>0. VarsOk
  BY DEF Inv
<1>1. w \in FieldSet
  BY FieldsAre
<1>2. /\ segment[p] = "fields" /\ MasterSlave(s, p)
      /\ Op("post", s, 0, "") \in Made(p) /\ Op("waitlast", s, 0, "") \notin Made(p)
  <2>1. PostedOk(p)
    BY DEF Inv
  <2> QED  BY <1>1, <2>1 DEF PostedOk
<1>3. AField(t, w)
  BY DEF AField
<1>4. Posts(segment[p], s, p, t, w)
  BY <1>2, <1>3 DEF Posts
<1>5. Sends(s, segment[p], p, t, w) /\ \A v : Sends(s, segment[p], p, t, v) => v = w
  BY <1>4, PostsIs
<1>6. s \in Proc /\ p \in Proc
  BY <1>5, SendsIs
<1>7. <<s, p>> \in Links
  BY <1>5, <1>6, LinksAre
<1>8. /\ x \in Events(S, s, p) /\ Now(p, x) /\ SegOf(x[2]) = segment[p]
      /\ x[1] = Round(p) /\ x[2] = Phase(p) /\ x[3] = t /\ x[4] = w
  <2>1. t \in Int /\ w \in Whats
    BY <1>5, SendsIs
  <2>2. Round(p) \in Nat /\ Phase(p) \in Nat /\ SegOf(Phase(p)) = segment[p]
    BY <1>2, <1>6, PhaseIs
  <2>3. x \in Event /\ x[1] = Round(p) /\ x[2] = Phase(p) /\ x[3] = t /\ x[4] = w
    BY <2>1, <2>2 DEF Event
  <2>4. Real(S, Round(p), Phase(p))
    BY <1>2, <1>6, MomentReal
  <2> QED  BY <1>5, <2>2, <2>3, <2>4 DEF Events, Now
<1>9. ~Taken(s, p, x)
  <2>1. Op("recv", s, t, w) \notin Made(p)
    <3>1. SUFFICES ASSUME Op("recv", s, t, w) \in Made(p) PROVE FALSE
      OBVIOUS
    <3>2. Has(Ops(p), Op("recv", s, t, w))
      BY <1>0, <1>6, <3>1, MadeNow
    <3> QED  BY <1>0, <1>4, <1>6, <3>2, RecvCall
  <2> QED  BY <1>8, <2>1 DEF Taken
<1>10. x \notin GotSet(S, s, p)
  <2>1. PICK n \in Nat, a \in Nat : n = Round(p) /\ a = Phase(p)
    BY <1>6, PhaseIs
  <2>2. ~Before(p, x)
    BY <1>8, <2>1 DEF Before, Earlier
  <2> QED  BY <1>9, <2>2, SetsAre
<1>11. ASSUME NEW f \in Events(S, s, p), Now(p, f), f[3] = x[3], SendStage(f[4]) < SendStage(x[4])
       PROVE  Taken(s, p, f)
  <2>1. Sends(s, segment[p], p, t, f[4])
    BY <1>8, <1>11 DEF Events, Now
  <2>2. f[4] = w
    BY <1>5, <2>1
  <2>3. SendStage(w) \in Int
    BY StagesRelated
  <2> QED  BY <1>8, <1>11, <2>2, <2>3
<1>12. PICK c : c = chan[<<s, p>>]
  OBVIOUS
<1>13. PICK K : K = Matching(s, p, t)
  OBVIOUS
<1>14. Chan(c, SentSet(S, s, p), GotSet(S, s, p)) /\ \A i \in DOMAIN c : Right(S, c[i])
  BY <1>6, <1>7, <1>12 DEF Inv, LinkOk
<1>15. PICK u : u = x[3]
  OBVIOUS
<1>16. K # {} /\ \A i : i \in K <=> i \in DOMAIN c /\ c[i].tag = u
  BY <1>6, <1>7, <1>8, <1>12, <1>13, <1>15, MatchingIs
<1>17. Min(K) \in DOMAIN c /\ c[Min(K)] \in Msg /\ Ev(c[Min(K)]) = x /\ Right(S, c[Min(K)])
  BY <1>6, <1>7, <1>8, <1>10, <1>11, <1>14, <1>15, <1>16, HeadIs
<1>18. PICK m : m = c[Min(K)]
  OBVIOUS
<1>19. m.value = it[p]
  <2>1. m \in Msg /\ Ev(m) = <<Round(p), Phase(p), t, w>>
    BY <1>17, <1>18
  <2>2. segment[p] \in {"exchange", "fields", "picard"}
    BY <1>2
  <2>3. m.round = Round(p) /\ m.what = w
    BY <1>6, <2>1, <2>2, MsgOf
  <2>4. Round(p) = it[p]
    BY <1>6, PhaseIs
  <2> QED  BY <1>1, <1>17, <1>18, <2>3, <2>4 DEF Right
<1>20. Min(Matching(s, p, t)) \in DOMAIN chan[<<s, p>>] /\ Ev(chan[<<s, p>>][Min(Matching(s, p, t))]) = x
  BY <1>8, <1>12, <1>13, <1>17, <1>18
<1>21. chan[<<s, p>>][Min(Matching(s, p, t))].value = it[p]
  BY <1>12, <1>13, <1>17, <1>18, <1>19
<1> QED  BY <1>1, <1>2, <1>4, <1>6, <1>7, <1>8, <1>20, <1>21 DEF Arrival

LEMMA ArriveKeeps ==
    ASSUME NEW S, Inv(S), InOrder = TRUE, NEW p \in Proc, NEW k \in DOMAIN Fields, FieldArrives(p, k)
    PROVE  Inv(S)'
<1>0. VarsOk
  BY DEF Inv
<1>z. /\ p \in RadProc /\ pending[p][Fields[k]] > 0
      /\ Matching(Rad(master_lat(myrank(p))), p, FieldTag(k)) # {}
  BY DEF FieldArrives
<1>x. PICK w, t, s, x : Arrival(S, p, k, w, t, s, x)
  <2>1. pending[p][Fields[k]] # 0
    BY <1>z
  <2> QED  BY <1>z, <2>1, ArriveHead
<1>3. /\ w = Fields[k] /\ t = FieldTag(k) /\ s = Rad(master_lat(myrank(p)))
      /\ segment[p] = "fields" /\ MasterSlave(s, p) /\ s \in Proc /\ p \in Proc
      /\ <<s, p>> \in Links /\ w \in FieldSet /\ Posts(segment[p], s, p, t, w)
      /\ x \in Events(S, s, p) /\ Now(p, x) /\ x[3] = t /\ x[4] = w
      /\ Op("post", s, 0, "") \in Made(p) /\ Op("waitlast", s, 0, "") \notin Made(p)
      /\ Min(Matching(s, p, t)) \in DOMAIN chan[<<s, p>>]
      /\ Ev(chan[<<s, p>>][Min(Matching(s, p, t))]) = x
      /\ chan[<<s, p>>][Min(Matching(s, p, t))].value = it[p]
  BY <1>x DEF Arrival
<1>a. w = Fields[k] /\ t = FieldTag(k) /\ s = Rad(master_lat(myrank(p)))
  BY <1>3
<1>d. PICK i : i = Min(Matching(s, p, t))
  OBVIOUS
<1>1. /\ p \in RadProc /\ pending[p][w] > 0 /\ Matching(s, p, t) # {}
      /\ \A j \in 1 .. k - 1 : pending[p][Fields[j]] < pending[p][w]
      /\ have' = [have EXCEPT ![p][w] = chan[<<s, p>>][i].value]
      /\ Take(s, p, i)
      /\ pending' = [pending EXCEPT ![p][w] = @ - 1]
      /\ eager' = eager /\ plan' = plan /\ at' = at /\ segment' = segment /\ it' = it
      /\ picard' = picard /\ flag' = flag /\ ip' = ip
      /\ verdicts' = verdicts /\ obeyed' = obeyed
  BY <1>a, <1>d DEF FieldArrives, jupiter
<1>e. pending[p][w] # 0
  BY <1>1
<1>4. i \in DOMAIN chan[<<s, p>>] /\ Ev(chan[<<s, p>>][i]) = x /\ chan[<<s, p>>][i].value = it[p]
  BY <1>d, <1>3
<1>5. RoundOk(S, p) /\ IterationOk(S, p) /\ HaveOk(p) /\ PostedOk(p)
  BY <1>1 DEF Inv
<1>6. it[p] \in 0 .. RoundBound
  <2>1. PICK n \in Nat : n = Len(plan) /\ n <= RoundBound
    BY PlanIs DEF Inv
  <2>2. it[p] <= n /\ it[p] >= 1
    BY <1>3, <1>5, <2>1 DEF RoundOk
  <2>3. it[p] \in Nat
    BY <1>0, <1>1 DEF VarsOk
  <2> QED  BY <2>1, <2>2, <2>3, BoundAssumption
<1>7. have \in [RadProc -> [FieldSet -> 0 .. RoundBound]]
  BY <1>0 DEF VarsOk
<1>8. /\ have' \in [RadProc -> [FieldSet -> 0 .. RoundBound]]
      /\ \A q \in RadProc : q # p => have'[q] = have[q]
      /\ have'[p] = [have[p] EXCEPT ![w] = it[p]]
  <2>1. have' = [have EXCEPT ![p] = [have[p] EXCEPT ![w] = it[p]]]
    BY <1>1, <1>4
  <2>2. [have[p] EXCEPT ![w] = it[p]] \in [FieldSet -> 0 .. RoundBound]
    <3>1. have[p] \in [FieldSet -> 0 .. RoundBound]
      BY <1>1, <1>7
    <3> QED  BY <1>3, <1>6, <3>1
  <2> QED  BY <1>1, <1>7, <2>1, <2>2
<1>9. pending \in [RadProc -> [FieldSet -> {0, 1}]]
  BY <1>0 DEF VarsOk
<1>10. pending[p] \in [FieldSet -> {0, 1}] /\ pending[p][w] = 1
  <2>1. pending[p] \in [FieldSet -> {0, 1}]
    BY <1>1, <1>9
  <2>2. pending[p][w] \in {0, 1}
    BY <1>3, <2>1
  <2> QED  BY <1>e, <2>1, <2>2
<1>11. /\ pending' \in [RadProc -> [FieldSet -> {0, 1}]]
       /\ \A q \in RadProc : q # p => pending'[q] = pending[q]
       /\ pending'[p] = [pending[p] EXCEPT ![w] = 0]
  <2>1. pending' = [pending EXCEPT ![p] = [pending[p] EXCEPT ![w] = 0]]
    BY <1>1, <1>10
  <2>2. [pending[p] EXCEPT ![w] = 0] \in [FieldSet -> {0, 1}]
    BY <1>3, <1>10
  <2> QED  BY <1>1, <1>9, <2>1, <2>2
<1>12. PICK P : P = pending'[p]
  OBVIOUS
<1>13. P[w] = 0 /\ \A f \in FieldSet : f # w => P[f] = pending[p][f]
  BY <1>3, <1>10, <1>11, <1>12
<1>14. DOMAIN chan = Links
  BY <1>0 DEF VarsOk
<1>15. /\ DOMAIN chan' = Links /\ chan'[<<s, p>>] = RemoveAt(chan[<<s, p>>], i)
       /\ \A l \in Links : l # <<s, p>> => chan'[l] = chan[l]
  <2>1. chan' = [chan EXCEPT ![<<s, p>>] = RemoveAt(@, i)]
    BY <1>1 DEF Take
  <2> QED  BY <1>3, <1>14, <2>1
<1>16. \A q \in Proc : Made(q)' = Made(q)
  BY <1>1 DEF Made
<1>17. VarsOk'
  <2>1. flag' \in [Proc -> {0, 1}] /\ obeyed' \in [RadProc -> Nat] /\ ip' \in [Proc -> Nat]
    BY <1>0, <1>1 DEF VarsOk
  <2>2. \A q \in Proc : ip'[q] \in 1 .. Len(ScriptTable[q][segment'[q]]) + 1
    BY <1>0, <1>1 DEF VarsOk
  <2> QED  BY <1>0, <1>1, <1>8, <1>11, <1>15, <2>1, <2>2, VarsSame
<1>18. \A q \in Proc : q # p => Quiet(q)
  BY <1>1, <1>8, <1>11, <1>16 DEF Quiet
<1>19. Ext(S, S) /\ PlanOk' /\ VerdictsOk(S)'
  BY <1>1, SameExt
<1>20. Round(p)' = Round(p) /\ Phase(p)' = Phase(p)
  BY <1>1, MomentSame
<1>21. ASSUME NEW y \in Proc, <<p, y>> \in Links PROVE LinkOk(S, p, y)'
  <2>1. p # y
    BY <1>21, LinksAre
  <2>2. Quiet(y)
    BY <1>18, <2>1
  <2>3. <<p, y>> # <<s, p>>
    BY <2>1
  <2>4. chan'[<<p, y>>] = chan[<<p, y>>]
    BY <1>15, <1>21, <2>3
  <2>5. \A e \in Events(S, p, y) : Now(p, e) => (Given(p, y, e)' <=> Given(p, y, e))
    BY <1>16 DEF Given
  <2>6. SentSet(S, p, y)' = SentSet(S, p, y)
    BY <1>19, <1>20, <2>5, SentSame
  <2> QED  BY <1>19, <1>21, <2>2, <2>4, <2>6, OutKept
<1>22. ASSUME NEW y \in Proc, NEW e \in Events(S, y, p), Now(p, e)
       PROVE  Taken(y, p, e)' <=> Taken(y, p, e) \/ (y = s /\ e = x)
  <2>1. PICK r : r = Op("recv", y, e[3], e[4])
    OBVIOUS
  <2>2. PICK z : z = Op("post", y, 0, "")
    OBVIOUS
  <2>3. Taken(y, p, e)' <=> \/ r \in Made(p)
                            \/ /\ Posts(SegOf(e[2]), y, p, e[3], e[4]) /\ z \in Made(p)
                               /\ P[e[4]] = 0
    BY <1>12, <1>16, <2>1, <2>2 DEF Taken
  <2>4. Taken(y, p, e) <=> \/ r \in Made(p)
                           \/ /\ Posts(SegOf(e[2]), y, p, e[3], e[4]) /\ z \in Made(p)
                              /\ pending[p][e[4]] = 0
    BY <2>1, <2>2 DEF Taken
  <2>5. e \in Event /\ x \in Event
    BY <1>3 DEF Events
  <2>6. CASE e = x
    <3>1. SegOf(e[2]) = segment[p]
      <4>1. segment[p] \in {"exchange", "fields", "picard"}
        BY <1>3
      <4> QED  BY <1>22, <4>1, PhaseIs DEF Now
    <3>2. CASE y = s
      BY <1>3, <1>13, <2>2, <2>3, <2>6, <3>1, <3>2
    <3>3. CASE y # s
      <4>1. ~Posts(SegOf(e[2]), y, p, e[3], e[4])
        BY <1>a, <3>3, PostsIs
      <4> QED  BY <2>3, <2>4, <3>3, <4>1
    <3> QED  BY <3>2, <3>3
  <2>7. CASE e # x
    <3>1. SUFFICES ASSUME Posts(SegOf(e[2]), y, p, e[3], e[4]) PROVE P[e[4]] = 0 <=> pending[p][e[4]] = 0
      BY <2>3, <2>4, <2>7
    <3>2. PICK l \in DOMAIN Fields : e[3] = FieldTag(l) /\ e[4] = Fields[l]
      BY <3>1, PostsIs
    <3>3. e[4] \in FieldSet
      BY <3>2, FieldsAre
    <3>4. e[4] # w
      <4>1. SUFFICES ASSUME e[4] = w PROVE FALSE
        OBVIOUS
      <4>2. l = k
        BY <1>a, <3>2, <4>1, FieldsAre
      <4>3. e[3] = t
        BY <1>a, <3>2, <4>2
      <4>4. e[1] = Round(p) /\ e[2] = Phase(p) /\ x[1] = Round(p) /\ x[2] = Phase(p)
        BY <1>3, <1>22 DEF Now
      <4>5. e[1] = x[1] /\ e[2] = x[2] /\ e[3] = x[3] /\ e[4] = x[4]
        BY <1>3, <4>1, <4>3, <4>4
      <4>6. e = x
        BY <2>5, <4>5 DEF Event
      <4> QED  BY <2>7, <4>6
    <3> QED  BY <1>13, <3>3, <3>4
  <2> QED  BY <2>6, <2>7
<1>23. ASSUME NEW y \in Proc, <<y, p>> \in Links PROVE LinkOk(S, y, p)'
  <2>1. p # y
    BY <1>23, LinksAre
  <2>2. Quiet(y)
    BY <1>18, <2>1
  <2>3. CASE y = s
    <3>1. \A e \in Events(S, s, p) : Now(p, e) => (Taken(s, p, e)' <=> Taken(s, p, e) \/ e = x)
      BY <1>3, <1>22
    <3>2. GotSet(S, s, p)' = GotSet(S, s, p) \cup {x}
      <4>1. x \in Events(S, s, p) /\ Now(p, x) /\ s \in Proc
        BY <1>3
      <4>2. Ext(S, S)
        BY <1>19
      <4> QED  BY <1>20, <3>1, <4>1, <4>2, GotOne
    <3>3. LinkOk(S, s, p)'
      BY <1>3, <1>4, <1>15, <1>19, <2>2, <2>3, <3>2, TakeLink
    <3> QED  BY <2>3, <3>3
  <2>4. CASE y # s
    <3>1. chan'[<<y, p>>] = chan[<<y, p>>]
      BY <1>15, <1>23, <2>4
    <3>2. \A e \in Events(S, y, p) : Now(p, e) => (Taken(y, p, e)' <=> Taken(y, p, e))
      BY <1>22, <2>4
    <3>3. GotSet(S, y, p)' = GotSet(S, y, p)
      BY <1>19, <1>20, <3>2, GotSame
    <3> QED  BY <1>19, <1>23, <2>2, <3>1, <3>3, InKept
  <2> QED  BY <2>3, <2>4
<1>24. ASSUME NEW y \in Proc, NEW d \in Proc, <<y, d>> \in Links, y # p, d # p
       PROVE  chan'[<<y, d>>] = chan[<<y, d>>]
  BY <1>15, <1>24
<1>25. p \notin JupiterProc
  BY <1>1, ProcIs
<1>26. RoundOk(S, p)'
  BY <1>0, <1>1, <1>3, <1>5, SameLength, RoundSame
<1>27. IterationOk(S, p)'
  <2>1. ~(segment[p] = "picard") /\ segment'[p] # "picard"
    BY <1>1, <1>3
  <2> QED  BY <1>1, <1>5, <2>1 DEF IterationOk
<1>28. HaveOk(p)'
  <2>1. PICK h : h = have'[p]
    OBVIOUS
  <2>2. h[w] = it[p] /\ \A f \in FieldSet : f # w => h[f] = have[p][f]
    <3>1. have[p] \in [FieldSet -> 0 .. RoundBound]
      BY <1>1, <1>7
    <3> QED  BY <1>3, <1>8, <2>1, <3>1
  <2>3. ASSUME NEW y, NEW u, NEW f, AField(u, f),
               \/ Op("recv", y, u, f) \in Made(p)
               \/ MasterSlave(y, p) /\ Op("post", y, 0, "") \in Made(p) /\ P[f] = 0
        PROVE  h[f] = it[p]
    <3>1. f \in FieldSet
      BY <2>3, AFieldIs
    <3>2. CASE f = w
      BY <2>2, <3>2
    <3>3. CASE f # w
      <4>1. P[f] = pending[p][f]
        BY <1>13, <3>1, <3>3
      <4>2. have[p][f] = it[p]
        BY <1>3, <1>5, <2>3, <4>1 DEF HaveOk
      <4> QED  BY <2>2, <3>1, <3>3, <4>2
    <3> QED  BY <3>2, <3>3
  <2>4. segment'[p] = "fields"
    BY <1>1, <1>3
  <2>5. (\A y, u, f : /\ AField(u, f)
                      /\ \/ Op("recv", y, u, f) \in Made(p)
                         \/ /\ MasterSlave(y, p) /\ Op("post", y, 0, "") \in Made(p)
                            /\ pending[p][f] = 0
                      => have[p][f] = it[p])'
    BY <1>1, <1>12, <1>16, <2>1, <2>3
  <2> QED  BY <2>4, <2>5 DEF HaveOk
<1>29. PostedOk(p)'
  <2>1. (\A f \in FieldSet : pending[p][f] # 0 =>
          /\ segment[p] = "fields" /\ MasterSlave(Rad(master_lat(myrank(p))), p)
          /\ Op("post", Rad(master_lat(myrank(p))), 0, "") \in Made(p)
          /\ Op("waitlast", Rad(master_lat(myrank(p))), 0, "") \notin Made(p))'
    BY <1>1, <1>3, <1>a, <1>16
  <2>2. ASSUME NEW j \in DOMAIN Fields, NEW l \in DOMAIN Fields, j < l, P[Fields[l]] = 0
        PROVE  P[Fields[j]] = 0
    <3>1. Fields[j] \in FieldSet /\ Fields[l] \in FieldSet
      BY FieldsAre
    <3>2. CASE l = k
      <4>1. j \in 1 .. k - 1
        <5>1. PICK n \in Nat : DOMAIN Fields = 1 .. n
          BY FieldsAre
        <5>2. j \in 1 .. n /\ k \in 1 .. n /\ j < k
          BY <2>2, <3>2, <5>1
        <5> QED  BY <5>2
      <4>2. pending[p][Fields[j]] < 1
        BY <1>1, <1>10, <4>1
      <4>3. pending[p][Fields[j]] \in {0, 1}
        BY <1>10, <3>1
      <4>4. pending[p][Fields[j]] = 0
        BY <4>2, <4>3
      <4> QED  BY <1>13, <3>1, <4>4
    <3>3. CASE l # k
      <4>1. Fields[l] # w
        BY <1>a, <3>3, FieldsAre
      <4>2. pending[p][Fields[l]] = 0
        BY <1>13, <2>2, <3>1, <4>1
      <4>3. pending[p][Fields[j]] = 0
        BY <1>5, <2>2, <4>2 DEF PostedOk
      <4> QED  BY <1>13, <3>1, <4>3
    <3> QED  BY <3>2, <3>3
  <2>3. (\A j, l \in DOMAIN Fields : j < l /\ pending[p][Fields[l]] = 0 => pending[p][Fields[j]] = 0)'
    BY <1>12, <2>2
  <2> QED  BY <2>1, <2>3 DEF PostedOk
<1> QED  BY <1>1, <1>17, <1>18, <1>19, <1>21, <1>23, <1>24, <1>25, <1>26, <1>27, <1>28, <1>29, Moved

\* Judge.
LEMMA JudgeCur ==
    ASSUME NEW S, Inv(S), NEW p \in Proc, At(p, "judge")
    PROVE  /\ p \in RadProc /\ segment[p] = "picard" /\ p = Rad(0)
           /\ Cur(p) = Op("judge", 0, 0, "") /\ Cur(p).kind = "judge"
           /\ ~Finished(p) /\ Active(Cur(p)) /\ ~Heard(p)
<1>0. VarsOk
  BY DEF Inv
<1>1. PICK x : x = Cur(p).peer
  OBVIOUS
<1>2. PICK t : t = Cur(p).tag
  OBVIOUS
<1>3. PICK w : w = Cur(p).what
  OBVIOUS
<1>4. PICK k : k = "judge"
  OBVIOUS
<1>5. k # "wait" /\ At(p, k)
  BY <1>4
<1>6. /\ Cur(p) = Op(k, Cur(p).peer, Cur(p).tag, Cur(p).what) /\ Has(Ops(p), Cur(p))
      /\ Cur(p) \notin Made(p) /\ ~Finished(p) /\ Active(Cur(p)) /\ Cur(p).kind = k
  BY <1>0, <1>5, CurIs
<1>7. Has(Ops(p), Op("judge", x, t, w)) /\ Cur(p) = Op("judge", x, t, w)
  BY <1>1, <1>2, <1>3, <1>4, <1>6
<1>8. segment[p] = "picard" /\ p = Rad(0) /\ x = 0 /\ t = 0 /\ w = ""
  <2>1. segment[p] \in Segments
    BY <1>0, OpsAre
  <2>2. Faithful(p, segment[p], Ops(p))
    BY <2>1, ScriptFaithful DEF Ops
  <2>3. Has(Ops(p), Op("judge", x, t, w)) => segment[p] = "picard" /\ p = Rad(0) /\ x = 0 /\ t = 0 /\ w = ""
    BY <2>2, Zenon DEF Faithful
  <2> QED  BY <1>7, <2>3
<1>9. p \in RadProc
  BY <1>8, PhaseIs
<1>10. Cur(p) = Op("judge", 0, 0, "")
  BY <1>7, <1>8
<1>11. ~Heard(p)
  <2>1. Op("judge", 0, 0, "") \notin Made(p)
    BY <1>6, <1>10
  <2>2. Op("recv", Rad(0), 10, "iexit") \notin Made(p)
    <3>1. SUFFICES ASSUME Op("recv", Rad(0), 10, "iexit") \in Made(p) PROVE FALSE
      OBVIOUS
    <3>2. PICK r : r = Rad(0)
      OBVIOUS
    <3>3. PICK v : v = "iexit"
      OBVIOUS
    <3>4. Has(Ops(p), Op("recv", r, 10, v))
      BY <1>0, <3>1, <3>2, <3>3, MadeNow
    <3>5. Sends(r, segment[p], p, 10, v)
      BY <1>0, <3>4, RecvCall
    <3>6. r \in Proc /\ r = p
      BY <1>8, <3>2
    <3> QED  BY <3>5, <3>6, LinksAre
  <2> QED  BY <2>1, <2>2 DEF Heard
<1> QED  BY <1>4, <1>6, <1>8, <1>9, <1>10, <1>11

\* A verdict is given in the last round.
LEMMA JudgedRound ==
    ASSUME NEW S, VerdictsOk(S), NEW n \in Nat, n >= 1, n <= Len(S), NEW k \in Nat,
           k >= 1, k <= PicardMax, Len(verdicts) = S[n] + k - 1,
           \A j \in 1 .. k - 1 : verdicts[S[n] + j] = 0
    PROVE  n = Len(S)
<1>0. PicardMax \in Nat \ {0}
  BY BoundAssumption
<1>1. PICK V, l \in Nat :
              /\ V = Len(verdicts) /\ l = Len(S) /\ l >= 1 /\ S[1] = 0
              /\ \A i \in 1 .. V : verdicts[i] \in {0, 1}
              /\ \A m \in 1 .. l : S[m] \in Nat /\ S[m] <= V
              /\ \A m \in 1 .. l : m < l =>
                   /\ S[m] < S[m + 1] /\ S[m + 1] <= S[m] + PicardMax
                   /\ \A j \in S[m] + 1 .. S[m + 1] - 1 : verdicts[j] = 0
                   /\ verdicts[S[m + 1]] = 1 \/ S[m + 1] = S[m] + PicardMax
              /\ \A j \in S[l] + 1 .. V : verdicts[j] = 0
              /\ V < S[l] + PicardMax
  BY VerdictsAre
<1>3. n \in 1 .. l
  BY <1>1
<1>4. PICK a \in Nat : a = S[n]
  BY <1>1, <1>3
<1>5. V = a + k - 1
  BY <1>1, <1>4
<1>6. n = l
  <2>1. SUFFICES ASSUME n < l PROVE FALSE
    BY <1>1, <1>3
  <2>2. n + 1 \in 1 .. l
    BY <1>3, <2>1
  <2>3. PICK b \in Nat : b = S[n + 1] /\ b <= V
    BY <1>1, <2>2
  <2>4. a < b /\ (verdicts[b] = 1 \/ b = a + PicardMax)
    BY <1>1, <1>3, <1>4, <2>1, <2>3
  <2>5. PICK j \in 1 .. k - 1 : b = a + j
    <3>1. a < b /\ b <= a + k - 1
      BY <1>5, <2>3, <2>4
    <3>2. PICK j \in Int : j = b - a
      OBVIOUS
    <3>3. j \in 1 .. k - 1 /\ b = a + j
      BY <3>1, <3>2
    <3> QED  BY <3>3
  <2>6. verdicts[b] = 0
    BY <1>4, <2>5
  <2>7. b # a + PicardMax
    BY <1>0, <2>5
  <2> QED  BY <2>4, <2>6, <2>7
<1> QED  BY <1>1, <1>6

\* The verdict ends the round, or it is one more of the same round.
LEMMA JudgeRounds ==
    ASSUME NEW S, VerdictsOk(S), NEW v \in {0, 1}, verdicts' = Append(verdicts, v),
           plan' = plan, plan \in Seq({0, 1}), NEW n \in Nat, n >= 1, n <= Len(S), NEW k \in Nat,
           k >= 1, k <= PicardMax, Len(verdicts) = S[n] + k - 1,
           \A j \in 1 .. k - 1 : verdicts[S[n] + j] = 0
    PROVE  /\ \E T : Ext(S, T) /\ VerdictsOk(T)'
           /\ verdicts'[S[n] + k] = v /\ Len(verdicts') = S[n] + k /\ S[n] \in Nat
           /\ \A j \in 1 .. k - 1 : verdicts'[S[n] + j] = 0
<1>0. PicardMax \in Nat \ {0}
  BY BoundAssumption
<1>1. PICK V, l \in Nat :
              /\ V = Len(verdicts) /\ l = Len(S) /\ l >= 1 /\ S[1] = 0
              /\ \A i \in 1 .. V : verdicts[i] \in {0, 1}
              /\ \A m \in 1 .. l : S[m] \in Nat /\ S[m] <= V
              /\ \A m \in 1 .. l : m < l =>
                   /\ S[m] < S[m + 1] /\ S[m + 1] <= S[m] + PicardMax
                   /\ \A j \in S[m] + 1 .. S[m + 1] - 1 : verdicts[j] = 0
                   /\ verdicts[S[m + 1]] = 1 \/ S[m + 1] = S[m] + PicardMax
              /\ \A j \in S[l] + 1 .. V : verdicts[j] = 0
              /\ V < S[l] + PicardMax
  BY VerdictsAre
<1>2. verdicts \in Seq({0, 1}) /\ S \in Seq(Nat)
  BY DEF VerdictsOk
<1>3. n \in 1 .. l
  BY <1>1
<1>4. PICK a \in Nat : a = S[n]
  BY <1>1, <1>3
<1>5. V = a + k - 1
  BY <1>1, <1>4
<1>6. n = l
  <2>1. /\ VerdictsOk(S) /\ n >= 1 /\ n <= Len(S) /\ k >= 1 /\ k <= PicardMax
        /\ Len(verdicts) = S[n] + k - 1 /\ \A j \in 1 .. k - 1 : verdicts[S[n] + j] = 0
    OBVIOUS
  <2>2. n = Len(S)
    BY ONLY <2>1, n \in Nat, k \in Nat, JudgedRound
  <2> QED  BY <1>1, <2>2
<1>7. PICK w : w = verdicts'
  OBVIOUS
<1>8. /\ w \in Seq({0, 1}) /\ Len(w) = V + 1 /\ w[V + 1] = v
      /\ \A i \in 1 .. V : w[i] = verdicts[i]
  BY <1>1, <1>2, <1>7
<1>9. Extends(verdicts, w) /\ Extends(plan, plan)
  <2>1. Len(verdicts) <= Len(w) /\ \A i \in 1 .. Len(verdicts) : w[i] = verdicts[i]
    BY <1>1, <1>8
  <2>2. Len(plan) <= Len(plan)
    OBVIOUS
  <2> QED  BY <2>1, <2>2 DEF Extends
<1>10. V + 1 = a + k
  BY <1>5
<1>11. \A j \in a + 1 .. V : w[j] = 0
  <2>1. ASSUME NEW j \in a + 1 .. V PROVE w[j] = 0
    <3>1. verdicts[j] = 0
      BY <1>1, <1>4, <1>6, <2>1
    <3>2. j \in 1 .. V
      BY <1>4, <2>1
    <3> QED  BY <1>8, <3>1, <3>2
  <2> QED  BY <2>1
<1>12. \A m \in 1 .. l : m < l =>
                   /\ S[m] < S[m + 1] /\ S[m + 1] <= S[m] + PicardMax
                   /\ \A j \in S[m] + 1 .. S[m + 1] - 1 : w[j] = 0
                   /\ w[S[m + 1]] = 1 \/ S[m + 1] = S[m] + PicardMax
  <2>1. ASSUME NEW m \in 1 .. l, m < l
        PROVE  /\ S[m] < S[m + 1] /\ S[m + 1] <= S[m] + PicardMax
               /\ \A j \in S[m] + 1 .. S[m + 1] - 1 : w[j] = 0
               /\ w[S[m + 1]] = 1 \/ S[m + 1] = S[m] + PicardMax
    <3>1. m + 1 \in 1 .. l
      BY <2>1
    <3>2. PICK b, c \in Nat : b = S[m] /\ c = S[m + 1] /\ b <= V /\ c <= V
      BY <1>1, <3>1
    <3>3. /\ b < c /\ c <= b + PicardMax
          /\ \A j \in b + 1 .. c - 1 : verdicts[j] = 0
          /\ verdicts[c] = 1 \/ c = b + PicardMax
      BY <1>1, <2>1, <3>2
    <3>4. c \in 1 .. V
      BY <3>2, <3>3
    <3>5. \A j \in b + 1 .. c - 1 : j \in 1 .. V
      <4>1. c <= V
        BY <3>2
      <4> QED  BY <4>1
    <3>6. \A j \in b + 1 .. c - 1 : w[j] = 0
      BY <1>8, <3>3, <3>5
    <3>7. w[c] = 1 \/ c = b + PicardMax
      BY <1>8, <3>3, <3>4
    <3> QED  BY <3>2, <3>3, <3>6, <3>7
  <2> QED  BY <2>1
<1>13. \E T : Ext(S, T) /\ VerdictsOk(T)'
  <2>1. CASE v = 1 \/ k = PicardMax
    <3>1. PICK T : T = Append(S, V + 1)
      OBVIOUS
    <3>2. /\ T \in Seq(Nat) /\ Len(T) = l + 1 /\ T[l + 1] = V + 1
          /\ \A i \in 1 .. l : T[i] = S[i]
      BY <1>1, <1>2, <3>1
    <3>3. Extends(S, T)
      <4>1. Len(S) <= Len(T) /\ \A i \in 1 .. Len(S) : T[i] = S[i]
        BY <1>1, <3>2
      <4> QED  BY <4>1 DEF Extends
    <3>4. Ext(S, T)
      BY <1>7, <1>8, <1>9, <3>2, <3>3 DEF Ext
    <3>5. Len(T) >= 1 /\ T[1] = 0
      BY <1>1, <3>2
    <3>6. \A m \in 1 .. l + 1 : T[m] <= V + 1
      <4>1. ASSUME NEW m \in 1 .. l + 1 PROVE T[m] <= V + 1
        <5>1. CASE m = l + 1
          BY <3>2, <5>1
        <5>2. CASE m \in 1 .. l
          <6>1. PICK b \in Nat : b = S[m] /\ b <= V
            BY <1>1, <5>2
          <6> QED  BY <3>2, <5>2, <6>1
        <5>3. m = l + 1 \/ m \in 1 .. l
          BY <1>1
        <5> QED  BY <5>1, <5>2, <5>3
      <4> QED  BY <4>1
    <3>7. \A m \in 1 .. l :
                   /\ T[m] < T[m + 1] /\ T[m + 1] <= T[m] + PicardMax
                   /\ \A j \in T[m] + 1 .. T[m + 1] - 1 : w[j] = 0
                   /\ w[T[m + 1]] = 1 \/ T[m + 1] = T[m] + PicardMax
      <4>1. ASSUME NEW m \in 1 .. l
            PROVE  /\ T[m] < T[m + 1] /\ T[m + 1] <= T[m] + PicardMax
                   /\ \A j \in T[m] + 1 .. T[m + 1] - 1 : w[j] = 0
                   /\ w[T[m + 1]] = 1 \/ T[m + 1] = T[m] + PicardMax
        <5>1. CASE m < l
          <6>1. T[m] = S[m] /\ T[m + 1] = S[m + 1]
            BY <3>2, <5>1
          <6> QED  BY <1>12, <5>1, <6>1
        <5>2. CASE m = l
          <6>1. T[m] = a /\ T[m + 1] = V + 1
            BY <1>4, <1>6, <3>2, <5>2
          <6>2. a < V + 1 /\ V + 1 <= a + PicardMax
            BY <1>0, <1>10
          <6>3. \A j \in a + 1 .. V + 1 - 1 : w[j] = 0
            BY <1>11
          <6>4. w[V + 1] = 1 \/ V + 1 = a + PicardMax
            BY <1>8, <1>10, <2>1
          <6> QED  BY <6>1, <6>2, <6>3, <6>4
        <5> QED  BY <5>1, <5>2
      <4> QED  BY <4>1
    <3>8. \A j \in T[l + 1] + 1 .. V + 1 : w[j] = 0
      BY <3>2
    <3>9. V + 1 < T[l + 1] + PicardMax
      BY <1>0, <3>2
    <3>10. l + 1 - 1 = l
      OBVIOUS
    <3>11. VerdictsOk(T)'
      <4>1. w \in Seq({0, 1}) /\ T \in Seq(Nat) /\ Len(T) >= 1 /\ T[1] = 0
        BY <1>8, <3>2, <3>5
      <4>2. \A m \in 1 .. Len(T) : T[m] <= Len(w)
        BY <1>8, <3>2, <3>6
      <4>3. \A m \in 1 .. Len(T) - 1 :
                   /\ T[m] < T[m + 1] /\ T[m + 1] <= T[m] + PicardMax
                   /\ \A j \in T[m] + 1 .. T[m + 1] - 1 : w[j] = 0
                   /\ w[T[m + 1]] = 1 \/ T[m + 1] = T[m] + PicardMax
        <5>1. Len(T) - 1 = l
          BY <3>2
        <5> QED  BY <3>7, <5>1
      <4>4. (\A j \in T[Len(T)] + 1 .. Len(w) : w[j] = 0) /\ Len(w) < T[Len(T)] + PicardMax
        <5>1. Len(T) = l + 1 /\ Len(w) = V + 1
          BY <1>8, <3>2
        <5> QED  BY <3>8, <3>9, <5>1
      <4> QED  BY <1>7, <4>1, <4>2, <4>3, <4>4 DEF VerdictsOk
    <3> QED  BY <3>4, <3>11
  <2>2. CASE v = 0 /\ k # PicardMax
    <3>1. Extends(S, S)
      <4>1. Len(S) <= Len(S)
        BY <1>1
      <4> QED  BY <4>1 DEF Extends
    <3>2. Ext(S, S)
      BY <1>2, <1>7, <1>8, <1>9, <3>1 DEF Ext
    <3>3. \A m \in 1 .. l : S[m] <= V + 1
      BY <1>1
    <3>4. \A m \in 1 .. l - 1 : m \in 1 .. l /\ m < l
      BY <1>1
    <3>5. \A j \in S[l] + 1 .. V + 1 : w[j] = 0
      <4>1. ASSUME NEW j \in a + 1 .. V + 1 PROVE w[j] = 0
        <5>1. CASE j = V + 1
          BY <1>8, <2>2, <5>1
        <5>2. CASE j \in a + 1 .. V
          BY <1>11, <5>2
        <5> QED  BY <4>1, <5>1, <5>2
      <4> QED  BY <1>4, <1>6, <4>1
    <3>6. V + 1 < S[l] + PicardMax
      BY <1>0, <1>4, <1>6, <1>10, <2>2
    <3>7. \A m \in 1 .. l - 1 :
                   /\ S[m] < S[m + 1] /\ S[m + 1] <= S[m] + PicardMax
                   /\ \A j \in S[m] + 1 .. S[m + 1] - 1 : w[j] = 0
                   /\ w[S[m + 1]] = 1 \/ S[m + 1] = S[m] + PicardMax
      BY <1>12, <3>4
    <3>8. Len(w) = V + 1 /\ Len(S) = l /\ l >= 1 /\ S[1] = 0
      BY <1>1, <1>8
    <3>9. VerdictsOk(S)'
      BY <1>2, <1>7, <1>8, <3>3, <3>5, <3>6, <3>7, <3>8 DEF VerdictsOk
    <3> QED  BY <3>2, <3>9
  <2> QED  BY <2>1, <2>2
<1>14. \A j \in 1 .. k - 1 : w[a + j] = 0
  <2>1. \A j \in 1 .. k - 1 : a + j \in a + 1 .. V
    BY <1>10
  <2> QED  BY <1>11, <2>1
<1> QED  BY <1>4, <1>7, <1>8, <1>10, <1>13, <1>14

LEMMA JudgeKeeps ==
    ASSUME NEW S, Inv(S), NEW p \in Proc, Judge(p)
    PROVE  \E T : Ext(S, T) /\ Inv(T)'
<1>0. VarsOk
  BY DEF Inv
<1>1. /\ At(p, "judge") /\ Step(p) /\ chan' = chan
      /\ eager' = eager /\ plan' = plan /\ at' = at /\ segment' = segment /\ it' = it
      /\ picard' = picard /\ pending' = pending /\ have' = have
      /\ obeyed' = [obeyed EXCEPT ![p] = @ + 1]
  BY DEF Judge, jupiter
<1>2. PICK v \in {0, 1} : flag' = [flag EXCEPT ![p] = v] /\ verdicts' = Append(verdicts, v)
  BY DEF Judge
<1>3. /\ p \in RadProc /\ segment[p] = "picard" /\ p = Rad(0)
      /\ Cur(p) = Op("judge", 0, 0, "") /\ Cur(p).kind = "judge"
      /\ ~Finished(p) /\ Active(Cur(p)) /\ ~Heard(p)
  BY <1>1, JudgeCur
<1>4. p \in RadProc /\ segment[p] = "picard" /\ ~Finished(p) /\ Active(Cur(p))
  BY <1>3
<1>5. /\ flag \in [Proc -> {0, 1}] /\ obeyed \in [RadProc -> Nat]
      /\ it \in [RadProc -> Nat] /\ picard \in [RadProc -> Nat]
  BY <1>0 DEF VarsOk
<1>6. /\ flag' \in [Proc -> {0, 1}] /\ obeyed' \in [RadProc -> Nat]
      /\ flag'[p] = v /\ obeyed'[p] = obeyed[p] + 1
      /\ \A q \in Proc : q # p => flag'[q] = flag[q]
      /\ \A q \in RadProc : q # p => obeyed'[q] = obeyed[q]
  BY <1>1, <1>2, <1>4, <1>5
<1>7. Staying
  BY <1>1 DEF Staying
<1>8. OthersSame(p)
  BY <1>1, <1>6 DEF OthersSame
<1>9. Typed
  BY <1>0, <1>1, <1>6 DEF Typed, VarsOk
<1>10. /\ VarsOk' /\ (\A q \in Proc : q # p => Quiet(q))
       /\ Made(p)' = Made(p) \cup {Cur(p)}
  BY <1>0, <1>1, <1>4, <1>7, <1>8, <1>9, CallQuiet
<1>11. RoundOk(S, p) /\ IterationOk(S, p) /\ HaveOk(p) /\ PostedOk(p) /\ PlanOk /\ VerdictsOk(S)
  BY <1>4 DEF Inv
<1>12. PICK n \in Nat, k \in Nat : n = it[p] /\ k = picard[p]
  BY <1>4, <1>5
<1>13. /\ n >= 1 /\ n <= Len(S) /\ k >= 1 /\ k <= PicardMax
       /\ obeyed[p] = S[n] + k - 1 /\ obeyed[p] = Len(verdicts)
       /\ \A j \in 1 .. k - 1 : verdicts[S[n] + j] = 0
  <2>1. n >= 1 /\ n <= Len(S)
    BY <1>11, <1>12 DEF RoundOk
  <2>2. /\ k >= 1 /\ k <= PicardMax /\ obeyed[p] = S[n] + k - 1
        /\ \A j \in 1 .. k - 1 : verdicts[S[n] + j] = 0
    BY <1>3, <1>11, <1>12 DEF IterationOk
  <2>3. obeyed[p] = Len(verdicts)
    BY <1>3, <1>11 DEF IterationOk
  <2> QED  BY <2>1, <2>2, <2>3
<1>14. plan \in Seq({0, 1})
  BY <1>11 DEF PlanOk
<1>15. Len(verdicts) = S[n] + k - 1
  BY <1>13
<1>16. /\ \E T : Ext(S, T) /\ VerdictsOk(T)'
       /\ verdicts'[S[n] + k] = v /\ Len(verdicts') = S[n] + k /\ S[n] \in Nat
       /\ \A j \in 1 .. k - 1 : verdicts'[S[n] + j] = 0
  <2>1. VerdictsOk(S) /\ plan' = plan /\ verdicts' = Append(verdicts, v)
    BY <1>1, <1>2, <1>11
  <2>2. n >= 1 /\ n <= Len(S) /\ k >= 1 /\ k <= PicardMax /\ \A j \in 1 .. k - 1 : verdicts[S[n] + j] = 0
    BY <1>13
  <2> QED  BY ONLY <2>1, <2>2, <1>14, <1>15, n \in Nat, k \in Nat, v \in {0, 1}, JudgeRounds, SMTT(20)
<1>17. PICK T : Ext(S, T) /\ VerdictsOk(T)'
  BY <1>16
<1>18. PlanOk'
  BY <1>1, <1>11 DEF PlanOk
<1>19. Round(p)' = Round(p) /\ Phase(p)' = Phase(p)
  BY <1>1, MomentSame
<1>20. PICK o : o = Cur(p)
  OBVIOUS
<1>21. /\ Made(p)' \subseteq Made(p) \cup {o} /\ Made(p) \subseteq Made(p)'
       /\ o.kind \notin {"recv", "post", "send", "waitlast"}
  BY <1>3, <1>10, <1>20
<1>22. \A x \in Proc : SentSet(T, p, x)' = SentSet(S, p, x)
  <2>1. ASSUME NEW x \in Proc PROVE SentSet(T, p, x)' = SentSet(S, p, x)
    <3>1. \A e \in Events(S, p, x) : Now(p, e) => (Given(p, x, e)' <=> Given(p, x, e))
      BY <1>21, GivenSame
    <3> QED  BY <1>17, <1>19, <3>1, SentSame
  <2> QED  BY <2>1
<1>23. \A x \in Proc : GotSet(T, x, p)' = GotSet(S, x, p)
  <2>1. ASSUME NEW x \in Proc PROVE GotSet(T, x, p)' = GotSet(S, x, p)
    <3>1. \A e \in Events(S, x, p) : Now(p, e) => (Taken(x, p, e)' <=> Taken(x, p, e))
      BY <1>1, <1>21, TakenSame
    <3> QED  BY <1>17, <1>19, <3>1, GotSame
  <2> QED  BY <2>1
<1>24. /\ \A x \in Proc : <<p, x>> \in Links => LinkOk(T, p, x)'
       /\ \A x \in Proc : <<x, p>> \in Links => LinkOk(T, x, p)'
  BY <1>1, <1>10, <1>17, <1>22, <1>23, StillLinks
<1>25. p \notin JupiterProc
  BY <1>4, ProcIs
<1>26. PICK l, ll \in Nat :
              /\ l = Len(S) /\ ll = Len(T) /\ l <= ll
              /\ \A i \in 1 .. l : T[i] = S[i] /\ S[i] \in Nat /\ S[i] <= Len(verdicts)
  BY <1>17, RoundsGrow
<1>27. RoundOk(T, p)'
  <2>1. Len(S) \in Nat /\ Len(T) \in Nat /\ Len(S) <= Len(T)
    BY <1>26
  <2>2. segment[p] # "exchange"
    BY <1>3
  <2> QED  BY <1>0, <1>1, <1>4, <1>11, <2>1, <2>2, RoundSame
<1>28. Heard(p)'
  <2>1. Op("judge", 0, 0, "") \in Made(p)'
    BY <1>3, <1>10
  <2> QED  BY <2>1 DEF Heard
<1>29. T[n] = S[n]
  BY <1>13, <1>26
<1>30. IterationOk(T, p)'
  <2>1. segment'[p] = "picard" /\ picard'[p] = k /\ it'[p] = n
    BY <1>1, <1>3, <1>12
  <2>2. obeyed'[p] = T[n] + k
    BY <1>6, <1>13, <1>16, <1>29
  <2>3. obeyed'[p] = Len(verdicts')
    BY <1>6, <1>13, <1>16
  <2>4. flag'[p] = verdicts'[obeyed'[p]]
    BY <1>6, <1>16, <1>29, <2>2
  <2>5. \A j \in 1 .. k - 1 : verdicts'[T[n] + j] = 0
    BY <1>16, <1>29
  <2>6. Len(verdicts') \in Nat
    BY <1>16
  <2>7. Len(verdicts') <= Len(verdicts')
    BY <2>6
  <2>8. /\ ~(segment'[p] # "picard") /\ picard'[p] >= 1 /\ picard'[p] <= PicardMax
        /\ \A j \in 1 .. picard'[p] - 1 : verdicts'[T[it'[p]] + j] = 0
        /\ obeyed'[p] = T[it'[p]] + picard'[p] /\ flag'[p] = verdicts'[obeyed'[p]]
    BY <1>13, <2>1, <2>2, <2>4, <2>5
  <2>9. obeyed'[p] <= Len(verdicts')
    BY <2>3, <2>7
  <2> QED  BY <1>28, <2>3, <2>8, <2>9 DEF IterationOk
<1>31. HaveOk(p)'
  BY <1>1, <1>3, <1>11 DEF HaveOk
<1>32. PostedOk(p)'
  <2>1. Cur(p).kind # "waitlast"
    BY <1>3
  <2>2. pending'[p] = pending[p]
    BY <1>1
  <2> QED  BY <1>1, <1>10, <1>11, <2>1, <2>2, PostedSame
<1>33. \A s, d \in Proc : <<s, d>> \in Links /\ s # p /\ d # p => chan'[<<s, d>>] = chan[<<s, d>>]
  BY <1>1
<1>34. Inv(T)'
  BY <1>3, <1>4, <1>10, <1>17, <1>18, <1>24, <1>25, <1>27, <1>30, <1>31, <1>32, <1>33, Moved
<1> QED  BY <1>17, <1>34

-------------------------------------------------------------------------------
\* Between segments.  What a process has got when it has finished one.
LEMMA MasterOrSlave ==
    ASSUME NEW p \in RadProc
    PROVE  \/ \E q \in JupiterProc : p = Rad(q) /\ q \in Proc
           \/ MasterSlave(Rad(master_lat(myrank(p))), p)
<1>1. myrank(p) \in RadRank /\ Rad(myrank(p)) = p
  BY RadInt
<1>2. CASE IsMaster(myrank(p))
  <2>1. myrank(p) \in JupiterProc
    BY <1>1, <1>2, SizeAssumption DEF IsMaster, RadRank, JupiterProc
  <2> QED  BY <1>1, <2>1 DEF Proc
<1>3. CASE ~IsMaster(myrank(p))
  <2>1. PICK x \in RadRank : x = myrank(p)
    BY <1>1
  <2>2. MasterSlave(Rad(master_lat(x)), p)
    BY <1>1, <1>3, <2>1 DEF MasterSlave
  <2> QED  BY <2>1, <2>2
<1> QED  BY <1>2, <1>3

LEMMA NothingPending ==
    ASSUME NEW S, Inv(S), NEW p \in RadProc, Finished(p) \/ segment[p] # "fields"
    PROVE  \A f \in FieldSet : pending[p][f] = 0
<1>0. VarsOk /\ p \in Proc /\ PostedOk(p)
  BY ProcIs DEF Inv, Proc
<1>1. ASSUME NEW f \in FieldSet, pending[p][f] # 0 PROVE FALSE
  <2>1. PICK s : s = Rad(master_lat(myrank(p)))
    OBVIOUS
  <2>2. segment[p] = "fields" /\ MasterSlave(s, p) /\ Op("waitlast", s, 0, "") \notin Made(p)
    BY <1>0, <1>1, <2>1 DEF PostedOk
  <2>3. Has(Ops(p), Op("waitlast", s, 0, ""))
    BY <1>0, <2>2, CallsAre
  <2>4. Op("waitlast", s, 0, "") \in Made(p)
    BY <1>0, <2>2, <2>3, MadeNow, OtherStages
  <2> QED  BY <2>2, <2>4
<1> QED  BY <1>1

LEMMA NonePosted ==
    ASSUME NEW p \in RadProc, pending' = pending, \A f \in FieldSet : pending[p][f] = 0
    PROVE  PostedOk(p)'
<1>1. \A f \in FieldSet : pending'[p][f] = 0
  OBVIOUS
<1>2. \A j \in DOMAIN Fields : Fields[j] \in FieldSet
  BY FieldsAre
<1> QED  BY <1>1, <1>2 DEF PostedOk

LEMMA HasBeenReceived ==
    ASSUME VarsOk, NEW p \in Proc, Finished(p), NEW x, NEW t, NEW w,
           Sends(x, segment[p], p, t, w), ~Posts(segment[p], x, p, t, w)
    PROVE  Op("recv", x, t, w) \in Made(p)
<1>1. Has(Ops(p), Op("recv", x, t, w))
  BY RecvCall
<1> QED  BY <1>1, MadeNow, ActiveKinds

LEMMA FlagHeard ==
    ASSUME NEW S, Inv(S), NEW p \in RadProc, segment[p] = "exchange", Finished(p)
    PROVE  it[p] <= Len(plan) /\ flag[p] = plan[it[p]]
<1>0. VarsOk /\ p \in Proc /\ RoundOk(S, p)
  BY ProcIs DEF Inv, Proc
<1>1. \E x, t : Exchanged(x, p, t, "iflg")
  <2>1. ASSUME NEW q \in JupiterProc, p = Rad(q) PROVE Exchanged(q, p, 20, "iflg")
    BY <2>1 DEF Exchanged
  <2>2. ASSUME NEW s, MasterSlave(s, p) PROVE Exchanged(s, p, 10, "iflg")
    BY <2>2 DEF Exchanged
  <2> QED  BY <2>1, <2>2, MasterOrSlave
<1>2. PICK x, t : Exchanged(x, p, t, "iflg")
  BY <1>1
<1>3. PICK w : w = "iflg"
  OBVIOUS
<1>4. Sends(x, segment[p], p, t, w) /\ ~Posts(segment[p], x, p, t, w)
  BY <1>2, <1>3 DEF Sends, Posts
<1>5. Op("recv", x, t, w) \in Made(p)
  BY <1>0, <1>4, HasBeenReceived
<1> QED  BY <1>0, <1>3, <1>5 DEF RoundOk

LEMMA FieldsHeld ==
    ASSUME NEW S, Inv(S), NEW p \in RadProc, segment[p] = "fields", Finished(p)
    PROVE  \A f \in FieldSet : have[p][f] = it[p]
<1>0. VarsOk /\ p \in Proc /\ HaveOk(p)
  BY ProcIs DEF Inv, Proc
<1>1. ASSUME NEW f \in FieldSet PROVE have[p][f] = it[p]
  <2>1. PICK k \in DOMAIN Fields : f = Fields[k]
    BY FieldsAre
  <2>2. PICK t : t = FieldTag(k)
    OBVIOUS
  <2>3. AField(t, f)
    BY <2>1, <2>2 DEF AField
  <2>4. ASSUME NEW q \in JupiterProc, p = Rad(q) PROVE have[p][f] = it[p]
    <3>1. ~MasterSlave(q, p)
      <4>1. q \in Proc
        BY DEF Proc
      <4>2. q \notin RadProc
        BY <4>1, ProcIs
      <4> QED  BY <4>2, MasterSlaveProcs
    <3>2. Sends(q, segment[p], p, t, f) /\ ~Posts(segment[p], q, p, t, f)
      BY <2>3, <2>4, <3>1 DEF Sends, Passed, Posts
    <3>3. Op("recv", q, t, f) \in Made(p)
      BY <1>0, <3>2, HasBeenReceived
    <3> QED  BY <1>0, <2>3, <3>3 DEF HaveOk
  <2>5. ASSUME NEW s, MasterSlave(s, p) PROVE have[p][f] = it[p]
    <3>1. Has(Ops(p), Op("post", s, 0, ""))
      BY <1>0, <2>5, CallsAre
    <3>2. Op("post", s, 0, "") \in Made(p)
      BY <1>0, <3>1, MadeNow, OtherStages
    <3>3. pending[p][f] = 0
      BY NothingPending
    <3> QED  BY <1>0, <2>3, <2>5, <3>2, <3>3 DEF HaveOk
  <2> QED  BY <2>4, <2>5, MasterOrSlave
<1> QED  BY <1>1

LEMMA VerdictHeard ==
    ASSUME NEW S, Inv(S), NEW p \in RadProc, segment[p] = "picard", Finished(p)
    PROVE  Heard(p)
<1>0. VarsOk /\ p \in Proc
  BY ProcIs DEF Inv, Proc
<1>1. CASE p = Rad(0)
  <2>1. Has(Ops(p), Op("judge", 0, 0, ""))
    BY <1>0, <1>1, JudgeCall
  <2>2. Op("judge", 0, 0, "") \in Made(p)
    BY <1>0, <2>1, MadeNow, OtherStages
  <2> QED  BY <2>2 DEF Heard
<1>2. CASE p # Rad(0)
  <2>1. \E n \in RadRank : p = Rad(n)
    BY RadInt
  <2>2. PICK w : w = "iexit"
    OBVIOUS
  <2>3. Iterated(Rad(0), p, 10, w)
    BY <1>2, <2>1, <2>2 DEF Iterated
  <2>4. Sends(Rad(0), segment[p], p, 10, w) /\ ~Posts(segment[p], Rad(0), p, 10, w)
    BY <2>3 DEF Sends, Posts
  <2>5. PICK r : r = Rad(0)
    OBVIOUS
  <2>6. PICK t : t = 10
    OBVIOUS
  <2>7. Op("recv", r, t, w) \in Made(p)
    BY <1>0, <2>4, <2>5, <2>6, HasBeenReceived
  <2> QED  BY <2>2, <2>5, <2>6, <2>7 DEF Heard
<1> QED  BY <1>1, <1>2

LEMMA EnterKeeps ==
    ASSUME NEW S, Inv(S), Ext(S, S), NEW p \in Proc, NEW g \in Segments, Enter(p, g), Finished(p),
           segment[p] # "done", eager' = eager, chan' = chan, pending' = pending,
           have' = have, obeyed' = obeyed, verdicts' = verdicts,
           at' \in [JupiterProc -> Nat], it' \in [RadProc -> Nat], picard' \in [RadProc -> Nat],
           flag' \in [Proc -> {0, 1}],
           \A q \in Proc : q # p => /\ flag'[q] = flag[q]
                                    /\ q \in JupiterProc => at'[q] = at[q]
                                    /\ q \in RadProc => it'[q] = it[q] /\ picard'[q] = picard[q],
           NEW n2 \in Nat, NEW a2 \in Nat, Round(p)' = n2, Phase(p)' = a2,
           Earlier(Round(p), Phase(p), n2, a2),
           \A n, a \in Nat : /\ Earlier(Round(p), Phase(p), n, a) /\ Earlier(n, a, n2, a2)
                             /\ p \in JupiterProc => a <= 1
                             => ~Real(S, n, a)',
           PlanOk', p \in JupiterProc => JupiterOk(p)',
           p \in RadProc => RoundOk(S, p)' /\ IterationOk(S, p)' /\ HaveOk(p)'
    PROVE  Inv(S)'
<1>0. VarsOk
  BY DEF Inv
<1>1. /\ segment' \in [Proc -> Segments] /\ ip' \in [Proc -> Nat]
      /\ \A q \in Proc : ip'[q] \in 1 .. Len(ScriptTable[q][segment'[q]]) + 1
      /\ segment'[p] = g /\ Made(p)' = {}
      /\ \A q \in Proc : q # p => Made(q)' = Made(q) /\ segment'[q] = segment[q]
  BY <1>0, EnterMade
<1>2. /\ eager' \in BOOLEAN /\ eager' \in Eager
      /\ pending' \in [RadProc -> [FieldSet -> {0, 1}]]
      /\ have' \in [RadProc -> [FieldSet -> 0 .. RoundBound]]
      /\ obeyed' \in [RadProc -> Nat] /\ DOMAIN chan' = Links
  BY <1>0 DEF VarsOk
<1>3. VarsOk'
  BY <1>1, <1>2 DEF VarsOk
<1>4. \A q \in Proc : q # p => Quiet(q)
  BY <1>1 DEF Quiet
<1>5. VerdictsOk(S)'
  <2>1. VerdictsOk(S)
    BY DEF Inv
  <2> QED  BY <2>1 DEF VerdictsOk
<1>b. Made(p)' = {}
  BY <1>1
<1>c. ASSUME NEW x \in Proc
      PROVE  SentSet(S, p, x)' = SentSet(S, p, x) /\ GotSet(S, x, p)' = GotSet(S, x, p)
  BY <1>b, EnterSets
<1>6. \A x \in Proc : SentSet(S, p, x)' = SentSet(S, p, x)
  BY <1>c
<1>7. \A x \in Proc : GotSet(S, x, p)' = GotSet(S, x, p)
  BY <1>c
<1>8. /\ \A x \in Proc : <<p, x>> \in Links => LinkOk(S, p, x)'
      /\ \A x \in Proc : <<x, p>> \in Links => LinkOk(S, x, p)'
  BY <1>4, <1>6, <1>7, StillLinks
<1>9. p \in RadProc => PostedOk(p)'
  <2>1. ASSUME p \in RadProc PROVE PostedOk(p)'
    <3>1. \A f \in FieldSet : pending[p][f] = 0
      BY <2>1, NothingPending
    <3> QED  BY <2>1, <3>1, NonePosted
  <2> QED  BY <2>1
<1>10. \A s, d \in Proc : <<s, d>> \in Links /\ s # p /\ d # p => chan'[<<s, d>>] = chan[<<s, d>>]
  OBVIOUS
<1> QED  BY <1>3, <1>4, <1>5, <1>8, <1>9, <1>10, Moved

\* No moment lies between a phase and the next.
LEMMA NextPhase ==
    ASSUME NEW n1 \in Nat, NEW a1 \in Nat, NEW n \in Nat, NEW a \in Nat
    PROVE  /\ Earlier(n1, a1, n1, a1 + 1)
           /\ ~(Earlier(n1, a1, n, a) /\ Earlier(n, a, n1, a1 + 1))
BY DEF Earlier

LEMMA EndRadExchangeKeeps ==
    ASSUME NEW S, Inv(S), NEW p \in Proc, EndRadExchange(p)
    PROVE  Inv(S)'
<1>0. VarsOk
  BY DEF Inv
<1>1. /\ p \in RadProc /\ segment[p] = "exchange" /\ Finished(p)
      /\ eager' = eager /\ plan' = plan /\ at' = at /\ it' = it /\ picard' = picard
      /\ flag' = flag /\ chan' = chan /\ pending' = pending /\ have' = have
      /\ verdicts' = verdicts /\ obeyed' = obeyed
  BY DEF EndRadExchange, jupiter
<1>2. PICK g \in Segments : /\ g = IF flag[p] = 1 THEN "done" ELSE "fields"
                            /\ Enter(p, g)
  BY DEF EndRadExchange, Segments
<1>3. segment'[p] = g /\ g \in {"done", "fields"} /\ Made(p)' = {}
  BY <1>0, <1>2, EnterMade
<1>4. Ext(S, S) /\ PlanOk'
  BY <1>1, SameExt
<1>5. p \notin JupiterProc
  BY <1>1, ProcIs
<1>6. PICK n \in Nat : n = it[p] /\ Round(p) = n /\ Phase(p) = 0
  BY <1>1, PhaseIs
<1>7. Round(p)' = n /\ Phase(p)' = 0 + 1
  BY <1>1, <1>3, <1>5, <1>6 DEF Round, Phase
<1>8. /\ Earlier(Round(p), Phase(p), n, 0 + 1)
      /\ \A m, a \in Nat : ~(Earlier(Round(p), Phase(p), m, a) /\ Earlier(m, a, n, 0 + 1))
  BY <1>6, NextPhase
<1>9. RoundOk(S, p) /\ IterationOk(S, p) /\ PlanOk
  BY <1>1 DEF Inv
<1>10. it[p] <= Len(plan) /\ flag[p] = plan[it[p]]
  BY <1>1, FlagHeard
<1>11. plan[it[p]] \in {0, 1}
  BY <1>0, <1>1, <1>10 DEF VarsOk
<1>12. RoundOk(S, p)'
  <2>1. /\ it[p] >= 1 /\ it[p] <= Len(S) /\ it[p] <= Len(plan) + 1
        /\ it[p] > 1 => plan[it[p] - 1] = 0
    BY <1>9 DEF RoundOk
  <2>2. g = "fields" => plan[it[p]] = 0
    BY <1>2, <1>10, <1>11
  <2>3. g = "done" => plan[it[p]] = 1
    BY <1>2, <1>10
  <2> QED  BY <1>1, <1>3, <1>10, <2>1, <2>2, <2>3 DEF RoundOk
<1>13. IterationOk(S, p)'
  <2>1. segment[p] # "picard" /\ segment'[p] # "picard" /\ ~(segment'[p] = "picard")
    BY <1>1, <1>3
  <2> QED  BY <1>1, <1>9, <2>1 DEF IterationOk
<1>14. HaveOk(p)'
  BY <1>3 DEF HaveOk
<1>15. /\ at' \in [JupiterProc -> Nat] /\ it' \in [RadProc -> Nat] /\ picard' \in [RadProc -> Nat]
       /\ flag' \in [Proc -> {0, 1}]
  BY <1>0, <1>1 DEF VarsOk
<1>16. \A q \in Proc : q # p => /\ flag'[q] = flag[q]
                                /\ q \in JupiterProc => at'[q] = at[q]
                                /\ q \in RadProc => it'[q] = it[q] /\ picard'[q] = picard[q]
  BY <1>1
<1>17. 0 + 1 \in Nat /\ segment[p] # "done"
  BY <1>1
<1>18. PICK a2 \in Nat : a2 = 0 + 1
  BY <1>17
<1> QED
  BY <1>1, <1>2, <1>4, <1>5, <1>7, <1>8, <1>12, <1>13, <1>14, <1>15, <1>16, <1>17, <1>18, EnterKeeps

LEMMA BeginPicardKeeps ==
    ASSUME NEW S, Inv(S), NEW p \in Proc, BeginPicard(p)
    PROVE  Inv(S)'
<1>0. VarsOk
  BY DEF Inv
<1>1. /\ p \in RadProc /\ segment[p] = "fields" /\ Finished(p)
      /\ eager' = eager /\ plan' = plan /\ at' = at /\ it' = it
      /\ picard' = [picard EXCEPT ![p] = 1]
      /\ flag' = flag /\ chan' = chan /\ pending' = pending /\ have' = have
      /\ verdicts' = verdicts /\ obeyed' = obeyed
  BY DEF BeginPicard, jupiter
<1>2. PICK g \in Segments : g = "picard" /\ Enter(p, g)
  BY DEF BeginPicard, Segments
<1>3. segment'[p] = "picard" /\ Made(p)' = {}
  BY <1>0, <1>2, EnterMade
<1>4. Ext(S, S) /\ PlanOk'
  BY <1>1, SameExt
<1>5. p \notin JupiterProc
  BY <1>1, ProcIs
<1>6. PICK n \in Nat : n = it[p] /\ Round(p) = n /\ Phase(p) = 1
  BY <1>1, PhaseIs
<1>7. /\ picard' \in [RadProc -> Nat] /\ picard'[p] = 1
      /\ \A q \in RadProc : q # p => picard'[q] = picard[q]
  <2>1. picard \in [RadProc -> Nat]
    BY <1>0 DEF VarsOk
  <2> QED  BY <1>1, <2>1
<1>8. Round(p)' = n /\ Phase(p)' = 1 + 1
  BY <1>1, <1>3, <1>5, <1>6, <1>7 DEF Round, Phase
<1>9. /\ Earlier(Round(p), Phase(p), n, 1 + 1)
      /\ \A m, a \in Nat : ~(Earlier(Round(p), Phase(p), m, a) /\ Earlier(m, a, n, 1 + 1))
  BY <1>6, NextPhase
<1>10. RoundOk(S, p) /\ IterationOk(S, p)
  BY <1>1 DEF Inv
<1>11. RoundOk(S, p)'
  BY <1>1, <1>3, <1>10 DEF RoundOk
<1>12. IterationOk(S, p)'
  <2>1. obeyed[p] = S[n] /\ obeyed[p] <= Len(verdicts) /\ (p = Rad(0) => obeyed[p] = Len(verdicts))
    BY <1>1, <1>6, <1>10 DEF IterationOk
  <2>2. obeyed[p] = S[n] + 1 - 1
    <3>1. obeyed[p] \in Nat
      BY <1>0, <1>1 DEF VarsOk
    <3> QED  BY <2>1, <3>1
  <2>3. PicardMax >= 1
    BY BoundAssumption
  <2>4. ~Heard(p)'
    BY <1>3 DEF Heard
  <2>5. \A j \in 1 .. 1 - 1 : verdicts[S[n] + j] = 0
    OBVIOUS
  <2>6. /\ obeyed'[p] = S[it'[p]] + picard'[p] - 1 /\ picard'[p] >= 1 /\ picard'[p] <= PicardMax
        /\ \A j \in 1 .. picard'[p] - 1 : verdicts'[S[it'[p]] + j] = 0
    BY <1>1, <1>6, <1>7, <2>2, <2>3, <2>5
  <2>7. obeyed'[p] <= Len(verdicts') /\ (p = Rad(0) => obeyed'[p] = Len(verdicts'))
    BY <1>1, <2>1
  <2>8. ~(segment'[p] # "picard")
    BY <1>3
  <2> QED  BY <2>4, <2>6, <2>7, <2>8 DEF IterationOk
<1>13. HaveOk(p)'
  <2>1. \A f \in FieldSet : have'[p][f] = it'[p]
    BY <1>1, FieldsHeld
  <2> QED  BY <1>3, <2>1 DEF HaveOk
<1>15. at' \in [JupiterProc -> Nat] /\ it' \in [RadProc -> Nat] /\ flag' \in [Proc -> {0, 1}]
  BY <1>0, <1>1 DEF VarsOk
<1>16. \A q \in Proc : q # p => /\ flag'[q] = flag[q]
                                /\ q \in JupiterProc => at'[q] = at[q]
                                /\ q \in RadProc => it'[q] = it[q] /\ picard'[q] = picard[q]
  BY <1>1, <1>7
<1>17. 1 + 1 \in Nat /\ segment[p] # "done" /\ picard' \in [RadProc -> Nat]
  BY <1>1, <1>7
<1>18. PICK a2 \in Nat : a2 = 1 + 1
  BY <1>17
<1>19. /\ p \in RadProc /\ Finished(p) /\ eager' = eager /\ chan' = chan /\ pending' = pending
       /\ have' = have /\ verdicts' = verdicts /\ obeyed' = obeyed /\ Enter(p, g)
  BY <1>1, <1>2
<1> QED
  BY <1>19, <1>4, <1>5, <1>8, <1>9, <1>11, <1>12, <1>13, <1>15, <1>16, <1>17, <1>18, EnterKeeps

\* The last verdict of a round that a process obeys is the last that is given in it.
LEMMA LastVerdict ==
    ASSUME NEW S, VerdictsOk(S), NEW n \in Nat, n >= 1, n <= Len(S), NEW k \in Nat,
           k >= 1, k <= PicardMax, S[n] + k <= Len(verdicts),
           \A j \in 1 .. k - 1 : verdicts[S[n] + j] = 0,
           verdicts[S[n] + k] = 1 \/ k = PicardMax
    PROVE  n + 1 <= Len(S) /\ S[n + 1] = S[n] + k
<1>0. PicardMax \in Nat \ {0}
  BY BoundAssumption
<1>1. PICK V, l \in Nat :
              /\ V = Len(verdicts) /\ l = Len(S) /\ l >= 1 /\ S[1] = 0
              /\ \A i \in 1 .. V : verdicts[i] \in {0, 1}
              /\ \A m \in 1 .. l : S[m] \in Nat /\ S[m] <= V
              /\ \A m \in 1 .. l : m < l =>
                   /\ S[m] < S[m + 1] /\ S[m + 1] <= S[m] + PicardMax
                   /\ \A j \in S[m] + 1 .. S[m + 1] - 1 : verdicts[j] = 0
                   /\ verdicts[S[m + 1]] = 1 \/ S[m + 1] = S[m] + PicardMax
              /\ \A j \in S[l] + 1 .. V : verdicts[j] = 0
              /\ V < S[l] + PicardMax
  BY VerdictsAre
<1>2. n \in 1 .. l
  BY <1>1
<1>3. PICK a \in Nat : a = S[n]
  BY <1>1, <1>2
<1>4. a + k <= V /\ (verdicts[a + k] = 1 \/ k = PicardMax) /\ \A j \in 1 .. k - 1 : verdicts[a + j] = 0
  BY <1>1, <1>3
<1>5. n < l
  <2>1. SUFFICES ASSUME n = l PROVE FALSE
    BY <1>2
  <2>2. (\A j \in a + 1 .. V : verdicts[j] = 0) /\ V < a + PicardMax
    BY <1>1, <1>3, <2>1
  <2>3. k # PicardMax
    BY <1>0, <1>4, <2>2
  <2>4. a + k \in a + 1 .. V
    BY <1>4
  <2> QED  BY <1>4, <2>2, <2>3, <2>4
<1>6. n + 1 \in 1 .. l
  BY <1>2, <1>5
<1>7. PICK b \in Nat : b = S[n + 1]
  BY <1>1, <1>6
<1>8. /\ a < b /\ b <= a + PicardMax
      /\ \A j \in a + 1 .. b - 1 : verdicts[j] = 0
      /\ verdicts[b] = 1 \/ b = a + PicardMax
  BY <1>1, <1>2, <1>3, <1>5, <1>7
<1>9. ~(a + k < b)
  <2>1. SUFFICES ASSUME a + k < b PROVE FALSE
    OBVIOUS
  <2>2. a + k \in a + 1 .. b - 1
    BY <2>1
  <2>3. verdicts[a + k] = 0
    BY <1>8, <2>2
  <2>4. k # PicardMax
    BY <1>0, <1>8, <2>1
  <2> QED  BY <1>4, <2>3, <2>4
<1>10. ~(b < a + k)
  <2>1. SUFFICES ASSUME b < a + k PROVE FALSE
    OBVIOUS
  <2>2. PICK j \in Int : j = b - a
    OBVIOUS
  <2>3. j \in 1 .. k - 1 /\ b = a + j
    BY <1>8, <2>1, <2>2
  <2>4. verdicts[b] = 0
    BY <1>4, <2>3
  <2>5. b # a + PicardMax
    BY <1>0, <2>1
  <2> QED  BY <1>8, <2>4, <2>5
<1>11. b = a + k
  BY <1>9, <1>10
<1> QED  BY <1>1, <1>3, <1>5, <1>7, <1>11

LEMMA EndPicardKeeps ==
    ASSUME NEW S, Inv(S), NEW p \in Proc, EndPicard(p)
    PROVE  Inv(S)'
<1>0. VarsOk
  BY DEF Inv
<1>1. /\ p \in RadProc /\ segment[p] = "picard" /\ Finished(p)
      /\ eager' = eager /\ plan' = plan /\ at' = at
      /\ flag' = flag /\ chan' = chan /\ pending' = pending /\ have' = have
      /\ verdicts' = verdicts /\ obeyed' = obeyed
  BY DEF EndPicard, jupiter
<1>2. Ext(S, S) /\ PlanOk'
  BY <1>1, SameExt
<1>3. p \notin JupiterProc /\ segment[p] # "done"
  BY <1>1, ProcIs
<1>4. it \in [RadProc -> Nat] /\ picard \in [RadProc -> Nat]
  BY <1>0 DEF VarsOk
<1>5. PICK n \in Nat, k \in Nat : n = it[p] /\ k = picard[p] /\ Round(p) = n /\ Phase(p) = k + 1
  BY <1>1, <1>4, PhaseIs
<1>6. RoundOk(S, p) /\ IterationOk(S, p) /\ HaveOk(p) /\ VerdictsOk(S) /\ Heard(p)
  BY <1>1, VerdictHeard DEF Inv
<1>7. /\ n >= 1 /\ n <= Len(S) /\ n <= Len(plan) + 1 /\ n <= Len(plan) /\ plan[n] = 0
      /\ n > 1 => plan[n - 1] = 0
  BY <1>1, <1>5, <1>6 DEF RoundOk
<1>8. /\ k >= 1 /\ k <= PicardMax /\ obeyed[p] = S[n] + k /\ flag[p] = verdicts[S[n] + k]
      /\ S[n] + k <= Len(verdicts) /\ obeyed[p] <= Len(verdicts)
      /\ \A j \in 1 .. k - 1 : verdicts[S[n] + j] = 0
      /\ p = Rad(0) => obeyed[p] = Len(verdicts)
  BY <1>1, <1>5, <1>6 DEF IterationOk
<1>9. flag[p] \in {0, 1}
  BY <1>0 DEF VarsOk
<1>10. at' \in [JupiterProc -> Nat] /\ flag' \in [Proc -> {0, 1}]
  BY <1>0, <1>1 DEF VarsOk
<1>11. /\ eager' = eager /\ chan' = chan /\ pending' = pending /\ have' = have
       /\ verdicts' = verdicts /\ obeyed' = obeyed /\ Finished(p)
  BY <1>1
<1>12. CASE flag[p] = 1 \/ k = PicardMax
  <2>1. PICK g \in Segments : g = "exchange" /\ Enter(p, g)
    BY <1>5, <1>12 DEF EndPicard, Segments
  <2>2. it' = [it EXCEPT ![p] = @ + 1] /\ picard' = [picard EXCEPT ![p] = 0]
    BY <1>5, <1>12 DEF EndPicard
  <2>3. segment'[p] = "exchange" /\ Made(p)' = {}
    BY <1>0, <2>1, EnterMade
  <2>4. /\ it' \in [RadProc -> Nat] /\ picard' \in [RadProc -> Nat]
        /\ it'[p] = n + 1 /\ picard'[p] = 0
        /\ \A q \in RadProc : q # p => it'[q] = it[q] /\ picard'[q] = picard[q]
    BY <1>1, <1>4, <1>5, <2>2
  <2>5. PICK n2 \in Nat, a2 \in Nat : n2 = n + 1 /\ a2 = 0
    OBVIOUS
  <2>6. Round(p)' = n2 /\ Phase(p)' = a2
    BY <1>3, <2>3, <2>4, <2>5 DEF Round, Phase
  <2>7. Earlier(Round(p), Phase(p), n2, a2)
    BY <1>5, <2>5 DEF Earlier
  <2>8. verdicts[S[n] + k] = 1 \/ k = PicardMax
    BY <1>8, <1>12
  <2>9. n + 1 <= Len(S) /\ S[n + 1] = S[n] + k
    <3>1. VerdictsOk(S)
      BY <1>6
    <3>2. n >= 1 /\ n <= Len(S)
      BY <1>7
    <3>3. k >= 1 /\ k <= PicardMax /\ S[n] + k <= Len(verdicts) /\ \A j \in 1 .. k - 1 : verdicts[S[n] + j] = 0
      BY <1>8
    <3> QED  BY ONLY <3>1, <3>2, <3>3, <2>8, n \in Nat, k \in Nat, LastVerdict
  <2>10. ASSUME NEW m \in Nat, NEW a \in Nat, Earlier(Round(p), Phase(p), m, a), Earlier(m, a, n2, a2)
         PROVE  ~Real(S, m, a)'
    <3>1. m = n /\ a > k + 1
      BY <1>5, <2>5, <2>10 DEF Earlier
    <3>2. SUFFICES ASSUME Real(S, m, a)' PROVE FALSE
      OBVIOUS
    <3>3. a >= 2 /\ a # 0 /\ a # 1
      BY <1>8, <3>1
    <3>4. a - 1 <= PicardMax /\ \A j \in 1 .. a - 2 : verdicts'[S[m] + j] = 0
      BY <3>2, <3>3 DEF Real
    <3>5. k # PicardMax
      BY <3>1, <3>4, BoundAssumption
    <3>6. k \in 1 .. a - 2
      BY <1>8, <3>1
    <3>7. verdicts[S[n] + k] = 0
      BY <1>1, <3>1, <3>4, <3>6
    <3> QED  BY <2>8, <3>5, <3>7
  <2>11. RoundOk(S, p)'
    <3>1. n + 1 >= 1 /\ n + 1 <= Len(plan) + 1 /\ n + 1 - 1 = n
      BY <1>7
    <3>2. it'[p] >= 1 /\ it'[p] <= Len(S) /\ it'[p] <= Len(plan') + 1 /\ plan'[it'[p] - 1] = 0
      BY <1>1, <1>7, <2>4, <2>9, <3>1
    <3> QED  BY <2>3, <3>2 DEF RoundOk
  <2>12. IterationOk(S, p)'
    <3>1. segment'[p] # "picard" /\ ~(segment'[p] = "picard")
      BY <2>3
    <3>2. picard'[p] = 0 /\ obeyed'[p] = S[it'[p]]
      BY <1>1, <1>8, <2>4, <2>9
    <3>3. obeyed'[p] <= Len(verdicts') /\ (p = Rad(0) => obeyed'[p] = Len(verdicts'))
      BY <1>1, <1>8
    <3> QED  BY <3>1, <3>2, <3>3 DEF IterationOk
  <2>13. HaveOk(p)'
    BY <2>3 DEF HaveOk
  <2>14. \A q \in Proc : q # p => /\ flag'[q] = flag[q]
                                  /\ q \in JupiterProc => at'[q] = at[q]
                                  /\ q \in RadProc => it'[q] = it[q] /\ picard'[q] = picard[q]
    BY <1>1, <2>4
  <2>15. it' \in [RadProc -> Nat] /\ picard' \in [RadProc -> Nat] /\ Enter(p, g)
    BY <2>1, <2>4
  <2> QED
    BY <1>2, <1>3, <1>10, <1>11, <2>6, <2>7, <2>10, <2>11, <2>12, <2>13, <2>14, <2>15, EnterKeeps
<1>13. CASE ~(flag[p] = 1 \/ k = PicardMax)
  <2>1. PICK g \in Segments : g = "picard" /\ Enter(p, g)
    BY <1>5, <1>13 DEF EndPicard, Segments
  <2>2. it' = it /\ picard' = [picard EXCEPT ![p] = @ + 1]
    BY <1>5, <1>13 DEF EndPicard
  <2>3. segment'[p] = "picard" /\ Made(p)' = {}
    BY <1>0, <2>1, EnterMade
  <2>4. /\ it' \in [RadProc -> Nat] /\ picard' \in [RadProc -> Nat]
        /\ it'[p] = n /\ picard'[p] = k + 1
        /\ \A q \in RadProc : q # p => it'[q] = it[q] /\ picard'[q] = picard[q]
    BY <1>1, <1>4, <1>5, <2>2
  <2>5. PICK a2 \in Nat : a2 = k + 1 + 1
    OBVIOUS
  <2>6. Round(p)' = n /\ Phase(p)' = a2
    BY <1>3, <2>3, <2>4, <2>5 DEF Round, Phase
  <2>7. PICK a1 \in Nat : a1 = k + 1
    OBVIOUS
  <2>8. Earlier(n, a1, n, a1 + 1) /\ \A m, a \in Nat : ~(Earlier(n, a1, m, a) /\ Earlier(m, a, n, a1 + 1))
    BY NextPhase
  <2>9. /\ Earlier(Round(p), Phase(p), n, a2)
        /\ \A m, a \in Nat : ~(Earlier(Round(p), Phase(p), m, a) /\ Earlier(m, a, n, a2))
    BY <1>5, <2>5, <2>7, <2>8
  <2>10. RoundOk(S, p)'
    <3>1. it'[p] >= 1 /\ it'[p] <= Len(S) /\ it'[p] <= Len(plan') + 1 /\ it'[p] <= Len(plan')
      BY <1>1, <1>7, <2>4
    <3>2. plan'[it'[p]] = 0 /\ (it'[p] > 1 => plan'[it'[p] - 1] = 0)
      BY <1>1, <1>7, <2>4
    <3> QED  BY <2>3, <3>1, <3>2 DEF RoundOk
  <2>11. verdicts[S[n] + k] = 0 /\ k < PicardMax
    BY <1>8, <1>9, <1>13, BoundAssumption
  <2>12. \A j \in 1 .. k : verdicts[S[n] + j] = 0
    <3>1. ASSUME NEW j \in 1 .. k PROVE verdicts[S[n] + j] = 0
      <4>1. j = k \/ j \in 1 .. k - 1
        OBVIOUS
      <4> QED  BY <1>8, <2>11, <4>1
    <3> QED  BY <3>1
  <2>13. IterationOk(S, p)'
    <3>1. ~(segment'[p] # "picard") /\ ~Heard(p)'
      BY <2>3 DEF Heard
    <3>2. k + 1 - 1 = k /\ k + 1 >= 1 /\ k + 1 <= PicardMax
      BY <2>11, BoundAssumption
    <3>3. obeyed[p] = S[n] + (k + 1) - 1
      <4>1. S[n] \in Nat
        BY <1>6, <1>7, VerdictsAre
      <4> QED  BY <1>8, <4>1
    <3>4. /\ picard'[p] >= 1 /\ picard'[p] <= PicardMax
          /\ \A j \in 1 .. picard'[p] - 1 : verdicts'[S[it'[p]] + j] = 0
          /\ obeyed'[p] = S[it'[p]] + picard'[p] - 1
      BY <1>1, <2>4, <2>12, <3>2, <3>3
    <3>5. obeyed'[p] <= Len(verdicts') /\ (p = Rad(0) => obeyed'[p] = Len(verdicts'))
      BY <1>1, <1>8
    <3> QED  BY <3>1, <3>4, <3>5 DEF IterationOk
  <2>14. HaveOk(p)'
    BY <1>1, <1>6, <2>2, <2>3 DEF HaveOk
  <2>15. \A q \in Proc : q # p => /\ flag'[q] = flag[q]
                                  /\ q \in JupiterProc => at'[q] = at[q]
                                  /\ q \in RadProc => it'[q] = it[q] /\ picard'[q] = picard[q]
    BY <1>1, <2>4
  <2>16. it' \in [RadProc -> Nat] /\ picard' \in [RadProc -> Nat] /\ Enter(p, g)
    BY <2>1, <2>4
  <2> QED  BY <1>2, <1>3, <1>10, <1>11, <2>6, <2>9, <2>10, <2>13, <2>14, <2>15, <2>16, EnterKeeps
<1> QED  BY <1>12, <1>13

LEMMA EndJupiterSegmentKeeps ==
    ASSUME NEW S, Inv(S), NEW r \in Proc, EndJupiterSegment(r)
    PROVE  Inv(S)'
<1>0. VarsOk
  BY DEF Inv
<1>1. /\ r \in JupiterProc /\ segment[r] \in {"exchange", "fields"} /\ Finished(r)
      /\ eager' = eager /\ plan' = plan /\ at' = at /\ it' = it /\ picard' = picard
      /\ flag' = flag /\ chan' = chan /\ pending' = pending /\ have' = have
      /\ verdicts' = verdicts /\ obeyed' = obeyed
  BY DEF EndJupiterSegment, jupiter
<1>2. PICK g \in Segments : /\ g = IF flag[r] = 1 THEN "done"
                                   ELSE IF segment[r] = "exchange" THEN "fields" ELSE "idle"
                            /\ Enter(r, g)
  BY <1>1 DEF EndJupiterSegment, Segments
<1>3. segment'[r] = g /\ Made(r)' = {}
  BY <1>0, <1>2, EnterMade
<1>4. Ext(S, S) /\ PlanOk'
  BY <1>1, SameExt
<1>5. r \notin RadProc
  BY <1>1, ProcIs
<1>6. /\ at[r] <= Len(plan) /\ at[r] >= 1 /\ flag[r] = plan[at[r]]
      /\ segment[r] = "fields" => plan[at[r]] = 0
  <2>1. JupiterOk(r) /\ at[r] \in Nat
    BY <1>0, <1>1 DEF Inv, VarsOk
  <2> QED  BY <1>1, <2>1 DEF JupiterOk
<1>7. plan[at[r]] \in {0, 1}
  BY <1>0, <1>6 DEF VarsOk
<1>8. PICK n \in Nat : n = at[r] /\ Round(r) = n
  BY <1>1, PhaseIs
<1>9. PICK a1 \in Nat, a2 \in Nat :
           a1 = (IF segment[r] = "exchange" THEN 0 ELSE 1) /\ a2 = a1 + 1
  OBVIOUS
<1>10. Phase(r) = a1
  BY <1>1, <1>9, PhaseIs
<1>11. /\ g \in {"done", "fields", "idle"}
       /\ segment[r] = "exchange" => g \in {"done", "fields"}
       /\ segment[r] = "fields" => g = "idle"
       /\ g = "done" => plan[at[r]] = 1
       /\ g # "done" => plan[at[r]] = 0
  BY <1>1, <1>2, <1>6, <1>7
<1>12. Round(r)' = n /\ Phase(r)' = a2
  <2>1. Round(r)' = n
    BY <1>1, <1>8 DEF Round
  <2>2. Phase(r)' = (IF g = "idle" THEN 2 ELSE 1)
    BY <1>3, <1>11 DEF Phase
  <2>3. g = "idle" <=> segment[r] # "exchange"
    BY <1>1, <1>11
  <2> QED  BY <1>9, <2>1, <2>2, <2>3
<1>13. Earlier(n, a1, n, a1 + 1) /\ \A m, a \in Nat : ~(Earlier(n, a1, m, a) /\ Earlier(m, a, n, a1 + 1))
  BY NextPhase
<1>14. /\ Earlier(Round(r), Phase(r), n, a2)
       /\ \A m, a \in Nat : ~(Earlier(Round(r), Phase(r), m, a) /\ Earlier(m, a, n, a2))
  BY <1>8, <1>9, <1>10, <1>13
<1>15. JupiterOk(r)'
  BY <1>1, <1>3, <1>6, <1>11 DEF JupiterOk
<1>16. /\ at' \in [JupiterProc -> Nat] /\ it' \in [RadProc -> Nat] /\ picard' \in [RadProc -> Nat]
       /\ flag' \in [Proc -> {0, 1}]
  BY <1>0, <1>1 DEF VarsOk
<1>17. \A q \in Proc : q # r => /\ flag'[q] = flag[q]
                                /\ q \in JupiterProc => at'[q] = at[q]
                                /\ q \in RadProc => it'[q] = it[q] /\ picard'[q] = picard[q]
  BY <1>1
<1>18. /\ segment[r] # "done" /\ Enter(r, g) /\ Finished(r)
       /\ eager' = eager /\ chan' = chan /\ pending' = pending /\ have' = have
       /\ verdicts' = verdicts /\ obeyed' = obeyed
  BY <1>1, <1>2
<1> QED  BY <1>4, <1>5, <1>12, <1>14, <1>15, <1>16, <1>17, <1>18, EnterKeeps

\* JUPITER goes on to the next exchange of the plan, or makes the plan longer.
LEMMA NextExchange ==
    ASSUME PlanOk, NEW r \in JupiterProc, at \in [JupiterProc -> Nat], at[r] <= Len(plan),
           JUPITER!Lead(r) \/ JUPITER!Follow(r),
           Len(plan') = RoundBound => plan'[RoundBound] = 1
    PROVE  /\ PlanOk' /\ Extends(plan, plan') /\ plan' \in Seq({0, 1})
           /\ at' = [at EXCEPT ![r] = @ + 1] /\ at[r] + 1 <= Len(plan')
<1>1. PICK n \in Nat : /\ n = Len(plan) /\ n <= RoundBound /\ RoundBound \in Nat
                       /\ \A i \in 1 .. n : plan[i] \in {0, 1}
                       /\ \A i \in 1 .. n : i < n => plan[i] = 0
                       /\ n = RoundBound => plan[RoundBound] = 1
  BY PlanIs
<1>2. plan \in Seq({0, 1}) /\ RoundBound \in Nat \ {0}
  BY BoundAssumption DEF PlanOk
<1>3. PICK k \in Nat : k = at[r] /\ k <= n
  BY <1>1
<1>4. CASE JUPITER!Lead(r)
  <2>1. /\ k = n /\ at' = [at EXCEPT ![r] = @ + 1]
        /\ ~(plan # <<>> /\ plan[n] = 1)
    BY <1>1, <1>3, <1>4 DEF JUPITER!Lead, JUPITER!Ended
  <2>2. PICK f \in {0, 1} : plan' = Append(plan, f)
    BY <1>4 DEF JUPITER!Lead, JUPITER!Flag
  <2>3. PICK q : q = plan'
    OBVIOUS
  <2>4. q \in Seq({0, 1}) /\ Len(q) = n + 1 /\ \A i \in 1 .. n : q[i] = plan[i]
    BY <1>1, <1>2, <2>2, <2>3
  <2>5. n # 0 => plan[n] = 0
    <3>1. ASSUME n # 0 PROVE plan[n] = 0
      <4>1. plan # <<>> /\ n \in 1 .. n
        BY <1>1, <3>1
      <4> QED  BY <1>1, <2>1, <4>1
    <3> QED  BY <3>1
  <2>6. n # RoundBound
    BY <1>1, <1>2, <2>5
  <2>7. Extends(plan, q)
    <3>1. Len(plan) <= Len(q) /\ \A i \in 1 .. Len(plan) : q[i] = plan[i]
      BY <1>1, <2>4
    <3> QED  BY <3>1 DEF Extends
  <2>8. \A i \in 1 .. Len(q) - 1 : q[i] = 0
    <3>1. ASSUME NEW i \in 1 .. n PROVE q[i] = 0
      BY <1>1, <2>4, <2>5, <3>1
    <3>2. Len(q) - 1 = n
      BY <2>4
    <3> QED  BY <3>1, <3>2
  <2>9. Len(q) <= RoundBound
    BY <1>1, <2>4, <2>6
  <2>10. PlanOk'
    BY <2>3, <2>4, <2>8, <2>9 DEF PlanOk
  <2>11. at[r] + 1 <= Len(q)
    BY <1>3, <2>1, <2>4
  <2> QED  BY <2>1, <2>3, <2>4, <2>7, <2>10, <2>11
<1>5. CASE JUPITER!Follow(r)
  <2>1. at[r] < Len(plan) /\ at' = [at EXCEPT ![r] = @ + 1] /\ plan' = plan
    BY <1>5 DEF JUPITER!Follow
  <2>2. PlanOk'
    BY <2>1 DEF PlanOk
  <2>3. Extends(plan, plan)
    <3>1. Len(plan) <= Len(plan)
      BY <1>1
    <3> QED  BY <3>1 DEF Extends
  <2>4. at[r] + 1 <= Len(plan)
    BY <1>1, <1>3, <2>1
  <2> QED  BY <1>2, <2>1, <2>2, <2>3, <2>4
<1> QED  BY <1>4, <1>5

LEMMA BeginExchangeKeeps ==
    ASSUME NEW S, Inv(S), NEW r \in Proc, r \in JupiterProc, BeginExchange(r)
    PROVE  Inv(S)'
<1>0. VarsOk
  BY DEF Inv
<1>1. /\ segment[r] = "idle" /\ (JUPITER!Lead(r) \/ JUPITER!Follow(r))
      /\ Len(plan') = RoundBound => plan'[RoundBound] = 1
      /\ eager' = eager /\ it' = it /\ picard' = picard
      /\ flag' = [flag EXCEPT ![r] = plan'[at'[r]]]
      /\ chan' = chan /\ pending' = pending /\ have' = have
      /\ verdicts' = verdicts /\ obeyed' = obeyed
  BY DEF BeginExchange
<1>2. PICK g \in Segments : g = "exchange" /\ Enter(r, g)
  BY DEF BeginExchange, Segments
<1>3. segment'[r] = "exchange" /\ Made(r)' = {}
  BY <1>0, <1>2, EnterMade
<1>4. r \notin RadProc /\ Finished(r)
  BY <1>0, <1>1, ProcIs, NothingMade
<1>5. at \in [JupiterProc -> Nat] /\ flag \in [Proc -> {0, 1}]
  BY <1>0 DEF VarsOk
<1>6. PlanOk /\ VerdictsOk(S) /\ JupiterOk(r)
  BY DEF Inv
<1>7. at[r] <= Len(plan)
  BY <1>6 DEF JupiterOk
<1>8. /\ PlanOk' /\ Extends(plan, plan') /\ plan' \in Seq({0, 1})
      /\ at' = [at EXCEPT ![r] = @ + 1] /\ at[r] + 1 <= Len(plan')
  BY <1>1, <1>5, <1>6, <1>7, NextExchange
<1>9. Ext(S, S)
  <2>1. verdicts \in Seq({0, 1}) /\ S \in Seq(Nat)
    BY <1>6 DEF VerdictsOk
  <2>2. Len(verdicts) <= Len(verdicts) /\ Len(S) <= Len(S)
    BY <2>1
  <2>3. Extends(S, S) /\ Extends(verdicts, verdicts)
    BY <2>2 DEF Extends
  <2> QED  BY <1>1, <1>8, <2>1, <2>3 DEF Ext
<1>10. PICK n \in Nat, n2 \in Nat : n = at[r] /\ n2 = n + 1
  BY <1>5
<1>11. at' \in [JupiterProc -> Nat] /\ at'[r] = n2 /\ \A q \in JupiterProc : q # r => at'[q] = at[q]
  BY <1>5, <1>8, <1>10
<1>12. n2 \in 1 .. Len(plan') /\ plan'[n2] \in {0, 1}
  <2>1. PICK m \in Nat : m = Len(plan')
    BY <1>8
  <2>2. n2 \in 1 .. m
    BY <1>8, <1>10, <2>1
  <2> QED  BY <1>8, <2>1, <2>2
<1>13. flag' \in [Proc -> {0, 1}] /\ flag'[r] = plan'[n2] /\ \A q \in Proc : q # r => flag'[q] = flag[q]
  BY <1>1, <1>5, <1>11, <1>12
<1>14. Round(r) = n /\ Phase(r) = 2
  BY <1>1, <1>10, PhaseIs
<1>15. PICK a2 \in Nat : a2 = 0
  OBVIOUS
<1>16. Round(r)' = n2 /\ Phase(r)' = a2
  BY <1>3, <1>11, <1>15 DEF Round, Phase
<1>17. Earlier(Round(r), Phase(r), n2, a2)
  BY <1>10, <1>14 DEF Earlier
<1>18. \A m, a \in Nat : /\ Earlier(Round(r), Phase(r), m, a) /\ Earlier(m, a, n2, a2)
                         /\ r \in JupiterProc => a <= 1
                         => ~Real(S, m, a)'
  <2>1. ASSUME NEW m \in Nat, NEW a \in Nat, Earlier(n, 2, m, a), Earlier(m, a, n2, 0), a <= 1
        PROVE  FALSE
    BY <1>10, <2>1 DEF Earlier
  <2> QED  BY <1>14, <1>15, <2>1
<1>19. JupiterOk(r)'
  <2>1. at'[r] >= 1 /\ at'[r] <= Len(plan') /\ flag'[r] = plan'[at'[r]]
    BY <1>8, <1>10, <1>11, <1>13
  <2> QED  BY <1>3, <2>1 DEF JupiterOk
<1>20. it' \in [RadProc -> Nat] /\ picard' \in [RadProc -> Nat]
  BY <1>0, <1>1 DEF VarsOk
<1>21. \A q \in Proc : q # r => /\ flag'[q] = flag[q]
                                /\ q \in JupiterProc => at'[q] = at[q]
                                /\ q \in RadProc => it'[q] = it[q] /\ picard'[q] = picard[q]
  BY <1>1, <1>11, <1>13
<1>22. /\ segment[r] # "done" /\ Enter(r, g) /\ Finished(r)
       /\ eager' = eager /\ chan' = chan /\ pending' = pending /\ have' = have
       /\ verdicts' = verdicts /\ obeyed' = obeyed
  BY <1>1, <1>2, <1>4
<1>23. at' \in [JupiterProc -> Nat] /\ flag' \in [Proc -> {0, 1}] /\ PlanOk'
  BY <1>8, <1>11, <1>13
<1> QED  BY <1>4, <1>9, <1>16, <1>17, <1>18, <1>19, <1>20, <1>21, <1>22, <1>23, EnterKeeps

-------------------------------------------------------------------------------
\* The invariant is inductive.
LEMMA NothingYet ==
    ASSUME NEW p \in Proc, ip[p] = 1
    PROVE  Made(p) = {}
BY DEF Made, MadeAt

LEMMA InitInv ==
    ASSUME Init
    PROVE  Inv(<<0>>)
<1>1. /\ plan = <<>> /\ at = [r \in JupiterProc |-> 0] /\ eager \in Eager
      /\ segment = [p \in Proc |-> IF p \in JupiterProc THEN "idle" ELSE "exchange"]
      /\ ip = [p \in Proc |-> 1] /\ it = [p \in RadProc |-> 1]
      /\ picard = [p \in RadProc |-> 0] /\ flag = [p \in Proc |-> 0]
      /\ chan = [link \in Links |-> <<>>]
      /\ pending = [p \in RadProc |-> [f \in FieldSet |-> 0]]
      /\ have = [p \in RadProc |-> [f \in FieldSet |-> 0]]
      /\ verdicts = <<>> /\ obeyed = [p \in RadProc |-> 0]
  BY DEF Init, JUPITER!Init
<1>2. PICK S : S = <<0>>
  OBVIOUS
<1>3. S \in Seq(Nat) /\ Len(S) = 1 /\ S[1] = 0
  BY <1>2
<1>4. RoundBound \in Nat \ {0} /\ PicardMax \in Nat \ {0} /\ Eager \subseteq BOOLEAN
  BY BoundAssumption, ModeAssumption
<1>5. \A p \in Proc : ip[p] = 1 /\ Made(p) = {} /\ segment[p] \in {"idle", "exchange"}
  BY <1>1, NothingYet
<1>6. VarsOk
  <2>1. ASSUME NEW p \in Proc PROVE ip[p] \in 1 .. Len(ScriptTable[p][segment[p]]) + 1
    <3>1. segment[p] \in Segments
      BY <1>5 DEF Segments
    <3>2. PICK n \in Nat : n = Len(ScriptTable[p][segment[p]])
      BY <3>1, ScriptIs
    <3> QED  BY <1>5, <3>2
  <2>2. segment \in [Proc -> Segments]
    BY <1>1 DEF Segments
  <2>3. pending \in [RadProc -> [FieldSet -> {0, 1}]]
    BY <1>1
  <2>4. have \in [RadProc -> [FieldSet -> 0 .. RoundBound]]
    <3>1. 0 \in 0 .. RoundBound
      BY <1>4
    <3> QED  BY <1>1, <3>1
  <2>5. /\ eager \in BOOLEAN /\ eager \in Eager /\ at \in [JupiterProc -> Nat]
        /\ ip \in [Proc -> Nat] /\ it \in [RadProc -> Nat] /\ picard \in [RadProc -> Nat]
        /\ flag \in [Proc -> {0, 1}] /\ obeyed \in [RadProc -> Nat] /\ DOMAIN chan = Links
    BY <1>1, <1>4
  <2> QED  BY <2>1, <2>2, <2>3, <2>4, <2>5 DEF VarsOk
<1>7. PlanOk
  BY <1>1, <1>4 DEF PlanOk
<1>8. VerdictsOk(S)
  BY <1>1, <1>3, <1>4 DEF VerdictsOk
<1>9. ASSUME NEW r \in JupiterProc PROVE JupiterOk(r)
  <2>1. r \in Proc
    BY DEF Proc
  <2>2. segment[r] = "idle" /\ at[r] = 0 /\ Len(plan) = 0
    BY <1>1, <1>9, <2>1
  <2> QED  BY <2>2 DEF JupiterOk
<1>10. ASSUME NEW p \in RadProc PROVE RoundOk(S, p) /\ IterationOk(S, p) /\ HaveOk(p) /\ PostedOk(p)
  <2>1. p \in Proc /\ p \notin JupiterProc
    BY ProcIs DEF Proc
  <2>2. /\ segment[p] = "exchange" /\ it[p] = 1 /\ picard[p] = 0 /\ obeyed[p] = 0
        /\ Len(plan) = 0 /\ Len(verdicts) = 0 /\ Made(p) = {}
        /\ \A f \in FieldSet : pending[p][f] = 0
    BY <1>1, <1>5, <2>1
  <2>3. RoundOk(S, p)
    BY <1>3, <2>2 DEF RoundOk
  <2>4. IterationOk(S, p)
    BY <1>3, <2>2 DEF IterationOk
  <2>5. HaveOk(p)
    BY <2>2 DEF HaveOk
  <2>6. PostedOk(p)
    <3>1. \A j \in DOMAIN Fields : Fields[j] \in FieldSet
      BY FieldsAre
    <3> QED  BY <2>2, <3>1 DEF PostedOk
  <2> QED  BY <2>3, <2>4, <2>5, <2>6
<1>11. ASSUME NEW p \in Proc, NEW n \in Nat, NEW a \in Nat, n >= 1
       PROVE  ~Earlier(n, a, Round(p), Phase(p))
  <2>1. CASE p \in JupiterProc
    <3>1. Round(p) = 0
      BY <1>1, <2>1 DEF Round
    <3> QED  BY <1>11, <3>1 DEF Earlier
  <2>2. CASE p \notin JupiterProc
    <3>1. p \in RadProc
      BY <2>2, ProcIs
    <3>2. Round(p) = 1 /\ Phase(p) = 0
      BY <1>1, <2>2, <3>1 DEF Round, Phase
    <3> QED  BY <1>11, <3>2 DEF Earlier
  <2> QED  BY <2>1, <2>2
<1>12. ASSUME NEW s \in Proc, NEW d \in Proc, <<s, d>> \in Links PROVE LinkOk(S, s, d)
  <2>1. \A e \in Events(S, s, d) : e[1] \in Nat /\ e[2] \in Nat /\ e[1] >= 1
    BY DEF Events, Event, Real
  <2>2. SentSet(S, s, d) = {}
    <3>1. ASSUME NEW e \in Events(S, s, d) PROVE ~Sent(s, d, e)
      BY <1>5, <1>11, <2>1 DEF Sent
    <3> QED  BY <3>1 DEF SentSet
  <2>3. GotSet(S, s, d) = {}
    <3>1. ASSUME NEW e \in Events(S, s, d) PROVE ~Got(s, d, e)
      BY <1>5, <1>11, <2>1 DEF Got
    <3> QED  BY <3>1 DEF GotSet
  <2>4. chan[<<s, d>>] = <<>>
    BY <1>1, <1>12
  <2> QED  BY <2>2, <2>3, <2>4 DEF LinkOk, Chan
<1>13. Inv(S)
  BY <1>6, <1>7, <1>8, <1>9, <1>10, <1>12 DEF Inv
<1> QED  BY <1>2, <1>13

LEMMA StutterKeeps ==
    ASSUME NEW S, Inv(S), UNCHANGED vars
    PROVE  Inv(S)'
<1>0. VarsOk /\ VerdictsOk(S)
  BY DEF Inv
<1>1. /\ eager' = eager /\ plan' = plan /\ at' = at /\ segment' = segment /\ ip' = ip
      /\ it' = it /\ picard' = picard /\ flag' = flag /\ chan' = chan
      /\ pending' = pending /\ have' = have /\ verdicts' = verdicts /\ obeyed' = obeyed
  BY DEF vars
<1>2. VarsOk'
  BY <1>0, <1>1 DEF VarsOk
<1>3. Ext(S, S) /\ PlanOk' /\ VerdictsOk(S)'
  BY <1>1, SameExt
<1>4. \A q \in Proc : Quiet(q)
  BY <1>1 DEF Quiet, Made
<1>5. PICK p \in RadProc : p = Rad(0)
  BY RadInt
<1>6. p \in Proc /\ p \notin JupiterProc
  BY ProcIs DEF Proc
<1>7. Quiet(p)
  BY <1>4, <1>6
<1>8. /\ \A x \in Proc : SentSet(S, p, x)' = SentSet(S, p, x)
      /\ \A x \in Proc : GotSet(S, x, p)' = GotSet(S, x, p)
  BY <1>3, <1>6, <1>7, QuietSets
<1>9. /\ \A x \in Proc : <<p, x>> \in Links => LinkOk(S, p, x)'
      /\ \A x \in Proc : <<x, p>> \in Links => LinkOk(S, x, p)'
  BY <1>1, <1>3, <1>4, <1>6, <1>8, StillLinks
<1>10. RoundOk(S, p)' /\ IterationOk(S, p)'
  BY <1>1, <1>3, <1>7, QuietRound, QuietIteration
<1>11. HaveOk(p)' /\ PostedOk(p)'
  <2>1. HaveOk(p) /\ PostedOk(p)
    BY DEF Inv
  <2> QED  BY <1>7, <2>1, QuietHave
<1>12. \A s, d \in Proc : <<s, d>> \in Links /\ s # p /\ d # p => chan'[<<s, d>>] = chan[<<s, d>>]
  BY <1>1
<1> QED  BY <1>1, <1>2, <1>3, <1>4, <1>6, <1>9, <1>10, <1>11, <1>12, Moved

LEMMA NextKeeps ==
    ASSUME InOrder = TRUE, IInv, [Next]_vars
    PROVE  IInv'
<1>1. PICK S \in Seq(Nat) : Inv(S)
  BY DEF IInv
<1>2. \A T : Inv(T)' => T \in Seq(Nat)
  BY DEF Inv, VerdictsOk
<1>3. SUFFICES \E T : Inv(T)'
  BY <1>2 DEF IInv
<1>4. CASE UNCHANGED vars
  BY <1>1, <1>4, StutterKeeps
<1>5. CASE Next
  <2>1. ASSUME NEW p \in Proc, Decide(p) PROVE Inv(S)'
    BY <1>1, <2>1, EndJupiterSegmentKeeps, EndRadExchangeKeeps, BeginPicardKeeps, EndPicardKeeps
       DEF Decide
  <2>2. ASSUME NEW p \in Proc, Call(p) PROVE \E T : Inv(T)'
    <3>1. CASE DoSend(p)
      BY <1>1, <3>1, SendKeeps
    <3>2. CASE DoWait(p)
      BY <1>1, <3>2, WaitKeeps
    <3>3. CASE DoRecv(p)
      BY <1>1, <3>3, RecvKeeps
    <3>4. CASE PostFields(p)
      BY <1>1, <3>4, PostKeeps
    <3>5. CASE WaitLast(p)
      BY <1>1, <3>5, WaitLastKeeps
    <3>6. CASE Judge(p)
      BY <1>1, <3>6, JudgeKeeps
    <3>7. CASE p \in JupiterProc /\ BeginExchange(p)
      BY <1>1, <3>7, BeginExchangeKeeps
    <3>8. ASSUME NEW k \in DOMAIN Fields, FieldArrives(p, k) PROVE Inv(S)'
      BY <1>1, <3>8, ArriveKeeps
    <3> QED  BY <2>2, <3>1, <3>2, <3>3, <3>4, <3>5, <3>6, <3>7, <3>8 DEF Call
  <2>3. CASE Terminated
    BY <1>4, <2>3 DEF Terminated
  <2> QED  BY <1>5, <2>1, <2>2, <2>3 DEF Next
<1> QED  BY <1>4, <1>5

\* The invariant holds in every state that can be reached.
THEOREM CouplingInvariant ==
    ASSUME InOrder = TRUE
    PROVE  Spec => []IInv
<1>1. Init => IInv
  <2>1. <<0>> \in Seq(Nat)
    OBVIOUS
  <2> QED  BY <2>1, InitInv DEF IInv
<1>2. IInv /\ [Next]_vars => IInv'
  BY NextKeeps
<1> QED  BY <1>1, <1>2, PTL DEF Spec

-------------------------------------------------------------------------------
\* What follows from the invariant.
LEMMA BoundedTypes ==
    ASSUME NEW S, Inv(S)
    PROVE  TypeOK
<1>0. VarsOk /\ PlanOk
  BY DEF Inv
<1>1. PICK n \in Nat : /\ n = Len(plan) /\ n <= RoundBound /\ RoundBound \in Nat
                       /\ n = RoundBound => plan[RoundBound] = 1
  BY <1>0, PlanIs
<1>2. at \in [JupiterProc -> 0 .. RoundBound]
  <2>1. ASSUME NEW r \in JupiterProc PROVE at[r] \in 0 .. RoundBound
    <3>1. at[r] \in Nat /\ at[r] <= n
      BY <1>0, <1>1 DEF VarsOk, Inv, JupiterOk
    <3> QED  BY <1>1, <3>1
  <2> QED  BY <1>0, <2>1 DEF VarsOk
<1>3. it \in [RadProc -> 1 .. RoundBound]
  <2>1. ASSUME NEW p \in RadProc PROVE it[p] \in 1 .. RoundBound
    <3>1. PICK i \in Nat : i = it[p]
      BY <1>0 DEF VarsOk
    <3>2. i >= 1 /\ i <= n + 1 /\ (i > 1 => plan[i - 1] = 0)
      BY <1>1, <3>1 DEF Inv, RoundOk
    <3>3. i # RoundBound + 1
      <4>1. SUFFICES ASSUME i = RoundBound + 1 PROVE FALSE
        OBVIOUS
      <4>2. n = RoundBound /\ i - 1 = RoundBound
        BY <1>1, <3>2, <4>1
      <4>3. i > 1
        BY <1>1, <4>1, BoundAssumption
      <4> QED  BY <1>1, <3>2, <4>2, <4>3
    <3> QED  BY <1>1, <3>1, <3>2, <3>3
  <2> QED  BY <1>0, <2>1 DEF VarsOk
<1>4. picard \in [RadProc -> 0 .. PicardMax]
  <2>1. ASSUME NEW p \in RadProc PROVE picard[p] \in 0 .. PicardMax
    <3>1. picard[p] \in Nat /\ IterationOk(S, p)
      BY <1>0 DEF VarsOk, Inv
    <3>2. PicardMax \in Nat
      BY BoundAssumption
    <3> QED  BY <3>1, <3>2 DEF IterationOk
  <2> QED  BY <1>0, <2>1 DEF VarsOk
<1>5. obeyed \in [RadProc -> 0 .. Len(verdicts)]
  <2>1. Len(verdicts) \in Nat
    BY VerdictsAre DEF Inv
  <2>2. ASSUME NEW p \in RadProc PROVE obeyed[p] \in 0 .. Len(verdicts)
    <3>1. obeyed[p] \in Nat /\ obeyed[p] <= Len(verdicts)
      BY <1>0 DEF VarsOk, Inv, IterationOk
    <3> QED  BY <2>1, <3>1
  <2> QED  BY <1>0, <2>2 DEF VarsOk
<1>6. \A p \in Proc : ip[p] \in 1 .. Len(Ops(p)) + 1
  BY <1>0 DEF VarsOk, Ops
<1> QED  BY <1>0, <1>2, <1>3, <1>4, <1>5, <1>6 DEF TypeOK, VarsOk, PlanOk

LEMMA Matched ==
    ASSUME NEW S, Inv(S)
    PROVE  MessagesMatch
<1>1. ASSUME NEW p \in Proc, At(p, "recv"), Available(Cur(p).peer, p, Cur(p).tag) # {}
      PROVE  LET m == chan[<<Cur(p).peer, p>>][Min(Available(Cur(p).peer, p, Cur(p).tag))]
             IN  <<m.what, m.round, m.iteration>> = <<Cur(p).what, Round(p), Iteration(p)>>
  <2>1. PICK s, t, w : /\ s = Cur(p).peer /\ t = Cur(p).tag /\ w = Cur(p).what
                       /\ Cur(p) = Op("recv", s, t, w)
                       /\ s \in Proc /\ <<s, p>> \in Links
                       /\ Sends(s, segment[p], p, t, w) /\ ~Posts(segment[p], s, p, t, w)
    BY <1>1, RecvCur
  <2>2. s \in Proc /\ <<s, p>> \in Links /\ Available(s, p, t) # {}
    BY <1>1, <2>1
  <2>3. /\ Cur(p) = Op("recv", s, t, w) /\ Sends(s, segment[p], p, t, w)
        /\ ~Posts(segment[p], s, p, t, w)
    BY <2>1
  <2>4. PICK k, m : /\ k = Min(Available(s, p, t)) /\ m = chan[<<s, p>>][k]
                    /\ m.what = w /\ m.round = Round(p) /\ m.iteration = Iteration(p)
    BY <1>1, <2>2, <2>3, RecvHead
  <2> QED  BY <2>1, <2>4
<1> QED  BY <1>1 DEF MessagesMatch

LEMMA Fresh ==
    ASSUME NEW S, Inv(S)
    PROVE  FieldsFresh
BY DEF Inv, HaveOk, FieldsFresh

\* At the end every process is at the same moment, the last one.
LEMMA AllGone ==
    ASSUME NEW S, Inv(S)
    PROVE  NothingLeft
<1>0. VarsOk /\ PlanOk
  BY DEF Inv
<1>1. SUFFICES ASSUME \A p \in Proc : segment[p] = "done"
               PROVE  /\ \A link \in Links : chan[link] = <<>>
                      /\ \A p \in RadProc, f \in FieldSet : pending[p][f] = 0
  BY DEF NothingLeft
<1>2. PICK n \in Nat : /\ n = Len(plan) /\ \A i \in 1 .. n : plan[i] \in {0, 1}
                       /\ \A i \in 1 .. n : i < n => plan[i] = 0
  BY <1>0, PlanIs
<1>3. ASSUME NEW p \in Proc PROVE Round(p) = n /\ Phase(p) = 1 /\ Made(p) = {}
  <2>1. PICK i \in Nat : i = Round(p)
    BY PhaseIs
  <2>2. i >= 1 /\ i <= n /\ plan[i] = 1
    <3>1. CASE p \in JupiterProc
      <4>1. Round(p) = at[p] /\ JupiterOk(p)
        BY <3>1, PhaseIs DEF Inv
      <4> QED  BY <1>1, <1>2, <2>1, <4>1 DEF JupiterOk
    <3>2. CASE p \in RadProc
      <4>1. Round(p) = it[p] /\ RoundOk(S, p)
        BY <3>2, PhaseIs DEF Inv
      <4> QED  BY <1>1, <1>2, <2>1, <4>1 DEF RoundOk
    <3> QED  BY <3>1, <3>2, ProcIs
  <2>3. i = n
    <3>1. i \in 1 .. n
      BY <2>2
    <3> QED  BY <1>2, <2>2, <3>1
  <2> QED  BY <1>0, <1>1, <2>1, <2>3, PhaseIs, NothingMade
<1>4. ASSUME NEW link \in Links PROVE chan[link] = <<>>
  <2>1. PICK s \in Proc, d \in Proc : link = <<s, d>>
    BY DEF Links
  <2>2. PICK c : c = chan[<<s, d>>]
    OBVIOUS
  <2>3. Chan(c, SentSet(S, s, d), GotSet(S, s, d))
    BY <1>4, <2>1, <2>2 DEF Inv, LinkOk
  <2>4. ASSUME NEW e \in SentSet(S, s, d) PROVE e \in GotSet(S, s, d)
    <3>1. e \in Events(S, s, d) /\ Sent(s, d, e)
      BY DEF SentSet
    <3>2. Earlier(e[1], e[2], n, 1)
      BY <1>3, <3>1 DEF Sent
    <3>3. Got(s, d, e)
      BY <1>3, <3>2 DEF Got
    <3> QED  BY <3>1, <3>3 DEF GotSet
  <2>5. c \in Seq(Msg) /\ DOMAIN c = {}
    BY <2>3, <2>4 DEF Chan
  <2>6. c = <<>>
    BY <2>5
  <2> QED  BY <2>1, <2>2, <2>6
<1>5. ASSUME NEW p \in RadProc PROVE \A f \in FieldSet : pending[p][f] = 0
  <2>1. segment[p] # "fields"
    <3>1. p \in Proc
      BY DEF Proc
    <3> QED  BY <1>1, <3>1
  <2> QED  BY <2>1, NothingPending
<1> QED  BY <1>4, <1>5

\* Types: the rounds of the radiation program stay within JUPITER's plan.
THEOREM CouplingTypes ==
    ASSUME InOrder = TRUE
    PROVE  Spec => []TypeOK
<1>1. IInv => TypeOK
  BY BoundedTypes DEF IInv
<1> QED  BY <1>1, CouplingInvariant, PTL

\* Every receive takes the message that it is meant for, of its own round and iteration,
\* although the tags are used again and again and no two processes wait for each other.
THEOREM CouplingMessages ==
    ASSUME InOrder = TRUE
    PROVE  Spec => []MessagesMatch
<1>1. IInv => MessagesMatch
  BY Matched DEF IInv
<1> QED  BY <1>1, CouplingInvariant, PTL

\* In a Picard loop a radiation rank has the fields of its round, although a slave waits
\* for the last of its receives only.
THEOREM CouplingFields ==
    ASSUME InOrder = TRUE
    PROVE  Spec => []FieldsFresh
<1>1. IInv => FieldsFresh
  BY Fresh DEF IInv
<1> QED  BY <1>1, CouplingInvariant, PTL

\* When all processes have ended no message is under way, and no receive is posted.
THEOREM CouplingLeavesNothing ==
    ASSUME InOrder = TRUE
    PROVE  Spec => []NothingLeft
<1>1. IInv => NothingLeft
  BY AllGone DEF IInv
<1> QED  BY <1>1, CouplingInvariant, PTL

-------------------------------------------------------------------------------
\* The Picard loop runs in lock step: the verdict on an iteration is given
\* when every rank has obeyed the verdicts before it.

\* What has been received has been sent.
LEMMA HasBeenSent ==
    ASSUME NEW S, Inv(S), NEW s \in Proc, NEW d \in Proc, NEW x \in Events(S, s, d), Got(s, d, x)
    PROVE  Sent(s, d, x)
<1>1. \E t, w : Sends(s, SegOf(x[2]), d, t, w)
  BY DEF Events
<1>2. <<s, d>> \in Links
  BY <1>1, LinksAre
<1>3. LinkOk(S, s, d)
  BY <1>2 DEF Inv
<1>4. GotSet(S, s, d) \subseteq SentSet(S, s, d)
  BY <1>3 DEF LinkOk, Chan
<1>5. x \in GotSet(S, s, d)
  BY DEF GotSet
<1> QED  BY <1>4, <1>5 DEF SentSet

\* A process has come to a moment, or is past it.
Reached(q, n, a) == Earlier(n, a, Round(q), Phase(q)) \/ (n = Round(q) /\ a = Phase(q))

\* What p receives from s before it judges, s has sent.
LEMMA SenderThere ==
    ASSUME NEW S, Inv(S), NEW p \in Proc, segment[p] = "picard", NEW s \in Proc, NEW d \in Proc,
           NEW t, NEW w, Sends(s, "picard", d, t, w), Reached(d, Round(p), Phase(p)),
           Round(d) = Round(p) /\ Phase(d) = Phase(p) => Op("recv", s, t, w) \in Made(d)
    PROVE  /\ Reached(s, Round(p), Phase(p))
           /\ Round(s) = Round(p) /\ Phase(s) = Phase(p) => Op("send", d, t, w) \in Made(s)
<1>1. PICK e : e = <<Round(p), Phase(p), t, w>>
  OBVIOUS
<1>2. Sends(s, segment[p], d, t, w)
  OBVIOUS
<1>3. /\ e \in Events(S, s, d)
      /\ e[1] = Round(p) /\ e[2] = Phase(p) /\ e[3] = t /\ e[4] = w
  <2>1. t \in Int /\ w \in Whats
    BY <1>2, SendsIs
  <2>2. Round(p) \in Nat /\ Phase(p) \in Nat /\ SegOf(Phase(p)) = "picard"
    BY PhaseIs
  <2>3. e \in Event /\ e[1] = Round(p) /\ e[2] = Phase(p) /\ e[3] = t /\ e[4] = w
    BY <1>1, <2>1, <2>2 DEF Event
  <2>4. Real(S, Round(p), Phase(p))
    BY MomentReal
  <2>5. Sends(s, SegOf(e[2]), d, e[3], e[4]) /\ Real(S, e[1], e[2])
    BY <2>2, <2>3, <2>4
  <2> QED  BY <2>3, <2>5 DEF Events
<1>4. Got(s, d, e)
  BY <1>3 DEF Got, Reached
<1>5. Sent(s, d, e)
  BY <1>3, <1>4, HasBeenSent
<1>6. Round(s) \in Nat /\ Phase(s) \in Nat
  BY PhaseIs
<1> QED  BY <1>3, <1>5, <1>6 DEF Sent, Reached, Earlier

\* When rank 0 judges, it has received from every master, and every master from its slaves.
LEMMA AllThere ==
    ASSUME NEW S, Inv(S), NEW p \in Proc, At(p, "judge"), NEW q \in RadProc
    PROVE  Reached(q, Round(p), Phase(p))
<1>0. VarsOk /\ q \in Proc
  BY ProcIs DEF Inv, Proc
<1>1. /\ p \in RadProc /\ segment[p] = "picard" /\ p = Rad(0)
      /\ Cur(p) = Op("judge", 0, 0, "")
  BY JudgeCur
<1>2. \A o : Active(o) /\ Has(Ops(p), o) /\ Stage(o) < 7 => o \in Made(p)
  <2>1. PICK k : k = "judge"
    OBVIOUS
  <2>2. k # "wait" /\ At(p, k)
    BY <2>1
  <2>3. \A o : Active(o) /\ Has(Ops(p), o) /\ Stage(o) < Stage(Cur(p)) => o \in Made(p)
    BY <1>0, <2>2, CurIs
  <2>4. Stage(Cur(p)) = 7
    BY <1>1, OtherStages
  <2> QED  BY <2>3, <2>4
<1>3. Phase(p) \in Nat /\ Round(p) \in Nat /\ Phase(p) >= 2
  BY <1>1, PhaseIs
<1>4. ASSUME NEW m \in JupiterProc, Rad(m) # p
      PROVE  /\ Reached(Rad(m), Round(p), Phase(p))
             /\ Round(Rad(m)) = Round(p) /\ Phase(Rad(m)) = Phase(p) =>
                   Op("send", p, 10, "error") \in Made(Rad(m))
  <2>1. m \in RadRank /\ Rad(m) \in Proc /\ m \in 0 .. N - 1
    BY RadInt
  <2>2. PICK w : w = "error"
    OBVIOUS
  <2>3. PICK t : t = 10
    OBVIOUS
  <2>4. Iterated(Rad(m), p, t, w)
    BY <1>1, <1>4, <2>1, <2>2, <2>3 DEF Iterated
  <2>5. Sends(Rad(m), "picard", p, t, w)
    BY <2>4 DEF Sends
  <2>6. ~Posts(segment[p], Rad(m), p, t, w)
    BY <1>1 DEF Posts
  <2>7. Has(Ops(p), Op("recv", Rad(m), t, w))
    BY <1>0, <1>1, <2>5, <2>6, RecvCall
  <2>8. PICK o : o = Op("recv", Rad(m), t, w)
    OBVIOUS
  <2>9. Stage(o) = 6 /\ Active(o)
    BY <2>2, <2>8, StageOf, StagesAre
  <2>10. o \in Made(p)
    <3>1. Stage(o) < 7
      BY <2>9
    <3> QED  BY <1>2, <2>7, <2>8, <2>9, <3>1
  <2>11. Reached(p, Round(p), Phase(p))
    BY DEF Reached
  <2>12. /\ Reached(Rad(m), Round(p), Phase(p))
         /\ Round(Rad(m)) = Round(p) /\ Phase(Rad(m)) = Phase(p) =>
               Op("send", p, t, w) \in Made(Rad(m))
    BY <1>1, <2>1, <2>5, <2>8, <2>10, <2>11, SenderThere
  <2> QED  BY <2>2, <2>3, <2>12
<1>5. CASE \E m \in JupiterProc : q = Rad(m)
  BY <1>4, <1>5 DEF Reached
<1>6. CASE MasterSlave(Rad(master_lat(myrank(q))), q)
  <2>1. PICK s : s = Rad(master_lat(myrank(q)))
    OBVIOUS
  <2>2. MasterSlave(s, q)
    BY <1>6, <2>1
  <2>3. s \in RadProc
    BY <2>2, MasterSlaveProcs
  <2>4. PICK m \in JupiterProc : m = myrank(s) /\ s = Rad(m)
    BY <2>2, <2>3, MasterIs
  <2>5. s \in Proc
    BY <2>3, ProcIs DEF Proc
  <2>6. Reached(s, Round(p), Phase(p))
    BY <1>4, <2>4 DEF Reached
  <2>7. PICK w : w = "dE"
    OBVIOUS
  <2>8. PICK t : t = 10
    OBVIOUS
  <2>9. Iterated(q, s, t, w)
    BY <2>2, <2>7, <2>8 DEF Iterated
  <2>10. Sends(q, "picard", s, t, w)
    BY <2>9 DEF Sends
  <2>11. ASSUME Round(s) = Round(p), Phase(s) = Phase(p)
         PROVE  Op("recv", q, t, w) \in Made(s)
    <3>1. segment[s] = "picard"
      <4>1. Phase(s) >= 2
        BY <1>3, <2>11
      <4>2. s \notin JupiterProc
        BY <2>3, <2>5, ProcIs
      <4> QED  BY <2>5, <4>1, <4>2, PhaseIs DEF Segments
    <3>2. ~Posts(segment[s], q, s, t, w)
      BY <3>1 DEF Posts
    <3>3. PICK o : o = Op("recv", q, t, w)
      OBVIOUS
    <3>4. Has(Ops(s), o)
      <4>1. Has(Ops(s), Op("recv", q, t, w))
        BY <1>0, <2>5, <2>10, <3>1, <3>2, RecvCall
      <4> QED  BY <3>3, <4>1
    <3>5. Stage(o) = 4 /\ Active(o)
      BY <2>7, <3>3, StageOf, StagesAre
    <3>6. CASE s = p
      <4>1. Stage(o) < 7
        BY <3>5
      <4> QED  BY <1>2, <3>3, <3>4, <3>5, <3>6, <4>1
    <3>7. CASE s # p
      <4>1. PICK x : x = Op("send", p, 10, "error")
        OBVIOUS
      <4>2. x \in Made(s)
        BY <1>4, <2>4, <2>11, <3>7, <4>1
      <4>3. Stage(x) = 6
        BY <4>1, StageOf, StagesAre
      <4>4. Stage(o) < Stage(x)
        BY <3>5, <4>3
      <4>5. o \in Made(s)
        BY <1>0, <2>5, <3>4, <3>5, <4>2, <4>4, MadeNow
      <4> QED  BY <3>3, <4>5
    <3> QED  BY <3>6, <3>7
  <2> QED  BY <1>0, <1>1, <2>5, <2>6, <2>10, <2>11, SenderThere
<1> QED  BY <1>5, <1>6, MasterOrSlave

\* So all have obeyed what has been decided.
LEMMA AllObeyed ==
    ASSUME NEW S, Inv(S), NEW p \in Proc, At(p, "judge"), NEW q \in RadProc
    PROVE  obeyed[q] = Len(verdicts)
<1>0. VarsOk /\ VerdictsOk(S) /\ q \in Proc
  BY ProcIs DEF Inv, Proc
<1>1. p \in RadProc /\ segment[p] = "picard" /\ p = Rad(0) /\ ~Heard(p)
  BY JudgeCur
<1>2. PICK n \in Nat, k \in Nat : n = it[p] /\ k = picard[p]
  BY <1>0, <1>1 DEF VarsOk
<1>3. PICK i \in Nat, j \in Nat : i = it[q] /\ j = picard[q]
  BY <1>0 DEF VarsOk
<1>4. PICK b \in Nat : b = obeyed[q]
  BY <1>0 DEF VarsOk
<1>5. /\ RoundOk(S, p) /\ IterationOk(S, p) /\ RoundOk(S, q) /\ IterationOk(S, q)
  BY <1>1 DEF Inv
<1>6. n >= 1 /\ n <= Len(S)
  BY <1>2, <1>5 DEF RoundOk
<1>7. /\ k >= 1 /\ k <= PicardMax /\ obeyed[p] = S[n] + k - 1
      /\ \A m \in 1 .. k - 1 : verdicts[S[n] + m] = 0
  BY <1>1, <1>2, <1>5 DEF IterationOk
<1>8. obeyed[p] = Len(verdicts)
  BY <1>1, <1>5 DEF IterationOk
<1>9. Len(verdicts) = S[n] + k - 1
  BY <1>7, <1>8
<1>10. n = Len(S)
  <2>1. /\ n >= 1 /\ n <= Len(S) /\ k >= 1 /\ k <= PicardMax
        /\ VerdictsOk(S) /\ \A m \in 1 .. k - 1 : verdicts[S[n] + m] = 0
    BY <1>0, <1>6, <1>7
  <2> QED  BY ONLY <2>1, <1>9, n \in Nat, k \in Nat, JudgedRound
<1>11. i <= n
  BY <1>3, <1>5, <1>10 DEF RoundOk
<1>12. Round(p) = n /\ Phase(p) = k + 1 /\ Round(q) = i
  BY <1>0, <1>1, <1>2, <1>3, PhaseIs
<1>13. Reached(q, n, k + 1)
  BY <1>12, AllThere
<1>14. i = n /\ k + 1 <= Phase(q)
  <2>1. Phase(q) \in Nat
    BY <1>0, PhaseIs
  <2> QED  BY <1>11, <1>12, <1>13, <2>1 DEF Reached, Earlier
<1>15. segment[q] = "picard" /\ Phase(q) = j + 1
  <2>1. Phase(q) >= 2
    BY <1>0, <1>7, <1>14, PhaseIs
  <2>2. q \notin JupiterProc
    BY <1>0, ProcIs
  <2>3. segment[q] = "picard"
    BY <1>0, <2>1, <2>2, PhaseIs DEF Segments
  <2> QED  BY <1>0, <1>3, <2>3, PhaseIs
<1>16. k <= j
  BY <1>14, <1>15
<1>17. PICK a \in Nat, v \in Nat : a = S[n] /\ v = Len(verdicts)
  <2>1. n \in 1 .. Len(S) /\ S \in Seq(Nat) /\ verdicts \in Seq({0, 1})
    BY <1>0, <1>6, <1>10 DEF VerdictsOk
  <2> QED  BY <2>1
<1>18. b = a + j - 1 \/ b = a + j
  BY <1>3, <1>4, <1>5, <1>14, <1>15, <1>17 DEF IterationOk
<1>19. b <= v
  BY <1>4, <1>5, <1>17 DEF IterationOk
<1>20. v = a + k - 1
  BY <1>9, <1>17
<1>21. b = v
  BY <1>16, <1>18, <1>19, <1>20
<1> QED  BY <1>4, <1>17, <1>21

\* Every step of the protocol decides, obeys or leaves the Picard loop as it is.
LEMMA NextInLockStep ==
    ASSUME InOrder = TRUE, IInv, [Next]_vars
    PROVE  [Picard!Next]_(Picard!vars)
<1>1. PICK S \in Seq(Nat) : Inv(S)
  BY DEF IInv
<1>2. SUFFICES ASSUME ~(verdicts' = verdicts /\ obeyed' = obeyed) PROVE Picard!Next
  BY DEF Picard!vars
<1>3. Next
  BY <1>2 DEF vars
<1>4. PICK p \in Proc : DoRecv(p) \/ Judge(p)
  <2>1. \A p \in Proc : ~Decide(p)
    BY <1>2 DEF Decide, EndJupiterSegment, EndRadExchange, BeginPicard, EndPicard
  <2>2. ~Terminated
    BY <1>2 DEF Terminated, vars
  <2>3. PICK p \in Proc : Call(p)
    BY <1>3, <2>1, <2>2 DEF Next
  <2>4. DoRecv(p) \/ Judge(p)
    BY <1>2, <2>3 DEF Call, DoSend, DoWait, PostFields, WaitLast, BeginExchange, FieldArrives
  <2> QED  BY <2>4
<1>5. CASE Judge(p)
  <2>1. At(p, "judge") /\ obeyed' = [obeyed EXCEPT ![p] = @ + 1]
        /\ \E v \in {0, 1} : verdicts' = Append(verdicts, v)
    BY <1>5 DEF Judge
  <2>2. p = Rad(0)
    BY <1>1, <2>1, JudgeCur
  <2>3. \A q \in RadProc : obeyed[q] = Len(verdicts)
    BY <1>1, <2>1, AllObeyed
  <2>4. Picard!Decide
    BY <2>1, <2>2, <2>3 DEF Picard!Decide
  <2> QED  BY <2>4 DEF Picard!Next
<1>6. CASE DoRecv(p)
  <2>1. /\ At(p, "recv") /\ verdicts' = verdicts
        /\ obeyed' = IF Cur(p).what = "iexit" THEN [obeyed EXCEPT ![p] = @ + 1] ELSE obeyed
    BY <1>6 DEF DoRecv
  <2>2. Cur(p).what = "iexit" /\ obeyed' = [obeyed EXCEPT ![p] = @ + 1]
    BY <1>2, <2>1
  <2>3. PICK s, t, w : s = Cur(p).peer /\ t = Cur(p).tag /\ w = Cur(p).what
                       /\ Sends(s, segment[p], p, t, w)
    BY <1>1, <2>1, RecvCur
  <2>4. w = "iexit"
    BY <2>2, <2>3
  <2>5. p \in RadProc
    BY <2>3, <2>4, RecvWhat
  <2>6. Inv(S)'
    BY <1>1, <1>6, RecvKeeps
  <2>7. obeyed'[p] <= Len(verdicts')
    BY <2>5, <2>6 DEF Inv, IterationOk
  <2>8. obeyed \in [RadProc -> Nat] /\ Len(verdicts) \in Nat
    <3>1. verdicts \in Seq({0, 1})
      BY <1>1 DEF Inv, VerdictsOk
    <3> QED  BY <1>1, <3>1 DEF Inv, VarsOk
  <2>9. obeyed[p] < Len(verdicts)
    BY <2>1, <2>2, <2>5, <2>7, <2>8
  <2>10. Picard!Obey(p)
    BY <2>1, <2>2, <2>9 DEF Picard!Obey
  <2> QED  BY <2>5, <2>10 DEF Picard!Next
<1> QED  BY <1>4, <1>5, <1>6

\* The Picard iteration implements LockStep: rank 0 gives a verdict only when every rank,
\* master or slave, has obeyed all the verdicts before, and no rank obeys one that has not
\* been given.
THEOREM CouplingInLockStep ==
    ASSUME InOrder = TRUE
    PROVE  Spec => PicardInLockStep
<1>1. Init => Picard!Init
  BY DEF Init, Picard!Init
<1>2. IInv /\ [Next]_vars => [Picard!Next]_(Picard!vars)
  BY NextInLockStep
<1> QED  BY <1>1, <1>2, CouplingInvariant, PTL DEF Spec, PicardInLockStep, Picard!Spec
===============================================================================
