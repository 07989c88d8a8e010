-------------------------- MODULE HaloExchangeProofs --------------------------
(***************************************************************************)
(* Proofs about HaloExchange, for any decomposition of the domain, any     *)
(* extents and any thickness of the halo.                                  *)
(***************************************************************************)
EXTENDS HaloExchange, FiniteSetTheorems, TLAPS

-------------------------------------------------------------------------------
(***************************************************************************)
(* The decomposition: ranks and their places.                              *)
(***************************************************************************)
Opp(s) == <<s[1], -s[2]>>

LEMMA Division ==
    ASSUME NEW n \in Nat \ {0}, NEW a \in Int
    PROVE  /\ a % n \in 0 .. n - 1
           /\ a \div n \in Int
           /\ a = n * (a \div n) + (a % n)
<1>1. a % n \in 0 .. n - 1
  OBVIOUS
<1>2. a \div n \in Int
  OBVIOUS
<1>3. a = n * (a \div n) + (a % n)
  OBVIOUS
<1> QED
  BY <1>1, <1>2, <1>3

LEMMA Quotient ==
    ASSUME NEW n \in Nat \ {0}, NEW k \in Int, NEW q \in Int, NEW m \in 0 .. n - 1,
           n * q + m >= 0, n * q + m < n * k
    PROVE  q \in 0 .. k - 1
<1>1. CASE q < 0
  <2>1. n * q <= n * (-1)
    BY <1>1
  <2> QED
    BY <2>1
<1>2. CASE q >= k
  <2>1. n * q >= n * k
    BY <1>2
  <2> QED
    BY <2>1
<1> QED
  BY <1>1, <1>2

LEMMA LinkExists ==
    ASSUME NEW r \in Rank, NEW s \in Side, HasNeighbour(r, s)
    PROVE  <<r, nrk(r, s)>> \in Links
<1> DEFINE x == <<r, s>>
<1>1. x \in {y \in Rank \X Side : HasNeighbour(y[1], y[2])}
  OBVIOUS
<1>2. <<r, nrk(r, s)>> = <<x[1], nrk(x[1], x[2])>>
  OBVIOUS
<1> QED
  BY <1>1, <1>2 DEF Links
LEMMA Encoded ==
    ASSUME NEW x \in 0 .. npe_x - 1, NEW y \in 0 .. npe_y - 1, NEW z \in 0 .. npe_z - 1
    PROVE  LET r == npe_xy * z + (npe_x * y + x)
           IN  r \in Rank /\ Place(r) = <<x, y, z>>
<1> DEFINE w == npe_x * y + x
           r == npe_xy * z + w
<1>1. npe_x \in Nat \ {0} /\ npe_y \in Nat \ {0} /\ npe_z \in Nat \ {0}
  BY RankAssumption
<1>2. w \in 0 .. npe_x * npe_y - 1
  BY <1>1
<1>3. npe_xy \in Nat \ {0} /\ npe_xy = npe_x * npe_y
  BY <1>1 DEF npe_xy
<1>4. r \in 0 .. npe_xy * npe_z - 1
  <2> HIDE DEF w
  <2> QED
    BY <1>1, <1>2, <1>3
<1>5. w % npe_x = x /\ w \div npe_x = y
  BY <1>1
<1>6. r % npe_xy = w /\ r \div npe_xy = z
  <2> HIDE DEF w
  <2> QED
    BY <1>1, <1>2, <1>3
<1> QED
  BY <1>4, <1>5, <1>6 DEF Place, Rank

LEMMA Decoded ==
    ASSUME NEW r \in Rank
    PROVE  /\ Place(r)[1] \in 0 .. npe_x - 1
           /\ Place(r)[2] \in 0 .. npe_y - 1
           /\ Place(r)[3] \in 0 .. npe_z - 1
           /\ r = npe_xy * Place(r)[3] + (npe_x * Place(r)[2] + Place(r)[1])
<1> DEFINE w == r % npe_xy
           z == r \div npe_xy
           x == w % npe_x
           y == w \div npe_x
<1>1. npe_x \in Nat \ {0} /\ npe_y \in Nat \ {0} /\ npe_z \in Nat \ {0}
  BY RankAssumption
<1>2. npe_xy \in Nat \ {0} /\ npe_xy = npe_x * npe_y
  BY <1>1 DEF npe_xy
<1>3. r \in Int /\ r \in 0 .. npe_xy * npe_z - 1
  BY <1>1, <1>2 DEF Rank
<1>4. w \in 0 .. npe_xy - 1 /\ z \in Int /\ r = npe_xy * z + w
  BY <1>2, <1>3, Division
<1>5. w \in Int
  BY <1>2, <1>4
<1>6. x \in 0 .. npe_x - 1 /\ y \in Int /\ w = npe_x * y + x
  <2> HIDE DEF w
  <2> QED
    BY <1>1, <1>5, Division
<1>7. z \in 0 .. npe_z - 1
  <2> HIDE DEF w, z
  <2>1. npe_xy * z + w >= 0 /\ npe_xy * z + w < npe_xy * npe_z
    BY <1>1, <1>2, <1>3, <1>4
  <2> QED
    BY <1>1, <1>2, <1>4, <2>1, Quotient
<1>8. y \in 0 .. npe_y - 1
  <2> HIDE DEF w, x, y
  <2>1. npe_x * y + x >= 0 /\ npe_x * y + x < npe_x * npe_y
    BY <1>1, <1>2, <1>4, <1>6
  <2> QED
    BY <1>1, <1>6, <2>1, Quotient
<1>9. Place(r) = <<x, y, z>>
  BY DEF Place
<1> QED
  BY <1>4, <1>6, <1>7, <1>8, <1>9

LEMMA Sizes ==
    ASSUME NEW a \in Axis
    PROVE  Ranks[a] \in Nat \ {0} /\ Extent[a] \in Nat \ {0} /\ Stride[a] \in Int
<1>1. npe_x \in Nat \ {0} /\ npe_y \in Nat \ {0} /\ npe_z \in Nat \ {0}
  BY RankAssumption
<1>2. nx \in Nat \ {0} /\ ny \in Nat \ {0} /\ nz \in Nat \ {0}
  BY CellAssumption
<1>3. npe_xy \in Int
  BY <1>1 DEF npe_xy
<1>4. a = 1 \/ a = 2 \/ a = 3
  BY DEF Axis
<1> QED
  BY <1>1, <1>2, <1>3, <1>4 DEF Ranks, Extent, Stride

LEMMA PlaceInRanks ==
    ASSUME NEW r \in Rank, NEW a \in Axis
    PROVE  Place(r)[a] \in 0 .. Ranks[a] - 1 /\ Place(r)[a] \in Int
<1>1. a = 1 \/ a = 2 \/ a = 3
  BY DEF Axis
<1>2. npe_x \in Nat \ {0} /\ npe_y \in Nat \ {0} /\ npe_z \in Nat \ {0}
  BY RankAssumption
<1> QED
  BY <1>1, <1>2, Decoded DEF Ranks

LEMMA SideIs ==
    ASSUME NEW s \in Side
    PROVE  /\ s[1] \in Axis
           /\ s[2] = -1 \/ s[2] = 1
           /\ s = <<s[1], s[2]>>
           /\ Opp(s) \in Side
           /\ Opp(s)[1] = s[1]
           /\ Opp(s)[2] = -s[2]
BY DEF Side, Opp

\* The place of a neighbour is one further in the direction of the side.
LEMMA Neighbour ==
    ASSUME NEW r \in Rank, NEW s \in Side, HasNeighbour(r, s)
    PROVE  /\ nrk(r, s) \in Rank
           /\ \A a \in Axis : Place(nrk(r, s))[a] =
                IF a = s[1] THEN Place(r)[a] + s[2] ELSE Place(r)[a]
<1> DEFINE x == Place(r)[1]
           y == Place(r)[2]
           z == Place(r)[3]
           q == nrk(r, s)
<1>1. x \in 0 .. npe_x - 1 /\ y \in 0 .. npe_y - 1 /\ z \in 0 .. npe_z - 1
  BY Decoded
<1>2. r = npe_xy * z + (npe_x * y + x)
  BY Decoded
<1>3. npe_x \in Int /\ npe_y \in Int /\ npe_z \in Int /\ npe_xy \in Int
  BY RankAssumption DEF npe_xy
<1>4. s[1] \in {1, 2, 3} /\ s[2] \in Int
  BY SideIs DEF Axis
<1> HIDE DEF x, y, z, q
<1>5. CASE s[1] = 1
  <2>1. x + s[2] \in 0 .. npe_x - 1
    BY <1>5 DEF HasNeighbour, x, Ranks
  <2>2. q = npe_xy * z + (npe_x * y + (x + s[2]))
    BY <1>1, <1>2, <1>3, <1>4, <1>5 DEF nrk, Stride, q
  <2>3. q \in Rank /\ Place(q) = <<x + s[2], y, z>>
    BY <1>1, <2>1, <2>2, Encoded
  <2> QED
    BY <1>5, <2>3 DEF x, y, z, q, Axis
<1>6. CASE s[1] = 2
  <2>1. y + s[2] \in 0 .. npe_y - 1
    BY <1>6 DEF HasNeighbour, y, Ranks
  <2>2. q = npe_xy * z + (npe_x * (y + s[2]) + x)
    BY <1>1, <1>2, <1>3, <1>4, <1>6 DEF nrk, Stride, q
  <2>3. q \in Rank /\ Place(q) = <<x, y + s[2], z>>
    BY <1>1, <2>1, <2>2, Encoded
  <2> QED
    BY <1>6, <2>3 DEF x, y, z, q, Axis
<1>7. CASE s[1] = 3
  <2>1. z + s[2] \in 0 .. npe_z - 1
    BY <1>7 DEF HasNeighbour, z, Ranks
  <2>2. q = npe_xy * (z + s[2]) + (npe_x * y + x)
    BY <1>1, <1>2, <1>3, <1>4, <1>7 DEF nrk, Stride, q
  <2>3. q \in Rank /\ Place(q) = <<x, y, z + s[2]>>
    BY <1>1, <2>1, <2>2, Encoded
  <2> QED
    BY <1>7, <2>3 DEF x, y, z, q, Axis
<1> QED
  BY <1>4, <1>5, <1>6, <1>7

\* Neighbours are neighbours of each other, at opposite sides.
LEMMA Back ==
    ASSUME NEW r \in Rank, NEW s \in Side, HasNeighbour(r, s)
    PROVE  /\ nrk(r, s) \in Rank /\ Opp(s) \in Side
           /\ HasNeighbour(nrk(r, s), Opp(s))
           /\ nrk(nrk(r, s), Opp(s)) = r
           /\ Opp(Opp(s)) = s
<1> DEFINE q == nrk(r, s)
<1>1. /\ q \in Rank /\ Opp(s) \in Side /\ Opp(s)[1] = s[1] /\ Opp(s)[2] = -s[2]
      /\ s[1] \in Axis /\ (s[2] = -1 \/ s[2] = 1)
  BY Neighbour, SideIs
<1>2. Place(q)[s[1]] = Place(r)[s[1]] + s[2]
  BY <1>1, Neighbour
<1>3. Place(r)[s[1]] \in 0 .. Ranks[s[1]] - 1 /\ Ranks[s[1]] \in Int
  BY <1>1, PlaceInRanks, Sizes
<1>4. HasNeighbour(q, Opp(s))
  <2> HIDE DEF q
  <2> QED
    BY <1>1, <1>2, <1>3 DEF HasNeighbour
<1>5. nrk(q, Opp(s)) = r
  <2>1. r \in Int
    BY RankAssumption DEF Rank, npe_xy
  <2> QED
    BY <1>1, <2>1, Sizes DEF nrk
<1>6. Opp(Opp(s)) = s
  BY <1>1, SideIs DEF Opp
<1> QED
  BY <1>1, <1>4, <1>5, <1>6

\* Two neighbours of a rank are at two sides of it.
LEMMA SideUnique ==
    ASSUME NEW r \in Rank, NEW s \in Side, NEW t \in Side,
           HasNeighbour(r, s), HasNeighbour(r, t), nrk(r, s) = nrk(r, t)
    PROVE  s = t
<1>1. /\ s[1] \in Axis /\ t[1] \in Axis /\ s[2] \in {-1, 1} /\ t[2] \in {-1, 1}
      /\ s = <<s[1], s[2]>> /\ t = <<t[1], t[2]>>
  BY SideIs
<1>2. Place(nrk(r, s))[s[1]] = Place(r)[s[1]] + s[2]
  BY <1>1, Neighbour
<1>3. Place(nrk(r, t))[s[1]] =
          IF s[1] = t[1] THEN Place(r)[s[1]] + t[2] ELSE Place(r)[s[1]]
  BY <1>1, Neighbour
<1>4. Place(r)[s[1]] \in Int
  BY <1>1, PlaceInRanks
<1>5. s[1] = t[1] /\ s[2] = t[2]
  BY <1>1, <1>2, <1>3, <1>4
<1> QED
  BY <1>1, <1>5

-------------------------------------------------------------------------------
(***************************************************************************)
(* Cells of the local array, and what a message holds of them.             *)
(***************************************************************************)
Triple == Int \X Int \X Int
Size(a) == stm + Extent[a] + stp

LEMMA CellIs ==
    ASSUME NEW c
    PROVE  c \in Local <=> /\ c \in Triple
                           /\ \A a \in Axis : c[a] \in 0 .. Size(a) - 1
<1>1. nx \in Int /\ ny \in Int /\ nz \in Int /\ stm \in Int
  BY CellAssumption, HaloAssumption
<1>2. Axis = {1, 2, 3}
  BY DEF Axis
<1>3. Size(1) = stm + nx + stp /\ Size(2) = stm + ny + stp /\ Size(3) = stm + nz + stp
  BY DEF Size, Extent
<1>4. Size(1) \in Int /\ Size(2) \in Int /\ Size(3) \in Int
  BY <1>1, <1>3 DEF stp
<1>5. Local = (0 .. Size(1) - 1) \X (0 .. Size(2) - 1) \X (0 .. Size(3) - 1)
  <2>1. Local = (0 .. stm + nx + stp - 1) \X (0 .. stm + ny + stp - 1)
                \X (0 .. stm + nz + stp - 1)
    BY DEF Local
  <2> HIDE DEF Size
  <2>2. /\ stm + nx + stp - 1 = Size(1) - 1
        /\ stm + ny + stp - 1 = Size(2) - 1
        /\ stm + nz + stp - 1 = Size(3) - 1
    BY <1>1, <1>3 DEF stp
  <2> QED
    BY Zenon, <2>1, <2>2
<1> HIDE DEF Size
<1>6. ASSUME c \in Local
      PROVE  c \in Triple /\ \A a \in Axis : c[a] \in 0 .. Size(a) - 1
  <2>1. /\ c = <<c[1], c[2], c[3]>> /\ c[1] \in 0 .. Size(1) - 1
        /\ c[2] \in 0 .. Size(2) - 1 /\ c[3] \in 0 .. Size(3) - 1
    BY <1>5, <1>6
  <2> QED
    BY <1>2, <1>4, <2>1 DEF Triple
<1>7. ASSUME c \in Triple, \A a \in Axis : c[a] \in 0 .. Size(a) - 1
      PROVE  c \in Local
  <2>1. /\ c[1] \in 0 .. Size(1) - 1
        /\ c[2] \in 0 .. Size(2) - 1 /\ c[3] \in 0 .. Size(3) - 1
    BY <1>2, <1>7
  <2>2. c = <<c[1], c[2], c[3]>>
    BY <1>7 DEF Triple
  <2> QED
    BY <1>5, <2>1, <2>2
<1> QED
  BY <1>6, <1>7

LEMMA SameTriple ==
    ASSUME NEW x \in Triple, NEW y \in Triple,
           \A a \in Axis : x[a] = y[a]
    PROVE  x = y
<1>1. x = <<x[1], x[2], x[3]>> /\ y = <<y[1], y[2], y[3]>>
  BY DEF Triple
<1> QED
  BY <1>1 DEF Axis

LEMMA ShiftedIs ==
    ASSUME NEW c \in Triple, NEW a \in Axis, NEW k \in Int
    PROVE  /\ Shifted(c, a, k) \in Triple
           /\ \A b \in Axis : Shifted(c, a, k)[b] = IF b = a THEN c[a] + k ELSE c[b]
BY DEF Shifted, Axis, Triple

LEMMA ShiftedCell ==
    ASSUME NEW c \in Local, NEW a \in Axis, NEW k \in Int, c[a] + k \in 0 .. Size(a) - 1
    PROVE  Shifted(c, a, k) \in Local
<1>1. c \in Triple /\ \A b \in Axis : c[b] \in 0 .. Size(b) - 1
  BY CellIs
<1>2. Shifted(c, a, k) \in Triple
  BY <1>1, ShiftedIs
<1>3. ASSUME NEW b \in Axis
      PROVE  Shifted(c, a, k)[b] \in 0 .. Size(b) - 1
  <2>1. Shifted(c, a, k)[b] = IF b = a THEN c[a] + k ELSE c[b]
    BY <1>1, ShiftedIs
  <2> QED
    BY <1>1, <2>1
<1> QED
  BY <1>2, <1>3, CellIs

\* The same cell comes back.
LEMMA ShiftedBack ==
    ASSUME NEW c \in Triple, NEW a \in Axis, NEW k \in Int, NEW m \in Int
    PROVE  Shifted(Shifted(c, a, k), a, m) = Shifted(c, a, k + m)
<1> DEFINE d == Shifted(c, a, k)
<1>1. d \in Triple /\ \A b \in Axis : d[b] = IF b = a THEN c[a] + k ELSE c[b]
  BY ShiftedIs
<1>2. c[a] \in Int
  BY DEF Axis, Triple
<1> HIDE DEF d
<1>3. /\ Shifted(d, a, m) \in Triple
      /\ \A b \in Axis : Shifted(d, a, m)[b] = IF b = a THEN d[a] + m ELSE d[b]
  BY <1>1, ShiftedIs
<1>4. /\ Shifted(c, a, k + m) \in Triple
      /\ \A b \in Axis : Shifted(c, a, k + m)[b] = IF b = a THEN c[a] + (k + m) ELSE c[b]
  BY ShiftedIs
<1>5. \A b \in Axis : Shifted(d, a, m)[b] = Shifted(c, a, k + m)[b]
  BY <1>1, <1>2, <1>3, <1>4
<1>6. Shifted(d, a, m) = Shifted(c, a, k + m)
  BY <1>3, <1>4, <1>5, SameTriple
<1> QED
  BY <1>6 DEF d

LEMMA GlobalIs ==
    ASSUME NEW r \in Rank, NEW c \in Local
    PROVE  /\ Global(r, c) \in Triple
           /\ \A a \in Axis : Global(r, c)[a] = Place(r)[a] * Extent[a] + c[a] - stm
<1>1. \A a \in Axis : c[a] \in Int
  BY CellIs DEF Axis, Triple
<1>2. \A a \in Axis : Place(r)[a] \in Int /\ Extent[a] \in Int
  BY PlaceInRanks, Sizes
<1>3. stm \in Int
  BY HaloAssumption
<1>4. \A a \in Axis : Global(r, c)[a] = Place(r)[a] * Extent[a] + c[a] - stm
  BY DEF Global
<1>5. \A a \in Axis : Global(r, c)[a] \in Int
  BY <1>1, <1>2, <1>3, <1>4
<1>6. Global(r, c) \in [Axis -> Int]
  BY <1>5 DEF Global
<1>7. Global(r, c) \in Triple
  BY <1>6 DEF Axis, Triple
<1> QED
  BY <1>4, <1>7

LEMMA SameGlobal ==
    ASSUME NEW r \in Rank, NEW q \in Rank, NEW c \in Local, NEW b \in Local,
           \A a \in Axis : Place(r)[a] * Extent[a] + c[a] - stm
                           = Place(q)[a] * Extent[a] + b[a] - stm
    PROVE  Global(r, c) = Global(q, b)
BY DEF Global

\* Where the layers of a side are, in the array of the rank and in the domain.
LEMMA Places ==
    ASSUME NEW s \in Side
    PROVE  /\ PackFrom(s) \in Int /\ UnpackTo(s) \in Int
           /\ PackFrom(s) \in 0 .. Size(s[1]) - stm
           /\ UnpackTo(s) \in 0 .. Size(s[1]) - stm
           /\ UnpackTo(s) - PackFrom(Opp(s)) = s[2] * Extent[s[1]]
<1>1. s[1] \in Axis /\ s[2] \in {-1, 1} /\ Opp(s)[1] = s[1] /\ Opp(s)[2] = -s[2]
  BY SideIs
<1>2. Extent[s[1]] \in Nat \ {0} /\ stm \in Nat \ {0}
  BY <1>1, Sizes, HaloAssumption
<1> QED
  BY <1>1, <1>2 DEF PackFrom, UnpackTo, Size, stp

LEMMA LayersIn ==
    ASSUME NEW s \in Side, NEW c \in Layers(s[1])
    PROVE  /\ c \in Local
           /\ Shifted(c, s[1], PackFrom(s)) \in Local
           /\ c[s[1]] \in 0 .. stm - 1
<1>1. s[1] \in Axis
  BY SideIs
<1>2. c \in Local /\ c[s[1]] < stm
  BY DEF Layers
<1>3. c[s[1]] \in Int /\ c[s[1]] >= 0 /\ Size(s[1]) \in Int
  BY <1>1, <1>2, CellIs, Sizes, HaloAssumption DEF Size, stp
<1>4. stm \in Int
  BY HaloAssumption
<1>5. c[s[1]] + PackFrom(s) \in 0 .. Size(s[1]) - 1
  BY <1>2, <1>3, <1>4, Places
<1>6. Shifted(c, s[1], PackFrom(s)) \in Local
  BY <1>1, <1>2, <1>5, Places, ShiftedCell
<1> QED
  BY <1>2, <1>3, <1>4, <1>6

\* The layers of a side hold the cell, as in Unpacked().
Holds(s, c) == c[s[1]] - UnpackTo(s) \in 0 .. stm - 1

LEMMA DepthIs ==
    ASSUME NEW c \in Local, NEW a \in Axis
    PROVE  /\ c[a] \in Int /\ c[a] \in 0 .. Size(a) - 1
           /\ Depth(c, a) \in Nat
           /\ Depth(c, a) = 0 <=> c[a] \in stm .. stm + Extent[a] - 1
           /\ Depth(c, a) <= stm <=> c[a] < Extent[a] + 2 * stm
<1>1. c[a] \in 0 .. Size(a) - 1
  BY CellIs
<1>2. Extent[a] \in Nat \ {0} /\ stm \in Nat \ {0}
  BY Sizes, HaloAssumption
<1>3. Size(a) \in Int
  BY <1>2 DEF Size, stp
<1>4. c[a] \in Int /\ c[a] >= 0
  BY <1>1, <1>3
<1> QED
  BY <1>1, <1>2, <1>4 DEF Depth

LEMMA HeldIsHalo ==
    ASSUME NEW s \in Side, NEW c \in Local, Holds(s, c)
    PROVE  /\ Depth(c, s[1]) \in 1 .. stm
           /\ \A t \in Side : s[1] = t[1] /\ Holds(t, c) => s = t
<1>1. s[1] \in Axis /\ s[2] \in {-1, 1}
  BY SideIs
<1>2. Extent[s[1]] \in Nat \ {0} /\ stm \in Nat \ {0} /\ c[s[1]] \in Int
  BY <1>1, Sizes, HaloAssumption, DepthIs
<1>3. Depth(c, s[1]) \in 1 .. stm
  BY <1>1, <1>2 DEF Holds, Depth, UnpackTo
<1>4. ASSUME NEW t \in Side, s[1] = t[1], Holds(t, c)
      PROVE  s = t
  <2>1. t[2] \in {-1, 1}
    BY SideIs
  <2>2. s[2] = t[2]
    BY <1>1, <1>2, <1>4, <2>1 DEF Holds, UnpackTo
  <2> QED
    BY <1>4, <2>2, SideIs
<1> QED
  BY <1>3, <1>4

\* A cell of the halo that lies in the domain is a cell of a neighbour.
LEMMA HaloIsHeld ==
    ASSUME NEW r \in Rank, NEW c \in Local, NEW a \in Axis,
           InDomain(Global(r, c)), Depth(c, a) # 0, Depth(c, a) <= stm
    PROVE  \E s \in Side : s[1] = a /\ HasNeighbour(r, s) /\ Holds(s, c)
<1> DEFINE p == Place(r)[a]
           e == Extent[a]
           n == Ranks[a]
<1>1. /\ e \in Nat \ {0} /\ stm \in Nat \ {0} /\ n \in Nat \ {0}
      /\ p \in Int /\ p \in 0 .. n - 1 /\ c[a] \in Int /\ c[a] >= 0
  <2>1. Size(a) \in Int
    BY Sizes, HaloAssumption DEF Size, stp
  <2> QED
    BY <2>1, Sizes, HaloAssumption, PlaceInRanks, DepthIs
<1>2. p * e + c[a] - stm \in 0 .. n * e - 1
  BY GlobalIs DEF InDomain
<1>3. c[a] < stm \/ c[a] \in stm + e .. e + 2 * stm - 1
  BY <1>1 DEF Depth
<1> HIDE DEF p, e, n
<1>4. CASE c[a] < stm
  <2>1. p > 0
    <3>1. p * e > 0
      BY <1>1, <1>2, <1>4
    <3> QED
      BY <1>1, <3>1
  <2> DEFINE s == <<a, -1>>
  <2>2. s \in Side /\ s[1] = a /\ s[2] = -1
    BY DEF Side
  <2>3. HasNeighbour(r, s)
    BY <1>1, <2>1, <2>2 DEF HasNeighbour, p, n
  <2>4. Holds(s, c)
    BY <1>1, <1>4, <2>2 DEF Holds, UnpackTo
  <2> QED
    BY <2>2, <2>3, <2>4
<1>5. CASE c[a] \in stm + e .. e + 2 * stm - 1
  <2>1. p + 1 < n
    <3>1. p * e + e < n * e
      BY <1>1, <1>2, <1>5
    <3>2. (p + 1) * e < n * e
      BY <1>1, <3>1
    <3>3. CASE p + 1 >= n
      <4>1. p + 1 = n
        BY <1>1, <3>3
      <4> QED
        BY <1>1, <3>2, <4>1
    <3> QED
      BY <1>1, <3>3
  <2> DEFINE s == <<a, 1>>
  <2>2. s \in Side /\ s[1] = a /\ s[2] = 1
    BY DEF Side
  <2>3. HasNeighbour(r, s)
    BY <1>1, <2>1, <2>2 DEF HasNeighbour, p, n
  <2>4. Holds(s, c)
    BY <1>1, <1>5, <2>2 DEF Holds, UnpackTo, e
  <2> QED
    BY <2>2, <2>3, <2>4
<1> QED
  BY <1>3, <1>4, <1>5

\* What a rank must be for the layers that it packs to be its own.
Thick == \A a \in Axis : Ranks[a] > 1 => stm <= Extent[a]

\* A cell that the layers of a side hold is, in the array of the neighbour, one that
\* the neighbour packs for the rank: one and the same cell of the domain.
LEMMA Across ==
    ASSUME NEW r \in Rank, NEW s \in Side, HasNeighbour(r, s),
           NEW c \in Local, Holds(s, c)
    PROVE  LET d == Shifted(c, s[1], -UnpackTo(s))
               b == Shifted(d, s[1], PackFrom(Opp(s)))
           IN  /\ d \in Layers(s[1])
               /\ b \in Local
               /\ Global(nrk(r, s), b) = Global(r, c)
               /\ \A a \in Axis : a # s[1] => b[a] = c[a]
               /\ Thick => Depth(b, s[1]) = 0
<1> DEFINE q == nrk(r, s)
           a == s[1]
           d == Shifted(c, s[1], -UnpackTo(s))
           b == Shifted(d, s[1], PackFrom(Opp(s)))
<1>1. /\ a \in Axis /\ s[2] \in {-1, 1} /\ Opp(s) \in Side /\ Opp(s)[1] = a
      /\ Opp(s)[2] = -s[2]
  BY SideIs
<1>2. /\ UnpackTo(s) \in Int /\ PackFrom(Opp(s)) \in Int
      /\ UnpackTo(s) - PackFrom(Opp(s)) = s[2] * Extent[a]
  BY <1>1, Places
<1>3. /\ Extent[a] \in Nat \ {0} /\ stm \in Nat \ {0} /\ c[a] \in Int
      /\ Size(a) = stm + Extent[a] + stp /\ stp = stm + 1
  BY <1>1, Sizes, HaloAssumption, DepthIs DEF Size, stp
<1>4. c \in Triple
  BY CellIs
<1>5. d \in Triple /\ \A e \in Axis : d[e] = IF e = a THEN c[a] - UnpackTo(s) ELSE c[e]
  <2> DEFINE k == -UnpackTo(s)
  <2>1. k \in Int
    BY <1>2
  <2>2. c[a] + k = c[a] - UnpackTo(s)
    BY <1>2, <1>3
  <2> HIDE DEF k
  <2>3. /\ Shifted(c, a, k) \in Triple
        /\ \A e \in Axis : Shifted(c, a, k)[e] = IF e = a THEN c[a] + k ELSE c[e]
    <3> HIDE DEF a
    <3> QED
      BY <1>1, <1>4, <2>1, ShiftedIs
  <2> QED
    BY <2>2, <2>3 DEF k
<1>6. d \in Layers(a) /\ d \in Local /\ d[a] \in 0 .. stm - 1 /\ d[a] \in Int
  <2>1. c[a] + (-UnpackTo(s)) \in 0 .. Size(a) - 1 /\ -UnpackTo(s) \in Int
    BY <1>2, <1>3 DEF Holds
  <2>2. d \in Local
    BY <1>1, <2>1, ShiftedCell
  <2>3. d[a] = c[a] - UnpackTo(s)
    BY <1>1, <1>5
  <2> QED
    BY <1>2, <1>3, <2>2, <2>3 DEF Layers, Holds
<1>7. b \in Local
  BY <1>1, <1>6, LayersIn
<1>8. \A e \in Axis : b[e] = IF e = a THEN d[a] + PackFrom(Opp(s)) ELSE d[e]
  <2> DEFINE k == PackFrom(Opp(s))
  <2>1. k \in Int /\ s[1] \in Axis /\ d \in Triple
    BY <1>1, <1>2, <1>5
  <2> HIDE DEF d, k
  <2>2. \A e \in Axis : Shifted(d, s[1], k)[e] = IF e = s[1] THEN d[s[1]] + k ELSE d[e]
    BY <2>1, ShiftedIs
  <2> QED
    BY <2>2 DEF k
<1>9. b[a] = c[a] - s[2] * Extent[a]
  BY <1>1, <1>2, <1>3, <1>5, <1>8
<1>10. \A e \in Axis : e # a => b[e] = c[e]
  BY <1>5, <1>8
<1>11. q \in Rank /\ \A e \in Axis : Place(q)[e] = IF e = a THEN Place(r)[a] + s[2]
                                                  ELSE Place(r)[e]
  BY Neighbour
<1> HIDE DEF q, d, b
<1>12. Global(q, b) = Global(r, c)
  <2>1. Place(q)[a] * Extent[a] + b[a] - stm = Place(r)[a] * Extent[a] + c[a] - stm
    <3>1. Place(r)[a] \in Int /\ Place(q)[a] = Place(r)[a] + s[2]
      BY <1>1, <1>11, PlaceInRanks
    <3> HIDE DEF a
    <3>2. (Place(r)[a] + s[2]) * Extent[a] = Place(r)[a] * Extent[a] + s[2] * Extent[a]
      BY <1>1, <1>3, <3>1
    <3>3. s[2] * Extent[a] \in Int /\ Place(r)[a] * Extent[a] \in Int
      BY <1>1, <1>3, <3>1
    <3> QED
      BY <1>3, <1>9, <3>1, <3>2, <3>3
  <2>2. \A e \in Axis : Place(q)[e] * Extent[e] + b[e] - stm
                        = Place(r)[e] * Extent[e] + c[e] - stm
    BY <1>10, <1>11, <2>1
  <2> QED
    BY <1>7, <1>11, <2>2, SameGlobal
<1>13. Thick => Depth(b, a) = 0
  <2> SUFFICES ASSUME Thick PROVE Depth(b, a) = 0
    OBVIOUS
  <2>1. Ranks[a] > 1
    <3>1. Place(r)[a] \in 0 .. Ranks[a] - 1 /\ Place(r)[a] + s[2] \in 0 .. Ranks[a] - 1
      BY <1>1, PlaceInRanks DEF HasNeighbour
    <3>2. Ranks[a] \in Int
      BY <1>1, Sizes
    <3> QED
      BY <1>1, <3>1, <3>2
  <2>2. stm <= Extent[a]
    BY <1>1, <2>1 DEF Thick
  <2>3. b[a] = d[a] + PackFrom(Opp(s))
    BY <1>1, <1>8
  <2>4. b[a] \in stm .. stm + Extent[a] - 1
    BY <1>1, <1>3, <1>6, <2>2, <2>3 DEF PackFrom
  <2> QED
    BY <1>1, <1>7, <2>4, DepthIs
<1> QED
  BY <1>6, <1>7, <1>10, <1>12, <1>13 DEF q, d, b

-------------------------------------------------------------------------------
(***************************************************************************)
(* What is unpacked.                                                       *)
(***************************************************************************)
LEMMA UnpackedIs ==
    ASSUME NEW old, NEW buffer, NEW sides \in SUBSET Side, NEW c \in Local
    PROVE  /\ (\A s \in sides : ~Holds(s, c)) => Unpacked(old, buffer, sides)[c] = old[c]
           /\ \A s \in sides : (Holds(s, c) /\ \A t \in sides : Holds(t, c) => t = s) =>
                 Unpacked(old, buffer, sides)[c] = buffer[s][Shifted(c, s[1], -UnpackTo(s))]
           /\ \/ Unpacked(old, buffer, sides)[c] = old[c]
              \/ \E s \in sides : /\ Holds(s, c)
                                  /\ Unpacked(old, buffer, sides)[c]
                                        = buffer[s][Shifted(c, s[1], -UnpackTo(s))]
<1> DEFINE H == {s \in sides : c[s[1]] - UnpackTo(s) \in 0 .. stm - 1}
           L == CHOOSE s \in H : \A t \in H : s[1] <= t[1]
<1>1. Unpacked(old, buffer, sides)[c] =
          IF H = {} THEN old[c] ELSE buffer[L][Shifted(c, L[1], -UnpackTo(L))]
  BY DEF Unpacked
<1>2. \A s \in sides : s \in H <=> Holds(s, c)
  BY DEF Holds
<1>3. \A s \in H : s \in sides /\ s[1] \in {1, 2, 3}
  BY SideIs DEF Axis
<1>4. ASSUME H # {}
      PROVE  L \in H
  <2>1. \E s \in H : \A t \in H : s[1] <= t[1]
    <3> HIDE DEF H
    <3>1. CASE \E s \in H : s[1] = 1
      BY <1>3, <3>1
    <3>2. CASE (~ \E s \in H : s[1] = 1) /\ \E s \in H : s[1] = 2
      BY <1>3, <3>2
    <3>3. CASE (~ \E s \in H : s[1] = 1) /\ ~ \E s \in H : s[1] = 2
      BY <1>3, <1>4, <3>3
    <3> QED
      BY <3>1, <3>2, <3>3
  <2> HIDE DEF H
  <2> QED
    BY <2>1
<1> HIDE DEF H, L
<1>5. (\A s \in sides : ~Holds(s, c)) => Unpacked(old, buffer, sides)[c] = old[c]
  <2>1. (\A s \in sides : ~Holds(s, c)) => H = {}
    BY <1>2, <1>3
  <2> QED
    BY <1>1, <2>1
<1>6. ASSUME NEW s \in sides, Holds(s, c), \A t \in sides : Holds(t, c) => t = s
      PROVE  Unpacked(old, buffer, sides)[c] = buffer[s][Shifted(c, s[1], -UnpackTo(s))]
  <2>1. s \in H
    BY <1>2, <1>6
  <2>2. L = s
    BY <1>2, <1>3, <1>4, <1>6, <2>1
  <2> QED
    BY <1>1, <2>1, <2>2
<1>7. \/ Unpacked(old, buffer, sides)[c] = old[c]
      \/ \E s \in sides : /\ Holds(s, c)
                          /\ Unpacked(old, buffer, sides)[c]
                                = buffer[s][Shifted(c, s[1], -UnpackTo(s))]
  BY <1>1, <1>2, <1>3, <1>4
<1> QED
  BY <1>5, <1>6, <1>7

\* The routine packs all directions before it unpacks any.
AtOnce(m) == m = "sync_label_halo"

\* The cells that have their value of this call when routine m has come to direction a:
\* in communication() those of the directions before it, too, and the rank's own cells
\* only in sync_label_halo().
Known(m, c, a) ==
    \A b \in Axis : IF b <= a \/ AtOnce(m)
                    THEN Depth(c, b) = 0 ELSE Depth(c, b) <= stm

\* What rank r sends at side s in its k-th call.
Good(m, r, s, slab, k) ==
    \A c \in Layers(s[1]) :
        LET b == Shifted(c, s[1], PackFrom(s))
        IN  (Known(m, b, s[1]) /\ InDomain(Global(r, b))) => slab[c] = <<k, Global(r, b)>>

\* The cell is known before direction s[1], but for its depth in this direction.
Beside(m, c, s) ==
    \A b \in Axis : b # s[1] =>
        IF b < s[1] \/ AtOnce(m) THEN Depth(c, b) = 0 ELSE Depth(c, b) <= stm

\* It is what its neighbour has to receive.
LEMMA GoodAcross ==
    ASSUME Thick, NEW r \in Rank, NEW s \in Side, HasNeighbour(r, s),
           NEW m, NEW slab, NEW k, Good(m, nrk(r, s), Opp(s), slab, k),
           NEW c \in Local, Holds(s, c), InDomain(Global(r, c)),
           Beside(m, c, s)
    PROVE  slab[Shifted(c, s[1], -UnpackTo(s))] = <<k, Global(r, c)>>
<1> DEFINE q == nrk(r, s)
           d == Shifted(c, s[1], -UnpackTo(s))
           b == Shifted(d, s[1], PackFrom(Opp(s)))
<1>1. /\ d \in Layers(s[1]) /\ b \in Local /\ Global(q, b) = Global(r, c)
      /\ \A a \in Axis : a # s[1] => b[a] = c[a]
      /\ Depth(b, s[1]) = 0
  BY Across
<1>2. Opp(s)[1] = s[1] /\ s[1] \in Axis
  BY SideIs
<1> HIDE DEF q, d, b
<1>3. \A a \in Axis : a # s[1] => Depth(b, a) = Depth(c, a)
  BY <1>1 DEF Depth
<1>4. Known(m, b, s[1])
  <2> SUFFICES ASSUME NEW a \in Axis
               PROVE  IF a <= s[1] \/ AtOnce(m)
                      THEN Depth(b, a) = 0 ELSE Depth(b, a) <= stm
    BY DEF Known
  <2>1. CASE a = s[1]
    BY <1>1, <2>1, HaloAssumption
  <2>2. CASE a # s[1]
    <3>1. a \in Int /\ s[1] \in Int
      BY <1>2 DEF Axis
    <3> QED
      BY <1>3, <2>2, <3>1 DEF Beside
  <2> QED
    BY <2>1, <2>2
<1>5. \A e \in Layers(s[1]) :
        LET g == Shifted(e, s[1], PackFrom(Opp(s)))
        IN  (Known(m, g, s[1]) /\ InDomain(Global(q, g))) => slab[e] = <<k, Global(q, g)>>
  BY <1>2 DEF Good, q
<1>6. slab[d] = <<k, Global(q, b)>>
  BY <1>1, <1>4, <1>5 DEF b
<1> QED
  BY <1>1, <1>6 DEF d

\* The cells of field g of rank r that are known before direction a are of call k.
Current(m, g, r, k, a) ==
    \A c \in Local : (Known(m, c, a) /\ InDomain(Global(r, c))) => g[c] = <<k, Global(r, c)>>

\* What a rank packs for a neighbour is what it has to send.
LEMMA PackedIsGood ==
    ASSUME NEW r \in Rank, NEW s \in Side, NEW m, NEW k, Current(m, f[r], r, k, s[1])
    PROVE  Good(m, r, s, Slab(r, s), k)
<1> SUFFICES ASSUME NEW c \in Layers(s[1])
             PROVE  LET b == Shifted(c, s[1], PackFrom(s))
                    IN  (Known(m, b, s[1]) /\ InDomain(Global(r, b)))
                          => Slab(r, s)[c] = <<k, Global(r, b)>>
  BY DEF Good
<1> DEFINE b == Shifted(c, s[1], PackFrom(s))
<1>1. b \in Local
  BY LayersIn
<1>2. Slab(r, s)[c] = f[r][b]
  BY DEF Slab
<1> HIDE DEF b
<1>3. (Known(m, b, s[1]) /\ InDomain(Global(r, b))) => f[r][b] = <<k, Global(r, b)>>
  BY <1>1 DEF Current
<1>4. (Known(m, b, s[1]) /\ InDomain(Global(r, b))) => Slab(r, s)[c] = <<k, Global(r, b)>>
  BY <1>2, <1>3
<1> QED
  BY <1>4 DEF b

\* communication() unpacks one direction.
LEMMA DirectionUnpacked ==
    ASSUME Thick, NEW m, ~AtOnce(m),
           NEW r \in Rank, NEW a \in Axis, NEW old, NEW buffer, NEW k,
           Current(m, old, r, k, a),
           \A s \in Neighbours(r, a) : Good(m, nrk(r, s), Opp(s), buffer[s], k)
    PROVE  Current(m, Unpacked(old, buffer, Neighbours(r, a)), r, k, a - 1)
<1> DEFINE N == Neighbours(r, a)
           new == Unpacked(old, buffer, N)
<1>1. \A s \in N : s \in Side /\ s[1] = a /\ HasNeighbour(r, s)
  BY DEF Neighbours
<1>2. \A s \in Side : (s[1] = a /\ HasNeighbour(r, s)) => s \in N
  BY DEF Neighbours
<1>3. N \in SUBSET Side
  BY <1>1
<1>4. \A s \in N : Good(m, nrk(r, s), Opp(s), buffer[s], k)
  OBVIOUS
<1> HIDE DEF N
<1> SUFFICES ASSUME NEW c \in Local, Known(m, c, a - 1), InDomain(Global(r, c))
             PROVE  new[c] = <<k, Global(r, c)>>
  BY DEF Current, N
<1>5. \A b \in Axis : IF b <= a - 1 THEN Depth(c, b) = 0 ELSE Depth(c, b) <= stm
  BY Zenon DEF Known
<1>6. \A b \in Axis : IF b < a THEN Depth(c, b) = 0 ELSE Depth(c, b) <= stm
  BY <1>5 DEF Axis
<1>7. CASE Depth(c, a) = 0
  <2>1. \A s \in N : ~Holds(s, c)
    BY <1>1, <1>7, HeldIsHalo
  <2>2. new[c] = old[c]
    BY <1>3, <2>1, UnpackedIs
  <2>3. Known(m, c, a)
    <3>1. \A b \in Axis : IF b <= a THEN Depth(c, b) = 0 ELSE Depth(c, b) <= stm
      BY <1>6, <1>7 DEF Axis
    <3> QED
      BY <3>1 DEF Known
  <2> QED
    BY <2>2, <2>3 DEF Current
<1>8. CASE Depth(c, a) # 0
  <2>1. PICK s \in Side : s[1] = a /\ HasNeighbour(r, s) /\ Holds(s, c)
    BY <1>6, <1>8, HaloIsHeld DEF Axis
  <2>2. s \in N
    BY <1>2, <2>1
  <2>3. \A t \in N : Holds(t, c) => t = s
    BY <1>1, <2>1, HeldIsHalo
  <2>4. new[c] = buffer[s][Shifted(c, s[1], -UnpackTo(s))]
    BY <1>3, <2>1, <2>2, <2>3, UnpackedIs
  <2>5. Beside(m, c, s)
    BY <1>6, <2>1 DEF Beside
  <2>6. HasNeighbour(r, s) /\ Holds(s, c) /\ Good(m, nrk(r, s), Opp(s), buffer[s], k)
    BY <1>4, <2>1, <2>2
  <2>7. buffer[s][Shifted(c, s[1], -UnpackTo(s))] = <<k, Global(r, c)>>
    <3> DEFINE v == buffer[s]
    <3>1. Good(m, nrk(r, s), Opp(s), v, k)
      BY <2>6
    <3> HIDE DEF v
    <3>2. v[Shifted(c, s[1], -UnpackTo(s))] = <<k, Global(r, c)>>
      BY <2>5, <2>6, <3>1, GoodAcross
    <3> QED
      BY <3>2 DEF v
  <2> QED
    BY <2>4, <2>7
<1> QED
  BY <1>7, <1>8

\* A cell on a face of the halo is outside in one direction only.
LEMMA FaceIs ==
    ASSUME NEW c \in Local, OnFace(c), NEW a \in Axis, NEW b \in Axis,
           Depth(c, a) # 0, a # b
    PROVE  Depth(c, b) = 0
<1> DEFINE S == {e \in Axis : Depth(c, e) > 0}
<1> SUFFICES ASSUME Depth(c, b) # 0 PROVE FALSE
  OBVIOUS
<1>1. a \in S /\ b \in S
  BY DepthIs
<1>2. IsFiniteSet(Axis)
  <2>1. 1 \in Int /\ 3 \in Int
    OBVIOUS
  <2>2. IsFiniteSet(1 .. 3)
    BY Zenon, <2>1, FS_Interval
  <2> QED
    BY Zenon, <2>2 DEF Axis
<1>3. IsFiniteSet(S) /\ Cardinality(S) <= 1
  BY <1>2, FS_Subset DEF OnFace
<1> HIDE DEF S
<1>4. IsFiniteSet(S \ {a}) /\ Cardinality(S \ {a}) = Cardinality(S) - 1
  BY <1>1, <1>3, FS_RemoveElement
<1>5. Cardinality(S) \in Nat /\ Cardinality(S \ {a}) \in Nat
  BY <1>3, <1>4, FS_CardinalityType
<1>6. Cardinality(S \ {a}) = 0
  BY <1>3, <1>4, <1>5
<1>7. S \ {a} = {}
  BY <1>4, <1>6, FS_EmptySet
<1> QED
  BY <1>1, <1>7

FilledIn(m, c) == InHalo(c) /\ (AtOnce(m) => OnFace(c))

\* sync_label_halo() unpacks all directions at once.
LEMMA FacesUnpacked ==
    ASSUME Thick, NEW m, AtOnce(m),
           NEW r \in Rank, NEW old, NEW buffer, NEW k,
           Current(m, old, r, k, 1),
           \A s \in Side : HasNeighbour(r, s) => Good(m, nrk(r, s), Opp(s), buffer[s], k),
           NEW c \in Local, FilledIn(m, c), InDomain(Global(r, c))
    PROVE  Unpacked(old, buffer, {s \in Side : HasNeighbour(r, s)})[c] = <<k, Global(r, c)>>
<1> DEFINE N == {s \in Side : HasNeighbour(r, s)}
           new == Unpacked(old, buffer, N)
<1>1. \A s \in N : s \in Side /\ HasNeighbour(r, s)
  OBVIOUS
<1>2. \A s \in Side : HasNeighbour(r, s) => s \in N
  OBVIOUS
<1>3. N \in SUBSET Side
  OBVIOUS
<1> HIDE DEF N
<1>4. OnFace(c) /\ \A b \in Axis : Depth(c, b) <= stm
  BY DEF FilledIn, InHalo
<1>5. CASE \A b \in Axis : Depth(c, b) = 0
  <2>1. \A s \in N : ~Holds(s, c)
    BY <1>1, <1>5, HeldIsHalo, SideIs
  <2>2. new[c] = old[c]
    BY <1>3, <2>1, UnpackedIs
  <2>3. Known(m, c, 1)
    BY <1>5 DEF Known
  <2> QED
    BY <2>2, <2>3 DEF Current, N
<1>6. CASE \E a \in Axis : Depth(c, a) # 0
  <2>1. PICK a \in Axis : Depth(c, a) # 0
    BY <1>6
  <2>2. \A b \in Axis : b # a => Depth(c, b) = 0
    BY <1>4, <2>1, FaceIs
  <2>3. PICK s \in Side : s[1] = a /\ HasNeighbour(r, s) /\ Holds(s, c)
    BY <1>4, <2>1, HaloIsHeld
  <2>4. \A t \in N : Holds(t, c) => t = s
    <3> SUFFICES ASSUME NEW t \in N, Holds(t, c) PROVE t = s
      OBVIOUS
    <3>1. t \in Side /\ t[1] \in Axis /\ Depth(c, t[1]) \in 1 .. stm
      BY <1>1, HeldIsHalo, SideIs
    <3>2. t[1] = a
      BY <2>2, <3>1
    <3> QED
      BY <2>3, <3>1, <3>2, HeldIsHalo
  <2>5. s \in N
    BY <1>2, <2>3
  <2>6. new[c] = buffer[s][Shifted(c, s[1], -UnpackTo(s))]
    BY <1>3, <2>3, <2>4, <2>5, UnpackedIs
  <2>7. Beside(m, c, s)
    BY <2>2, <2>3 DEF Beside
  <2>8. HasNeighbour(r, s) /\ Holds(s, c) /\ Good(m, nrk(r, s), Opp(s), buffer[s], k)
    BY <2>3
  <2>9. buffer[s][Shifted(c, s[1], -UnpackTo(s))] = <<k, Global(r, c)>>
    <3> DEFINE v == buffer[s]
    <3>1. Good(m, nrk(r, s), Opp(s), v, k)
      BY <2>8
    <3> HIDE DEF v
    <3>2. v[Shifted(c, s[1], -UnpackTo(s))] = <<k, Global(r, c)>>
      BY <2>7, <2>8, <3>1, GoodAcross
    <3> QED
      BY <3>2 DEF v
  <2> QED
    BY <2>6, <2>9 DEF N
<1> QED
  BY <1>5, <1>6

-------------------------------------------------------------------------------
(***************************************************************************)
(* The inductive invariant.                                                *)
(***************************************************************************)
Value    == (0 .. CallBound) \X Triple
Slabs(a) == [Layers(a) -> Value]
AnySlab  == {<<>>} \cup UNION {Slabs(a) : a \in Axis}

Types ==
    /\ routine \in {"communication", "sync_label_halo"}
    /\ f \in [Rank -> [Local -> Value]]
    /\ call \in [Rank -> 0 .. CallBound]
    /\ at \in [Rank -> {"compute", "post", "wait", "barrier"}]
    /\ axis \in [Rank -> Axis]
    /\ sbuff \in [Rank -> [Side -> AnySlab]]
    /\ sending \in [Rank -> SUBSET Side]
    /\ rbuff \in [Rank -> [Side -> AnySlab]]
    /\ wire \in [Links -> Seq(AnySlab)]

\* Where a rank is.
Placed(r) ==
    /\ at[r] \in {"compute", "barrier"} => axis[r] = 3
    /\ at[r] # "wait" => sending[r] = {}
    /\ sending[r] \subseteq Neighbours(r, axis[r])
    /\ at[r] # "compute" => call[r] > 0
    /\ at[r] = "barrier" => ~AtOnce(routine)

\* The number of messages that a rank has sent at a side, and received from it: one
\* in each call.
Passed(r, s)   == at[r] \in {"compute", "barrier"} \/ s[1] > axis[r]
Sent(r, s)     == IF Passed(r, s) \/ (at[r] = "wait" /\ s[1] = axis[r] /\ s \notin sending[r])
                  THEN call[r] ELSE call[r] - 1
Received(r, s) == IF Passed(r, s) THEN call[r] ELSE call[r] - 1

\* A slab is what rank r sends at side s in its k-th call.
Carries(m, r, s, slab, k) == slab \in Slabs(s[1]) /\ (Thick => Good(m, r, s, slab, k))

\* Every message between two ranks is that of the next call that the receiver has not
\* had one of.
Queue(m, r, s, w, sent, received) ==
    /\ Len(w) = sent - received
    /\ \A i \in 1 .. Len(w) : Carries(m, r, s, w[i], received + i)

Queued(r, s) ==
    HasNeighbour(r, s) =>
        Queue(routine, r, s, wire[<<r, nrk(r, s)>>], Sent(r, s), Received(nrk(r, s), Opp(s)))

Buffered(r) ==
    /\ \A s \in sending[r] : Carries(routine, r, s, sbuff[r][s], call[r])
    /\ AtOnce(routine) /\ at[r] \in {"post", "wait"} =>
         \A s \in Side : (HasNeighbour(r, s) /\ s[1] > axis[r]) =>
             Carries(routine, nrk(r, s), Opp(s), rbuff[r][s], call[r])

\* All that a call fills is filled.
Whole(m, g, r, k) ==
    \A c \in Local : (FilledIn(m, c) /\ InDomain(Global(r, c))) => g[c] = <<k, Global(r, c)>>

Fielded(r) ==
    Thick => /\ at[r] \in {"post", "wait"} => Current(routine, f[r], r, call[r], axis[r])
             /\ Returned(r) => Whole(routine, f[r], r, call[r])

\* No rank has passed the barrier of a call that another rank is still before.
Barred(r) ==
    (~AtOnce(routine) /\ at[r] = "compute" /\ call[r] > 0) =>
        \A q \in Rank : Arrived(q, call[r])

IInv ==
    /\ Types
    /\ \A r \in Rank : Placed(r) /\ Buffered(r) /\ Fielded(r) /\ Barred(r)
    /\ \A r \in Rank : \A s \in Side : Queued(r, s)

-------------------------------------------------------------------------------
(***************************************************************************)
(* Messages come and go.                                                   *)
(***************************************************************************)
LEMMA SlabIsAny ==
    ASSUME NEW s \in Side, NEW v \in Slabs(s[1])
    PROVE  v \in AnySlab
BY SideIs DEF AnySlab

LEMMA QueueGrows ==
    ASSUME NEW m, NEW r, NEW s, NEW w \in Seq(AnySlab), NEW v \in AnySlab,
           NEW k \in Int, NEW n \in Int,
           Queue(m, r, s, w, k - 1, n), Carries(m, r, s, v, k)
    PROVE  Queue(m, r, s, Append(w, v), k, n)
<1>1. Len(w) = k - 1 - n /\ \A i \in 1 .. Len(w) : Carries(m, r, s, w[i], n + i)
  BY DEF Queue
<1>2. /\ Append(w, v) \in Seq(AnySlab) /\ Len(Append(w, v)) = Len(w) + 1
      /\ Append(w, v)[Len(w) + 1] = v
      /\ \A i \in 1 .. Len(w) : Append(w, v)[i] = w[i]
  OBVIOUS
<1>3. PICK l \in Nat : l = Len(w)
  OBVIOUS
<1>4. Len(Append(w, v)) = k - n
  BY <1>1, <1>2, <1>3
<1>5. ASSUME NEW i \in 1 .. Len(Append(w, v))
      PROVE  Carries(m, r, s, Append(w, v)[i], n + i)
  <2>1. CASE i = l + 1
    <3>1. n + i = k
      BY <1>1, <1>3, <2>1
    <3> QED
      BY <1>2, <1>3, <2>1, <3>1
  <2>2. CASE i # l + 1
    <3>1. i \in 1 .. Len(w)
      BY <1>2, <1>3, <2>2
    <3> QED
      BY <1>1, <1>2, <3>1
  <2> QED
    BY <2>1, <2>2
<1> QED
  BY <1>4, <1>5 DEF Queue

LEMMA QueueShrinks ==
    ASSUME NEW m, NEW r, NEW s, NEW w \in Seq(AnySlab), w # <<>>,
           NEW k \in Int, NEW n \in Int, Queue(m, r, s, w, k, n - 1)
    PROVE  Carries(m, r, s, Head(w), n) /\ Queue(m, r, s, Tail(w), k, n)
<1>1. Len(w) = k - (n - 1) /\ \A i \in 1 .. Len(w) : Carries(m, r, s, w[i], n - 1 + i)
  BY DEF Queue
<1>2. PICK l \in Nat \ {0} : l = Len(w)
  OBVIOUS
<1>3. /\ Len(Tail(w)) = l - 1 /\ Head(w) = w[1]
      /\ \A i \in 1 .. l - 1 : Tail(w)[i] = w[i + 1]
  BY <1>2
<1>4. Carries(m, r, s, Head(w), n)
  <2>1. 1 \in 1 .. Len(w) /\ n - 1 + 1 = n
    BY <1>2
  <2>2. Carries(m, r, s, w[1], n - 1 + 1)
    BY <1>1, <2>1
  <2> QED
    BY <1>3, <2>1, <2>2
<1>5. Len(Tail(w)) = k - n
  BY <1>1, <1>2, <1>3
<1>6. ASSUME NEW i \in 1 .. Len(Tail(w))
      PROVE  Carries(m, r, s, Tail(w)[i], n + i)
  <2>1. i \in 1 .. l - 1 /\ i + 1 \in 1 .. Len(w) /\ n - 1 + (i + 1) = n + i
    BY <1>2, <1>3
  <2>2. Carries(m, r, s, w[i + 1], n - 1 + (i + 1))
    BY <1>1, <2>1
  <2> QED
    BY <1>3, <2>1, <2>2
<1> QED
  BY <1>4, <1>5, <1>6 DEF Queue

\* What is said of a rank stays as long as its own state does.
LEMMA OtherRank ==
    ASSUME NEW q \in Rank, Placed(q), Buffered(q), Fielded(q),
           routine' = routine, f'[q] = f[q], call'[q] = call[q], at'[q] = at[q],
           axis'[q] = axis[q], sbuff'[q] = sbuff[q], sending'[q] = sending[q],
           rbuff'[q] = rbuff[q]
    PROVE  Placed(q)' /\ Buffered(q)' /\ Fielded(q)'
<1>1. Placed(q)'
  BY Zenon DEF Placed, Neighbours
<1>2. Buffered(q)'
  BY Zenon DEF Buffered
<1>3. Fielded(q)'
  BY Zenon DEF Fielded, Returned
<1> QED
  BY <1>1, <1>2, <1>3

\* A rank that has arrived at a barrier has arrived for good.
LEMMA StillBarred ==
    ASSUME NEW r \in Rank, Barred(r), routine' = routine,
           at'[r] = at[r], call'[r] = call[r],
           \A q \in Rank : Arrived(q, call[r]) => Arrived(q, call[r])'
    PROVE  Barred(r)'
BY Zenon DEF Barred

LEMMA CountsAreInt ==
    ASSUME Types, NEW r \in Rank, NEW s \in Side
    PROVE  Sent(r, s) \in Int /\ Received(r, s) \in Int /\ call[r] \in Int /\ axis[r] \in Axis
<1>1. call[r] \in Int /\ axis[r] \in Axis
  BY DEF Types
<1> QED
  BY <1>1 DEF Sent, Received

LEMMA InitIsInv ==
    ASSUME Init
    PROVE  IInv
<1>1. Types
  <2>1. Blank \in Value
    BY BoundAssumption DEF Blank, Value, Triple
  <2>2. f \in [Rank -> [Local -> Value]]
    BY <2>1 DEF Init
  <2>3. sbuff \in [Rank -> [Side -> AnySlab]] /\ rbuff \in [Rank -> [Side -> AnySlab]]
    <3>1. <<>> \in AnySlab
      BY DEF AnySlab
    <3> QED
      BY <3>1 DEF Init
  <2>4. wire \in [Links -> Seq(AnySlab)]
    <3>1. <<>> \in Seq(AnySlab)
      OBVIOUS
    <3> QED
      BY <3>1 DEF Init
  <2>5. routine \in {"communication", "sync_label_halo"}
    BY RoutineAssumption DEF Init
  <2>6. /\ call \in [Rank -> 0 .. CallBound] /\ axis \in [Rank -> Axis]
        /\ at \in [Rank -> {"compute", "post", "wait", "barrier"}]
        /\ sending \in [Rank -> SUBSET Side]
    BY BoundAssumption DEF Init, Axis
  <2> QED
    BY <2>2, <2>3, <2>4, <2>5, <2>6 DEF Types
<1>2. ASSUME NEW r \in Rank
      PROVE  Placed(r) /\ Buffered(r) /\ Fielded(r) /\ Barred(r)
  <2>1. at[r] = "compute" /\ axis[r] = 3 /\ sending[r] = {} /\ call[r] = 0
    BY DEF Init
  <2>2. Placed(r)
    BY <2>1 DEF Placed
  <2>3. Buffered(r)
    BY <2>1 DEF Buffered
  <2>4. Fielded(r)
    BY <2>1 DEF Fielded, Returned
  <2>5. Barred(r)
    BY <2>1 DEF Barred
  <2> QED
    BY <2>2, <2>3, <2>4, <2>5
<1>3. ASSUME NEW r \in Rank, NEW s \in Side
      PROVE  Queued(r, s)
  <2> SUFFICES ASSUME HasNeighbour(r, s)
               PROVE  Queue(routine, r, s, wire[<<r, nrk(r, s)>>],
                            Sent(r, s), Received(nrk(r, s), Opp(s)))
    BY DEF Queued
  <2>1. nrk(r, s) \in Rank
    BY Back
  <2>2. Sent(r, s) = 0 /\ Received(nrk(r, s), Opp(s)) = 0
    BY <2>1 DEF Init, Sent, Received, Passed
  <2>3. wire[<<r, nrk(r, s)>>] = <<>>
    BY LinkExists DEF Init
  <2>4. Len(<<>>) = 0
    OBVIOUS
  <2>5. Queue(routine, r, s, <<>>, 0, 0)
    BY <2>4 DEF Queue
  <2> QED
    BY <2>2, <2>3, <2>5
<1> QED
  BY <1>1, <1>2, <1>3 DEF IInv

LEMMA ComputeKeeps ==
    ASSUME IInv, NEW r \in Rank, Compute(r)
    PROVE  IInv'
<1>1. /\ at[r] = "compute" /\ axis[r] = 3 /\ sending[r] = {} /\ call[r] < CallBound
      /\ call[r] \in Nat /\ call'[r] = call[r] + 1 /\ at'[r] = "post" /\ axis' = axis
      /\ sending' = sending /\ routine' = routine /\ wire' = wire /\ sbuff' = sbuff
      /\ rbuff' = rbuff
  <2>1. /\ at[r] = "compute" /\ call[r] < CallBound
        /\ call' = [call EXCEPT ![r] = @ + 1] /\ at' = [at EXCEPT ![r] = "post"]
        /\ UNCHANGED <<routine, axis, sbuff, sending, rbuff, wire>>
    BY DEF Compute
  <2>2. Types /\ Placed(r)
    BY DEF IInv
  <2>3. axis[r] = 3 /\ sending[r] = {}
    BY <2>1, <2>2 DEF Placed
  <2>4. call[r] \in Nat /\ call'[r] = call[r] + 1 /\ at'[r] = "post"
    BY <2>1, <2>2 DEF Types
  <2> QED
    BY <2>1, <2>3, <2>4
<1>2. \A q \in Rank : q # r => f'[q] = f[q] /\ call'[q] = call[q] /\ at'[q] = at[q]
  BY DEF Compute, IInv, Types
<1> DEFINE new == [c \in Local |-> IF c \in Owned THEN <<call[r] + 1, Global(r, c)>> ELSE f[r][c]]
<1>3. f' = [f EXCEPT ![r] = new] /\ f'[r] = new
  BY DEF Compute, IInv, Types
<1>4. Types'
  <2>1. \A c \in Local : Global(r, c) \in Triple
    BY GlobalIs
  <2>2. call[r] + 1 \in 0 .. CallBound
    BY <1>1, BoundAssumption
  <2>3. \A c \in Local : f[r][c] \in Value
    BY DEF IInv, Types
  <2>4. new \in [Local -> Value]
    BY <2>1, <2>2, <2>3 DEF Value
  <2> HIDE DEF new
  <2>5. f' \in [Rank -> [Local -> Value]]
    BY <1>3, <2>4 DEF IInv, Types
  <2>6. call' \in [Rank -> 0 .. CallBound]
    BY <2>2 DEF Compute, IInv, Types
  <2>7. at' \in [Rank -> {"compute", "post", "wait", "barrier"}]
    BY DEF Compute, IInv, Types
  <2> QED
    BY <1>1, <2>5, <2>6, <2>7 DEF IInv, Types
<1>5. \A q \in Rank : Placed(q)' /\ Buffered(q)' /\ Fielded(q)'
  <2> SUFFICES ASSUME NEW q \in Rank PROVE Placed(q)' /\ Buffered(q)' /\ Fielded(q)'
    OBVIOUS
  <2>1. CASE q # r
    BY <1>1, <1>2, <2>1, OtherRank DEF IInv
  <2>2. CASE q = r
    <3>1. Placed(r)'
      BY <1>1 DEF Placed
    <3>2. Buffered(r)'
      <4>1. \A s \in Side : ~(s[1] > axis[r])
        BY <1>1, SideIs DEF Axis
      <4> QED
        BY <1>1, <4>1 DEF Buffered
    <3>3. Current(routine, new, r, call[r] + 1, 3)
      <4> SUFFICES ASSUME NEW c \in Local, Known(routine, c, 3)
                   PROVE  new[c] = <<call[r] + 1, Global(r, c)>>
        BY DEF Current
      <4>1. \A a \in Axis : Depth(c, a) = 0
        BY DEF Known, Axis
      <4>2. c \in Owned
        BY <4>1, DepthIs DEF Owned
      <4> QED
        BY <4>2
    <3>4. Fielded(r)'
      <4> HIDE DEF new
      <4> QED
        BY <1>1, <1>3, <3>3 DEF Fielded, Returned
    <3> QED
      BY <2>2, <3>1, <3>2, <3>4
  <2> QED
    BY <2>1, <2>2
<1>6. \A q \in Rank : Barred(q)'
  <2> SUFFICES ASSUME NEW q \in Rank PROVE Barred(q)'
    OBVIOUS
  <2>1. CASE q = r
    BY <1>1, <2>1 DEF Barred
  <2>2. CASE q # r
    <3>1. \A x \in Rank : Arrived(x, call[q]) => Arrived(x, call[q])'
      <4> SUFFICES ASSUME NEW x \in Rank, Arrived(x, call[q]) PROVE Arrived(x, call[q])'
        OBVIOUS
      <4>0. call[q] \in Nat
        BY DEF IInv, Types
      <4>1. CASE x = r
        BY <1>1, <1>2, <2>2, <4>0, <4>1 DEF Arrived
      <4>2. CASE x # r
        BY <1>2, <2>2, <4>2 DEF Arrived
      <4> QED
        BY <4>1, <4>2
    <3>2. Barred(q)
      BY DEF IInv
    <3> QED
      BY <1>1, <1>2, <2>2, <3>1, <3>2, StillBarred
  <2> QED
    BY <2>1, <2>2
<1>7. \A q \in Rank : \A s \in Side : Sent(q, s)' = Sent(q, s) /\ Received(q, s)' = Received(q, s)
  <2> SUFFICES ASSUME NEW q \in Rank, NEW s \in Side
               PROVE  Sent(q, s)' = Sent(q, s) /\ Received(q, s)' = Received(q, s)
    OBVIOUS
  <2>1. CASE q = r
    <3>1. ~(s[1] > axis[r])
      BY <1>1, SideIs DEF Axis
    <3> QED
      BY <1>1, <2>1, <3>1 DEF Sent, Received, Passed
  <2>2. CASE q # r
    BY <1>1, <1>2, <2>2 DEF Sent, Received, Passed
  <2> QED
    BY <2>1, <2>2
<1>8. \A q \in Rank : \A s \in Side : Queued(q, s)'
  <2> SUFFICES ASSUME NEW q \in Rank, NEW s \in Side, HasNeighbour(q, s)
               PROVE  Queue(routine', q, s, wire'[<<q, nrk(q, s)>>], Sent(q, s)',
                            Received(nrk(q, s), Opp(s))')
    BY DEF Queued
  <2>1. nrk(q, s) \in Rank /\ Opp(s) \in Side
    BY Back
  <2>2. Queue(routine, q, s, wire[<<q, nrk(q, s)>>], Sent(q, s), Received(nrk(q, s), Opp(s)))
    BY DEF IInv, Queued
  <2> QED
    BY <1>1, <1>7, <2>1, <2>2
<1> QED
  BY <1>4, <1>5, <1>6, <1>8 DEF IInv

\* No message has been sent or received.
LEMMA QueuesStay ==
    ASSUME IInv, routine' = routine, wire' = wire,
           \A q \in Rank : \A s \in Side : HasNeighbour(q, s) =>
               Sent(q, s)' = Sent(q, s) /\ Received(q, s)' = Received(q, s)
    PROVE  \A q \in Rank : \A s \in Side : Queued(q, s)'
<1> SUFFICES ASSUME NEW q \in Rank, NEW s \in Side, HasNeighbour(q, s)
             PROVE  Queue(routine', q, s, wire'[<<q, nrk(q, s)>>], Sent(q, s)',
                          Received(nrk(q, s), Opp(s))')
  BY DEF Queued
<1>1. nrk(q, s) \in Rank /\ Opp(s) \in Side /\ HasNeighbour(nrk(q, s), Opp(s))
  BY Back
<1>2. Queue(routine, q, s, wire[<<q, nrk(q, s)>>], Sent(q, s), Received(nrk(q, s), Opp(s)))
  BY DEF IInv, Queued
<1> QED
  BY <1>1, <1>2

\* A rank that moves between "post" and "wait" has arrived nowhere.
LEMMA BarredStays ==
    ASSUME IInv, NEW r \in Rank, routine' = routine, call' = call,
           at[r] \in {"post", "wait"}, at'[r] \in {"post", "wait"},
           \A q \in Rank : q # r => at'[q] = at[q]
    PROVE  \A q \in Rank : Barred(q)'
<1> SUFFICES ASSUME NEW q \in Rank PROVE Barred(q)'
  OBVIOUS
<1>1. CASE q = r
  BY <1>1 DEF Barred
<1>2. CASE q # r
  <2>1. \A x \in Rank : Arrived(x, call[q]) => Arrived(x, call[q])'
    <3> SUFFICES ASSUME NEW x \in Rank, Arrived(x, call[q]) PROVE Arrived(x, call[q])'
      OBVIOUS
    <3>1. CASE x = r
      BY <3>1 DEF Arrived
    <3>2. CASE x # r
      BY <3>2 DEF Arrived
    <3> QED
      BY <3>1, <3>2
  <2>2. Barred(q)
    BY DEF IInv
  <2> QED
    BY <1>2, <2>1, <2>2, StillBarred
<1> QED
  BY <1>1, <1>2

LEMMA BarrierKeeps ==
    ASSUME IInv, NEW r \in Rank, PassBarrier(r)
    PROVE  IInv'
<1>1. /\ at[r] = "barrier" /\ at' = [at EXCEPT ![r] = "compute"]
      /\ \A q \in Rank : Arrived(q, call[r])
      /\ UNCHANGED <<routine, f, call, axis, sbuff, sending, rbuff, wire>>
  BY DEF PassBarrier
<1>2. Types /\ Placed(r) /\ Buffered(r) /\ Fielded(r)
  BY DEF IInv
<1>3. at'[r] = "compute" /\ \A q \in Rank : q # r => at'[q] = at[q]
  BY <1>1, <1>2 DEF Types
<1>4. Types'
  <2>1. at' \in [Rank -> {"compute", "post", "wait", "barrier"}]
    BY <1>1, <1>2 DEF Types
  <2> QED
    BY <1>1, <1>2, <2>1 DEF Types
<1>5. \A q \in Rank : Placed(q)' /\ Buffered(q)' /\ Fielded(q)'
  <2> SUFFICES ASSUME NEW q \in Rank PROVE Placed(q)' /\ Buffered(q)' /\ Fielded(q)'
    OBVIOUS
  <2>1. CASE q # r
    BY <1>1, <1>3, <2>1, OtherRank DEF IInv
  <2>2. CASE q = r
    <3>1. Placed(r)'
      BY <1>1, <1>2, <1>3 DEF Placed
    <3>2. Buffered(r)'
      BY <1>1, <1>2, <1>3 DEF Buffered, Placed
    <3>3. Fielded(r)'
      BY <1>1, <1>2, <1>3 DEF Fielded, Returned
    <3> QED
      BY <2>2, <3>1, <3>2, <3>3
  <2> QED
    BY <2>1, <2>2
<1>7. \A q \in Rank : Barred(q)'
  <2> SUFFICES ASSUME NEW q \in Rank PROVE Barred(q)'
    OBVIOUS
  <2>1. CASE q = r
    BY <1>1, <1>3, <2>1 DEF Barred, Arrived
  <2>2. CASE q # r
    <3>1. Barred(q)
      BY DEF IInv
    <3>2. \A x \in Rank : Arrived(x, call[q]) => Arrived(x, call[q])'
      <4>1. call' = call
        BY <1>1
      <4>2. \A x \in Rank : at[x] \in {"barrier", "compute"} => at'[x] \in {"barrier", "compute"}
        BY <1>1, <1>3
      <4> QED
        BY <4>1, <4>2 DEF Arrived
    <3> QED
      BY <1>1, <1>3, <2>2, <3>1, <3>2, StillBarred
  <2> QED
    BY <2>1, <2>2
<1>8. \A q \in Rank : \A s \in Side : Sent(q, s)' = Sent(q, s) /\ Received(q, s)' = Received(q, s)
  BY <1>1, <1>3 DEF Sent, Received, Passed
<1> QED
  BY <1>1, <1>4, <1>5, <1>7, <1>8, QueuesStay DEF IInv

\* What is sent, or put into the buffer to be sent.
LEMMA SlabIsCarried ==
    ASSUME IInv, NEW r \in Rank, at[r] \in {"post", "wait"},
           NEW s \in Neighbours(r, axis[r])
    PROVE  /\ Slab(r, s) \in Slabs(s[1]) /\ Slab(r, s) \in AnySlab
           /\ Carries(routine, r, s, Slab(r, s), call[r])
<1>1. s \in Side /\ s[1] = axis[r]
  BY DEF Neighbours
<1>2. Slab(r, s) \in Slabs(s[1])
  <2>1. \A c \in Layers(s[1]) : f[r][Shifted(c, s[1], PackFrom(s))] \in Value
    BY <1>1, LayersIn DEF IInv, Types
  <2> QED
    BY <2>1 DEF Slab, Slabs
<1>3. Thick => Good(routine, r, s, Slab(r, s), call[r])
  <2>1. Thick => Current(routine, f[r], r, call[r], s[1])
    BY <1>1 DEF IInv, Fielded
  <2> QED
    BY <1>1, <2>1, PackedIsGood
<1> QED
  BY <1>1, <1>2, <1>3, SlabIsAny DEF Carries

LEMMA PostKeeps ==
    ASSUME IInv, NEW r \in Rank, Post(r)
    PROVE  IInv'
<1> DEFINE sides == Neighbours(r, axis[r])
           To(p) == {s \in sides : p = <<r, nrk(r, s)>>}
           Copied  == /\ wire' = [p \in DOMAIN wire |->
                                    IF To(p) = {} THEN wire[p]
                                    ELSE Append(wire[p], Slab(r, CHOOSE s \in To(p) : TRUE))]
                      /\ UNCHANGED sending
           Waiting == sending' = [sending EXCEPT ![r] = @ \cup sides] /\ UNCHANGED wire
<1>1. /\ at[r] = "post" /\ at' = [at EXCEPT ![r] = "wait"]
      /\ sbuff' = [sbuff EXCEPT ![r] = [s \in Side |-> IF s \in sides THEN Slab(r, s) ELSE @[s]]]
      /\ Copied \/ Waiting
      /\ UNCHANGED <<routine, f, call, axis, rbuff>>
  BY DEF Post
<1>2. Types /\ Placed(r) /\ Buffered(r) /\ Fielded(r)
  BY DEF IInv
<1>3. /\ at'[r] = "wait" /\ sending[r] = {}
      /\ \A q \in Rank : q # r => at'[q] = at[q] /\ sbuff'[q] = sbuff[q]
      /\ \A s \in sides : sbuff'[r][s] = Slab(r, s)
  <2>1. at'[r] = "wait" /\ sending[r] = {}
    BY <1>1, <1>2 DEF Types, Placed
  <2>2. \A q \in Rank : q # r => at'[q] = at[q] /\ sbuff'[q] = sbuff[q]
    BY <1>1, <1>2 DEF Types
  <2>3. \A s \in sides : s \in Side
    BY DEF Neighbours
  <2>4. sbuff'[r] = [s \in Side |-> IF s \in sides THEN Slab(r, s) ELSE sbuff[r][s]]
    <3> HIDE DEF sides
    <3> QED
      BY <1>1, <1>2 DEF Types
  <2> QED
    BY <2>1, <2>2, <2>3, <2>4
<1>4. \A s \in sides : /\ s \in Side /\ s[1] = axis[r] /\ HasNeighbour(r, s)
                       /\ Slab(r, s) \in AnySlab
                       /\ Carries(routine, r, s, Slab(r, s), call[r])
  BY <1>1, SlabIsCarried DEF Neighbours
<1>5. /\ \A q \in Rank : q # r => sending'[q] = sending[q]
      /\ sending'[r] \subseteq sides
      /\ sending' \in [Rank -> SUBSET Side]
  <2>1. CASE Copied
    BY <1>2, <1>3, <2>1 DEF Types
  <2>2. CASE Waiting
    <3>1. sides \subseteq Side
      BY <1>4
    <3> HIDE DEF sides
    <3> QED
      BY <1>2, <1>3, <2>2, <3>1 DEF Types
  <2> QED
    BY <1>1, <2>1, <2>2
<1>6. \A p \in Links : To(p) # {} => Slab(r, CHOOSE s \in To(p) : TRUE) \in AnySlab
  <2> SUFFICES ASSUME NEW p \in Links, To(p) # {}
               PROVE  Slab(r, CHOOSE s \in To(p) : TRUE) \in AnySlab
    OBVIOUS
  <2>1. (CHOOSE s \in To(p) : TRUE) \in To(p)
    <3> HIDE DEF To
    <3> QED
      OBVIOUS
  <2>2. (CHOOSE s \in To(p) : TRUE) \in sides
    BY <2>1
  <2> QED
    BY <1>4, <2>2
<1> HIDE DEF sides, To
<1>7. Types'
  <2>1. at' \in [Rank -> {"compute", "post", "wait", "barrier"}]
    BY <1>1, <1>2 DEF Types
  <2>2. sbuff' \in [Rank -> [Side -> AnySlab]]
    <3> DEFINE new == [s \in Side |-> IF s \in sides THEN Slab(r, s) ELSE sbuff[r][s]]
    <3>1. new \in [Side -> AnySlab]
      BY <1>2, <1>4 DEF Types
    <3>2. sbuff' = [sbuff EXCEPT ![r] = new]
      BY <1>1, <1>2 DEF Types
    <3> HIDE DEF new
    <3> QED
      BY <1>2, <3>1, <3>2 DEF Types
  <2>3. wire' \in [Links -> Seq(AnySlab)]
    <3>1. CASE Copied
      <4>1. \A p \in Links : wire[p] \in Seq(AnySlab)
        BY <1>2 DEF Types
      <4>2. DOMAIN wire = Links
        BY <1>2 DEF Types
      <4> DEFINE Next1(p) == IF To(p) = {} THEN wire[p]
                             ELSE Append(wire[p], Slab(r, CHOOSE s \in To(p) : TRUE))
      <4>3. \A p \in Links : Next1(p) \in Seq(AnySlab)
        BY <1>6, <4>1
      <4>4. wire' = [p \in Links |-> Next1(p)]
        BY <3>1, <4>2
      <4> HIDE DEF Next1
      <4> QED
        BY <4>3, <4>4
    <3>2. CASE Waiting
      BY <1>2, <3>2 DEF Types
    <3> QED
      BY <1>1, <3>1, <3>2
  <2> QED
    BY <1>1, <1>2, <1>5, <2>1, <2>2, <2>3 DEF Types
<1>8. \A q \in Rank : Placed(q)' /\ Buffered(q)' /\ Fielded(q)'
  <2> SUFFICES ASSUME NEW q \in Rank PROVE Placed(q)' /\ Buffered(q)' /\ Fielded(q)'
    OBVIOUS
  <2>1. CASE q # r
    BY <1>1, <1>3, <1>5, <2>1, OtherRank DEF IInv
  <2>2. CASE q = r
    <3>1. Placed(r)'
      BY <1>1, <1>2, <1>3, <1>5 DEF Placed, sides, Neighbours
    <3>2. Buffered(r)'
      <4>1. \A s \in sending'[r] : Carries(routine, r, s, sbuff'[r][s], call[r])
        BY <1>3, <1>4, <1>5
      <4> QED
        BY <1>1, <1>2, <4>1 DEF Buffered
    <3>3. Fielded(r)'
      BY <1>1, <1>2, <1>3 DEF Fielded, Returned
    <3> QED
      BY <2>2, <3>1, <3>2, <3>3
  <2> QED
    BY <2>1, <2>2
<1>9. \A q \in Rank : Barred(q)'
  BY <1>1, <1>3, BarredStays
<1>10. \A q \in Rank : \A s \in Side : Received(q, s)' = Received(q, s)
  BY <1>1, <1>3 DEF Received, Passed
<1>11. ASSUME NEW q \in Rank, NEW s \in Side, q # r
       PROVE  Sent(q, s)' = Sent(q, s)
  BY <1>1, <1>3, <1>5, <1>11 DEF Sent, Passed
<1>12. call[r] \in Int /\ axis[r] \in Int /\ \A s \in Side : s[1] \in Int
  <2>1. call[r] \in Int /\ axis[r] \in Axis
    BY <1>2 DEF Types
  <2>2. \A s \in Side : s[1] \in Axis
    BY SideIs
  <2> QED
    BY <2>1, <2>2 DEF Axis
<1>13. \A s \in Side : (HasNeighbour(r, s) /\ s[1] = axis[r]) => s \in sides
  BY DEF sides, Neighbours
<1>14. CASE Waiting
  <2>1. sending'[r] = sides
    BY <1>2, <1>3, <1>14 DEF Types
  <2>2. ASSUME NEW s \in Side, HasNeighbour(r, s)
        PROVE  Sent(r, s)' = Sent(r, s)
    <3>1. CASE s[1] = axis[r]
      <4>1. s \in sending'[r] /\ ~(s[1] > axis[r])
        BY <1>12, <1>13, <2>1, <2>2, <3>1
      <4> QED
        BY <1>1, <1>3, <3>1, <4>1 DEF Sent, Passed
    <3>2. CASE s[1] # axis[r]
      BY <1>1, <1>3, <3>2 DEF Sent, Passed
    <3> QED
      BY <3>1, <3>2
  <2>3. \A q \in Rank : \A s \in Side : Queued(q, s)'
    BY <1>1, <1>10, <1>11, <1>14, <2>2, QueuesStay
  <2> QED
    BY <1>7, <1>8, <1>9, <2>3 DEF IInv
<1>15. CASE Copied
  <2>1. ASSUME NEW q \in Rank, NEW s \in Side, HasNeighbour(q, s)
        PROVE  Queue(routine, q, s, wire'[<<q, nrk(q, s)>>], Sent(q, s)',
                     Received(nrk(q, s), Opp(s)))
    <3> DEFINE p == <<q, nrk(q, s)>>
               n == Received(nrk(q, s), Opp(s))
    <3>1. p \in Links /\ nrk(q, s) \in Rank /\ Opp(s) \in Side
      BY <2>1, LinkExists, Back
    <3>2. Queue(routine, q, s, wire[p], Sent(q, s), n)
      BY <2>1 DEF IInv, Queued
    <3>3. wire'[p] = IF To(p) = {} THEN wire[p]
                     ELSE Append(wire[p], Slab(r, CHOOSE t \in To(p) : TRUE))
      BY <1>2, <1>15, <3>1 DEF Types
    <3>4. CASE q = r /\ s \in sides
      <4>1. To(p) = {s}
        BY <1>4, <2>1, <3>4, SideUnique DEF To
      <4>2. (CHOOSE t \in To(p) : TRUE) = s
        BY <4>1
      <4>3. wire'[p] = Append(wire[p], Slab(r, s))
        BY <3>3, <4>1, <4>2
      <4>4. s[1] = axis[r] /\ Slab(r, s) \in AnySlab
            /\ Carries(routine, r, s, Slab(r, s), call[r])
        BY <1>4, <3>4
      <4>5. Sent(r, s) = call[r] - 1 /\ Sent(r, s)' = call[r]
        <5>1. ~Passed(r, s) /\ ~Passed(r, s)'
          BY <1>1, <1>3, <1>12, <4>4 DEF Passed
        <5>2. s \notin sending'[r]
          BY <1>3, <1>15
        <5> QED
          BY <1>1, <1>3, <4>4, <5>1, <5>2 DEF Sent
      <4>6. n \in Int
        BY <1>2, <3>1, CountsAreInt
      <4>7. wire[p] \in Seq(AnySlab)
        BY <1>2, <3>1 DEF Types
      <4> HIDE DEF n, p
      <4> QED
        BY <1>12, <3>2, <3>4, <4>3, <4>4, <4>5, <4>6, <4>7, QueueGrows DEF p, n
    <3>5. CASE q # r \/ s \notin sides
      <4>1. To(p) = {}
        BY <1>4, <2>1, <3>5, SideUnique DEF To
      <4>2. Sent(q, s)' = Sent(q, s)
        <5>1. CASE q # r
          BY <1>11, <5>1
        <5>2. CASE q = r /\ s \notin sides
          <6>1. s[1] # axis[r]
            BY <1>13, <2>1, <5>2
          <6> QED
            BY <1>1, <1>3, <5>2, <6>1 DEF Sent, Passed
        <5> QED
          BY <3>5, <5>1, <5>2
      <4> QED
        BY <3>2, <3>3, <4>1, <4>2
    <3> QED
      BY <3>4, <3>5
  <2>2. \A q \in Rank : \A s \in Side : Queued(q, s)'
    <3> SUFFICES ASSUME NEW q \in Rank, NEW s \in Side, HasNeighbour(q, s)
                 PROVE  Queue(routine', q, s, wire'[<<q, nrk(q, s)>>], Sent(q, s)',
                              Received(nrk(q, s), Opp(s))')
      BY DEF Queued
    <3>1. nrk(q, s) \in Rank /\ Opp(s) \in Side
      BY Back
    <3>2. Received(nrk(q, s), Opp(s))' = Received(nrk(q, s), Opp(s))
      BY <1>10, <3>1
    <3> QED
      BY <1>1, <2>1, <3>2
  <2> QED
    BY <1>7, <1>8, <1>9, <2>2 DEF IInv
<1> QED
  BY <1>1, <1>14, <1>15

LEMMA TransferKeeps ==
    ASSUME IInv, NEW r \in Rank, NEW s \in Side, Transfer(r, s)
    PROVE  IInv'
<1> DEFINE q == nrk(r, s)
           l == <<r, q>>
<1>1. /\ s \in sending[r]
      /\ wire' = [wire EXCEPT ![l] = Append(@, sbuff[r][s])]
      /\ sending' = [sending EXCEPT ![r] = @ \ {s}]
      /\ UNCHANGED <<routine, f, call, at, axis, sbuff, rbuff>>
  BY DEF Transfer
<1>2. Types /\ Placed(r) /\ Buffered(r) /\ Fielded(r)
  BY DEF IInv
<1>3. /\ at[r] = "wait" /\ s[1] = axis[r] /\ HasNeighbour(r, s)
      /\ Carries(routine, r, s, sbuff[r][s], call[r])
      /\ sbuff[r][s] \in AnySlab
  BY <1>1, <1>2, SlabIsAny DEF Placed, Neighbours, Buffered, Carries
<1>4. /\ sending'[r] = sending[r] \ {s} /\ \A x \in Rank : x # r => sending'[x] = sending[x]
      /\ sending' \in [Rank -> SUBSET Side]
  BY <1>1, <1>2 DEF Types
<1>5. l \in Links /\ wire[l] \in Seq(AnySlab)
  BY <1>2, <1>3, LinkExists DEF Types
<1>6. /\ wire'[l] = Append(wire[l], sbuff[r][s])
      /\ \A p \in Links : p # l => wire'[p] = wire[p]
      /\ wire' \in [Links -> Seq(AnySlab)]
  <2>1. Append(wire[l], sbuff[r][s]) \in Seq(AnySlab)
    BY <1>3, <1>5
  <2> HIDE DEF l
  <2> QED
    BY <1>1, <1>2, <1>5, <2>1 DEF Types
<1>7. Types'
  BY <1>1, <1>2, <1>4, <1>6 DEF Types
<1>8. \A x \in Rank : Placed(x)' /\ Buffered(x)' /\ Fielded(x)'
  <2> SUFFICES ASSUME NEW x \in Rank PROVE Placed(x)' /\ Buffered(x)' /\ Fielded(x)'
    OBVIOUS
  <2>1. CASE x # r
    BY <1>1, <1>4, <2>1, OtherRank DEF IInv
  <2>2. CASE x = r
    <3>1. Placed(r)'
      BY <1>1, <1>2, <1>3, <1>4 DEF Placed, Neighbours
    <3>2. Buffered(r)'
      <4>1. \A t \in sending'[r] : Carries(routine, r, t, sbuff[r][t], call[r])
        BY <1>2, <1>4 DEF Buffered
      <4> QED
        BY <1>1, <1>2, <4>1 DEF Buffered
    <3>3. Fielded(r)'
      BY <1>1, <1>2 DEF Fielded, Returned
    <3> QED
      BY <2>2, <3>1, <3>2, <3>3
  <2> QED
    BY <2>1, <2>2
<1>9. \A x \in Rank : Barred(x)'
  BY <1>1, <1>3, BarredStays
<1>10. \A x \in Rank : \A t \in Side : Received(x, t)' = Received(x, t)
  BY <1>1 DEF Received, Passed
<1>11. call[r] \in Int /\ axis[r] \in Int
  <2>1. call[r] \in Int /\ axis[r] \in Axis
    BY <1>2 DEF Types
  <2> QED
    BY <2>1 DEF Axis
<1>12. Sent(r, s) = call[r] - 1 /\ Sent(r, s)' = call[r]
  <2>1. ~Passed(r, s) /\ ~Passed(r, s)'
    BY <1>1, <1>3, <1>11 DEF Passed
  <2> QED
    BY <1>1, <1>3, <1>4, <2>1 DEF Sent
<1>13. ASSUME NEW x \in Rank, NEW t \in Side, x # r \/ t # s
       PROVE  Sent(x, t)' = Sent(x, t)
  BY <1>1, <1>4, <1>13 DEF Sent, Passed
<1>14. ASSUME NEW x \in Rank, NEW t \in Side, HasNeighbour(x, t)
       PROVE  Queue(routine, x, t, wire'[<<x, nrk(x, t)>>], Sent(x, t)',
                    Received(nrk(x, t), Opp(t)))
  <2>1. Queue(routine, x, t, wire[<<x, nrk(x, t)>>], Sent(x, t), Received(nrk(x, t), Opp(t)))
    BY <1>14 DEF IInv, Queued
  <2>2. CASE x = r /\ t = s
    <3> DEFINE n == Received(q, Opp(s))
    <3>1. n \in Int
      BY <1>2, <1>3, Back, CountsAreInt
    <3>2. Queue(routine, r, s, wire[l], call[r] - 1, n)
      BY <1>12, <2>1, <2>2
    <3> HIDE DEF n, l
    <3>3. Queue(routine, r, s, Append(wire[l], sbuff[r][s]), call[r], n)
      BY <1>3, <1>5, <1>11, <3>1, <3>2, QueueGrows
    <3> QED
      BY <1>6, <1>12, <2>2, <3>3 DEF n, l
  <2>3. CASE x # r \/ t # s
    <3>1. <<x, nrk(x, t)>> # l /\ <<x, nrk(x, t)>> \in Links
      BY <1>3, <1>14, <2>3, SideUnique, LinkExists
    <3> QED
      BY <1>6, <1>13, <2>1, <2>3, <3>1
  <2> QED
    BY <2>2, <2>3
<1>15. \A x \in Rank : \A t \in Side : Queued(x, t)'
  <2> SUFFICES ASSUME NEW x \in Rank, NEW t \in Side, HasNeighbour(x, t)
               PROVE  Queue(routine', x, t, wire'[<<x, nrk(x, t)>>], Sent(x, t)',
                            Received(nrk(x, t), Opp(t))')
    BY DEF Queued
  <2>1. nrk(x, t) \in Rank /\ Opp(t) \in Side
    BY Back
  <2>2. Received(nrk(x, t), Opp(t))' = Received(nrk(x, t), Opp(t))
    BY <1>10, <2>1
  <2> QED
    BY <1>1, <1>14, <2>2
<1> QED
  BY <1>7, <1>8, <1>9, <1>15 DEF IInv

\* What is unpacked stays in the type of a field.
LEMMA UnpackedType ==
    ASSUME NEW r \in Rank, NEW old \in [Local -> Value], NEW buffer,
           NEW sides \in SUBSET Side,
           \A s \in sides : HasNeighbour(r, s) /\ buffer[s] \in Slabs(s[1])
    PROVE  Unpacked(old, buffer, sides) \in [Local -> Value]
<1>1. ASSUME NEW c \in Local
      PROVE  Unpacked(old, buffer, sides)[c] \in Value
  <2>1. CASE Unpacked(old, buffer, sides)[c] = old[c]
    BY <2>1
  <2>2. ASSUME NEW s \in sides, Holds(s, c),
               Unpacked(old, buffer, sides)[c] = buffer[s][Shifted(c, s[1], -UnpackTo(s))]
        PROVE  Unpacked(old, buffer, sides)[c] \in Value
    <3>1. Shifted(c, s[1], -UnpackTo(s)) \in Layers(s[1])
      BY <2>2, Across
    <3>2. buffer[s] \in [Layers(s[1]) -> Value]
      BY DEF Slabs
    <3> QED
      BY <2>2, <3>1, <3>2
  <2> QED
    BY <2>1, <2>2, UnpackedIs
<1>2. Unpacked(old, buffer, sides) = [c \in Local |-> Unpacked(old, buffer, sides)[c]]
  BY DEF Unpacked
<1> QED
  BY <1>1, <1>2

\* What has come when the receives of a rank have completed.
Arrivals(r) == [s \in Side |-> IF s \in Neighbours(r, axis[r]) THEN Head(wire[<<nrk(r, s), r>>])
                                                               ELSE rbuff[r][s]]

LEMMA ReceivedIsCarried ==
    ASSUME IInv, NEW r \in Rank, at[r] = "wait", NEW s \in Neighbours(r, axis[r]),
           wire[<<nrk(r, s), r>>] # <<>>
    PROVE  /\ Carries(routine, nrk(r, s), Opp(s), Head(wire[<<nrk(r, s), r>>]), call[r])
           /\ Queue(routine, nrk(r, s), Opp(s), Tail(wire[<<nrk(r, s), r>>]),
                    Sent(nrk(r, s), Opp(s)), call[r])
           /\ Received(r, s) = call[r] - 1
<1> DEFINE q == nrk(r, s)
           t == Opp(s)
           w == wire[<<q, r>>]
           k == Sent(q, t)
<1>1. s \in Side /\ s[1] = axis[r] /\ HasNeighbour(r, s)
  BY DEF Neighbours
<1>2. q \in Rank /\ t \in Side /\ HasNeighbour(q, t) /\ nrk(q, t) = r /\ Opp(t) = s
  BY <1>1, Back
<1>3. <<q, r>> \in Links
  BY <1>2, LinkExists
<1>4. w \in Seq(AnySlab) /\ call[r] \in Int /\ axis[r] \in Int /\ k \in Int
  <2>1. Types
    BY DEF IInv
  <2>2. call[r] \in Int /\ axis[r] \in Axis
    BY <2>1 DEF Types
  <2> QED
    BY <1>2, <1>3, <2>1, <2>2, CountsAreInt DEF Types, Axis
<1>5. Received(r, s) = call[r] - 1
  BY <1>1, <1>4 DEF Received, Passed
<1>6. Queue(routine, q, t, w, k, call[r] - 1)
  <2>1. Queued(q, t)
    BY <1>2 DEF IInv
  <2>2. Queue(routine, q, t, wire[<<q, nrk(q, t)>>], Sent(q, t), Received(nrk(q, t), Opp(t)))
    BY <1>2, <2>1 DEF Queued
  <2> QED
    BY <1>2, <1>5, <2>2
<1>7. w # <<>>
  OBVIOUS
<1> HIDE DEF q, t, w, k
<1>8. Carries(routine, q, t, Head(w), call[r]) /\ Queue(routine, q, t, Tail(w), k, call[r])
  BY <1>4, <1>6, <1>7, QueueShrinks
<1> QED
  BY <1>5, <1>8 DEF q, t, w, k

\* What is unpacked is what the neighbours have sent in this call.
LEMMA UnpackedIsCarried ==
    ASSUME IInv, NEW r \in Rank, at[r] = "wait",
           \A s \in Neighbours(r, axis[r]) : wire[<<nrk(r, s), r>>] # <<>>
    PROVE  /\ Arrivals(r) \in [Side -> AnySlab]
           /\ \A s \in Neighbours(r, axis[r]) :
                 Carries(routine, nrk(r, s), Opp(s), Arrivals(r)[s], call[r])
           /\ AtOnce(routine) => \A s \in Side : (HasNeighbour(r, s) /\ s[1] >= axis[r]) =>
                 Carries(routine, nrk(r, s), Opp(s), Arrivals(r)[s], call[r])
<1> DEFINE N == Neighbours(r, axis[r])
<1>1. \A s \in N : s \in Side /\ s[1] = axis[r] /\ HasNeighbour(r, s)
  BY DEF Neighbours
<1>2. \A s \in Side : (HasNeighbour(r, s) /\ s[1] = axis[r]) => s \in N
  BY DEF Neighbours
<1>3. Types /\ Buffered(r)
  BY DEF IInv
<1>4. \A s \in N : Arrivals(r)[s] = Head(wire[<<nrk(r, s), r>>])
  BY <1>1 DEF Arrivals
<1>5. \A s \in Side : s \notin N => Arrivals(r)[s] = rbuff[r][s]
  BY DEF Arrivals
<1>6. \A s \in N : Carries(routine, nrk(r, s), Opp(s), Arrivals(r)[s], call[r])
  BY <1>4, ReceivedIsCarried
<1> HIDE DEF N
<1>7. \A s \in Side : Arrivals(r)[s] \in AnySlab
  <2>1. ASSUME NEW s \in N
        PROVE  Arrivals(r)[s] \in AnySlab
    <3>1. Opp(s) \in Side
      BY <1>1, SideIs
    <3>2. Arrivals(r)[s] \in Slabs(Opp(s)[1])
      BY <1>6 DEF Carries
    <3> QED
      BY <3>1, <3>2, SlabIsAny
  <2>2. ASSUME NEW s \in Side, s \notin N
        PROVE  Arrivals(r)[s] \in AnySlab
    BY <1>3, <1>5, <2>2 DEF Types
  <2> QED
    BY <2>1, <2>2
<1>8. Arrivals(r) \in [Side -> AnySlab]
  <2>1. Arrivals(r) = [s \in Side |-> Arrivals(r)[s]]
    BY DEF Arrivals
  <2> QED
    BY <1>7, <2>1
<1>9. ASSUME AtOnce(routine), NEW s \in Side, HasNeighbour(r, s), s[1] >= axis[r]
      PROVE  Carries(routine, nrk(r, s), Opp(s), Arrivals(r)[s], call[r])
  <2>1. CASE s[1] = axis[r]
    BY <1>2, <1>6, <1>9, <2>1
  <2>2. CASE s[1] # axis[r]
    <3>1. s[1] \in Axis /\ axis[r] \in Axis
      BY <1>3, SideIs DEF Types
    <3>2. s[1] > axis[r] /\ s \notin N
      BY <1>1, <1>9, <2>2, <3>1 DEF Axis
    <3> QED
      BY <1>3, <1>5, <1>9, <3>2 DEF Buffered
  <2> QED
    BY <2>1, <2>2
<1> QED
  BY <1>6, <1>8, <1>9 DEF N

\* The field of a rank after the wait.
LEMMA FieldUnpacked ==
    ASSUME IInv, NEW r \in Rank, at[r] = "wait",
           \A s \in Neighbours(r, axis[r]) : wire[<<nrk(r, s), r>>] # <<>>
    PROVE  LET a   == axis[r]
               new == Unpacked(f[r], Arrivals(r), UnpackedAt(r, a))
           IN  /\ new \in [Local -> Value]
               /\ Thick /\ a > 1 => Current(routine, new, r, call[r], a - 1)
               /\ Thick /\ a = 1 => Whole(routine, new, r, call[r])
<1> DEFINE a   == axis[r]
           U   == UnpackedAt(r, a)
           new == Unpacked(f[r], Arrivals(r), U)
<1>1. Types /\ Fielded(r) /\ a \in Axis /\ f[r] \in [Local -> Value]
  BY DEF IInv, Types
<1>2. routine \in {"communication", "sync_label_halo"}
  BY <1>1 DEF Types
<1>3. /\ ~AtOnce(routine) => U = Neighbours(r, a)
      /\ AtOnce(routine) /\ a = 1 => U = {s \in Side : HasNeighbour(r, s)}
      /\ AtOnce(routine) /\ a # 1 => U = {}
  BY <1>2 DEF AtOnce, UnpackedAt
<1>4. /\ \A s \in Neighbours(r, a) :
            Carries(routine, nrk(r, s), Opp(s), Arrivals(r)[s], call[r])
      /\ AtOnce(routine) => \A s \in Side : (HasNeighbour(r, s) /\ s[1] >= a) =>
            Carries(routine, nrk(r, s), Opp(s), Arrivals(r)[s], call[r])
  BY UnpackedIsCarried
<1>5. \A s \in Side : s[1] \in Axis /\ Opp(s)[1] = s[1]
  BY SideIs
<1>6. Thick => Current(routine, f[r], r, call[r], a)
  BY <1>1 DEF Fielded
<1> HIDE DEF U, a
<1>7. CASE ~AtOnce(routine)
  <2>1. U = Neighbours(r, a)
    BY <1>3, <1>7
  <2>2. \A s \in U : s \in Side /\ HasNeighbour(r, s) /\ Arrivals(r)[s] \in Slabs(s[1])
    BY <1>4, <1>5, <2>1 DEF Neighbours, Carries
  <2>3. new \in [Local -> Value]
    BY <1>1, <2>2, UnpackedType
  <2>4. Thick => Current(routine, new, r, call[r], a - 1)
    <3> SUFFICES ASSUME Thick PROVE Current(routine, new, r, call[r], a - 1)
      OBVIOUS
    <3>1. \A s \in Neighbours(r, a) :
             Good(routine, nrk(r, s), Opp(s), Arrivals(r)[s], call[r])
      BY <1>4 DEF Carries
    <3> QED
      BY <1>1, <1>6, <1>7, <2>1, <3>1, DirectionUnpacked
  <2>5. (Thick /\ a = 1) => Whole(routine, new, r, call[r])
    <3> SUFFICES ASSUME Thick, a = 1 PROVE Whole(routine, new, r, call[r])
      OBVIOUS
    <3> HIDE DEF new
    <3>1. ASSUME NEW c \in Local, FilledIn(routine, c)
          PROVE  Known(routine, c, a - 1)
      <4>1. \A b \in Axis : Depth(c, b) <= stm
        BY <3>1 DEF FilledIn, InHalo
      <4>2. \A b \in Axis : ~(b <= a - 1)
        BY DEF Axis
      <4> QED
        BY <1>7, <4>1, <4>2 DEF Known
    <3> QED
      BY <2>4, <3>1 DEF Current, Whole
  <2> QED
    BY <2>3, <2>4, <2>5 DEF U, a
<1>8. CASE AtOnce(routine) /\ a = 1
  <2>1. U = {s \in Side : HasNeighbour(r, s)}
    BY <1>3, <1>8
  <2>2. \A s \in U : /\ s \in Side /\ HasNeighbour(r, s)
                     /\ Carries(routine, nrk(r, s), Opp(s), Arrivals(r)[s], call[r])
    BY <1>4, <1>5, <1>8, <2>1 DEF Axis
  <2>3. \A s \in U : Arrivals(r)[s] \in Slabs(s[1])
    BY <1>5, <2>2 DEF Carries
  <2>4. new \in [Local -> Value]
    BY <1>1, <2>2, <2>3, UnpackedType
  <2>5. Thick => Whole(routine, new, r, call[r])
    <3> SUFFICES ASSUME Thick, NEW c \in Local,
                        FilledIn(routine, c), InDomain(Global(r, c))
                 PROVE  new[c] = <<call[r], Global(r, c)>>
      BY DEF Whole
    <3>1. \A s \in Side : HasNeighbour(r, s) =>
             Good(routine, nrk(r, s), Opp(s), Arrivals(r)[s], call[r])
      BY <2>1, <2>2 DEF Carries
    <3>2. Current(routine, f[r], r, call[r], 1)
      BY <1>6, <1>8
    <3> QED
      BY <1>8, <2>1, <3>1, <3>2, FacesUnpacked
  <2> QED
    BY <1>8, <2>4, <2>5 DEF U, a
<1>9. CASE AtOnce(routine) /\ a # 1
  <2>1. U = {}
    BY <1>3, <1>9
  <2>2. \A c \in Local : new[c] = f[r][c]
    BY <2>1, UnpackedIs
  <2>3. new \in [Local -> Value]
    BY <1>1, <2>1, UnpackedType
  <2>4. \A c \in Local : Known(routine, c, a - 1) => Known(routine, c, a)
    BY <1>9 DEF Known
  <2>5. Thick => Current(routine, new, r, call[r], a - 1)
    <3> HIDE DEF new
    <3> QED
      BY <1>6, <2>2, <2>4 DEF Current
  <2> QED
    BY <1>9, <2>3, <2>5 DEF U, a
<1> QED
  BY <1>7, <1>8, <1>9

LEMMA WaitKeeps ==
    ASSUME IInv, NEW r \in Rank, Wait(r)
    PROVE  IInv'
<1> DEFINE a   == axis[r]
           N   == Neighbours(r, a)
           new == Unpacked(f[r], Arrivals(r), UnpackedAt(r, a))
           l   == IF a > 1 THEN "post" ELSE IF routine = "communication" THEN "barrier"
                                            ELSE "compute"
           Of(p) == p[2] = r /\ \E s \in N : p[1] = nrk(r, s)
<1>1. /\ at[r] = "wait" /\ sending[r] = {}
      /\ \A s \in N : wire[<<nrk(r, s), r>>] # <<>>
      /\ wire' = [p \in DOMAIN wire |-> IF Of(p) THEN Tail(wire[p]) ELSE wire[p]]
      /\ axis' = [axis EXCEPT ![r] = NextAxis(a)]
      /\ at' = [at EXCEPT ![r] = l]
      /\ UNCHANGED <<routine, call, sbuff, sending>>
  BY DEF Wait
<1>2. /\ rbuff' = [rbuff EXCEPT ![r] = Arrivals(r)]
      /\ f' = [f EXCEPT ![r] = new]
  <2>1. f' = [f EXCEPT ![r] = Unpacked(@, Arrivals(r), UnpackedAt(r, a))]
        /\ rbuff' = [rbuff EXCEPT ![r] = Arrivals(r)]
    BY Zenon DEF Wait, Arrivals
  <2> QED
    BY <2>1 DEF IInv, Types
<1>3. Types /\ Placed(r) /\ Buffered(r) /\ Fielded(r)
  BY DEF IInv
<1>4. /\ a \in {1, 2, 3} /\ axis'[r] = IF a = 1 THEN 3 ELSE a - 1
      /\ at'[r] = l
      /\ l = "post" <=> a > 1
      /\ l \in {"barrier", "compute"} <=> a = 1
      /\ l = "barrier" => ~AtOnce(routine)
      /\ l = "compute" => AtOnce(routine)
      /\ l \in {"post", "barrier", "compute"}
  <2>1. a \in {1, 2, 3} /\ routine \in {"communication", "sync_label_halo"}
    BY <1>3 DEF Types, Axis
  <2>2. axis'[r] = NextAxis(a) /\ at'[r] = l
    BY <1>1, <1>3 DEF Types
  <2> QED
    BY <2>1, <2>2 DEF NextAxis, AtOnce
<1>5. \A q \in Rank : q # r => /\ f'[q] = f[q] /\ at'[q] = at[q] /\ axis'[q] = axis[q]
                               /\ rbuff'[q] = rbuff[q]
  BY <1>1, <1>2, <1>3 DEF Types
<1>6. /\ new \in [Local -> Value]
      /\ Thick /\ a > 1 => Current(routine, new, r, call[r], a - 1)
      /\ Thick /\ a = 1 => Whole(routine, new, r, call[r])
  BY <1>1, FieldUnpacked
<1>7. /\ Arrivals(r) \in [Side -> AnySlab]
      /\ AtOnce(routine) => \A s \in Side : (HasNeighbour(r, s) /\ s[1] >= a) =>
            Carries(routine, nrk(r, s), Opp(s), Arrivals(r)[s], call[r])
  BY <1>1, UnpackedIsCarried
<1>8. f'[r] = new /\ rbuff'[r] = Arrivals(r)
  BY <1>2, <1>3 DEF Types
<1> HIDE DEF new, l, Of, a, N
<1>9. \A p \in Links : wire'[p] = IF Of(p) THEN Tail(wire[p]) ELSE wire[p]
  BY <1>1, <1>3 DEF Types
<1>10. \A s \in Side : s[1] \in {1, 2, 3}
  BY SideIs DEF Axis
<1>11. call[r] \in Int
  BY <1>3 DEF Types
<1>12. ASSUME NEW q \in Rank, NEW s \in Side, HasNeighbour(q, s)
       PROVE  /\ Of(<<q, nrk(q, s)>>) <=> (nrk(q, s) = r /\ s[1] = a)
              /\ Of(<<q, nrk(q, s)>>) =>
                    Opp(s) \in N /\ q = nrk(r, Opp(s)) /\ Opp(Opp(s)) = s
  <2>1. /\ Opp(s) \in Side /\ HasNeighbour(nrk(q, s), Opp(s)) /\ Opp(Opp(s)) = s
        /\ nrk(nrk(q, s), Opp(s)) = q /\ Opp(s)[1] = s[1]
    BY <1>12, Back, SideIs
  <2>2. Of(<<q, nrk(q, s)>>) <=> (nrk(q, s) = r /\ \E t \in N : q = nrk(r, t))
    BY DEF Of
  <2>3. ASSUME nrk(q, s) = r, NEW t \in N, q = nrk(r, t)
        PROVE  t = Opp(s) /\ s[1] = a
    <3>1. t \in Side /\ t[1] = a /\ HasNeighbour(r, t)
      BY DEF N, Neighbours
    <3> QED
      BY <2>1, <2>3, <3>1, SideUnique
  <2>4. ASSUME nrk(q, s) = r, s[1] = a
        PROVE  Opp(s) \in N /\ q = nrk(r, Opp(s))
    BY <2>1, <2>4 DEF N, Neighbours
  <2> QED
    BY <2>1, <2>2, <2>3, <2>4
<1>13. ASSUME NEW s \in Side
       PROVE  /\ Received(r, s)' = IF s[1] >= a THEN call[r] ELSE call[r] - 1
              /\ Received(r, s) = IF s[1] > a THEN call[r] ELSE call[r] - 1
  <2>1. axis[r] = a /\ s[1] \in {1, 2, 3} /\ call' = call
    BY <1>1, <1>10 DEF a
  <2>2. Passed(r, s) <=> s[1] > a
    BY <1>1, <2>1 DEF Passed
  <2>3. Passed(r, s)' <=> s[1] >= a
    BY <1>4, <2>1 DEF Passed
  <2> QED
    BY <1>4, <2>1, <2>2, <2>3 DEF Received
<1>14. \A s \in Side : Sent(r, s)' = Sent(r, s)
  <2> SUFFICES ASSUME NEW s \in Side PROVE Sent(r, s)' = Sent(r, s)
    OBVIOUS
  <2>1. axis[r] = a /\ s[1] \in {1, 2, 3} /\ call' = call
    BY <1>1, <1>10 DEF a
  <2>2. Passed(r, s) <=> s[1] > a
    BY <1>1, <2>1 DEF Passed
  <2>3. Passed(r, s)' <=> s[1] >= a
    BY <1>4, <2>1 DEF Passed
  <2>4. Sent(r, s) = IF s[1] >= a THEN call[r] ELSE call[r] - 1
    BY <1>1, <1>4, <2>1, <2>2 DEF Sent
  <2>5. at'[r] # "wait"
    BY <1>4
  <2> QED
    BY <2>1, <2>3, <2>4, <2>5 DEF Sent
<1>15. \A q \in Rank : \A s \in Side :
          q # r => Sent(q, s)' = Sent(q, s) /\ Received(q, s)' = Received(q, s)
  BY <1>1, <1>5 DEF Sent, Received, Passed
<1>16. Types'
  <2>1. at' \in [Rank -> {"compute", "post", "wait", "barrier"}]
    BY <1>1, <1>3, <1>4 DEF Types
  <2>2. axis' \in [Rank -> Axis]
    <3>1. NextAxis(a) \in Axis
      BY <1>4 DEF NextAxis, Axis
    <3> QED
      BY <1>1, <1>3, <3>1 DEF Types
  <2>3. f' \in [Rank -> [Local -> Value]] /\ rbuff' \in [Rank -> [Side -> AnySlab]]
    BY <1>2, <1>3, <1>6, <1>7 DEF Types
  <2>4. wire' \in [Links -> Seq(AnySlab)]
    <3>1. ASSUME NEW p \in Links
          PROVE  wire'[p] \in Seq(AnySlab)
      <4>1. CASE Of(p)
        <5>1. wire[p] # <<>>
          <6>1. PICK s \in N : p[1] = nrk(r, s) /\ p[2] = r
            BY <4>1 DEF Of
          <6>2. p = <<nrk(r, s), r>>
            BY <6>1 DEF Links
          <6> QED
            BY <1>1, <6>2
        <5>2. Tail(wire[p]) \in Seq(AnySlab)
          BY <1>3, <5>1 DEF Types
        <5> QED
          BY <1>9, <4>1, <5>2
      <4>2. CASE ~Of(p)
        BY <1>3, <1>9, <4>2 DEF Types
      <4> QED
        BY <4>1, <4>2
    <3>2. wire' = [p \in Links |-> wire'[p]]
      BY <1>1, <1>3 DEF Types
    <3> QED
      BY <3>1, <3>2
  <2> QED
    BY <1>1, <1>3, <2>1, <2>2, <2>3, <2>4 DEF Types
<1>17. \A q \in Rank : Placed(q)' /\ Buffered(q)' /\ Fielded(q)'
  <2> SUFFICES ASSUME NEW q \in Rank PROVE Placed(q)' /\ Buffered(q)' /\ Fielded(q)'
    OBVIOUS
  <2>1. CASE q # r
    BY <1>1, <1>5, <2>1, OtherRank DEF IInv
  <2>2. CASE q = r
    <3>1. Placed(r)'
      <4>1. call[r] > 0
        BY <1>1, <1>3 DEF Placed
      <4> QED
        BY <1>1, <1>4, <4>1 DEF Placed
    <3>2. Buffered(r)'
      <4>1. sending'[r] = {}
        BY <1>1
      <4>2. ASSUME AtOnce(routine), at'[r] \in {"post", "wait"},
                   NEW s \in Side, HasNeighbour(r, s), s[1] > axis'[r]
            PROVE  Carries(routine, nrk(r, s), Opp(s), Arrivals(r)[s], call[r])
        <5>1. s[1] >= a
          BY <1>4, <1>10, <4>2
        <5> QED
          BY <1>7, <4>2, <5>1
      <4> QED
        BY <1>1, <1>8, <4>1, <4>2 DEF Buffered
    <3>3. Fielded(r)'
      <4>1. at'[r] # "wait" /\ (at'[r] = "post" <=> a > 1)
            /\ (at'[r] \in {"barrier", "compute"} <=> a = 1)
        BY <1>4
      <4>2. a > 1 => axis'[r] = a - 1
        BY <1>4
      <4> QED
        BY <1>1, <1>6, <1>8, <4>1, <4>2 DEF Fielded, Returned
    <3> QED
      BY <2>2, <3>1, <3>2, <3>3
  <2> QED
    BY <2>1, <2>2
<1>18. \A q \in Rank : Barred(q)'
  <2> SUFFICES ASSUME NEW q \in Rank PROVE Barred(q)'
    OBVIOUS
  <2>1. CASE q = r
    BY <1>1, <1>4, <2>1 DEF Barred
  <2>2. CASE q # r
    <3>1. \A x \in Rank : Arrived(x, call[q]) => Arrived(x, call[q])'
      <4>1. call' = call
        BY <1>1
      <4>2. \A x \in Rank : at[x] \in {"barrier", "compute"} => at'[x] \in {"barrier", "compute"}
        BY <1>1, <1>5
      <4> QED
        BY <4>1, <4>2 DEF Arrived
    <3>2. Barred(q)
      BY DEF IInv
    <3> QED
      BY <1>1, <1>5, <2>2, <3>1, <3>2, StillBarred
  <2> QED
    BY <2>1, <2>2
<1>19. ASSUME NEW q \in Rank, NEW s \in Side, HasNeighbour(q, s)
       PROVE  Queue(routine, q, s, wire'[<<q, nrk(q, s)>>], Sent(q, s)',
                    Received(nrk(q, s), Opp(s))')
  <2>1. /\ nrk(q, s) \in Rank /\ Opp(s) \in Side /\ Opp(s)[1] = s[1]
        /\ <<q, nrk(q, s)>> \in Links
    BY <1>19, Back, SideIs, LinkExists
  <2>2. Queue(routine, q, s, wire[<<q, nrk(q, s)>>], Sent(q, s), Received(nrk(q, s), Opp(s)))
    BY <1>19 DEF IInv, Queued
  <2>3. Sent(q, s)' = Sent(q, s)
    BY <1>14, <1>15
  <2>4. CASE Of(<<q, nrk(q, s)>>)
    <3>1. nrk(q, s) = r /\ s[1] = a /\ Opp(s) \in N /\ q = nrk(r, Opp(s)) /\ Opp(Opp(s)) = s
      BY <1>12, <1>19, <2>4
    <3>2. wire[<<nrk(r, Opp(s)), r>>] # <<>>
      BY <1>1, <3>1
    <3>3. Queue(routine, nrk(r, Opp(s)), Opp(Opp(s)), Tail(wire[<<nrk(r, Opp(s)), r>>]),
                Sent(nrk(r, Opp(s)), Opp(Opp(s))), call[r])
      <4>1. Opp(s) \in Neighbours(r, axis[r])
        BY <3>1 DEF N, a
      <4> QED
        BY <1>1, <3>2, <4>1, ReceivedIsCarried
    <3>4. Queue(routine, q, s, Tail(wire[<<q, r>>]), Sent(q, s), call[r])
      BY <3>1, <3>3
    <3>5. wire'[<<q, nrk(q, s)>>] = Tail(wire[<<q, r>>])
      BY <1>9, <2>1, <2>4, <3>1
    <3>6. Received(nrk(q, s), Opp(s))' = call[r]
      <4>1. Received(r, Opp(s))' = call[r]
        BY <1>4, <1>13, <2>1, <3>1
      <4> QED
        BY <3>1, <4>1
    <3> QED
      BY <2>3, <3>4, <3>5, <3>6
  <2>5. CASE ~Of(<<q, nrk(q, s)>>)
    <3>1. wire'[<<q, nrk(q, s)>>] = wire[<<q, nrk(q, s)>>]
      BY <1>9, <2>1, <2>5
    <3>2. Received(nrk(q, s), Opp(s))' = Received(nrk(q, s), Opp(s))
      <4>1. CASE nrk(q, s) = r
        <5>1. Opp(s)[1] # a
          BY <1>12, <1>19, <2>1, <2>5, <4>1
        <5>2. Received(r, Opp(s))' = Received(r, Opp(s))
          BY <1>4, <1>10, <1>13, <2>1, <5>1
        <5> QED
          BY <4>1, <5>2
      <4>2. CASE nrk(q, s) # r
        BY <1>15, <2>1, <4>2
      <4> QED
        BY <4>1, <4>2
    <3> QED
      BY <2>2, <2>3, <3>1, <3>2
  <2> QED
    BY <2>4, <2>5
<1>20. \A q \in Rank : \A s \in Side : Queued(q, s)'
  BY <1>1, <1>19 DEF Queued
<1> QED
  BY <1>16, <1>17, <1>18, <1>20 DEF IInv

-------------------------------------------------------------------------------
(***************************************************************************)
(* The theorems.                                                           *)
(***************************************************************************)
LEMMA NextKeeps ==
    ASSUME IInv, [Next]_vars
    PROVE  IInv'
<1>1. CASE UNCHANGED vars
  BY <1>1 DEF vars, IInv, Types, Placed, Buffered, Fielded, Returned, Barred, Arrived,
              Queued, Sent, Received, Passed
<1>2. ASSUME NEW r \in Rank, RankStep(r)
      PROVE  IInv'
  BY <1>2, ComputeKeeps, PostKeeps, WaitKeeps, BarrierKeeps DEF RankStep
<1>3. ASSUME NEW r \in Rank, NEW s \in Side, Transfer(r, s)
      PROVE  IInv'
  BY <1>3, TransferKeeps
<1>4. CASE Terminated
  BY <1>1, <1>4 DEF Terminated
<1> QED
  BY <1>1, <1>2, <1>3, <1>4 DEF Next

\* The invariant that the theorems follow from.
THEOREM IInvHolds == Spec => []IInv
<1>1. Init => IInv
  BY InitIsInv
<1>2. IInv /\ [Next]_vars => IInv'
  BY NextKeeps
<1> QED
  BY <1>1, <1>2, PTL DEF Spec

\* For any decomposition and any halo, thin subdomains included, every variable of
\* communication() and sync_label_halo() stays in its type: nothing is unpacked that
\* has not been packed, and only sides with a neighbour are sent to.
THEOREM TypesAlwaysOK == Spec => []TypeOK
<1>1. IInv => TypeOK
  <2> SUFFICES ASSUME IInv PROVE TypeOK
    OBVIOUS
  <2>1. Types
    BY DEF IInv
  <2>2. \A r \in Rank : \A c \in Local : f[r][c] \in (0 .. CallBound) \X (Int \X Int \X Int)
    <3>1. \A r \in Rank : \A c \in Local : f[r][c] \in Value
      BY <2>1 DEF Types
    <3> QED
      BY <3>1 DEF Value, Triple
  <2>3. \A r \in Rank : sending[r] \subseteq {s \in Side : HasNeighbour(r, s)}
    BY DEF IInv, Placed, Neighbours
  <2> QED
    BY <2>1, <2>2, <2>3 DEF Types, TypeOK
<1> QED
  BY <1>1, IInvHolds, PTL

\* Where every rank with a neighbour is as thick as its halo, communication() leaves
\* in every cell of the halo, on faces, edges and corners, and sync_label_halo() in
\* every cell of the faces, what the owner of the cell has computed for this call,
\* whatever the order in which ranks run and messages arrive.
THEOREM HaloAlwaysCurrent ==
    ASSUME Thick
    PROVE  Spec => []HaloCurrent
<1>1. IInv => HaloCurrent
  <2> SUFFICES ASSUME IInv, NEW r \in Rank, Returned(r),
                      NEW c \in Local, Filled(c), InDomain(Global(r, c))
               PROVE  f[r][c] = <<call[r], Global(r, c)>>
    BY DEF HaloCurrent
  <2>1. Whole(routine, f[r], r, call[r])
    BY DEF IInv, Fielded
  <2>2. FilledIn(routine, c)
    BY DEF Filled, FilledIn, AtOnce
  <2> QED
    BY <2>1, <2>2 DEF Whole
<1> QED
  BY <1>1, IInvHolds, PTL

\* The barrier at the end of communication(): when a rank returns, no message of this
\* call or an earlier one is left between any two ranks, in any decomposition.
THEOREM NoMessageEverOutlivesCall == Spec => []NoMessageOutlivesCall
<1>1. IInv => NoMessageOutlivesCall
  <2> SUFFICES ASSUME IInv, NEW r \in Rank, routine = "communication", call[r] > 0,
                      at[r] = "compute", NEW p \in DOMAIN wire, call[p[1]] <= call[r]
               PROVE  wire[p] = <<>>
    BY DEF NoMessageOutlivesCall
  <2>1. Types
    BY DEF IInv
  <2>2. PICK q \in Rank, s \in Side : HasNeighbour(q, s) /\ p = <<q, nrk(q, s)>>
    <3>1. p \in Links
      BY <2>1 DEF Types
    <3>2. PICK x \in {y \in Rank \X Side : HasNeighbour(y[1], y[2])} :
             p = <<x[1], nrk(x[1], x[2])>>
      BY <3>1 DEF Links
    <3>3. x[1] \in Rank /\ x[2] \in Side /\ HasNeighbour(x[1], x[2])
      BY <3>2
    <3> QED
      BY <3>2, <3>3
  <2> DEFINE t == nrk(q, s)
  <2>3. t \in Rank /\ Opp(s) \in Side /\ p \in Links
    BY <2>2, Back, LinkExists
  <2>4. \A x \in Rank : Arrived(x, call[r])
    <3>1. Barred(r) /\ ~AtOnce(routine)
      BY DEF IInv, AtOnce
    <3> QED
      BY <3>1 DEF Barred
  <2>5. call[q] \in Int /\ call[t] \in Int /\ call[r] \in Int
    BY <2>1, <2>3 DEF Types
  <2>6. Sent(q, s) <= call[r]
    <3>1. call[q] <= call[r]
      BY <2>2
    <3> QED
      BY <2>5, <3>1 DEF Sent
  <2>7. Received(t, Opp(s)) >= call[r] /\ Received(t, Opp(s)) \in Int
    <3>1. Arrived(t, call[r])
      BY <2>3, <2>4
    <3> HIDE DEF t
    <3> QED
      BY <2>5, <3>1 DEF Arrived, Received, Passed
  <2>8. Len(wire[p]) = Sent(q, s) - Received(t, Opp(s)) /\ Sent(q, s) \in Int
    <3>1. Queued(q, s)
      BY DEF IInv
    <3> QED
      BY <2>1, <2>2, <3>1, CountsAreInt DEF Queued, Queue
  <2>9. wire[p] \in Seq(AnySlab)
    BY <2>1, <2>3 DEF Types
  <2>10. Len(wire[p]) \in Nat
    BY <2>9
  <2>11. Len(wire[p]) = 0
    BY <2>5, <2>6, <2>7, <2>8, <2>10
  <2> QED
    BY <2>9, <2>11
<1> QED
  BY <1>1, IInvHolds, PTL

===============================================================================
