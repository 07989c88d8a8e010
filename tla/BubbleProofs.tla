------------------------------ MODULE BubbleProofs ------------------------------
(***************************************************************************)
(* Proofs about the labelling of bubbles: on one rank (LabelScan), for     *)
(* regions of any extent, and on all of them (BubbleLabels, BubbleLayers), *)
(* for any decomposition of the domain and any set of bubble cells.        *)
(***************************************************************************)
EXTENDS BubbleLayers, LabelScan, FiniteSetTheorems, WellFoundedInduction, TLAPS

-------------------------------------------------------------------------------
(***************************************************************************)
(* One rank: the labels of LabelScan are the connected components of the   *)
(* core cells.                                                             *)
(*                                                                         *)
(* The labels alone say little while the sweeps go on: a bubble may carry  *)
(* many labels, and in the second sweep old and new labels are mixed.  The *)
(* invariant is about the root a cell belongs to, Rooted(c, k), which the  *)
(* second sweep does not change at all.                                    *)
(***************************************************************************)
\* The cells the first and the second sweep are done with.
Swept(c)   == sweep # "scan" \/ Before(c, at)
Counted(c) == sweep = "done" \/ (sweep = "renumber" /\ Before(c, at))

\* k is the root of the label that c has, or had before it was renumbered.
Rooted(c, k) == IF Counted(c) THEN number[k] = label_layer[c] ELSE parent[label_layer[c]] = k

-------------------------------------------------------------------------------
ScanLabelled == \A c \in Cell : label_layer[c] # 0 <=> (c \in bubble /\ Swept(c))

ScanBounded == \A c \in Cell : label_layer[c] <= IF Counted(c) THEN numbered ELSE issued

Numbering ==
    /\ sweep = "scan" => numbered = 0
    /\ \A k \in 1 .. issued : number[k] <= numbered
    /\ \A k, l \in 1 .. issued : (number[k] = number[l] /\ number[k] # 0) => k = l

Named == \A c \in Cell : (Counted(c) /\ label_layer[c] # 0) =>
            \E k \in 1 .. issued : number[k] = label_layer[c]

Reached == \A n \in 1 .. numbered : \E c \in Cell : Counted(c) /\ label_layer[c] = n

Complete == \A c \in bubble : \A d \in Past(c) \cap bubble : Swept(c) =>
               \A k \in 1 .. issued : Rooted(c, k) <=> Rooted(d, k)

Sound == \A S \in SUBSET bubble : Closed(S) =>
            \A c, d \in bubble : \A k \in 1 .. issued :
                (Swept(c) /\ Swept(d) /\ Rooted(c, k) /\ Rooted(d, k)) =>
                    (c \in S <=> d \in S)

ScanInv ==
    /\ ScanTypeOK /\ ScanLabelled /\ ScanBounded
    /\ Numbering /\ Named /\ Reached
    /\ Complete /\ Sound

-------------------------------------------------------------------------------
(***************************************************************************)
(* The order of the sweep.                                                 *)
(***************************************************************************)
\* No cell is swept before the first one, and the last one is swept last.
LEMMA Ends ==
    /\ First \in Cell /\ Last \in Cell
    /\ \A c \in Cell : ~Before(c, First)
    /\ \A c \in Cell : Before(c, Last) <=> c # Last
BY ExtentAssumption DEF Cell, First, Last, Before

\* The loops take the cells one by one: none is left out and none comes twice.
LEMMA Successor ==
    ASSUME NEW c \in Cell, c # Last
    PROVE  /\ After(c) \in Cell
           /\ \A d \in Cell : Before(d, After(c)) <=> (Before(d, c) \/ d = c)
<1>1. After(c) \in Cell
  BY ExtentAssumption DEF Cell, Last, After
<1>2. ASSUME NEW d \in Cell
      PROVE  Before(d, After(c)) <=> (Before(d, c) \/ d = c)
  BY ExtentAssumption DEF Cell, Last, After, Before
<1> QED
  BY <1>1, <1>2

\* Every neighbour of the list has been swept before the cell.
LEMMA PastIsBefore ==
    ASSUME NEW c \in Cell
    PROVE  ~Before(c, c) /\ \A d \in Past(c) : d \in Cell /\ Before(d, c)
<1>1. ~Before(c, c)
  BY DEF Cell, Before
<1>2. ASSUME NEW d \in Past(c)
      PROVE  d \in Cell /\ Before(d, c)
  <2>1. /\ d \in Cell
        /\ <<d[1] - c[1], d[2] - c[2], d[3] - c[3]>> \in Offset
    BY <1>2 DEF Past, Precedes
  <2>2. \/ d[3] - c[3] = -1
        \/ d[3] - c[3] = 0 /\ d[2] - c[2] = -1
        \/ d[3] - c[3] = 0 /\ d[2] - c[2] = 0 /\ d[1] - c[1] = -1
    BY <2>1 DEF Offset
  <2> QED
    BY <2>1, <2>2 DEF Cell, Before
<1> QED
  BY <1>1, <1>2

-------------------------------------------------------------------------------
(***************************************************************************)
(* What a step of either sweep does to the sets of cells dealt with.       *)
(***************************************************************************)
\* A step of the first sweep adds the cell it treats, and counts none.
LEMMA ScanMoves ==
    ASSUME ScanTypeOK, sweep = "scan", Proceed("renumber")
    PROVE  /\ at \in Cell /\ at' \in Cell /\ sweep' \in {"scan", "renumber"}
           /\ ~Swept(at)
           /\ \A c \in Cell : /\ Swept(c)' <=> (Swept(c) \/ c = at)
                              /\ ~Counted(c) /\ ~Counted(c)'
<1>1. at \in Cell
  BY DEF ScanTypeOK
<1>2. ~Swept(at)
  BY <1>1, PastIsBefore DEF Swept
<1>3. CASE at = Last
  <2>1. at' = First /\ sweep' = "renumber"
    BY <1>3 DEF Proceed
  <2> QED
    BY <1>1, <1>2, <1>3, <2>1, Ends DEF Swept, Counted
<1>4. CASE at # Last
  <2>1. at' = After(at) /\ sweep' = "scan"
    BY <1>4 DEF Proceed
  <2> QED
    BY <1>1, <1>2, <1>4, <2>1, Successor DEF Swept, Counted
<1> QED
  BY <1>3, <1>4

\* A step of the second sweep counts the cell it treats; all have been swept.
LEMMA RenumberMoves ==
    ASSUME ScanTypeOK, sweep = "renumber", Proceed("done")
    PROVE  /\ at \in Cell /\ at' \in Cell /\ sweep' \in {"renumber", "done"}
           /\ ~Counted(at)
           /\ \A c \in Cell : /\ Swept(c) /\ Swept(c)'
                              /\ Counted(c)' <=> (Counted(c) \/ c = at)
<1>1. at \in Cell
  BY DEF ScanTypeOK
<1>2. ~Counted(at)
  BY <1>1, PastIsBefore DEF Counted
<1>3. CASE at = Last
  <2>1. at' = First /\ sweep' = "done"
    BY <1>3 DEF Proceed
  <2> QED
    BY <1>1, <1>2, <1>3, <2>1, Ends DEF Swept, Counted
<1>4. CASE at # Last
  <2>1. at' = After(at) /\ sweep' = "renumber"
    BY <1>4 DEF Proceed
  <2> QED
    BY <1>1, <1>2, <1>4, <2>1, Successor DEF Swept, Counted
<1> QED
  BY <1>3, <1>4

-------------------------------------------------------------------------------
(***************************************************************************)
(* The invariant is inductive.                                             *)
(***************************************************************************)
LEMMA ScanInitInv == ScanInit => ScanInv
<1> SUFFICES ASSUME ScanInit PROVE ScanInv
  OBVIOUS
<1>1. \A c \in Cell : ~Swept(c) /\ ~Counted(c) /\ label_layer[c] = 0
  BY Ends DEF ScanInit, Swept, Counted
<1>2. ScanTypeOK
  <2>1. parent \in [1 .. issued -> 1 .. issued] /\ number \in [1 .. issued -> Nat]
    BY DEF ScanInit
  <2> QED
    BY <2>1, Ends DEF ScanInit, ScanTypeOK
<1>3. ScanLabelled /\ ScanBounded /\ Named
  BY <1>1 DEF ScanInit, ScanLabelled, ScanBounded, Named
<1>4. Numbering /\ Reached
  BY DEF ScanInit, Numbering, Reached
<1>5. Complete /\ Sound
  BY <1>1 DEF ScanInit, Complete, Sound
<1> QED
  BY <1>2, <1>3, <1>4, <1>5 DEF ScanInv

LEMMA ScanOtherInv == ScanInv /\ ScanOther => ScanInv'
<1> SUFFICES ASSUME ScanInv, ScanOther PROVE ScanInv'
  OBVIOUS
<1> USE DEF ScanInv
<1>1. /\ at \in Cell /\ at' \in Cell /\ sweep' \in {"scan", "renumber"}
      /\ \A c \in Cell : /\ Swept(c)' <=> (Swept(c) \/ c = at)
                         /\ ~Counted(c) /\ ~Counted(c)'
  BY ScanMoves DEF ScanOther
<1>2. ScanTypeOK'
  BY <1>1 DEF ScanOther, ScanTypeOK
<1>3. ScanLabelled' /\ ScanBounded' /\ Named'
  BY <1>1 DEF ScanOther, ScanLabelled, ScanBounded, Named
<1>4. Numbering' /\ Reached'
  BY <1>1 DEF ScanOther, Numbering, Reached
<1>5. bubble \subseteq Cell /\ at \notin bubble
  BY DEF ScanOther, ScanTypeOK
<1>6. \A c \in bubble : \A k : Rooted(c, k)' <=> Rooted(c, k)
  BY <1>1, <1>5 DEF ScanOther, Rooted
<1>7. Complete'
  BY <1>1, <1>5, <1>6 DEF ScanOther, Complete, Past
<1>8. Sound'
  BY <1>1, <1>5, <1>6 DEF ScanOther, Sound, Closed
<1> QED
  BY <1>2, <1>3, <1>4, <1>7, <1>8

LEMMA ScanNewInv == ScanInv /\ ScanNew => ScanInv'
<1> SUFFICES ASSUME ScanInv, ScanNew PROVE ScanInv'
  OBVIOUS
<1> USE DEF ScanInv
<1>1. /\ at \in Cell /\ at' \in Cell /\ sweep' \in {"scan", "renumber"}
      /\ ~Swept(at)
      /\ \A c \in Cell : /\ Swept(c)' <=> (Swept(c) \/ c = at)
                         /\ ~Counted(c) /\ ~Counted(c)'
  BY ScanMoves DEF ScanNew
<1>2. /\ issued' = issued + 1 /\ issued \in Nat /\ issued' \in Nat
      /\ label_layer' = [label_layer EXCEPT ![at] = issued + 1] /\ label_layer \in [Cell -> Nat]
      /\ parent' = [k \in 1 .. issued + 1 |-> IF k = issued + 1 THEN k ELSE parent[k]]
      /\ number' = [k \in 1 .. issued + 1 |-> 0]
      /\ bubble \subseteq Cell /\ at \in bubble /\ bubble' = bubble
      /\ numbered = 0 /\ numbered' = 0 /\ sweep = "scan"
  BY DEF ScanNew, ScanTypeOK, Numbering
<1>3. parent \in [1 .. issued -> 1 .. issued]
  BY DEF ScanTypeOK
<1>4. ScanTypeOK'
  BY <1>1, <1>2, <1>3 DEF ScanTypeOK
<1>5. ScanLabelled' /\ ScanBounded' /\ Named'
  BY <1>1, <1>2 DEF ScanLabelled, ScanBounded, Named
<1>6. Numbering' /\ Reached'
  BY <1>1, <1>2 DEF Numbering, Reached
\* A cell labelled before keeps its root, and none has the new one.
<1>7. ASSUME NEW c \in bubble, Swept(c)
      PROVE  /\ c # at
             /\ \A k \in 1 .. issued' : Rooted(c, k)' <=> Rooted(c, k)
             /\ ~Rooted(c, issued + 1)
  <2>1. c # at /\ label_layer'[c] = label_layer[c] /\ label_layer[c] \in 1 .. issued
    BY <1>1, <1>2, <1>7 DEF ScanLabelled, ScanBounded
  <2> QED
    BY <1>1, <1>2, <1>3, <2>1 DEF Rooted
<1>8. ASSUME NEW c \in bubble, c = at
      PROVE  \A k \in 1 .. issued' : Rooted(c, k)' <=> k = issued + 1
  BY <1>1, <1>2, <1>8 DEF Rooted
\* No neighbour that is core has been swept: there would be a label.
<1>9. Past(at) \cap bubble = {}
  <2>1. \A d \in Past(at) : d \in Cell /\ Swept(d)
    BY <1>1, <1>2, PastIsBefore DEF Swept
  <2>2. \A d \in Past(at) : label_layer[d] = 0
    BY <2>1 DEF ScanNew, NeighborLabels
  <2> QED
    BY <1>2, <2>1, <2>2 DEF ScanLabelled
<1>10. Complete'
  <2> SUFFICES ASSUME NEW c \in bubble, NEW d \in Past(c) \cap bubble, Swept(c)',
                      NEW k \in 1 .. issued'
               PROVE  Rooted(c, k)' <=> Rooted(d, k)'
    BY <1>2 DEF Complete, Past
  <2>1. Swept(c) /\ Swept(d)
    <3>1. c # at /\ c \in Cell
      BY <1>2, <1>9
    <3>2. Swept(c)
      BY <1>1, <3>1
    <3>3. d \in Cell /\ Before(d, c) /\ Before(c, at)
      BY <1>2, <3>1, <3>2, PastIsBefore DEF Swept
    <3>4. Before(d, at)
      BY <1>1, <3>1, <3>3 DEF Before, Cell
    <3> QED
      BY <3>2, <3>4 DEF Swept
  <2>2. k \in 1 .. issued \/ k = issued + 1
    BY <1>2
  <2> QED
    BY <1>7, <2>1, <2>2 DEF Complete
<1>11. Sound'
  <2> SUFFICES ASSUME NEW S \in SUBSET bubble, Closed(S),
                      NEW c \in bubble, NEW d \in bubble, NEW k \in 1 .. issued',
                      Swept(c)', Swept(d)', Rooted(c, k)', Rooted(d, k)'
               PROVE  c \in S <=> d \in S
    BY <1>2 DEF Sound, Closed, Past
  <2>1. CASE c = at \/ d = at
    <3>1. (c = at => k = issued + 1) /\ (d = at => k = issued + 1)
      BY <1>8
    <3>2. (c # at => k # issued + 1) /\ (d # at => k # issued + 1)
      BY <1>1, <1>2, <1>7
    <3> QED
      BY <2>1, <3>1, <3>2
  <2>2. CASE c # at /\ d # at
    <3>1. Swept(c) /\ Swept(d)
      BY <1>1, <1>2, <2>2
    <3>2. k \in 1 .. issued
      BY <1>2, <1>7, <3>1
    <3> QED
      BY <1>7, <3>1, <3>2 DEF Sound
  <2> QED
    BY <2>1, <2>2
<1> QED
  BY <1>4, <1>5, <1>6, <1>10, <1>11

LEMMA ScanJoinInv == ScanInv /\ ScanJoin => ScanInv'
<1> SUFFICES ASSUME ScanInv, ScanJoin PROVE ScanInv'
  OBVIOUS
<1> USE DEF ScanInv
<1> DEFINE Merged(k) == \E n \in NeighborLabels : parent[k] = parent[n]
<1>1. /\ at \in Cell /\ at' \in Cell /\ sweep' \in {"scan", "renumber"}
      /\ ~Swept(at)
      /\ \A c \in Cell : /\ Swept(c)' <=> (Swept(c) \/ c = at)
                         /\ ~Counted(c) /\ ~Counted(c)'
  BY ScanMoves DEF ScanJoin
<1>2. PICK m \in NeighborLabels :
         /\ label_layer' = [label_layer EXCEPT ![at] = m]
         /\ parent' = [k \in 1 .. issued |-> IF Merged(k) THEN parent[m] ELSE parent[k]]
  BY DEF ScanJoin
<1>3. /\ issued' = issued /\ issued \in Nat /\ number' = number
      /\ label_layer \in [Cell -> Nat] /\ parent \in [1 .. issued -> 1 .. issued]
      /\ bubble \subseteq Cell /\ at \in bubble /\ bubble' = bubble
      /\ numbered = 0 /\ numbered' = 0 /\ sweep = "scan"
  BY DEF ScanJoin, ScanTypeOK, Numbering
\* The labels met are those of the core cells among the neighbours.
<1>4. \A n \in NeighborLabels : /\ n \in 1 .. issued
                              /\ \E e \in Past(at) \cap bubble : Swept(e) /\ label_layer[e] = n
  <2> SUFFICES ASSUME NEW n \in NeighborLabels
               PROVE  /\ n \in 1 .. issued
                      /\ \E e \in Past(at) \cap bubble : Swept(e) /\ label_layer[e] = n
    OBVIOUS
  <2>1. PICK e \in Past(at) : label_layer[e] = n /\ n # 0
    BY DEF NeighborLabels
  <2>2. e \in Cell /\ Swept(e)
    BY <1>1, PastIsBefore DEF Swept
  <2> QED
    BY <1>1, <1>3, <2>1, <2>2 DEF ScanLabelled, ScanBounded
<1>5. ScanTypeOK'
  <2>1. label_layer' \in [Cell -> Nat] /\ parent' \in [1 .. issued -> 1 .. issued]
    <3> HIDE DEF Merged
    <3> QED
      BY <1>2, <1>3, <1>4
  <2> QED
    BY <1>1, <1>3, <2>1 DEF ScanTypeOK
<1>6. ScanLabelled' /\ ScanBounded' /\ Named'
  BY <1>1, <1>2, <1>3, <1>4 DEF ScanLabelled, ScanBounded, Named
<1>7. Numbering' /\ Reached'
  BY <1>1, <1>3 DEF Numbering, Reached
\* The class of a cell labelled before, and of the cell at hand.
<1>8. ASSUME NEW c \in bubble, Swept(c)
      PROVE  /\ c # at /\ label_layer[c] \in 1 .. issued /\ label_layer'[c] = label_layer[c]
             /\ \A k \in 1 .. issued :
                   /\ Rooted(c, k) <=> parent[label_layer[c]] = k
                   /\ Rooted(c, k)' <=> k = IF Merged(label_layer[c]) THEN parent[m]
                                                             ELSE parent[label_layer[c]]
  <2>1. c # at /\ label_layer'[c] = label_layer[c] /\ label_layer[c] \in 1 .. issued
    BY <1>1, <1>2, <1>3, <1>8 DEF ScanLabelled, ScanBounded
  <2>2. parent'[label_layer[c]] = IF Merged(label_layer[c]) THEN parent[m]
                                                            ELSE parent[label_layer[c]]
    BY <1>2, <2>1
  <2> HIDE DEF Merged
  <2> QED
    BY <1>1, <1>3, <2>1, <2>2 DEF Rooted
<1>9. ASSUME NEW c \in bubble, c = at
      PROVE  \A k \in 1 .. issued : Rooted(c, k)' <=> k = parent[m]
  <2>1. label_layer'[c] = m /\ parent'[m] = parent[m]
    BY <1>2, <1>3, <1>4, <1>9
  <2> QED
    BY <1>1, <1>3, <1>9, <2>1 DEF Rooted
<1>10. Complete'
  <2> SUFFICES ASSUME NEW c \in bubble, NEW d \in Past(c) \cap bubble, Swept(c)',
                      NEW k \in 1 .. issued
               PROVE  Rooted(c, k)' <=> Rooted(d, k)'
    BY <1>3 DEF Complete, Past
  <2>1. Swept(d) /\ (c # at => Swept(c))
    <3>1. c \in Cell /\ d \in Cell /\ Before(d, c) /\ (c = at \/ Before(c, at))
      BY <1>1, <1>3, PastIsBefore DEF Swept
    <3>2. Before(d, at)
      BY <1>1, <3>1 DEF Before, Cell
    <3> QED
      BY <3>1, <3>2 DEF Swept
  <2>2. CASE c = at
    <3>1. label_layer[d] \in NeighborLabels
      BY <1>8, <2>1, <2>2 DEF NeighborLabels
    <3> QED
      BY <1>8, <1>9, <2>1, <2>2, <3>1
  <2>3. CASE c # at
    <3>1. parent[label_layer[c]] = parent[label_layer[d]]
      <4>1. Rooted(c, parent[label_layer[c]])
        BY <1>3, <1>8, <2>1, <2>3
      <4>2. parent[label_layer[c]] \in 1 .. issued
        BY <1>3, <1>8, <2>1, <2>3
      <4>3. Rooted(d, parent[label_layer[c]])
        BY <2>1, <2>3, <4>1, <4>2 DEF Complete
      <4> QED
        BY <1>8, <2>1, <4>2, <4>3
    <3> QED
      BY <1>8, <2>1, <2>3, <3>1
  <2> QED
    BY <2>2, <2>3
<1>11. Sound'
  <2> SUFFICES ASSUME NEW S \in SUBSET bubble, Closed(S),
                      NEW c \in bubble, NEW d \in bubble, NEW k \in 1 .. issued,
                      Swept(c)', Swept(d)', Rooted(c, k)', Rooted(d, k)'
               PROVE  c \in S <=> d \in S
    BY <1>3 DEF Sound, Closed, Past
  \* Cells whose labels had one root before are on one side of S.
  <2>1. ASSUME NEW e \in bubble, NEW f \in bubble, Swept(e), Swept(f),
               parent[label_layer[e]] = parent[label_layer[f]]
        PROVE  e \in S <=> f \in S
    <3>1. parent[label_layer[e]] \in 1 .. issued
      BY <1>3, <1>8, <2>1
    <3>2. Rooted(e, parent[label_layer[e]]) /\ Rooted(f, parent[label_layer[e]])
      BY <1>8, <2>1, <3>1
    <3> QED
      BY <2>1, <3>1, <3>2 DEF Sound
  \* Cells of a class that is merged are on the side of the cell at hand.
  <2>2. ASSUME NEW e \in bubble, Swept(e), Merged(label_layer[e])
        PROVE  e \in S <=> at \in S
    <3>1. PICK n \in NeighborLabels : parent[label_layer[e]] = parent[n]
      BY <2>2
    <3>2. PICK f \in Past(at) \cap bubble : Swept(f) /\ label_layer[f] = n
      BY <1>4
    <3>3. f \in S <=> at \in S
      BY <1>3 DEF Closed
    <3> QED
      BY <2>1, <2>2, <3>1, <3>2, <3>3
  \* Any cell whose class is now that of the cell at hand was merged.
  <2>3. ASSUME NEW e \in bubble, Swept(e), Rooted(e, k)', k = parent[m]
        PROVE  Merged(label_layer[e])
    BY <1>3, <1>4, <1>8, <2>3
  <2>4. ASSUME NEW e \in bubble, Swept(e)', Rooted(e, k)', k = parent[m]
        PROVE  e \in S <=> at \in S
    BY <1>1, <1>3, <2>2, <2>3, <2>4
  <2>5. CASE k = parent[m]
    BY <2>4, <2>5
  <2>6. CASE k # parent[m]
    <3>1. c # at /\ d # at
      BY <1>9, <2>6
    <3>2. Swept(c) /\ Swept(d)
      BY <1>1, <1>3, <3>1
    <3>3. parent[label_layer[c]] = k /\ parent[label_layer[d]] = k
      BY <1>8, <2>6, <3>2
    <3> QED
      BY <2>1, <3>2, <3>3
  <2> QED
    BY <2>5, <2>6
<1> QED
  BY <1>5, <1>6, <1>7, <1>10, <1>11, <1>3

LEMMA RenumberOtherInv == ScanInv /\ RenumberOther => ScanInv'
<1> SUFFICES ASSUME ScanInv, RenumberOther PROVE ScanInv'
  OBVIOUS
<1> USE DEF ScanInv
<1>1. /\ at \in Cell /\ at' \in Cell /\ sweep' \in {"renumber", "done"}
      /\ \A c \in Cell : /\ Swept(c) /\ Swept(c)'
                         /\ Counted(c)' <=> (Counted(c) \/ c = at)
  BY RenumberMoves DEF RenumberOther
<1>2. ScanTypeOK'
  BY <1>1 DEF RenumberOther, ScanTypeOK
<1>3. bubble \subseteq Cell /\ at \notin bubble /\ label_layer[at] = 0 /\ numbered \in Nat
  BY <1>1 DEF RenumberOther, ScanTypeOK, ScanLabelled
<1>4. ScanLabelled' /\ ScanBounded' /\ Named'
  BY <1>1, <1>3 DEF RenumberOther, ScanLabelled, ScanBounded, Named
<1>5. Numbering' /\ Reached'
  BY <1>1 DEF RenumberOther, Numbering, Reached
<1>6. \A c \in bubble : \A k : Rooted(c, k)' <=> Rooted(c, k)
  BY <1>1, <1>3 DEF RenumberOther, Rooted
<1>7. Complete' /\ Sound'
  BY <1>1, <1>3, <1>6 DEF RenumberOther, Complete, Sound, Closed, Past
<1> QED
  BY <1>2, <1>4, <1>5, <1>7

LEMMA RenumberInv == ScanInv /\ Renumber => ScanInv'
<1> SUFFICES ASSUME ScanInv, Renumber PROVE ScanInv'
  OBVIOUS
<1> USE DEF ScanInv
<1>1. /\ at \in Cell /\ at' \in Cell /\ sweep' \in {"renumber", "done"}
      /\ ~Counted(at)
      /\ \A c \in Cell : /\ Swept(c) /\ Swept(c)'
                         /\ Counted(c)' <=> (Counted(c) \/ c = at)
  BY RenumberMoves DEF Renumber
<1>2. /\ bubble \subseteq Cell /\ at \in bubble /\ bubble' = bubble
      /\ issued \in Nat /\ issued' = issued /\ parent' = parent /\ numbered \in Nat
      /\ label_layer \in [Cell -> Nat] /\ number \in [1 .. issued -> Nat]
      /\ parent \in [1 .. issued -> 1 .. issued]
      /\ label_layer[at] \in 1 .. issued
  <2>1. /\ bubble \subseteq Cell /\ bubble' = bubble /\ label_layer[at] # 0
        /\ issued \in Nat /\ issued' = issued /\ parent' = parent /\ numbered \in Nat
        /\ label_layer \in [Cell -> Nat] /\ number \in [1 .. issued -> Nat]
        /\ parent \in [1 .. issued -> 1 .. issued]
    BY DEF Renumber, ScanTypeOK
  <2>2. at \in bubble
    BY <1>1, <2>1 DEF ScanLabelled
  <2>3. label_layer[at] \in Nat /\ label_layer[at] <= issued
    BY <1>1, <2>1 DEF ScanBounded
  <2>4. label_layer[at] \in 1 .. issued
    BY <2>1, <2>3
  <2> QED
    BY <2>1, <2>2, <2>4
<1>3. PICK r \in 1 .. issued, new \in Nat \ {0} :
         /\ r = parent[label_layer[at]] /\ number[r] <= numbered
         /\ new = IF number[r] = 0 THEN numbered + 1 ELSE number[r]
         /\ number' = [number EXCEPT ![r] = new]
         /\ label_layer' = [label_layer EXCEPT ![at] = new]
         /\ numbered' = IF number[r] = 0 THEN numbered + 1 ELSE numbered
  <2> DEFINE r == parent[label_layer[at]]
             new == IF number[r] = 0 THEN numbered + 1 ELSE number[r]
  <2>1. r \in 1 .. issued
    BY <1>2
  <2>2. number[r] \in Nat /\ number[r] <= numbered /\ new \in Nat \ {0}
    BY <1>2, <2>1 DEF Numbering
  <2>3. /\ number' = [number EXCEPT ![r] = new]
        /\ label_layer' = [label_layer EXCEPT ![at] = new]
        /\ numbered' = IF number[r] = 0 THEN numbered + 1 ELSE numbered
    BY <1>2, <2>1 DEF Renumber
  <2> QED
    BY <2>1, <2>2, <2>3
\* Numbers already given stay; the one of r is given now, if not before.
<1>4. /\ \A k \in 1 .. issued : number[k] \in 0 .. numbered
      /\ \A k \in 1 .. issued : number'[k] = IF k = r THEN new ELSE number[k]
      /\ \A k, l \in 1 .. issued :
            (number[k] = number[l] /\ number[k] # 0) => k = l
      /\ numbered' \in Nat /\ new <= numbered' /\ numbered <= numbered'
      /\ new = numbered + 1 \/ (new = number[r] /\ number[r] # 0)
  <2>1. \A k \in 1 .. issued : number[k] \in 0 .. numbered
    BY <1>2 DEF Numbering
  <2>2. \A k, l \in 1 .. issued : (number[k] = number[l] /\ number[k] # 0) => k = l
    BY DEF Numbering
  <2>3. \A k \in 1 .. issued : number'[k] = IF k = r THEN new ELSE number[k]
    BY <1>2, <1>3
  <2>4. /\ numbered' \in Nat /\ new <= numbered' /\ numbered <= numbered'
        /\ new = numbered + 1 \/ (new = number[r] /\ number[r] # 0)
    BY <1>2, <1>3
  <2> QED
    BY <2>1, <2>2, <2>3, <2>4
<1>5. ScanTypeOK'
  <2>1. label_layer' \in [Cell -> Nat] /\ number' \in [1 .. issued -> Nat] /\ numbered' \in Nat
    BY <1>2, <1>3
  <2> QED
    BY <1>1, <1>2, <2>1 DEF ScanTypeOK
<1>6. ScanLabelled' /\ ScanBounded'
  <2>1. \A c \in Cell : label_layer'[c] = IF c = at THEN new ELSE label_layer[c]
    BY <1>2, <1>3
  <2>2. ScanLabelled'
    BY <1>1, <1>2, <2>1 DEF ScanLabelled
  <2>3. ASSUME NEW c \in Cell
        PROVE  label_layer'[c] <= IF Counted(c)' THEN numbered' ELSE issued
    <3>1. label_layer[c] \in Nat /\ label_layer[c] <= IF Counted(c) THEN numbered ELSE issued
      BY <1>2 DEF ScanBounded
    <3>2. label_layer'[c] = IF c = at THEN new ELSE label_layer[c]
      BY <2>1
    <3>3. (Counted(c)' <=> (Counted(c) \/ c = at)) /\ ~Counted(at)
      BY <1>1
    <3>4. new <= numbered' /\ numbered <= numbered' /\ numbered' \in Nat
      BY <1>4
    <3> QED
      BY <1>2, <3>1, <3>2, <3>3, <3>4
  <2> QED
    BY <1>2, <2>2, <2>3 DEF ScanBounded
<1>7. Numbering'
  <2>1. ASSUME NEW k \in 1 .. issued PROVE number'[k] <= numbered'
    <3>1. number[k] \in 0 .. numbered /\ number'[k] = IF k = r THEN new ELSE number[k]
      BY <1>4
    <3> QED
      BY <1>2, <1>4, <3>1
  <2>2. ASSUME NEW k \in 1 .. issued, NEW l \in 1 .. issued,
               number'[k] = number'[l], number'[k] # 0
        PROVE  k = l
    <3>1. /\ number[k] \in 0 .. numbered /\ number'[k] = IF k = r THEN new ELSE number[k]
          /\ number[l] \in 0 .. numbered /\ number'[l] = IF l = r THEN new ELSE number[l]
      BY <1>4
    <3>2. (number[k] = number[l] /\ number[k] # 0) => k = l
      BY <1>4
    <3>3. /\ (number[k] = number[r] /\ number[k] # 0) => k = r
          /\ (number[l] = number[r] /\ number[l] # 0) => l = r
      BY <1>4
    <3>4. new = numbered + 1 \/ (new = number[r] /\ number[r] # 0)
      BY <1>4
    <3>5. CASE k # r /\ l # r
      BY <2>2, <3>1, <3>2, <3>5
    <3>6. CASE new = numbered + 1
      <4>1. number[k] # new /\ number[l] # new
        <5>1. number[k] \in 0 .. numbered /\ number[l] \in 0 .. numbered /\ numbered \in Nat
          BY <1>2, <3>1
        <5> QED
          BY <3>6, <5>1
      <4> QED
        BY <2>2, <3>1, <3>5, <4>1
    <3>7. CASE new = number[r] /\ number[r] # 0
      <4>1. number'[k] = number[k] /\ number'[l] = number[l]
        BY <3>1, <3>7
      <4> QED
        BY <2>2, <3>2, <4>1
    <3> QED
      BY <3>4, <3>6, <3>7
  <2> QED
    BY <1>1, <1>2, <2>1, <2>2 DEF Numbering
<1>8. Named'
  <2> SUFFICES ASSUME NEW c \in Cell, Counted(c)', label_layer'[c] # 0
               PROVE  \E k \in 1 .. issued : number'[k] = label_layer'[c]
    BY <1>2 DEF Named
  <2>1. CASE c = at
    BY <1>2, <1>3, <2>1
  <2>2. CASE c # at
    <3>1. label_layer'[c] = label_layer[c] /\ Counted(c)
      BY <1>1, <1>2, <1>3, <2>2
    <3>2. PICK k \in 1 .. issued : number[k] = label_layer[c]
      BY <3>1 DEF Named
    <3> QED
      BY <1>2, <1>3, <3>1, <3>2
  <2> QED
    BY <2>1, <2>2
<1>9. Reached'
  <2> SUFFICES ASSUME NEW n \in 1 .. numbered'
               PROVE  \E c \in Cell : Counted(c)' /\ label_layer'[c] = n
    BY DEF Reached
  <2>1. CASE n \in 1 .. numbered
    <3>1. PICK c \in Cell : Counted(c) /\ label_layer[c] = n
      BY <2>1 DEF Reached
    <3> QED
      BY <1>1, <1>2, <1>3, <3>1
  <2>2. CASE n \notin 1 .. numbered
    <3>1. n = new
      BY <1>2, <1>3, <2>2
    <3> QED
      BY <1>1, <1>2, <1>3, <3>1
  <2> QED
    BY <2>1, <2>2
\* The cell has its root from its old label before, and from its number now.
<1>10. ASSUME NEW c \in bubble, NEW k \in 1 .. issued
      PROVE  Rooted(c, k)' <=> Rooted(c, k)
  <2>1. c \in Cell /\ label_layer[c] # 0
    BY <1>1, <1>2 DEF ScanLabelled
  <2>2. CASE c = at
    <3>1. Rooted(c, k) <=> r = k
      BY <1>1, <1>3, <2>2 DEF Rooted
    <3>2. Rooted(c, k)' <=> number'[k] = new
      BY <1>1, <1>2, <1>3, <2>2 DEF Rooted
    <3>3. number'[k] = new <=> r = k
      <4>1. number[k] \in 0 .. numbered /\ number'[k] = IF k = r THEN new ELSE number[k]
        BY <1>4
      <4>2. (number[k] = number[r] /\ number[k] # 0) => k = r
        BY <1>4
      <4>3. new = numbered + 1 \/ (new = number[r] /\ number[r] # 0)
        BY <1>4
      <4>4. CASE k = r
        BY <4>1, <4>4
      <4>5. CASE k # r
        <5>1. number'[k] = number[k]
          BY <4>1, <4>5
        <5>2. CASE new = numbered + 1
          BY <1>2, <4>1, <4>5, <5>1, <5>2
        <5>3. CASE new = number[r] /\ number[r] # 0
          BY <4>2, <4>5, <5>1, <5>3
        <5> QED
          BY <4>3, <5>2, <5>3
      <4> QED
        BY <4>4, <4>5
    <3> QED
      BY <3>1, <3>2, <3>3
  <2>3. CASE c # at /\ Counted(c)
    <3>1. label_layer[c] \in 1 .. numbered /\ label_layer'[c] = label_layer[c] /\ Counted(c)'
      BY <1>1, <1>2, <1>3, <2>1, <2>3 DEF ScanBounded
    <3>2. number'[k] = label_layer[c] <=> number[k] = label_layer[c]
      <4>1. number'[k] = IF k = r THEN new ELSE number[k]
        BY <1>4
      <4>2. new = numbered + 1 \/ (new = number[r] /\ number[r] # 0)
        BY <1>4
      <4>3. new = numbered + 1 => number[r] = 0
        BY <1>2, <1>3, <1>4
      <4>4. CASE k # r
        BY <4>1, <4>4
      <4>5. CASE k = r /\ new = numbered + 1
        <5>1. number'[k] = numbered + 1 /\ number[k] = 0
          BY <4>1, <4>3, <4>5
        <5>2. numbered \in Nat /\ label_layer[c] \in 1 .. numbered
          BY <1>2, <3>1
        <5> QED
          BY <5>1, <5>2
      <4>6. CASE k = r /\ new = number[r]
        BY <4>1, <4>6
      <4> QED
        BY <4>2, <4>4, <4>5, <4>6
    <3> QED
      BY <2>3, <3>1, <3>2 DEF Rooted
  <2>4. CASE c # at /\ ~Counted(c)
    BY <1>1, <1>2, <1>3, <2>1, <2>4 DEF Rooted
  <2> QED
    BY <2>2, <2>3, <2>4
<1>11. Complete'
  <2> SUFFICES ASSUME NEW c \in bubble, NEW d \in Past(c) \cap bubble,
                      NEW k \in 1 .. issued
               PROVE  Rooted(c, k)' <=> Rooted(d, k)'
    BY <1>2 DEF Complete, Past
  <2>1. Rooted(c, k) <=> Rooted(d, k)
    BY <1>1, <1>2 DEF Complete
  <2> QED
    BY <1>10, <2>1
<1>12. Sound'
  <2> SUFFICES ASSUME NEW S \in SUBSET bubble, Closed(S),
                      NEW c \in bubble, NEW d \in bubble, NEW k \in 1 .. issued,
                      Rooted(c, k)', Rooted(d, k)'
               PROVE  c \in S <=> d \in S
    BY <1>2 DEF Sound, Closed, Past
  <2>1. Rooted(c, k) /\ Rooted(d, k) /\ Swept(c) /\ Swept(d)
    BY <1>1, <1>2, <1>10
  <2> QED
    BY <2>1 DEF Sound
<1> QED
  BY <1>5, <1>6, <1>7, <1>8, <1>9, <1>11, <1>12

-------------------------------------------------------------------------------
LEMMA ScanInvAlways == ScanSpec => []ScanInv
<1>1. ASSUME ScanInv, [ScanNext]_scan_vars PROVE ScanInv'
  <2>1. CASE UNCHANGED scan_vars
    <3> USE <1>1, <2>1 DEF scan_vars, ScanInv
    <3>1. ScanTypeOK' /\ Numbering'
      BY DEF ScanTypeOK, Numbering
    <3>2. ScanLabelled' /\ ScanBounded' /\ Named' /\ Reached'
      BY DEF ScanLabelled, ScanBounded, Named, Reached, Swept, Counted
    <3>3. \A c, k : (Rooted(c, k)' <=> Rooted(c, k)) /\ (Swept(c)' <=> Swept(c))
      BY DEF Rooted, Swept, Counted
    <3>4. Complete'
      BY <3>3 DEF Complete
    <3>5. Sound'
      BY <3>3 DEF Sound, Closed
    <3> QED
      BY <3>1, <3>2, <3>4, <3>5
  <2> QED
    BY <1>1, <2>1, ScanOtherInv, ScanNewInv, ScanJoinInv, RenumberOtherInv,
       RenumberInv DEF ScanNext, ScanTerminated
<1> QED
  BY <1>1, ScanInitInv, PTL DEF ScanSpec

\* Every variable stays in its type: in particular every label that has been issued
\* has a root among the labels issued, on which find() of CCL_local() depends.
THEOREM ScanTyped == ScanSpec => []ScanTypeOK
<1>1. ScanInv => ScanTypeOK
  BY DEF ScanInv
<1> QED
  BY <1>1, ScanInvAlways, PTL

\* CCL_local() gives touching bubble cells one label, in a region of any extent.
THEOREM TouchingCellsShareLabel == ScanSpec => []NeighborsShareLabel
<1>1. ScanInv => NeighborsShareLabel
  <2> SUFFICES ASSUME ScanInv, sweep = "done",
                      NEW c \in bubble, NEW d \in Past(c) \cap bubble
               PROVE  label_layer[c] = label_layer[d]
    BY DEF NeighborsShareLabel
  <2> USE DEF ScanInv
  <2>1. /\ Swept(c) /\ Counted(c) /\ Counted(d)
        /\ c \in Cell /\ label_layer[c] # 0
    BY DEF Swept, Counted, ScanTypeOK, ScanLabelled
  <2>2. PICK k \in 1 .. issued : number[k] = label_layer[c]
    BY <2>1 DEF Named
  <2>3. Rooted(d, k)
    BY <2>1, <2>2 DEF Complete, Rooted
  <2> QED
    BY <2>1, <2>2, <2>3 DEF Rooted
<1> QED
  BY <1>1, ScanInvAlways, PTL

\* CCL_local() gives one label to the cells of one bubble only.
THEOREM SharingCellsAreConnected == ScanSpec => []SharingAreConnected
<1>1. ScanInv => SharingAreConnected
  <2> SUFFICES ASSUME ScanInv, sweep = "done", NEW S \in SUBSET bubble, Closed(S),
                      NEW c \in bubble, NEW d \in bubble, label_layer[c] = label_layer[d]
               PROVE  c \in S <=> d \in S
    BY DEF SharingAreConnected
  <2> USE DEF ScanInv
  <2>1. /\ Swept(c) /\ Swept(d) /\ Counted(c) /\ Counted(d)
        /\ c \in Cell /\ label_layer[c] # 0
    BY DEF Swept, Counted, ScanTypeOK, ScanLabelled
  <2>2. PICK k \in 1 .. issued : number[k] = label_layer[c]
    BY <2>1 DEF Named
  <2>3. Rooted(c, k) /\ Rooted(d, k)
    BY <2>1, <2>2 DEF Rooted
  <2> QED
    BY <2>1, <2>3 DEF Sound
<1> QED
  BY <1>1, ScanInvAlways, PTL

\* What CCL_local() returns is the number of bubbles, and its labels have no gaps.
THEOREM LabelsCounted == ScanSpec => []LabelsAreCounted
<1>1. ScanInv => LabelsAreCounted
  <2> SUFFICES ASSUME ScanInv, sweep = "done"
               PROVE  {label_layer[c] : c \in Cell} \ {0} = 1 .. numbered
    BY DEF LabelsAreCounted
  <2> USE DEF ScanInv
  <2>1. \A c \in Cell : label_layer[c] \in 0 .. numbered
    BY DEF ScanBounded, Counted, ScanTypeOK
  <2>2. \A n \in 1 .. numbered : \E c \in Cell : label_layer[c] = n
    BY DEF Reached
  <2> QED
    BY <2>1, <2>2 DEF ScanTypeOK
<1> QED
  BY <1>1, ScanInvAlways, PTL

-------------------------------------------------------------------------------
(***************************************************************************)
(* Ranks and their places, as in HaloExchangeProofs.                       *)
(***************************************************************************)
LEMMA Division ==
    ASSUME NEW n \in Nat \ {0}, NEW a \in Int
    PROVE  /\ a % n \in 0 .. n - 1
           /\ a \div n \in Int
           /\ a = n * (a \div n) + (a % n)
<1>1. a % n \in 0 .. n - 1
  OBVIOUS
<1>2. a \div n \in Int
  OBVIOUS
<1>3. a = n * (a \div n) + (a % n)
  OBVIOUS
<1> QED
  BY <1>1, <1>2, <1>3

LEMMA Quotient ==
    ASSUME NEW n \in Nat \ {0}, NEW k \in Int, NEW q \in Int, NEW m \in 0 .. n - 1,
           n * q + m >= 0, n * q + m < n * k
    PROVE  q \in 0 .. k - 1
<1>1. CASE q < 0
  <2>1. n * q <= n * (-1)
    BY <1>1
  <2> QED
    BY <2>1
<1>2. CASE q >= k
  <2>1. n * q >= n * k
    BY <1>2
  <2> QED
    BY <2>1
<1> QED
  BY <1>1, <1>2

LEMMA Encoded ==
    ASSUME NEW x \in 0 .. npe_x - 1, NEW y \in 0 .. npe_y - 1, NEW z \in 0 .. npe_z - 1
    PROVE  LET r == npe_xy * z + (npe_x * y + x)
           IN  r \in Rank /\ Place(r) = <<x, y, z>>
<1> DEFINE w == npe_x * y + x
           r == npe_xy * z + w
<1>1. npe_x \in Nat \ {0} /\ npe_y \in Nat \ {0} /\ npe_z \in Nat \ {0}
  BY RankAssumption
<1>2. w \in 0 .. npe_x * npe_y - 1
  BY <1>1
<1>3. npe_xy \in Nat \ {0} /\ npe_xy = npe_x * npe_y
  BY <1>1 DEF npe_xy
<1>4. r \in 0 .. npe_xy * npe_z - 1
  <2> HIDE DEF w
  <2> QED
    BY <1>1, <1>2, <1>3
<1>5. w % npe_x = x /\ w \div npe_x = y
  BY <1>1
<1>6. r % npe_xy = w /\ r \div npe_xy = z
  <2> HIDE DEF w
  <2> QED
    BY <1>1, <1>2, <1>3
<1> QED
  BY <1>4, <1>5, <1>6 DEF Place, Rank

LEMMA Decoded ==
    ASSUME NEW r \in Rank
    PROVE  /\ Place(r)[1] \in 0 .. npe_x - 1
           /\ Place(r)[2] \in 0 .. npe_y - 1
           /\ Place(r)[3] \in 0 .. npe_z - 1
           /\ r = npe_xy * Place(r)[3] + (npe_x * Place(r)[2] + Place(r)[1])
<1> DEFINE w == r % npe_xy
           z == r \div npe_xy
           x == w % npe_x
           y == w \div npe_x
<1>1. npe_x \in Nat \ {0} /\ npe_y \in Nat \ {0} /\ npe_z \in Nat \ {0}
  BY RankAssumption
<1>2. npe_xy \in Nat \ {0} /\ npe_xy = npe_x * npe_y
  BY <1>1 DEF npe_xy
<1>3. r \in Int /\ r \in 0 .. npe_xy * npe_z - 1
  BY <1>1, <1>2 DEF Rank
<1>4. w \in 0 .. npe_xy - 1 /\ z \in Int /\ r = npe_xy * z + w
  BY <1>2, <1>3, Division
<1>5. w \in Int
  BY <1>2, <1>4
<1>6. x \in 0 .. npe_x - 1 /\ y \in Int /\ w = npe_x * y + x
  <2> HIDE DEF w
  <2> QED
    BY <1>1, <1>5, Division
<1>7. z \in 0 .. npe_z - 1
  <2> HIDE DEF w, z
  <2>1. npe_xy * z + w >= 0 /\ npe_xy * z + w < npe_xy * npe_z
    BY <1>1, <1>2, <1>3, <1>4
  <2> QED
    BY <1>1, <1>2, <1>4, <2>1, Quotient
<1>8. y \in 0 .. npe_y - 1
  <2> HIDE DEF w, x, y
  <2>1. npe_x * y + x >= 0 /\ npe_x * y + x < npe_x * npe_y
    BY <1>1, <1>2, <1>4, <1>6
  <2> QED
    BY <1>1, <1>6, <2>1, Quotient
<1>9. Place(r) = <<x, y, z>>
  BY DEF Place
<1> QED
  BY <1>4, <1>6, <1>7, <1>8, <1>9

LEMMA Sizes ==
    ASSUME NEW a \in Axis
    PROVE  Ranks[a] \in Nat \ {0} /\ Extent[a] \in Nat \ {0} /\ Stride[a] \in Int
<1>1. npe_x \in Nat \ {0} /\ npe_y \in Nat \ {0} /\ npe_z \in Nat \ {0}
  BY RankAssumption
<1>2. nx \in Nat \ {0} /\ ny \in Nat \ {0} /\ nz \in Nat \ {0}
  BY CellAssumption
<1>3. npe_xy \in Int
  BY <1>1 DEF npe_xy
<1>4. a = 1 \/ a = 2 \/ a = 3
  BY DEF Axis
<1> QED
  BY <1>1, <1>2, <1>3, <1>4 DEF Ranks, Extent, Stride

LEMMA PlaceInRanks ==
    ASSUME NEW r \in Rank, NEW a \in Axis
    PROVE  Place(r)[a] \in 0 .. Ranks[a] - 1 /\ Place(r)[a] \in Int
<1>1. a = 1 \/ a = 2 \/ a = 3
  BY DEF Axis
<1>2. npe_x \in Nat \ {0} /\ npe_y \in Nat \ {0} /\ npe_z \in Nat \ {0}
  BY RankAssumption
<1> QED
  BY <1>1, <1>2, Decoded DEF Ranks

LEMMA SideIs ==
    ASSUME NEW s \in Side
    PROVE  s[1] \in Axis /\ (s[2] = -1 \/ s[2] = 1) /\ s = <<s[1], s[2]>>
BY DEF Side

\* The place of a neighbour is one further in the direction of the side.
LEMMA Neighbour ==
    ASSUME NEW r \in Rank, NEW s \in Side, HasNeighbour(r, s)
    PROVE  /\ nrk(r, s) \in Rank
           /\ \A a \in Axis : Place(nrk(r, s))[a] =
                IF a = s[1] THEN Place(r)[a] + s[2] ELSE Place(r)[a]
<1> DEFINE x == Place(r)[1]
           y == Place(r)[2]
           z == Place(r)[3]
           q == nrk(r, s)
<1>1. x \in 0 .. npe_x - 1 /\ y \in 0 .. npe_y - 1 /\ z \in 0 .. npe_z - 1
  BY Decoded
<1>2. r = npe_xy * z + (npe_x * y + x)
  BY Decoded
<1>3. npe_x \in Int /\ npe_y \in Int /\ npe_z \in Int /\ npe_xy \in Int
  BY RankAssumption DEF npe_xy
<1>4. s[1] \in {1, 2, 3} /\ s[2] \in Int
  BY SideIs DEF Axis
<1> HIDE DEF x, y, z, q
<1>5. CASE s[1] = 1
  <2>1. x + s[2] \in 0 .. npe_x - 1
    BY <1>5 DEF HasNeighbour, x, Ranks
  <2>2. q = npe_xy * z + (npe_x * y + (x + s[2]))
    BY <1>1, <1>2, <1>3, <1>4, <1>5 DEF nrk, Stride, q
  <2>3. q \in Rank /\ Place(q) = <<x + s[2], y, z>>
    BY <1>1, <2>1, <2>2, Encoded
  <2> QED
    BY <1>5, <2>3 DEF x, y, z, q, Axis
<1>6. CASE s[1] = 2
  <2>1. y + s[2] \in 0 .. npe_y - 1
    BY <1>6 DEF HasNeighbour, y, Ranks
  <2>2. q = npe_xy * z + (npe_x * (y + s[2]) + x)
    BY <1>1, <1>2, <1>3, <1>4, <1>6 DEF nrk, Stride, q
  <2>3. q \in Rank /\ Place(q) = <<x, y + s[2], z>>
    BY <1>1, <2>1, <2>2, Encoded
  <2> QED
    BY <1>6, <2>3 DEF x, y, z, q, Axis
<1>7. CASE s[1] = 3
  <2>1. z + s[2] \in 0 .. npe_z - 1
    BY <1>7 DEF HasNeighbour, z, Ranks
  <2>2. q = npe_xy * (z + s[2]) + (npe_x * y + x)
    BY <1>1, <1>2, <1>3, <1>4, <1>7 DEF nrk, Stride, q
  <2>3. q \in Rank /\ Place(q) = <<x, y, z + s[2]>>
    BY <1>1, <2>1, <2>2, Encoded
  <2> QED
    BY <1>7, <2>3 DEF x, y, z, q, Axis
<1> QED
  BY <1>4, <1>5, <1>6, <1>7

Triple == Int \X Int \X Int

LEMMA SameTriple ==
    ASSUME NEW x \in Triple, NEW y \in Triple,
           \A a \in Axis : x[a] = y[a]
    PROVE  x = y
<1>1. x = <<x[1], x[2], x[3]>> /\ y = <<y[1], y[2], y[3]>>
  BY DEF Triple
<1> QED
  BY <1>1 DEF Axis

LEMMA ShiftedIs ==
    ASSUME NEW c \in Triple, NEW a \in Axis, NEW k \in Int
    PROVE  /\ Shifted(c, a, k) \in Triple
           /\ \A b \in Axis : Shifted(c, a, k)[b] = IF b = a THEN c[a] + k ELSE c[b]
BY DEF Shifted, Axis, Triple

-------------------------------------------------------------------------------
(***************************************************************************)
(* Cells and the ranks that own and hold them.                             *)
(***************************************************************************)
Low(r, a)  == Place(r)[a] * Extent[a]
High(r, a) == Low(r, a) + Extent[a]
Beside(r, c, a) == c[a] \in Low(r, a) .. High(r, a) - 1

LEMMA LowIs ==
    ASSUME NEW r \in Rank, NEW a \in Axis
    PROVE  /\ Low(r, a) \in Nat /\ High(r, a) \in Nat /\ Ranks[a] * Extent[a] \in Nat
           /\ Low(r, a) < High(r, a) /\ High(r, a) <= Ranks[a] * Extent[a]
           /\ Low(r, a) # 0 => Place(r)[a] - 1 \in 0 .. Ranks[a] - 1
           /\ High(r, a) # Ranks[a] * Extent[a] => Place(r)[a] + 1 \in 0 .. Ranks[a] - 1
<1>1. PICK p, e, n : p = Place(r)[a] /\ e = Extent[a] /\ n = Ranks[a]
  OBVIOUS
<1>2. p \in 0 .. n - 1 /\ e \in Nat \ {0} /\ n \in Nat \ {0}
  BY <1>1, PlaceInRanks, Sizes
<1>3. Low(r, a) = p * e /\ High(r, a) = p * e + e
  BY <1>1 DEF Low, High
<1>4. p * e \in Nat /\ n * e \in Nat
  BY <1>2
<1>5. p * e + e = (p + 1) * e
  BY <1>2
<1>6. (p + 1) * e <= n * e
  BY <1>2
<1>7. p = 0 => p * e = 0
  BY <1>2
<1>8. p = n - 1 => (p + 1) * e = n * e
  BY <1>2
<1> QED
  BY <1>1, <1>2, <1>3, <1>4, <1>5, <1>6, <1>7, <1>8

LEMMA LowApart ==
    ASSUME NEW r \in Rank, NEW q \in Rank, NEW a \in Axis
    PROVE  /\ Place(r)[a] < Place(q)[a] => High(r, a) <= Low(q, a)
           /\ Place(q)[a] = Place(r)[a] + 1 => Low(q, a) = High(r, a)
           /\ Place(r)[a] = Place(q)[a] => Low(r, a) = Low(q, a) /\ High(r, a) = High(q, a)
<1>1. PICK p, w, e : p = Place(r)[a] /\ w = Place(q)[a] /\ e = Extent[a]
  OBVIOUS
<1>2. p \in Int /\ w \in Int /\ e \in Nat \ {0}
  BY <1>1, PlaceInRanks, Sizes
<1>3. Low(r, a) = p * e /\ High(r, a) = p * e + e /\ Low(q, a) = w * e
      /\ High(q, a) = w * e + e
  BY <1>1 DEF Low, High
<1>4. p * e + e = (p + 1) * e
  BY <1>2
<1>5. p + 1 <= w => (p + 1) * e <= w * e
  BY <1>2
<1> QED
  BY <1>1, <1>2, <1>3, <1>4, <1>5

LEMMA DomainIs ==
    ASSUME NEW c
    PROVE  c \in Domain <=> /\ c \in Triple
                            /\ \A a \in Axis : c[a] \in 0 .. Ranks[a] * Extent[a] - 1
<1>1. PICK ex, ey, ez : /\ ex = npe_x * nx - 1 /\ ey = npe_y * ny - 1 /\ ez = npe_z * nz - 1
  OBVIOUS
<1>2. ex \in Int /\ ey \in Int /\ ez \in Int
  BY <1>1, RankAssumption, CellAssumption
<1>3. Domain = (0 .. ex) \X (0 .. ey) \X (0 .. ez)
  BY <1>1, Zenon DEF Domain
<1>4. /\ Ranks[1] * Extent[1] - 1 = ex /\ Ranks[2] * Extent[2] - 1 = ey
      /\ Ranks[3] * Extent[3] - 1 = ez
  BY <1>1 DEF Ranks, Extent
<1>5. Axis = {1, 2, 3}
  BY DEF Axis
<1>6. ASSUME c \in Domain
      PROVE  c \in Triple /\ \A a \in Axis : c[a] \in 0 .. Ranks[a] * Extent[a] - 1
  <2>1. c = <<c[1], c[2], c[3]>> /\ c[1] \in 0 .. ex /\ c[2] \in 0 .. ey /\ c[3] \in 0 .. ez
    BY <1>3, <1>6
  <2> QED
    BY <1>2, <1>4, <1>5, <2>1 DEF Triple
<1>7. ASSUME c \in Triple, \A a \in Axis : c[a] \in 0 .. Ranks[a] * Extent[a] - 1
      PROVE  c \in Domain
  <2>1. c[1] \in 0 .. ex /\ c[2] \in 0 .. ey /\ c[3] \in 0 .. ez
    BY <1>4, <1>5, <1>7
  <2>2. c = <<c[1], c[2], c[3]>>
    BY <1>7 DEF Triple
  <2> QED
    BY <1>3, <2>1, <2>2
<1> QED
  BY <1>6, <1>7

LEMMA WithinIs ==
    ASSUME NEW r \in Rank, NEW c \in Domain, NEW k \in Nat
    PROVE  Within(r, c, k) <=> \A a \in Axis : c[a] \in Low(r, a) - k .. High(r, a) - 1 + k
<1>1. ASSUME NEW a \in Axis
      PROVE  /\ Place(r)[a] * Extent[a] - k = Low(r, a) - k
             /\ (Place(r)[a] + 1) * Extent[a] - 1 + k = High(r, a) - 1 + k
  <2>1. PICK p, e : p = Place(r)[a] /\ e = Extent[a]
    OBVIOUS
  <2>2. p \in Int /\ e \in Int
    BY <2>1, PlaceInRanks, Sizes
  <2>3. (p + 1) * e = p * e + e
    BY <2>2
  <2> QED
    BY <2>1, <2>2, <2>3 DEF Low, High
<1> QED
  BY <1>1 DEF Within

LEMMA OwnedIs ==
    ASSUME NEW r \in Rank, NEW c
    PROVE  /\ c \in Owned(r) <=> c \in Domain /\ \A a \in Axis : Beside(r, c, a)
           /\ c \in Held(r) <=> /\ c \in Domain
                                /\ \A a \in Axis : c[a] \in Low(r, a) - stm .. High(r, a) - 1 + stm
           /\ Owned(r) \subseteq Held(r) /\ Held(r) \subseteq Domain
<1>1. Owned(r) = {d \in Domain : Within(r, d, 0)} /\ Held(r) = {d \in Domain : Within(r, d, stm)}
  BY DEF Owned, OwnedBy, Held, HeldBy
<1>2. stm \in Nat /\ 0 \in Nat
  BY HaloAssumption
<1>3. ASSUME NEW d \in Domain
      PROVE  /\ Within(r, d, 0) <=> \A a \in Axis : Beside(r, d, a)
             /\ Within(r, d, stm) <=>
                    \A a \in Axis : d[a] \in Low(r, a) - stm .. High(r, a) - 1 + stm
             /\ Within(r, d, 0) => Within(r, d, stm)
  <2>1. /\ Within(r, d, 0) <=> \A a \in Axis : d[a] \in Low(r, a) - 0 .. High(r, a) - 1 + 0
        /\ Within(r, d, stm) <=>
               \A a \in Axis : d[a] \in Low(r, a) - stm .. High(r, a) - 1 + stm
    BY <1>2, WithinIs
  <2>2. ASSUME NEW a \in Axis
        PROVE  /\ d[a] \in Low(r, a) - 0 .. High(r, a) - 1 + 0 <=> Beside(r, d, a)
               /\ Beside(r, d, a) => d[a] \in Low(r, a) - stm .. High(r, a) - 1 + stm
    BY <1>2, LowIs DEF Beside
  <2> QED
    BY <2>1, <2>2
<1>4. Owned(r) \subseteq Held(r) /\ Held(r) \subseteq Domain
  BY <1>1, <1>3
<1> QED
  BY <1>1, <1>3, <1>4

LEMMA OwnerUnique ==
    ASSUME NEW r \in Rank, NEW q \in Rank, NEW c, c \in Owned(r), c \in Owned(q)
    PROVE  r = q
<1>1. ASSUME NEW a \in Axis
      PROVE  Place(r)[a] = Place(q)[a]
  <2>1. Beside(r, c, a) /\ Beside(q, c, a) /\ c \in Domain
    BY OwnedIs
  <2>2. c[a] \in Int
    BY <2>1, DomainIs, LowIs
  <2>3. /\ Low(r, a) \in Nat /\ High(r, a) \in Nat /\ Low(q, a) \in Nat /\ High(q, a) \in Nat
    BY LowIs
  <2>4. ~(High(r, a) <= Low(q, a)) /\ ~(High(q, a) <= Low(r, a))
    BY <2>1, <2>2, <2>3 DEF Beside
  <2>5. Place(r)[a] \in Int /\ Place(q)[a] \in Int
    BY PlaceInRanks
  <2> QED
    BY <2>4, <2>5, LowApart
<1>2. Place(r)[1] = Place(q)[1] /\ Place(r)[2] = Place(q)[2] /\ Place(r)[3] = Place(q)[3]
  BY <1>1 DEF Axis
<1> QED
  BY <1>2, Decoded

LEMMA Chunk ==
    ASSUME NEW e \in Nat \ {0}, NEW n \in Nat \ {0}, NEW i \in 0 .. n * e - 1
    PROVE  \E p \in 0 .. n - 1 : i \in p * e .. p * e + e - 1
<1>1. PICK p, m : p = i \div e /\ m = i % e
  OBVIOUS
<1>2. i \in Int
  OBVIOUS
<1>3. m \in 0 .. e - 1 /\ p \in Int /\ i = e * p + m
  BY <1>1, <1>2, Division
<1>4. e * p + m >= 0 /\ e * p + m < e * n
  BY <1>2, <1>3
<1>5. p \in 0 .. n - 1
  BY <1>3, <1>4, Quotient
<1>6. p * e = e * p
  BY <1>3
<1>7. i \in p * e .. p * e + e - 1
  <2>1. PICK w : w = p * e
    OBVIOUS
  <2>2. w \in Int /\ i = w + m
    BY <2>1, <1>3, <1>6
  <2> QED
    BY <2>1, <2>2, <1>3
<1> QED
  BY <1>5, <1>7

\* Every cell has one owner.
LEMMA OwnerIs ==
    ASSUME NEW c \in Domain
    PROVE  /\ Owner(c) \in Rank /\ c \in Owned(Owner(c))
           /\ \A r \in Rank : c \in Owned(r) => Owner(c) = r
<1>1. c \in Triple /\ \A a \in Axis : c[a] \in 0 .. Ranks[a] * Extent[a] - 1
  BY DomainIs
<1>2. ASSUME NEW a \in Axis
      PROVE  \E p \in 0 .. Ranks[a] - 1 : c[a] \in p * Extent[a] .. p * Extent[a] + Extent[a] - 1
  BY <1>1, Sizes, Chunk
<1>3. 1 \in Axis /\ 2 \in Axis /\ 3 \in Axis
  BY DEF Axis
<1>4. PICK x \in 0 .. Ranks[1] - 1 : c[1] \in x * Extent[1] .. x * Extent[1] + Extent[1] - 1
  BY <1>2, <1>3
<1>5. PICK y \in 0 .. Ranks[2] - 1 : c[2] \in y * Extent[2] .. y * Extent[2] + Extent[2] - 1
  BY <1>2, <1>3
<1>6. PICK z \in 0 .. Ranks[3] - 1 : c[3] \in z * Extent[3] .. z * Extent[3] + Extent[3] - 1
  BY <1>2, <1>3
<1>7. PICK r \in Rank : Place(r) = <<x, y, z>>
  BY <1>4, <1>5, <1>6, Encoded DEF Ranks
<1>8. \A a \in Axis : Beside(r, c, a)
  <2>1. Place(r)[1] = x /\ Place(r)[2] = y /\ Place(r)[3] = z
    BY <1>7
  <2>2. ASSUME NEW a \in Axis, NEW p, Place(r)[a] = p,
               c[a] \in p * Extent[a] .. p * Extent[a] + Extent[a] - 1
        PROVE  Beside(r, c, a)
    <3>1. Low(r, a) = p * Extent[a]
      BY <2>2, Zenon DEF Low
    <3>2. /\ High(r, a) = Low(r, a) + Extent[a]
          /\ Low(r, a) \in Int /\ Extent[a] \in Int
      BY <2>2, LowIs, Sizes DEF High
    <3> QED
      BY <2>2, <3>1, <3>2 DEF Beside
  <2>3. Beside(r, c, 1) /\ Beside(r, c, 2) /\ Beside(r, c, 3)
    BY <1>3, <1>4, <1>5, <1>6, <2>1, <2>2
  <2> QED
    BY <2>3 DEF Axis
<1>9. c \in Owned(r)
  BY <1>8, OwnedIs
<1>10. Owner(c) = CHOOSE q \in Rank : c \in Owned(q)
  BY DEF Owner, OwnerOf, Owned
<1>11. Owner(c) \in Rank /\ c \in Owned(Owner(c))
  BY <1>9, <1>10
<1> QED
  BY <1>11, OwnerUnique

LEMMA ImageFinite ==
    ASSUME NEW S, IsFiniteSet(S), NEW f
    PROVE  LET T == {f[x] : x \in S}
           IN  IsFiniteSet(T) /\ Cardinality(T) <= Cardinality(S)
<1> DEFINE T == {f[x] : x \in S}
           g == [x \in S |-> f[x]]
<1>1. g \in Surjection(S, T)
  BY DEF Surjection
<1> QED
  BY <1>1, FS_Surjection

LEMMA DomainFinite == IsFiniteSet(Domain)
<1>1. PICK ex, ey, ez : /\ ex = npe_x * nx - 1 /\ ey = npe_y * ny - 1 /\ ez = npe_z * nz - 1
  OBVIOUS
<1>2. ex \in Int /\ ey \in Int /\ ez \in Int
  BY <1>1, RankAssumption, CellAssumption
<1>3. IsFiniteSet(0 .. ex) /\ IsFiniteSet(0 .. ey) /\ IsFiniteSet(0 .. ez)
  BY <1>2, FS_Interval
<1>4. IsFiniteSet((0 .. ex) \X (0 .. ey))
  BY <1>3, FS_Product
<1> DEFINE P == ((0 .. ex) \X (0 .. ey)) \X (0 .. ez)
           f == [p \in P |-> <<p[1][1], p[1][2], p[2]>>]
<1>5. IsFiniteSet(P)
  BY <1>3, <1>4, FS_Product
<1>6. Domain \subseteq {f[p] : p \in P}
  <2> SUFFICES ASSUME NEW c \in Domain PROVE \E p \in P : f[p] = c
    OBVIOUS
  <2>1. Domain = (0 .. ex) \X (0 .. ey) \X (0 .. ez)
    BY <1>1, Zenon DEF Domain
  <2>2. c = <<c[1], c[2], c[3]>> /\ c[1] \in 0 .. ex /\ c[2] \in 0 .. ey /\ c[3] \in 0 .. ez
    BY <2>1
  <2>3. PICK p : p = <<<<c[1], c[2]>>, c[3]>>
    OBVIOUS
  <2>4. p \in P /\ <<p[1][1], p[1][2], p[2]>> = c
    BY <2>2, <2>3
  <2> QED
    BY <2>4
<1>7. IsFiniteSet({f[p] : p \in P})
  <2> HIDE DEF P, f
  <2> QED
    BY <1>5, ImageFinite
<1> QED
  BY <1>6, <1>7, FS_Subset

LEMMA SmallestExists ==
    ASSUME NEW V, V \subseteq Nat, V # {}
    PROVE  \E v \in V : \A w \in V : v <= w
<1> DEFINE Less == {ss \in Nat \X Nat : ss[1] < ss[2]}
<1>1. IsWellFoundedOn(Less, Nat)
  BY NatLessThanWellFounded DEF OpToRel
<1>2. PICK v \in V : \A w \in V : <<w, v>> \notin Less
  BY <1>1, WFMin
<1>3. \A w \in V : v <= w
  <2>1. ASSUME NEW w \in V PROVE v <= w
    <3>1. <<w, v>> \in Nat \X Nat /\ <<w, v>>[1] = w /\ <<w, v>>[2] = v
      OBVIOUS
    <3>2. ~(w < v)
      BY <3>1, <1>2
    <3>3. v \in Nat /\ w \in Nat
      OBVIOUS
    <3> QED  BY <3>2, <3>3
  <2> QED  BY <2>1
<1> QED  BY <1>3


-------------------------------------------------------------------------------
(***************************************************************************)
(* Where the halo comes from.                                              *)
(***************************************************************************)
LEMMA BeyondIs ==
    ASSUME NEW r \in Rank, NEW c, NEW s \in Side
    PROVE  s \in Beyond(r, c) <=>
             /\ HasNeighbour(r, s)
             /\ s[2] = -1 => c[s[1]] < Low(r, s[1])
             /\ s[2] = 1  => c[s[1]] >= High(r, s[1])
<1>1. PICK p, e : p = Place(r)[s[1]] /\ e = Extent[s[1]]
  OBVIOUS
<1>2. p \in Int /\ e \in Int /\ (s[2] = -1 \/ s[2] = 1)
  BY <1>1, SideIs, PlaceInRanks, Sizes
<1>3. (p + 1) * e = p * e + e
  BY <1>2
<1>4. Low(r, s[1]) = p * e /\ High(r, s[1]) = (p + 1) * e
  BY <1>1, <1>3 DEF Low, High
<1>5. s \in Beyond(r, c) <=> /\ HasNeighbour(r, s)
                             /\ IF s[2] = -1 THEN c[s[1]] < p * e ELSE c[s[1]] >= (p + 1) * e
  BY <1>1 DEF Beyond
<1> QED
  BY <1>2, <1>4, <1>5

LEMMA FilledIs ==
    ASSUME NEW r \in Rank, NEW c \in Held(r), c \notin Owned(r)
    PROVE  \E s \in Side : s \in Beyond(r, c) /\ FilledFrom[r][c] = nrk(r, s)
<1>1. c \in Domain /\ c \in Triple /\ \A a \in Axis : c[a] \in 0 .. Ranks[a] * Extent[a] - 1
  BY OwnedIs, DomainIs
<1>2. PICK a \in Axis : ~Beside(r, c, a)
  BY <1>1, OwnedIs
<1>3. /\ c[a] \in Nat /\ c[a] < Ranks[a] * Extent[a]
      /\ Low(r, a) \in Nat /\ High(r, a) \in Nat /\ Ranks[a] * Extent[a] \in Nat
  <2>1. Ranks[a] * Extent[a] \in Nat /\ Low(r, a) \in Nat /\ High(r, a) \in Nat
    BY LowIs
  <2> QED
    BY <1>1, <2>1
<1>4. \E s \in Side : s \in Beyond(r, c)
  <2>1. CASE c[a] < Low(r, a)
    <3>1. <<a, -1>> \in Side /\ <<a, -1>>[1] = a /\ <<a, -1>>[2] = -1
      BY DEF Side
    <3>2. Place(r)[a] - 1 \in 0 .. Ranks[a] - 1
      BY <1>3, <2>1, LowIs
    <3>3. HasNeighbour(r, <<a, -1>>)
      BY <3>2 DEF HasNeighbour
    <3>4. <<a, -1>> \in Beyond(r, c)
      BY <2>1, <3>1, <3>3, BeyondIs
    <3> QED
      BY <3>1, <3>4
  <2>2. CASE ~(c[a] < Low(r, a))
    <3>1. <<a, 1>> \in Side /\ <<a, 1>>[1] = a /\ <<a, 1>>[2] = 1
      BY DEF Side
    <3>2. c[a] >= High(r, a)
      BY <1>2, <1>3, <2>2 DEF Beside
    <3>3. Place(r)[a] + 1 \in 0 .. Ranks[a] - 1
      BY <1>3, <3>2, LowIs
    <3>4. HasNeighbour(r, <<a, 1>>)
      BY <3>3 DEF HasNeighbour
    <3>5. <<a, 1>> \in Beyond(r, c)
      BY <3>1, <3>2, <3>4, BeyondIs
    <3> QED
      BY <3>1, <3>5
  <2> QED
    BY <2>1, <2>2
<1>5. PICK B : B = Beyond(r, c)
  OBVIOUS
<1>6. B \subseteq Side /\ B # {}
  BY <1>4, <1>5 DEF Beyond
<1>7. \E s \in B : \A t \in B : s[1] <= t[1]
  <2>1. PICK V : V = {s[1] : s \in B}
    OBVIOUS
  <2>2. V \subseteq Nat /\ V # {}
    BY <1>6, <2>1 DEF Side, Axis
  <2>3. PICK v \in V : \A w \in V : v <= w
    BY <2>2, SmallestExists
  <2> QED
    BY <2>1, <2>3
<1>8. PICK s : s = CHOOSE x \in B : \A t \in B : x[1] <= t[1]
  OBVIOUS
<1>9. s \in B
  BY <1>7, <1>8
<1>10. FilledFrom[r][c] = nrk(r, s)
  BY <1>5, <1>8 DEF FilledFrom
<1> QED
  BY <1>5, <1>6, <1>9, <1>10

LEMMA BeyondHeld ==
    ASSUME NEW r \in Rank, NEW c \in Held(r), NEW s \in Side, s \in Beyond(r, c)
    PROVE  /\ nrk(r, s) \in Rank /\ c \in Held(nrk(r, s))
           /\ (\A a \in Axis : a # s[1] => Beside(r, c, a)) => c \in Owned(nrk(r, s))
<1>1. PICK q, b : q = nrk(r, s) /\ b = s[1]
  OBVIOUS
<1>2. /\ HasNeighbour(r, s)
      /\ s[2] = -1 => c[b] < Low(r, b)
      /\ s[2] = 1 => c[b] >= High(r, b)
      /\ b \in Axis /\ (s[2] = -1 \/ s[2] = 1)
  BY <1>1, BeyondIs, SideIs
<1>3. /\ q \in Rank /\ Place(q)[b] = Place(r)[b] + s[2]
      /\ \A a \in Axis : a # b => Place(q)[a] = Place(r)[a]
  <2>1. /\ nrk(r, s) \in Rank
        /\ \A a \in Axis : Place(nrk(r, s))[a] =
             IF a = s[1] THEN Place(r)[a] + s[2] ELSE Place(r)[a]
    BY <1>2, Neighbour
  <2> QED
    BY <1>1, <1>2, <2>1
<1>4. c \in Domain /\ \A a \in Axis : c[a] \in Low(r, a) - stm .. High(r, a) - 1 + stm
  BY OwnedIs
<1>5. c[b] \in Int /\ stm \in Nat
  BY <1>2, <1>4, HaloAssumption, LowIs
<1>6. Extent[b] >= stm /\ Extent[b] \in Nat
  <2>1. Place(q)[b] \in 0 .. Ranks[b] - 1 /\ Place(r)[b] \in 0 .. Ranks[b] - 1
    BY <1>2, <1>3, PlaceInRanks
  <2>2. Ranks[b] \in Nat /\ Extent[b] \in Nat
    BY <1>2, Sizes
  <2>3. Ranks[b] > 1
    BY <1>2, <1>3, <2>1, <2>2
  <2> QED
    BY <1>2, <2>2, <2>3, ThickAssumption
<1>7. Beside(q, c, b)
  <2>1. /\ Low(r, b) \in Nat /\ High(r, b) \in Nat /\ Low(q, b) \in Nat /\ High(q, b) \in Nat
        /\ High(r, b) = Low(r, b) + Extent[b] /\ High(q, b) = Low(q, b) + Extent[b]
    BY <1>2, <1>3, LowIs DEF High
  <2>2. c[b] >= Low(r, b) - stm /\ c[b] <= High(r, b) - 1 + stm
    BY <1>2, <1>4, <1>5, <2>1
  <2>3. Place(r)[b] \in Int /\ Place(q)[b] \in Int
    BY <1>2, <1>3, PlaceInRanks
  <2>4. CASE s[2] = -1
    <3>1. Low(r, b) = High(q, b)
      BY <1>2, <1>3, <2>3, <2>4, LowApart
    <3>2. c[b] < High(q, b) /\ c[b] >= Low(q, b)
      BY <1>2, <1>5, <1>6, <2>1, <2>2, <2>4, <3>1
    <3> QED
      BY <1>5, <2>1, <3>2 DEF Beside
  <2>5. CASE s[2] = 1
    <3>1. Low(q, b) = High(r, b)
      BY <1>2, <1>3, <2>3, <2>5, LowApart
    <3>2. c[b] < High(q, b) /\ c[b] >= Low(q, b)
      BY <1>2, <1>5, <1>6, <2>1, <2>2, <2>5, <3>1
    <3> QED
      BY <1>5, <2>1, <3>2 DEF Beside
  <2> QED
    BY <1>2, <2>4, <2>5
<1>8. ASSUME NEW a \in Axis, a # b
      PROVE  /\ Low(q, a) = Low(r, a) /\ High(q, a) = High(r, a)
  BY <1>3, <1>8, LowApart
<1>9. c \in Held(q)
  <2>1. ASSUME NEW a \in Axis PROVE c[a] \in Low(q, a) - stm .. High(q, a) - 1 + stm
    <3>1. CASE a = b
      BY <1>3, <1>5, <1>7, <3>1, LowIs DEF Beside
    <3>2. CASE a # b
      BY <1>4, <1>8, <3>2
    <3> QED
      BY <3>1, <3>2
  <2> QED
    BY <1>3, <1>4, <2>1, OwnedIs
<1>10. (\A a \in Axis : a # b => Beside(r, c, a)) => c \in Owned(q)
  <2> SUFFICES ASSUME \A a \in Axis : a # b => Beside(r, c, a) PROVE c \in Owned(q)
    OBVIOUS
  <2>1. ASSUME NEW a \in Axis PROVE Beside(q, c, a)
    BY <1>7, <1>8 DEF Beside
  <2> QED
    BY <1>3, <1>4, <2>1, OwnedIs
<1> QED
  BY <1>1, <1>3, <1>9, <1>10

\* A cell of the halo that lies beyond one axis only comes from its owner.
LEMMA FilledByOwner ==
    ASSUME NEW r \in Rank, NEW c \in Held(r), c \notin Owned(r),
           NEW b \in Axis, \A a \in Axis : a # b => Beside(r, c, a)
    PROVE  FilledFrom[r][c] = Owner(c)
<1>1. PICK s \in Side : s \in Beyond(r, c) /\ FilledFrom[r][c] = nrk(r, s)
  BY FilledIs
<1>2. /\ s[2] = -1 => c[s[1]] < Low(r, s[1])
      /\ s[2] = 1 => c[s[1]] >= High(r, s[1])
      /\ s[1] \in Axis /\ (s[2] = -1 \/ s[2] = 1)
  BY <1>1, BeyondIs, SideIs
<1>3. ~Beside(r, c, s[1])
  <2>1. /\ Low(r, s[1]) \in Nat /\ High(r, s[1]) \in Nat
    BY <1>2, LowIs
  <2> QED
    BY <1>2, <2>1 DEF Beside
<1>4. s[1] = b
  BY <1>2, <1>3
<1>5. nrk(r, s) \in Rank /\ c \in Owned(nrk(r, s))
  BY <1>1, <1>4, BeyondHeld
<1>6. c \in Domain
  BY OwnedIs
<1> QED
  BY <1>1, <1>5, <1>6, OwnerIs

\* What an exchange of the halo does.
LEMMA SyncedIs ==
    ASSUME NEW lab, NEW V, \A q \in Rank : lab[q] \in [Held(q) -> V], NEW r \in Rank
    PROVE  /\ Synced(lab)[r] \in [Held(r) -> V]
           /\ \A c \in Owned(r) : Synced(lab)[r][c] = lab[r][c]
           /\ \A c \in Held(r), b \in Axis :
                (\A a \in Axis : a # b => Beside(r, c, a)) =>
                    Synced(lab)[r][c] = lab[Owner(c)][c]
<1>1. Synced(lab)[r] = [c \in Held(r) |-> IF c \in Owned(r) THEN lab[r][c]
                                          ELSE lab[FilledFrom[r][c]][c]]
  BY DEF Synced
<1>2. Owned(r) \subseteq Held(r)
  BY OwnedIs
<1>3. ASSUME NEW c \in Held(r), c \notin Owned(r)
      PROVE  lab[FilledFrom[r][c]][c] \in V
  <2>1. PICK s \in Side : s \in Beyond(r, c) /\ FilledFrom[r][c] = nrk(r, s)
    BY <1>3, FilledIs
  <2>2. PICK q : q = nrk(r, s)
    OBVIOUS
  <2>3. q \in Rank /\ c \in Held(q)
    BY <2>1, <2>2, BeyondHeld
  <2>4. lab[q] \in [Held(q) -> V]
    BY <2>3
  <2> QED
    BY <2>1, <2>2, <2>3, <2>4
<1>4. Synced(lab)[r] \in [Held(r) -> V]
  <2>1. ASSUME NEW c \in Owned(r) PROVE lab[r][c] \in V
    BY <1>2
  <2> QED
    BY <1>1, <1>3, <2>1
<1>5. \A c \in Owned(r) : Synced(lab)[r][c] = lab[r][c]
  BY <1>1, <1>2
<1>6. ASSUME NEW c \in Held(r), NEW b \in Axis, \A a \in Axis : a # b => Beside(r, c, a)
      PROVE  Synced(lab)[r][c] = lab[Owner(c)][c]
  <2>1. CASE c \in Owned(r)
    <3>1. Owner(c) = r
      BY <2>1, OwnedIs, OwnerIs
    <3> QED
      BY <1>5, <2>1, <3>1
  <2>2. CASE c \notin Owned(r)
    <3>1. FilledFrom[r][c] = Owner(c)
      BY <1>6, <2>2, FilledByOwner
    <3>2. Synced(lab)[r][c] = lab[FilledFrom[r][c]][c]
      BY <1>1, <2>2
    <3> QED
      BY <3>1, <3>2
  <2> QED
    BY <2>1, <2>2
<1> QED
  BY <1>4, <1>5, <1>6

\* The cell that a cell above a cut is compared with.
LEMMA ComparedIs ==
    ASSUME NEW r \in Rank, NEW x \in Compared(r)
    PROVE  LET d == Shifted(x[1], x[2], -stm)
           IN  /\ x[1] \in Owned(r) /\ x[2] \in Axis
               /\ d \in Held(r) /\ d \in Domain
               /\ \A a \in Axis : a # x[2] => Beside(r, d, a)
<1>1. PICK c, b, d : c = x[1] /\ b = x[2] /\ d = Shifted(c, b, -stm)
  OBVIOUS
<1>2. /\ c \in Owned(r) /\ b \in Axis /\ HasNeighbour(r, <<b, -1>>)
      /\ c[b] - Place(r)[b] * Extent[b] < stm
  BY <1>1 DEF Compared
<1>3. c \in Domain /\ c \in Triple /\ \A a \in Axis : Beside(r, c, a)
  BY <1>2, OwnedIs, DomainIs
<1>4. d \in Triple /\ \A a \in Axis : d[a] = IF a = b THEN c[b] + (-stm) ELSE c[a]
  <2>1. PICK k \in Int : k = -stm
    BY HaloAssumption
  <2>2. d = Shifted(c, b, k)
    BY <1>1, <2>1
  <2>3. d \in Triple /\ \A a \in Axis : d[a] = IF a = b THEN c[b] + k ELSE c[a]
    BY <1>2, <1>3, <2>2, ShiftedIs
  <2> QED
    BY <2>1, <2>3
<1>5. \A a \in Axis : a # b => Beside(r, d, a)
  BY <1>3, <1>4 DEF Beside
<1>6. /\ Low(r, b) \in Nat /\ High(r, b) \in Nat /\ High(r, b) = Low(r, b) + Extent[b]
      /\ High(r, b) <= Ranks[b] * Extent[b] /\ Ranks[b] * Extent[b] \in Nat
      /\ Extent[b] \in Nat
  BY <1>2, LowIs, Sizes DEF High
<1>7. Low(r, b) >= Extent[b] /\ Extent[b] >= stm
  <2>1. PICK p, e, n : p = Place(r)[b] /\ e = Extent[b] /\ n = Ranks[b]
    OBVIOUS
  <2>2. p \in 0 .. n - 1 /\ n \in Nat /\ e \in Nat /\ p + (-1) \in 0 .. n - 1
    <3>1. p + (-1) \in 0 .. n - 1
      BY <1>2, <2>1 DEF HasNeighbour
    <3> QED
      BY <1>2, <2>1, <3>1, PlaceInRanks, Sizes
  <2>3. p >= 1 /\ n > 1
    BY <2>2
  <2>4. p * e >= e
    BY <2>2, <2>3
  <2> QED
    BY <1>2, <2>1, <2>3, <2>4, ThickAssumption DEF Low
<1>8. /\ c[b] \in Int /\ stm \in Nat /\ c[b] >= Low(r, b) /\ c[b] < Low(r, b) + stm
      /\ c[b] < High(r, b)
  <2>1. c[b] \in Low(r, b) .. High(r, b) - 1
    BY <1>2, <1>3 DEF Beside
  <2>2. c[b] - Low(r, b) < stm
    BY <1>2 DEF Low
  <2> QED
    BY <1>6, <2>1, <2>2, HaloAssumption
<1>9. d[b] >= 0 /\ d[b] >= Low(r, b) - stm /\ d[b] < Low(r, b) /\ d[b] \in Int
  BY <1>2, <1>4, <1>6, <1>7, <1>8
<1>10. ASSUME NEW a \in Axis
       PROVE  /\ d[a] \in 0 .. Ranks[a] * Extent[a] - 1
              /\ d[a] \in Low(r, a) - stm .. High(r, a) - 1 + stm
  <2>1. CASE a = b
    BY <1>6, <1>8, <1>9, <2>1
  <2>2. CASE a # b
    <3>1. d[a] = c[a]
      BY <1>4, <2>2
    <3>2. c[a] \in 0 .. Ranks[a] * Extent[a] - 1
      BY <1>3, DomainIs
    <3>3. c[a] \in Low(r, a) - stm .. High(r, a) - 1 + stm
      BY <1>2, OwnedIs
    <3> QED
      BY <3>1, <3>2, <3>3
  <2> QED
    BY <2>1, <2>2
<1>11. d \in Domain /\ d \in Held(r)
  BY <1>4, <1>10, DomainIs, OwnedIs
<1> QED
  BY <1>1, <1>2, <1>5, <1>11

-------------------------------------------------------------------------------
(***************************************************************************)
(* Uniting pairs.                                                          *)
(***************************************************************************)
Picked(s) == CHOOSE p \in s : TRUE
Body(S, s, f) == IF s = {} THEN [k \in S |-> k] ELSE Unite(Picked(s), f[s \ {Picked(s)}])

\* f solves the equation of the fold for the sets of up to n pairs.
Solves(f, S, P, n) ==
    /\ f = [s \in SUBSET P |-> f[s]]
    /\ \A s \in SUBSET P : Cardinality(s) <= n => f[s] = Body(S, s, f)

LEMMA Smaller ==
    ASSUME NEW P, IsFiniteSet(P), NEW s \in SUBSET P, s # {}
    PROVE  LET t == s \ {Picked(s)}
           IN  /\ Picked(s) \in s /\ t \in SUBSET P
               /\ Cardinality(s) \in Nat /\ Cardinality(t) \in Nat
               /\ Cardinality(t) = Cardinality(s) - 1
<1>1. Picked(s) \in s
  BY DEF Picked
<1>2. IsFiniteSet(s)
  BY FS_Subset
<1> QED
  BY <1>1, <1>2, FS_RemoveElement, FS_CardinalityType

LEMMA SolutionExists ==
    ASSUME NEW S, NEW P, IsFiniteSet(P), NEW n \in Nat
    PROVE  \E f : Solves(f, S, P, n)
<1>1. PICK Bad : Bad = {m \in Nat : ~\E f : Solves(f, S, P, m)}
  OBVIOUS
<1>2. SUFFICES ASSUME Bad # {} PROVE FALSE
  BY <1>1
<1>3. PICK v \in Bad : \A w \in Bad : v <= w
  BY <1>1, <1>2, SmallestExists
<1>4. v \in Nat /\ ~\E f : Solves(f, S, P, v)
  BY <1>1
<1>5. CASE v = 0
  <2>1. PICK f : f = [s \in SUBSET P |-> [k \in S |-> k]]
    OBVIOUS
  <2>2. ASSUME NEW s \in SUBSET P, Cardinality(s) <= 0
        PROVE  f[s] = Body(S, s, f)
    <3>1. s = {}
      <4>1. IsFiniteSet(s)
        BY FS_Subset
      <4> QED
        BY <2>2, <4>1, FS_EmptySet, FS_CardinalityType
    <3> QED
      BY <2>1, <3>1 DEF Body
  <2>3. f = [s \in SUBSET P |-> f[s]]
    BY <2>1
  <2>4. Solves(f, S, P, v)
    BY <1>5, <2>2, <2>3 DEF Solves
  <2> QED
    BY <1>4, <2>4
<1>6. CASE v # 0
  <2>1. v - 1 \in Nat /\ v - 1 \notin Bad
    BY <1>3, <1>4, <1>6
  <2>2. PICK f : Solves(f, S, P, v - 1)
    BY <1>1, <2>1
  <2>3. PICK g : g = [s \in SUBSET P |-> IF Cardinality(s) = v THEN Body(S, s, f) ELSE f[s]]
    OBVIOUS
  <2>4. ASSUME NEW s \in SUBSET P, Cardinality(s) <= v
        PROVE  g[s] = Body(S, s, g)
    <3>1. CASE s = {}
      <4>1. Body(S, s, g) = Body(S, s, f)
        BY <3>1 DEF Body
      <4>2. Cardinality(s) = 0
        BY <3>1, FS_EmptySet
      <4>3. Cardinality(s) <= v - 1 /\ Cardinality(s) # v
        BY <2>1, <4>2
      <4>4. f[s] = Body(S, s, f)
        BY <2>2, <4>3 DEF Solves
      <4> QED
        BY <2>3, <4>1, <4>3, <4>4
    <3>2. CASE s # {}
      <4>1. PICK t : t = s \ {Picked(s)}
        OBVIOUS
      <4>2. /\ t \in SUBSET P /\ Cardinality(t) = Cardinality(s) - 1
            /\ Cardinality(s) \in Nat /\ Cardinality(t) \in Nat
        BY <3>2, <4>1, Smaller
      <4>3. Cardinality(t) # v
        BY <1>4, <2>4, <4>2
      <4>4. g[t] = f[t]
        BY <2>3, <4>2, <4>3
      <4>5. Body(S, s, g) = Body(S, s, f)
        BY <3>2, <4>1, <4>4 DEF Body
      <4>6. CASE Cardinality(s) = v
        BY <2>3, <4>5, <4>6
      <4>7. CASE Cardinality(s) # v
        <5>1. Cardinality(s) <= v - 1
          BY <1>4, <2>4, <4>2, <4>7
        <5>2. f[s] = Body(S, s, f)
          BY <2>2, <5>1 DEF Solves
        <5> QED
          BY <2>3, <4>5, <4>7, <5>2
      <4> QED
        BY <4>6, <4>7
    <3> QED
      BY <3>1, <3>2
  <2>5. g = [s \in SUBSET P |-> g[s]]
    BY <2>3
  <2>6. Solves(g, S, P, v)
    BY <2>4, <2>5 DEF Solves
  <2> QED
    BY <1>4, <2>6
<1> QED
  BY <1>5, <1>6

LEMMA RootsUnfold ==
    ASSUME NEW S, NEW P
    PROVE  Roots(S, P) = (CHOOSE f : f = [s \in SUBSET P |-> Body(S, s, f)])[P]
BY DEF Roots, FoldSet, MapThenFoldSet, Body, Picked

LEMMA FoldExists ==
    ASSUME NEW S, NEW P, IsFiniteSet(P)
    PROVE  \E f : f = [s \in SUBSET P |-> Body(S, s, f)]
<1>1. PICK n : n = Cardinality(P)
  OBVIOUS
<1>2. n \in Nat
  BY <1>1, FS_CardinalityType
<1>3. PICK f : Solves(f, S, P, n)
  BY <1>2, SolutionExists
<1>4. ASSUME NEW s \in SUBSET P PROVE f[s] = Body(S, s, f)
  <2>1. Cardinality(s) <= n
    BY <1>1, FS_Subset
  <2> QED
    BY <1>3, <2>1 DEF Solves
<1>5. f = [s \in SUBSET P |-> f[s]]
  BY <1>3 DEF Solves
<1> QED
  BY <1>4, <1>5

\* root names the sets into which the pairs of s divide S.
Good(S, s, root) ==
    /\ root \in [S -> S]
    /\ \A k \in S : root[root[k]] = root[k]
    /\ \A p \in s : root[p[1]] = root[p[2]]
    /\ \A T \in SUBSET S :
          (\A p \in s : p[1] \in T <=> p[2] \in T) => \A k \in S : root[k] \in T <=> k \in T

LEMMA UniteGood ==
    ASSUME NEW S, NEW s, NEW p \in s, \A q \in s : q[1] \in S /\ q[2] \in S,
           NEW root, Good(S, s \ {p}, root)
    PROVE  Good(S, s, Unite(p, root))
<1>1. PICK new : new = Unite(p, root)
  OBVIOUS
<1>2. root \in [S -> S] /\ \A k \in S : root[root[k]] = root[k]
  BY DEF Good
<1>3. new \in [S -> S] /\ \A k \in S : new[k] = IF root[k] = root[p[1]] THEN root[p[2]] ELSE root[k]
  BY <1>1, <1>2 DEF Unite
<1>4. \A k \in S : new[new[k]] = new[k]
  <2> TAKE k \in S
  <2>1. root[k] \in S /\ root[p[2]] \in S
    BY <1>2
  <2>2. CASE root[k] = root[p[1]]
    <3>1. new[k] = root[p[2]]
      BY <1>3, <2>2
    <3>2. new[root[p[2]]] = root[p[2]]
      BY <1>2, <1>3, <2>1
    <3> QED
      BY <3>1, <3>2
  <2>3. CASE root[k] # root[p[1]]
    <3>1. new[k] = root[k]
      BY <1>3, <2>3
    <3>2. new[root[k]] = root[k]
      BY <1>2, <1>3, <2>1, <2>3
    <3> QED
      BY <3>1, <3>2
  <2> QED
    BY <2>2, <2>3
<1>5. ASSUME NEW q \in s, q # p PROVE new[q[1]] = new[q[2]]
  <2>1. root[q[1]] = root[q[2]]
    BY <1>5 DEF Good
  <2>2. q[1] \in S /\ q[2] \in S
    OBVIOUS
  <2> QED
    BY <1>3, <2>1, <2>2
<1>6. new[p[1]] = new[p[2]]
  BY <1>2, <1>3
<1>7. ASSUME NEW T \in SUBSET S, \A q \in s : q[1] \in T <=> q[2] \in T, NEW k \in S
      PROVE  new[k] \in T <=> k \in T
  <2>1. \A q \in s \ {p} : q[1] \in T <=> q[2] \in T
    BY <1>7
  <2>2. \A i \in S : root[i] \in T <=> i \in T
    BY <2>1 DEF Good
  <2>3. p[1] \in T <=> p[2] \in T
    BY <1>7
  <2> QED
    BY <1>3, <2>2, <2>3
<1> QED
  BY <1>1, <1>3, <1>4, <1>5, <1>6, <1>7 DEF Good

LEMMA RootsGood ==
    ASSUME NEW S, NEW P, IsFiniteSet(P), \A q \in P : q[1] \in S /\ q[2] \in S
    PROVE  Good(S, P, Roots(S, P))
<1>1. PICK F : F = CHOOSE f : f = [s \in SUBSET P |-> Body(S, s, f)]
  OBVIOUS
<1>2. F = [s \in SUBSET P |-> Body(S, s, F)]
  BY <1>1, FoldExists
<1>3. PICK Bad : Bad = {m \in Nat : \E s \in SUBSET P : Cardinality(s) = m /\ ~Good(S, s, F[s])}
  OBVIOUS
<1>4. Bad = {}
  <2> SUFFICES ASSUME Bad # {} PROVE FALSE
    OBVIOUS
  <2>1. PICK v \in Bad : \A w \in Bad : v <= w
    BY <1>3, SmallestExists
  <2>2. PICK s \in SUBSET P : Cardinality(s) = v /\ ~Good(S, s, F[s])
    BY <1>3
  <2>3. CASE s = {}
    <3>1. F[s] = [k \in S |-> k]
      BY <1>2, <2>3 DEF Body
    <3>2. Good(S, s, F[s])
      BY <2>3, <3>1 DEF Good
    <3> QED
      BY <2>2, <3>2
  <2>4. CASE s # {}
    <3>1. PICK p, t : p = Picked(s) /\ t = s \ {p}
      OBVIOUS
    <3>2. /\ p \in s /\ t \in SUBSET P /\ Cardinality(t) = Cardinality(s) - 1
          /\ Cardinality(s) \in Nat /\ Cardinality(t) \in Nat
      BY <2>4, <3>1, Smaller
    <3>3. Cardinality(t) \notin Bad
      BY <2>1, <2>2, <3>2
    <3>4. Good(S, t, F[t])
      BY <1>3, <3>2, <3>3
    <3>5. F[s] = Unite(p, F[t])
      BY <1>2, <2>4, <3>1 DEF Body
    <3>6. \A q \in s : q[1] \in S /\ q[2] \in S
      OBVIOUS
    <3>7. PICK root : root = F[t]
      OBVIOUS
    <3>8. Good(S, s \ {p}, root)
      BY <3>1, <3>4, <3>7
    <3>9. Good(S, s, Unite(p, root))
      BY <3>2, <3>6, <3>8, UniteGood
    <3> QED
      BY <2>2, <3>5, <3>7, <3>9
  <2> QED
    BY <2>3, <2>4
<1>5. Cardinality(P) \in Nat
  BY FS_CardinalityType
<1>6. Good(S, P, F[P])
  BY <1>3, <1>4, <1>5
<1>7. F[P] = Roots(S, P)
  BY <1>1, RootsUnfold
<1> QED
  BY <1>6, <1>7

-------------------------------------------------------------------------------
(***************************************************************************)
(* Counting, and the order of the cells.                                   *)
(***************************************************************************)
LEMMA CountLess ==
    ASSUME NEW B, IsFiniteSet(B), NEW A \in SUBSET B
    PROVE  /\ IsFiniteSet(A) /\ Cardinality(A) \in Nat /\ Cardinality(B) \in Nat
           /\ Cardinality(A) <= Cardinality(B)
           /\ A # B => Cardinality(A) < Cardinality(B)
           /\ A # {} => Cardinality(A) > 0
<1>1. IsFiniteSet(A) /\ Cardinality(A) \in Nat /\ Cardinality(B) \in Nat
  BY FS_Subset, FS_CardinalityType
<1>2. Cardinality(A) <= Cardinality(B) /\ (Cardinality(B) = Cardinality(A) => B = A)
  BY FS_Subset
<1>3. Cardinality(A) = 0 <=> A = {}
  BY <1>1, FS_EmptySet
<1> QED
  BY <1>1, <1>2, <1>3

LEMMA BeforeOrder ==
    ASSUME NEW c \in Triple, NEW d \in Triple, NEW e \in Triple
    PROVE  /\ ~Before(c, c)
           /\ c # d => Before(c, d) \/ Before(d, c)
           /\ Before(c, d) /\ Before(d, e) => Before(c, e)
           /\ Before(c, d) => ~Before(d, c)
<1>1. /\ c[1] \in Int /\ c[2] \in Int /\ c[3] \in Int
      /\ d[1] \in Int /\ d[2] \in Int /\ d[3] \in Int
      /\ e[1] \in Int /\ e[2] \in Int /\ e[3] \in Int
  BY DEF Triple
<1>2. c[1] = d[1] /\ c[2] = d[2] /\ c[3] = d[3] => c = d
  BY DEF Triple
<1> QED
  BY <1>1, <1>2 DEF Before

LEMMA DomainCell ==
    ASSUME NEW c \in Domain
    PROVE  c \in Triple /\ c[1] \in Nat /\ c[2] \in Nat /\ c[3] \in Nat
<1>1. c \in Triple /\ \A a \in Axis : c[a] \in 0 .. Ranks[a] * Extent[a] - 1
  BY DomainIs
<1>2. 1 \in Axis /\ 2 \in Axis /\ 3 \in Axis
  BY DEF Axis
<1>3. \A a \in Axis : Ranks[a] * Extent[a] \in Nat
  <2>1. \A a \in Axis : Ranks[a] \in Nat /\ Extent[a] \in Nat
    BY Sizes
  <2> QED
    BY <2>1
<1>4. \A a \in Axis : c[a] \in Nat
  BY <1>1, <1>3
<1> QED
  BY <1>1, <1>2, <1>4

LEMMA FirstExists ==
    ASSUME NEW V, V \subseteq Domain, V # {}
    PROVE  \E c \in V : \A d \in V : ~Before(d, c)
<1>1. \A d \in V : d \in Triple /\ d[1] \in Nat /\ d[2] \in Nat /\ d[3] \in Nat
  BY DomainCell
<1>2. PICK V3 : V3 = {d[3] : d \in V}
  OBVIOUS
<1>3. PICK z \in V3 : \A w \in V3 : z <= w
  <2>1. V3 \subseteq Nat /\ V3 # {}
    BY <1>1, <1>2
  <2> QED
    BY <2>1, SmallestExists
<1>4. PICK V2 : V2 = {d[2] : d \in {e \in V : e[3] = z}}
  OBVIOUS
<1>5. PICK y \in V2 : \A w \in V2 : y <= w
  <2>1. V2 \subseteq Nat /\ V2 # {}
    BY <1>1, <1>2, <1>4
  <2> QED
    BY <2>1, SmallestExists
<1>6. PICK V1 : V1 = {d[1] : d \in {e \in V : e[3] = z /\ e[2] = y}}
  OBVIOUS
<1>7. PICK x \in V1 : \A w \in V1 : x <= w
  <2>1. V1 \subseteq Nat /\ V1 # {}
    BY <1>1, <1>4, <1>6
  <2> QED
    BY <2>1, SmallestExists
<1>8. PICK c \in V : c[3] = z /\ c[2] = y /\ c[1] = x
  BY <1>6
<1>9. ASSUME NEW d \in V PROVE ~Before(d, c)
  <2>1. d[3] >= z
    BY <1>1, <1>2, <1>3
  <2>2. d[3] = z => d[2] >= y
    BY <1>1, <1>4, <1>5
  <2>3. d[3] = z /\ d[2] = y => d[1] >= x
    BY <1>1, <1>6, <1>7
  <2> QED
    BY <1>1, <1>8, <2>1, <2>2, <2>3 DEF Before
<1> QED
  BY <1>9

-------------------------------------------------------------------------------
(***************************************************************************)
(* Labels on one rank.                                                     *)
(***************************************************************************)
LocalPairs(r) == {p \in LocalCore(r) \X LocalCore(r) : Precedes(p[1], p[2])}

NumberedBy(r, root) ==
    [c \in LocalCore(r) |->
        LET f == CHOOSE f \in FirstOf(r, root) : root[f] = root[c]
        IN  Cardinality({g \in FirstOf(r, root) : ~Before(f, g)})]

\* Equal numbers are equal roots, in whatever way the roots are given.
LEMMA FirstNumbers ==
    ASSUME NEW r \in Rank, core \subseteq Domain,
           NEW root \in [LocalCore(r) -> LocalCore(r)],
           NEW lab, lab = NumberedBy(r, root)
    PROVE  \A c, d \in LocalCore(r) :
             /\ lab[c] \in 1 .. Cardinality(LocalCore(r))
             /\ lab[c] = lab[d] <=> root[c] = root[d]
<1> DEFINE K == LocalCore(r)
<1>1. PICK first : first = FirstOf(r, root)
  OBVIOUS
<1>2. K \subseteq Domain /\ IsFiniteSet(K)
  BY DomainFinite, FS_Subset DEF LocalCore
<1>3. first \subseteq K
  BY <1>1 DEF FirstOf
<1>4. IsFiniteSet(first) /\ Cardinality(first) \in Nat /\ Cardinality(K) \in Nat
      /\ Cardinality(first) <= Cardinality(K)
  BY <1>2, <1>3, CountLess
<1>5. ASSUME NEW c \in K
      PROVE  \E f \in first : root[f] = root[c]
  <2>1. PICK V : V = {d \in K : root[d] = root[c]}
    OBVIOUS
  <2>2. V \subseteq Domain /\ V # {}
    BY <1>2, <2>1
  <2>3. PICK f \in V : \A d \in V : ~Before(d, f)
    BY <2>2, FirstExists
  <2>4. f \in K /\ root[f] = root[c] /\ \A d \in K : root[f] = root[d] => ~Before(d, f)
    BY <2>1, <2>3
  <2>5. f \in first
    BY <1>1, <2>4 DEF FirstOf
  <2> QED
    BY <2>4, <2>5
<1> DEFINE Upto(f) == {g \in first : ~Before(f, g)}
<1>6. ASSUME NEW f \in first
      PROVE  Cardinality(Upto(f)) \in 1 .. Cardinality(K)
  <2>1. f \in Triple
    BY <1>2, <1>3, DomainCell
  <2>2. f \in Upto(f) /\ Upto(f) \in SUBSET first
    BY <2>1, BeforeOrder
  <2>3. /\ Cardinality(Upto(f)) \in Nat /\ Cardinality(Upto(f)) <= Cardinality(first)
        /\ Cardinality(Upto(f)) > 0
    BY <1>4, <2>2, CountLess
  <2> QED
    BY <1>4, <2>3
<1>7. ASSUME NEW f \in first, NEW g \in first, Before(f, g)
      PROVE  Cardinality(Upto(f)) < Cardinality(Upto(g))
  <2>1. \A h \in first : h \in Triple
    BY <1>2, <1>3, DomainCell
  <2>2. ASSUME NEW h \in Upto(f) PROVE h \in Upto(g)
    <3>1. ~Before(f, h)
      OBVIOUS
    <3>2. h = f \/ Before(h, f)
      BY <2>1, <3>1, BeforeOrder
    <3>3. Before(h, g)
      BY <1>7, <2>1, <3>2, BeforeOrder
    <3> QED
      BY <2>1, <3>3, BeforeOrder
  <2>3. g \in Upto(g) /\ g \notin Upto(f)
    BY <1>7, <2>1, BeforeOrder
  <2>4. IsFiniteSet(Upto(g))
    BY <1>4, CountLess
  <2>5. Upto(f) \in SUBSET Upto(g) /\ Upto(f) # Upto(g)
    BY <2>2, <2>3
  <2> HIDE DEF Upto
  <2> QED
    BY <2>4, <2>5, CountLess
<1>8. ASSUME NEW f \in first, NEW g \in first, Cardinality(Upto(f)) = Cardinality(Upto(g))
      PROVE  f = g
  <2>1. f \in Triple /\ g \in Triple
    BY <1>2, <1>3, DomainCell
  <2>2. Cardinality(Upto(f)) \in Nat /\ Cardinality(Upto(g)) \in Nat
    BY <1>6
  <2>3. ~Before(f, g) /\ ~Before(g, f)
    BY <1>7, <1>8, <2>2
  <2> QED
    BY <2>1, <2>3, BeforeOrder
<1> DEFINE pick(c) == CHOOSE f \in first : root[f] = root[c]
<1>9. \A c \in K : pick(c) \in first /\ root[pick(c)] = root[c]
  BY <1>5
<1>10. \A c \in K : lab[c] = Cardinality(Upto(pick(c)))
  BY <1>1 DEF NumberedBy
<1>11. ASSUME NEW c \in K, NEW d \in K
       PROVE  /\ lab[c] \in 1 .. Cardinality(K)
              /\ lab[c] = lab[d] <=> root[c] = root[d]
  <2>1. root[c] = root[d] => pick(c) = pick(d)
    BY Zenon
  <2> HIDE DEF Upto, pick
  <2>2. lab[c] = lab[d] => pick(c) = pick(d)
    BY <1>8, <1>9, <1>10
  <2>3. lab[c] \in 1 .. Cardinality(K)
    BY <1>6, <1>9, <1>10
  <2>4. root[c] = root[d] => lab[c] = lab[d]
    BY <1>10, <2>1
  <2>5. lab[c] = lab[d] => root[c] = root[d]
    BY <1>9, <2>2
  <2> QED
    BY <2>3, <2>4, <2>5
<1> QED
  BY <1>11

\* What CCL_local() has to do.
LocallyLabelled(r, lab) ==
    /\ lab \in [Held(r) -> 0 .. Cardinality(LocalCore(r))]
    /\ \A c \in Held(r) : lab[c] # 0 <=> c \in LocalCore(r)
    /\ \A p \in LocalPairs(r) : lab[p[1]] = lab[p[2]]
    /\ \A T \in SUBSET LocalCore(r) :
          (\A p \in LocalPairs(r) : p[1] \in T <=> p[2] \in T) =>
              \A c \in T, d \in LocalCore(r) \ T : lab[c] # lab[d]

LEMMA LocalLabelIs ==
    ASSUME NEW r \in Rank, core \subseteq Domain
    PROVE  LocallyLabelled(r, LocalLabel(r))
<1> DEFINE K == LocalCore(r)
<1>1. IsFiniteSet(K) /\ K \subseteq Held(r) /\ Cardinality(K) \in Nat
  <2>1. K \subseteq Domain /\ K \subseteq Owned(r)
    BY DEF LocalCore
  <2> QED
    BY <2>1, DomainFinite, FS_Subset, FS_CardinalityType, OwnedIs
<1>2. PICK root, P : P = LocalPairs(r) /\ root = Roots(K, P)
  OBVIOUS
<1>3. root = LocalRoots(r)
  BY <1>2 DEF LocalRoots, LocalPairs
<1>4. Good(K, P, root)
  <2>1. P \subseteq K \X K
    BY <1>2 DEF LocalPairs
  <2>2. IsFiniteSet(K \X K)
    BY <1>1, FS_Product
  <2>3. IsFiniteSet(P) /\ \A q \in P : q[1] \in K /\ q[2] \in K
    BY <2>1, <2>2, FS_Subset
  <2> HIDE DEF K
  <2> QED
    BY <1>2, <2>3, RootsGood
<1>5. root \in [K -> K]
  BY <1>4 DEF Good
<1>6. PICK num : num = NumberedBy(r, root)
  OBVIOUS
<1>7. \A c, d \in K : /\ num[c] \in 1 .. Cardinality(K)
                      /\ num[c] = num[d] <=> root[c] = root[d]
  BY <1>5, <1>6, FirstNumbers
<1>8. PICK lab : lab = LocalLabel(r)
  OBVIOUS
<1>9. lab = [c \in Held(r) |-> IF c \notin K THEN 0
               ELSE LET f == CHOOSE f \in FirstOf(r, root) : root[f] = root[c]
                    IN  Cardinality({g \in FirstOf(r, root) : ~Before(f, g)})]
  BY <1>3, <1>8 DEF LocalLabel
<1>10. lab = [c \in Held(r) |-> IF c \notin K THEN 0 ELSE num[c]]
  BY <1>6, <1>9 DEF NumberedBy
<1> HIDE DEF K
<1>11. lab \in [Held(r) -> 0 .. Cardinality(K)] /\ \A c \in Held(r) : lab[c] # 0 <=> c \in K
  <2>1. ASSUME NEW c \in Held(r)
        PROVE  lab[c] \in 0 .. Cardinality(K) /\ (lab[c] # 0 <=> c \in K)
    <3>1. CASE c \in K
      <4>1. lab[c] = num[c] /\ num[c] \in 1 .. Cardinality(K)
        BY <1>7, <1>10, <3>1
      <4> QED
        BY <1>1, <3>1, <4>1
    <3>2. CASE c \notin K
      BY <1>1, <1>10, <3>2
    <3> QED
      BY <3>1, <3>2
  <2> QED
    BY <1>10, <2>1
<1>12. \A c \in K : lab[c] = num[c]
  BY <1>1, <1>10
<1>13. \A c, d \in K : lab[c] = lab[d] <=> root[c] = root[d]
  BY <1>7, <1>12
<1>14. ASSUME NEW p \in P PROVE lab[p[1]] = lab[p[2]]
  <2>1. p[1] \in K /\ p[2] \in K
    BY <1>2 DEF LocalPairs, K
  <2>2. root[p[1]] = root[p[2]]
    BY <1>4 DEF Good
  <2> QED
    BY <1>13, <2>1, <2>2
<1>15. ASSUME NEW T \in SUBSET K, \A p \in P : p[1] \in T <=> p[2] \in T,
              NEW c \in T, NEW d \in K \ T
       PROVE  lab[c] # lab[d]
  <2>1. \A k \in K : root[k] \in T <=> k \in T
    BY <1>4, <1>15 DEF Good
  <2>2. root[c] # root[d]
    BY <2>1
  <2> QED
    BY <1>13, <2>2
<1> QED
  BY <1>2, <1>8, <1>11, <1>14, <1>15 DEF LocallyLabelled, K

-------------------------------------------------------------------------------
(***************************************************************************)
(* Offsets.                                                                *)
(***************************************************************************)
RankIn(r) == r \in Nat /\ (r # 0 => r - 1 \in Rank)

LEMMA RankIs ==
    ASSUME NEW r \in Rank
    PROVE  RankIn(r)
<1>1. PICK n : n = npe_xy * npe_z
  OBVIOUS
<1>2. n \in Int
  BY <1>1, RankAssumption DEF npe_xy
<1>3. Rank = 0 .. n - 1
  BY <1>1 DEF Rank
<1> QED
  BY <1>2, <1>3 DEF RankIn

\* g solves the recursion of the offsets up to rank n.
Adds(g, m, n) ==
    /\ g = [r \in Rank |-> g[r]]
    /\ \A r \in Rank : r <= n => g[r] = IF r = 0 THEN 0 ELSE g[r - 1] + m[r - 1]

LEMMA AddsExists ==
    ASSUME NEW m, NEW n \in Nat
    PROVE  \E g : Adds(g, m, n)
<1>1. PICK Bad : Bad = {k \in Nat : ~\E g : Adds(g, m, k)}
  OBVIOUS
<1>2. SUFFICES ASSUME Bad # {} PROVE FALSE
  BY <1>1
<1>3. PICK v \in Bad : \A w \in Bad : v <= w
  BY <1>1, <1>2, SmallestExists
<1>4. v \in Nat /\ ~\E g : Adds(g, m, v)
  BY <1>1
<1>5. CASE v = 0
  <2>1. PICK g : g = [r \in Rank |-> 0]
    OBVIOUS
  <2>2. \A r \in Rank : r <= 0 => g[r] = 0 /\ r = 0
    BY <2>1, RankIs DEF RankIn
  <2>3. Adds(g, m, v)
    BY <1>5, <2>1, <2>2 DEF Adds
  <2> QED
    BY <1>4, <2>3
<1>6. CASE v # 0
  <2>1. v - 1 \in Nat /\ v - 1 \notin Bad
    BY <1>3, <1>4, <1>6
  <2>2. PICK g : Adds(g, m, v - 1)
    BY <1>1, <2>1
  <2>3. PICK h : h = [r \in Rank |-> IF r = v THEN g[r - 1] + m[r - 1] ELSE g[r]]
    OBVIOUS
  <2>4. ASSUME NEW r \in Rank, r <= v
        PROVE  h[r] = IF r = 0 THEN 0 ELSE h[r - 1] + m[r - 1]
    <3>1. r \in Nat /\ (r # 0 => r - 1 \in Rank)
      BY RankIs DEF RankIn
    <3>2. r # 0 => h[r - 1] = g[r - 1]
      BY <1>4, <2>3, <2>4, <3>1
    <3>3. CASE r = v
      BY <1>6, <2>3, <3>2, <3>3
    <3>4. CASE r # v
      <4>1. r <= v - 1
        BY <1>4, <2>4, <3>1, <3>4
      <4>2. g[r] = IF r = 0 THEN 0 ELSE g[r - 1] + m[r - 1]
        BY <2>2, <4>1 DEF Adds
      <4> QED
        BY <2>3, <3>2, <3>4, <4>2
    <3> QED
      BY <3>3, <3>4
  <2>5. Adds(h, m, v)
    BY <2>3, <2>4 DEF Adds
  <2> QED
    BY <1>4, <2>5
<1> QED
  BY <1>5, <1>6

LEMMA OffsetIs ==
    ASSUME NEW r \in Rank
    PROVE  offset[r] = IF r = 0 THEN 0 ELSE offset[r - 1] + local_max_label(r - 1)
<1>1. PICK m : m = [q \in Rank |-> local_max_label(q)]
  OBVIOUS
<1>2. PICK n : n = npe_xy * npe_z
  OBVIOUS
<1>3. n \in Nat /\ \A q \in Rank : q <= n
  BY <1>2, RankAssumption DEF npe_xy, Rank
<1>4. PICK g : Adds(g, m, n)
  BY <1>3, AddsExists
<1>5. ASSUME NEW q \in Rank
      PROVE  g[q] = IF q = 0 THEN 0 ELSE g[q - 1] + local_max_label(q - 1)
  <2>1. q # 0 => q - 1 \in Rank
    BY RankIs DEF RankIn
  <2>2. q # 0 => m[q - 1] = local_max_label(q - 1)
    BY <1>1, <2>1
  <2> QED
    BY <1>3, <1>4, <2>2 DEF Adds
<1>6. g = [q \in Rank |-> g[q]]
  BY <1>4 DEF Adds
<1>7. g = [q \in Rank |-> IF q = 0 THEN 0 ELSE g[q - 1] + local_max_label(q - 1)]
  BY <1>5, <1>6
<1>8. offset = [q \in Rank |-> IF q = 0 THEN 0 ELSE offset[q - 1] + local_max_label(q - 1)]
  BY <1>7 DEF offset
<1> QED
  BY <1>8

LEMMA OwnedSome ==
    ASSUME NEW r \in Rank
    PROVE  Owned(r) # {}
<1>1. PICK c : c = <<Low(r, 1), Low(r, 2), Low(r, 3)>>
  OBVIOUS
<1>2. \A a \in Axis : /\ Low(r, a) \in Nat /\ High(r, a) \in Nat /\ Low(r, a) < High(r, a)
                      /\ Ranks[a] * Extent[a] \in Nat /\ High(r, a) <= Ranks[a] * Extent[a]
  BY LowIs
<1>3. \A a \in Axis : c[a] = Low(r, a)
  BY <1>1 DEF Axis
<1>4. 1 \in Axis /\ 2 \in Axis /\ 3 \in Axis
  BY DEF Axis
<1>5. c \in Triple
  BY <1>1, <1>2, <1>4 DEF Triple
<1>6. \A a \in Axis : c[a] \in 0 .. Ranks[a] * Extent[a] - 1 /\ Beside(r, c, a)
  BY <1>2, <1>3 DEF Beside
<1> QED
  BY <1>5, <1>6, DomainIs, OwnedIs

LEMMA LargestExists ==
    ASSUME NEW B \in Nat, NEW V \in SUBSET (0 .. B), V # {}
    PROVE  \E v \in V : \A w \in V : v >= w
<1>1. PICK W : W = {B - v : v \in V}
  OBVIOUS
<1>2. W \subseteq Nat /\ W # {}
  <2>1. \A v \in V : v \in Nat /\ v <= B
    OBVIOUS
  <2>2. \A v \in V : B - v \in Nat
    BY <2>1
  <2> QED
    BY <1>1, <2>2
<1>3. PICK u \in W : \A w \in W : u <= w
  BY <1>2, SmallestExists
<1>4. PICK v \in V : u = B - v
  BY <1>1
<1>5. ASSUME NEW w \in V PROVE v >= w
  <2>1. B - v <= B - w
    BY <1>1, <1>3, <1>4
  <2> QED
    BY <2>1
<1> QED
  BY <1>5

AllLocal == core \subseteq Domain /\ \A r \in Rank : LocallyLabelled(r, label[r])

LEMMA MaxIs ==
    ASSUME AllLocal, NEW r \in Rank
    PROVE  /\ local_max_label(r) \in Nat
           /\ local_max_label(r) <= Cardinality(LocalCore(r))
           /\ \A c \in Owned(r) : label[r][c] \in Nat /\ label[r][c] <= local_max_label(r)
<1>1. PICK V, B : V = {label[r][c] : c \in Owned(r)} /\ B = Cardinality(LocalCore(r))
  OBVIOUS
<1>2. B \in Nat
  BY <1>1, DomainFinite, FS_Subset, FS_CardinalityType DEF AllLocal, LocalCore
<1>3. label[r] \in [Held(r) -> 0 .. B] /\ Owned(r) \subseteq Held(r)
  BY <1>1, OwnedIs DEF AllLocal, LocallyLabelled
<1>4. V \in SUBSET (0 .. B) /\ V # {}
  BY <1>1, <1>3, OwnedSome
<1>5. \E v \in V : \A w \in V : v >= w
  BY <1>2, <1>4, LargestExists
<1>6. local_max_label(r) = CHOOSE v \in V : \A w \in V : v >= w
  BY <1>1 DEF local_max_label, Max
<1>7. PICK m : m = local_max_label(r)
  OBVIOUS
<1>8. m \in V /\ \A w \in V : m >= w
  BY <1>5, <1>6, <1>7
<1>9. m \in Nat /\ m <= B /\ \A w \in V : w \in Nat /\ w <= m
  BY <1>2, <1>4, <1>8
<1>10. \A c \in Owned(r) : label[r][c] \in V
  BY <1>1
<1> QED
  BY <1>1, <1>7, <1>9, <1>10

Earlier(r) == {c \in core : Owner(c) < r}

LEMMA EarlierIs ==
    ASSUME core \subseteq Domain, NEW r \in Rank
    PROVE  /\ Earlier(r) \cup LocalCore(r) \subseteq core
           /\ Cardinality(Earlier(r) \cup LocalCore(r)) =
                Cardinality(Earlier(r)) + Cardinality(LocalCore(r))
           /\ Cardinality(Earlier(r)) \in Nat /\ Cardinality(LocalCore(r)) \in Nat
           /\ Cardinality(Earlier(r) \cup LocalCore(r)) <= Cardinality(core)
           /\ Cardinality(core) \in Nat
           /\ r # 0 => Earlier(r) = Earlier(r - 1) \cup LocalCore(r - 1)
<1>1. \A c \in core : /\ Owner(c) \in Rank /\ c \in Owned(Owner(c))
                      /\ \A q \in Rank : c \in Owned(q) => Owner(c) = q
  BY OwnerIs
<1>2. IsFiniteSet(core)
  BY DomainFinite, FS_Subset
<1>3. \A q \in Rank : q \in Nat /\ (q # 0 => q - 1 \in Rank)
  BY RankIs DEF RankIn
<1>4. \A q \in Rank : LocalCore(q) = {c \in core : Owner(c) = q}
  BY <1>1 DEF LocalCore
<1>5. Earlier(r) \subseteq core /\ LocalCore(r) \subseteq core
  BY <1>4 DEF Earlier
<1>6. Earlier(r) \cap LocalCore(r) = {}
  BY <1>1, <1>3, <1>4 DEF Earlier
<1>7. /\ IsFiniteSet(Earlier(r)) /\ IsFiniteSet(LocalCore(r))
      /\ Cardinality(Earlier(r)) \in Nat /\ Cardinality(LocalCore(r)) \in Nat
      /\ Cardinality(core) \in Nat
  BY <1>2, <1>5, FS_Subset, FS_CardinalityType
<1>8. Cardinality(Earlier(r) \cup LocalCore(r)) =
        Cardinality(Earlier(r)) + Cardinality(LocalCore(r))
  <2>1. Cardinality(Earlier(r) \cap LocalCore(r)) = 0
    BY <1>6, FS_EmptySet
  <2>2. Cardinality(Earlier(r) \cup LocalCore(r)) =
          Cardinality(Earlier(r)) + Cardinality(LocalCore(r))
            - Cardinality(Earlier(r) \cap LocalCore(r))
    BY <1>7, FS_Union
  <2> QED
    BY <1>7, <2>1, <2>2
<1>9. Cardinality(Earlier(r) \cup LocalCore(r)) <= Cardinality(core)
  BY <1>2, <1>5, FS_Subset
<1>10. ASSUME r # 0 PROVE Earlier(r) = Earlier(r - 1) \cup LocalCore(r - 1)
  <2>1. r - 1 \in Rank /\ r \in Nat
    BY <1>3, <1>10
  <2>2. LocalCore(r - 1) = {c \in core : Owner(c) = r - 1}
    BY <1>4, <2>1
  <2>3. \A c \in core : Owner(c) \in Nat
    BY <1>1, <1>3
  <2>4. \A c \in core : Owner(c) < r <=> Owner(c) < r - 1 \/ Owner(c) = r - 1
    BY <2>1, <2>3
  <2> QED
    BY <2>2, <2>4 DEF Earlier
<1> QED
  BY <1>5, <1>7, <1>8, <1>9, <1>10

LEMMA OffsetBound ==
    ASSUME AllLocal, NEW r \in Rank
    PROVE  offset[r] \in Nat /\ offset[r] <= Cardinality(Earlier(r))
<1>1. PICK Bad : Bad = {q \in Rank : ~(offset[q] \in Nat /\ offset[q] <= Cardinality(Earlier(q)))}
  OBVIOUS
<1>2. SUFFICES ASSUME Bad # {} PROVE FALSE
  BY <1>1
<1>3. Bad \subseteq Nat
  BY <1>1, RankIs DEF RankIn
<1>4. PICK v \in Bad : \A w \in Bad : v <= w
  BY <1>2, <1>3, SmallestExists
<1>5. v \in Rank /\ core \subseteq Domain
  BY <1>1 DEF AllLocal
<1>6. CASE v = 0
  <2>1. offset[v] = 0
    BY <1>5, <1>6, OffsetIs
  <2>2. Cardinality(Earlier(v)) \in Nat
    BY <1>5, EarlierIs
  <2> QED
    BY <1>1, <2>1, <2>2
<1>7. CASE v # 0
  <2>1. PICK u : u = v - 1
    OBVIOUS
  <2>2. u \in Rank /\ v \in Nat
    BY <1>5, <1>7, <2>1, RankIs DEF RankIn
  <2>3. u \notin Bad
    BY <1>4, <2>1, <2>2
  <2>4. offset[u] \in Nat /\ offset[u] <= Cardinality(Earlier(u))
    BY <1>1, <2>2, <2>3
  <2>5. offset[v] = offset[u] + local_max_label(u)
    BY <1>5, <1>7, <2>1, OffsetIs
  <2>6. local_max_label(u) \in Nat /\ local_max_label(u) <= Cardinality(LocalCore(u))
    BY <2>2, MaxIs
  <2>7. Cardinality(Earlier(v)) = Cardinality(Earlier(u)) + Cardinality(LocalCore(u))
        /\ Cardinality(Earlier(u)) \in Nat /\ Cardinality(LocalCore(u)) \in Nat
    BY <1>5, <1>7, <2>1, <2>2, EarlierIs
  <2> QED
    BY <1>1, <2>4, <2>5, <2>6, <2>7
<1> QED
  BY <1>6, <1>7

LEMMA OffsetApart ==
    ASSUME AllLocal, NEW q \in Rank, NEW r \in Rank, q < r
    PROVE  offset[q] + local_max_label(q) <= offset[r]
<1>1. PICK Bad : Bad = {p \in Rank : q < p /\ ~(offset[q] + local_max_label(q) <= offset[p])}
  OBVIOUS
<1>2. SUFFICES ASSUME Bad # {} PROVE FALSE
  BY <1>1
<1>3. Bad \subseteq Nat
  BY <1>1, RankIs DEF RankIn
<1>4. PICK v \in Bad : \A w \in Bad : v <= w
  BY <1>2, <1>3, SmallestExists
<1>5. v \in Rank /\ q < v /\ v \in Nat /\ q \in Nat
  BY <1>1, <1>3, RankIs DEF RankIn
<1>6. PICK u : u = v - 1
  OBVIOUS
<1>7. u \in Rank /\ u \in Nat
  BY <1>5, <1>6, RankIs DEF RankIn
<1>8. offset[v] = offset[u] + local_max_label(u)
  BY <1>5, <1>6, OffsetIs
<1>9. /\ offset[u] \in Nat /\ local_max_label(u) \in Nat
      /\ offset[q] \in Nat /\ local_max_label(q) \in Nat
  BY <1>7, OffsetBound, MaxIs
<1>10. CASE u = q
  BY <1>1, <1>8, <1>9, <1>10
<1>11. CASE u # q
  <2>1. q < u /\ u \notin Bad
    BY <1>4, <1>5, <1>6, <1>7, <1>11
  <2>2. offset[q] + local_max_label(q) <= offset[u]
    BY <1>1, <1>7, <2>1
  <2> QED
    BY <1>1, <1>8, <1>9, <2>2
<1> QED
  BY <1>10, <1>11

-------------------------------------------------------------------------------
(***************************************************************************)
(* Labels on all ranks.                                                    *)
(***************************************************************************)
LocalLinks == UNION {LocalPairs(r) : r \in Rank}

\* c is not beyond two sides of rank r.
OneCut(r, c) == \E b \in Axis : \A a \in Axis : a # b => Beside(r, c, a)

\* The labels name the sets into which the links divide the bubble cells, and the halo
\* has the labels of the owners except near the edges of a subdomain.
Names(lab, links) ==
    /\ \A c \in Domain : lab[Owner(c)][c] # 0 <=> c \in core
    /\ \A p \in links : lab[Owner(p[1])][p[1]] = lab[Owner(p[2])][p[2]]
    /\ \A T \in SUBSET core :
          (\A p \in links : p[1] \in T <=> p[2] \in T) =>
              \A c \in T, d \in core \ T : lab[Owner(c)][c] # lab[Owner(d)][d]

Shown(lab) ==
    \A r \in Rank : \A c \in Held(r) : OneCut(r, c) => lab[r][c] = lab[Owner(c)][c]

Bounded(lab, lim) == \A r \in Rank : lab[r] \in [Held(r) -> 0 .. lim]

LEMMA SyncedNames ==
    ASSUME NEW lab, NEW lim, NEW links, core \subseteq Domain,
           Bounded(lab, lim), Names(lab, links), \A p \in links : p[1] \in Domain /\ p[2] \in Domain
    PROVE  Bounded(Synced(lab), lim) /\ Names(Synced(lab), links) /\ Shown(Synced(lab))
<1>1. PICK new : new = Synced(lab)
  OBVIOUS
<1>2. \A q \in Rank : lab[q] \in [Held(q) -> 0 .. lim]
  BY DEF Bounded
<1>3. ASSUME NEW r \in Rank
      PROVE  /\ new[r] \in [Held(r) -> 0 .. lim]
             /\ \A c \in Owned(r) : new[r][c] = lab[r][c]
             /\ \A c \in Held(r), b \in Axis :
                  (\A a \in Axis : a # b => Beside(r, c, a)) => new[r][c] = lab[Owner(c)][c]
  <2>1. PICK V : V = 0 .. lim
    OBVIOUS
  <2>2. \A q \in Rank : lab[q] \in [Held(q) -> V]
    BY <1>2, <2>1
  <2>3. /\ Synced(lab)[r] \in [Held(r) -> V]
        /\ \A c \in Owned(r) : Synced(lab)[r][c] = lab[r][c]
        /\ \A c \in Held(r), b \in Axis :
             (\A a \in Axis : a # b => Beside(r, c, a)) =>
                 Synced(lab)[r][c] = lab[Owner(c)][c]
    BY <2>2, SyncedIs
  <2> QED
    BY <1>1, <2>1, <2>3
<1>4. \A c \in Domain : new[Owner(c)][c] = lab[Owner(c)][c]
  BY <1>3, OwnerIs
<1>5. Bounded(new, lim)
  BY <1>3 DEF Bounded
<1>6. Names(new, links)
  <2>1. \A c \in Domain : new[Owner(c)][c] # 0 <=> c \in core
    BY <1>4 DEF Names
  <2>2. \A p \in links : new[Owner(p[1])][p[1]] = new[Owner(p[2])][p[2]]
    BY <1>4 DEF Names
  <2>3. ASSUME NEW T \in SUBSET core, \A p \in links : p[1] \in T <=> p[2] \in T,
               NEW c \in T, NEW d \in core \ T
        PROVE  new[Owner(c)][c] # new[Owner(d)][d]
    <3>1. lab[Owner(c)][c] # lab[Owner(d)][d]
      BY <2>3 DEF Names
    <3>2. c \in Domain /\ d \in Domain
      OBVIOUS
    <3> QED
      BY <1>4, <3>1, <3>2
  <2> QED
    BY <2>1, <2>2, <2>3 DEF Names
<1>7. Shown(new)
  <2>1. ASSUME NEW r \in Rank, NEW c \in Held(r), OneCut(r, c)
        PROVE  new[r][c] = new[Owner(c)][c]
    <3>1. c \in Domain
      BY OwnedIs
    <3>2. new[r][c] = lab[Owner(c)][c]
      BY <1>3, <2>1 DEF OneCut
    <3> QED
      BY <1>4, <3>1, <3>2
  <2> QED
    BY <2>1 DEF Shown
<1> QED
  BY <1>1, <1>5, <1>6, <1>7

WithOffset ==
    [r \in Rank |-> [c \in Held(r) |->
        IF c \in Owned(r) /\ label[r][c] # 0 THEN label[r][c] + offset[r] ELSE label[r][c]]]

LEMMA WithOffsetIs ==
    ASSUME AllLocal
    PROVE  Bounded(WithOffset, Cardinality(core)) /\ Names(WithOffset, LocalLinks)
<1>1. PICK lab, M : lab = WithOffset /\ M = Cardinality(core)
  OBVIOUS
<1>2. core \subseteq Domain /\ \A r \in Rank : LocallyLabelled(r, label[r])
  BY DEF AllLocal
<1>3. ASSUME NEW r \in Rank
      PROVE  /\ offset[r] \in Nat
             /\ offset[r] + Cardinality(LocalCore(r)) <= M
             /\ Cardinality(LocalCore(r)) \in Nat /\ M \in Nat
             /\ \A c \in Held(r) : /\ label[r][c] \in Nat
                                   /\ label[r][c] <= Cardinality(LocalCore(r))
  <2>1. /\ Cardinality(Earlier(r)) \in Nat /\ Cardinality(LocalCore(r)) \in Nat /\ M \in Nat
        /\ Cardinality(Earlier(r)) + Cardinality(LocalCore(r)) <= M
    BY <1>1, <1>2, EarlierIs
  <2>2. offset[r] \in Nat /\ offset[r] <= Cardinality(Earlier(r))
    BY OffsetBound
  <2>3. \A c \in Held(r) : label[r][c] \in 0 .. Cardinality(LocalCore(r))
    BY <1>2 DEF LocallyLabelled
  <2> QED
    BY <2>1, <2>2, <2>3
<1>4. Bounded(lab, M)
  <2>1. ASSUME NEW r \in Rank, NEW c \in Held(r)
        PROVE  lab[r][c] \in 0 .. M
    <3>1. PICK v, o, k : v = label[r][c] /\ o = offset[r] /\ k = Cardinality(LocalCore(r))
      OBVIOUS
    <3>2. v \in Nat /\ o \in Nat /\ k \in Nat /\ M \in Nat /\ v <= k /\ o + k <= M
      BY <1>3, <3>1
    <3>3. lab[r][c] = v + o \/ lab[r][c] = v
      BY <1>1, <3>1 DEF WithOffset
    <3> QED
      BY <3>2, <3>3
  <2> QED
    BY <1>1, <2>1 DEF Bounded, WithOffset
<1>5. ASSUME NEW r \in Rank, NEW c \in Owned(r)
      PROVE  /\ c \in core <=> label[r][c] # 0
             /\ lab[r][c] = IF c \in core THEN label[r][c] + offset[r] ELSE 0
  <2>1. c \in Held(r) /\ (c \in core <=> c \in LocalCore(r))
    BY OwnedIs DEF LocalCore
  <2>2. label[r][c] # 0 <=> c \in LocalCore(r)
    BY <1>2, <2>1 DEF LocallyLabelled
  <2>3. lab[r][c] = IF label[r][c] # 0 THEN label[r][c] + offset[r] ELSE label[r][c]
    BY <1>1, <2>1 DEF WithOffset
  <2> QED
    BY <2>1, <2>2, <2>3
<1>6. ASSUME NEW c \in Domain
      PROVE  /\ Owner(c) \in Rank /\ c \in Owned(Owner(c)) /\ c \in Held(Owner(c))
             /\ lab[Owner(c)][c] # 0 <=> c \in core
  <2>1. Owner(c) \in Rank /\ c \in Owned(Owner(c)) /\ c \in Held(Owner(c))
    BY OwnerIs, OwnedIs
  <2>2. offset[Owner(c)] \in Nat /\ label[Owner(c)][c] \in Nat
    BY <1>3, <2>1
  <2>3. /\ c \in core <=> label[Owner(c)][c] # 0
        /\ lab[Owner(c)][c] = IF c \in core THEN label[Owner(c)][c] + offset[Owner(c)] ELSE 0
    BY <1>5, <2>1
  <2> QED
    BY <2>1, <2>2, <2>3
<1>7. ASSUME NEW p \in LocalLinks
      PROVE  lab[Owner(p[1])][p[1]] = lab[Owner(p[2])][p[2]]
  <2>1. PICK r \in Rank : p \in LocalPairs(r)
    BY DEF LocalLinks
  <2>2. /\ p[1] \in core /\ p[1] \in Owned(r) /\ p[2] \in core /\ p[2] \in Owned(r)
    BY <2>1 DEF LocalPairs, LocalCore
  <2>3. Owner(p[1]) = r /\ Owner(p[2]) = r
    BY <1>2, <2>2, OwnerIs
  <2>4. label[r][p[1]] = label[r][p[2]]
    BY <1>2, <2>1 DEF LocallyLabelled
  <2> QED
    BY <1>5, <2>2, <2>3, <2>4
<1>8. ASSUME NEW c \in core, NEW d \in core, Owner(c) < Owner(d)
      PROVE  lab[Owner(c)][c] # lab[Owner(d)][d]
  <2>1. PICK q, r : q = Owner(c) /\ r = Owner(d)
    OBVIOUS
  <2>2. q \in Rank /\ r \in Rank /\ c \in Owned(q) /\ d \in Owned(r) /\ d \in Held(r)
    BY <1>2, <1>6, <2>1
  <2>3. lab[q][c] = label[q][c] + offset[q] /\ lab[r][d] = label[r][d] + offset[r]
        /\ label[r][d] # 0
    BY <1>5, <2>2
  <2>4. offset[q] + local_max_label(q) <= offset[r]
    BY <1>8, <2>1, <2>2, OffsetApart
  <2>5. /\ label[q][c] \in Nat /\ label[q][c] <= local_max_label(q) /\ local_max_label(q) \in Nat
        /\ offset[q] \in Nat /\ offset[r] \in Nat /\ label[r][d] \in Nat
    BY <1>3, <2>2, MaxIs
  <2>6. PICK v, w, o, u, m : /\ v = label[q][c] /\ w = label[r][d] /\ o = offset[q]
                             /\ u = offset[r] /\ m = local_max_label(q)
    OBVIOUS
  <2>7. v + o # w + u
    BY <2>3, <2>4, <2>5, <2>6
  <2> QED
    BY <2>1, <2>3, <2>6, <2>7
<1>9. ASSUME NEW T \in SUBSET core, \A p \in LocalLinks : p[1] \in T <=> p[2] \in T,
             NEW c \in T, NEW d \in core \ T
      PROVE  lab[Owner(c)][c] # lab[Owner(d)][d]
  <2>1. c \in core /\ d \in core /\ c \in Domain /\ d \in Domain
    BY <1>2
  <2>2. Owner(c) \in Nat /\ Owner(d) \in Nat
    BY <1>6, <2>1, RankIs DEF RankIn
  <2>3. CASE Owner(c) # Owner(d)
    <3>1. Owner(c) < Owner(d) \/ Owner(d) < Owner(c)
      BY <2>2, <2>3
    <3> QED
      BY <1>8, <2>1, <3>1
  <2>4. CASE Owner(c) = Owner(d)
    <3>1. PICK r \in Rank : r = Owner(c)
      BY <1>6, <2>1
    <3>2. c \in Owned(r) /\ d \in Owned(r)
      BY <1>6, <2>1, <2>4, <3>1
    <3>3. PICK U : U = T \cap LocalCore(r)
      OBVIOUS
    <3>4. U \in SUBSET LocalCore(r) /\ c \in U /\ d \in LocalCore(r) \ U
      BY <2>1, <3>2, <3>3 DEF LocalCore
    <3>5. ASSUME NEW p \in LocalPairs(r) PROVE p[1] \in U <=> p[2] \in U
      <4>1. p[1] \in LocalCore(r) /\ p[2] \in LocalCore(r)
        BY DEF LocalPairs
      <4>2. p \in LocalLinks
        BY DEF LocalLinks
      <4> QED
        BY <1>9, <3>3, <4>1, <4>2
    <3>6. label[r][c] # label[r][d]
      BY <1>2, <3>4, <3>5 DEF LocallyLabelled
    <3>7. lab[r][c] = label[r][c] + offset[r] /\ lab[r][d] = label[r][d] + offset[r]
      BY <1>5, <2>1, <3>2
    <3>8. label[r][c] \in Nat /\ label[r][d] \in Nat /\ offset[r] \in Nat
      BY <1>3, <1>6, <2>1, <2>4, <3>1
    <3> QED
      BY <2>4, <3>1, <3>6, <3>7, <3>8
  <2> QED
    BY <2>3, <2>4
<1>10. Names(lab, LocalLinks)
  BY <1>6, <1>7, <1>9 DEF Names
<1> QED
  BY <1>1, <1>4, <1>10

LEMMA LocalLinksIs ==
    ASSUME NEW p \in LocalLinks
    PROVE  p[1] \in core /\ p[2] \in core
BY DEF LocalLinks, LocalPairs, LocalCore

-------------------------------------------------------------------------------
(***************************************************************************)
(* Labels united across the cuts.                                          *)
(***************************************************************************)
OffsetDone ==
    /\ core \subseteq Domain
    /\ Bounded(label, Cardinality(core)) /\ Names(label, LocalLinks) /\ Shown(label)

LEMMA IssuedIs ==
    ASSUME OffsetDone
    PROVE  /\ \A l : l \in Issued <=> \E c \in core : l = Label(c)
           /\ IsFiniteSet(Issued) /\ Cardinality(Issued) \in Nat
           /\ Cardinality(Issued) <= Cardinality(core)
           /\ Cardinality(core) \in Nat
           /\ Issued \subseteq Nat
<1>1. core \subseteq Domain /\ Names(label, LocalLinks)
  BY DEF OffsetDone
<1>2. \A c \in Domain : /\ Owner(c) \in Rank /\ c \in Owned(Owner(c))
                        /\ c \in Held(Owner(c))
                        /\ \A r \in Rank : c \in Owned(r) => Owner(c) = r
  BY OwnerIs, OwnedIs
<1>3. \A c \in Domain : Label(c) # 0 <=> c \in core
  BY <1>1 DEF Names, Label
<1>4. \A l : l \in Issued <=> \E c \in core : l = Label(c)
  <2> TAKE l
  <2>1. ASSUME l \in Issued PROVE \E c \in core : l = Label(c)
    <3>1. PICK r \in Rank : l \in OwnLabels(r)
      BY <2>1 DEF Issued
    <3>2. PICK c \in Owned(r) : l = label[r][c] /\ l # 0
      BY <3>1 DEF OwnLabels
    <3>3. c \in Domain
      BY OwnedIs
    <3>4. Owner(c) = r
      BY <1>2, <3>3
    <3> QED
      BY <1>3, <3>2, <3>3, <3>4 DEF Label
  <2>2. ASSUME NEW c \in core, l = Label(c) PROVE l \in Issued
    <3>1. c \in Domain
      BY <1>1
    <3>2. l # 0
      BY <1>3, <2>2, <3>1
    <3>3. l \in OwnLabels(Owner(c))
      BY <1>2, <2>2, <3>1, <3>2 DEF OwnLabels, Label
    <3> QED
      BY <1>2, <3>1, <3>3 DEF Issued
  <2> QED
    BY <2>1, <2>2
<1>5. PICK f : f = [c \in core |-> Label(c)]
  OBVIOUS
<1>6. Issued = {f[c] : c \in core}
  BY <1>4, <1>5
<1>7. IsFiniteSet(core) /\ Cardinality(core) \in Nat
  BY <1>1, DomainFinite, FS_Subset, FS_CardinalityType
<1>8. IsFiniteSet(Issued) /\ Cardinality(Issued) <= Cardinality(core)
  BY <1>6, <1>7, ImageFinite
<1>9. \A c \in core : Label(c) \in Nat
  <2> TAKE c \in core
  <2>1. Owner(c) \in Rank /\ c \in Held(Owner(c))
    BY <1>1, <1>2
  <2>2. label[Owner(c)] \in [Held(Owner(c)) -> 0 .. Cardinality(core)]
    BY <2>1 DEF OffsetDone, Bounded
  <2>3. Label(c) \in 0 .. Cardinality(core)
    BY <2>1, <2>2 DEF Label
  <2> QED
    BY <1>7, <2>3
<1>10. Issued \subseteq Nat
  BY <1>4, <1>9
<1> QED
  BY <1>4, <1>7, <1>8, <1>10, FS_CardinalityType

LEMMA PairsIs ==
    ASSUME OffsetDone
    PROVE  /\ \A p \in UnequalPairs : \E c, d \in core :
                <<c, d>> \in Links /\ p[1] = Label(c) /\ p[2] = Label(d)
           /\ UnequalPairs \subseteq Issued \X Issued
           /\ \A p \in Links \ LocalLinks :
                <<Label(p[1]), Label(p[2])>> \in Pairs
           /\ \A p \in Links : p[1] \in core /\ p[2] \in core
           /\ LocalLinks \subseteq Links
<1>1. core \subseteq Domain /\ Names(label, LocalLinks) /\ Shown(label)
  BY DEF OffsetDone
<1>2. \A c \in Domain : Label(c) # 0 <=> c \in core
  BY <1>1 DEF Names, Label
<1>3. ASSUME NEW r \in Rank, NEW x \in Compared(r), NEW c, NEW d,
             c = x[1], d = Shifted(x[1], x[2], -stm)
      PROVE  /\ label[r][c] = Label(c) /\ label[r][d] = Label(d)
             /\ c \in Domain /\ d \in Domain
  <2>1. /\ c \in Owned(r) /\ d \in Held(r) /\ d \in Domain
        /\ OneCut(r, d)
    BY <1>3, ComparedIs DEF OneCut
  <2>2. c \in Domain /\ Owner(c) = r
    BY <2>1, OwnedIs, OwnerIs
  <2>3. label[r][d] = label[Owner(d)][d]
    BY <1>1, <2>1 DEF Shown
  <2> QED
    BY <2>1, <2>2, <2>3 DEF Label
<1> DEFINE Across(r) == {<<x[1], Shifted(x[1], x[2], -stm)>> : x \in Compared(r)} \cap (core \X core)
<1>4. Links = LocalLinks \cup (UNION {Across(r) : r \in Rank})
  BY DEF Links, LocalLinks, LocalPairs
<1>5. ASSUME NEW p \in UnequalPairs
      PROVE  \E c, d \in core : <<c, d>> \in Links /\ p[1] = Label(c) /\ p[2] = Label(d)
  <2>1. p \in Pairs /\ p[1] # 0 /\ p[2] # 0
    BY DEF UnequalPairs
  <2>2. PICK r \in Rank :
          p \in {<<label[r][x[1]], label[r][Shifted(x[1], x[2], -stm)]>> : x \in Compared(r)}
    BY <2>1 DEF Pairs
  <2>3. PICK x \in Compared(r) : p = <<label[r][x[1]], label[r][Shifted(x[1], x[2], -stm)]>>
    BY <2>2
  <2>4. PICK c, d : c = x[1] /\ d = Shifted(x[1], x[2], -stm)
    OBVIOUS
  <2>5. p[1] = Label(c) /\ p[2] = Label(d) /\ c \in Domain /\ d \in Domain
    BY <1>3, <2>3, <2>4
  <2>6. c \in core /\ d \in core
    BY <1>2, <2>1, <2>5
  <2>7. <<c, d>> \in Across(r)
    BY <2>4, <2>6
  <2> QED
    BY <1>4, <2>5, <2>6, <2>7
<1>6. UnequalPairs \subseteq Issued \X Issued
  <2> SUFFICES ASSUME NEW p \in UnequalPairs PROVE p \in Issued \X Issued
    OBVIOUS
  <2>1. p[1] \in Issued /\ p[2] \in Issued
    BY <1>5, IssuedIs
  <2>2. p = <<p[1], p[2]>>
    BY DEF UnequalPairs, Pairs
  <2> QED
    BY <2>1, <2>2
<1>7. ASSUME NEW p \in Links \ LocalLinks
      PROVE  <<Label(p[1]), Label(p[2])>> \in Pairs
  <2>1. PICK r \in Rank : p \in Across(r)
    BY <1>4
  <2>2. PICK x \in Compared(r) : p = <<x[1], Shifted(x[1], x[2], -stm)>>
    BY <2>1
  <2>3. p[1] = x[1] /\ p[2] = Shifted(x[1], x[2], -stm)
    BY <2>2
  <2>4. label[r][p[1]] = Label(p[1]) /\ label[r][p[2]] = Label(p[2])
    BY <1>3, <2>3
  <2> QED
    BY <2>3, <2>4 DEF Pairs
<1>8. \A p \in Links : p[1] \in core /\ p[2] \in core
  <2> TAKE p \in Links
  <2>1. CASE p \in LocalLinks
    BY <2>1, LocalLinksIs
  <2>2. CASE p \notin LocalLinks
    BY <1>4, <2>2
  <2> QED
    BY <2>1, <2>2
<1> QED
  BY <1>4, <1>5, <1>6, <1>7, <1>8

LEMMA NumberIs ==
    ASSUME NEW root \in [Issued -> Issued], IsFiniteSet(Issued), Issued \subseteq Nat,
           NEW l \in Issued, NEW m \in Issued
    PROVE  /\ Number(root, l) \in 1 .. Cardinality(Issued)
           /\ Number(root, l) = Number(root, m) <=> root[l] = root[m]
<1> DEFINE Same(k) == {i \in Issued : root[i] = root[k]}
           Seen(n) == {root[k] : k \in {i \in Issued : i <= n}}
<1>1. ASSUME NEW k \in Issued
      PROVE  /\ Min(Same(k)) \in Issued /\ root[Min(Same(k))] = root[k]
             /\ \A i \in Issued : root[i] = root[k] => Min(Same(k)) <= i
  <2>1. Same(k) \subseteq Nat /\ Same(k) # {}
    OBVIOUS
  <2>2. \E x \in Same(k) : \A y \in Same(k) : x <= y
    <3> HIDE DEF Same
    <3> QED
      BY <2>1, SmallestExists
  <2>3. PICK x : x = Min(Same(k))
    OBVIOUS
  <2>4. x \in Same(k) /\ \A y \in Same(k) : x <= y
    BY <2>2, <2>3 DEF Min
  <2> QED
    BY <2>3, <2>4
<1>2. \A k \in Issued : Number(root, k) = Cardinality(Seen(Min(Same(k))))
  BY DEF Number
<1>3. ASSUME NEW k \in Issued
      PROVE  Number(root, k) \in 1 .. Cardinality(Issued)
  <2>1. PICK n : n = Min(Same(k))
    OBVIOUS
  <2>2. n \in Issued /\ n \in Nat
    BY <1>1, <2>1
  <2>3. root[n] \in Seen(n) /\ Seen(n) \in SUBSET Issued
    BY <2>2
  <2>4. /\ Cardinality(Seen(n)) \in Nat /\ Cardinality(Issued) \in Nat
        /\ Cardinality(Seen(n)) <= Cardinality(Issued) /\ Cardinality(Seen(n)) > 0
    <3> HIDE DEF Seen
    <3> QED
      BY <2>3, CountLess
  <2> HIDE DEF Seen, Same
  <2> QED
    BY <1>2, <2>1, <2>4
<1>4. ASSUME NEW k \in Issued, NEW j \in Issued, Min(Same(k)) < Min(Same(j))
      PROVE  Number(root, k) < Number(root, j)
  <2>1. PICK a, b : a = Min(Same(k)) /\ b = Min(Same(j))
    OBVIOUS
  <2>2. /\ a \in Issued /\ b \in Issued /\ a < b /\ root[b] = root[j] /\ a \in Nat /\ b \in Nat
        /\ \A i \in Issued : root[i] = root[j] => b <= i
    BY <1>1, <1>4, <2>1
  <2>3. Seen(a) \in SUBSET Seen(b) /\ Seen(b) \in SUBSET Issued
    BY <2>2
  <2>4. root[b] \in Seen(b)
    BY <2>2
  <2>5. root[b] \notin Seen(a)
    <3> SUFFICES ASSUME NEW i \in Issued, i <= a, root[i] = root[b] PROVE FALSE
      OBVIOUS
    <3>1. b <= i /\ i \in Nat
      BY <2>2
    <3> QED
      BY <2>2, <3>1
  <2>6. Cardinality(Seen(a)) < Cardinality(Seen(b))
    <3> HIDE DEF Seen
    <3>1. IsFiniteSet(Seen(b)) /\ Seen(a) # Seen(b)
      BY <2>3, <2>4, <2>5, FS_Subset
    <3> QED
      BY <2>3, <3>1, CountLess
  <2> HIDE DEF Seen, Same
  <2> QED
    BY <1>2, <2>1, <2>6
<1>5. ASSUME root[l] = root[m] PROVE Number(root, l) = Number(root, m)
  <2>1. Same(l) = Same(m)
    BY <1>5
  <2> HIDE DEF Seen, Same
  <2> QED
    BY <1>2, <2>1
<1>6. ASSUME root[l] # root[m] PROVE Number(root, l) # Number(root, m)
  <2>1. PICK a, b : a = Min(Same(l)) /\ b = Min(Same(m))
    OBVIOUS
  <2>2. a \in Nat /\ b \in Nat /\ a # b
    BY <1>1, <1>6, <2>1
  <2>3. a < b \/ b < a
    BY <2>2
  <2>4. Number(root, l) < Number(root, m) \/ Number(root, m) < Number(root, l)
    <3> HIDE DEF Same
    <3> QED
      BY <1>4, <2>1, <2>3
  <2>5. Number(root, l) \in Int /\ Number(root, m) \in Int
    BY <1>3
  <2> QED
    BY <2>4, <2>5
<1> QED
  BY <1>3, <1>5, <1>6

United(root) ==
    [r \in Rank |-> [c \in Held(r) |->
        IF c \in Owned(r) /\ label[r][c] # 0
        THEN Raised(Number(root, label[r][c])) ELSE label[r][c]]]

LEMMA RootsOfPairs ==
    ASSUME OffsetDone
    PROVE  Good(Issued, UnequalPairs, Roots(Issued, UnequalPairs))
<1>1. UnequalPairs \subseteq Issued \X Issued /\ IsFiniteSet(Issued)
  BY PairsIs, IssuedIs
<1>2. IsFiniteSet(UnequalPairs)
  BY <1>1, FS_Product, FS_Subset
<1>3. \A q \in UnequalPairs : q[1] \in Issued /\ q[2] \in Issued
  BY <1>1
<1> QED
  BY <1>2, <1>3, RootsGood

LEMMA UnitedIs ==
    ASSUME OffsetDone, NEW root, root = Roots(Issued, UnequalPairs)
    PROVE  /\ Bounded(United(root), last_label_in_lower_layer + Cardinality(core))
           /\ Names(United(root), Links)
           /\ Cardinality({root[l] : l \in Issued}) \in 0 .. Cardinality(core)
<1>1. PICK lab, M, low : /\ lab = United(root) /\ M = Cardinality(core)
                         /\ low = last_label_in_lower_layer
  OBVIOUS
<1>2. /\ core \subseteq Domain /\ Bounded(label, M) /\ Names(label, LocalLinks)
      /\ low \in Nat
  BY <1>1, LowerAssumption DEF OffsetDone
<1>3. Good(Issued, UnequalPairs, root)
  BY RootsOfPairs
<1>4. root \in [Issued -> Issued]
  BY <1>3 DEF Good
<1>5. /\ \A l : l \in Issued <=> \E c \in core : l = Label(c)
      /\ IsFiniteSet(Issued) /\ Cardinality(Issued) \in Nat /\ Cardinality(Issued) <= M
      /\ M \in Nat /\ Issued \subseteq Nat
  BY <1>1, IssuedIs
<1>6. \A l, m \in Issued : /\ Number(root, l) \in 1 .. Cardinality(Issued)
                           /\ Number(root, l) = Number(root, m) <=> root[l] = root[m]
  BY <1>4, <1>5, NumberIs
<1>7. \A c \in Domain : /\ Owner(c) \in Rank /\ c \in Owned(Owner(c)) /\ c \in Held(Owner(c))
                        /\ \A r \in Rank : c \in Owned(r) => Owner(c) = r
  BY OwnerIs, OwnedIs
<1>8. ASSUME NEW c \in Domain
      PROVE  lab[Owner(c)][c] = IF c \in core THEN Number(root, Label(c)) + low ELSE 0
  <2>1. Label(c) # 0 <=> c \in core
    BY <1>2 DEF Names, Label
  <2>2. lab[Owner(c)][c] = IF Label(c) # 0 THEN Raised(Number(root, Label(c))) ELSE Label(c)
    BY <1>1, <1>7 DEF United, Label
  <2> QED
    BY <1>1, <2>1, <2>2 DEF Raised
<1>9. Bounded(lab, low + M)
  <2>1. ASSUME NEW r \in Rank, NEW c \in Held(r)
        PROVE  lab[r][c] \in 0 .. low + M
    <3>1. label[r] \in [Held(r) -> 0 .. M]
      BY <1>2 DEF Bounded
    <3>2. CASE c \in Owned(r) /\ label[r][c] # 0
      <4>1. lab[r][c] = Number(root, label[r][c]) + low
        BY <1>1, <3>2 DEF United, Raised
      <4>2. label[r][c] \in Issued
        BY <3>2 DEF Issued, OwnLabels
      <4>3. Number(root, label[r][c]) \in 1 .. Cardinality(Issued)
        BY <1>6, <4>2
      <4>4. PICK n, k : n = Number(root, label[r][c]) /\ k = Cardinality(Issued)
        OBVIOUS
      <4>5. n + low \in 0 .. low + M
        BY <1>2, <1>5, <4>3, <4>4
      <4> QED
        BY <4>1, <4>4, <4>5
    <3>3. CASE ~(c \in Owned(r) /\ label[r][c] # 0)
      <4>1. lab[r][c] = label[r][c]
        BY <1>1, <3>3 DEF United
      <4>2. label[r][c] \in 0 .. M
        BY <3>1
      <4> QED
        BY <1>2, <1>5, <4>1, <4>2
    <3> QED
      BY <3>2, <3>3
  <2> QED
    BY <1>1, <2>1 DEF Bounded, United
<1>10. ASSUME NEW c \in core, NEW d \in core
       PROVE  /\ lab[Owner(c)][c] = lab[Owner(d)][d] <=> root[Label(c)] = root[Label(d)]
              /\ lab[Owner(c)][c] # 0
  <2>1. Label(c) \in Issued /\ Label(d) \in Issued /\ c \in Domain /\ d \in Domain
    BY <1>2, <1>5
  <2>2. PICK n, m : n = Number(root, Label(c)) /\ m = Number(root, Label(d))
    OBVIOUS
  <2>3. n \in 1 .. Cardinality(Issued) /\ m \in 1 .. Cardinality(Issued)
        /\ (n = m <=> root[Label(c)] = root[Label(d)])
    BY <1>6, <2>1, <2>2
  <2>4. lab[Owner(c)][c] = n + low /\ lab[Owner(d)][d] = m + low
    BY <1>8, <2>1, <2>2
  <2>5. n \in Nat /\ m \in Nat /\ n # 0
    BY <1>5, <2>3
  <2> QED
    BY <1>2, <2>3, <2>4, <2>5
<1>11. \A c \in Domain : lab[Owner(c)][c] # 0 <=> c \in core
  BY <1>8, <1>10
<1>12. ASSUME NEW p \in Links
       PROVE  lab[Owner(p[1])][p[1]] = lab[Owner(p[2])][p[2]]
  <2>1. p[1] \in core /\ p[2] \in core
    BY PairsIs
  <2>2. root[Label(p[1])] = root[Label(p[2])]
    <3>1. CASE p \in LocalLinks
      BY <1>2, <3>1 DEF Names, Label
    <3>2. CASE p \notin LocalLinks
      <4>1. PICK u : u = <<Label(p[1]), Label(p[2])>>
        OBVIOUS
      <4>2. u \in Pairs /\ u[1] = Label(p[1]) /\ u[2] = Label(p[2])
        BY <3>2, <4>1, PairsIs
      <4>3. u[1] # 0 /\ u[2] # 0
        BY <1>2, <2>1, <4>2 DEF Names, Label
      <4>4. CASE u[1] = u[2]
        BY <4>2, <4>4
      <4>5. CASE u[1] # u[2]
        <5>1. u \in UnequalPairs
          BY <4>2, <4>3, <4>5 DEF UnequalPairs
        <5>2. root[u[1]] = root[u[2]]
          BY <1>3, <5>1 DEF Good
        <5> QED
          BY <4>2, <5>2
      <4> QED
        BY <4>4, <4>5
    <3> QED
      BY <3>1, <3>2
  <2> QED
    BY <1>10, <2>1, <2>2
<1>13. ASSUME NEW T \in SUBSET core, \A p \in Links : p[1] \in T <=> p[2] \in T,
              NEW c \in T, NEW d \in core \ T
       PROVE  lab[Owner(c)][c] # lab[Owner(d)][d]
  <2>1. PICK L : L = {Label(t) : t \in T}
    OBVIOUS
  <2>2. L \in SUBSET Issued
    BY <1>5, <2>1
  <2>3. \A p \in LocalLinks : p[1] \in T <=> p[2] \in T
    BY <1>13, PairsIs
  <2>4. \A t \in T, u \in core \ T : Label(t) # Label(u)
    BY <1>2, <2>3 DEF Names, Label
  <2>5. \A t \in core : Label(t) \in L <=> t \in T
    BY <2>1, <2>4
  <2>6. ASSUME NEW p \in UnequalPairs PROVE p[1] \in L <=> p[2] \in L
    <3>1. PICK s, t \in core : <<s, t>> \in Links /\ p[1] = Label(s) /\ p[2] = Label(t)
      BY PairsIs
    <3>2. s \in T <=> t \in T
      BY <1>13, <3>1
    <3> QED
      BY <2>5, <3>1, <3>2
  <2>7. \A k \in Issued : root[k] \in L <=> k \in L
    BY <1>3, <2>2, <2>6 DEF Good
  <2>8. Label(c) \in Issued /\ Label(d) \in Issued /\ Label(c) \in L /\ Label(d) \notin L
    BY <1>5, <2>5
  <2>9. root[Label(c)] # root[Label(d)]
    BY <2>7, <2>8
  <2> QED
    BY <1>10, <2>9
<1>14. Names(lab, Links)
  BY <1>11, <1>12, <1>13 DEF Names
<1>15. Cardinality({root[l] : l \in Issued}) \in 0 .. M
  <2>1. PICK I : I = {root[l] : l \in Issued}
    OBVIOUS
  <2>2. I \in SUBSET Issued
    BY <1>4, <2>1
  <2>3. Cardinality(I) \in Nat /\ Cardinality(I) <= Cardinality(Issued)
    BY <1>5, <2>2, CountLess
  <2> QED
    BY <1>5, <2>1, <2>3
<1> QED
  BY <1>1, <1>9, <1>14, <1>15

-------------------------------------------------------------------------------
(***************************************************************************)
(* Labels of the cells next to a bubble.                                   *)
(***************************************************************************)
\* The domain is cut along one axis at most.
Row == \E b \in Axis : \A a \in Axis : a # b => Ranks[a] = 1

LEMMA RowOneCut ==
    ASSUME Row, NEW r \in Rank, NEW c \in Domain
    PROVE  OneCut(r, c)
<1>1. PICK b \in Axis : \A a \in Axis : a # b => Ranks[a] = 1
  BY DEF Row
<1>2. ASSUME NEW a \in Axis, a # b
      PROVE  Beside(r, c, a)
  <2>1. Ranks[a] = 1
    BY <1>1, <1>2
  <2>2. PICK e, p : e = Extent[a] /\ p = Place(r)[a]
    OBVIOUS
  <2>3. e \in Nat /\ p = 0
    <3>1. Extent[a] \in Nat
      BY Sizes
    <3>2. Place(r)[a] \in 0 .. 1 - 1
      BY <2>1, PlaceInRanks
    <3> QED
      BY <2>2, <3>1, <3>2
  <2>4. Low(r, a) = 0 /\ High(r, a) = e
    BY <2>2, <2>3 DEF Low, High
  <2>5. c[a] \in 0 .. 1 * e - 1
    BY <2>1, <2>2, DomainIs
  <2> QED
    BY <2>3, <2>4, <2>5 DEF Beside
<1> QED
  BY <1>1, <1>2 DEF OneCut

PeripheryOf(lab) ==
    \A c \in Domain \ core : lab[Owner(c)][c] # 0 =>
        \E d \in Around(c) \cap core : lab[Owner(c)][c] = lab[Owner(d)][d]

LEMMA ExpandedIs ==
    ASSUME core \subseteq Domain, NEW lim \in Nat, Bounded(label, lim),
           NEW r \in Rank, NEW c \in Held(r)
    PROVE  /\ Expanded(r, c) \in 0 .. lim
           /\ label[r][c] # 0 => Expanded(r, c) = label[r][c]
           /\ label[r][c] = 0 /\ Expanded(r, c) # 0 =>
                \E d \in Around(c) \cap core : d \in Held(r) /\ Expanded(r, c) = label[r][d]
<1>1. \A d \in Held(r) : label[r][d] \in 0 .. lim
  BY DEF Bounded
<1>2. CASE label[r][c] # 0 \/ Candidates(r, c) = {}
  BY <1>1, <1>2 DEF Expanded
<1>3. CASE ~(label[r][c] # 0 \/ Candidates(r, c) = {})
  <2>1. PICK D : D = Candidates(r, c)
    OBVIOUS
  <2>2. D \subseteq Around(c) \cap Held(r) \cap core /\ D # {}
    BY <1>3, <2>1 DEF Candidates
  <2>3. \E d \in D : \A e \in D : ~Before(e, d)
    <3>1. D \subseteq Domain
      BY <2>2
    <3> QED
      BY <2>2, <3>1, FirstExists
  <2>4. PICK d : d = CHOOSE x \in D : \A e \in D : ~Before(e, x)
    OBVIOUS
  <2>5. d \in D
    BY <2>3, <2>4
  <2>6. Expanded(r, c) = label[r][d]
    BY <1>3, <2>1, <2>4 DEF Expanded
  <2> QED
    BY <1>1, <1>3, <2>2, <2>5, <2>6
<1> QED
  BY <1>2, <1>3

LEMMA ExpandIs ==
    ASSUME core \subseteq Domain, NEW lim \in Nat, Bounded(label, lim),
           Names(label, Links), Shown(label), Expand
    PROVE  /\ Bounded(label', lim)
           /\ \A c \in core : label'[Owner(c)][c] # 0
           /\ Row => PeripheryOf(label')
<1>1. PICK lab : lab = [r \in Rank |-> [c \in Held(r) |->
                    IF c \in Owned(r) THEN Expanded(r, c) ELSE label[r][c]]]
  OBVIOUS
<1>2. label' = Synced(lab)
  BY <1>1 DEF Expand
<1>3. \A r \in Rank : \A c \in Held(r) : label[r][c] \in 0 .. lim
  BY DEF Bounded
<1>4. ASSUME NEW q \in Rank PROVE lab[q] \in [Held(q) -> 0 .. lim]
  <2>1. \A c \in Held(q) : Expanded(q, c) \in 0 .. lim
    BY ExpandedIs
  <2>2. lab[q] = [c \in Held(q) |-> IF c \in Owned(q) THEN Expanded(q, c) ELSE label[q][c]]
    BY <1>1
  <2>3. \A c \in Held(q) : lab[q][c] \in 0 .. lim
    BY <1>3, <2>1, <2>2
  <2> QED
    BY <2>2, <2>3
<1>5. PICK V : V = 0 .. lim
  OBVIOUS
<1>6. \A q \in Rank : lab[q] \in [Held(q) -> V]
  BY <1>4, <1>5
<1>7. ASSUME NEW r \in Rank
      PROVE  /\ label'[r] \in [Held(r) -> V]
             /\ \A c \in Owned(r) : label'[r][c] = lab[r][c]
  <2>1. /\ Synced(lab)[r] \in [Held(r) -> V]
        /\ \A c \in Owned(r) : Synced(lab)[r][c] = lab[r][c]
        /\ \A c \in Held(r), b \in Axis :
             (\A a \in Axis : a # b => Beside(r, c, a)) =>
                 Synced(lab)[r][c] = lab[Owner(c)][c]
    BY <1>6, SyncedIs
  <2> QED
    BY <1>2, <2>1
<1>8. Bounded(label', lim)
  BY <1>5, <1>7 DEF Bounded
<1>9. ASSUME NEW c \in Domain
      PROVE  /\ Owner(c) \in Rank /\ c \in Held(Owner(c))
             /\ label'[Owner(c)][c] = Expanded(Owner(c), c)
  <2>1. Owner(c) \in Rank /\ c \in Owned(Owner(c)) /\ c \in Held(Owner(c))
    BY OwnerIs, OwnedIs
  <2>2. label'[Owner(c)][c] = lab[Owner(c)][c]
    BY <1>7, <2>1
  <2>3. lab[Owner(c)][c] = Expanded(Owner(c), c)
    BY <1>1, <2>1
  <2> QED
    BY <2>1, <2>2, <2>3
<1>10. ASSUME NEW c \in core
       PROVE  label'[Owner(c)][c] = label[Owner(c)][c] /\ label[Owner(c)][c] # 0
  <2>1. c \in Domain
    OBVIOUS
  <2>2. label[Owner(c)][c] # 0
    BY <2>1 DEF Names
  <2> QED
    BY <1>9, <2>1, <2>2, ExpandedIs
<1>11. ASSUME Row, NEW c \in Domain \ core, label'[Owner(c)][c] # 0
       PROVE  \E d \in Around(c) \cap core : label'[Owner(c)][c] = label'[Owner(d)][d]
  <2>1. PICK r : r = Owner(c)
    OBVIOUS
  <2>2. r \in Rank /\ c \in Held(r) /\ label'[r][c] = Expanded(r, c)
    BY <1>9, <2>1
  <2>3. label[r][c] = 0
    BY <2>1 DEF Names
  <2>4. PICK d \in Around(c) \cap core : d \in Held(r) /\ Expanded(r, c) = label[r][d]
    BY <1>11, <2>1, <2>2, <2>3, ExpandedIs
  <2>5. OneCut(r, d)
    BY <1>11, <2>2, <2>4, RowOneCut
  <2>6. label[r][d] = label[Owner(d)][d]
    BY <2>2, <2>4, <2>5 DEF Shown
  <2>7. label'[Owner(d)][d] = label[Owner(d)][d]
    BY <1>10, <2>4
  <2> QED
    BY <2>1, <2>2, <2>4, <2>6, <2>7
<1>12. Row => PeripheryOf(label')
  BY <1>11 DEF PeripheryOf
<1> QED
  BY <1>8, <1>10, <1>12

-------------------------------------------------------------------------------
(***************************************************************************)
(* Volumes and boxes.                                                      *)
(***************************************************************************)
Width(a) == Extent[a] + 2 * stm

LEMMA LocalIndexIs ==
    ASSUME NEW r \in Rank, NEW c \in Owned(r), NEW a \in Axis
    PROVE  /\ LocalIndex(r, c)[a] = c[a] - Low(r, a) + stm
           /\ LocalIndex(r, c)[a] \in 0 .. Width(a) - 1
           /\ c[a] \in Int /\ Low(r, a) \in Int /\ Width(a) \in Nat /\ Width(a) # 0
<1>1. PICK l, e, w : l = Low(r, a) /\ e = Extent[a] /\ w = Width(a)
  OBVIOUS
<1>2. l \in Nat /\ e \in Nat \ {0} /\ High(r, a) = l + e /\ stm \in Nat /\ w = e + 2 * stm
  BY <1>1, LowIs, Sizes, HaloAssumption DEF High, Width
<1>3. c[a] \in l .. l + e - 1
  BY <1>1, <1>2, OwnedIs DEF Beside
<1>4. LocalIndex(r, c)[a] = c[a] - l + stm
  BY <1>1, Zenon DEF LocalIndex, Low
<1>5. c[a] - l + stm \in 0 .. w - 1
  BY <1>2, <1>3
<1> QED
  BY <1>1, <1>2, <1>3, <1>4, <1>5

\* The box of a bubble has every index within the margin of one of its cells.
InBox(box, r, c) ==
    \A a \in Axis : \A i \in 0 .. Width(a) - 1 :
        i - LocalIndex(r, c)[a] \in -margin .. margin => i \in box[a]

LEMMA BoxIs ==
    ASSUME NEW c \in Domain, NEW l, l = Label(c)
    PROVE  InBox(Box(l), Owner(c), c)
<1> SUFFICES ASSUME NEW a \in Axis, NEW i \in 0 .. Width(a) - 1,
                    i - LocalIndex(Owner(c), c)[a] \in -margin .. margin
             PROVE  i \in Box(l)[a]
  BY DEF InBox
<1>1. PICK V, w, j : V = Indices(l, a) /\ w = Width(a) /\ j = LocalIndex(Owner(c), c)[a]
  OBVIOUS
<1>2. \A d \in Domain : Owner(d) \in Rank /\ d \in Owned(Owner(d))
  BY OwnerIs
<1>3. w \in Nat /\ w # 0
  BY <1>1, <1>2, LocalIndexIs
<1>4. V \in SUBSET (0 .. w - 1)
  <2>1. \A d \in Labelled(l) : LocalIndex(Owner(d), d)[a] \in 0 .. w - 1
    BY <1>1, <1>2, LocalIndexIs DEF Labelled
  <2> QED
    BY <1>1, <2>1 DEF Indices
<1>5. j \in V
  BY <1>1 DEF Indices, Labelled, Label
<1>6. PICK lo, hi : lo = Min(V) /\ hi = Max(V)
  OBVIOUS
<1>7. lo \in V /\ \A x \in V : lo <= x
  <2>1. \E v \in V : \A x \in V : v <= x
    <3>1. V \subseteq Nat /\ V # {}
      BY <1>3, <1>4, <1>5
    <3> QED
      BY <3>1, SmallestExists
  <2> QED
    BY <1>6, <2>1 DEF Min
<1>8. hi \in V /\ \A x \in V : hi >= x
  <2>1. \E v \in V : \A x \in V : v >= x
    <3>1. PICK B : B = w - 1
      OBVIOUS
    <3>2. B \in Nat /\ V \in SUBSET (0 .. B) /\ V # {}
      BY <1>3, <1>4, <1>5, <3>1
    <3> QED
      BY <3>2, LargestExists
  <2> QED
    BY <1>6, <2>1 DEF Max
<1>9. lo <= j /\ j <= hi /\ lo \in Int /\ hi \in Int /\ j \in Int
  BY <1>3, <1>4, <1>5, <1>7, <1>8
<1>10. Box(l)[a] = ((lo - margin) .. (hi + margin)) \cap (0 .. w - 1)
  <2>1. Box(l)[a] = Widened(Min(Indices(l, a)), Max(Indices(l, a)), a)
    BY DEF Box
  <2>2. Box(l)[a] = Widened(lo, hi, a)
    BY <1>1, <1>6, <2>1, Zenon
  <2>3. Widened(lo, hi, a) = ((lo - margin) .. (hi + margin)) \cap (0 .. w - 1)
    <3>1. Extent[a] + 2 * stm - 1 = w - 1
      BY <1>1, Sizes, HaloAssumption DEF Width
    <3> QED
      BY <3>1, Zenon DEF Widened
  <2> QED
    BY <2>2, <2>3
<1>11. i \in 0 .. w - 1 /\ i - j \in -2 .. 2
  BY <1>1 DEF margin
<1>12. i \in ((lo - 2) .. (hi + 2)) \cap (0 .. w - 1)
  BY <1>3, <1>9, <1>11
<1> QED
  BY <1>10, <1>12 DEF margin

\* What APT() knows of the bubbles once they are measured.
Measured ==
    /\ \E N \in Nat : DOMAIN meta = 1 .. N
    /\ \A c \in Domain :
          /\ Label(c) # 0 => Label(c) \in DOMAIN meta
          /\ Label(c) # 0 => InBox(meta[Label(c)].box, Owner(c), c)

LEMMA RemapIs ==
    ASSUME NEW kept, IsFiniteSet(kept), kept \subseteq Nat, NEW l \in kept, NEW m \in kept
    PROVE  LET place(n) == Cardinality({k \in kept : k <= n})
           IN  /\ place(l) \in 1 .. Cardinality(kept)
               /\ place(l) = place(m) => l = m
<1> DEFINE Upto(n) == {k \in kept : k <= n}
<1>1. ASSUME NEW n \in kept
      PROVE  Cardinality(Upto(n)) \in 1 .. Cardinality(kept) /\ IsFiniteSet(Upto(n))
  <2>1. n \in Upto(n) /\ Upto(n) \in SUBSET kept
    OBVIOUS
  <2> HIDE DEF Upto
  <2>2. /\ Cardinality(Upto(n)) \in Nat /\ Cardinality(kept) \in Nat
        /\ Cardinality(Upto(n)) <= Cardinality(kept) /\ Cardinality(Upto(n)) > 0
        /\ IsFiniteSet(Upto(n))
    BY <2>1, CountLess
  <2> QED
    BY <2>2
<1>2. ASSUME NEW n \in kept, NEW o \in kept, n < o
      PROVE  Cardinality(Upto(n)) < Cardinality(Upto(o))
  <2>1. Upto(n) \in SUBSET Upto(o) /\ o \in Upto(o) /\ o \notin Upto(n)
    <3>1. n \in Nat /\ o \in Nat /\ \A k \in kept : k \in Nat
      OBVIOUS
    <3>2. o <= o /\ ~(o <= n) /\ \A k \in kept : k <= n => k <= o
      BY <1>2, <3>1
    <3> QED
      BY <3>2
  <2>2. Upto(n) # Upto(o) /\ IsFiniteSet(Upto(o))
    BY <1>1, <2>1
  <2> HIDE DEF Upto
  <2> QED
    BY <2>1, <2>2, CountLess
<1>3. ASSUME Cardinality(Upto(l)) = Cardinality(Upto(m)) PROVE l = m
  <2>1. Cardinality(Upto(l)) \in Int /\ Cardinality(Upto(m)) \in Int
    BY <1>1
  <2>2. ~(l < m) /\ ~(m < l)
    BY <1>2, <1>3, <2>1
  <2>3. l \in Nat /\ m \in Nat
    OBVIOUS
  <2> QED
    BY <2>2, <2>3
<1> QED
  BY <1>1, <1>3

LEMMA MeasureIs ==
    ASSUME core \subseteq Domain, NEW lim \in Nat, Bounded(label, lim), Measure,
           \A c \in core : Label(c) # 0
    PROVE  /\ Bounded(label', lim)
           /\ \A c \in core : label'[Owner(c)][c] # 0
           /\ Measured'
           /\ PeripheryOf(label) => PeripheryOf(label')
<1>1. PICK kept : kept = Kept
  OBVIOUS
<1> DEFINE remap(l) == IF l \in kept THEN Cardinality({k \in kept : k <= l}) ELSE 0
           back(n) == CHOOSE l \in kept : remap(l) = n
<1>2. /\ meta' = [n \in 1 .. Cardinality(kept) |-> [volume |-> Volume(back(n)), box |-> Box(back(n))]]
      /\ label' = [r \in Rank |-> [c \in Held(r) |-> remap(label[r][c])]]
  BY <1>1 DEF Measure
<1>3. \A c \in Domain : /\ Owner(c) \in Rank /\ c \in Held(Owner(c)) /\ c \in Owned(Owner(c))
                        /\ label[Owner(c)][c] \in 0 .. lim
  BY OwnerIs, OwnedIs DEF Bounded
<1>4. kept \subseteq 1 .. lim
  <2>1. ASSUME NEW k \in kept PROVE k \in 1 .. lim
    <3>1. PICK c \in Domain : k = label[Owner(c)][c] /\ k # 0
      BY <1>1 DEF Kept
    <3> QED
      BY <1>3, <3>1
  <2> QED
    BY <2>1
<1>5. IsFiniteSet(kept) /\ Cardinality(kept) \in Nat /\ Cardinality(kept) <= lim /\ kept \subseteq Nat
  <2>1. IsFiniteSet(1 .. lim) /\ Cardinality(1 .. lim) <= lim /\ Cardinality(1 .. lim) \in Nat
    <3>1. IsFiniteSet(1 .. lim) /\ Cardinality(1 .. lim) = IF 1 > lim THEN 0 ELSE lim - 1 + 1
      BY FS_Interval
    <3> QED
      BY <3>1
  <2>2. /\ IsFiniteSet(kept) /\ Cardinality(kept) \in Nat
        /\ Cardinality(kept) <= Cardinality(1 .. lim)
    BY <1>4, <2>1, CountLess
  <2> QED
    BY <1>4, <2>1, <2>2
<1>6. PICK N : N = Cardinality(kept)
  OBVIOUS
<1>7. ASSUME NEW l \in kept
      PROVE  remap(l) \in 1 .. N /\ \A m \in kept : remap(m) = remap(l) => m = l
  BY <1>5, <1>6, RemapIs
<1>8. \A l : l \notin kept => remap(l) = 0
  OBVIOUS
<1>9. ASSUME NEW l \in kept PROVE back(remap(l)) = l
  <2>1. PICK n : n = remap(l)
    OBVIOUS
  <2>2. back(n) \in kept /\ remap(back(n)) = n
    <3> HIDE DEF remap
    <3> QED
      BY <2>1
  <2> HIDE DEF remap, back
  <2> QED
    BY <1>7, <2>1, <2>2
<1> HIDE DEF remap, back
<1>10. ASSUME NEW c \in Domain
       PROVE  /\ label'[Owner(c)][c] = remap(Label(c))
              /\ Label(c) # 0 <=> Label(c) \in kept
              /\ label'[Owner(c)][c] # 0 <=> Label(c) # 0
              /\ Label(c) # 0 => back(label'[Owner(c)][c]) = Label(c)
              /\ label'[Owner(c)][c] # 0 => label'[Owner(c)][c] \in 1 .. N
  <2>1. label'[Owner(c)][c] = remap(Label(c))
    BY <1>2, <1>3 DEF Label
  <2>2. Label(c) # 0 <=> Label(c) \in kept
    BY <1>1, <1>4 DEF Kept, Label
  <2>3. CASE Label(c) \in kept
    <3>1. remap(Label(c)) \in 1 .. N /\ back(remap(Label(c))) = Label(c)
      BY <1>7, <1>9, <2>3
    <3> QED
      BY <1>5, <1>6, <2>1, <2>2, <2>3, <3>1
  <2>4. CASE Label(c) \notin kept
    BY <1>8, <2>1, <2>2, <2>4
  <2> QED
    BY <2>3, <2>4
<1>11. Bounded(label', lim)
  <2>1. ASSUME NEW r \in Rank, NEW c \in Held(r) PROVE remap(label[r][c]) \in 0 .. lim
    <3>1. CASE label[r][c] \in kept
      <4>1. remap(label[r][c]) \in 1 .. N
        BY <1>7, <3>1
      <4> QED
        BY <1>5, <1>6, <4>1
    <3>2. CASE label[r][c] \notin kept
      BY <1>8, <3>2
    <3> QED
      BY <3>1, <3>2
  <2>2. ASSUME NEW r \in Rank PROVE label'[r] \in [Held(r) -> 0 .. lim]
    <3>1. label'[r] = [c \in Held(r) |-> remap(label[r][c])]
      BY <1>2
    <3> QED
      BY <2>1, <3>1
  <2> QED
    BY <2>2 DEF Bounded
<1>12. Measured'
  <2>1. DOMAIN meta' = 1 .. N /\ N \in Nat
    BY <1>2, <1>5, <1>6
  <2>2. ASSUME NEW c \in Domain, label'[Owner(c)][c] # 0
        PROVE  /\ label'[Owner(c)][c] \in 1 .. N
               /\ InBox(meta'[label'[Owner(c)][c]].box, Owner(c), c)
    <3>1. PICK n : n = label'[Owner(c)][c]
      OBVIOUS
    <3>2. n \in 1 .. N /\ back(n) = Label(c)
      BY <1>10, <2>2, <3>1
    <3>3. meta'[n] = [volume |-> Volume(back(n)), box |-> Box(back(n))]
      BY <1>2, <1>6, <3>2
    <3>4. meta'[n].box = Box(Label(c))
      BY <3>2, <3>3
    <3>5. InBox(Box(Label(c)), Owner(c), c)
      BY BoxIs
    <3> QED
      BY <3>1, <3>2, <3>4, <3>5
  <2> QED
    BY <2>1, <2>2 DEF Measured, Label
<1>13. ASSUME NEW c \in core PROVE label'[Owner(c)][c] # 0
  BY <1>10
<1>14. ASSUME PeripheryOf(label), NEW c \in Domain \ core, label'[Owner(c)][c] # 0
       PROVE  \E d \in Around(c) \cap core : label'[Owner(c)][c] = label'[Owner(d)][d]
  <2>1. Label(c) # 0
    BY <1>10, <1>14
  <2>2. PICK d \in Around(c) \cap core : Label(c) = Label(d)
    BY <1>14, <2>1 DEF PeripheryOf, Label
  <2>3. d \in Domain
    OBVIOUS
  <2> QED
    BY <1>10, <2>2, <2>3
<1> QED
  BY <1>11, <1>12, <1>13, <1>14 DEF PeripheryOf

-------------------------------------------------------------------------------
(***************************************************************************)
(* Contacts and colours.                                                   *)
(***************************************************************************)
FoundIn(con) ==
    /\ con \subseteq Candidate
    /\ \A r \in Rank : \A c, d \in Coloured(r) :
          label[r][c] < label[r][d] /\ InContact(c, d) => <<label[r][c], label[r][d]>> \in con

LEMMA InContactSym ==
    ASSUME NEW c \in Triple, NEW d \in Triple, InContact(c, d)
    PROVE  InContact(d, c)
<1>1. PICK x, y, z, u, v, w : /\ x = c[1] /\ y = c[2] /\ z = c[3]
                              /\ u = d[1] /\ v = d[2] /\ w = d[3]
  OBVIOUS
<1>2. x \in Int /\ y \in Int /\ z \in Int /\ u \in Int /\ v \in Int /\ w \in Int
  BY <1>1 DEF Triple
<1>3. (x - u) * (x - u) + (y - v) * (y - v) + (z - w) * (z - w) <= thresh * thresh
  BY <1>1, Zenon DEF InContact, Near
<1>4. /\ (u - x) * (u - x) = (x - u) * (x - u)
      /\ (v - y) * (v - y) = (y - v) * (y - v)
      /\ (w - z) * (w - z) = (z - w) * (z - w)
  BY <1>2
<1>5. (u - x) * (u - x) + (v - y) * (v - y) + (w - z) * (w - z) <= thresh * thresh
  BY <1>3, <1>4, Zenon
<1>6. Near(d, c)
  BY <1>1, <1>5, Zenon DEF Near
<1>7. \A a \in Axis : c[a] \in Int /\ d[a] \in Int /\ c[a] - d[a] \in -2 .. 2
  BY DEF InContact, margin, Triple, Axis
<1>8. \A a \in Axis : d[a] - c[a] \in -2 .. 2
  BY <1>7
<1> QED
  BY <1>6, <1>8 DEF InContact, margin

LEMMA DetectIs ==
    ASSUME core \subseteq Domain, NEW lim, Bounded(label, lim), Measured,
           NEW con, con = {p \in Candidate : \E r \in Rank : Detected(r, p[1], p[2])}
    PROVE  FoundIn(con)
<1> SUFFICES ASSUME NEW r \in Rank, NEW c \in Coloured(r), NEW d \in Coloured(r),
                    label[r][c] < label[r][d], InContact(c, d)
             PROVE  <<label[r][c], label[r][d]>> \in con
  BY DEF FoundIn
<1>1. PICK i, j : i = label[r][c] /\ j = label[r][d]
  OBVIOUS
<1>2. ASSUME NEW e \in Coloured(r)
      PROVE  /\ e \in Domain /\ Owner(e) = r /\ e \in Owned(r) /\ e \in DOMAIN label[r]
             /\ label[r][e] \in DOMAIN meta /\ ~Small(label[r][e])
             /\ InBox(meta[label[r][e]].box, r, e)
             /\ e \in Triple
  <2>1. e \in Domain /\ Owner(e) = r /\ label[r][e] # 0 /\ ~Small(label[r][e])
    BY DEF Coloured
  <2>2. e \in Owned(r) /\ e \in Held(r) /\ e \in Triple
    BY <2>1, OwnerIs, OwnedIs, DomainIs
  <2>3. DOMAIN label[r] = Held(r)
    BY DEF Bounded
  <2>4. label[r][e] \in DOMAIN meta /\ InBox(meta[label[r][e]].box, r, e)
    BY <2>1 DEF Measured, Label
  <2> QED
    BY <2>1, <2>2, <2>3, <2>4
<1>3. ASSUME NEW e \in Owned(r), NEW f \in Owned(r), NEW box, InBox(box, r, f),
             \A a \in Axis : e[a] - f[a] \in -2 .. 2
      PROVE  Inside(r, e, box)
  <2>1. ASSUME NEW a \in Axis PROVE LocalIndex(r, e)[a] \in box[a]
    <3>1. PICK l, p, q : l = Low(r, a) /\ p = LocalIndex(r, e)[a] /\ q = LocalIndex(r, f)[a]
      OBVIOUS
    <3>2. /\ p = e[a] - l + stm /\ q = f[a] - l + stm
          /\ p \in 0 .. Width(a) - 1 /\ e[a] \in Int /\ f[a] \in Int /\ l \in Int /\ stm \in Int
      BY <3>1, LocalIndexIs, HaloAssumption
    <3>3. p - q \in -2 .. 2
      BY <1>3, <3>2
    <3> QED
      BY <1>3, <3>1, <3>2, <3>3 DEF InBox, margin
  <2> QED
    BY <2>1 DEF Inside
<1>4. InContact(d, c)
  BY <1>2, InContactSym
<1>5. /\ \A a \in Axis : c[a] - d[a] \in -2 .. 2
      /\ \A a \in Axis : d[a] - c[a] \in -2 .. 2
      /\ \A e \in Triple : \A a \in Axis : e[a] - e[a] \in -2 .. 2
  <2>1. ASSUME NEW e \in Triple, NEW a \in Axis PROVE e[a] - e[a] \in -2 .. 2
    <3>1. e[a] \in Int
      BY DEF Triple, Axis
    <3> QED
      BY <3>1
  <2> QED
    BY <1>4, <2>1 DEF InContact, margin
<1>6. PICK bi, bj : bi = meta[i].box /\ bj = meta[j].box
  OBVIOUS
<1>7. /\ c \in Owned(r) /\ d \in Owned(r) /\ InBox(bi, r, c) /\ InBox(bj, r, d)
      /\ c \in Triple /\ d \in Triple
  BY <1>1, <1>2, <1>6
<1>8. Inside(r, c, bi) /\ Inside(r, c, bj) /\ Inside(r, d, bi) /\ Inside(r, d, bj)
  BY <1>3, <1>5, <1>7
<1>9. c \in CellsOf(r, i, {bi, bj}) /\ d \in CellsOf(r, j, {bi, bj})
  BY <1>1, <1>2, <1>8 DEF CellsOf
<1>10. Detected(r, i, j)
  <2>1. Near(c, d)
    BY DEF InContact
  <2> QED
    BY <1>6, <1>9, <2>1 DEF Detected
<1>11. <<i, j>> \in Candidate
  BY <1>1, <1>2 DEF Candidate
<1> QED
  BY <1>1, <1>10, <1>11

\* The colour of l, when f gives those of the labels below.
Shade(l, f) ==
    IF Small(l) THEN NumberOfLayer - 1
    ELSE Min((0 .. l) \ {f[j] : j \in {i \in 1 .. l - 1 : <<i, l>> \in contacts}})

Shades(f, N, n) ==
    /\ f = [l \in 1 .. N |-> f[l]]
    /\ \A l \in 1 .. N : l <= n => f[l] = Shade(l, f)

LEMMA ShadesExists ==
    ASSUME NEW N \in Nat, NEW n \in Nat
    PROVE  \E f : Shades(f, N, n)
<1>1. PICK Bad : Bad = {m \in Nat : ~\E f : Shades(f, N, m)}
  OBVIOUS
<1>2. SUFFICES ASSUME Bad # {} PROVE FALSE
  BY <1>1
<1>3. PICK v \in Bad : \A w \in Bad : v <= w
  BY <1>1, <1>2, SmallestExists
<1>4. v \in Nat /\ ~\E f : Shades(f, N, v)
  BY <1>1
<1>5. CASE v = 0
  <2>1. PICK f : f = [l \in 1 .. N |-> 0]
    OBVIOUS
  <2>2. \A l \in 1 .. N : ~(l <= 0)
    OBVIOUS
  <2>3. f = [l \in 1 .. N |-> f[l]]
    BY <2>1
  <2>4. Shades(f, N, v)
    BY <1>5, <2>2, <2>3 DEF Shades
  <2> QED
    BY <1>4, <2>4
<1>6. CASE v # 0
  <2>1. v - 1 \in Nat /\ v - 1 \notin Bad
    BY <1>3, <1>4, <1>6
  <2>2. PICK f : Shades(f, N, v - 1)
    BY <1>1, <2>1
  <2>3. PICK g : g = [l \in 1 .. N |-> IF l = v THEN Shade(l, f) ELSE f[l]]
    OBVIOUS
  <2>4. ASSUME NEW l \in 1 .. N, l <= v
        PROVE  g[l] = Shade(l, g)
    <3>1. \A j \in {i \in 1 .. l - 1 : <<i, l>> \in contacts} : g[j] = f[j]
      <4>1. ASSUME NEW j \in 1 .. l - 1 PROVE j \in 1 .. N /\ j # v
        BY <1>4, <2>4
      <4> QED
        BY <2>3, <4>1
    <3>2. {g[j] : j \in {i \in 1 .. l - 1 : <<i, l>> \in contacts}}
            = {f[j] : j \in {i \in 1 .. l - 1 : <<i, l>> \in contacts}}
      BY <3>1
    <3>3. Shade(l, g) = Shade(l, f)
      BY <3>2, Zenon DEF Shade
    <3>4. CASE l = v
      BY <2>3, <3>3, <3>4
    <3>5. CASE l # v
      <4>1. l <= v - 1
        BY <1>4, <2>4, <3>5
      <4>2. f[l] = Shade(l, f)
        BY <2>2, <4>1 DEF Shades
      <4> QED
        BY <2>3, <3>3, <3>5, <4>2
    <3> QED
      BY <3>4, <3>5
  <2>5. g = [l \in 1 .. N |-> g[l]]
    BY <2>3
  <2>6. Shades(g, N, v)
    BY <2>4, <2>5 DEF Shades
  <2> QED
    BY <1>4, <2>6
<1> QED
  BY <1>5, <1>6

\* Among the colours up to l one is left over.
LEMMA ShadeIs ==
    ASSUME NEW l \in Nat \ {0}, NEW f
    PROVE  /\ Shade(l, f) \in Nat
           /\ ~Small(l) => \A j \in 1 .. l - 1 : <<j, l>> \in contacts => Shade(l, f) # f[j]
<1>1. CASE Small(l)
  BY <1>1, LayerAssumption DEF Shade
<1>2. CASE ~Small(l)
  <2>1. PICK J, X : /\ J = {i \in 1 .. l - 1 : <<i, l>> \in contacts}
                    /\ X = {f[j] : j \in J}
    OBVIOUS
  <2>2. IsFiniteSet(X) /\ Cardinality(X) \in Nat /\ Cardinality(X) <= l - 1
    <3>1. IsFiniteSet(1 .. l - 1) /\ Cardinality(1 .. l - 1) = IF 1 > l - 1 THEN 0 ELSE (l - 1) - 1 + 1
      BY FS_Interval
    <3>2. Cardinality(1 .. l - 1) = l - 1
      BY <3>1
    <3>3. J \in SUBSET (1 .. l - 1)
      BY <2>1
    <3>4. IsFiniteSet(J) /\ Cardinality(J) <= l - 1 /\ Cardinality(J) \in Nat
      BY <3>1, <3>2, <3>3, CountLess
    <3>5. IsFiniteSet(X) /\ Cardinality(X) <= Cardinality(J)
      BY <2>1, <3>4, ImageFinite
    <3>6. Cardinality(X) \in Nat
      BY <3>5, FS_CardinalityType
    <3> QED
      BY <3>4, <3>5, <3>6
  <2>3. PICK R : R = (0 .. l) \ X
    OBVIOUS
  <2>4. R # {}
    <3> SUFFICES ASSUME R = {} PROVE FALSE
      OBVIOUS
    <3>1. (0 .. l) \in SUBSET X
      BY <2>3
    <3>2. Cardinality(0 .. l) <= Cardinality(X)
      BY <2>2, <3>1, CountLess
    <3>3. Cardinality(0 .. l) = IF 0 > l THEN 0 ELSE l - 0 + 1
      BY FS_Interval
    <3> QED
      BY <2>2, <3>2, <3>3
  <2>5. \E v \in R : \A w \in R : v <= w
    <3>1. R \subseteq Nat
      BY <2>3
    <3> QED
      BY <2>4, <3>1, SmallestExists
  <2>6. PICK m : m = Min(R)
    OBVIOUS
  <2>7. m \in R
    BY <2>5, <2>6 DEF Min
  <2>8. Shade(l, f) = m
    BY <1>2, <2>1, <2>3, <2>6, Zenon DEF Shade
  <2>9. m \in Nat /\ m \notin X
    BY <2>3, <2>7
  <2> QED
    BY <2>1, <2>8, <2>9
<1> QED
  BY <1>1, <1>2

ShadedApart(map) ==
    /\ \A l \in DOMAIN meta : map[l] \in Nat
    /\ DOMAIN map = DOMAIN meta
    /\ \A p \in contacts : map[p[1]] # map[p[2]]

LEMMA ColourIs ==
    ASSUME Measured, contacts \subseteq Candidate, Colour
    PROVE  ShadedApart(layer_map')
<1>1. PICK N \in Nat : DOMAIN meta = 1 .. N
  BY DEF Measured
<1>2. PICK F : F = CHOOSE f : f = [l \in DOMAIN meta |-> Shade(l, f)]
  OBVIOUS
<1>3. \E f : f = [l \in DOMAIN meta |-> Shade(l, f)]
  <2>1. PICK f : Shades(f, N, N)
    BY ShadesExists
  <2>2. f = [l \in 1 .. N |-> f[l]] /\ \A l \in 1 .. N : f[l] = Shade(l, f)
    BY <2>1 DEF Shades
  <2>3. f = [l \in 1 .. N |-> Shade(l, f)]
    BY <2>2
  <2> QED
    BY <1>1, <2>3
<1>4. F = [l \in DOMAIN meta |-> Shade(l, F)]
  BY <1>2, <1>3
<1>5. layer_map' = [l \in DOMAIN meta |-> F[l]]
  BY <1>2 DEF Colour, Shade
<1>6. \A l \in DOMAIN meta : layer_map'[l] = Shade(l, F) /\ F[l] = Shade(l, F)
  BY <1>4, <1>5
<1>7. \A l \in DOMAIN meta : l \in Nat \ {0}
  BY <1>1
<1>8. \A l \in DOMAIN meta : layer_map'[l] \in Nat
  BY <1>6, <1>7, ShadeIs
<1>9. ASSUME NEW p \in contacts PROVE layer_map'[p[1]] # layer_map'[p[2]]
  <2>1. PICK i, j : i = p[1] /\ j = p[2]
    OBVIOUS
  <2>2. /\ i \in DOMAIN meta /\ j \in DOMAIN meta /\ i < j /\ ~Small(j) /\ p = <<i, j>>
    BY <2>1 DEF Candidate
  <2>3. i \in 1 .. j - 1
    BY <1>7, <2>2
  <2>4. Shade(j, F) # F[i]
    BY <1>7, <2>2, <2>3, ShadeIs
  <2> QED
    BY <1>6, <2>1, <2>2, <2>4
<1>10. DOMAIN layer_map' = DOMAIN meta
  BY <1>5
<1> QED
  BY <1>8, <1>9, <1>10 DEF ShadedApart

-------------------------------------------------------------------------------
(***************************************************************************)
(* The invariant: what each phase has achieved.                            *)
(***************************************************************************)
Limit == last_label_in_lower_layer + Cardinality(core)

LabelInv ==
    /\ core \subseteq Domain
    /\ phase \in {"start", "local", "offset", "reconciled", "done"}
    /\ count \in 0 .. Cardinality(core)
    /\ Bounded(label, Limit)
    /\ phase = "local" => AllLocal
    /\ phase = "offset" => OffsetDone
    /\ phase = "reconciled" => Names(label, Links) /\ Shown(label)
    /\ phase = "done" => /\ \A c \in core : Label(c) # 0
                         /\ Row => PeripheryOf(label)

Placed ==
    layer = [c \in Domain |-> LET l == label[Owner(c)][c]
                              IN  IF l = 0 THEN -1 ELSE Clamped(layer_map[l])]

LayerInv ==
    /\ apt \in {"none", "measured", "detected", "coloured", "layered"}
    /\ apt # "none" => phase = "done" /\ Measured
    /\ apt \in {"detected", "coloured", "layered"} => FoundIn(contacts)
    /\ apt \in {"coloured", "layered"} => ShadedApart(layer_map)
    /\ apt = "layered" => Placed

BubbleInv == LabelInv /\ LayerInv

LEMMA CoreFinite ==
    ASSUME core \subseteq Domain
    PROVE  IsFiniteSet(core) /\ Cardinality(core) \in Nat /\ Limit \in Nat
           /\ Cardinality(core) <= Limit
<1>1. IsFiniteSet(core) /\ Cardinality(core) \in Nat
  BY DomainFinite, FS_Subset, FS_CardinalityType
<1> QED
  BY <1>1, LowerAssumption DEF Limit

LEMMA BoundedWider ==
    ASSUME NEW lab, NEW m \in Nat, NEW n \in Nat, m <= n, Bounded(lab, m)
    PROVE  Bounded(lab, n)
<1>1. 0 .. m \subseteq 0 .. n
  OBVIOUS
<1> QED
  BY <1>1 DEF Bounded

LEMMA Started ==
    ASSUME LayersInit
    PROVE  BubbleInv
<1>1. core \subseteq Domain
  BY CoreAssumption DEF LayersInit, Init
<1>2. Cardinality(core) \in Nat /\ Limit \in Nat
  BY <1>1, CoreFinite
<1>3. Bounded(label, Limit)
  <2>1. \A r \in Rank : label[r] = [c \in Held(r) |-> 0]
    BY DEF LayersInit, Init
  <2>2. 0 \in 0 .. Limit
    BY <1>2
  <2> QED
    BY <2>1, <2>2 DEF Bounded
<1>4. count \in 0 .. Cardinality(core) /\ phase = "start" /\ apt = "none"
  BY <1>2 DEF LayersInit, Init
<1>5. LabelInv
  BY <1>1, <1>3, <1>4 DEF LabelInv
<1>6. LayerInv
  BY <1>4 DEF LayerInv
<1> QED
  BY <1>5, <1>6 DEF BubbleInv

\* A property of the bubble cells is kept by a step that leaves them alone.
LEMMA SameCore ==
    ASSUME core' = core
    PROVE  /\ Limit' = Limit /\ Links' = Links /\ LocalLinks' = LocalLinks
           /\ \A r \in Rank : LocalCore(r)' = LocalCore(r) /\ LocalPairs(r)' = LocalPairs(r)
<1>1. \A r \in Rank : LocalCore(r)' = LocalCore(r)
  BY DEF LocalCore
<1>2. \A r \in Rank : LocalPairs(r)' = LocalPairs(r)
  BY <1>1 DEF LocalPairs
<1>3. Limit' = Limit
  BY DEF Limit
<1>4. LocalLinks' = LocalLinks
  BY <1>2 DEF LocalLinks
<1>5. Links' = Links
  BY DEF Links, LocalCore
<1> QED
  BY <1>1, <1>2, <1>3, <1>4, <1>5

LEMMA LabelLocallyKeeps ==
    ASSUME LabelInv, LabelLocally
    PROVE  LabelInv'
<1>1. core' = core /\ count' = count /\ phase' = "local" /\ core \subseteq Domain
  BY DEF LabelInv, LabelLocally
<1>2. \A r \in Rank : label'[r] = LocalLabel(r)
  BY DEF LabelLocally
<1>3. \A r \in Rank : LocallyLabelled(r, label'[r])
  BY <1>1, <1>2, LocalLabelIs
<1>4. AllLocal'
  <2>1. \A r \in Rank : LocallyLabelled(r, label[r])'
    <3> TAKE r \in Rank
    <3>1. LocallyLabelled(r, label'[r]) /\ LocalCore(r)' = LocalCore(r)
          /\ LocalPairs(r)' = LocalPairs(r)
      BY <1>1, <1>3, SameCore
    <3> QED
      BY <3>1 DEF LocallyLabelled
  <2> QED
    BY <1>1, <2>1 DEF AllLocal
<1>5. Cardinality(core) \in Nat /\ Limit \in Nat /\ Cardinality(core) <= Limit /\ IsFiniteSet(core)
  BY <1>1, CoreFinite
<1>6. ASSUME NEW r \in Rank PROVE label'[r] \in [Held(r) -> 0 .. Limit]
  <2>1. LocalCore(r) \in SUBSET core
    BY DEF LocalCore
  <2>2. PICK k : k = Cardinality(LocalCore(r))
    OBVIOUS
  <2>3. k \in Nat /\ k <= Cardinality(core)
    BY <1>5, <2>1, <2>2, CountLess
  <2>4. label'[r] \in [Held(r) -> 0 .. k]
    BY <1>3, <2>2 DEF LocallyLabelled
  <2>5. 0 .. k \subseteq 0 .. Limit
    BY <1>5, <2>3
  <2> QED
    BY <2>4, <2>5
<1>7. Bounded(label', Limit')
  BY <1>1, <1>6, SameCore DEF Bounded
<1> QED
  BY <1>1, <1>4, <1>7 DEF LabelInv

LEMMA AddOffsetKeeps ==
    ASSUME LabelInv, AddOffset
    PROVE  LabelInv'
<1>1. core' = core /\ count' = count /\ phase' = "offset" /\ core \subseteq Domain /\ AllLocal
  BY DEF LabelInv, AddOffset
<1>2. label' = Synced(WithOffset)
  BY DEF AddOffset, WithOffset
<1>3. Bounded(WithOffset, Cardinality(core)) /\ Names(WithOffset, LocalLinks)
  BY <1>1, WithOffsetIs
<1>4. \A p \in LocalLinks : p[1] \in Domain /\ p[2] \in Domain
  BY <1>1, LocalLinksIs
<1>5. PICK lim, links, lab : lim = Cardinality(core) /\ links = LocalLinks /\ lab = WithOffset
  OBVIOUS
<1>6. Bounded(Synced(lab), lim) /\ Names(Synced(lab), links) /\ Shown(Synced(lab))
  BY <1>1, <1>3, <1>4, <1>5, SyncedNames
<1>7. Bounded(label', Cardinality(core)) /\ Names(label', LocalLinks) /\ Shown(label')
  BY <1>2, <1>5, <1>6
<1>8. OffsetDone'
  <2>1. LocalLinks' = LocalLinks
    BY <1>1, SameCore
  <2>2. Bounded(label', Cardinality(core'))
    BY <1>1, <1>7
  <2>3. Names(label, LocalLinks)'
    BY <1>1, <1>7, <2>1 DEF Names
  <2> QED
    BY <1>1, <1>7, <2>2, <2>3 DEF OffsetDone, Bounded, Shown
<1>9. Bounded(label', Limit)
  BY <1>1, <1>7, CoreFinite, BoundedWider
<1>10. Bounded(label, Limit)'
  BY <1>1, <1>9, SameCore DEF Bounded
<1> QED
  BY <1>1, <1>8, <1>10 DEF LabelInv

LEMMA ReconcileKeeps ==
    ASSUME LabelInv, Reconcile
    PROVE  LabelInv'
<1>1. core' = core /\ phase' = "reconciled" /\ core \subseteq Domain /\ OffsetDone
  BY DEF LabelInv, Reconcile
<1>2. PICK root : root = Roots(Issued, UnequalPairs)
  OBVIOUS
<1>3. label' = Synced(United(root)) /\ count' = Cardinality({root[l] : l \in Issued})
  BY <1>2 DEF Reconcile, United
<1>4. PICK lim, links, lab : lim = Limit /\ links = Links /\ lab = United(root)
  OBVIOUS
<1>5. /\ Bounded(lab, lim) /\ Names(lab, links)
      /\ Cardinality({root[l] : l \in Issued}) \in 0 .. Cardinality(core)
  BY <1>1, <1>2, <1>4, UnitedIs DEF Limit
<1>6. \A p \in links : p[1] \in Domain /\ p[2] \in Domain
  BY <1>1, <1>4, PairsIs
<1>7. Bounded(label', lim) /\ Names(label', links) /\ Shown(label')
  BY <1>1, <1>3, <1>4, <1>5, <1>6, SyncedNames
<1>8. Names(label, Links)' /\ Shown(label)' /\ Bounded(label, Limit)'
  <2>1. Links' = Links /\ Limit' = Limit
    BY <1>1, SameCore
  <2>2. Names(label, Links)'
    BY <1>1, <1>4, <1>7, <2>1 DEF Names
  <2>3. Shown(label)'
    BY <1>7 DEF Shown
  <2>4. Bounded(label, Limit)'
    BY <1>4, <1>7, <2>1 DEF Bounded
  <2> QED
    BY <2>2, <2>3, <2>4
<1>9. count' \in 0 .. Cardinality(core)'
  BY <1>1, <1>3, <1>5
<1> QED
  BY <1>1, <1>8, <1>9 DEF LabelInv

LEMMA DoneKeeps ==
    ASSUME core' = core, count' = count, phase' = "done", LabelInv,
           Bounded(label', Limit), \A c \in core : label'[Owner(c)][c] # 0,
           Row => PeripheryOf(label')
    PROVE  LabelInv'
<1>1. Bounded(label, Limit)'
  BY SameCore DEF Bounded
<1>2. Row' => PeripheryOf(label)'
  BY DEF PeripheryOf, Row
<1>3. \A c \in core' : Label(c)' # 0
  BY DEF Label
<1>4. core \subseteq Domain /\ count \in 0 .. Cardinality(core)
  BY DEF LabelInv
<1> QED
  BY <1>1, <1>2, <1>3, <1>4 DEF LabelInv

LEMMA ExpandKeeps ==
    ASSUME LabelInv, Expand
    PROVE  LabelInv'
<1>1. /\ core' = core /\ count' = count /\ phase' = "done" /\ core \subseteq Domain
      /\ Bounded(label, Limit) /\ Names(label, Links) /\ Shown(label)
  BY DEF LabelInv, Expand
<1>2. PICK lim \in Nat : lim = Limit
  BY <1>1, CoreFinite
<1>3. /\ Bounded(label', lim)
      /\ \A c \in core : label'[Owner(c)][c] # 0
      /\ Row => PeripheryOf(label')
  BY <1>1, <1>2, ExpandIs
<1> QED
  BY <1>1, <1>2, <1>3, DoneKeeps

LEMMA SameLabels ==
    ASSUME BubbleInv, UNCHANGED vars
    PROVE  LabelInv'
<1>1. core' = core /\ phase' = phase /\ label' = label /\ count' = count /\ LabelInv
  BY DEF vars, BubbleInv
<1>2. Limit' = Limit /\ Links' = Links /\ LocalLinks' = LocalLinks
  BY <1>1, SameCore
<1>3. Bounded(label, Limit) => Bounded(label, Limit)'
  BY <1>1, <1>2 DEF Bounded
<1>4. AllLocal => AllLocal'
  <2> SUFFICES ASSUME AllLocal, NEW r \in Rank PROVE LocallyLabelled(r, label[r])'
    BY <1>1 DEF AllLocal
  <2>1. LocallyLabelled(r, label[r])
    BY DEF AllLocal
  <2>2. LocalCore(r)' = LocalCore(r) /\ LocalPairs(r)' = LocalPairs(r)
    BY <1>1, SameCore
  <2> QED
    BY <1>1, <2>1, <2>2 DEF LocallyLabelled
<1>5. Names(label, Links) => Names(label, Links)'
  BY <1>1, <1>2 DEF Names
<1>6. Names(label, LocalLinks) => Names(label, LocalLinks)'
  BY <1>1, <1>2 DEF Names
<1>7. Shown(label) => Shown(label)'
  BY <1>1 DEF Shown
<1>8. OffsetDone => OffsetDone'
  BY <1>1, <1>6, <1>7 DEF OffsetDone, Bounded
<1>9. (Row => PeripheryOf(label)) => (Row => PeripheryOf(label))'
  BY <1>1 DEF PeripheryOf, Row
<1>10. (\A c \in core : Label(c) # 0) => (\A c \in core : Label(c) # 0)'
  BY <1>1 DEF Label
<1> QED
  BY <1>1, <1>2, <1>3, <1>4, <1>5, <1>7, <1>8, <1>9, <1>10 DEF LabelInv

LEMMA MeasureKeeps ==
    ASSUME BubbleInv, Measure
    PROVE  BubbleInv'
<1>1. /\ core' = core /\ count' = count /\ phase' = "done" /\ core \subseteq Domain
      /\ apt' = "measured" /\ LabelInv
      /\ Bounded(label, Limit) /\ \A c \in core : Label(c) # 0
      /\ Row => PeripheryOf(label)
  BY DEF BubbleInv, LabelInv, Measure
<1>2. PICK lim \in Nat : lim = Limit
  BY <1>1, CoreFinite
<1>3. /\ Bounded(label', lim)
      /\ \A c \in core : label'[Owner(c)][c] # 0
      /\ Measured'
      /\ PeripheryOf(label) => PeripheryOf(label')
  BY <1>1, <1>2, MeasureIs
<1>4. LabelInv'
  BY <1>1, <1>2, <1>3, DoneKeeps
<1>5. LayerInv'
  BY <1>1, <1>3 DEF LayerInv
<1> QED
  BY <1>4, <1>5 DEF BubbleInv

LEMMA SameMeasured ==
    ASSUME BubbleInv, UNCHANGED vars, UNCHANGED meta
    PROVE  /\ Measured => Measured'
           /\ Candidate' = Candidate
           /\ \A con : FoundIn(con) => FoundIn(con)'
<1>1. core' = core /\ phase' = phase /\ label' = label /\ meta' = meta
  BY DEF vars
<1>2. Measured => Measured'
  BY <1>1 DEF Measured, Label, InBox
<1>3. Candidate' = Candidate
  BY <1>1 DEF Candidate, Small
<1>4. \A r \in Rank : Coloured(r)' = Coloured(r)
  BY <1>1 DEF Coloured, Small
<1>5. \A con : FoundIn(con) => FoundIn(con)'
  BY <1>1, <1>3, <1>4 DEF FoundIn
<1> QED
  BY <1>2, <1>3, <1>5

LEMMA DetectKeeps ==
    ASSUME BubbleInv, Detect
    PROVE  BubbleInv'
<1>1. /\ UNCHANGED vars /\ UNCHANGED meta /\ apt' = "detected" /\ phase = "done" /\ Measured
      /\ core \subseteq Domain /\ Bounded(label, Limit) /\ phase' = phase
  BY DEF BubbleInv, LabelInv, LayerInv, Detect, vars
<1>2. LabelInv'
  BY <1>1, SameLabels
<1>3. PICK con, lim : con = {p \in Candidate : \E r \in Rank : Detected(r, p[1], p[2])} /\ lim = Limit
  OBVIOUS
<1>4. FoundIn(con)
  BY <1>1, <1>3, DetectIs
<1>5. contacts' = con
  BY <1>3 DEF Detect
<1>6. FoundIn(contacts)'
  <2>1. FoundIn(con)'
    BY <1>1, <1>4, SameMeasured
  <2> QED
    BY <1>5, <2>1 DEF FoundIn
<1>7. Measured'
  BY <1>1, SameMeasured
<1>8. LayerInv'
  BY <1>1, <1>6, <1>7 DEF LayerInv
<1> QED
  BY <1>2, <1>8 DEF BubbleInv

LEMMA ColourKeeps ==
    ASSUME BubbleInv, Colour
    PROVE  BubbleInv'
<1>1. /\ UNCHANGED vars /\ UNCHANGED meta /\ contacts' = contacts /\ apt' = "coloured"
      /\ phase = "done" /\ Measured /\ FoundIn(contacts) /\ phase' = phase
  BY DEF BubbleInv, LayerInv, Colour, vars
<1>2. LabelInv'
  BY <1>1, SameLabels
<1>3. ShadedApart(layer_map')
  <2>1. contacts \subseteq Candidate
    BY <1>1 DEF FoundIn
  <2> QED
    BY <1>1, <2>1, ColourIs
<1>4. ShadedApart(layer_map)'
  BY <1>1, <1>3 DEF ShadedApart
<1>5. Measured' /\ FoundIn(contacts)'
  <2>1. PICK con : con = contacts
    OBVIOUS
  <2>2. FoundIn(con)'
    BY <1>1, <2>1, SameMeasured
  <2> QED
    BY <1>1, <2>1, <2>2, SameMeasured DEF FoundIn
<1>6. LayerInv'
  BY <1>1, <1>4, <1>5 DEF LayerInv
<1> QED
  BY <1>2, <1>6 DEF BubbleInv

LEMMA RedistributeKeeps ==
    ASSUME BubbleInv, Redistribute
    PROVE  BubbleInv'
<1>1. /\ UNCHANGED vars /\ UNCHANGED meta /\ contacts' = contacts /\ apt' = "layered"
      /\ layer_map' = layer_map /\ label' = label
      /\ phase = "done" /\ Measured /\ FoundIn(contacts) /\ phase' = phase
      /\ ShadedApart(layer_map)
  BY DEF BubbleInv, LayerInv, Redistribute, vars
<1>2. LabelInv'
  BY <1>1, SameLabels
<1>3. ShadedApart(layer_map)'
  BY <1>1 DEF ShadedApart
<1>4. Measured' /\ FoundIn(contacts)'
  <2>1. PICK con : con = contacts
    OBVIOUS
  <2>2. FoundIn(con)'
    BY <1>1, <2>1, SameMeasured
  <2> QED
    BY <1>1, <2>1, <2>2, SameMeasured DEF FoundIn
<1>5. Placed'
  BY <1>1 DEF Placed, Redistribute
<1>6. LayerInv'
  BY <1>1, <1>3, <1>4, <1>5 DEF LayerInv
<1> QED
  BY <1>2, <1>6 DEF BubbleInv

LEMMA StutterKeeps ==
    ASSUME BubbleInv, UNCHANGED <<vars, layers>>
    PROVE  BubbleInv'
<1>1. /\ UNCHANGED vars /\ UNCHANGED meta /\ contacts' = contacts /\ apt' = apt
      /\ layer_map' = layer_map /\ label' = label /\ layer' = layer /\ phase' = phase /\ LayerInv
  BY DEF BubbleInv, layers, vars
<1>2. LabelInv'
  BY <1>1, SameLabels
<1>3. Measured => Measured'
  BY <1>1, SameMeasured
<1>4. FoundIn(contacts) => FoundIn(contacts)'
  <2>1. PICK con : con = contacts
    OBVIOUS
  <2>2. FoundIn(con) => FoundIn(con)'
    BY <1>1, SameMeasured
  <2> QED
    BY <1>1, <2>1, <2>2 DEF FoundIn
<1>5. ShadedApart(layer_map) => ShadedApart(layer_map)'
  BY <1>1 DEF ShadedApart
<1>6. Placed => Placed'
  BY <1>1 DEF Placed
<1>7. LayerInv'
  BY <1>1, <1>3, <1>4, <1>5, <1>6 DEF LayerInv
<1> QED
  BY <1>2, <1>7 DEF BubbleInv

LEMMA BubbleStep ==
    ASSUME BubbleInv, [LayersNext]_<<vars, layers>>
    PROVE  BubbleInv'
<1>1. ASSUME LabelLocally \/ AddOffset \/ Reconcile \/ Expand, UNCHANGED layers
      PROVE  BubbleInv'
  <2>1. LabelInv /\ LayerInv
    BY DEF BubbleInv
  <2>2. LabelInv'
    BY <1>1, <2>1, LabelLocallyKeeps, AddOffsetKeeps, ReconcileKeeps, ExpandKeeps
  <2>3. phase # "done"
    BY <1>1 DEF LabelLocally, AddOffset, Reconcile, Expand
  <2>4. apt = "none" /\ apt' = apt
    BY <1>1, <2>1, <2>3 DEF LayerInv, layers
  <2>5. LayerInv'
    BY <2>4 DEF LayerInv
  <2> QED
    BY <2>2, <2>5 DEF BubbleInv
<1>2. CASE Measure
  BY <1>2, MeasureKeeps
<1>3. CASE Detect
  BY <1>3, DetectKeeps
<1>4. CASE Colour
  BY <1>4, ColourKeeps
<1>5. CASE Redistribute
  BY <1>5, RedistributeKeeps
<1>6. CASE Layered
  BY <1>6, StutterKeeps DEF Layered
<1>7. CASE UNCHANGED <<vars, layers>>
  BY <1>7, StutterKeeps
<1> QED
  BY <1>1, <1>2, <1>3, <1>4, <1>5, <1>6, <1>7 DEF LayersNext

\* In every phase of CCL() and APT() what the phases before have achieved holds.
THEOREM BubblesInvariant == LayersSpec => []BubbleInv
<1>1. LayersInit => BubbleInv
  BY Started
<1>2. BubbleInv /\ [LayersNext]_<<vars, layers>> => BubbleInv'
  BY BubbleStep
<1> QED
  BY <1>1, <1>2, PTL DEF LayersSpec

-------------------------------------------------------------------------------
(***************************************************************************)
(* The theorems.                                                           *)
(***************************************************************************)
\* CCL() and APT(): every label on every rank stays within the number of bubble cells
\* above the labels of the lower layers, and so does the number of bubbles returned.
THEOREM BubblesTyped == LayersSpec => []TypeOK
<1>1. BubbleInv => TypeOK
  BY DEF BubbleInv, LabelInv, TypeOK, Bounded, Limit
<1> QED
  BY <1>1, BubblesInvariant, PTL

\* CCL(): after the labels of the ranks have been united on rank 0, two bubble cells
\* anywhere in the domain have the same label exactly if a chain of links joins them.
THEOREM LabelsUnited == LayersSpec => []UnitedIsClosure
<1>1. BubbleInv => UnitedIsClosure
  <2> SUFFICES ASSUME BubbleInv, phase = "reconciled" PROVE UnitedIsClosure
    BY DEF UnitedIsClosure
  <2>1. Names(label, Links)
    BY DEF BubbleInv, LabelInv
  <2> QED
    BY <2>1 DEF Names, UnitedIsClosure, Label
<1> QED
  BY <1>1, BubblesInvariant, PTL

\* expand_label_peripheral(): when one axis at most is cut, a cell next to a bubble has
\* the label of a bubble cell that it touches, on whichever rank that one is.
THEOREM PeripheryLabelled == Row => (LayersSpec => []PeripheryHasCore)
<1> DEFINE Inv == BubbleInv /\ Row
<1>1. Row /\ LayersSpec => []Inv
  <2>1. Row /\ LayersInit => Inv
    BY Started
  <2>2. Inv /\ [LayersNext]_<<vars, layers>> => Inv'
    BY BubbleStep DEF Row
  <2> QED
    BY <2>1, <2>2, PTL DEF LayersSpec
<1>2. Inv => PeripheryHasCore
  BY DEF BubbleInv, LabelInv, PeripheryHasCore, PeripheryOf, Label
<1> QED
  BY <1>1, <1>2, PTL

LEMMA LayersApart ==
    ASSUME BubbleInv, apt = "layered", Enough, NEW r \in Rank,
           NEW c \in Coloured(r), NEW d \in Coloured(r),
           label[r][c] < label[r][d], InContact(c, d)
    PROVE  layer[c] # layer[d]
<1>1. /\ Measured /\ FoundIn(contacts) /\ ShadedApart(layer_map) /\ Placed
  BY DEF BubbleInv, LayerInv
<1>2. PICK i, j : i = label[r][c] /\ j = label[r][d]
  OBVIOUS
<1>3. <<i, j>> \in contacts
  BY <1>1, <1>2 DEF FoundIn
<1>4. layer_map[i] # layer_map[j]
  <2>1. PICK p \in contacts : p = <<i, j>>
    BY <1>3
  <2>2. layer_map[p[1]] # layer_map[p[2]]
    BY <1>1 DEF ShadedApart
  <2> QED
    BY <2>1, <2>2
<1>5. ASSUME NEW e \in Coloured(r)
      PROVE  layer[e] = layer_map[label[r][e]]
  <2>1. e \in Domain /\ Owner(e) = r /\ label[r][e] # 0
    BY DEF Coloured
  <2>2. label[r][e] \in DOMAIN meta
    BY <1>1, <2>1 DEF Measured, Label
  <2>3. layer_map[label[r][e]] \in Nat /\ layer_map[label[r][e]] < NumberOfLayer
    BY <1>1, <2>2 DEF ShadedApart, Enough
  <2>4. layer[e] = Clamped(layer_map[label[r][e]])
    BY <1>1, <2>1 DEF Placed
  <2>5. Clamped(layer_map[label[r][e]]) = layer_map[label[r][e]]
    BY <2>3, LayerAssumption DEF Clamped
  <2> QED
    BY <2>4, <2>5
<1> QED
  BY <1>2, <1>4, <1>5

\* APT(): no bubble cell is lost, a bubble stays in one layer, and bubbles that come
\* near one another within a subdomain are put into different layers as long as there
\* are enough of them, whatever the decomposition and the shapes of the bubbles.
THEOREM NearBubblesApart == LayersSpec => []BubblesSeparated
<1>1. BubbleInv => BubblesSeparated
  <2> SUFFICES ASSUME BubbleInv, apt = "layered" PROVE BubblesSeparated
    BY DEF BubblesSeparated
  <2>1. /\ Measured /\ ShadedApart(layer_map) /\ Placed /\ core \subseteq Domain
        /\ \A c \in core : Label(c) # 0
    BY DEF BubbleInv, LayerInv, LabelInv
  <2>2. ASSUME NEW c \in core PROVE layer[c] # -1
    <3>1. c \in Domain /\ Label(c) # 0
      BY <2>1
    <3>2. Label(c) \in DOMAIN meta
      BY <2>1, <3>1 DEF Measured
    <3>3. layer_map[Label(c)] \in Nat
      BY <2>1, <3>2 DEF ShadedApart
    <3>4. layer[c] = Clamped(layer_map[Label(c)])
      BY <2>1, <3>1 DEF Placed, Label
    <3>5. Clamped(layer_map[Label(c)]) \in Nat
      BY <3>3, LayerAssumption DEF Clamped
    <3> QED
      BY <3>4, <3>5
  <2>3. \A c, d \in core : Label(c) = Label(d) => layer[c] = layer[d]
    BY <2>1 DEF Placed, Label
  <2>4. ASSUME Enough, NEW r \in Rank, NEW c \in Coloured(r), NEW d \in Coloured(r),
               label[r][c] # label[r][d], InContact(c, d)
        PROVE  layer[c] # layer[d]
    <3>1. /\ c \in Domain /\ d \in Domain /\ Owner(c) = r /\ Owner(d) = r
          /\ label[r][c] # 0 /\ label[r][d] # 0
      BY DEF Coloured
    <3>2. label[r][c] \in Nat /\ label[r][d] \in Nat
      <4>1. PICK N \in Nat : DOMAIN meta = 1 .. N
        BY <2>1 DEF Measured
      <4>2. label[r][c] \in 1 .. N /\ label[r][d] \in 1 .. N
        BY <2>1, <3>1, <4>1 DEF Measured, Label
      <4> QED
        BY <4>1, <4>2
    <3>3. InContact(d, c)
      BY <2>4, <3>1, DomainIs, InContactSym
    <3>4. label[r][c] < label[r][d] \/ label[r][d] < label[r][c]
      BY <2>4, <3>2
    <3> QED
      BY <2>4, <3>3, <3>4, LayersApart
  <2> QED
    BY <2>2, <2>3, <2>4 DEF BubblesSeparated
<1> QED
  BY <1>1, BubblesInvariant, PTL

===============================================================================
