------------------------------ MODULE LabelScan ------------------------------
(***************************************************************************)
(* Connected-component labelling of the bubbles of one rank: CCL_local()   *)
(* of jupiter/multi_layer.c.                                               *)
(*                                                                         *)
(* A first sweep over the cells gives each bubble cell the least label of  *)
(* its neighbours that were swept before it, or a new one, and unites the  *)
(* labels it meets in a union-find structure.  A second sweep replaces     *)
(* every label by the number of its root, counted in the order of sweep.   *)
(*                                                                         *)
(* One step is the body of one of the two loops for one cell.  parent[] is *)
(* represented by what find() returns for each label issued.               *)
(***************************************************************************)
EXTENDS CellOrder

CONSTANTS NX, NY, NZ    \* extents of the region that is scanned

ASSUME ExtentAssumption == NX \in Nat \ {0} /\ NY \in Nat \ {0} /\ NZ \in Nat \ {0}

Cell == (0 .. NX - 1) \X (0 .. NY - 1) \X (0 .. NZ - 1)

Past(c) == {d \in Cell : Precedes(d, c)}

\* The loops: x runs fastest, z slowest.
First == <<0, 0, 0>>
Last  == <<NX - 1, NY - 1, NZ - 1>>
After(c) == IF c[1] + 1 < NX THEN <<c[1] + 1, c[2], c[3]>>
            ELSE IF c[2] + 1 < NY THEN <<0, c[2] + 1, c[3]>>
            ELSE <<0, 0, c[3] + 1>>

VARIABLES
    bubble,       \* cells that are bubble core or orifice
    sweep,        \* "scan", "renumber" or "done"
    at,           \* the cell that is treated next
    label_layer,  \* 0 where there is no label
    issued,       \* next_label - 1
    parent,       \* what find() returns for the labels issued
    number,       \* label_map: the final label of a root, 0 as long as it has none
    numbered      \* current_label - 1

scan_vars == <<bubble, sweep, at, label_layer, issued, parent, number, numbered>>

-------------------------------------------------------------------------------
ScanInit ==
    /\ bubble \in SUBSET Cell
    /\ sweep = "scan" /\ at = First
    /\ label_layer = [c \in Cell |-> 0]
    /\ issued = 0 /\ parent = <<>> /\ number = <<>>
    /\ numbered = 0

\* On to the next cell, or to the next sweep.
Proceed(next) ==
    IF at = Last THEN at' = First /\ sweep' = next
                 ELSE at' = After(at) /\ UNCHANGED sweep

NeighborLabels == {label_layer[d] : d \in Past(at)} \ {0}

ScanOther ==
    /\ sweep = "scan" /\ at \notin bubble
    /\ Proceed("renumber")
    /\ UNCHANGED <<bubble, label_layer, issued, parent, number, numbered>>

\* Mutant: parent[] has no entry for the new label.
ScanNewRootless ==
    /\ sweep = "scan" /\ at \in bubble
    /\ NeighborLabels = {}
    /\ issued' = issued + 1
    /\ label_layer' = [label_layer EXCEPT ![at] = issued + 1]
    /\ number' = [k \in 1 .. issued + 1 |-> 0]
    /\ Proceed("renumber")
    /\ UNCHANGED <<bubble, parent, numbered>>

ScanNew ==
    /\ sweep = "scan" /\ at \in bubble
    /\ NeighborLabels = {}
    /\ issued' = issued + 1
    /\ label_layer' = [label_layer EXCEPT ![at] = issued + 1]
    /\ parent' = [k \in 1 .. issued + 1 |-> IF k = issued + 1 THEN k ELSE parent[k]]
    /\ number' = [k \in 1 .. issued + 1 |-> 0]
    /\ Proceed("renumber")
    /\ UNCHANGED <<bubble, numbered>>

\* Mutant: the labels that meet are not united.
ScanJoinApart ==
    /\ sweep = "scan" /\ at \in bubble
    /\ \E m \in NeighborLabels :
          /\ \A n \in NeighborLabels : m <= n
          /\ label_layer' = [label_layer EXCEPT ![at] = m]
    /\ Proceed("renumber")
    /\ UNCHANGED <<bubble, issued, parent, number, numbered>>

\* unite(neighbor_labels[k], min_label) for all k.
ScanJoin ==
    /\ sweep = "scan" /\ at \in bubble
    /\ \E m \in NeighborLabels :
          /\ \A n \in NeighborLabels : m <= n
          /\ label_layer' = [label_layer EXCEPT ![at] = m]
          /\ parent' = [k \in 1 .. issued |->
                        IF \E n \in NeighborLabels : parent[k] = parent[n] THEN parent[m]
                                                                        ELSE parent[k]]
    /\ Proceed("renumber")
    /\ UNCHANGED <<bubble, issued, number, numbered>>

RenumberOther ==
    /\ sweep = "renumber" /\ label_layer[at] = 0
    /\ Proceed("done")
    /\ UNCHANGED <<bubble, label_layer, issued, parent, number, numbered>>

\* Mutant: the counter is not advanced.
RenumberStuck ==
    /\ sweep = "renumber" /\ label_layer[at] # 0
    /\ number' = [number EXCEPT ![parent[label_layer[at]]] = 1]
    /\ label_layer' = [label_layer EXCEPT ![at] = 1]
    /\ numbered' = 1
    /\ Proceed("done")
    /\ UNCHANGED <<bubble, issued, parent>>

\* Mutant: the root is kept as the label.
RenumberByRoot ==
    /\ sweep = "renumber" /\ label_layer[at] # 0
    /\ LET r == parent[label_layer[at]]
           fresh == number[r] = 0
       IN /\ number' = IF fresh THEN [number EXCEPT ![r] = r] ELSE number
          /\ numbered' = IF fresh THEN numbered + 1 ELSE numbered
          /\ label_layer' = [label_layer EXCEPT ![at] = r]
    /\ Proceed("done")
    /\ UNCHANGED <<bubble, issued, parent>>

Renumber ==
    /\ sweep = "renumber" /\ label_layer[at] # 0
    /\ LET r == parent[label_layer[at]]
           fresh == number[r] = 0
       IN /\ number' = IF fresh THEN [number EXCEPT ![r] = numbered + 1] ELSE number
          /\ numbered' = IF fresh THEN numbered + 1 ELSE numbered
          /\ label_layer' = [label_layer EXCEPT ![at] = IF fresh THEN numbered + 1 ELSE number[r]]
    /\ Proceed("done")
    /\ UNCHANGED <<bubble, issued, parent>>

ScanTerminated == sweep = "done" /\ UNCHANGED scan_vars

ScanNext == ScanOther \/ ScanNew \/ ScanJoin \/ RenumberOther \/ Renumber \/ ScanTerminated

ScanSpec == ScanInit /\ [][ScanNext]_scan_vars

-------------------------------------------------------------------------------
(***************************************************************************)
(* Properties.                                                             *)
(***************************************************************************)

\* Every variable stays in its type; label_map and the union-find structure have
\* an entry for each label issued.
ScanTypeOK ==
    /\ bubble \in SUBSET Cell
    /\ sweep \in {"scan", "renumber", "done"}
    /\ at \in Cell
    /\ label_layer \in [Cell -> Nat]
    /\ issued \in Nat
    /\ parent \in [1 .. issued -> 1 .. issued]
    /\ number \in [1 .. issued -> Nat]
    /\ numbered \in Nat

\* After the sweeps the label says which bubble a cell belongs to: core cells that
\* touch have the same label, however late the sweep has found out.
NeighborsShareLabel ==
    sweep = "done" =>
        \A c \in bubble : \A d \in Past(c) \cap bubble : label_layer[c] = label_layer[d]

\* A set of core cells that no touching pair leaves.
Closed(S) == \A c \in bubble : \A d \in Past(c) \cap bubble : c \in S <=> d \in S

\* And only cells of one bubble do: cells with the same label cannot be separated
\* by a set of cells that no touching pair leaves.
SharingAreConnected ==
    sweep = "done" =>
        \A S \in SUBSET bubble : Closed(S) =>
            \A c, d \in bubble : label_layer[c] = label_layer[d] => (c \in S <=> d \in S)

\* The value returned is the number of bubbles, and the final labels are exactly the
\* numbers from 1 to it: the ranks' offsets are computed from it.
LabelsAreCounted ==
    sweep = "done" => {label_layer[c] : c \in Cell} \ {0} = 1 .. numbered
===============================================================================
