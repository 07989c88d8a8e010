----------------------------- MODULE BubbleLabels -----------------------------
(***************************************************************************)
(* Labels of the bubbles of the whole domain: CCL() of                     *)
(* jupiter/multi_layer.c, with sync_label_halo() and                       *)
(* expand_label_peripheral().                                              *)
(*                                                                         *)
(* Every rank labels its bubbles (LabelScan), rank 0 gives the ranks       *)
(* disjoint numbers, the labels on both sides of a cut are compared and    *)
(* united on rank 0, the labels are renumbered everywhere, and the cells   *)
(* next to a bubble are given its label.  Between these phases the labels  *)
(* in the halo are exchanged.                                              *)
(*                                                                         *)
(* The phases are separated by collectives on rank 0, and HaloExchange     *)
(* shows that what an exchange does to the faces does not depend on how    *)
(* the ranks interleave: a phase is one action of all ranks here.  Cells   *)
(* are named by their place in the domain.  Outside of the domain there is *)
(* no bubble; inside, a cell that is not bubble is liquid, and all bubble  *)
(* cells are equally empty.                                                *)
(***************************************************************************)
EXTENDS Decomposition, CellOrder, FiniteSetsExt

CONSTANTS
    last_label_in_lower_layer,
    Cores                       \* model bound: the sets of bubble cells considered

ASSUME LowerAssumption == last_label_in_lower_layer \in Nat
\* A halo is filled from the next subdomain alone.
ASSUME ThickAssumption == \A a \in Axis : Ranks[a] > 1 => Extent[a] >= stm

Domain == (0 .. npe_x * nx - 1) \X (0 .. npe_y * ny - 1) \X (0 .. npe_z * nz - 1)
Within(r, c, k) ==
    \A a \in Axis : c[a] \in Place(r)[a] * Extent[a] - k .. (Place(r)[a] + 1) * Extent[a] - 1 + k
OwnedBy == [r \in Rank |-> {c \in Domain : Within(r, c, 0)}]
HeldBy  == [r \in Rank |-> {c \in Domain : Within(r, c, stm)}]    \* with the halo
OwnerOf == [c \in Domain |-> CHOOSE r \in Rank : c \in OwnedBy[r]]
Owned(r) == OwnedBy[r]
Held(r)  == HeldBy[r]
Owner(c) == OwnerOf[c]

ASSUME CoreAssumption == Cores \subseteq SUBSET Domain

VARIABLES
    core,       \* bubble cells
    phase,      \* what has been done last
    label,      \* label_layer on each rank, with its halo; 0 is no label
    count       \* the number of bubbles that CCL() returns

vars == <<core, phase, label, count>>

Init ==
    /\ core \in Cores
    /\ phase = "start"
    /\ label = [r \in Rank |-> [c \in Held(r) |-> 0]]
    /\ count = 0

-------------------------------------------------------------------------------
(* Union-find: the root of each element of S after all pairs have been united. *)
\* Mutant: the first label itself is hung up, not its root.
UniteShallow(p, root) == [root EXCEPT ![p[1]] = root[p[2]]]
Unite(p, root) == [k \in DOMAIN root |-> IF root[k] = root[p[1]] THEN root[p[2]] ELSE root[k]]
Roots(S, pairs) == FoldSet(Unite, [k \in S |-> k], pairs)

(* Exchange of the halo.  A cell is taken from the neighbour in x if it is beyond *)
(* the x side, otherwise from the one in y, otherwise from the one in z, and each *)
(* neighbour gives what it had before the exchange, its own halo included.        *)
Beyond(r, c) == {s \in Side : HasNeighbour(r, s) /\
                    IF s[2] = -1 THEN c[s[1]] < Place(r)[s[1]] * Extent[s[1]]
                                 ELSE c[s[1]] >= (Place(r)[s[1]] + 1) * Extent[s[1]]}

FilledFrom ==
    LET side(r, c) == CHOOSE s \in Beyond(r, c) : \A t \in Beyond(r, c) : s[1] <= t[1]
    IN [r \in Rank |-> [c \in Held(r) \ Owned(r) |-> nrk(r, side(r, c))]]
Synced(lab) ==
    [r \in Rank |-> [c \in Held(r) |->
        IF c \in Owned(r) THEN lab[r][c] ELSE lab[FilledFrom[r][c]][c]]]

-------------------------------------------------------------------------------
(* CCL_local() of all ranks. *)
LocalCore(r) == core \cap Owned(r)
LocalRoots(r) ==
    Roots(LocalCore(r), {p \in LocalCore(r) \X LocalCore(r) : Precedes(p[1], p[2])})

\* Labels are numbered in the order in which the scan meets them.
FirstOf(r, root) == {c \in LocalCore(r) : \A d \in LocalCore(r) : root[c] = root[d] => ~Before(d, c)}
LocalLabel(r) ==
    LET root == LocalRoots(r)
        first == FirstOf(r, root)
    IN [c \in Held(r) |->
          IF c \notin LocalCore(r) THEN 0
          ELSE LET f == CHOOSE f \in first : root[f] = root[c]
               IN Cardinality({g \in first : ~Before(f, g)})]

LabelLocally ==
    /\ phase = "start"
    /\ label' = [r \in Rank |-> LocalLabel(r)]
    /\ phase' = "local"
    /\ UNCHANGED <<core, count>>

-------------------------------------------------------------------------------
(* Rank 0 gathers the numbers of labels, and scatters offsets. *)
local_max_label(r) == Max({label[r][c] : c \in Owned(r)})

offset[r \in Rank] == IF r = 0 THEN 0 ELSE offset[r - 1] + local_max_label(r - 1)

AddOffset ==
    /\ phase = "local"
    /\ label' = Synced([r \in Rank |-> [c \in Held(r) |->
                    IF c \in Owned(r) /\ label[r][c] # 0 THEN label[r][c] + offset[r]
                                                         ELSE label[r][c]]])
    /\ phase' = "offset"
    /\ UNCHANGED <<core, count>>

-------------------------------------------------------------------------------
(* Rank 0 unites the labels that meet at the cuts and renumbers them all. *)

\* The stm layers above a cut are compared with the halo cells stm layers below them.
Compared(r) ==
    {x \in Owned(r) \X Axis :
        LET c == x[1]
            a == x[2]
        IN  HasNeighbour(r, <<a, -1>>) /\ c[a] - Place(r)[a] * Extent[a] < stm}
Pairs ==
    UNION {{<<label[r][x[1]], label[r][Shifted(x[1], x[2], -stm)]>> : x \in Compared(r)} : r \in Rank}
UnequalPairs == {p \in Pairs : p[1] # 0 /\ p[2] # 0 /\ p[1] # p[2]}

\* The labels in use: without gaps, as the offsets leave none.
OwnLabels(r) == {label[r][c] : c \in Owned(r)} \ {0}
Issued == UNION {OwnLabels(r) : r \in Rank}

\* label_map: roots are numbered in the order of their least label.
Number(root, l) ==
    LET least == Min({k \in Issued : root[k] = root[l]})
    IN Cardinality({root[k] : k \in {i \in Issued : i <= least}})

\* Mutant: the lower layers are counted twice.
RaisedTwice(n) == n + 2 * last_label_in_lower_layer
Raised(n) == n + last_label_in_lower_layer

\* Mutant: the halo is not exchanged after the renumbering.
ReconcileUnsynced ==
    LET root == Roots(Issued, UnequalPairs)
    IN /\ phase = "offset"
       /\ label' = [r \in Rank |-> [c \in Held(r) |->
                       IF c \in Owned(r) /\ label[r][c] # 0
                       THEN Raised(Number(root, label[r][c])) ELSE label[r][c]]]
       /\ count' = Cardinality({root[l] : l \in Issued})
       /\ phase' = "reconciled"
       /\ UNCHANGED core

Reconcile ==
    LET root == Roots(Issued, UnequalPairs)
    IN /\ phase = "offset"
       /\ label' = Synced([r \in Rank |-> [c \in Held(r) |->
                       IF c \in Owned(r) /\ label[r][c] # 0
                       THEN Raised(Number(root, label[r][c])) ELSE label[r][c]]])
       /\ count' = Cardinality({root[l] : l \in Issued})
       /\ phase' = "reconciled"
       /\ UNCHANGED core

-------------------------------------------------------------------------------
(* The cells next to a bubble get its label: expand_label_peripheral(). *)
Touching == [c \in Domain |-> {d \in Domain : d # c /\ \A a \in Axis : d[a] - c[a] \in -1 .. 1}]
Around(c) == Touching[c]
Candidates(r, c) == {d \in Around(c) \cap Held(r) \cap core : label[r][d] > 0}

Expanded(r, c) ==
    IF label[r][c] # 0 \/ Candidates(r, c) = {} THEN label[r][c]
    ELSE LET d == CHOOSE d \in Candidates(r, c) : \A e \in Candidates(r, c) : ~Before(e, d)
         IN label[r][d]

Expand ==
    /\ phase = "reconciled"
    /\ label' = Synced([r \in Rank |-> [c \in Held(r) |->
                    IF c \in Owned(r) THEN Expanded(r, c) ELSE label[r][c]]])
    /\ phase' = "done"
    /\ UNCHANGED <<core, count>>

Terminated == phase = "done" /\ UNCHANGED vars

Next == LabelLocally \/ AddOffset \/ Reconcile \/ Expand \/ Terminated

Spec == Init /\ [][Next]_vars

-------------------------------------------------------------------------------
(***************************************************************************)
(* Properties.                                                             *)
(***************************************************************************)
Label(c) == label[Owner(c)][c]
Reconciled == phase \in {"reconciled", "done"}

\* Every variable stays in its type; a label never exceeds what the bubble cells can
\* ask for.
TypeOK ==
    /\ core \subseteq Domain
    /\ phase \in {"start", "local", "offset", "reconciled", "done"}
    /\ \A r \in Rank :
          label[r] \in [Held(r) -> 0 .. last_label_in_lower_layer + Cardinality(core)]
    /\ count \in 0 .. Cardinality(core)

\* The pairs of bubble cells that the code takes for one bubble: neighbours on one
\* rank, and cells compared across a cut.
Links ==
    (UNION {{p \in LocalCore(r) \X LocalCore(r) : Precedes(p[1], p[2])} : r \in Rank})
    \cup
    (UNION {{<<x[1], Shifted(x[1], x[2], -stm)>> : x \in Compared(r)} \cap (core \X core) : r \in Rank})

\* After the reconciliation two cells have the same label exactly if they are of one
\* bubble, through any chain of ranks and of numbers united on rank 0: linked cells
\* have the same label, and a set that no link leaves shares none with its rest.
UnitedIsClosure ==
    phase = "reconciled" =>
        LET links == Links
        IN /\ \A p \in links : Label(p[1]) = Label(p[2])
           /\ \A S \in SUBSET core :
                 (\A p \in links : p[1] \in S <=> p[2] \in S) =>
                     \A c \in S, d \in core \ S : Label(c) # Label(d)

\* A cell next to a bubble has the label of a bubble cell that it touches, on whichever
\* rank that cell is.
PeripheryHasCore ==
    phase = "done" => \A c \in Domain \ core :
        Label(c) # 0 => \E d \in Around(c) \cap core : Label(c) = Label(d)

\* A bubble that a cut runs through has one label: cells that touch with their faces
\* have the same label.
TouchingShareLabel ==
    Reconciled => \A c, d \in core :
        (\E a \in Axis : d = Shifted(c, a, 1)) => Label(c) = Label(d)
===============================================================================
