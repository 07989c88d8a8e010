----------------------------- MODULE BubbleLayers -----------------------------
(***************************************************************************)
(* The layers of the bubbles: APT() of jupiter/multi_layer.c, called after *)
(* CCL() (BubbleLabels).                                                   *)
(*                                                                         *)
(* Bubbles that come near one another would be merged by the numerical     *)
(* advection, so they are put into different layers.  Rank 0 learns how    *)
(* large the bubbles are and in which box of indices they lie, every rank  *)
(* looks for contacts in the cells it has, rank 0 colours the graph of the *)
(* contacts, and each rank moves its cells to the layers.                  *)
(*                                                                         *)
(* All bubbles come from one layer, as with multi_layer_less_coalescence;  *)
(* the numbers up to last_label_in_lower_layer are of labels without a     *)
(* cell.  As in BubbleLabels a phase between two collectives is one        *)
(* action; orifices and inlets are left out.                               *)
(***************************************************************************)
EXTENDS BubbleLabels

CONSTANTS
    NumberOfLayer,             \* layers a calculation has
    too_small_bubble_volume    \* smaller bubbles are not coloured

ASSUME LayerAssumption ==
    NumberOfLayer \in Nat \ {0} /\ too_small_bubble_volume \in Nat

VARIABLES
    apt,        \* what APT() has done last
    meta,       \* bubble_meta: volume and box of each label
    contacts,   \* the contact pairs gathered on rank 0
    layer_map,  \* the colour of each label
    layer       \* the layer of a cell, as its owner has it; -1 without bubble

layers == <<apt, meta, contacts, layer_map, layer>>

LayersInit ==
    /\ Init
    /\ apt = "none"
    /\ meta = <<>> /\ contacts = {} /\ layer_map = <<>>
    /\ layer = [c \in Domain |-> -1]

margin == 2    \* k: contact margin, in cells
thresh == 3    \* distance of contact

-------------------------------------------------------------------------------
(* Volumes and boxes are reduced over the ranks.  The boxes are in the local     *)
(* indices of whichever rank has the cells.                                      *)
LocalIndex(r, c) == [a \in Axis |-> c[a] - Place(r)[a] * Extent[a] + stm]

Labelled(l)   == {c \in Domain : label[Owner(c)][c] = l}
Volume(l)     == Cardinality(Labelled(l))
Indices(l, a) == {LocalIndex(Owner(c), c)[a] : c \in Labelled(l)}

\* The margin, within the array with its halo.
Widened(lo, hi, a) == ((lo - margin) .. (hi + margin)) \cap (0 .. Extent[a] + 2 * stm - 1)

Box(l) == [a \in Axis |->
             LET along == Indices(l, a) IN Widened(Min(along), Max(along), a)]
Inside(r, c, box) == \A a \in Axis : LocalIndex(r, c)[a] \in box[a]

\* Labels without an owned cell are compacted away, the others keep their order.
Kept == {label[Owner(c)][c] : c \in Domain} \ {0}

Measure ==
    /\ phase = "done" /\ apt = "none"
    /\ LET kept == Kept
           label_remap(l) == IF l \in kept THEN Cardinality({k \in kept : k <= l}) ELSE 0
           kept_label(n) == CHOOSE l \in kept : label_remap(l) = n
       IN  /\ meta' = [n \in 1 .. Cardinality(kept) |->
                          [volume |-> Volume(kept_label(n)), box |-> Box(kept_label(n))]]
           /\ label' = [r \in Rank |-> [c \in Held(r) |-> label_remap(label[r][c])]]
    /\ apt' = "measured"
    /\ UNCHANGED <<core, phase, count, contacts, layer_map, layer>>

-------------------------------------------------------------------------------
(* detect_bubble_contact(): only cells in both boxes are compared.               *)
Small(l) == meta[l].volume < too_small_bubble_volume

Near(c, d) ==
    LET square(n) == n * n
    IN  square(c[1] - d[1]) + square(c[2] - d[2]) + square(c[3] - d[3]) <= square(thresh)

CellsOf(r, l, boxes) ==
    {c \in DOMAIN label[r] : label[r][c] = l /\ \A b \in boxes : Inside(r, c, b)}

Detected(r, i, j) ==
    LET boxes == {meta[i].box, meta[j].box}
    IN  \E c \in CellsOf(r, i, boxes), d \in CellsOf(r, j, boxes) : Near(c, d)

Candidate == {p \in (DOMAIN meta) \X (DOMAIN meta) :
                p[1] < p[2] /\ ~Small(p[1]) /\ ~Small(p[2])}

Detect ==
    /\ apt = "measured"
    /\ contacts' = {p \in Candidate : \E r \in Rank : Detected(r, p[1], p[2])}
    /\ apt' = "detected"
    /\ UNCHANGED <<vars, meta, layer_map, layer>>

-------------------------------------------------------------------------------
(* Greedy colouring on rank 0, in the order of the labels; the small bubbles     *)
(* are left to the highest layer.                                                *)
\* Mutant: the bubble just before is not looked at.
ColourShort ==
    LET colour[l \in DOMAIN meta] ==
            IF Small(l) THEN NumberOfLayer - 1
            ELSE Min((0 .. l) \ {colour[j] : j \in {i \in 1 .. l - 2 : <<i, l>> \in contacts}})
    IN  /\ apt = "detected"
        /\ layer_map' = [l \in DOMAIN meta |-> colour[l]]
        /\ apt' = "coloured"
        /\ UNCHANGED <<vars, meta, contacts, layer>>

Colour ==
    LET colour[l \in DOMAIN meta] ==
            IF Small(l) THEN NumberOfLayer - 1
            ELSE Min((0 .. l) \ {colour[j] : j \in {i \in 1 .. l - 1 : <<i, l>> \in contacts}})
    IN  /\ apt = "detected"
        /\ layer_map' = [l \in DOMAIN meta |-> colour[l]]
        /\ apt' = "coloured"
        /\ UNCHANGED <<vars, meta, contacts, layer>>

\* Every rank moves its cells; what has no layer is put into the highest one.
Clamped(n) == IF n >= NumberOfLayer THEN NumberOfLayer - 1 ELSE n

Redistribute ==
    /\ apt = "coloured"
    /\ layer' = [c \in Domain |->
                   LET l == label[Owner(c)][c]
                   IN  IF l = 0 THEN -1 ELSE Clamped(layer_map[l])]
    /\ apt' = "layered"
    /\ UNCHANGED <<vars, meta, contacts, layer_map>>

Layered == apt = "layered" /\ UNCHANGED <<vars, layers>>

LayersNext ==
    \/ (LabelLocally \/ AddOffset \/ Reconcile \/ Expand) /\ UNCHANGED layers
    \/ Measure \/ Detect \/ Colour \/ Redistribute \/ Layered

LayersSpec == LayersInit /\ [][LayersNext]_<<vars, layers>>

-------------------------------------------------------------------------------
(***************************************************************************)
(* Properties.                                                             *)
(***************************************************************************)
\* The layers the colouring asked for are there.
Enough == \A l \in DOMAIN layer_map : layer_map[l] < NumberOfLayer

InContact(c, d) == Near(c, d) /\ \A a \in Axis : c[a] - d[a] \in -margin .. margin

Coloured(r) == {c \in Domain : Owner(c) = r /\ label[r][c] # 0 /\ ~Small(label[r][c])}

\* No bubble cell is lost on the way through labels, boxes and colours, a bubble
\* stays in one layer, and bubbles that come within the margin of one another in
\* a subdomain are in different layers if there are enough of them.
BubblesSeparated ==
    apt = "layered" =>
        /\ \A c \in core : layer[c] # -1
        /\ \A c, d \in core : Label(c) = Label(d) => layer[c] = layer[d]
        /\ Enough => \A r \in Rank : \A c, d \in Coloured(r) :
               label[r][c] # label[r][d] /\ InContact(c, d) => layer[c] # layer[d]
===============================================================================
