------------------------------- MODULE CellOrder -------------------------------
(***************************************************************************)
(* The order in which the loops of jupiter/multi_layer.c go over the cells *)
(* (x fastest, z slowest), and the neighbours that a cell is compared with *)
(* when bubbles are labelled.                                              *)
(***************************************************************************)
EXTENDS Integers

\* neighbor_offsets: (0, -1, -1) is listed twice, (0, 1, -1) not at all.
Offset == { <<-1,  0,  0>>, << 0, -1,  0>>, << 0,  0, -1>>,
            <<-1, -1,  0>>, << 1, -1,  0>>,
            <<-1,  0, -1>>, << 0, -1, -1>>, << 1,  0, -1>>,
            <<-1, -1, -1>>, << 1, -1, -1>>,
            <<-1,  1, -1>>, << 1,  1, -1>> }

\* d is one of the neighbours that c is compared with.
Precedes(d, c) == <<d[1] - c[1], d[2] - c[2], d[3] - c[3]>> \in Offset

Before(c, d) ==
    \/ c[3] < d[3]
    \/ c[3] = d[3] /\ c[2] < d[2]
    \/ c[3] = d[3] /\ c[2] = d[2] /\ c[1] < d[1]
===============================================================================
