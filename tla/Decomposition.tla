----------------------------- MODULE Decomposition -----------------------------
(***************************************************************************)
(* How the domain is cut into subdomains, one for each rank of CommJUPITER *)
(* (set_mpi_for_rank() of jupiter/communication.c), and the halo of a      *)
(* subdomain.                                                              *)
(***************************************************************************)
EXTENDS Integers, FiniteSets

CONSTANTS
    npe_x, npe_y, npe_z,    \* ranks in each direction
    nx, ny, nz,             \* cells of one rank in each direction
    stm                     \* layers of the halo

ASSUME RankAssumption == npe_x \in Nat \ {0} /\ npe_y \in Nat \ {0} /\ npe_z \in Nat \ {0}
ASSUME CellAssumption == nx \in Nat \ {0} /\ ny \in Nat \ {0} /\ nz \in Nat \ {0}
ASSUME HaloAssumption == stm \in Nat \ {0}

npe_xy == npe_x * npe_y
Rank == 0 .. npe_xy * npe_z - 1

\* rank_x, rank_y and rank_z; axis 1 is x, axis 3 is z.
Axis == 1 .. 3
Place(r) == <<(r % npe_xy) % npe_x, (r % npe_xy) \div npe_x, r \div npe_xy>>
Ranks  == <<npe_x, npe_y, npe_z>>
Stride == <<1, npe_x, npe_xy>>
Extent == <<nx, ny, nz>>

\* A side of a subdomain is an axis and a direction.
Side == Axis \X {-1, 1}
HasNeighbour(r, s) == Place(r)[s[1]] + s[2] \in 0 .. Ranks[s[1]] - 1
nrk(r, s) == r + s[2] * Stride[s[1]]
Neighbours(r, a) == {s \in Side : s[1] = a /\ HasNeighbour(r, s)}

Shifted(c, a, k) == [c EXCEPT ![a] = @ + k]
===============================================================================
