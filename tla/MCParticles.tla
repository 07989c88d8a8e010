------------------------------ MODULE MCParticles ------------------------------
(* Instances of Particles for TLC. *)
EXTENDS Particles

CONSTANTS r1, r2, r3, p1, p2, p3

Same(root, others) == [r \in Rank |-> IF r = Root THEN root ELSE others]

\* Rank 0 has read the particles, the other ranks have no set at all.
Fresh == { Same(<<Particle>>, <<>>) }

\* Besides the set that was read from a dump, which all the ranks have, rank 0
\* has one for the particles of the input.
Restarted == { Same(<<{p}, Particle \ {p}>>, <<{}>>) : p \in Particle }

EitherStart == Fresh \cup Restarted

\* The allocations before each collective.
Allocations == {"bounds", "buffer", "counts", "new", "types", "gather", "gather_set"}
===============================================================================
