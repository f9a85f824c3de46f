--------------------------- MODULE MCMountManager ---------------------------
(* MountManager for TLC: which calls ask for which mount point.            *)
EXTENDS MountManager, TLC

CONSTANTS c1, p1, p2

\* Both calls name the same point, as nothing in create forbids.
SharedPoint == [c \in Creates |-> p1]
\* Every call has a point of its own.
OwnPoint == [c \in Creates |-> IF c = c1 THEN p1 ELSE p2]

Symmetry == Permutations(Keys) \cup Permutations(Unmounts)
=============================================================================
