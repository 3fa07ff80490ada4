------------------------- MODULE MCExplorationStack -------------------------
(* Three containers and a dict: enough to overflow blocks of two twice. *)
EXTENDS ExplorationStack, TLC

CONSTANTS x, y, z, d

Containers == {x, y, z}
Dict       == {d}
NoStubs    == {}
Symm       == Permutations(Containers)
=============================================================================
