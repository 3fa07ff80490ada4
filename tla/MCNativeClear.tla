--------------------------- MODULE MCNativeClear ---------------------------
(* Three collected objects and one that still has its head. *)
EXTENDS NativeClear, TLC

CONSTANTS a, b, c, n

Four        == {a, b, c, n}
PoolABC     == <<a, b, c>>
ThreeSlots  == {<<a, 1>>, <<b, 1>>, <<n, 1>>}
StubA       == {a}
ClearableBN == {b, n}
ExtAB       == {a, b}
WeakB       == {b}
=============================================================================
