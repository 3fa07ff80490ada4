--------------------------- MODULE MCGCHandshake ---------------------------
(* Small instances of GCHandshake: two or three stubs, one chore. *)
EXTENDS GCHandshake, TLC

CONSTANTS s1, s2, s3, c1, d1

TwoStubs    == {s1, s2}
ThreeStubs  == {s1, s2, s3}
OneChore    == {c1}
OneDelayed  == {d1}
NoDelayed   == {}

StubSymmetry == Permutations(ThreeStubs)
=============================================================================
