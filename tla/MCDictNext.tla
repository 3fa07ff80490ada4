------------------------------ MODULE MCDictNext ------------------------------
(* Two dicts, two loops, up to three keys. *)
EXTENDS DictNext, TLC

CONSTANTS d1, d2, l1, l2, k1, k2, k3

TwoDicts  == {d1, d2}
TwoLoops  == {l1, l2}
ThreeKeys == {k1, k2, k3}

Sym == Permutations(TwoDicts) \cup Permutations(TwoLoops) \cup Permutations(ThreeKeys)
=============================================================================
