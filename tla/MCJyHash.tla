------------------------------- MODULE MCJyHash -------------------------------
(* Four aligned 12-bit addresses that compete for the same slots. *)
EXTENDS JyHash

FourPtrs     == {504, 1032, 2352, 2584}
ShlIn12(p, k) == (p * 2^k) % 2^12
=============================================================================
