--------------------------------- MODULE MCGil ---------------------------------
(* Two Java threads, a thread started natively, three thread states. *)
EXTENDS Gil, TLC

CONSTANTS j, k, n, s1, s2, s3

TwoJava      == {j, k}
ThreeThreads == {j, k, n}
OnlyN        == {n}
NoThread     == {}
ThreeStates  == {s1, s2, s3}

(* The Java threads are alike, and so are the addresses. *)
JKSym == Permutations(TwoJava) \cup Permutations(ThreeStates)

(* Nothing is claimed beyond a lost entry. *)
UntilLost == ~lost

(* States are told apart by what is still read: not by the op and hand     *)
(* of a finished operation, nor by entries missed in the last put.         *)
Reading(t)  == pc[t] \notin {"run", "unlock"}
Handling(t) == pc[t] \in {"put", "have"} \/ (pc[t] \in {"acquire", "got"} /\ op[t] \in {"enter", "ensure"})

StillRead ==
  <<lock, current, lookup, lost, stateVars, attached, nest, pc, fatal,
    [t \in Threads |-> IF pc[t] = "put" THEN missed[t] ELSE {}],
    [t \in Threads |-> IF Reading(t) THEN op[t] ELSE "none"],
    [t \in Threads |-> IF Handling(t) THEN hand[t] ELSE Null]>>
=============================================================================
