---------------------------- MODULE MCHeadLinks ----------------------------
(* A list with a cell, or with an object of an extension type, that may    *)
(* refer to the list; the list may hold itself, or an item that is a head. *)
EXTENDS HeadLinks

CONSTANTS c1, c2, i1

TwoContainers == {c1, c2}
TwoItems      == {c1, i1}
OneHead       == {i1}

Mixed == {k \in [TwoContainers -> {"list", "cell", "peer"}] : k[c1] = "list" /\ k[c2] # "list"}

(* The list beside a cell has an empty slot, a pending write or links      *)
(* beyond MaxLen, not two of these; beside a peer it has none of them, and *)
(* every change of it is told.                                             *)
Bounded ==
  LET empty   == NoItem \in Range(items[c1])
      writing == ~Undisturbed(c1)
      long    == Len(links[c1].at) > MaxLen
  IN /\ ~(empty /\ writing) /\ ~(empty /\ long) /\ ~(writing /\ long)
     /\ kind[c2] = "peer" => ~empty /\ ~writing /\ ~long /\ told[c1]
=============================================================================
