------------------------------ MODULE DictCursor ------------------------------
(***************************************************************************)
(* What PyDict_Next promises its callers: every loop has a cursor of its   *)
(* own, and each call delivers the entry behind that cursor, whatever      *)
(* other loops do meanwhile.  Only a loop that begins right after a call   *)
(* found its dict empty may be told once more that it is.                  *)
(***************************************************************************)
EXTENDS Naturals, Sequences

CONSTANTS Dicts, Loops, None

VARIABLES
  order,  \* the keys of a dict, in the order of its iterators
  over,   \* the dict a loop runs over, None for no loop
  ppos,   \* the loop's position
  pkey,   \* the key it got last
  complete, \* it was told that there is no more
  foundEmpty  \* the dict that the last call found empty, or None

vars == <<order, over, ppos, pkey, complete, foundEmpty>>

Unused(d) == \A l \in Loops : over[l] # d

Start(l, d) ==
  /\ over[l] = None
  /\ over' = [over EXCEPT ![l] = d]
  /\ ppos' = [ppos EXCEPT ![l] = 0]
  /\ pkey' = [pkey EXCEPT ![l] = None]
  /\ complete' = [complete EXCEPT ![l] = FALSE]
  /\ UNCHANGED <<order, foundEmpty>>

(* The loop learns that there is no more. *)
Told(l) ==
  /\ over' = [over EXCEPT ![l] = None]
  /\ complete' = [complete EXCEPT ![l] = TRUE]

(* It may learn so together with its last entry, but not earlier. *)
Deliver(l) ==
  /\ over[l] # None
  /\ ppos[l] < Len(order[over[l]])
  /\ ppos' = [ppos EXCEPT ![l] = @ + 1]
  /\ pkey' = [pkey EXCEPT ![l] = order[over[l]][ppos[l] + 1]]
  /\ \/ UNCHANGED <<over, complete>>
     \/ ppos'[l] = Len(order[over[l]]) /\ Told(l)
  /\ foundEmpty' = None
  /\ UNCHANGED order

End(l) ==
  /\ over[l] # None
  /\ ppos[l] = Len(order[over[l]]) \/ (ppos[l] = 0 /\ foundEmpty = over[l])
  /\ Told(l)
  /\ foundEmpty' = IF ppos[l] = 0 THEN over[l] ELSE None
  /\ UNCHANGED <<order, ppos, pkey>>

Leave(l) ==
  /\ over[l] # None
  /\ over' = [over EXCEPT ![l] = None]
  /\ UNCHANGED <<order, ppos, pkey, complete, foundEmpty>>

(* Keys come and go only while nobody runs over the dict. *)
Change ==
  /\ \A d \in Dicts : order'[d] # order[d] => Unused(d)
  /\ UNCHANGED <<over, ppos, pkey, complete, foundEmpty>>

Next ==
  \/ \E l \in Loops : Deliver(l) \/ End(l) \/ Leave(l) \/ \E d \in Dicts : Start(l, d)
  \/ Change

Spec == foundEmpty = None /\ [][Next]_vars
=============================================================================
