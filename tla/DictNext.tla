------------------------------- MODULE DictNext -------------------------------
(***************************************************************************)
(* PyDict_Next (dictobject.c) and JyNI.getPyDictionary_Next.  A native     *)
(* loop keeps an index only; the iterator behind it lives in three static  *)
(* fields of JyNI.java, shared by all loops over all dicts.  A call that   *)
(* does not match them makes a new iterator and runs it forward to its     *)
(* index.                                                                  *)
(*                                                                         *)
(* Values are left out: replacing them in a loop is allowed and disturbs   *)
(* no order.  Keys are added and removed between loops only, as the        *)
(* comment on PyDict_Next demands.  A call is one step: it runs under the  *)
(* GIL, and its Java part is synchronized.                                 *)
(***************************************************************************)
EXTENDS Integers, Sequences, FiniteSets, SequencesExt

CONSTANTS
  Dicts, Keys,
  Loops,       \* native frames with a loop over a dict: nested, or of several threads
  None         \* no dict, no key, no iterator

ASSUME DictAssumption ==
  /\ None \notin Dicts /\ None \notin Keys
  /\ IsFiniteSet(Keys)

VARIABLES
  order,          \* of each dict: its keys in the order of its iterators
  lastDict,
  lastDictIndex,  \* negative when the last entry was delivered
  dictIterator,   \* the keys still before it, or None
  over,           \* of each loop: the dict it runs over, or None
  ppos, pkey,     \* of each loop: what PyDict_Next wrote
  body,           \* of each loop: the keys its body has been executed for
  complete        \* of each loop: it ended because PyDict_Next returned 0

cache == <<lastDict, lastDictIndex, dictIterator>>
loops == <<over, ppos, pkey, body, complete>>
vars  == <<order, cache, loops>>

MaxLen == Cardinality(Keys)
Orders == {s \in SeqOf(Keys, MaxLen) : IsInjective(s)}

TypeOK ==
  /\ order \in [Dicts -> Orders]
  /\ lastDict \in Dicts \cup {None} /\ lastDictIndex \in -MaxLen..MaxLen
  /\ dictIterator \in Orders \cup {None}
  /\ over \in [Loops -> Dicts \cup {None}]
  /\ ppos \in [Loops -> 0..MaxLen] /\ pkey \in [Loops -> Keys \cup {None}]
  /\ body \in [Loops -> SUBSET Keys] /\ complete \in [Loops -> BOOLEAN]

Init ==
  /\ order \in [Dicts -> Orders]
  /\ lastDict = None /\ lastDictIndex = 0 /\ dictIterator = None
  /\ over = [l \in Loops |-> None]
  /\ ppos = [l \in Loops |-> 0] /\ pkey = [l \in Loops |-> None]
  /\ body = [l \in Loops |-> {}] /\ complete = [l \in Loops |-> FALSE]

-----------------------------------------------------------------------------
(* getPyDictionary_Next *)

(* Mutant: the index decides alone. *)
CachedByIndex(d, index) == index = lastDictIndex /\ dictIterator # None

Cached(d, index) ==
  /\ d = lastDict /\ index = lastDictIndex
  /\ dictIterator # None

(* The keys that the iterator used for this call has before it. *)
Ahead(d, index) ==
  IF Cached(d, index) THEN dictIterator
  ELSE SubSeq(order[d], index + 1, Len(order[d]))

(* What becomes of lastDictIndex with the entry number n. *)
Marked(d, n) == IF n = Len(order[d]) THEN -n ELSE n

NextIsNull(d, index) ==
  /\ Ahead(d, index) = <<>>
  /\ lastDict' = d /\ lastDictIndex' = index
  /\ dictIterator' = <<>>

NextIsEntry(d, index) ==
  /\ Ahead(d, index) # <<>>
  /\ lastDict' = d /\ lastDictIndex' = Marked(d, index + 1)
  /\ dictIterator' = Tail(Ahead(d, index))

-----------------------------------------------------------------------------
(* PyDict_Next and the loops around it.  Its early return for a negative   *)
(* position is never taken: TypeOK.                                        *)

Start(l, d) ==
  /\ over[l] = None
  /\ over' = [over EXCEPT ![l] = d]
  /\ ppos' = [ppos EXCEPT ![l] = 0]
  /\ pkey' = [pkey EXCEPT ![l] = None]
  /\ body' = [body EXCEPT ![l] = {}]
  /\ complete' = [complete EXCEPT ![l] = FALSE]
  /\ UNCHANGED <<order, cache>>

NoMore(l) ==
  /\ over[l] # None
  /\ NextIsNull(over[l], ppos[l])
  /\ over' = [over EXCEPT ![l] = None]
  /\ complete' = [complete EXCEPT ![l] = TRUE]
  /\ UNCHANGED <<order, ppos, pkey, body>>

(* Mutant: the negative index reaches the caller. *)
PositionAsIs(newIndex) == newIndex

(* *ppos = -i or *ppos = i. *)
NewPosition(newIndex) == IF newIndex < 0 THEN -newIndex ELSE newIndex

(* An entry with a negative index is stored, but 0 is returned.            *)
Deliver(l) ==
  /\ over[l] # None
  /\ NextIsEntry(over[l], ppos[l])
  /\ ppos' = [ppos EXCEPT ![l] = NewPosition(lastDictIndex')]
  /\ pkey' = [pkey EXCEPT ![l] = Head(Ahead(over[l], ppos[l]))]
  /\ \/ /\ lastDictIndex' < 0
        /\ over' = [over EXCEPT ![l] = None]
        /\ complete' = [complete EXCEPT ![l] = TRUE]
        /\ UNCHANGED body
     \/ /\ lastDictIndex' >= 0
        /\ body' = [body EXCEPT ![l] = @ \cup {pkey'[l]}]
        /\ UNCHANGED <<over, complete>>
  /\ UNCHANGED order

(* The loop is left early, as getargs.c does on an unknown keyword. *)
Leave(l) ==
  /\ over[l] # None
  /\ over' = [over EXCEPT ![l] = None]
  /\ UNCHANGED <<order, cache, ppos, pkey, body, complete>>

Unused(d) == \A l \in Loops : over[l] # d

AddKey(d) ==
  /\ Unused(d)
  /\ \E key \in Keys \ Range(order[d]), at \in 1..(Len(order[d]) + 1) :
       order' = [order EXCEPT ![d] = InsertAt(@, at, key)]
  /\ UNCHANGED <<cache, loops>>

RemoveKey(d) ==
  /\ Unused(d)
  /\ \E at \in DOMAIN order[d] : order' = [order EXCEPT ![d] = RemoveAt(@, at)]
  /\ UNCHANGED <<cache, loops>>

Next ==
  \/ \E l \in Loops : NoMore(l) \/ Deliver(l) \/ Leave(l) \/ \E d \in Dicts : Start(l, d)
  \/ \E d \in Dicts : AddKey(d) \/ RemoveKey(d)

Spec == Init /\ [][Next]_vars

-----------------------------------------------------------------------------
(* Properties *)

(* The iterator of an empty dict serves the next loop from 0, too. *)
FoundEmpty ==
  IF lastDict # None /\ lastDictIndex = 0 /\ dictIterator = <<>> THEN lastDict ELSE None

Cursor == INSTANCE DictCursor WITH foundEmpty <- FoundEmpty

(* JyNI-Note on PyDict_Next, dictobject.c: sharing one iterator is slow    *)
(* for loops that alternate, but safe.  Every call delivers the entry      *)
(* after the one the same loop got before, as with a cursor per loop; only *)
(* a dict that the last call found empty may be found so once more when it *)
(* has got keys, where the note promises safety without condition.         *)
OwnCursors == Cursor!Spec

(* "Iterate over a dict": the body of a loop that ran to its end has been  *)
(* executed for every key.                                                 *)
LoopSeesAll ==
  [][\A l \in Loops :
       over[l] # None /\ over'[l] = None /\ complete'[l]
         => body'[l] = Range(order[over[l]])]_vars
=============================================================================
