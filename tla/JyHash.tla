-------------------------------- MODULE JyHash --------------------------------
(***************************************************************************)
(* JyHash.c: the open-addressing table in which JyNI keeps every pointer   *)
(* it allocated, so that AS_JY and FROM_JY can tell an object with a       *)
(* JyObject header from a static one.  A pointer is probed for at most     *)
(* maxRehash times beyond its first slot; a chain ends at an empty slot,   *)
(* and a deleted entry leaves a dummy that keeps the chains through it     *)
(* together.  When a chain has no room the table grows: resize_ptrTable    *)
(* moves the old entries one by one, and starts over with a still larger   *)
(* table when one of them finds no room either.                            *)
(*                                                                         *)
(* The operations run under the GIL and are atomic, except that growing    *)
(* takes a step per bucket: its loop is what deserves an invariant.        *)
(* Statistics (tableSize, delDummies, collisions) are left out.            *)
(***************************************************************************)
EXTENDS Integers

CONSTANTS
  Ptrs,         \* pointers the allocator can hand out
  Nil, Dummy,   \* the empty bucket, and the bucket of a deleted entry
  InitSize,     \* initial capacity (1019 in the code)
  maxRehash,    \* probes beyond the first (40 in the code)
  Shl(_, _),    \* (uintptr_t) i << k
  MaxCapacity   \* bound: no growth that starts beyond it

(* From 21 buckets on, a tenth more is more although the sum is truncated. *)
ASSUME HashAssumption ==
  /\ Nil \notin Ptrs /\ Dummy \notin Ptrs /\ Nil # Dummy
  /\ InitSize \in Nat /\ InitSize >= 11
  /\ maxRehash \in Nat \ {0}
  /\ \A p \in Ptrs, k \in 0..maxRehash : Shl(p, k) \in Nat
  /\ MaxCapacity \in Nat

VARIABLES
  ptrTable, tableCapacity,
  oldTable, oldCapacity,  \* the table being moved; empty when none is
  i,                      \* the loop index of resize_ptrTable
  inserting,              \* the pointer whose insertion made the table grow
  answer                  \* the last call, its pointer and its result as a truth value

table == <<ptrTable, tableCapacity>>
resize == <<oldTable, oldCapacity, i, inserting>>
vars == <<table, resize, answer>>

Bucket     == Ptrs \cup {Nil, Dummy}
Fresh(cap) == [s \in 0..(cap - 1) |-> Nil]
Entries(t) == {q \in Ptrs : \E s \in DOMAIN t : t[s] = q}
Growing    == inserting # Nil
Answers    == {"insert", "delete", "contains"} \X (Ptrs \cup {Nil}) \X BOOLEAN

TypeOK ==
  /\ tableCapacity \in Nat /\ tableCapacity >= InitSize
  /\ ptrTable \in [0..(tableCapacity - 1) -> Bucket]
  /\ oldCapacity \in Nat /\ i \in -1..(oldCapacity - 1)
  /\ oldTable \in [0..(oldCapacity - 1) -> Bucket]
  /\ inserting \in Ptrs \cup {Nil}
  /\ Growing => oldCapacity >= InitSize /\ tableCapacity >= 2 * oldCapacity - 1
  /\ answer \in Answers

-----------------------------------------------------------------------------
(* Probing *)

(* hash_func and rehash_func: the k-th slot tried for p. *)
Slot(cap, p, k) == Shl(p, k) % cap

Probe(t, cap, p, k) == t[Slot(cap, p, k)]

(* getPos: the k-th probe finds p, and none before met an empty bucket. *)
FindsAt(t, cap, p, k) ==
  /\ Probe(t, cap, p, k) = p
  /\ \A j \in 0..(k - 1) : Probe(t, cap, p, j) \notin {p, Nil}

Finds(t, cap, p) == \E k \in 0..maxRehash : FindsAt(t, cap, p, k)

(* getPosForInsert, for a pointer that is not there: the first dummy of    *)
(* the chain or, without one, the empty bucket that ends it.               *)
RoomAt(t, cap, p, k) ==
  /\ Probe(t, cap, p, k) \in {Nil, Dummy}
  /\ \A j \in 0..(k - 1) : Probe(t, cap, p, j) \notin {Nil, Dummy}

HasRoom(t, cap, p) == \E k \in 0..maxRehash : RoomAt(t, cap, p, k)

(* The table with p stored at its k-th slot. *)
StoredAt(t, cap, p, k) == [t EXCEPT ![Slot(cap, p, k)] = p]

(* Mutant: the bucket is emptied. *)
RemovedOutright(t, cap, p, k) == [t EXCEPT ![Slot(cap, p, k)] = Nil]

(* The table with the entry that the k-th probe for p found given up. *)
RemovedAt(t, cap, p, k) == [t EXCEPT ![Slot(cap, p, k)] = Dummy]

-----------------------------------------------------------------------------
(* insert0, and JyHash_insert while there is room. *)

Store(p) ==
  /\ ~Finds(ptrTable, tableCapacity, p)
  /\ \E k \in 0..maxRehash :
       /\ RoomAt(ptrTable, tableCapacity, p, k)
       /\ ptrTable' = StoredAt(ptrTable, tableCapacity, p, k)
  /\ UNCHANGED tableCapacity

Exhausted(p) ==
  /\ ~Finds(ptrTable, tableCapacity, p)
  /\ ~HasRoom(ptrTable, tableCapacity, p)

-----------------------------------------------------------------------------
(* The operations *)

Init ==
  /\ tableCapacity = InitSize /\ ptrTable = Fresh(InitSize)
  /\ oldCapacity = 0 /\ oldTable = Fresh(0) /\ i = -1
  /\ inserting = Nil
  /\ answer = <<"contains", Nil, FALSE>>

(* Mutant: the first bucket with room is taken without looking further for *)
(* p itself.                                                               *)
InsertEarly(p) ==
  /\ ~Growing
  /\ \E k \in 0..maxRehash :
       /\ RoomAt(ptrTable, tableCapacity, p, k)
       /\ \A j \in 0..k : Probe(ptrTable, tableCapacity, p, j) # p
       /\ ptrTable' = StoredAt(ptrTable, tableCapacity, p, k)
  /\ answer' = <<"insert", p, TRUE>>
  /\ UNCHANGED <<tableCapacity, resize>>

Insert(p) ==
  /\ ~Growing
  /\ \/ /\ Finds(ptrTable, tableCapacity, p)
        /\ answer' = <<"insert", p, FALSE>>
        /\ UNCHANGED table
     \/ Store(p) /\ answer' = <<"insert", p, TRUE>>
  /\ UNCHANGED resize

(* resize_ptrTable(increasedSize), up to its loop. *)
Grow(p) ==
  /\ ~Growing
  /\ Exhausted(p)
  /\ tableCapacity <= MaxCapacity
  /\ oldTable' = ptrTable /\ oldCapacity' = tableCapacity
  /\ tableCapacity' = 2 * tableCapacity - 1
  /\ ptrTable' = Fresh(tableCapacity')
  /\ i' = oldCapacity' - 1
  /\ inserting' = p
  /\ UNCHANGED answer

SkipBucket ==
  /\ Growing /\ i >= 0
  /\ oldTable[i] \in {Nil, Dummy}
  /\ i' = i - 1
  /\ UNCHANGED <<table, oldTable, oldCapacity, inserting, answer>>

(* An old entry sits in one bucket only, so insert0 never finds it moved.  *)
MoveEntry ==
  /\ Growing /\ i >= 0
  /\ oldTable[i] \in Ptrs
  /\ Store(oldTable[i])
  /\ i' = i - 1
  /\ UNCHANGED <<oldTable, oldCapacity, inserting, answer>>

(* Mutant: a tenth less. *)
AdjustedDown(cap) == (9 * cap) \div 10

(* A tenth more, truncated and made odd. *)
Adjusted(cap) ==
  LET larger == (11 * cap) \div 10
  IN  IF larger % 2 = 0 THEN larger - 1 ELSE larger

(* Mutant: a fresh table, but the loop goes on where it is. *)
ReplaceTable ==
  /\ Growing /\ i >= 0
  /\ oldTable[i] \in Ptrs
  /\ Exhausted(oldTable[i])
  /\ tableCapacity' = Adjusted(tableCapacity)
  /\ ptrTable' = Fresh(tableCapacity')
  /\ i' = i - 1
  /\ UNCHANGED <<oldTable, oldCapacity, inserting, answer>>

(* The loop starts over with i = oldCapacity - 1, which its own --i then   *)
(* decrements: the last bucket is not looked at again.                     *)
StartOver ==
  /\ Growing /\ i >= 0
  /\ oldTable[i] \in Ptrs
  /\ Exhausted(oldTable[i])
  /\ tableCapacity' = Adjusted(tableCapacity)
  /\ ptrTable' = Fresh(tableCapacity')
  /\ i' = oldCapacity - 2
  /\ UNCHANGED <<oldTable, oldCapacity, inserting, answer>>

(* JyHash_insert ends with insert0; that it may find no room is ignored.   *)
FinishInsert ==
  /\ Growing /\ i = -1
  /\ \/ Store(inserting)
     \/ Exhausted(inserting) /\ UNCHANGED table
  /\ answer' = <<"insert", inserting, TRUE>>
  /\ oldCapacity' = 0 /\ oldTable' = Fresh(0) /\ inserting' = Nil
  /\ UNCHANGED i

Delete(p) ==
  /\ ~Growing
  /\ answer' = <<"delete", p, Finds(ptrTable, tableCapacity, p)>>
  /\ \/ /\ ~Finds(ptrTable, tableCapacity, p)
        /\ UNCHANGED ptrTable
     \/ \E k \in 0..maxRehash :
          /\ FindsAt(ptrTable, tableCapacity, p, k)
          /\ ptrTable' = RemovedAt(ptrTable, tableCapacity, p, k)
  /\ UNCHANGED <<tableCapacity, resize>>

Contains(p) ==
  /\ ~Growing
  /\ answer' = <<"contains", p, Finds(ptrTable, tableCapacity, p)>>
  /\ UNCHANGED <<table, resize>>

Resizing == SkipBucket \/ MoveEntry \/ StartOver \/ FinishInsert

Next ==
  \/ \E p \in Ptrs : Insert(p) \/ Grow(p) \/ Delete(p) \/ Contains(p)
  \/ Resizing

Spec == Init /\ [][Next]_vars

-----------------------------------------------------------------------------
(* Properties *)

(* JyHash_insert, JyHash_delete: whatever the deletions, dummies and       *)
(* reused buckets in between, an entry sits in one bucket only and probing *)
(* reaches it before an empty bucket ends its chain.                       *)
Findable ==
  /\ \A s, r \in DOMAIN ptrTable :
       ptrTable[s] \in Ptrs /\ ptrTable[s] = ptrTable[r] => s = r
  /\ \A q \in Entries(ptrTable) : Finds(ptrTable, tableCapacity, q)

(* resize_ptrTable: every bucket the loop has passed is in the new table   *)
(* (which holds nothing else), except for the last bucket of the old table *)
(* once the loop has started over.                                         *)
MovesAll ==
  Growing =>
    /\ Entries(ptrTable) \subseteq Entries(oldTable)
    /\ inserting \notin Entries(oldTable)
    /\ \A j \in (i + 1)..(oldCapacity - 1) :
         oldTable[j] \in Ptrs =>
           \/ oldTable[j] \in Entries(ptrTable)
           \/ j = oldCapacity - 1 /\ tableCapacity > 2 * oldCapacity - 1

(* The set the table stands for; a growing table still stands for the old. *)
Tracked == IF Growing THEN Entries(oldTable) ELSE Entries(ptrTable)

(* Only growth that starts over makes the table larger than this. *)
Growth == IF ~Growing THEN "none"
          ELSE IF tableCapacity = 2 * oldCapacity - 1 THEN "once" ELSE "again"

PS == INSTANCE PtrSet WITH members <- Tracked, growth <- Growth

(* JyHash.c implements a set of pointers that is exact as long as no chain *)
(* is exhausted.  An insertion that makes the table grow may come to       *)
(* nothing; only one whose growth starts over may lose an older member,    *)
(* and then at most one.                                                   *)
ImplementsLossySet == PS!LossySpec
=============================================================================
