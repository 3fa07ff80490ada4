----------------------------- MODULE JyHashProofs -----------------------------
(***************************************************************************)
(* The pointer table, for every set of pointers, every hash family and     *)
(* every initial capacity that HashAssumption admits: entries stay         *)
(* findable, growing moves all it passed, and the table implements the     *)
(* lossy set of PtrSet.                                                    *)
(***************************************************************************)
EXTENDS JyHash, TLAPS

(* A table in which every entry is unique and found. *)
Sound(t, cap) ==
  /\ cap \in Nat /\ cap >= 1
  /\ t \in [0..(cap - 1) -> Bucket]
  /\ \A s, r \in 0..(cap - 1) : t[s] \in Ptrs /\ t[s] = t[r] => s = r
  /\ \A q \in Entries(t) : Finds(t, cap, q)

(* Slot: a probe stays within the table. *)
LEMMA SlotInTable ==
  ASSUME NEW cap \in Nat, cap >= 1, NEW p \in Ptrs, NEW k \in 0..maxRehash
  PROVE  Slot(cap, p, k) \in 0..(cap - 1)
  <1>1. Shl(p, k) \in Nat
    BY HashAssumption
  <1>2. ASSUME NEW a \in Nat PROVE a % cap \in 0..(cap - 1)
    OBVIOUS
  <1> QED BY <1>1, <1>2 DEF Slot

(* calloc: an empty table. *)
LEMMA FreshIsSound ==
  ASSUME NEW cap \in Nat, cap >= 1
  PROVE  Sound(Fresh(cap), cap) /\ Entries(Fresh(cap)) = {}
  <1>1. Entries(Fresh(cap)) = {}
    BY HashAssumption DEF Entries, Fresh
  <1> QED BY <1>1, HashAssumption DEF Sound, Fresh, Bucket

(* getPos: in a sound table it finds the entries and nothing else. *)
LEMMA FindsEntries ==
  ASSUME NEW t, NEW cap, Sound(t, cap), NEW p \in Ptrs
  PROVE  Finds(t, cap, p) <=> p \in Entries(t)
  <1>1. ASSUME NEW k \in 0..maxRehash, FindsAt(t, cap, p, k) PROVE p \in Entries(t)
    <2>1. Slot(cap, p, k) \in 0..(cap - 1) BY SlotInTable DEF Sound
    <2> QED BY <1>1, <2>1 DEF FindsAt, Probe, Entries, Sound
  <1> QED BY <1>1 DEF Finds, Sound

(* The same as an equation between truth values. *)
LEMMA FindsValue ==
  ASSUME NEW t, NEW cap, Sound(t, cap), NEW p \in Ptrs
  PROVE  Finds(t, cap, p) = (p \in Entries(t))
  <1>1. Finds(t, cap, p) \in BOOLEAN BY DEF Finds
  <1>2. Finds(t, cap, p) <=> p \in Entries(t) BY FindsEntries
  <1>3. (p \in Entries(t)) \in BOOLEAN OBVIOUS
  <1>4. ASSUME NEW A \in BOOLEAN, NEW B \in BOOLEAN, A <=> B PROVE A = B
    BY <1>4
  <1> QED BY <1>1, <1>2, <1>3, <1>4

(* insert0: a pointer stored in the first room of its chain. *)
LEMMA StoringIsSound ==
  ASSUME NEW t, NEW cap, Sound(t, cap), NEW p \in Ptrs, ~Finds(t, cap, p),
         NEW k \in 0..maxRehash, RoomAt(t, cap, p, k)
  PROVE  /\ Sound(StoredAt(t, cap, p, k), cap)
         /\ Entries(StoredAt(t, cap, p, k)) = Entries(t) \cup {p}
  <1> DEFINE s == Slot(cap, p, k)
             u == StoredAt(t, cap, p, k)
  <1>1. s \in 0..(cap - 1) BY SlotInTable DEF Sound
  <1>2. /\ u \in [0..(cap - 1) -> Bucket] /\ u[s] = p
        /\ \A r \in 0..(cap - 1) : r # s => u[r] = t[r]
    BY <1>1 DEF StoredAt, Sound, Bucket
  <1>3. t[s] \in {Nil, Dummy} BY DEF RoomAt, Probe
  <1>4. p \notin Entries(t) BY FindsEntries
  <1>5. \A r \in 0..(cap - 1) : t[r] # p BY <1>4 DEF Entries, Sound
  <1>6. Entries(u) = Entries(t) \cup {p}
    <2>1. DOMAIN u = 0..(cap - 1) /\ DOMAIN t = 0..(cap - 1) BY <1>2 DEF Sound
    <2>2. ASSUME NEW q \in Entries(u) PROVE q \in Entries(t) \cup {p}
      BY <1>2, <2>1 DEF Entries
    <2>3. ASSUME NEW q \in Entries(t) PROVE q \in Entries(u)
      <3>1. PICK r \in 0..(cap - 1) : t[r] = q BY <2>1 DEF Entries
      <3>2. q \in Ptrs /\ r # s BY <3>1, <1>3, HashAssumption DEF Entries
      <3> QED BY <3>1, <3>2, <1>2, <2>1 DEF Entries
    <2>4. p \in Entries(u) BY <1>1, <1>2, <2>1 DEF Entries
    <2> QED BY <2>2, <2>3, <2>4 DEF Entries
  <1>7. \A a, b \in 0..(cap - 1) : u[a] \in Ptrs /\ u[a] = u[b] => a = b
    BY <1>1, <1>2, <1>5 DEF Sound
  <1>8. ASSUME NEW q \in Entries(u) PROVE Finds(u, cap, q)
    <2>0. q \in Ptrs BY DEF Entries
    <2>a. \A j \in 0..maxRehash : Slot(cap, q, j) \in 0..(cap - 1)
      BY <2>0, SlotInTable DEF Sound
    <2>b. maxRehash \in Nat BY HashAssumption
    <2>1. CASE q = p
      <3>1. ASSUME NEW j \in 0..(k - 1) PROVE Probe(u, cap, p, j) \notin {p, Nil}
        <4>1. j \in 0..maxRehash BY <2>b
        <4>2. Probe(t, cap, p, j) \notin {Nil, Dummy} BY DEF RoomAt
        <4>3. Slot(cap, p, j) # s BY <4>2, <1>3 DEF Probe
        <4>4. Slot(cap, p, j) \in 0..(cap - 1) BY <4>1, <2>a, <2>1
        <4>5. u[Slot(cap, p, j)] = t[Slot(cap, p, j)] BY <4>3, <4>4, <1>2
        <4> QED BY <4>2, <4>4, <4>5, <1>5 DEF Probe
      <3>2. Probe(u, cap, p, k) = p BY <1>2 DEF Probe
      <3> QED BY <3>1, <3>2, <2>1 DEF Finds, FindsAt
    <2>2. CASE q # p
      <3>1. q \in Entries(t) BY <2>2, <1>6
      <3>2. PICK m \in 0..maxRehash : FindsAt(t, cap, q, m) BY <3>1 DEF Sound, Finds
      <3>3. Slot(cap, q, m) # s
        BY <3>2, <1>3, <2>0, HashAssumption DEF FindsAt, Probe
      <3>4. Probe(u, cap, q, m) = q BY <3>2, <3>3, <2>a, <1>2 DEF FindsAt, Probe
      <3>5. ASSUME NEW j \in 0..(m - 1) PROVE Probe(u, cap, q, j) \notin {q, Nil}
        <4>1. j \in 0..maxRehash BY <2>b
        <4>2. Probe(t, cap, q, j) \notin {q, Nil} BY <3>2 DEF FindsAt
        <4>3. CASE Slot(cap, q, j) = s
          BY <4>3, <1>2, <2>2, HashAssumption DEF Probe
        <4>4. CASE Slot(cap, q, j) # s
          BY <4>1, <4>2, <4>4, <2>a, <1>2 DEF Probe
        <4> QED BY <4>3, <4>4
      <3> QED BY <3>4, <3>5 DEF Finds, FindsAt
    <2> QED BY <2>1, <2>2
  <1> QED BY <1>2, <1>6, <1>7, <1>8 DEF Sound

(* JyHash_delete: a dummy keeps the chains through the bucket together. *)
LEMMA RemovingIsSound ==
  ASSUME NEW t, NEW cap, Sound(t, cap), NEW p \in Ptrs,
         NEW k \in 0..maxRehash, FindsAt(t, cap, p, k)
  PROVE  /\ Sound(RemovedAt(t, cap, p, k), cap)
         /\ Entries(RemovedAt(t, cap, p, k)) = Entries(t) \ {p}
  <1> DEFINE s == Slot(cap, p, k)
             u == RemovedAt(t, cap, p, k)
  <1>1. s \in 0..(cap - 1) BY SlotInTable DEF Sound
  <1>2. /\ u \in [0..(cap - 1) -> Bucket] /\ u[s] = Dummy
        /\ \A r \in 0..(cap - 1) : r # s => u[r] = t[r]
    BY <1>1 DEF RemovedAt, Sound, Bucket
  <1>3. t[s] = p BY DEF FindsAt, Probe
  <1>4. \A r \in 0..(cap - 1) : t[r] = p => r = s BY <1>1, <1>3 DEF Sound
  <1>5. DOMAIN u = 0..(cap - 1) /\ DOMAIN t = 0..(cap - 1) BY <1>2 DEF Sound
  <1>6. Entries(u) = Entries(t) \ {p}
    <2>1. ASSUME NEW q \in Entries(u) PROVE q \in Entries(t) \ {p}
      <3>1. PICK r \in 0..(cap - 1) : u[r] = q BY <1>5 DEF Entries
      <3>2. q \in Ptrs BY DEF Entries
      <3>3. r # s BY <3>1, <3>2, <1>2, HashAssumption
      <3> QED BY <3>1, <3>2, <3>3, <1>2, <1>4, <1>5 DEF Entries
    <2>2. ASSUME NEW q \in Entries(t), q # p PROVE q \in Entries(u)
      BY <2>2, <1>2, <1>3, <1>5 DEF Entries
    <2> QED BY <2>1, <2>2 DEF Entries
  <1>7. \A a, b \in 0..(cap - 1) : u[a] \in Ptrs /\ u[a] = u[b] => a = b
    BY <1>1, <1>2, HashAssumption DEF Sound
  <1>8. ASSUME NEW q \in Entries(u) PROVE Finds(u, cap, q)
    <2>1. q \in Ptrs /\ q \in Entries(t) /\ q # p BY <1>6 DEF Entries
    <2>2. PICK m \in 0..maxRehash : FindsAt(t, cap, q, m) BY <2>1 DEF Sound, Finds
    <2>3. \A j \in 0..maxRehash : Slot(cap, q, j) \in 0..(cap - 1)
      BY <2>1, SlotInTable DEF Sound
    <2>4. Slot(cap, q, m) # s BY <2>1, <2>2, <1>3 DEF FindsAt, Probe
    <2>5. Probe(u, cap, q, m) = q BY <2>2, <2>3, <2>4, <1>2 DEF FindsAt, Probe
    <2>6. ASSUME NEW j \in 0..(m - 1) PROVE Probe(u, cap, q, j) \notin {q, Nil}
      <3>1. j \in 0..maxRehash BY HashAssumption
      <3>2. Probe(t, cap, q, j) \notin {q, Nil} BY <2>2 DEF FindsAt
      <3>3. CASE Slot(cap, q, j) = s
        BY <3>3, <1>2, <2>1, HashAssumption DEF Probe
      <3>4. CASE Slot(cap, q, j) # s
        BY <3>1, <3>2, <3>4, <2>3, <1>2 DEF Probe
      <3> QED BY <3>3, <3>4
    <2> QED BY <2>5, <2>6 DEF Finds, FindsAt
  <1> QED BY <1>2, <1>6, <1>7, <1>8 DEF Sound

-----------------------------------------------------------------------------
(* The inductive invariant: MovesAll needs the tables to be sound, and     *)
(* soundness does not depend on the history of insertions and deletions.   *)
IInv == TypeOK /\ Sound(ptrTable, tableCapacity) /\ MovesAll

(* A growing table is larger than before each time the loop starts over.   *)
LEMMA AdjustedIsLarger ==
  ASSUME NEW cap \in Nat, cap >= 21
  PROVE  Adjusted(cap) \in Nat /\ Adjusted(cap) > cap
  <1> DEFINE larger == (11 * cap) \div 10
  <1>1. larger \in Nat /\ larger >= cap + 2
    BY SMT
  <1>2. CASE larger % 2 = 0
    BY <1>1, <1>2 DEF Adjusted
  <1>3. CASE larger % 2 # 0
    BY <1>1, <1>3 DEF Adjusted
  <1> QED BY <1>2, <1>3

LEMMA InitIInv == Init => IInv
  <1> SUFFICES ASSUME Init PROVE IInv
    OBVIOUS
  <1>1. Sound(ptrTable, tableCapacity)
    BY FreshIsSound, HashAssumption DEF Init
  <1>2. ptrTable \in [0..(tableCapacity - 1) -> Bucket] BY <1>1 DEF Sound
  <1>3. oldTable \in [0..(oldCapacity - 1) -> Bucket] BY DEF Init, Fresh, Bucket
  <1>4. answer \in Answers BY DEF Init, Answers
  <1>5. oldCapacity \in Nat /\ i \in -1..(oldCapacity - 1) BY DEF Init
  <1>6. TypeOK
    BY <1>2, <1>3, <1>4, <1>5, HashAssumption DEF Init, TypeOK, Growing
  <1> QED BY <1>1, <1>6 DEF IInv, MovesAll, Init, Growing

(* Storing a pointer, as Insert, MoveEntry and FinishInsert do. *)
LEMMA StoreStep ==
  ASSUME Sound(ptrTable, tableCapacity), NEW p \in Ptrs, Store(p)
  PROVE  /\ Sound(ptrTable', tableCapacity') /\ tableCapacity' = tableCapacity
         /\ Entries(ptrTable') = Entries(ptrTable) \cup {p}
         /\ p \notin Entries(ptrTable)
  <1>1. PICK k \in 0..maxRehash :
          /\ RoomAt(ptrTable, tableCapacity, p, k)
          /\ ptrTable' = StoredAt(ptrTable, tableCapacity, p, k)
    BY DEF Store
  <1>2. ~Finds(ptrTable, tableCapacity, p) /\ tableCapacity' = tableCapacity
    BY DEF Store
  <1>3. p \notin Entries(ptrTable)
    BY <1>2, FindsEntries
  <1>4. /\ Sound(StoredAt(ptrTable, tableCapacity, p, k), tableCapacity)
        /\ Entries(StoredAt(ptrTable, tableCapacity, p, k))
             = Entries(ptrTable) \cup {p}
    BY <1>1, <1>2, StoringIsSound
  <1> QED BY <1>1, <1>2, <1>3, <1>4

(* Deleting a pointer that is there. *)
LEMMA DeleteStep ==
  ASSUME Sound(ptrTable, tableCapacity), NEW p \in Ptrs, Delete(p),
         Finds(ptrTable, tableCapacity, p)
  PROVE  /\ Sound(ptrTable', tableCapacity') /\ tableCapacity' = tableCapacity
         /\ Entries(ptrTable') = Entries(ptrTable) \ {p}
  <1>1. PICK k \in 0..maxRehash :
          /\ FindsAt(ptrTable, tableCapacity, p, k)
          /\ ptrTable' = RemovedAt(ptrTable, tableCapacity, p, k)
    BY DEF Delete
  <1>2. /\ Sound(RemovedAt(ptrTable, tableCapacity, p, k), tableCapacity)
        /\ Entries(RemovedAt(ptrTable, tableCapacity, p, k)) = Entries(ptrTable) \ {p}
    BY <1>1, RemovingIsSound
  <1>3. tableCapacity' = tableCapacity BY DEF Delete
  <1> QED BY <1>1, <1>2, <1>3

LEMMA StepIInv == IInv /\ [Next]_vars => IInv'
  <1> SUFFICES ASSUME IInv, [Next]_vars PROVE IInv'
    OBVIOUS
  <1>0. TypeOK /\ Sound(ptrTable, tableCapacity) /\ MovesAll
    BY DEF IInv
  <1>a. ASSUME Sound(ptrTable', tableCapacity')
        PROVE  /\ tableCapacity' \in Nat /\ tableCapacity' >= 1
               /\ ptrTable' \in [0..(tableCapacity' - 1) -> Bucket]
    BY <1>a DEF Sound
  <1>b. Nil \notin Ptrs BY HashAssumption
  <1>1. ASSUME NEW p \in Ptrs, Insert(p) PROVE IInv'
    <2>1. CASE Finds(ptrTable, tableCapacity, p) /\ answer' = <<"insert", p, FALSE>> /\ UNCHANGED table
      BY <1>0, <1>1, <2>1
      DEF Insert, table, resize, IInv, TypeOK, MovesAll, Growing, Bucket, Answers
    <2>2. CASE Store(p) /\ answer' = <<"insert", p, TRUE>>
      <3>1. Sound(ptrTable', tableCapacity') /\ tableCapacity' = tableCapacity
        BY <1>0, <2>2, StoreStep
      <3>2. ~Growing /\ UNCHANGED resize BY <1>1 DEF Insert
      <3>3. TypeOK'
        BY <1>0, <1>a, <2>2, <3>1, <3>2 DEF TypeOK, resize, Growing, Answers
      <3> QED BY <3>1, <3>2, <3>3 DEF IInv, MovesAll, Growing, resize
    <2> QED BY <1>1, <2>1, <2>2 DEF Insert
  <1>2. ASSUME NEW p \in Ptrs, Grow(p) PROVE IInv'
    <2>1. tableCapacity' \in Nat /\ tableCapacity' >= InitSize
      BY <1>0, <1>2, HashAssumption DEF Grow, TypeOK
    <2>2. Sound(ptrTable', tableCapacity') /\ Entries(ptrTable') = {}
      BY <1>2, <2>1, FreshIsSound, HashAssumption DEF Grow
    <2>3. TypeOK'
      BY <1>0, <1>2, <1>a, <2>1, <2>2, HashAssumption DEF Grow, TypeOK, Growing
    <2>4. p \notin Entries(ptrTable)
      BY <1>0, <1>2, FindsEntries DEF Grow, Exhausted
    <2>5. MovesAll'
      BY <1>0, <1>2, <2>2, <2>4 DEF Grow, MovesAll, TypeOK
    <2> QED BY <2>2, <2>3, <2>5 DEF IInv
  <1>3. ASSUME NEW p \in Ptrs, Delete(p) PROVE IInv'
    <2>1. ~Growing /\ UNCHANGED resize /\ tableCapacity' = tableCapacity
      BY <1>3 DEF Delete
    <2>2. answer' \in Answers BY <1>3 DEF Delete, Finds, Answers
    <2>3. Sound(ptrTable', tableCapacity')
      <3>1. CASE Finds(ptrTable, tableCapacity, p)
        BY <1>0, <1>3, <3>1, DeleteStep
      <3>2. CASE ~Finds(ptrTable, tableCapacity, p)
        BY <1>0, <1>3, <2>1, <3>2 DEF Delete, Finds
      <3> QED BY <3>1, <3>2
    <2>4. TypeOK' BY <1>0, <1>a, <2>1, <2>2, <2>3 DEF TypeOK, resize, Growing
    <2> QED BY <2>1, <2>3, <2>4 DEF IInv, MovesAll, Growing, resize
  <1>4. ASSUME NEW p \in Ptrs, Contains(p) PROVE IInv'
    <2>1. answer' \in Answers BY <1>4 DEF Contains, Finds, Answers
    <2> QED BY <1>0, <1>4, <2>1
      DEF Contains, table, resize, IInv, TypeOK, MovesAll, Growing
  <1>5. CASE SkipBucket
    <2>1. TypeOK'
      BY <1>0, <1>5 DEF SkipBucket, table, TypeOK, Growing
    <2>2. MovesAll'
      <3> SUFFICES ASSUME NEW j \in (i' + 1)..(oldCapacity - 1), oldTable[j] \in Ptrs
                   PROVE  \/ oldTable[j] \in Entries(ptrTable)
                          \/ j = oldCapacity - 1 /\ tableCapacity > 2 * oldCapacity - 1
        BY <1>0, <1>5 DEF SkipBucket, MovesAll, table, Growing
      <3>1. j # i BY <1>5, HashAssumption DEF SkipBucket
      <3>2. j \in (i + 1)..(oldCapacity - 1)
        BY <1>0, <1>5, <3>1 DEF SkipBucket, TypeOK
      <3> QED BY <1>0, <1>5, <3>2 DEF SkipBucket, MovesAll
    <2> QED BY <1>0, <1>5, <2>1, <2>2 DEF SkipBucket, table, IInv
  <1>6. CASE MoveEntry
    <2>1. oldTable[i] \in Ptrs /\ Store(oldTable[i]) BY <1>6 DEF MoveEntry
    <2>2. /\ Sound(ptrTable', tableCapacity') /\ tableCapacity' = tableCapacity
          /\ Entries(ptrTable') = Entries(ptrTable) \cup {oldTable[i]}
      BY <1>0, <2>1, StoreStep
    <2>3. TypeOK'
      BY <1>0, <1>6, <1>a, <2>2 DEF MoveEntry, TypeOK, Growing
    <2>4. oldTable[i] \in Entries(oldTable)
      BY <1>0, <1>6, <2>1 DEF MoveEntry, TypeOK, Entries
    <2>5. MovesAll'
      <3>1. Entries(ptrTable') \subseteq Entries(oldTable)
        BY <1>0, <1>6, <2>2, <2>4 DEF MoveEntry, MovesAll
      <3>2. ASSUME NEW j \in (i' + 1)..(oldCapacity - 1), oldTable[j] \in Ptrs
            PROVE  \/ oldTable[j] \in Entries(ptrTable')
                   \/ j = oldCapacity - 1 /\ tableCapacity' > 2 * oldCapacity - 1
        <4>1. CASE j = i BY <4>1, <2>2
        <4>2. CASE j # i
          <5>1. j \in (i + 1)..(oldCapacity - 1)
            BY <1>0, <1>6, <4>2 DEF MoveEntry, TypeOK
          <5> QED BY <1>0, <1>6, <2>2, <3>2, <5>1 DEF MoveEntry, MovesAll
        <4> QED BY <4>1, <4>2
      <3> QED BY <1>0, <1>6, <3>1, <3>2 DEF MoveEntry, MovesAll, Growing
    <2> QED BY <2>2, <2>3, <2>5 DEF IInv
  <1>7. CASE StartOver
    <2>1. tableCapacity \in Nat /\ tableCapacity >= 21
      BY <1>0, <1>7, HashAssumption DEF StartOver, TypeOK
    <2>2. tableCapacity' \in Nat /\ tableCapacity' > tableCapacity
      BY <1>7, <2>1, AdjustedIsLarger DEF StartOver
    <2>3. Sound(ptrTable', tableCapacity') /\ Entries(ptrTable') = {}
      BY <1>7, <2>1, <2>2, FreshIsSound DEF StartOver
    <2>a. Growing /\ Growing' /\ UNCHANGED <<oldTable, oldCapacity, inserting, answer>>
      BY <1>7 DEF StartOver, Growing
    <2>b. i' \in -1..(oldCapacity' - 1)
      BY <1>0, <1>7, <2>a, HashAssumption DEF StartOver, TypeOK
    <2>c. /\ tableCapacity' \in Nat /\ tableCapacity' >= InitSize
          /\ tableCapacity' >= 2 * oldCapacity - 1
      BY <1>0, <2>a, <2>1, <2>2, HashAssumption DEF TypeOK
    <2>d. ptrTable' \in [0..(tableCapacity' - 1) -> Bucket]
      BY <1>a, <2>3
    <2>4. TypeOK'
      BY <1>0, <2>a, <2>b, <2>c, <2>d DEF TypeOK
    <2>5. MovesAll'
      BY <1>0, <1>7, <2>2, <2>3 DEF StartOver, MovesAll, TypeOK, Growing
    <2> QED BY <2>3, <2>4, <2>5 DEF IInv
  <1>8. CASE FinishInsert
    <2>1. inserting \in Ptrs BY <1>0, <1>8 DEF FinishInsert, TypeOK, Growing
    <2>2. Sound(ptrTable', tableCapacity') /\ tableCapacity' = tableCapacity
      <3>1. CASE Store(inserting) BY <1>0, <2>1, <3>1, StoreStep
      <3>2. CASE UNCHANGED table BY <1>0, <3>2 DEF table
      <3> QED BY <1>8, <3>1, <3>2 DEF FinishInsert
    <2>a. oldTable' \in [0..(oldCapacity' - 1) -> Bucket]
      BY <1>8 DEF FinishInsert, Fresh, Bucket
    <2>b. /\ oldCapacity' = 0 /\ i' = -1 /\ inserting' = Nil /\ answer' \in Answers
      BY <1>0, <1>8 DEF FinishInsert, Answers, TypeOK
    <2>c. oldCapacity' \in Nat /\ i' \in -1..(oldCapacity' - 1)
      BY <2>b
    <2>d. tableCapacity' \in Nat /\ tableCapacity' >= InitSize
      BY <1>0, <2>2 DEF TypeOK
    <2>e. ptrTable' \in [0..(tableCapacity' - 1) -> Bucket]
      BY <1>a, <2>2
    <2>f. ~Growing' BY <2>b DEF Growing
    <2>3. TypeOK'
      BY <2>a, <2>b, <2>c, <2>d, <2>e, <2>f DEF TypeOK
    <2> QED BY <1>8, <2>2, <2>3 DEF IInv, MovesAll, Growing, FinishInsert
  <1>9. CASE UNCHANGED vars
    BY <1>0, <1>9 DEF vars, table, resize, IInv, TypeOK, MovesAll, Growing
  <1> QED BY <1>1, <1>2, <1>3, <1>4, <1>5, <1>6, <1>7, <1>8, <1>9 DEF Next, Resizing

(* The inductive invariant holds throughout. *)
THEOREM HashInvariant == Spec => []IInv
  BY InitIInv, StepIInv, PTL DEF Spec

(* The tables, the loop index and the pointer being inserted stay what the *)
(* code of JyHash.c takes them for.                                        *)
THEOREM HashTypeCorrect == Spec => []TypeOK
  <1>1. IInv => TypeOK BY DEF IInv
  <1> QED BY <1>1, HashInvariant, PTL

(* JyHash_insert, JyHash_delete, resize_ptrTable: no sequence of them      *)
(* hides an entry from getPos or stores it twice.                          *)
THEOREM HashFindable == Spec => []Findable
  <1>1. IInv => Findable BY DEF IInv, Sound, Findable
  <1> QED BY <1>1, HashInvariant, PTL

(* resize_ptrTable moves every entry it passes, the last bucket excepted   *)
(* after a new start.                                                      *)
THEOREM HashMovesAll == Spec => []MovesAll
  <1>1. IInv => MovesAll BY DEF IInv
  <1> QED BY <1>1, HashInvariant, PTL

(* A step of the table is a step of the lossy set, or changes nothing of   *)
(* what the table stands for.                                              *)
LEMMA StepRefines == IInv /\ [Next]_vars => [PS!LossyNext]_(PS!vars)
  <1> SUFFICES ASSUME IInv, [Next]_vars PROVE [PS!LossyNext]_(PS!vars)
    OBVIOUS
  <1> USE DEF PS!LossyNext, PS!vars
  <1>0. TypeOK /\ Sound(ptrTable, tableCapacity) /\ MovesAll
    BY DEF IInv
  <1>1. ASSUME NEW p \in Ptrs, Insert(p) PROVE PS!Exact(p)
    <2> USE DEF PS!Exact
    <2>1. ~Growing /\ ~Growing' BY <1>1 DEF Insert, resize, Growing
    <2>a. Growth = "none" /\ Growth' = "none" BY <2>1 DEF Growth
    <2>2. Tracked = Entries(ptrTable) /\ Tracked' = Entries(ptrTable')
      BY <2>1 DEF Tracked
    <2>3. CASE Finds(ptrTable, tableCapacity, p) /\ answer' = <<"insert", p, FALSE>> /\ UNCHANGED table
      <3>1. p \in Entries(ptrTable) BY <1>0, <2>3, FindsEntries
      <3> QED BY <2>a, <2>2, <2>3, <3>1 DEF PS!Insert, table
    <2>4. CASE Store(p) /\ answer' = <<"insert", p, TRUE>>
      BY <1>0, <2>a, <2>2, <2>4, StoreStep DEF PS!Insert
    <2> QED BY <1>1, <2>3, <2>4 DEF Insert
  <1>2. ASSUME NEW p \in Ptrs, Grow(p) PROVE PS!Grow
    <2>1. /\ ~Growing /\ Growing' /\ tableCapacity' = 2 * oldCapacity' - 1
          /\ Tracked' = Tracked /\ answer' = answer
      BY <1>2, HashAssumption DEF Grow, Tracked, Growing
    <2> QED BY <2>1 DEF PS!Grow, Growth
  <1>3. ASSUME NEW p \in Ptrs, Delete(p) PROVE PS!Exact(p)
    <2>1. ~Growing /\ ~Growing' BY <1>3 DEF Delete, resize, Growing
    <2>a. Growth = "none" /\ Growth' = "none" BY <2>1 DEF Growth
    <2>2. Tracked = Entries(ptrTable) /\ Tracked' = Entries(ptrTable')
      BY <2>1 DEF Tracked
    <2>3. answer' = <<"delete", p, p \in Entries(ptrTable)>>
      <3>1. Finds(ptrTable, tableCapacity, p) = (p \in Entries(ptrTable))
        BY <1>0, FindsValue
      <3>2. answer' = <<"delete", p, Finds(ptrTable, tableCapacity, p)>>
        BY <1>3 DEF Delete
      <3> QED BY <3>1, <3>2, Zenon
    <2>4. Entries(ptrTable') = Entries(ptrTable) \ {p}
      <3>1. CASE Finds(ptrTable, tableCapacity, p)
        BY <1>0, <1>3, <3>1, DeleteStep
      <3>2. CASE ~Finds(ptrTable, tableCapacity, p)
        <4>1. p \notin Entries(ptrTable) BY <1>0, <3>2, FindsEntries
        <4> QED BY <1>3, <3>2, <4>1 DEF Delete, Finds
      <3> QED BY <3>1, <3>2
    <2> QED BY <2>a, <2>2, <2>3, <2>4 DEF PS!Exact, PS!Delete
  <1>4. ASSUME NEW p \in Ptrs, Contains(p) PROVE PS!Exact(p)
    <2>1. /\ Tracked = Entries(ptrTable) /\ Tracked' = Tracked
          /\ Growth = "none" /\ Growth' = "none"
      BY <1>4 DEF Contains, Tracked, Growth, Growing, table, resize
    <2>2. Finds(ptrTable, tableCapacity, p) = (p \in Entries(ptrTable))
      BY <1>0, FindsValue
    <2>3. answer' = <<"contains", p, Finds(ptrTable, tableCapacity, p)>>
      BY <1>4 DEF Contains
    <2>4. answer' = <<"contains", p, p \in Entries(ptrTable)>>
      BY <2>2, <2>3, Zenon
    <2> QED BY <2>1, <2>4 DEF PS!Exact, PS!Contains
  <1>5. CASE SkipBucket \/ MoveEntry
    BY <1>5 DEF SkipBucket, MoveEntry, Store, Tracked, Growth, Growing, table
  <1>8. CASE StartOver
    <2>1. tableCapacity \in Nat /\ tableCapacity >= 21 /\ tableCapacity >= 2 * oldCapacity - 1
      BY <1>0, <1>8, HashAssumption DEF StartOver, TypeOK
    <2>2. tableCapacity' > tableCapacity /\ tableCapacity' \in Nat
      BY <1>8, <2>1, AdjustedIsLarger DEF StartOver
    <2>3. Growing /\ Growing' /\ UNCHANGED <<oldTable, oldCapacity, answer>>
      BY <1>8 DEF StartOver, Growing
    <2>4. Tracked' = Tracked BY <2>3 DEF Tracked
    <2>5. Growth \in {"once", "again"} /\ Growth' = "again"
      <3>1. tableCapacity' # 2 * oldCapacity - 1 BY <1>0, <2>1, <2>2 DEF TypeOK
      <3> QED BY <2>3, <3>1 DEF Growth
    <2> QED BY <2>3, <2>4, <2>5 DEF PS!StartOver
  <1>6. CASE FinishInsert
    <2> DEFINE last == oldTable[oldCapacity - 1]
               q == IF last \in Ptrs THEN last ELSE inserting
               gone == (Entries(oldTable) \cup {inserting}) \ Entries(ptrTable')
    <2>1. Growing /\ inserting \in Ptrs /\ i = -1 /\ answer' = <<"insert", inserting, TRUE>>
      BY <1>0, <1>6 DEF FinishInsert, TypeOK, Growing
    <2>2. Tracked = Entries(oldTable) /\ Tracked' = Entries(ptrTable')
      BY <1>6, <2>1 DEF FinishInsert, Tracked, Growing
    <2>3. \/ Entries(ptrTable') = Entries(ptrTable) \cup {inserting}
          \/ Entries(ptrTable') = Entries(ptrTable)
      <3>1. CASE Store(inserting) BY <1>0, <2>1, <3>1, StoreStep
      <3>2. CASE UNCHANGED table BY <3>2 DEF table
      <3> QED BY <1>6, <3>1, <3>2 DEF FinishInsert
    <2>4. Entries(ptrTable) \subseteq Entries(oldTable) /\ inserting \notin Entries(oldTable)
      BY <1>0, <2>1 DEF MovesAll
    <2>5. ASSUME NEW r \in Entries(oldTable), r \notin Entries(ptrTable) PROVE r = q
      <3>1. PICK j \in 0..(oldCapacity - 1) : oldTable[j] = r
        BY <1>0 DEF Entries, TypeOK
      <3>2. r \in Ptrs BY DEF Entries
      <3>3. j \in (i + 1)..(oldCapacity - 1) BY <2>1, <3>1
      <3>4. j = oldCapacity - 1
        BY <1>0, <2>1, <2>5, <3>1, <3>2, <3>3 DEF MovesAll
      <3> QED BY <3>1, <3>2, <3>4
    <2>a. tableCapacity = 2 * oldCapacity - 1 => Entries(oldTable) \subseteq Entries(ptrTable)
      <3> SUFFICES ASSUME tableCapacity = 2 * oldCapacity - 1, NEW r \in Entries(oldTable)
          PROVE  r \in Entries(ptrTable)
        OBVIOUS
      <3>1. PICK j \in 0..(oldCapacity - 1) : oldTable[j] = r
        BY <1>0 DEF Entries, TypeOK
      <3>2. r \in Ptrs BY DEF Entries
      <3>3. j \in (i + 1)..(oldCapacity - 1) BY <2>1, <3>1
      <3>4. ~(tableCapacity > 2 * oldCapacity - 1) BY <1>0 DEF TypeOK
      <3> QED BY <1>0, <2>1, <3>1, <3>2, <3>3, <3>4 DEF MovesAll
    <2>b. Growth = (IF tableCapacity = 2 * oldCapacity - 1 THEN "once" ELSE "again")
          /\ Growth' = "none"
      BY <1>6, <2>1 DEF Growth, FinishInsert, Growing
    <2>6. gone \in SUBSET (IF Growth = "again" THEN {inserting, q} ELSE {inserting})
      <3>1. CASE tableCapacity = 2 * oldCapacity - 1
        <4>1. Growth # "again" BY <2>b, <3>1
        <4>2. gone \subseteq {inserting} BY <2>3, <2>a, <3>1
        <4> QED BY <4>1, <4>2
      <3>2. CASE tableCapacity # 2 * oldCapacity - 1
        <4>1. Growth = "again" BY <2>b, <3>2
        <4>2. gone \subseteq {inserting, q} BY <2>3, <2>5
        <4> QED BY <4>1, <4>2
      <3> QED BY <3>1, <3>2
    <2>7. Tracked' = (Tracked \cup {inserting}) \ gone BY <2>2, <2>3, <2>4
    <2>8. q \in Ptrs BY <2>1
    <2>9. PS!Grown(inserting, q)
      <3> HIDE DEF gone, q
      <3> QED BY <2>1, <2>2, <2>4, <2>6, <2>7, <2>b DEF PS!Grown
    <2> QED BY <2>1, <2>8, <2>9
  <1>7. CASE UNCHANGED vars
    BY <1>7 DEF vars, table, resize, Tracked, Growth, Growing
  <1> QED BY <1>1, <1>2, <1>3, <1>4, <1>5, <1>6, <1>7, <1>8 DEF Next, Resizing

(* JyHash.c implements the lossy set of pointers, whatever the hashes: it  *)
(* is exact without growth, growth may lose the new pointer, and growth    *)
(* that starts over one more.                                              *)
THEOREM HashImplementsLossySet == Spec => ImplementsLossySet
  <1>1. Init => PS!Init
    <2> SUFFICES ASSUME Init PROVE Tracked = {} /\ Growth = "none"
      BY DEF PS!Init
    <2> QED BY FreshIsSound, HashAssumption DEF Init, Tracked, Growth, Growing
  <1> QED BY <1>1, StepRefines, HashInvariant, PTL
    DEF Spec, ImplementsLossySet, PS!LossySpec
=============================================================================
