--------------------------- MODULE NativeClearProofs ---------------------------
(***************************************************************************)
(* Proofs about NativeClear, for every chunk of objects, every heap they   *)
(* are in, and any number of references from outside.                      *)
(***************************************************************************)
EXTENDS NativeClear, FiniteSetTheorems, TLAPS

-----------------------------------------------------------------------------
(* Counting references *)

Outside == Objs \ InPool

(* The members of the pool are objects. *)
LEMMA PoolObjects == InPool \subseteq Objs
  BY ClearAssumption DEF ClearAssumption, InPool

(* A slot belongs to an object. *)
LEMMA SlotOwner == \A s \in Slots : s[1] \in Objs
  BY ClearAssumption DEF ClearAssumption

(* What a set of objects refers to an object with is a finite set. *)
LEMMA ReferringFinite ==
  ASSUME NEW S, NEW o
  PROVE  /\ IsFiniteSet(Referring(S, o))
         /\ InDegree(S, o) \in Nat
         /\ InDegree(S, o) = 0 <=> Referring(S, o) = {}
<1>1. Referring(S, o) \subseteq Slots
  BY DEF Referring, SlotsOf
<1>2. IsFiniteSet(Slots)
  BY ClearAssumption DEF ClearAssumption
<1>3. IsFiniteSet(Referring(S, o))
  BY <1>1, <1>2, FS_Subset
<1> QED BY <1>3, FS_CardinalityType, FS_EmptySet DEF InDegree

(* References come from the pool or from outside: visit_refCheckDec takes  *)
(* off exactly the former.                                                 *)
LEMMA InDegreeSplit ==
  ASSUME NEW o
  PROVE  InDegree(Objs, o) = InDegree(InPool, o) + InDegree(Outside, o)
<1>1. Referring(Objs, o) = Referring(InPool, o) \cup Referring(Outside, o)
  BY PoolObjects DEF Referring, SlotsOf, Outside
<1>2. Referring(InPool, o) \cap Referring(Outside, o) = {}
  BY DEF Referring, SlotsOf, Outside
<1>3. /\ IsFiniteSet(Referring(InPool, o)) /\ IsFiniteSet(Referring(Outside, o))
      /\ InDegree(InPool, o) \in Nat /\ InDegree(Outside, o) \in Nat
  BY ReferringFinite
<1>4. Cardinality(Referring(InPool, o) \cap Referring(Outside, o)) = 0
  BY <1>2, FS_EmptySet
<1>5. Cardinality(Referring(InPool, o) \cup Referring(Outside, o))
        = Cardinality(Referring(InPool, o)) + Cardinality(Referring(Outside, o))
          - Cardinality(Referring(InPool, o) \cap Referring(Outside, o))
  BY <1>3, FS_Union
<1> QED BY <1>1, <1>3, <1>4, <1>5 DEF InDegree

-----------------------------------------------------------------------------
(* What the search establishes, and what other threads cannot undo.        *)

(* The objects the cycle leaves as they are. *)
Kept == IF invalid THEN Objs \ loose ELSE Outside

HeapTypes ==
  /\ contents \in [Slots -> Objs \cup {Null}]
  /\ ext \in [Objs -> Nat] /\ weak \in [Objs -> Nat]
  /\ pc \in {"seed", "bfs", "report", "window", "loop", "decref", "left"}
  /\ invalid \in BOOLEAN
  /\ loose \subseteq InPool /\ frontier \subseteq InPool \ loose
  /\ ~invalid => frontier = {}

(* Before the search nothing has happened. *)
BeforeSearch ==
  pc = "seed" =>
    /\ \A o \in Objs : rc[o] = 1 + ext[o] + weak[o] + InDegree(Objs, o)
    /\ NoDrops /\ toRestore = {} /\ consumed = Null /\ restoring = Null
    /\ loose = {} /\ ~invalid

(* A thread's own references are to kept objects, and so are those of      *)
(* every kept object whose turn in the search is over.                     *)
KeptClosed ==
  pc # "seed" =>
    /\ \A o \in Objs : ext[o] > 0 => o \in Kept
    /\ \A s \in Slots :
         s[1] \in Kept /\ contents[s] # Null =>
           contents[s] \in Kept \/ (pc = "bfs" /\ s[1] \in frontier)

SearchInv == HeapTypes /\ BeforeSearch /\ KeptClosed

(* Outside the pool, and among what is resurrected, everything is kept. *)
LEMMA RootsKept ==
  ASSUME SearchInv, pc # "seed"
  PROVE  Roots \subseteq Kept
<1>1. Outside \subseteq Kept
  BY DEF Kept, Outside, SearchInv, HeapTypes
<1>2. Resurrected \subseteq Kept
  BY PoolObjects DEF Resurrected, ToResurrect, Kept
<1> QED BY <1>1, <1>2 DEF SearchInv, KeptClosed, Roots, Outside

(* Once the search is over, threads can only reach what is kept. *)
LEMMA ReachableKept ==
  ASSUME SearchInv, pc \notin {"seed", "bfs"}
  PROVE  Reachable \subseteq Kept /\ Kept \cap loose = {}
<1>1. Kept \subseteq Objs
  BY DEF Kept, Outside
<1>2. Roots \subseteq Kept /\ Closed(Kept)
  BY RootsKept DEF SearchInv, KeptClosed, Closed, SlotsOf
<1>3. Reachable \subseteq Kept
  BY <1>1, <1>2 DEF Reachable
<1> QED BY <1>3 DEF Kept, Outside, SearchInv, HeapTypes

(* The heap may have any shape at first. *)
LEMMA SearchInit == Init => SearchInv
<1> SUFFICES ASSUME Init PROVE SearchInv
  OBVIOUS
<1>1. HeapTypes
  <2>1. ext \in [Objs -> Nat] /\ weak \in [Objs -> Nat]
    <3>1. ext \in [Objs -> 0..MaxExt] /\ weak \in [Objs -> 0..1]
      BY DEF Init
    <3>2. 0..MaxExt \subseteq Nat /\ 0..1 \subseteq Nat
      OBVIOUS
    <3> QED BY <3>1, <3>2
  <2> QED BY <2>1 DEF Init, HeapTypes
<1>2. BeforeSearch /\ KeptClosed
  BY DEF Init, BeforeSearch, KeptClosed, NoDrops
<1> QED BY <1>1, <1>2 DEF SearchInv

(* checkReferenceGraph's counting: an object of the pool found explained   *)
(* has no reference from outside, neither by a thread nor by an object.    *)
LEMMA SeedStep ==
  ASSUME SearchInv, Seed
  PROVE  SearchInv'
<1>1. /\ pc = "seed" /\ pc' = "bfs"
      /\ UNCHANGED <<contents, ext, weak, rc, heads, alive, drops>>
      /\ loose' = {o \in InPool : Unexplained(o) = 1}
      /\ invalid' = (\E o \in InPool : Unexplained(o) - weak[o] > 1)
      /\ frontier' = IF invalid' THEN InPool \ loose' ELSE {}
  BY DEF Seed, heapVars
<1>2. HeapTypes'
  BY <1>1 DEF SearchInv, HeapTypes
<1>3. \A o \in InPool : /\ Unexplained(o) = 1 + ext[o] + weak[o] + InDegree(Outside, o)
                        /\ ext[o] \in Nat /\ weak[o] \in Nat /\ InDegree(Outside, o) \in Nat
  <2> TAKE o \in InPool
  <2>1. rc[o] = 1 + ext[o] + weak[o] + InDegree(Objs, o)
    BY <1>1, PoolObjects DEF SearchInv, BeforeSearch
  <2>2. /\ InDegree(Objs, o) = InDegree(InPool, o) + InDegree(Outside, o)
        /\ InDegree(InPool, o) \in Nat /\ InDegree(Outside, o) \in Nat
    BY InDegreeSplit, ReferringFinite
  <2>3. ext[o] \in Nat /\ weak[o] \in Nat
    BY PoolObjects DEF SearchInv, HeapTypes
  <2> QED BY <2>1, <2>2, <2>3 DEF Unexplained
<1>4. KeptClosed'
  <2>1. CASE invalid'
    <3>1. Kept' = Objs \ loose'
      BY <2>1 DEF Kept
    <3>2. \A o \in loose' : ext[o] = 0 /\ Referring(Outside, o) = {}
      BY <1>1, <1>3, ReferringFinite
    <3>3. \A o \in Objs : ext'[o] > 0 => o \in Kept'
      BY <1>1, <3>1, <3>2
    <3>4. ASSUME NEW s \in Slots, s[1] \in Kept', contents[s] # Null, contents[s] \notin Kept'
          PROVE  s[1] \in frontier'
      <4>1. contents[s] \in loose'
        BY <3>1, <3>4 DEF SearchInv, HeapTypes
      <4>2. s[1] \notin Outside
        BY <3>2, <4>1 DEF Referring, SlotsOf
      <4> QED BY <1>1, <2>1, <3>1, <3>4, <4>2, SlotOwner DEF Outside
    <3>5. \A s \in Slots : s[1] \in Kept' /\ contents'[s] # Null =>
            contents'[s] \in Kept' \/ s[1] \in frontier'
      BY <1>1, <3>4
    <3>6. pc' = "bfs"
      BY <1>1
    <3> QED BY <3>3, <3>5, <3>6 DEF KeptClosed
  <2>2. CASE ~invalid'
    <3>1. Kept' = Outside
      BY <2>2 DEF Kept, Outside
    <3>2. \A o \in InPool : ext[o] = 0 /\ Referring(Outside, o) = {}
      BY <1>1, <1>3, <2>2, ReferringFinite
    <3>3. \A o \in Objs : ext'[o] > 0 => o \in Kept'
      BY <1>1, <3>1, <3>2 DEF SearchInv, HeapTypes, Outside
    <3>4. ASSUME NEW s \in Slots, s[1] \in Outside, contents[s] # Null
          PROVE  contents[s] \in Outside
      <4>1. contents[s] \notin InPool
        BY <3>2, <3>4 DEF Referring, SlotsOf
      <4> QED BY <3>4, <4>1 DEF SearchInv, HeapTypes, Outside
    <3>5. \A s \in Slots : s[1] \in Kept' /\ contents'[s] # Null => contents'[s] \in Kept'
      BY <1>1, <3>1, <3>4
    <3>6. pc' = "bfs"
      BY <1>1
    <3> QED BY <3>3, <3>5, <3>6 DEF KeptClosed
  <2> QED BY <2>1, <2>2
<1> QED BY <1>1, <1>2, <1>4 DEF SearchInv, BeforeSearch

(* A step that drops references, and makes new ones only to kept objects,  *)
(* and leaves the verdict alone.                                           *)
LEMMA KeptFrame ==
  ASSUME SearchInv, pc # "seed", UNCHANGED <<loose, frontier, invalid>>,
         pc' \in {"bfs", "report", "window", "loop", "decref", "left"},
         pc = "bfs" => pc' = "bfs" \/ frontier = {},
         contents' \in [Slots -> Objs \cup {Null}],
         ext' \in [Objs -> Nat], weak' \in [Objs -> Nat],
         \A o \in Objs : ext'[o] > 0 => ext[o] > 0 \/ o \in Kept,
         \A s \in Slots : contents'[s] \in {contents[s], Null} \cup Kept
  PROVE  SearchInv'
<1>1. HeapTypes'
  BY DEF SearchInv, HeapTypes
<1>2. Kept' = Kept
  BY DEF Kept
<1>3. \A o \in Objs : ext'[o] > 0 => o \in Kept'
  BY <1>2 DEF SearchInv, KeptClosed
<1>4. \A s \in Slots :
        s[1] \in Kept' /\ contents'[s] # Null =>
          contents'[s] \in Kept' \/ (pc' = "bfs" /\ s[1] \in frontier')
  BY <1>2 DEF SearchInv, KeptClosed
<1>5. KeptClosed'
  BY <1>3, <1>4 DEF KeptClosed
<1> QED BY <1>1, <1>5 DEF SearchInv, BeforeSearch

(* Emptying an object only removes references. *)
LEMMA EmptiedTypes ==
  ASSUME contents \in [Slots -> Objs \cup {Null}], NEW o
  PROVE  /\ Emptied(o) \in [Slots -> Objs \cup {Null}]
         /\ \A s \in Slots : Emptied(o)[s] \in {contents[s], Null}
  BY DEF Emptied

(* One round: what the frontier refers to is kept, too, and is the next    *)
(* frontier.                                                               *)
LEMMA RoundStep ==
  ASSUME SearchInv, SearchRound
  PROVE  SearchInv'
<1>1. /\ pc = "bfs" /\ frontier # {} /\ UNCHANGED <<contents, ext, weak, pc, invalid>>
      /\ frontier' = {o \in loose : Referring(frontier, o) # {}}
      /\ loose' = loose \ frontier'
  BY DEF SearchRound, heapVars
<1>2. invalid /\ frontier \subseteq InPool \ loose /\ loose \subseteq InPool
  BY <1>1 DEF SearchInv, HeapTypes
<1>3. HeapTypes'
  BY <1>1, <1>2 DEF SearchInv, HeapTypes
<1>4. Kept = Objs \ loose /\ Kept' = Objs \ loose' /\ Kept \subseteq Kept'
  BY <1>1, <1>2 DEF Kept
<1>5. \A o \in Objs : ext'[o] > 0 => o \in Kept'
  BY <1>1, <1>4 DEF SearchInv, KeptClosed
<1>6. ASSUME NEW s \in Slots, s[1] \in Kept', contents'[s] # Null
      PROVE  contents'[s] \in Kept' \/ (pc' = "bfs" /\ s[1] \in frontier')
  <2>1. contents'[s] = contents[s] /\ contents[s] \in Objs
    BY <1>1, <1>6 DEF SearchInv, HeapTypes
  <2>2. CASE s[1] \in Kept
    <3>1. contents[s] \in Kept \/ s[1] \in frontier
      BY <1>1, <1>6, <2>1, <2>2 DEF SearchInv, KeptClosed
    <3>2. s[1] \in frontier => contents[s] \notin loose \/ contents[s] \in frontier'
      BY <1>1 DEF Referring, SlotsOf
    <3> QED BY <1>1, <1>4, <2>1, <3>1, <3>2
  <2>3. CASE s[1] \notin Kept
    BY <1>1, <1>4, <1>6, <2>3
  <2> QED BY <2>2, <2>3
<1>7. KeptClosed'
  BY <1>5, <1>6 DEF KeptClosed
<1> QED BY <1>1, <1>3, <1>7 DEF SearchInv, BeforeSearch

(* No step of the cycle, and none of the other threads in its window, lets *)
(* a kept object refer to one that is not.                                 *)
LEMMA SearchStep ==
  ASSUME SearchInv, [Next]_vars
  PROVE  SearchInv'
<1> USE DEF SearchInv, HeapTypes, heapVars, restVars
<1>0. CASE UNCHANGED vars
  BY <1>0
  DEF vars, BeforeSearch, KeptClosed, Kept, InDegree, Referring, SlotsOf, NoDrops
<1>1. CASE Seed
  BY <1>1, SeedStep
<1>2. CASE SearchRound
  BY <1>2, RoundStep
<1>3. CASE SearchDone
  BY <1>3, KeptFrame DEF SearchDone
<1>4. CASE ReportDeletions
  BY <1>4, KeptFrame DEF ReportDeletions
<1>5. CASE EndWindow
  BY <1>5, KeptFrame DEF EndWindow
<1>6. CASE RestoreStore
  BY <1>6, KeptFrame DEF RestoreStore, BeforeSearch
<1>7. CASE ClearCurrent
  <2>1. contents' \in [Slots -> Objs \cup {Null}]
        /\ \A s \in Slots : contents'[s] \in {contents[s], Null}
    BY <1>7, EmptiedTypes DEF ClearCurrent
  <2> QED BY <1>7, <2>1, KeptFrame DEF ClearCurrent
<1>8. CASE DecrefCurrent
  BY <1>8, KeptFrame DEF DecrefCurrent
<1>9. CASE Leave
  BY <1>9, KeptFrame DEF Leave
<1>10. ASSUME NEW o \in Objs, ConsumeConfirmation(o) PROVE SearchInv'
  BY <1>10, KeptFrame DEF ConsumeConfirmation, BeforeSearch
<1>11. ASSUME NEW o \in Objs, Drop(o) PROVE SearchInv'
  <2>1. pc # "seed"
    BY <1>11 DEF Drop, BeforeSearch, NoDrops
  <2>2. contents' \in [Slots -> Objs \cup {Null}]
        /\ \A s \in Slots : contents'[s] \in {contents[s], Null}
    BY <1>11, EmptiedTypes DEF Drop
  <2> QED BY <1>11, <2>1, <2>2, KeptFrame DEF Drop
<1>12. ASSUME NEW o \in Objs, TakeRef(o) PROVE SearchInv'
  <2>1. o \in Kept
    BY <1>12, ReachableKept DEF TakeRef, Unlocked
  <2>2. ext' \in [Objs -> Nat] /\ \A p \in Objs : ext'[p] > 0 => ext[p] > 0 \/ p \in Kept
    BY <1>12, <2>1 DEF TakeRef
  <2> QED BY <1>12, <2>2, KeptFrame DEF TakeRef, Unlocked
<1>13. ASSUME NEW o \in Objs, GiveUpRef(o) PROVE SearchInv'
  <2>1. ext' \in [Objs -> Nat] /\ \A p \in Objs : ext'[p] > 0 => ext[p] > 0
    BY <1>13 DEF GiveUpRef
  <2> QED BY <1>13, <2>1, KeptFrame DEF GiveUpRef, Unlocked
<1>14. ASSUME NEW o \in Objs, ReleaseWeakReferent(o) PROVE SearchInv'
  <2>1. weak' \in [Objs -> Nat]
    BY <1>14 DEF ReleaseWeakReferent
  <2> QED BY <1>14, <2>1, KeptFrame DEF ReleaseWeakReferent, Unlocked
<1>15. ASSUME NEW s \in Slots, NEW o \in Objs, Store(s, o) PROVE SearchInv'
  <2>1. o \in Kept
    BY <1>15, ReachableKept DEF Store, Unlocked
  <2>2. contents' \in [Slots -> Objs \cup {Null}]
        /\ \A t \in Slots : contents'[t] \in {contents[t]} \cup Kept
    BY <1>15, <2>1 DEF Store
  <2> QED BY <1>15, <2>2, KeptFrame DEF Store, Unlocked
<1>16. CASE RestoreLoad
  BY <1>16, KeptFrame DEF RestoreLoad, BeforeSearch
<1> QED
  BY <1>0, <1>1, <1>2, <1>3, <1>4, <1>5, <1>6, <1>7, <1>8, <1>9, <1>10, <1>11, <1>12,
     <1>13, <1>14, <1>15, <1>16
  DEF Next

(* Whatever other threads do while the reaper waits without the GIL, what  *)
(* JyGC_clearNativeReferences is about to clear is out of their reach; not *)
(* even the unlocked increment of JyGC_restoreCStubBackend changes that.   *)
THEOREM ClearingIsSafe == Spec => []ClearSparesReachable
<1>1. Init => SearchInv
  BY SearchInit
<1>2. SearchInv /\ [Next]_vars => SearchInv'
  BY SearchStep
<1>3. SearchInv => ClearSparesReachable
  BY ReachableKept DEF ClearSparesReachable
<1> QED BY <1>1, <1>2, <1>3, PTL DEF Spec

-----------------------------------------------------------------------------
(***************************************************************************)
(* Reference counts stay exact, but for those of objects that a finalizer  *)
(* has begun to resurrect: it increments them without the GIL, and perhaps *)
(* after the reaper has stopped waiting for it.  What becomes of them does *)
(* not spread to any other object.                                         *)
(***************************************************************************)

-----------------------------------------------------------------------------
(* How the number of references changes with the contents                  *)

(* tp_clear and tp_dealloc take away as many references as they drop. *)
LEMMA EmptiedCount ==
  ASSUME contents \in [Slots -> Objs \cup {Null}],
         NEW o, contents' = Emptied(o), NEW p \in Objs
  PROVE  /\ InDegree(Objs, p) = InDegree(Objs, p)' + InDegree({o}, p)
         /\ InDegree(Objs, p)' \in Nat
<1>1. p # Null
  BY ClearAssumption DEF ClearAssumption
<1>2. Referring(Objs, p) = Referring(Objs, p)' \cup (Referring({o}, p) \cap Slots)
  BY <1>1, SlotOwner DEF Referring, SlotsOf, Emptied
<1>3. Referring({o}, p) \cap Slots = Referring({o}, p)
  BY DEF Referring, SlotsOf
<1>4. Referring(Objs, p)' \cap Referring({o}, p) = {}
  BY <1>1 DEF Referring, SlotsOf, Emptied
<1>5. /\ IsFiniteSet(Referring(Objs, p)) /\ IsFiniteSet(Referring({o}, p))
      /\ InDegree({o}, p) \in Nat
  BY ReferringFinite
<1>6. IsFiniteSet(Referring(Objs, p)')
  BY <1>2, <1>5, FS_Subset
<1>7. Cardinality(Referring(Objs, p)' \cap Referring({o}, p)) = 0
  BY <1>4, FS_EmptySet
<1>8. Cardinality(Referring(Objs, p)' \cup Referring({o}, p))
        = Cardinality(Referring(Objs, p)') + Cardinality(Referring({o}, p))
          - Cardinality(Referring(Objs, p)' \cap Referring({o}, p))
  BY <1>5, <1>6, FS_Union
<1>9. Cardinality(Referring(Objs, p)') \in Nat
  BY <1>6, FS_CardinalityType
<1>10. Referring(Objs, p) = Referring(Objs, p)' \cup Referring({o}, p)
  BY <1>2, <1>3
<1>11. /\ InDegree(Objs, p) = Cardinality(Referring(Objs, p)' \cup Referring({o}, p))
       /\ InDegree(Objs, p)' = Cardinality(Referring(Objs, p)')
       /\ InDegree({o}, p) = Cardinality(Referring({o}, p))
  BY <1>10 DEF InDegree
<1> QED BY <1>5, <1>7, <1>8, <1>9, <1>11

(* Storing an object in a slot adds one reference to it and takes one from *)
(* what was there.                                                         *)
LEMMA StoredCount ==
  ASSUME contents \in [Slots -> Objs \cup {Null}], NEW s \in Slots, NEW o \in Objs,
         contents' = [contents EXCEPT ![s] = o], NEW p \in Objs
  PROVE  InDegree(Objs, p)' = InDegree(Objs, p) + (IF p = o THEN 1 ELSE 0)
                              - (IF p = contents[s] THEN 1 ELSE 0)
<1> DEFINE Others == Referring(Objs, p) \ {s}
<1>1. IsFiniteSet(Referring(Objs, p)) /\ IsFiniteSet(Others) /\ s \notin Others
  BY ReferringFinite, FS_Subset
<1>2. /\ Cardinality(Others) \in Nat
      /\ Cardinality(Others \cup {s}) = Cardinality(Others) + 1
  BY <1>1, FS_CardinalityType, FS_AddElement
<1>3. Referring(Objs, p) = IF p = contents[s] THEN Others \cup {s} ELSE Others
  BY SlotOwner DEF Referring, SlotsOf
<1>4. Referring(Objs, p)' = IF p = o THEN Others \cup {s} ELSE Others
  BY SlotOwner DEF Referring, SlotsOf
<1> HIDE DEF Others
<1> QED BY <1>2, <1>3, <1>4 DEF InDegree

-----------------------------------------------------------------------------
(* The invariant *)

Refs(o) == heads[o] + ext[o] + weak[o] + InDegree(Objs, o) + drops[o]

CountTypes ==
  /\ contents \in [Slots -> Objs \cup {Null}]
  /\ ext \in [Objs -> 0..MaxExt] /\ weak \in [Objs -> 0..1]
  /\ heads \in [Objs -> 0..2] /\ drops \in [Objs -> Nat]
  /\ rc \in [Objs -> Int] /\ alive \subseteq Objs

(* Also of deallocated objects: they have no references left. *)
Exact ==
  \A o \in Objs \ Resurrected : rc[o] = Refs(o) /\ (o \in alive \/ rc[o] = 0)

(* Where the cycle stands: reports are consumed only while the reaper is   *)
(* waiting, but the resurrections may go on after that.                    *)
Control ==
  /\ pc \in {"seed", "bfs", "report", "window", "loop", "decref", "left"}
  /\ pos \in 1..(Len(Pool) + 1)
  /\ loose \subseteq InPool /\ frontier \subseteq InPool
  /\ invalid \in BOOLEAN
  /\ loaded \in Int
  /\ pc \in {"seed", "bfs", "report", "window"} => pos = 1
  /\ pc = "decref" => pos \in DOMAIN Pool
  /\ toRestore \subseteq ToResurrect
  /\ toRestore # {} => pc = "window"
  /\ consumed # Null => consumed \in Resurrected /\ restoring = Null
  /\ restoring # Null => restoring \in Resurrected /\ consumed = Null

(* Until the delete loop has reached it, an object of the pool has the     *)
(* reference of its old head; it gets that of a new one at most once.      *)
Heads ==
  /\ pc \in {"seed", "bfs", "report"} => \A o \in Objs : heads[o] = 1
  /\ \A i \in DOMAIN Pool : i >= pos => heads[Pool[i]] >= 1
  /\ \A o \in Outside \cup toRestore : heads[o] = 1
  /\ \A o \in {consumed, restoring} \ {Null} : heads[o] <= 1

CountInv == CountTypes /\ Exact /\ Control /\ Heads

(* What a step has to keep exact.                                          *)
ExactKept ==
  \A o \in Objs \ Resurrected : rc'[o] = Refs(o)' /\ (o \in alive' \/ rc'[o] = 0)

(* All the parts of a count are natural numbers. *)
LEMMA RefParts ==
  ASSUME CountTypes, NEW o \in Objs
  PROVE  /\ heads[o] \in Nat /\ ext[o] \in Nat /\ weak[o] \in Nat
         /\ InDegree(Objs, o) \in Nat /\ drops[o] \in Nat /\ Refs(o) \in Nat
<1>1. /\ heads[o] \in 0..2 /\ ext[o] \in 0..MaxExt /\ weak[o] \in 0..1 /\ drops[o] \in Nat
      /\ MaxExt \in Nat
  BY ClearAssumption DEF CountTypes, ClearAssumption
<1>2. InDegree(Objs, o) \in Nat
  BY ReferringFinite
<1> QED BY <1>1, <1>2 DEF Refs

(* A reference taken out of a slot is a decref due: the sum is the same. *)
LEMMA ShiftedSum ==
  ASSUME NEW a \in Nat, NEW b \in Nat, NEW c \in Nat, NEW d \in Nat, NEW e \in Nat,
         NEW k \in Nat
  PROVE  a + b + c + (d + k) + e = a + b + c + d + (e + k)
  OBVIOUS

(* What is resurrected has not been judged loose. *)
LEMMA ResurrectedPool == Resurrected \subseteq InPool \ loose /\ ToResurrect \subseteq InPool \ loose
  BY DEF Resurrected, ToResurrect

(* Nobody refers to a deallocated object. *)
LEMMA DeadUnreferenced ==
  ASSUME CountInv, NEW o \in Objs \ Resurrected, o \notin alive
  PROVE  /\ heads[o] = 0 /\ ext[o] = 0 /\ weak[o] = 0 /\ drops[o] = 0
         /\ Referring(Objs, o) = {} /\ o \notin Reachable
<1>1. /\ heads[o] = 0 /\ ext[o] = 0 /\ weak[o] = 0 /\ drops[o] = 0 /\ InDegree(Objs, o) = 0
  <2>1. heads[o] + ext[o] + weak[o] + InDegree(Objs, o) + drops[o] = 0
    BY DEF CountInv, Exact, Refs
  <2>2. /\ heads[o] \in Nat /\ ext[o] \in Nat /\ weak[o] \in Nat
        /\ InDegree(Objs, o) \in Nat /\ drops[o] \in Nat
    BY RefParts DEF CountInv
  <2> DEFINE h == heads[o]  x == ext[o]  w == weak[o]  k == InDegree(Objs, o)  d == drops[o]
  <2>3. /\ h \in Nat /\ x \in Nat /\ w \in Nat /\ k \in Nat /\ d \in Nat
        /\ h + x + w + k + d = 0
    BY <2>1, <2>2
  <2> HIDE DEF h, x, w, k, d
  <2>4. h = 0 /\ x = 0 /\ w = 0 /\ k = 0 /\ d = 0
    BY <2>3
  <2> QED BY <2>4 DEF h, x, w, k, d
<1>2. Referring(Objs, o) = {}
  BY <1>1, ReferringFinite
<1>3. Roots \subseteq Objs \ {o}
  <2>1. o \notin Outside
    BY <1>1 DEF CountInv, Heads
  <2>2. Resurrected \subseteq Objs
    BY PoolObjects DEF Resurrected, ToResurrect
  <2> QED BY <1>1, <2>1, <2>2 DEF Roots, Outside
<1>4. Closed(Objs \ {o})
  BY <1>2, SlotOwner DEF Closed, SlotsOf, Referring, CountInv, CountTypes
<1>5. o \notin Reachable
  BY <1>3, <1>4 DEF Reachable
<1> QED BY <1>1, <1>2, <1>5

(* The counts are exact at first. *)
LEMMA CountInit == Init => CountInv
<1> SUFFICES ASSUME Init PROVE CountInv
  OBVIOUS
<1>1. MaxExt \in Nat /\ Pool \in Seq(Objs)
  BY ClearAssumption DEF ClearAssumption
<1>2. \A o \in Objs : InDegree(Objs, o) \in Nat
  BY ReferringFinite
<1>3. /\ contents \in [Slots -> Objs \cup {Null}]
      /\ ext \in [Objs -> 0..MaxExt] /\ weak \in [Objs -> 0..1]
  BY DEF Init
<1>4. \A o \in Objs : ext[o] \in Nat /\ weak[o] \in Nat
  BY <1>1, <1>3
<1>5. CountTypes
  BY <1>2, <1>3, <1>4 DEF Init, CountTypes
<1>6. Exact
  BY <1>2, <1>4 DEF Init, Exact, Refs
<1>7. Control
  <2>1. 1 \in 1..(Len(Pool) + 1)
    BY <1>1
  <2>2. /\ pc = "seed" /\ pos = 1 /\ loose = {} /\ frontier = {} /\ invalid = FALSE
        /\ toRestore = {} /\ consumed = Null /\ restoring = Null /\ loaded = 0
    BY DEF Init
  <2>3. /\ pos \in 1..(Len(Pool) + 1) /\ loaded \in Int
        /\ loose \subseteq InPool /\ frontier \subseteq InPool
        /\ toRestore \subseteq ToResurrect
    BY <2>1, <2>2
  <2>4. invalid \in BOOLEAN
    BY <2>2
  <2> QED BY <2>2, <2>3, <2>4 DEF Control
<1>8. Heads
  BY <1>1, PoolObjects DEF Init, Heads, InPool, Outside
<1> QED BY <1>5, <1>6, <1>7, <1>8 DEF CountInv

-----------------------------------------------------------------------------
(* Every step keeps the counts exact                                       *)

(* References do not change as long as the contents do not. *)
LEMMA InDegreeFrame ==
  ASSUME UNCHANGED contents, NEW S, NEW o
  PROVE  InDegree(S, o)' = InDegree(S, o)
  BY DEF InDegree, Referring, SlotsOf

(* A step of the cycle that leaves the heap alone. *)
LEMMA HeapFrame ==
  ASSUME CountTypes, Exact, UNCHANGED heapVars
  PROVE  CountTypes' /\ ExactKept
<1>1. CountTypes'
  BY DEF CountTypes, heapVars
<1>2. \A o \in Objs : InDegree(Objs, o)' = InDegree(Objs, o)
  BY InDegreeFrame DEF heapVars
<1> QED BY <1>1, <1>2 DEF Exact, ExactKept, Refs, heapVars

(* Storing the incremented count, or having it overwritten, concerns only  *)
(* the object that is resurrected.                                         *)
LEMMA RestoreCount ==
  ASSUME CountInv, RestoreStore
  PROVE  CountTypes' /\ ExactKept
<1>1. /\ restoring \in Objs /\ restoring \in Resurrected /\ heads[restoring] \in 0..1
      /\ heads' = [heads EXCEPT ![restoring] = heads[restoring] + 1]
      /\ UNCHANGED <<contents, ext, weak, alive, drops>>
  <2>1. restoring \in Resurrected /\ restoring \in Objs /\ heads[restoring] <= 1
    BY PoolObjects, ResurrectedPool DEF RestoreStore, CountInv, Control, Heads
  <2>2. heads[restoring] \in 0..2
    BY <2>1 DEF CountInv, CountTypes
  <2> QED BY <2>1, <2>2 DEF RestoreStore
<1>2. /\ rc' \in [Objs -> Int]
      /\ \A o \in Objs : o # restoring => rc'[o] = rc[o] /\ heads'[o] = heads[o]
  <2>1. loaded \in Int
    BY DEF CountInv, Control
  <2> QED BY <1>1, <2>1 DEF RestoreStore, CountInv, CountTypes
<1>3. CountTypes'
  <2>1. heads[restoring] + 1 \in 0..2
    BY <1>1
  <2> QED BY <1>1, <1>2, <2>1 DEF CountInv, CountTypes
<1>4. \A o \in Objs : InDegree(Objs, o)' = InDegree(Objs, o)
  BY <1>1, InDegreeFrame
<1> QED BY <1>1, <1>2, <1>3, <1>4 DEF CountInv, Exact, ExactKept, Refs

(* Emptying an object leaves as many references as decrefs that are due. *)
LEMMA ClearCount ==
  ASSUME CountInv, ClearCurrent
  PROVE  CountTypes' /\ ExactKept
<1>1. CASE UNCHANGED <<contents, drops>>
  BY <1>1, HeapFrame DEF ClearCurrent, CountInv, heapVars
<1>2. CASE contents' = Emptied(Current) /\ drops' = DropsAfter(Current)
  <2>1. UNCHANGED <<ext, weak, heads, rc, alive>>
    BY DEF ClearCurrent
  <2>2. \A p \in Objs : /\ drops'[p] = drops[p] + InDegree({Current}, p)
                        /\ InDegree({Current}, p) \in Nat
    BY <1>2, ReferringFinite DEF DropsAfter
  <2>3. CountTypes'
    <3>1. contents' \in [Slots -> Objs \cup {Null}]
      BY <1>2, EmptiedTypes DEF CountInv, CountTypes
    <3>2. drops' \in [Objs -> Nat]
      <4>1. ASSUME NEW p \in Objs PROVE drops[p] + InDegree({Current}, p) \in Nat
        <5>1. drops[p] \in Nat /\ InDegree({Current}, p) \in Nat
          BY <2>2 DEF CountInv, CountTypes
        <5> QED BY <5>1
      <4> QED BY <1>2, <4>1 DEF DropsAfter
    <3> QED BY <2>1, <3>1, <3>2 DEF CountInv, CountTypes
  <2>4. ASSUME NEW p \in Objs PROVE Refs(p)' = Refs(p)
    <3>1. /\ InDegree(Objs, p) = InDegree(Objs, p)' + InDegree({Current}, p)
          /\ InDegree(Objs, p)' \in Nat
      BY <1>2, EmptiedCount DEF CountInv, CountTypes
    <3>3. drops[p] \in Nat /\ heads[p] \in Nat /\ ext[p] \in Nat /\ weak[p] \in Nat
      BY RefParts DEF CountInv
    <3>4. Refs(p)' = heads[p] + ext[p] + weak[p] + InDegree(Objs, p)'
                     + (drops[p] + InDegree({Current}, p))
      BY <2>1, <2>2 DEF Refs
    <3>5. Refs(p) = heads[p] + ext[p] + weak[p]
                    + (InDegree(Objs, p)' + InDegree({Current}, p)) + drops[p]
      BY <3>1 DEF Refs
    <3>6. InDegree({Current}, p) \in Nat /\ InDegree(Objs, p)' \in Nat
      BY <2>2, <3>1
    <3>7. heads[p] + ext[p] + weak[p] + (InDegree(Objs, p)' + InDegree({Current}, p)) + drops[p]
            = heads[p] + ext[p] + weak[p] + InDegree(Objs, p)'
              + (drops[p] + InDegree({Current}, p))
      BY <3>3, <3>6, ShiftedSum
    <3> QED BY <3>4, <3>5, <3>7
  <2> QED BY <2>1, <2>3, <2>4 DEF CountInv, Exact, ExactKept
<1> QED BY <1>1, <1>2 DEF ClearCurrent

(* A decref takes one reference, and what a deallocated object held is     *)
(* still due to be dropped.                                                *)
LEMMA DropCount ==
  ASSUME CountInv, NEW o \in Objs, Drop(o)
  PROVE  CountTypes' /\ ExactKept
<1>1. /\ drops[o] > 0 /\ rc' = [rc EXCEPT ![o] = rc[o] - 1]
      /\ UNCHANGED <<ext, weak, heads>>
  BY DEF Drop
<1>2. o \in alive \cup Resurrected
  BY <1>1, DeadUnreferenced
<1>3. \A p \in Objs :
        /\ p \notin Resurrected => rc[p] = Refs(p) /\ (p \in alive \/ rc[p] = 0)
        /\ rc[p] \in Int
        /\ heads[p] \in Nat /\ ext[p] \in Nat /\ weak[p] \in Nat /\ drops[p] \in Nat
  BY RefParts DEF CountInv, Exact, CountTypes
<1>4. \A p \in Objs : rc'[p] = IF p = o THEN rc[p] - 1 ELSE rc[p]
  BY <1>1 DEF CountInv, CountTypes
<1>5. rc' \in [Objs -> Int]
  BY <1>1, <1>3 DEF CountInv, CountTypes
<1>6. CASE rc[o] = 1
  <2>1. /\ alive' = alive \ {o} /\ contents' = Emptied(o)
        /\ drops' = [DropsAfter(o) EXCEPT ![o] = @ - 1]
    BY <1>6 DEF Drop
  <2>2. \A p \in Objs : /\ InDegree({o}, p) \in Nat
                        /\ drops'[p] = IF p = o THEN (drops[p] + InDegree({o}, p)) - 1
                                       ELSE drops[p] + InDegree({o}, p)
    <3>1. \A p \in Objs : DropsAfter(o)[p] = drops[p] + InDegree({o}, p)
      BY DEF DropsAfter
    <3>2. DOMAIN DropsAfter(o) = Objs
      BY DEF DropsAfter
    <3>3. \A p \in Objs : drops'[p] = IF p = o THEN DropsAfter(o)[p] - 1 ELSE DropsAfter(o)[p]
      BY <2>1, <3>2
    <3> TAKE p \in Objs
    <3>4. DropsAfter(o)[p] = drops[p] + InDegree({o}, p)
      BY <3>1
    <3>5. drops'[p] = IF p = o THEN DropsAfter(o)[p] - 1 ELSE DropsAfter(o)[p]
      BY <3>3
    <3>6. InDegree({o}, p) \in Nat
      BY ReferringFinite
    <3> QED BY <3>4, <3>5, <3>6
  <2>3. \A p \in Objs : drops'[p] \in Nat
    <3> TAKE p \in Objs
    <3>1. InDegree({o}, p) \in Nat /\ drops[p] \in Nat /\ (p = o => drops[p] > 0)
      BY <1>1, <1>3, <2>2
    <3> QED BY <2>2, <3>1
  <2>4. CountTypes'
    <3>1. contents' \in [Slots -> Objs \cup {Null}]
      BY <2>1, EmptiedTypes DEF CountInv, CountTypes
    <3>2. drops' \in [Objs -> Nat]
      BY <2>1, <2>3 DEF DropsAfter
    <3> QED BY <1>1, <1>5, <2>1, <3>1, <3>2 DEF CountInv, CountTypes
  <2>5. ASSUME NEW p \in Objs PROVE Refs(p)' = IF p = o THEN Refs(p) - 1 ELSE Refs(p)
    <3>1. /\ InDegree(Objs, p) = InDegree(Objs, p)' + InDegree({o}, p)
          /\ InDegree(Objs, p)' \in Nat
      BY <2>1, EmptiedCount DEF CountInv, CountTypes
    <3>2. /\ heads[p] \in Nat /\ ext[p] \in Nat /\ weak[p] \in Nat /\ drops[p] \in Nat
          /\ InDegree({o}, p) \in Nat
      BY <1>3, <2>2
    <3>3. heads[p] + ext[p] + weak[p] + (InDegree(Objs, p)' + InDegree({o}, p)) + drops[p]
            = heads[p] + ext[p] + weak[p] + InDegree(Objs, p)' + (drops[p] + InDegree({o}, p))
      BY <3>1, <3>2, ShiftedSum
    <3>4. Refs(p) = heads[p] + ext[p] + weak[p] + InDegree(Objs, p)'
                    + (drops[p] + InDegree({o}, p))
      BY <3>1, <3>3 DEF Refs
    <3>5. Refs(p)' = heads[p] + ext[p] + weak[p] + InDegree(Objs, p)' + drops'[p]
      BY <1>1 DEF Refs
    <3>6. CASE p = o
      <4>1. drops'[p] = (drops[p] + InDegree({o}, p)) - 1
        <5>1. drops'[p] = IF p = o THEN (drops[p] + InDegree({o}, p)) - 1
                          ELSE drops[p] + InDegree({o}, p)
          BY <2>2
        <5> QED BY <3>2, <3>6, <5>1
      <4> DEFINE k == drops[p] + InDegree({o}, p)
      <4>2. /\ k \in Int /\ heads[p] + ext[p] + weak[p] + InDegree(Objs, p)' \in Int
        BY <3>1, <3>2
      <4>3. Refs(p) = (heads[p] + ext[p] + weak[p] + InDegree(Objs, p)') + k
        BY <3>4
      <4>4. Refs(p)' = (heads[p] + ext[p] + weak[p] + InDegree(Objs, p)') + (k - 1)
        BY <3>5, <4>1
      <4> HIDE DEF k
      <4> QED BY <3>6, <4>2, <4>3, <4>4
    <3>7. CASE p # o
      BY <2>2, <3>4, <3>5, <3>7
    <3> QED BY <3>6, <3>7
  <2>6. ExactKept
    <3> SUFFICES ASSUME NEW p \in Objs \ Resurrected
                 PROVE  rc'[p] = Refs(p)' /\ (p \in alive' \/ rc'[p] = 0)
      BY DEF ExactKept
    <3>1. rc'[p] = Refs(p)'
      BY <1>3, <1>4, <2>5
    <3>2. p \in alive' \/ rc'[p] = 0
      BY <1>3, <1>4, <1>6, <2>1
    <3> QED BY <3>1, <3>2
  <2> QED BY <2>4, <2>6
<1>7. CASE rc[o] # 1
  <2>1. UNCHANGED <<alive, contents>> /\ drops' = [drops EXCEPT ![o] = drops[o] - 1]
    BY <1>7 DEF Drop
  <2>2. \A p \in Objs : drops'[p] = IF p = o THEN drops[p] - 1 ELSE drops[p]
    BY <2>1 DEF CountInv, CountTypes
  <2>3. CountTypes'
    <3>1. drops[o] - 1 \in Nat
      BY <1>1, <1>3
    <3>2. drops' \in [Objs -> Nat]
      BY <2>1, <3>1 DEF CountInv, CountTypes
    <3> QED BY <1>1, <1>5, <2>1, <3>2 DEF CountInv, CountTypes
  <2>4. ASSUME NEW p \in Objs PROVE Refs(p)' = IF p = o THEN Refs(p) - 1 ELSE Refs(p)
    <3>1. InDegree(Objs, p)' = InDegree(Objs, p) /\ InDegree(Objs, p) \in Nat
      BY <2>1, InDegreeFrame, ReferringFinite
    <3>2. heads[p] \in Nat /\ ext[p] \in Nat /\ weak[p] \in Nat /\ drops[p] \in Nat
      BY <1>3
    <3>3. drops'[p] = IF p = o THEN drops[p] - 1 ELSE drops[p]
      BY <2>2
    <3> QED BY <1>1, <3>1, <3>2, <3>3 DEF Refs
  <2>5. ExactKept
    BY <1>2, <1>3, <1>4, <2>1, <2>4 DEF ExactKept
  <2> QED BY <2>3, <2>5
<1> QED BY <1>6, <1>7

(* If the surplus of the other references over the count stays the same,   *)
(* so does the number of slots that account for it.                        *)
LEMMA SameSurplus ==
  ASSUME NEW a \in Int, NEW b \in Int, NEW c \in Int, NEW e \in Int, NEW r \in Int,
         NEW a1 \in Int, NEW b1 \in Int, NEW c1 \in Int, NEW e1 \in Int, NEW r1 \in Int,
         NEW d \in Int,
         r = a + b + c + d + e,
         (a1 + b1 + c1 + e1) - r1 = (a + b + c + e) - r
  PROVE  r1 = a1 + b1 + c1 + d + e1
  OBVIOUS

(* Giving a reference up makes a decref due; taking one increments the     *)
(* count of an object that lives.  None of this touches the contents.      *)
LEMMA HolderCount ==
  ASSUME CountTypes, Exact, CountTypes', UNCHANGED <<contents, alive>>,
         NEW o \in Objs, o \in alive \cup Resurrected,
         \A p \in Objs \ {o} : /\ rc'[p] = rc[p] /\ heads'[p] = heads[p] /\ ext'[p] = ext[p]
                               /\ weak'[p] = weak[p] /\ drops'[p] = drops[p],
         (heads'[o] + ext'[o] + weak'[o] + drops'[o]) - rc'[o]
           = (heads[o] + ext[o] + weak[o] + drops[o]) - rc[o]
  PROVE  ExactKept
<1> SUFFICES ASSUME NEW p \in Objs \ Resurrected
             PROVE  rc'[p] = Refs(p)' /\ (p \in alive' \/ rc'[p] = 0)
  BY DEF ExactKept
<1>1. InDegree(Objs, p)' = InDegree(Objs, p) /\ InDegree(Objs, p) \in Nat
  BY InDegreeFrame, ReferringFinite
<1>2. rc[p] = Refs(p) /\ (p \in alive \/ rc[p] = 0)
  BY DEF Exact
<1>3. CASE p # o
  <2>1. /\ rc'[p] = rc[p] /\ heads'[p] = heads[p] /\ ext'[p] = ext[p]
        /\ weak'[p] = weak[p] /\ drops'[p] = drops[p]
    BY <1>3
  <2> QED BY <1>1, <1>2, <2>1 DEF Refs
<1>4. CASE p = o
  <2>1. /\ heads[o] \in Int /\ ext[o] \in Int /\ weak[o] \in Int /\ drops[o] \in Int
        /\ rc[o] \in Int
    BY RefParts DEF CountTypes
  <2>2. /\ heads'[o] \in Int /\ ext'[o] \in Int /\ weak'[o] \in Int /\ drops'[o] \in Int
        /\ rc'[o] \in Int
    BY ClearAssumption DEF CountTypes, ClearAssumption
  <2>3. rc[o] = heads[o] + ext[o] + weak[o] + InDegree(Objs, o) + drops[o]
    BY <1>2, <1>4 DEF Refs
  <2>4. InDegree(Objs, o) \in Int
    BY <1>1, <1>4
  <2>5. rc'[o] = heads'[o] + ext'[o] + weak'[o] + InDegree(Objs, o) + drops'[o]
    <3> DEFINE r == rc[o]    h == heads[o]    x == ext[o]    w == weak[o]    d == drops[o]
               r1 == rc'[o]  h1 == heads'[o]  x1 == ext'[o]  w1 == weak'[o]  d1 == drops'[o]
               k == InDegree(Objs, o)
    <3>1. r = h + x + w + k + d /\ (h1 + x1 + w1 + d1) - r1 = (h + x + w + d) - r
      BY <2>3
    <3>2. /\ r \in Int /\ h \in Int /\ x \in Int /\ w \in Int /\ d \in Int /\ k \in Int
          /\ r1 \in Int /\ h1 \in Int /\ x1 \in Int /\ w1 \in Int /\ d1 \in Int
      BY <2>1, <2>2, <2>4
    <3> HIDE DEF r, h, x, w, d, r1, h1, x1, w1, d1, k
    <3>3. r1 = h1 + x1 + w1 + k + d1
      BY <3>1, <3>2, SameSurplus
    <3> QED BY <3>3 DEF r1, h1, x1, w1, d1, k
  <2> QED BY <1>1, <1>2, <1>4, <2>5 DEF Refs
<1> QED BY <1>3, <1>4

(* The delete loop gives up the references of the dead heads. *)
LEMMA DecrefCount ==
  ASSUME CountInv, DecrefCurrent
  PROVE  CountTypes' /\ ExactKept
<1>1. /\ Current \in Objs /\ heads[Current] >= 1
      /\ drops' = [drops EXCEPT ![Current] = drops[Current] + 1]
      /\ heads' = [heads EXCEPT ![Current] = heads[Current] - 1]
      /\ UNCHANGED <<contents, ext, weak, rc, alive>>
  BY PoolObjects DEF DecrefCurrent, CountInv, Control, Heads, Current, InPool
<1>2. heads[Current] \in 0..2 /\ drops[Current] \in Nat
  BY <1>1 DEF CountInv, CountTypes
<1>3. heads[Current] - 1 \in 0..2 /\ drops[Current] + 1 \in Nat
  BY <1>1, <1>2
<1>4. CountTypes'
  BY <1>1, <1>3 DEF CountInv, CountTypes
<1>5. Current \in alive \cup Resurrected
  BY <1>1, DeadUnreferenced
<1>6. heads'[Current] = heads[Current] - 1 /\ drops'[Current] = drops[Current] + 1
  BY <1>1 DEF CountInv, CountTypes
<1>7. \A p \in Objs \ {Current} : heads'[p] = heads[p] /\ drops'[p] = drops[p]
  BY <1>1 DEF CountInv, CountTypes
<1>8. ext[Current] \in Int /\ weak[Current] \in Int /\ rc[Current] \in Int
  BY <1>1, RefParts DEF CountInv, CountTypes
<1>9. (heads'[Current] + ext'[Current] + weak'[Current] + drops'[Current]) - rc'[Current]
        = (heads[Current] + ext[Current] + weak[Current] + drops[Current]) - rc[Current]
  BY <1>1, <1>2, <1>6, <1>8
<1> HIDE DEF Current
<1> QED BY <1>1, <1>4, <1>5, <1>7, <1>9, HolderCount DEF CountInv

(* Another thread takes a reference to an object it can reach. *)
LEMMA TakeCount ==
  ASSUME CountInv, NEW o \in Objs, TakeRef(o)
  PROVE  CountTypes' /\ ExactKept
<1>1. /\ o \in Reachable /\ ext[o] < MaxExt
      /\ ext' = [ext EXCEPT ![o] = ext[o] + 1] /\ rc' = [rc EXCEPT ![o] = rc[o] + 1]
      /\ UNCHANGED <<contents, weak, heads, alive, drops>>
  BY DEF TakeRef
<1>2. o \in alive \cup Resurrected
  BY <1>1, DeadUnreferenced
<1>3. ext[o] + 1 \in 0..MaxExt /\ rc[o] + 1 \in Int
  BY <1>1, ClearAssumption DEF CountInv, CountTypes, ClearAssumption
<1>4. CountTypes'
  BY <1>1, <1>3 DEF CountInv, CountTypes
<1>5. ext'[o] = ext[o] + 1 /\ rc'[o] = rc[o] + 1
  BY <1>1 DEF CountInv, CountTypes
<1>6. \A p \in Objs \ {o} : ext'[p] = ext[p] /\ rc'[p] = rc[p]
  BY <1>1 DEF CountInv, CountTypes
<1>7. /\ heads[o] \in Int /\ ext[o] \in Int /\ weak[o] \in Int /\ drops[o] \in Int
      /\ rc[o] \in Int
  BY RefParts DEF CountInv, CountTypes
<1>8. (heads'[o] + ext'[o] + weak'[o] + drops'[o]) - rc'[o]
        = (heads[o] + ext[o] + weak[o] + drops[o]) - rc[o]
  BY <1>1, <1>5, <1>7
<1> QED BY <1>1, <1>2, <1>4, <1>6, <1>8, HolderCount DEF CountInv

(* Another thread gives up a reference it owns. *)
LEMMA GiveUpCount ==
  ASSUME CountInv, NEW o \in Objs, GiveUpRef(o)
  PROVE  CountTypes' /\ ExactKept
<1>1. /\ ext[o] > 0
      /\ ext' = [ext EXCEPT ![o] = ext[o] - 1] /\ drops' = [drops EXCEPT ![o] = drops[o] + 1]
      /\ UNCHANGED <<contents, weak, heads, rc, alive>>
  BY DEF GiveUpRef
<1>2. o \in alive \cup Resurrected
  BY <1>1, DeadUnreferenced
<1>3. ext[o] - 1 \in 0..MaxExt /\ drops[o] + 1 \in Nat
  BY <1>1, ClearAssumption DEF CountInv, CountTypes, ClearAssumption
<1>4. CountTypes'
  BY <1>1, <1>3 DEF CountInv, CountTypes
<1>5. ext'[o] = ext[o] - 1 /\ drops'[o] = drops[o] + 1
  BY <1>1 DEF CountInv, CountTypes
<1>6. \A p \in Objs \ {o} : ext'[p] = ext[p] /\ drops'[p] = drops[p]
  BY <1>1 DEF CountInv, CountTypes
<1>7. /\ heads[o] \in Int /\ ext[o] \in Int /\ weak[o] \in Int /\ drops[o] \in Int
      /\ rc[o] \in Int
  BY RefParts DEF CountInv, CountTypes
<1>8. (heads'[o] + ext'[o] + weak'[o] + drops'[o]) - rc'[o]
        = (heads[o] + ext[o] + weak[o] + drops[o]) - rc[o]
  BY <1>1, <1>5, <1>7
<1> QED BY <1>1, <1>2, <1>4, <1>6, <1>8, HolderCount DEF CountInv

(* releaseWeakReferent gives up the reference of a Java weak reference. *)
LEMMA ReleaseCount ==
  ASSUME CountInv, NEW o \in Objs, ReleaseWeakReferent(o)
  PROVE  CountTypes' /\ ExactKept
<1>1. /\ weak[o] > 0
      /\ weak' = [weak EXCEPT ![o] = weak[o] - 1] /\ drops' = [drops EXCEPT ![o] = drops[o] + 1]
      /\ UNCHANGED <<contents, ext, heads, rc, alive>>
  BY DEF ReleaseWeakReferent
<1>2. o \in alive \cup Resurrected
  BY <1>1, DeadUnreferenced
<1>3. weak[o] - 1 \in 0..1 /\ drops[o] + 1 \in Nat
  BY <1>1 DEF CountInv, CountTypes
<1>4. CountTypes'
  BY <1>1, <1>3 DEF CountInv, CountTypes
<1>5. weak'[o] = weak[o] - 1 /\ drops'[o] = drops[o] + 1
  BY <1>1 DEF CountInv, CountTypes
<1>6. \A p \in Objs \ {o} : weak'[p] = weak[p] /\ drops'[p] = drops[p]
  BY <1>1 DEF CountInv, CountTypes
<1>7. /\ heads[o] \in Int /\ ext[o] \in Int /\ weak[o] \in Int /\ drops[o] \in Int
      /\ rc[o] \in Int
  BY RefParts DEF CountInv, CountTypes
<1>8. (heads'[o] + ext'[o] + weak'[o] + drops'[o]) - rc'[o]
        = (heads[o] + ext[o] + weak[o] + drops[o]) - rc[o]
  BY <1>1, <1>5, <1>7
<1> QED BY <1>1, <1>2, <1>4, <1>6, <1>8, HolderCount DEF CountInv

(* Storing moves a reference: the old content of the slot is due to be     *)
(* dropped.                                                                *)
LEMMA MovedSum ==
  ASSUME NEW h \in Int, NEW x \in Int, NEW w \in Int, NEW k \in Int, NEW d \in Int,
         NEW i \in Int, NEW j \in Int
  PROVE  h + x + w + ((k + i) - j) + (d + j) = (h + x + w + k + d) + i
  OBVIOUS

LEMMA StoreCount ==
  ASSUME CountInv, NEW s \in Slots, NEW o \in Objs, Store(s, o)
  PROVE  CountTypes' /\ ExactKept
<1>1. /\ o \in Reachable /\ contents' = [contents EXCEPT ![s] = o]
      /\ rc' = [rc EXCEPT ![o] = rc[o] + 1]
      /\ drops' = IF contents[s] = Null THEN drops
                  ELSE [drops EXCEPT ![contents[s]] = drops[contents[s]] + 1]
      /\ UNCHANGED <<ext, weak, heads, alive>>
  BY DEF Store
<1>2. o \in alive \cup Resurrected
  BY <1>1, DeadUnreferenced
<1>3. Null \notin Objs
  BY ClearAssumption DEF ClearAssumption
<1>4. ASSUME NEW p \in Objs
      PROVE  /\ rc'[p] = rc[p] + (IF p = o THEN 1 ELSE 0)
             /\ drops'[p] = drops[p] + (IF p = contents[s] THEN 1 ELSE 0)
             /\ rc[p] \in Int /\ drops[p] \in Nat
  <2>1. rc[p] \in Int /\ drops[p] \in Nat
    BY DEF CountInv, CountTypes
  <2>2. rc'[p] = IF p = o THEN rc[p] + 1 ELSE rc[p]
    BY <1>1 DEF CountInv, CountTypes
  <2>3. drops'[p] = IF p = contents[s] THEN drops[p] + 1 ELSE drops[p]
    BY <1>1, <1>3 DEF CountInv, CountTypes
  <2> QED BY <2>1, <2>2, <2>3
<1>5. CountTypes'
  <2>1. contents' \in [Slots -> Objs \cup {Null}]
    BY <1>1 DEF CountInv, CountTypes
  <2>2. rc' \in [Objs -> Int]
    BY <1>1, <1>4 DEF CountInv, CountTypes
  <2>3. contents[s] # Null => contents[s] \in Objs
    BY DEF CountInv, CountTypes
  <2>4. drops' \in [Objs -> Nat]
    BY <1>1, <2>3 DEF CountInv, CountTypes
  <2> QED BY <1>1, <2>1, <2>2, <2>4 DEF CountInv, CountTypes
<1>6. ASSUME NEW p \in Objs \ Resurrected
      PROVE  rc'[p] = Refs(p)' /\ (p \in alive' \/ rc'[p] = 0)
  <2> DEFINE i == IF p = o THEN 1 ELSE 0
             j == IF p = contents[s] THEN 1 ELSE 0
             h == heads[p]  x == ext[p]  w == weak[p]  d == drops[p]
             k == InDegree(Objs, p)
  <2>1. /\ h \in Int /\ x \in Int /\ w \in Int /\ k \in Int /\ d \in Int
        /\ i \in Int /\ j \in Int
    BY RefParts DEF CountInv
  <2>2. rc'[p] = rc[p] + i /\ drops'[p] = d + j
    BY <1>4
  <2>3. InDegree(Objs, p)' = (k + i) - j
    <3>1. InDegree(Objs, p)' = k + i - j
      BY <1>1, StoredCount DEF CountInv, CountTypes
    <3> HIDE DEF i, j, k
    <3> QED BY <2>1, <3>1
  <2>4. rc[p] = h + x + w + k + d
    BY DEF CountInv, Exact, Refs
  <2>5. Refs(p)' = h + x + w + ((k + i) - j) + (d + j)
    BY <1>1, <2>2, <2>3 DEF Refs
  <2>6. p \in alive' \/ rc'[p] = 0
    <3>1. CASE p = o
      BY <1>1, <1>2, <3>1
    <3>2. CASE p # o
      <4>1. rc'[p] = rc[p]
        BY <1>1, <3>2 DEF CountInv, CountTypes
      <4> QED BY <1>1, <4>1 DEF CountInv, Exact
    <3> QED BY <3>1, <3>2
  <2> HIDE DEF i, j, h, x, w, d, k
  <2>7. Refs(p)' = (h + x + w + k + d) + i
    BY <2>1, <2>5, MovedSum
  <2>8. rc'[p] = (h + x + w + k + d) + i
    BY <2>2, <2>4
  <2> QED BY <2>6, <2>7, <2>8
<1> QED BY <1>5, <1>6 DEF ExactKept

(* A resurrection that has begun stays begun: the verdict does not change. *)
LEMMA ResurrectedStays ==
  ASSUME CountInv, [Next]_vars
  PROVE  Resurrected \subseteq Resurrected'
<1> USE DEF Resurrected
<1>1. CASE Seed \/ SearchRound \/ SearchDone \/ ReportDeletions
  BY <1>1 DEF Seed, SearchRound, SearchDone, ReportDeletions
<1>2. CASE RestoreStore \/ RestoreLoad
  BY <1>2 DEF RestoreStore, RestoreLoad, ToResurrect
<1>3. CASE EndWindow \/ ClearCurrent \/ DecrefCurrent \/ Leave
  BY <1>3 DEF EndWindow, ClearCurrent, DecrefCurrent, Leave, restVars, ToResurrect
<1>4. ASSUME NEW o \in Objs, ConsumeConfirmation(o) PROVE Resurrected \subseteq Resurrected'
  BY <1>4 DEF ConsumeConfirmation, ToResurrect
<1>5. CASE \/ \E o \in Objs : Drop(o) \/ TakeRef(o) \/ GiveUpRef(o) \/ ReleaseWeakReferent(o)
           \/ \E s \in Slots, o \in Objs : Store(s, o)
  <2>1. UNCHANGED <<pc, invalid, loose, restVars>>
    BY <1>5 DEF Drop, TakeRef, GiveUpRef, ReleaseWeakReferent, Store
  <2> QED BY <2>1 DEF restVars, ToResurrect
<1>6. CASE UNCHANGED vars
  BY <1>6 DEF vars, restVars, ToResurrect
<1> QED BY <1>1, <1>2, <1>3, <1>4, <1>5, <1>6 DEF Next

(* Every step of the cycle keeps the counts exact.                         *)
LEMMA ExactStep ==
  ASSUME CountInv, [Next]_vars
  PROVE  CountTypes' /\ Exact'
<1> SUFFICES CountTypes' /\ ExactKept
  BY ResurrectedStays DEF Exact, ExactKept
<1>1. CASE UNCHANGED heapVars
  BY <1>1, HeapFrame DEF CountInv
<1>2. CASE RestoreStore
  BY <1>2, RestoreCount
<1>3. CASE ClearCurrent
  BY <1>3, ClearCount
<1>4. CASE DecrefCurrent
  BY <1>4, DecrefCount
<1>5. CASE \E o \in Objs : Drop(o)
  BY <1>5, DropCount
<1>6. CASE \E o \in Objs : TakeRef(o)
  BY <1>6, TakeCount
<1>7. CASE \E o \in Objs : GiveUpRef(o)
  BY <1>7, GiveUpCount
<1>8. CASE \E o \in Objs : ReleaseWeakReferent(o)
  BY <1>8, ReleaseCount
<1>9. CASE \E s \in Slots, o \in Objs : Store(s, o)
  BY <1>9, StoreCount
<1>10. CASE \/ Seed \/ SearchRound \/ SearchDone \/ ReportDeletions \/ EndWindow \/ Leave
            \/ RestoreLoad \/ \E o \in Objs : ConsumeConfirmation(o)
  BY <1>1, <1>10 DEF Seed, SearchRound, SearchDone, ReportDeletions, EndWindow, Leave,
                    RestoreLoad, ConsumeConfirmation
<1>11. CASE UNCHANGED vars
  BY <1>1, <1>11 DEF vars
<1> QED BY <1>2, <1>3, <1>4, <1>5, <1>6, <1>7, <1>8, <1>9, <1>10, <1>11 DEF Next

-----------------------------------------------------------------------------
(* The order of the cycle                                                  *)

(* What no step but those of checkReferenceGraph changes. *)
LEMMA VerdictFrame ==
  ASSUME UNCHANGED <<pc, invalid, loose, restVars>>
  PROVE  ToResurrect' = ToResurrect /\ Resurrected' = Resurrected
  BY DEF ToResurrect, Resurrected, restVars

(* Reports are consumed before the delete loop starts, and one             *)
(* resurrection at a time is under way.                                    *)
LEMMA ControlStep ==
  ASSUME CountInv, [Next]_vars
  PROVE  Control'
<1> USE DEF CountInv, Control
<1>1. Pool \in Seq(Objs) /\ Null \notin InPool
  BY PoolObjects, ClearAssumption DEF ClearAssumption
<1>2. CASE Seed \/ SearchRound \/ SearchDone
  <2>1. /\ pc \in {"seed", "bfs"} /\ pc' \in {"bfs", "report"} /\ invalid' \in BOOLEAN
        /\ loose' \subseteq InPool /\ frontier' \subseteq InPool /\ pos' = pos
        /\ UNCHANGED restVars
    BY <1>2 DEF Seed, SearchRound, SearchDone
  <2>2. toRestore = {} /\ consumed = Null /\ restoring = Null
    BY <2>1 DEF Resurrected
  <2> QED BY <2>1, <2>2 DEF restVars
<1>3. CASE ReportDeletions
  <2>1. consumed = Null /\ restoring = Null
    BY <1>3 DEF ReportDeletions, Resurrected
  <2>2. ToResurrect' = ToResurrect
    BY <1>3 DEF ReportDeletions, ToResurrect
  <2> QED BY <1>3, <2>1, <2>2 DEF ReportDeletions
<1>4. CASE EndWindow \/ ClearCurrent \/ Leave
  <2>1. /\ UNCHANGED <<invalid, loose, frontier, pos, restVars>>
        /\ pc \in {"window", "loop"} /\ pc' \in {"loop", "decref", "left"} /\ toRestore = {}
        /\ pc' = "decref" => pos <= Len(Pool)
    BY <1>4 DEF EndWindow, ClearCurrent, Leave
  <2>2. ToResurrect' = ToResurrect /\ Resurrected' = Resurrected
    BY <2>1 DEF ToResurrect, Resurrected, restVars
  <2>3. pc' = "decref" => pos \in DOMAIN Pool
    BY <1>1, <2>1
  <2> QED BY <2>1, <2>2, <2>3 DEF restVars
<1>5. CASE DecrefCurrent
  <2>1. pos' = pos + 1 /\ pos \in 1..Len(Pool) /\ Len(Pool) \in Nat
    BY <1>1, <1>5 DEF DecrefCurrent
  <2>2. pos' \in 1..(Len(Pool) + 1)
    BY <2>1
  <2>3. ToResurrect' = ToResurrect /\ Resurrected' = Resurrected
    BY <1>5 DEF DecrefCurrent, ToResurrect, Resurrected, restVars
  <2> QED BY <1>5, <2>2, <2>3 DEF DecrefCurrent, restVars
<1>6. ASSUME NEW o \in Objs, ConsumeConfirmation(o) PROVE Control'
  <2>1. /\ o \in toRestore /\ toRestore' = toRestore \ {o} /\ consumed' = o
        /\ consumed = Null /\ restoring = Null /\ restoring' = restoring
        /\ UNCHANGED <<pc, pos, loose, frontier, invalid, loaded>>
    BY <1>6 DEF ConsumeConfirmation
  <2>2. ToResurrect' = ToResurrect /\ pc = "window"
    BY <2>1 DEF ToResurrect
  <2>3. Resurrected' = Resurrected \cup {o}
    BY <2>1, <2>2 DEF Resurrected
  <2> QED BY <2>1, <2>2, <2>3
<1>7. CASE RestoreLoad
  <2>1. /\ consumed \in Resurrected /\ restoring' = consumed /\ consumed' = Null
        /\ loaded' = rc[consumed] /\ UNCHANGED <<pc, pos, loose, frontier, invalid, toRestore>>
    BY <1>7 DEF RestoreLoad
  <2>2. loaded' \in Int
    BY <2>1, ResurrectedPool, PoolObjects DEF CountTypes
  <2>3. ToResurrect' = ToResurrect /\ Resurrected' = Resurrected
    BY <2>1 DEF ToResurrect, Resurrected
  <2> QED BY <2>1, <2>2, <2>3
<1>8. CASE RestoreStore
  <2>1. ToResurrect' = ToResurrect /\ Resurrected' = Resurrected
    BY <1>8 DEF RestoreStore, ToResurrect, Resurrected
  <2> QED BY <1>8, <2>1 DEF RestoreStore
<1>9. CASE \/ \E o \in Objs : Drop(o) \/ TakeRef(o) \/ GiveUpRef(o) \/ ReleaseWeakReferent(o)
           \/ \E s \in Slots, o \in Objs : Store(s, o)
  <2>1. UNCHANGED <<pc, pos, loose, frontier, invalid, restVars>>
    BY <1>9 DEF Drop, TakeRef, GiveUpRef, ReleaseWeakReferent, Store
  <2> QED BY <2>1, VerdictFrame DEF restVars
<1>10. CASE UNCHANGED vars
  BY <1>10, VerdictFrame DEF vars, restVars
<1> QED BY <1>2, <1>3, <1>4, <1>5, <1>6, <1>7, <1>8, <1>9, <1>10 DEF Next

(* A head's reference is given up once, when the delete loop gets to it.   *)
LEMMA HeadsStep ==
  ASSUME CountInv, [Next]_vars
  PROVE  Heads'
<1> USE DEF CountInv, Heads
<1>1. /\ Pool \in Seq(Objs) /\ Null \notin InPool /\ InPool \subseteq Objs
      /\ \A i, j \in DOMAIN Pool : Pool[i] = Pool[j] => i = j
      /\ \A i \in DOMAIN Pool : Pool[i] \in Objs /\ Pool[i] \in InPool /\ i \in Int
  BY PoolObjects, ClearAssumption DEF ClearAssumption, InPool
<1>2. CASE Seed \/ SearchRound \/ SearchDone
  <2>1. /\ UNCHANGED <<heads, pos, restVars>>
        /\ pc \in {"seed", "bfs"}
    BY <1>2 DEF Seed, SearchRound, SearchDone, heapVars
  <2> QED BY <2>1 DEF restVars
<1>3. CASE ReportDeletions
  <2>1. toRestore' \subseteq Objs /\ restoring' = restoring /\ consumed' = consumed
        /\ heads' = heads /\ pos' = pos /\ pc' \in {"loop", "window"}
    BY <1>1, <1>3 DEF ReportDeletions, ToResurrect, heapVars
  <2>2. \A o \in Objs : heads[o] = 1
    BY <1>3 DEF ReportDeletions
  <2> QED BY <2>1, <2>2
<1>4. CASE EndWindow \/ ClearCurrent \/ Leave
  BY <1>4 DEF EndWindow, ClearCurrent, Leave, restVars, heapVars
<1>5. CASE RestoreStore
  <2>1. /\ heads' = [heads EXCEPT ![restoring] = heads[restoring] + 1]
        /\ restoring \in InPool /\ restoring \in Objs /\ restoring' = Null /\ consumed' = consumed
        /\ consumed = Null /\ pc' = pc /\ pos' = pos /\ toRestore' = toRestore
        /\ pc \notin {"seed", "bfs", "report"} /\ restoring \notin toRestore
    BY <1>1, <1>5, ResurrectedPool DEF RestoreStore, Control, Resurrected
  <2>2. \A o \in Objs : /\ o # restoring => heads'[o] = heads[o]
                        /\ heads[o] \in Int
                        /\ o = restoring => heads'[o] = heads[o] + 1
    BY <2>1 DEF CountTypes
  <2>3. \A i \in DOMAIN Pool : i >= pos => heads'[Pool[i]] >= 1
    BY <1>1, <2>2
  <2>4. \A o \in Outside \cup toRestore : o \in Objs /\ o # restoring
    BY <1>1, <2>1, ResurrectedPool DEF Control, Outside
  <2> QED BY <2>1, <2>2, <2>3, <2>4
<1>6. CASE DecrefCurrent
  <2>1. /\ heads' = [heads EXCEPT ![Pool[pos]] = heads[Pool[pos]] - 1]
        /\ pos' = pos + 1 /\ pos \in DOMAIN Pool /\ pc' = "loop"
        /\ toRestore' = {} /\ restoring' = restoring /\ consumed' = consumed
    BY <1>6 DEF DecrefCurrent, Current, Control, restVars
  <2>2. \A o \in Objs : /\ o # Pool[pos] => heads'[o] = heads[o]
                        /\ o = Pool[pos] => heads'[o] = heads[o] - 1
                        /\ heads[o] \in Int
    BY <2>1 DEF CountTypes
  <2>3. ASSUME NEW i \in DOMAIN Pool, i >= pos + 1 PROVE heads'[Pool[i]] >= 1
    <3>1. i # pos /\ i >= pos
      BY <1>1, <2>1, <2>3
    <3>2. Pool[i] # Pool[pos] /\ Pool[i] \in Objs
      BY <1>1, <2>1, <3>1
    <3> QED BY <2>2, <3>1, <3>2
  <2>4. \A o \in Outside : heads'[o] = heads[o]
    BY <1>1, <2>1, <2>2 DEF Outside
  <2>5. ASSUME NEW o \in {consumed, restoring} \ {Null} PROVE heads'[o] <= 1
    <3>1. o \in Objs /\ heads[o] <= 1
      BY <1>1, ResurrectedPool DEF Control
    <3> QED BY <2>2, <3>1
  <2> QED BY <2>1, <2>3, <2>4, <2>5
<1>7. ASSUME NEW o \in Objs, ConsumeConfirmation(o) PROVE Heads'
  BY <1>7 DEF ConsumeConfirmation, heapVars
<1>8. CASE \E o \in Objs : Drop(o) \/ TakeRef(o) \/ GiveUpRef(o) \/ ReleaseWeakReferent(o)
  BY <1>8 DEF Drop, TakeRef, GiveUpRef, ReleaseWeakReferent, restVars
<1>9. CASE \E s \in Slots, o \in Objs : Store(s, o)
  BY <1>9 DEF Store, restVars
<1>10. CASE UNCHANGED vars
  BY <1>10 DEF vars, heapVars, restVars
<1>11. CASE RestoreLoad
  BY <1>11 DEF RestoreLoad, heapVars
<1> QED BY <1>2, <1>3, <1>4, <1>5, <1>6, <1>7, <1>8, <1>9, <1>10, <1>11 DEF Next

-----------------------------------------------------------------------------
(* Theorems                                                                *)

(* The invariant of the cycle. *)
LEMMA CountInvariant == Spec => []CountInv
<1>1. CountInv /\ [Next]_vars => CountInv'
  BY ExactStep, ControlStep, HeadsStep DEF CountInv
<1> QED BY <1>1, CountInit, PTL DEF Spec

(* ob_refcnt always equals the number of references there are: those of    *)
(* heads, of threads, of Java weak references, of slots, and the decrefs   *)
(* still to be carried out.  Only an object that a finalizer has begun to  *)
(* resurrect is excepted, because of the increment without the GIL.        *)
THEOREM CountsStayExact == Spec => []RefCountsExact
<1>1. CountInv => RefCountsExact
  BY DEF CountInv, CountTypes, Exact, Refs, RefCountsExact, CountedExactly
<1> QED BY <1>1, CountInvariant, PTL

(* No step of JyGC_clearNativeReferences, and nothing other threads do in  *)
(* its window, touches an object that has been deallocated, unless a       *)
(* finalizer has begun to resurrect it.                                    *)
THEOREM NothingFreedIsUsed == Spec => []NoUseAfterFree
<1>1. ASSUME CountInv, NEW o \in Objs \ (alive \cup Resurrected)
      PROVE  /\ ext[o] = 0 /\ weak[o] = 0 /\ heads[o] = 0 /\ drops[o] = 0
             /\ Referring(Objs, o) = {} /\ o \notin toRestore
  <2>1. /\ heads[o] = 0 /\ ext[o] = 0 /\ weak[o] = 0 /\ drops[o] = 0
        /\ Referring(Objs, o) = {}
    BY <1>1, DeadUnreferenced
  <2> QED BY <1>1, <2>1 DEF CountInv, Heads
<1>2. CountInv => NoUseAfterFree
  BY <1>1 DEF NoUseAfterFree
<1> QED BY <1>2, CountInvariant, PTL

(* Every variable keeps its type. *)
THEOREM ClearTypeCorrect == Spec => []TypeOK
<1>1. ASSUME CountInv PROVE TypeOK
  BY <1>1, ResurrectedPool DEF CountInv, CountTypes, Control, TypeOK
<1> QED BY <1>1, CountInvariant, PTL

-----------------------------------------------------------------------------
(***************************************************************************)
(* The cycle deallocates what its search judged garbage, but for garbage   *)
(* that objects without a tp_clear, or weakly referenced ones, refer to.   *)
(***************************************************************************)

-----------------------------------------------------------------------------
(* The invariant *)

EmptySlots(o) == \A s \in Slots : s[1] = o => contents[s] = Null

(* Deallocation is immediate: no object survives its last reference.       *)
Counted == \A o \in alive \ Resurrected : rc[o] > 0

(* Deallocated objects hold nothing. *)
DeadEmpty == \A o \in Objs \ (alive \cup Resurrected) : EmptySlots(o)

(* Nothing but other garbage and its own head holds on to what is loose:   *)
(* no Java weak reference, and no new head.                                *)
LooseHeld ==
  /\ \A o \in loose : weak[o] = 0
  /\ pc # "seed" =>
       \A i \in DOMAIN Pool :
         Pool[i] \in loose => heads[Pool[i]] = IF i < pos THEN 0 ELSE 1

(* In a graph found valid only weakly referenced objects are not loose,    *)
(* and there is no window in which that could change.                      *)
ValidGraph ==
  /\ ~invalid /\ pc # "seed" => /\ \A o \in InPool \ loose : weak[o] > 0
                                /\ pc # "window"
  /\ pc = "left" => pos = Len(Pool) + 1

(* What the delete loop has passed and could clear is empty, or about to   *)
(* be: it was not worth a tp_clear since its head's reference was the last *)
(* one.                                                                    *)
Passed ==
  \A i \in DOMAIN Pool : Pool[i] \in loose \cap Clearable =>
    /\ i < pos => EmptySlots(Pool[i]) \/ (rc[Pool[i]] = 1 /\ drops[Pool[i]] = 1)
    /\ i = pos /\ pc = "decref" => EmptySlots(Pool[i]) \/ rc[Pool[i]] = 1

FreedInv == Counted /\ DeadEmpty /\ LooseHeld /\ ValidGraph /\ Passed

-----------------------------------------------------------------------------
(* Facts about counts *)

(* With a count of one, a head's reference or a decref due explains it.    *)
LEMMA LastReference ==
  ASSUME CountTypes, Exact, NEW o \in Objs \ Resurrected, rc[o] = 1, heads[o] > 0 \/ drops[o] > 0
  PROVE  /\ \A q \in Objs : InDegree({q}, o) = 0
         /\ heads[o] > 0 => drops[o] = 0
         /\ drops[o] > 0 => drops[o] = 1
<1> DEFINE h == heads[o]  x == ext[o]  w == weak[o]  k == InDegree(Objs, o)  d == drops[o]
<1>1. /\ h \in Nat /\ x \in Nat /\ w \in Nat /\ k \in Nat /\ d \in Nat
      /\ h + x + w + k + d = 1 /\ (h > 0 \/ d > 0)
  BY RefParts DEF Exact, Refs
<1> HIDE DEF h, x, w, k, d
<1>2. k = 0 /\ (h > 0 => d = 0) /\ (d > 0 => d = 1)
  BY <1>1
<1>3. InDegree(Objs, o) = 0 => \A q \in Objs : InDegree({q}, o) = 0
  <2> SUFFICES ASSUME InDegree(Objs, o) = 0, NEW q \in Objs PROVE InDegree({q}, o) = 0
    OBVIOUS
  <2>1. Referring(Objs, o) = {}
    BY ReferringFinite
  <2>2. Referring({q}, o) = {}
    BY <2>1 DEF Referring, SlotsOf
  <2> QED BY <2>2, ReferringFinite
<1> QED BY <1>2, <1>3 DEF h, k, d

(* A reference or a decref due is to an object that lives and is counted.  *)
LEMMA HeldCounted ==
  ASSUME CountTypes, Exact, NEW o \in Objs \ Resurrected, heads[o] > 0 \/ drops[o] > 0
  PROVE  rc[o] > 0 /\ o \in alive
<1> DEFINE h == heads[o]  x == ext[o]  w == weak[o]  k == InDegree(Objs, o)  d == drops[o]
<1>1. /\ h \in Nat /\ x \in Nat /\ w \in Nat /\ k \in Nat /\ d \in Nat
      /\ rc[o] = h + x + w + k + d /\ (h > 0 \/ d > 0)
  BY RefParts DEF Exact, Refs
<1> HIDE DEF h, x, w, k, d
<1>2. rc[o] > 0
  BY <1>1
<1> QED BY <1>2 DEF Exact

(* What checkReferenceGraph's counting finds: the references from outside. *)
LEMMA UnexplainedParts ==
  ASSUME SearchInv, pc = "seed", NEW o \in InPool
  PROVE  /\ Unexplained(o) = 1 + ext[o] + weak[o] + InDegree(Outside, o)
         /\ ext[o] \in Nat /\ weak[o] \in Nat /\ InDegree(Outside, o) \in Nat
<1>1. rc[o] = 1 + ext[o] + weak[o] + InDegree(Objs, o)
  BY PoolObjects DEF SearchInv, BeforeSearch
<1>2. /\ InDegree(Objs, o) = InDegree(InPool, o) + InDegree(Outside, o)
      /\ InDegree(InPool, o) \in Nat /\ InDegree(Outside, o) \in Nat
  BY InDegreeSplit, ReferringFinite
<1>3. ext[o] \in Nat /\ weak[o] \in Nat
  BY PoolObjects DEF SearchInv, HeapTypes
<1> QED BY <1>1, <1>2, <1>3 DEF Unexplained

-----------------------------------------------------------------------------
(* The invariant holds at first, and every step keeps its parts.           *)

(* Every object has its head's reference, and nothing has been judged.     *)
LEMMA FreedInit == Init => FreedInv
<1> SUFFICES ASSUME Init PROVE FreedInv
  OBVIOUS
<1>1. \A o \in Objs : ext[o] \in Nat /\ weak[o] \in Nat /\ InDegree(Objs, o) \in Nat
  BY SearchInit, ReferringFinite DEF SearchInv, HeapTypes
<1>2. Counted
  BY <1>1 DEF Init, Counted
<1>3. DeadEmpty /\ LooseHeld /\ ValidGraph /\ Passed
  BY DEF Init, DeadEmpty, LooseHeld, ValidGraph, Passed
<1> QED BY <1>2, <1>3 DEF FreedInv

(* A count that goes down to zero deallocates. *)
LEMMA CountedStep ==
  ASSUME CountInv, Counted, [Next]_vars
  PROVE  Counted'
<1>1. rc \in [Objs -> Int] /\ alive \subseteq Objs /\ Resurrected \subseteq Resurrected'
  BY ResurrectedStays DEF CountInv, CountTypes
<1> SUFFICES \A o \in alive' \ Resurrected : rc'[o] > 0
  BY <1>1 DEF Counted
<1>2. ASSUME NEW o \in Objs, Drop(o), NEW p \in alive' \ Resurrected PROVE rc'[p] > 0
  <2>1. p \in alive /\ rc[p] > 0
    BY <1>2 DEF Drop, Counted
  <2> QED BY <1>1, <1>2, <2>1 DEF Drop
<1>3. CASE RestoreStore
  <2>1. restoring \in Resurrected /\ alive' = alive
    BY <1>3 DEF RestoreStore, CountInv, Control
  <2>2. \A p \in alive' \ Resurrected : rc'[p] = rc[p]
    BY <1>1, <1>3, <2>1 DEF RestoreStore
  <2> QED BY <2>1, <2>2 DEF Counted
<1>4. ASSUME NEW o \in Objs,
             UNCHANGED alive, UNCHANGED rc \/ rc' = [rc EXCEPT ![o] = rc[o] + 1]
      PROVE  \A p \in alive' \ Resurrected : rc'[p] > 0
  BY <1>1, <1>4 DEF Counted
<1>5. ASSUME NEW o \in Objs, TakeRef(o) \/ \E s \in Slots : Store(s, o)
      PROVE  \A p \in alive' \ Resurrected : rc'[p] > 0
  BY <1>4, <1>5 DEF TakeRef, Store
<1>6. CASE UNCHANGED <<rc, alive>>
  BY <1>6 DEF Counted
<1> QED
  BY <1>2, <1>3, <1>5, <1>6
  DEF Next, vars, heapVars, Seed, SearchRound, SearchDone, ReportDeletions, EndWindow,
      ClearCurrent, DecrefCurrent, Leave, ConsumeConfirmation, RestoreLoad, GiveUpRef,
      ReleaseWeakReferent

(* tp_dealloc empties what it deallocates, and nobody stores into it.      *)
LEMMA DeadEmptyStep ==
  ASSUME CountInv, DeadEmpty, [Next]_vars
  PROVE  DeadEmpty'
<1>1. contents \in [Slots -> Objs \cup {Null}] /\ Resurrected \subseteq Resurrected'
  BY ResurrectedStays DEF CountInv, CountTypes
<1> SUFFICES ASSUME NEW o \in Objs \ Resurrected, o \notin alive'
             PROVE  EmptySlots(o)'
  BY <1>1 DEF DeadEmpty
<1>2. CASE UNCHANGED <<contents, alive>>
  BY <1>2 DEF DeadEmpty, EmptySlots
<1>3. CASE ClearCurrent
  BY <1>3 DEF ClearCurrent, DeadEmpty, EmptySlots, Emptied
<1>4. CASE \E q \in Objs : Drop(q)
  BY <1>4 DEF Drop, DeadEmpty, EmptySlots, Emptied
<1>5. ASSUME NEW s \in Slots, NEW q \in Objs, Store(s, q) PROVE EmptySlots(o)'
  <2>1. o \notin alive /\ s[1] \in Reachable /\ contents' = [contents EXCEPT ![s] = q]
    BY <1>5 DEF Store
  <2>2. o \notin Reachable
    BY <2>1, DeadUnreferenced
  <2> QED BY <1>1, <2>1, <2>2 DEF DeadEmpty, EmptySlots
<1> QED
  BY <1>2, <1>3, <1>4, <1>5
  DEF Next, vars, heapVars, Seed, SearchRound, SearchDone, ReportDeletions, EndWindow,
      DecrefCurrent, Leave, ConsumeConfirmation, RestoreLoad, RestoreStore, TakeRef,
      GiveUpRef, ReleaseWeakReferent

(* The search's verdict: what is loose has no weak reference, and what is  *)
(* not, in a valid graph, has one.                                         *)
LEMMA SeedVerdict ==
  ASSUME SearchInv, CountInv, Seed
  PROVE  /\ \A o \in loose' : weak[o] = 0
         /\ ~invalid' => \A o \in InPool \ loose' : weak[o] > 0
<1>1. /\ pc = "seed" /\ loose' = {o \in InPool : Unexplained(o) = 1}
      /\ invalid' = (\E o \in InPool : Unexplained(o) - weak[o] > 1)
  BY DEF Seed
<1>2. ASSUME NEW o \in InPool
      PROVE  /\ Unexplained(o) = 1 => weak[o] = 0
             /\ Unexplained(o) # 1 /\ ~(Unexplained(o) - weak[o] > 1) => weak[o] > 0
  BY <1>1, UnexplainedParts
<1> QED BY <1>1, <1>2

(* Loose objects get no new references of these kinds, and lose their      *)
(* head's as the delete loop passes them.                                  *)
LEMMA LooseHeldStep ==
  ASSUME SearchInv, CountInv, LooseHeld, [Next]_vars
  PROVE  LooseHeld'
<1> USE DEF LooseHeld
<1>1. /\ Pool \in Seq(Objs) /\ InPool \subseteq Objs /\ Null \notin InPool
      /\ \A i, j \in DOMAIN Pool : Pool[i] = Pool[j] => i = j
      /\ \A i \in DOMAIN Pool : Pool[i] \in InPool /\ i \in Nat
  BY ClearAssumption, PoolObjects DEF ClearAssumption, InPool
<1>2. /\ loose \subseteq InPool /\ weak \in [Objs -> 0..1] /\ heads \in [Objs -> 0..2]
      /\ pos \in Nat
  BY DEF CountInv, Control, CountTypes
<1>3. CASE Seed
  <2>1. loose' \subseteq InPool
    BY <1>3 DEF Seed
  <2>2. \A i \in DOMAIN Pool : heads'[Pool[i]] = 1 /\ ~(i < pos')
    BY <1>1, <1>3 DEF Seed, heapVars, CountInv, Control, Heads
  <2>3. weak' = weak
    BY <1>3 DEF Seed, heapVars
  <2> QED BY <1>1, <1>3, <2>1, <2>2, <2>3, SeedVerdict
<1>4. CASE SearchRound
  BY <1>4 DEF SearchRound, heapVars, restVars
<1>5. CASE ReportDeletions
  BY <1>5 DEF ReportDeletions, heapVars
<1>6. CASE RestoreStore
  <2>1. restoring \notin loose /\ restoring \in Objs
    BY <1>1, <1>6, ResurrectedPool DEF RestoreStore, CountInv, Control
  <2>2. \A o \in loose : heads'[o] = heads[o] /\ o # Null
    BY <1>1, <1>2, <1>6, <2>1 DEF RestoreStore
  <2> QED BY <1>6, <2>2 DEF RestoreStore
<1>7. CASE DecrefCurrent
  <2>1. pos \in DOMAIN Pool /\ Current = Pool[pos] /\ Current \in Objs
    BY <1>1, <1>7 DEF DecrefCurrent, CountInv, Control, Current
  <2>2. \A i \in DOMAIN Pool :
          heads'[Pool[i]] = IF i = pos THEN heads[Pool[i]] - 1 ELSE heads[Pool[i]]
    BY <1>1, <1>2, <1>7, <2>1 DEF DecrefCurrent
  <2>3. \A i \in DOMAIN Pool : i < pos' <=> i < pos \/ i = pos
    BY <1>1, <1>2, <1>7 DEF DecrefCurrent
  <2>4. /\ UNCHANGED <<weak, loose>> /\ pc # "seed"
    BY <1>7 DEF DecrefCurrent
  <2>5. \A i \in DOMAIN Pool :
          Pool[i] \in loose => heads[Pool[i]] = IF i < pos THEN 0 ELSE 1
    BY <2>4
  <2>6. \A i \in DOMAIN Pool :
          Pool[i] \in loose => heads'[Pool[i]] = IF i < pos' THEN 0 ELSE 1
    <3> SUFFICES ASSUME NEW i \in DOMAIN Pool, Pool[i] \in loose
                 PROVE  heads'[Pool[i]] = IF i < pos' THEN 0 ELSE 1
      OBVIOUS
    <3>1. CASE i = pos
      <4>1. heads[Pool[i]] = 1
        BY <1>2, <2>5, <3>1
      <4> QED BY <2>2, <2>3, <3>1, <4>1
    <3>2. CASE i # pos
      BY <2>2, <2>3, <2>5, <3>2
    <3> QED BY <3>1, <3>2
  <2> QED BY <2>4, <2>6
<1>8. ASSUME NEW o \in Objs, ReleaseWeakReferent(o) PROVE LooseHeld'
  <2>1. \A p \in loose : weak'[p] = 0
    BY <1>1, <1>2, <1>8 DEF ReleaseWeakReferent
  <2> QED BY <1>8, <2>1 DEF ReleaseWeakReferent, Unlocked
<1>9. CASE RestoreLoad \/ \E o \in Objs : ConsumeConfirmation(o)
  <2>1. UNCHANGED <<weak, heads, loose, pos, pc>>
    BY <1>9 DEF RestoreLoad, ConsumeConfirmation, heapVars
  <2> QED BY <2>1
<1>10. CASE UNCHANGED <<weak, heads, loose, pos>> /\ pc # "seed"
  BY <1>10
<1>11. CASE UNCHANGED vars
  BY <1>11 DEF vars, heapVars, restVars
<1>12. ASSUME NEW o \in Objs, Drop(o) PROVE LooseHeld'
  BY <1>12 DEF Drop, restVars
<1> QED
  BY <1>3, <1>4, <1>5, <1>6, <1>7, <1>8, <1>9, <1>10, <1>11, <1>12
  DEF Next, heapVars, restVars, SearchDone, EndWindow, ClearCurrent, Leave, TakeRef,
      GiveUpRef, Store, Unlocked

(* In a valid graph nothing is resurrected: no window opens. *)
LEMMA ValidStep ==
  ASSUME SearchInv, CountInv, ValidGraph, [Next]_vars
  PROVE  ValidGraph'
<1> USE DEF ValidGraph
<1>1. CASE Seed
  BY <1>1, SeedVerdict DEF Seed, heapVars
<1>2. CASE SearchRound
  BY <1>2 DEF SearchRound, SearchInv, HeapTypes, heapVars
<1>3. CASE ReportDeletions
  BY <1>3 DEF ReportDeletions, ToResurrect, heapVars
<1>4. CASE Leave
  <2>1. pos \in 1..(Len(Pool) + 1) /\ Len(Pool) \in Nat
    BY ClearAssumption DEF CountInv, Control, ClearAssumption
  <2> QED BY <1>4, <2>1 DEF Leave, heapVars
<1>5. ASSUME pc = "window" PROVE ValidGraph'
  <2>1. invalid
    BY <1>5
  <2>2. invalid' /\ pc' # "left"
    BY <1>5, <2>1
    DEF Next, vars, Seed, SearchRound, SearchDone, ReportDeletions, EndWindow, RestoreStore,
        ClearCurrent, DecrefCurrent, Leave, RestoreLoad, ConsumeConfirmation, Drop, TakeRef,
        GiveUpRef, ReleaseWeakReferent, Store
  <2> QED BY <2>2
<1>6. CASE UNCHANGED <<weak, loose, invalid>>
           /\ (pc' \in {"loop", "decref"} \/ UNCHANGED <<pc, pos>>) /\ pc # "seed"
  BY <1>6
<1>7. CASE UNCHANGED vars
  BY <1>7 DEF vars, heapVars
<1>8. CASE SearchDone
  BY <1>8 DEF SearchDone, heapVars
<1>9. CASE RestoreStore
  BY <1>9 DEF RestoreStore
<1>10. CASE RestoreLoad \/ \E o \in Objs : ConsumeConfirmation(o)
  BY <1>10 DEF RestoreLoad, ConsumeConfirmation, heapVars
<1>11. ASSUME NEW o \in Objs, Drop(o) PROVE ValidGraph'
  BY <1>11 DEF Drop
<1> QED
  BY <1>1, <1>2, <1>3, <1>4, <1>5, <1>6, <1>7, <1>8, <1>9, <1>10, <1>11
  DEF Next, heapVars, EndWindow, ClearCurrent, DecrefCurrent, TakeRef, GiveUpRef,
      ReleaseWeakReferent, Store, Unlocked
(* An object that is empty stays so but for a store by another thread. *)
LEMMA EmptyStays ==
  ASSUME contents \in [Slots -> Objs \cup {Null}], NEW o, EmptySlots(o),
         UNCHANGED contents \/ \E p \in Objs : contents' = Emptied(p)
  PROVE  EmptySlots(o)'
  BY DEF EmptySlots, Emptied

(* tp_clear and tp_dealloc leave nothing behind. *)
LEMMA EmptiedIsEmpty ==
  ASSUME NEW o, contents' = Emptied(o)
  PROVE  EmptySlots(o)'
  BY DEF EmptySlots, Emptied

(* A decref leaves an object whose last reference is accounted for alone,  *)
(* unless it is the one that gives up that reference.                      *)
LEMMA DropSpares ==
  ASSUME CountInv, NEW q \in Objs, Drop(q), NEW o \in Objs \ Resurrected, rc[o] = 1,
         heads[o] > 0 \/ drops[o] = 1
  PROVE  \/ EmptySlots(o)'
         \/ rc'[o] = 1 /\ drops'[o] = drops[o]
<1>1. /\ \A p \in Objs : InDegree({p}, o) = 0
      /\ heads[o] > 0 => drops[o] = 0
      /\ drops \in [Objs -> Nat] /\ rc \in [Objs -> Int]
  <2>1. heads[o] > 0 \/ drops[o] > 0
    OBVIOUS
  <2> QED BY <2>1, LastReference DEF CountInv, CountTypes
<1>2. CASE q = o
  <2>1. contents' = Emptied(o)
    BY <1>2 DEF Drop
  <2> QED BY <2>1, EmptiedIsEmpty
<1>3. CASE q # o
  <2>1. rc'[o] = rc[o]
    BY <1>1, <1>3 DEF Drop
  <2>2. CASE rc[q] = 1
    <3>1. drops' = [DropsAfter(q) EXCEPT ![q] = @ - 1]
      BY <2>2 DEF Drop
    <3>2. DropsAfter(q)[o] = drops[o] + InDegree({q}, o) /\ DOMAIN DropsAfter(q) = Objs
      BY DEF DropsAfter
    <3>3. drops'[o] = DropsAfter(q)[o]
      BY <1>3, <3>1, <3>2
    <3>4. drops[o] + 0 = drops[o]
      BY <1>1
    <3> QED BY <1>1, <2>1, <3>2, <3>3, <3>4
  <2>3. CASE rc[q] # 1
    BY <1>1, <1>3, <2>1, <2>3 DEF Drop
  <2> QED BY <2>2, <2>3
<1> QED BY <1>2, <1>3

(* Every object the delete loop passes has been emptied or goes with the   *)
(* decref that the loop makes due.                                         *)
LEMMA PassedStep ==
  ASSUME SearchInv, CountInv, Passed, [Next]_vars
  PROVE  Passed'
<1> USE DEF Passed
<1>1. /\ Pool \in Seq(Objs) /\ InPool \subseteq Objs
      /\ \A i, j \in DOMAIN Pool : Pool[i] = Pool[j] => i = j
      /\ \A i \in DOMAIN Pool : Pool[i] \in Objs /\ i \in Nat /\ i >= 1
      /\ loose \cap Resurrected = {}
  BY ClearAssumption, PoolObjects, ResurrectedPool DEF ClearAssumption, InPool
<1>2. /\ contents \in [Slots -> Objs \cup {Null}] /\ drops \in [Objs -> Nat]
      /\ rc \in [Objs -> Int] /\ pos \in Nat
  BY DEF CountInv, CountTypes, Control
<1>3. ASSUME pos' = 1, pc' # "decref" PROVE Passed'
  BY <1>1, <1>3
<1>4. CASE Seed \/ SearchRound \/ SearchDone \/ ReportDeletions \/ EndWindow
  BY <1>3, <1>4
  DEF Seed, SearchRound, SearchDone, ReportDeletions, EndWindow, CountInv, Control
<1>5. ASSUME pc = "window", UNCHANGED <<pc, pos>> PROVE Passed'
  BY <1>3, <1>5 DEF CountInv, Control
<1>6. CASE RestoreStore
  <2>1. /\ restoring \in Resurrected /\ UNCHANGED <<contents, drops, pc, pos, loose>>
    BY <1>6 DEF RestoreStore, CountInv, Control
  <2>2. \A i \in DOMAIN Pool : Pool[i] \in loose => rc'[Pool[i]] = rc[Pool[i]]
    BY <1>1, <1>2, <1>6, <2>1 DEF RestoreStore
  <2>3. \A i \in DOMAIN Pool : EmptySlots(Pool[i]) => EmptySlots(Pool[i])'
    BY <1>2, <2>1, EmptyStays
  <2> QED BY <2>1, <2>2, <2>3
<1>7. ASSUME NEW o \in Objs,
             \/ TakeRef(o) \/ GiveUpRef(o) \/ ReleaseWeakReferent(o)
             \/ \E s \in Slots : Store(s, o)
      PROVE  Passed'
  BY <1>5, <1>7 DEF TakeRef, GiveUpRef, ReleaseWeakReferent, Store, Unlocked,
                    CountInv, Control
<1>8. CASE ClearCurrent
  <2>1. NoDrops /\ pos <= Len(Pool) /\ UNCHANGED <<rc, pos, loose, heads>>
    BY <1>8 DEF ClearCurrent
  <2>2. UNCHANGED contents \/ contents' = Emptied(Current)
    BY <1>8 DEF ClearCurrent
  <2>3. Current \in Objs
    BY <1>1, <1>2, <2>1 DEF Current, CountInv, Control
  <2> SUFFICES ASSUME NEW i \in DOMAIN Pool, Pool[i] \in loose' \cap Clearable
               PROVE  /\ i < pos' => EmptySlots(Pool[i])'
                      /\ i = pos' => EmptySlots(Pool[i])' \/ rc'[Pool[i]] = 1
    OBVIOUS
  <2>4. CASE i < pos
    <3>1. drops[Pool[i]] = 0
      BY <1>1, <2>1 DEF NoDrops
    <3>2. EmptySlots(Pool[i])
      BY <2>1, <2>4, <3>1
    <3>3. EmptySlots(Pool[i])'
      BY <1>2, <2>2, <2>3, <3>2, EmptyStays
    <3> QED BY <1>1, <1>2, <2>1, <2>4, <3>3
  <2>5. CASE i = pos
    <3>1. Current = Pool[i] /\ heads[Pool[i]] > 0
      <4>1. i >= pos /\ heads[Pool[i]] \in Nat
        BY <1>1, <1>2, <2>5, RefParts DEF CountInv
      <4>2. heads[Pool[i]] >= 1
        BY <4>1 DEF CountInv, Heads
      <4> QED BY <2>5, <4>1, <4>2 DEF Current
    <3>2. rc[Pool[i]] > 0
      <4>1. Pool[i] \in Objs \ Resurrected
        BY <1>1, <2>1
      <4> QED BY <3>1, <4>1, HeldCounted DEF CountInv
    <3>3. CASE rc[Pool[i]] > 1
      <4>1. contents' = Emptied(Pool[i])
        BY <1>8, <2>1, <3>1, <3>3 DEF ClearCurrent
      <4>2. EmptySlots(Pool[i])'
        BY <4>1, EmptiedIsEmpty
      <4> QED BY <1>1, <1>2, <2>1, <2>5, <4>2
    <3>4. CASE ~(rc[Pool[i]] > 1)
      BY <1>1, <1>2, <2>1, <2>5, <3>2, <3>4
    <3> QED BY <3>3, <3>4
  <2> QED BY <1>1, <1>2, <2>1, <2>4, <2>5
<1>9. CASE DecrefCurrent
  <2>1. /\ pos \in DOMAIN Pool /\ NoDrops /\ pc = "decref" /\ pc' = "loop"
        /\ pos' = pos + 1 /\ UNCHANGED <<rc, contents, loose>>
        /\ drops' = [drops EXCEPT ![Pool[pos]] = drops[Pool[pos]] + 1]
    BY <1>9 DEF DecrefCurrent, Current, CountInv, Control
  <2> SUFFICES ASSUME NEW i \in DOMAIN Pool, Pool[i] \in loose' \cap Clearable, i < pos'
               PROVE  EmptySlots(Pool[i])' \/ (rc'[Pool[i]] = 1 /\ drops'[Pool[i]] = 1)
    BY <2>1
  <2>2. drops[Pool[i]] = 0
    BY <1>1, <2>1 DEF NoDrops
  <2>3. CASE EmptySlots(Pool[i])
    BY <1>2, <2>1, <2>3, EmptyStays
  <2>4. CASE i = pos /\ rc[Pool[i]] = 1
    BY <1>1, <1>2, <2>1, <2>2, <2>4
  <2>5. i < pos \/ i = pos
    BY <1>1, <1>2, <2>1
  <2> QED BY <2>1, <2>2, <2>3, <2>4, <2>5
<1>10. ASSUME NEW q \in Objs, Drop(q) PROVE Passed'
  <2>1. /\ UNCHANGED <<pc, pos, loose, heads>>
        /\ UNCHANGED contents \/ contents' = Emptied(q)
    BY <1>10 DEF Drop
  <2> SUFFICES ASSUME NEW i \in DOMAIN Pool, Pool[i] \in loose \cap Clearable
               PROVE  /\ i < pos => \/ EmptySlots(Pool[i])'
                                    \/ rc'[Pool[i]] = 1 /\ drops'[Pool[i]] = 1
                      /\ i = pos /\ pc = "decref" =>
                           EmptySlots(Pool[i])' \/ rc'[Pool[i]] = 1
    BY <2>1
  <2>2. CASE EmptySlots(Pool[i])
    BY <1>2, <2>1, <2>2, EmptyStays
  <2>3. CASE rc[Pool[i]] = 1 /\ drops[Pool[i]] = 1
    BY <1>1, <1>10, <2>3, DropSpares
  <2>4. CASE i = pos /\ rc[Pool[i]] = 1
    <3>1. heads[Pool[i]] > 0
      <4>1. i >= pos /\ heads[Pool[i]] \in Nat
        BY <1>1, <1>2, <2>4, RefParts DEF CountInv
      <4>2. heads[Pool[i]] >= 1
        BY <4>1 DEF CountInv, Heads
      <4> QED BY <4>1, <4>2
    <3> QED BY <1>1, <1>2, <1>10, <2>4, <3>1, DropSpares
  <2> QED BY <2>2, <2>3, <2>4
<1>11. CASE \/ Leave \/ UNCHANGED vars \/ RestoreLoad
            \/ \E o \in Objs : ConsumeConfirmation(o)
  <2>1. UNCHANGED <<contents, rc, drops, pos, loose>> /\ (pc' = "decref" => pc = "decref")
    BY <1>11 DEF Leave, vars, heapVars, RestoreLoad, ConsumeConfirmation
  <2>2. \A i \in DOMAIN Pool : EmptySlots(Pool[i]) => EmptySlots(Pool[i])'
    BY <1>2, <2>1, EmptyStays
  <2> QED BY <2>1, <2>2
<1> QED
  BY <1>4, <1>6, <1>7, <1>8, <1>9, <1>10, <1>11 DEF Next

-----------------------------------------------------------------------------

(* At the end of the cycle a loose object that is still there has lost its *)
(* head's reference: something refers to it that tp_clear was not called   *)
(* for.                                                                    *)
LEMMA LooseReferenced ==
  ASSUME SearchInv, CountInv, FreedInv, pc = "left", NoDrops,
         NEW o \in loose, o \in alive
  PROVE  \E p \in alive : /\ Referring({p}, o) # {}
                          /\ p \in loose \ Clearable \/ (~invalid /\ weak[p] > 0)
<1>1. /\ o \in InPool /\ InPool \subseteq Objs /\ loose \cap Resurrected = {}
  BY PoolObjects, ResurrectedPool DEF CountInv, Control
<1>2. \A p \in loose : \E i \in DOMAIN Pool : p = Pool[i] /\ i < pos
  BY ClearAssumption DEF CountInv, Control, FreedInv, ValidGraph, InPool, ClearAssumption
<1>3. heads[o] = 0 /\ weak[o] = 0 /\ drops[o] = 0
  BY <1>1, <1>2 DEF FreedInv, LooseHeld, NoDrops
<1>4. o \notin Kept
  BY <1>1 DEF Kept, Outside
<1>5. ext[o] = 0
  <2>1. ext[o] \in Nat
    BY <1>1 DEF SearchInv, HeapTypes
  <2> QED BY <1>1, <1>4, <2>1 DEF SearchInv, KeptClosed
<1>6. InDegree(Objs, o) # 0
  <2>1. rc[o] > 0 /\ rc[o] = Refs(o)
    BY <1>1 DEF FreedInv, Counted, CountInv, Exact
  <2> QED BY <1>3, <1>5, <2>1 DEF Refs
<1>7. PICK s \in Slots : contents[s] = o
  BY <1>6, ReferringFinite DEF Referring, SlotsOf
<1>8. s[1] \in Objs /\ s[1] \notin Kept /\ o # Null /\ Referring({s[1]}, o) # {}
  BY <1>1, <1>4, <1>7, SlotOwner, ClearAssumption
  DEF SearchInv, KeptClosed, ClearAssumption, Referring, SlotsOf
<1>9. CASE s[1] \in loose
  <2>1. PICK i \in DOMAIN Pool : s[1] = Pool[i] /\ i < pos
    BY <1>2, <1>9
  <2>2. drops[Pool[i]] = 0
    BY <1>8, <2>1 DEF NoDrops
  <2>3. ~EmptySlots(s[1])
    BY <1>7, <1>8 DEF EmptySlots
  <2>4. s[1] \notin Clearable
    BY <1>9, <2>1, <2>2, <2>3 DEF FreedInv, Passed
  <2>5. s[1] \in alive
    BY <1>1, <1>8, <1>9, <2>3 DEF FreedInv, DeadEmpty
  <2> QED BY <1>8, <1>9, <2>4, <2>5
<1>10. CASE s[1] \notin loose
  <2>1. ~invalid /\ s[1] \in InPool
    BY <1>8, <1>10 DEF Kept, Outside
  <2>2. weak[s[1]] > 0
    BY <1>10, <2>1 DEF FreedInv, ValidGraph
  <2>3. s[1] \notin Resurrected
    BY <2>1 DEF Resurrected, ToResurrect
  <2>4. s[1] \in alive
    BY <1>7, <1>8, <2>3 DEF FreedInv, DeadEmpty, EmptySlots
  <2> QED BY <1>8, <2>1, <2>2, <2>4
<1> QED BY <1>9, <1>10

(* The search, the counts and what the loop has done are invariant.        *)
LEMMA FreedInvariant == Spec => [](SearchInv /\ CountInv /\ FreedInv)
<1> DEFINE Inv == SearchInv /\ CountInv /\ FreedInv
<1>1. Init => Inv
  BY SearchInit, CountInit, FreedInit
<1>2. ASSUME Inv, [Next]_vars PROVE Inv'
  <2>1. SearchInv'
    BY <1>2, SearchStep
  <2>2. CountInv'
    BY <1>2, ExactStep, ControlStep, HeadsStep DEF CountInv
  <2>3. FreedInv'
    BY <1>2, CountedStep, DeadEmptyStep, LooseHeldStep, ValidStep, PassedStep DEF FreedInv
  <2> QED BY <2>1, <2>2, <2>3
<1>3. Inv /\ [Next]_vars => Inv'
  BY <1>2
<1> SUFFICES Spec => []Inv
  OBVIOUS
<1> HIDE DEF Inv
<1> QED BY <1>1, <1>3, PTL DEF Spec

(* Whatever the search judged garbage is deallocated when the cycle is     *)
(* over, for any heap and pool and whatever other threads and finalizers   *)
(* do, unless something that tp_clear was not called for refers to it.     *)
THEOREM AllGarbageFreed == Spec => []GarbageIsFreed
<1>1. SearchInv /\ CountInv /\ FreedInv => GarbageIsFreed
  BY LooseReferenced DEF GarbageIsFreed
<1> QED BY <1>1, FreedInvariant, PTL
=============================================================================
