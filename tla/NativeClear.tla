----------------------------- MODULE NativeClear -----------------------------
(***************************************************************************)
(* JyGC_clearNativeReferences: what the native side does with the objects  *)
(* whose Java heads were collected.  checkReferenceGraph decides from the  *)
(* reference counts which of them are still held from outside the chunk;   *)
(* the rest is cleared, and every object loses the reference its dead head *)
(* had.  Between the decision and the deletion the GIL may be released, so *)
(* other threads keep running on the very objects that were examined.      *)
(*                                                                         *)
(* Containers are abstracted to slots <<owner, index>>: contents[s] is the *)
(* object the slot refers to, as tp_traverse visits it and tp_clear drops  *)
(* it.  A decref that is due is counted in drops and carried out by Drop;  *)
(* the order of cascading decrefs is left open.                            *)
(*                                                                         *)
(* Resurrections run on the finalizer thread, without the GIL, and are not *)
(* over when the reaper's wait for them is.  Of the object concerned the   *)
(* count may then be wrong and the memory freed: freed memory keeps what   *)
(* the model says of it until the end of the cycle.                        *)
(***************************************************************************)
EXTENDS Integers, Sequences, FiniteSets

CONSTANTS
  Objs,        \* native objects with a JyGCHead
  Null,        \* the empty slot
  Pool,        \* refPool: sequence of the objects whose heads died
  Slots,       \* the slots of the objects: a set of pairs <<owner, index>>
  Stubs,       \* objects that PyObject_NEEDS_CONFIRM_GC
  Clearable,   \* objects whose type has a tp_clear: a tuple's has none
  WeakTargets, \* objects a JyNIGlobalRef may hold a reference to
  ExtTargets,  \* bound: objects that stack frames and statics refer to
  MaxExt       \* bound: references from outside the graph, per object

InPool == {Pool[i] : i \in DOMAIN Pool}

ASSUME ClearAssumption ==
  /\ IsFiniteSet(Slots) /\ Slots \subseteq Objs \X Nat
  /\ Null \notin Objs
  /\ Pool \in Seq(Objs)
  /\ \A i, j \in DOMAIN Pool : Pool[i] = Pool[j] => i = j
  /\ Stubs \subseteq Objs /\ Clearable \subseteq Objs /\ WeakTargets \subseteq Objs
  /\ ExtTargets \subseteq Objs
  /\ MaxExt \in Nat

VARIABLES
  contents,   \* of every slot
  ext,        \* references held by stack frames and statics
  weak,       \* JyAttributeWeakRefCount: references held for Java weak refs
  heads,      \* references held by live or not yet released JyGCHeads
  rc,         \* ob_refcnt
  alive,      \* objects not deallocated
  drops,      \* decrefs under way
  pc,         \* control state of JyGC_clearNativeReferences
  pos,        \* index of its delete loop
  loose,      \* objects of the pool with graphResult = 1
  frontier,   \* restoreStack of the breadth-first search
  invalid,    \* graphInvalid
  toRestore,  \* reported resurrections no finalizer has consumed
  consumed,   \* the object whose resurrection was consumed, but not begun
  restoring,  \* the object whose incref is half done
  loaded      \* the count that incref has read

heapVars == <<contents, ext, weak, heads, rc, alive, drops>>
restVars == <<toRestore, consumed, restoring, loaded>>
vars     == <<heapVars, pc, pos, loose, frontier, invalid, restVars>>

TypeOK ==
  /\ contents \in [Slots -> Objs \cup {Null}]
  /\ ext \in [Objs -> 0..MaxExt] /\ weak \in [Objs -> 0..1]
  /\ heads \in [Objs -> 0..2]
  /\ rc \in [Objs -> Int] /\ drops \in [Objs -> Nat]
  /\ alive \subseteq Objs
  /\ pc \in {"seed", "bfs", "report", "window", "loop", "decref", "left"}
  /\ pos \in 1..(Len(Pool) + 1)
  /\ loose \subseteq InPool /\ frontier \subseteq InPool /\ toRestore \subseteq InPool
  /\ invalid \in BOOLEAN
  /\ consumed \in InPool \cup {Null} /\ restoring \in InPool \cup {Null}
  /\ loaded \in Int

-----------------------------------------------------------------------------
(* Reading the heap *)

SlotsOf(S)     == {s \in Slots : s[1] \in S}
Referring(S,o) == {s \in SlotsOf(S) : contents[s] = o}
InDegree(S, o) == Cardinality(Referring(S, o))

(* S contains whatever its members refer to. *)
Closed(S) == \A s \in SlotsOf(S) : contents[s] # Null => contents[s] \in S

(* What gcDeletionReport is told to resurrect, and what a finalizer has    *)
(* begun to.                                                               *)
ToResurrect == IF invalid THEN (Stubs \cap InPool) \ loose ELSE {}
Resurrected == IF pc \in {"seed", "bfs", "report"} THEN {} ELSE ToResurrect \ toRestore

(* What a thread can reach: from its own references, and from the objects  *)
(* that Java hands to native code because they have a head that lives.     *)
Roots     == {o \in Objs : ext[o] > 0} \cup (Objs \ InPool) \cup Resurrected
Reachable == {o \in Objs : \A S \in SUBSET Objs : Roots \subseteq S /\ Closed(S) => o \in S}

NoDrops == \A o \in Objs : drops[o] = 0

(* Emptying the slots of o, as tp_clear and tp_dealloc do: the decrefs due. *)
Emptied(o)    == [s \in Slots |-> IF s[1] = o THEN Null ELSE contents[s]]
DropsAfter(o) == [p \in Objs |-> drops[p] + InDegree({o}, p)]

Init ==
  /\ contents \in [Slots -> Objs \cup {Null}]
  /\ ext \in {e \in [Objs -> 0..MaxExt] : \A o \in Objs \ ExtTargets : e[o] = 0}
  /\ weak \in {w \in [Objs -> 0..1] : \A o \in Objs \ WeakTargets : w[o] = 0}
  /\ heads = [o \in Objs |-> 1]
  /\ rc = [o \in Objs |-> 1 + ext[o] + weak[o] + InDegree(Objs, o)]
  /\ alive = Objs /\ drops = [o \in Objs |-> 0]
  /\ pc = "seed" /\ pos = 1
  /\ loose = {} /\ frontier = {} /\ invalid = FALSE
  /\ toRestore = {} /\ consumed = Null /\ restoring = Null /\ loaded = 0

-----------------------------------------------------------------------------
(* checkReferenceGraph *)

(* result[i] after the decref traversal: the references that no object of  *)
(* the pool explains; 1 is the reference of the object's own head.         *)
Unexplained(o) == rc[o] - InDegree(InPool, o)

(* Mutant: objects outside the pool are judged, too. *)
SeedEverywhere ==
  /\ pc = "seed"
  /\ loose' = {o \in Objs : Unexplained(o) = 1}
  /\ invalid' = (\E o \in InPool : Unexplained(o) - weak[o] > 1)
  /\ frontier' = IF invalid' THEN InPool \ loose' ELSE {}
  /\ pc' = "bfs"
  /\ UNCHANGED <<heapVars, pos, restVars>>

Seed ==
  /\ pc = "seed"
  /\ loose' = {o \in InPool : Unexplained(o) = 1}
  /\ invalid' = (\E o \in InPool : Unexplained(o) - weak[o] > 1)
  /\ frontier' = IF invalid' THEN InPool \ loose' ELSE {}
  /\ pc' = "bfs"
  /\ UNCHANGED <<heapVars, pos, restVars>>

(* Mutant: the search stops after its first round. *)
SearchOnce ==
  /\ pc = "bfs" /\ frontier # {}
  /\ frontier' = {}
  /\ loose' = loose \ {o \in loose : Referring(frontier, o) # {}}
  /\ UNCHANGED <<heapVars, pc, pos, invalid, restVars>>

(* One round of the search: what the stack refers to is no longer loose. *)
SearchRound ==
  /\ pc = "bfs" /\ frontier # {}
  /\ frontier' = {o \in loose : Referring(frontier, o) # {}}
  /\ loose' = loose \ frontier'
  /\ UNCHANGED <<heapVars, pc, pos, invalid, restVars>>

SearchDone ==
  /\ pc = "bfs" /\ frontier = {}
  /\ pc' = "report"
  /\ UNCHANGED <<heapVars, pos, loose, frontier, invalid, restVars>>

-----------------------------------------------------------------------------
(* gcDeletionReport and the wait for the finalizers *)

ReportDeletions ==
  /\ pc = "report"
  /\ toRestore' = ToResurrect
  /\ pc' = IF ToResurrect = {} THEN "loop" ELSE "window"
  /\ UNCHANGED <<heapVars, pos, loose, frontier, invalid, consumed, restoring, loaded>>

(* consumeConfirmation, by the finalizer of an old head *)
ConsumeConfirmation(o) ==
  /\ o \in toRestore /\ consumed = Null /\ restoring = Null
  /\ toRestore' = toRestore \ {o} /\ consumed' = o
  /\ UNCHANGED <<heapVars, pc, pos, loose, frontier, invalid, restoring, loaded>>

(* resurrect, on that thread: JyGC_restoreCStubBackend increfs the object  *)
(* for its new head without taking the GIL, so the load and the store of   *)
(* the count are two steps.                                                *)
RestoreLoad ==
  /\ consumed # Null
  /\ consumed' = Null /\ restoring' = consumed /\ loaded' = rc[consumed]
  /\ UNCHANGED <<heapVars, pc, pos, loose, frontier, invalid, toRestore>>

(* A change of the count since the load is overwritten, or overwrites.     *)
RestoreStore ==
  /\ restoring # Null
  /\ \/ rc' = [rc EXCEPT ![restoring] = loaded + 1]
     \/ rc[restoring] # loaded /\ rc' = rc
  /\ heads' = [heads EXCEPT ![restoring] = @ + 1]
  /\ restoring' = Null /\ loaded' = 0
  /\ UNCHANGED <<contents, ext, weak, alive, drops, pc, pos, loose, frontier, invalid,
                 toRestore, consumed>>

(* waitForCStubs returns when every report has been consumed, which is not *)
(* when the last resurrection is over; then Py_END_ALLOW_THREADS.          *)
EndWindow ==
  /\ pc = "window" /\ NoDrops /\ toRestore = {}
  /\ pc' = "loop"
  /\ UNCHANGED <<heapVars, pos, loose, frontier, invalid, restVars>>

-----------------------------------------------------------------------------
(* The delete loop *)

Current == Pool[pos]

(* Mutant: off by one, an object that only refers to itself is not cleared. *)
ClearShared ==
  /\ pc = "loop" /\ NoDrops /\ pos <= Len(Pool)
  /\ pc' = "decref"
  /\ IF Current \in loose \cap Clearable /\ rc[Current] > 2
     THEN contents' = Emptied(Current) /\ drops' = DropsAfter(Current)
     ELSE UNCHANGED <<contents, drops>>
  /\ UNCHANGED <<ext, weak, heads, rc, alive, pos, loose, frontier, invalid, restVars>>

(* Mutant: the references are given up, but the slots still have them. *)
ClearKeepsSlots ==
  /\ pc = "loop" /\ NoDrops /\ pos <= Len(Pool)
  /\ pc' = "decref"
  /\ drops' = IF Current \in loose \cap Clearable /\ rc[Current] > 1
              THEN DropsAfter(Current) ELSE drops
  /\ UNCHANGED <<contents, ext, weak, heads, rc, alive, pos, loose, frontier, invalid,
                 restVars>>

(* tp_clear, where the type has one, for an object nobody outside holds    *)
(* and that others refer to                                                *)
ClearCurrent ==
  /\ pc = "loop" /\ NoDrops /\ pos <= Len(Pool)
  /\ pc' = "decref"
  /\ IF Current \in loose \cap Clearable /\ rc[Current] > 1
     THEN contents' = Emptied(Current) /\ drops' = DropsAfter(Current)
     ELSE UNCHANGED <<contents, drops>>
  /\ UNCHANGED <<ext, weak, heads, rc, alive, pos, loose, frontier, invalid, restVars>>

(* Py_DECREF: the reference of the dead head *)
DecrefCurrent ==
  /\ pc = "decref" /\ NoDrops
  /\ drops' = [drops EXCEPT ![Current] = @ + 1]
  /\ heads' = [heads EXCEPT ![Current] = @ - 1]
  /\ pos' = pos + 1
  /\ pc' = "loop"
  /\ UNCHANGED <<contents, ext, weak, rc, alive, loose, frontier, invalid, restVars>>

Leave ==
  /\ pc = "loop" /\ NoDrops /\ pos > Len(Pool)
  /\ pc' = "left"
  /\ UNCHANGED <<heapVars, pos, loose, frontier, invalid, restVars>>

(* One decref; the last one deallocates and drops what the object held. *)
Drop(o) ==
  /\ drops[o] > 0
  /\ rc' = [rc EXCEPT ![o] = @ - 1]
  /\ IF rc[o] = 1
     THEN /\ alive' = alive \ {o}
          /\ contents' = Emptied(o)
          /\ drops' = [DropsAfter(o) EXCEPT ![o] = @ - 1]
     ELSE /\ drops' = [drops EXCEPT ![o] = @ - 1]
          /\ UNCHANGED <<alive, contents>>
  /\ UNCHANGED <<ext, weak, heads, pc, pos, loose, frontier, invalid, restVars>>

-----------------------------------------------------------------------------
(* Other threads (external), while the reaper does not hold the GIL.  They *)
(* only get at objects reachable from references they already own.         *)

Unlocked == pc = "window" /\ NoDrops

TakeRef(o) ==
  /\ Unlocked /\ o \in Reachable \cap ExtTargets /\ ext[o] < MaxExt
  /\ ext' = [ext EXCEPT ![o] = @ + 1] /\ rc' = [rc EXCEPT ![o] = @ + 1]
  /\ UNCHANGED <<contents, weak, heads, alive, drops, pc, pos, loose, frontier,
                 invalid, restVars>>

GiveUpRef(o) ==
  /\ Unlocked /\ ext[o] > 0
  /\ ext' = [ext EXCEPT ![o] = @ - 1] /\ drops' = [drops EXCEPT ![o] = @ + 1]
  /\ UNCHANGED <<contents, weak, heads, rc, alive, pc, pos, loose, frontier, invalid,
                 restVars>>

Store(s, o) ==
  /\ Unlocked /\ s[1] \in Reachable /\ o \in Reachable
  /\ contents' = [contents EXCEPT ![s] = o]
  /\ rc' = [rc EXCEPT ![o] = @ + 1]
  /\ drops' = IF contents[s] = Null THEN drops ELSE [drops EXCEPT ![contents[s]] = @ + 1]
  /\ UNCHANGED <<ext, weak, heads, alive, pc, pos, loose, frontier, invalid, restVars>>

(* Mutant: the count of weak references goes down, ob_refcnt does not. *)
ReleaseCountOnly(o) ==
  /\ Unlocked /\ weak[o] > 0
  /\ weak' = [weak EXCEPT ![o] = @ - 1]
  /\ UNCHANGED <<contents, ext, heads, rc, alive, drops, pc, pos, loose, frontier,
                 invalid, restVars>>

(* releaseWeakReferent, called when the Java referent was collected *)
ReleaseWeakReferent(o) ==
  /\ Unlocked /\ weak[o] > 0
  /\ weak' = [weak EXCEPT ![o] = @ - 1] /\ drops' = [drops EXCEPT ![o] = @ + 1]
  /\ UNCHANGED <<contents, ext, heads, rc, alive, pc, pos, loose, frontier, invalid,
                 restVars>>

-----------------------------------------------------------------------------

Next ==
  \/ Seed \/ SearchRound \/ SearchDone \/ ReportDeletions \/ EndWindow
  \/ RestoreLoad \/ RestoreStore \/ ClearCurrent \/ DecrefCurrent \/ Leave
  \/ \E o \in Objs : \/ ConsumeConfirmation(o) \/ Drop(o)
                     \/ TakeRef(o) \/ GiveUpRef(o) \/ ReleaseWeakReferent(o)
  \/ \E s \in Slots, o \in Objs : Store(s, o)

Spec == Init /\ [][Next]_vars

-----------------------------------------------------------------------------
(* Properties *)

(* The delete loop never empties an object that a thread can still reach,  *)
(* although the search ran before the GIL was released.                    *)
ClearSparesReachable ==
  pc \in {"report", "window", "loop", "decref"} => loose \cap Reachable = {}

(* Every reference that exists is to a live object, but for objects that a *)
(* finalizer has begun to resurrect: no decref or tp_clear of the cycle    *)
(* and nothing another thread does touches any other deallocated object.   *)
NoUseAfterFree ==
  \A o \in Objs \ (alive \cup Resurrected) :
    /\ ext[o] = 0 /\ weak[o] = 0 /\ heads[o] = 0 /\ drops[o] = 0
    /\ Referring(Objs, o) = {} /\ o \notin toRestore

CountedExactly(o) == rc[o] = heads[o] + ext[o] + weak[o] + InDegree(Objs, o) + drops[o]

(* ob_refcnt is exactly the number of references there are, of every       *)
(* object that no finalizer has begun to resurrect.                        *)
RefCountsExact == \A o \in alive \ Resurrected : CountedExactly(o)

(* The same of the resurrected objects: what other threads do in the       *)
(* window does not interfere with their counts.                            *)
CountsUndisturbed == \A o \in alive : CountedExactly(o)

(* What the search judged garbage is deallocated when the cycle is over,   *)
(* whatever the other threads did in the window, unless something that     *)
(* tp_clear was not called for still refers to it: garbage of a type that  *)
(* has none, or, in a graph found valid, a weakly referenced object.       *)
GarbageIsFreed ==
  pc = "left" /\ NoDrops =>
    \A o \in loose \cap alive : \E p \in alive :
      /\ Referring({p}, o) # {}
      /\ p \in loose \ Clearable \/ (~invalid /\ weak[p] > 0)
=============================================================================
