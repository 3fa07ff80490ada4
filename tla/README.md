# TLA+ models of JyNI

JyNI lets Jython load CPython 2.7 C extensions. It compiles an adapted CPython
runtime (JyNI-C), connects it to Jython through JNI (JyNI-Java), and keeps two
object worlds in step: native `PyObject`s with reference counts, and Java
`PyObject`s under the JVM's garbage collector. The program's own difficulty is
there: who keeps whom alive, which thread may touch a native object, and who
decides that a pair of objects is garbage. This directory models these parts.

Paths below are relative to `src/`; `gcmodule.c` is
`JyNI-C/src/Modules/gcmodule.c`, `JyNI.java` is `JyNI-Java/src/JyNI/JyNI.java`.

## Inventory

| Component | State | Operations | Who calls it |
|---|---|---|---|
| GC confirmation handshake (`JyNI.java` 1366-1650, `gc/JyWeakReferenceGC.java`, `gc/CStubGCHead.java`, `gc/CStubSimpleGCHead.java`, `gc/JyNIFinalizeTriggerFactory.java`) | `confirmedDeletions`, `resurrections`, `confirmationsUnconsumed`, `unconsumedTracker`, `preconsumedMaybeResurrect`, `resurrectionQueue`, the reaper's reference queue and `refList` | `gcDeletionReport`, `consumeConfirmation`, `waitForCStubs`, `resurrect`, `postProcessCStubGCCycle` | the reaper thread, the JVM's finalizer thread, delayed finalizations |
| Native clearing (`gcmodule.c` 2222-2563) | reference counts, `graphResult`, `refPool` | `checkReferenceGraph`, `JyGC_clearNativeReferences`, `JyGC_restoreCStubBackend` | the reaper; the finalizer thread for restoring; other threads run while the GIL is released |
| Exploration stack (`gcmodule.c` 94-245, 1646-2220, 2789-3113, `JyAlloc.c` 482-525) | a static block and malloc'ed overflow blocks of borrowed pointers, `gc_refs`, heads | push, pop, remove, Track, UnTrack, `JyNI_GC_Explore`, `JyNI_GC_ExploreObject` | all native code, through LEAVE_JyNI and the allocators |
| Head links (`gc/DefaultTraversableGCHead.java`, `gcmodule.c` 1848-2186, 2565-2683, `JyNI.java` 1654-1699) | the links by which Java mirrors the native reference graph | set, insert, clear, `JyGC_validateGCHead`, `preProcessCStubGCCycle` | exploration, list operations, the Java collector's hooks |
| GIL and thread states (`include/JyNI.h` 64-100, `ceval.c` 272-400, `pystate.c`, `JyTState.c`, `JyTState.java`) | lock, current thread state, counters, per-thread natively held state | ENTER/LEAVE/RE_ENTER, `PyGILState_Ensure`/`Release`, Save/RestoreThread | every JNI entry |
| Allocation and conversion (`JyAlloc.c`, `JyNI.java` 500-620) | flags of the JyObject, weak global references, the two handle maps | `JyNI_Alloc*`, `InitPyObject*`, `setNativeHandle`, `clearNativeHandle` | both sides |
| Weak references (`JyNIGlobalRef.java`, `weakrefobject.c`, `JyNI.java` 1714-1800) | global reference with a native handle or a Java referent, weak count | `get`, `notifyBackendClear`, `notifyNativeClear`, `releaseWeakReferent` | Java and native code |
| Shared lists and sets (`JyList.c`, `JySet.c`, `JySync.c`) | the native array and its Java view | item access, resizing, synchronization on init | both sides |
| Iteration over dicts and sets (`JyNI.java` 777-860, `dictobject.c` 1045-1123, `setobject.c` 2677-2700) | one cached iterator | `PyDict_Next`, `_PySet_Next` | native code |
| JyHash, JyAttributes | open hash table; attribute list of a JyObject | put, get, remove, iterate | native code |
| Reference monitor (`JyReferenceMonitor.java`, `JyRefMonitor.c`) | log of native objects | actions, listing of leaks | tests |
| Peers of native types (`PyCPeer*.java`) | a handle | delegation | Jython |
| Locks (`thread_JyNI.c`, `JyLock.java`) | a monitor | acquire, release | native code |
| Start-up and import | JNI identifiers, libraries | once | JVM |
| Vendored CPython, JyNI-Lib, demos, tests | - | - | - |

How they interact. A native container is tracked and pushed on the exploration
stack; when native code returns to Java, exploration gives it a *head* (a Java
object that owns one reference to it) and links the head to those of its
elements. When the JVM finds a head unreachable, its weak reference goes to the
reaper, and, for *CStubs* (objects whose content lives in Java), the head's
`finalize()` becomes runnable. The reaper collects a chunk, asks native code
which of these objects are explained by references within the chunk, and
reports the answer to the finalizers. Each finalizer waits for the verdict on
its own object and resurrects the head if the native side still needs it.
Meanwhile the reaper has released the GIL; then it takes it again, clears
what was garbage, and drops the dead heads' references.

What makes each of them correct:

* handshake: every finalizer learns the right verdict exactly once; no thread
  waits for a thread that waits for it; the reaper comes back for the next cycle;
* native clearing: reference counts are exact at all times; nothing a thread can
  reach is emptied; nothing is used after it was freed; garbage is freed;
* exploration: what is tracked gets explored; what died is not; no entry is lost
  when the stack is rearranged;
* head links: the Java graph has a link for every native reference when a
  collection decides; GIL: one thread at a time, its own thread state current,
  no thread state freed in use; weak references: `get` never resurrects a dead
  object; iteration: an iteration continues where its own last call left off.

PROJECT.json lists the hazards at their lines, with the properties that would
catch them going wrong.

## What is modelled

### GCHandshake

Threads: the reaper (`rpc`), the finalizer thread (`fpc`), delayed finalizations
(`dpc`), each with its control state; the JVM's collector as the external action
`JavaGC`, which makes any set of unreachable heads *dying*, queued for both
threads. The monitor `CStubGCHead.class`: a synchronized block is one action,
`wait()` puts the thread into `waitSet`, `notify()` removes one arbitrary member
(`NotifyOne`). The unsynchronized loops of `gcDeletionReport` take two actions
per handle: the test whether its finalizer was early, and then the removal from
`preconsumedMaybeResurrect` or the insertion into `unconsumedTracker`. Other
threads come in between; when one of them has cleared the map, the reaper resurrects
null and goes on with an exception pending. What JNI calls do then is undefined, and the
model's reaper stops (`failed`).

| Action | Code |
|---|---|
| `RemoveRef`, `PollRefs` | `GCReaperThread.run`, `remove()`, then `poll()` and the removal of the chunk from `refList` |
| `EnterNative(R)` | ENTER_JyNI and the verdict, with R the part still needed |
| `TrackPreconsumed`, `RemovePreconsumed`, `TrackUnknown`, `TrackAdd` | the loops of `gcDeletionReport`, which themselves settle a handle whose finalizer came early |
| `ReportBlocked`, `Report`, `ReaperPostProcess` | its synchronized block and what follows |
| `AllowThreads`, `ReaperWait`, `EndAllowThreads`, `DeleteNative` | the window in `JyGC_clearNativeReferences`, the delete loop |
| `StartFinalize`, `Consume*`, `FinishFinalize`, `FinalizerPostProcess` | `finalize` of the two kinds of CStub heads, one action per way through `consumeConfirmation` |
| `StartChore`, `ChoreEnterNative`, `ChoreLeaveNative` | any other finalizer on the same thread that calls native code |
| `Delayed*` | `JyNIFinalizeTrigger.performFinalization` |

`Orderly` is TRUE when a collection starts only after the last one has been
consumed completely. `gcDeletionReport`'s comment calls anything else a thing
that "should not (cannot?) happen in usual operation", and the repository's tests
call `System.gc()` and then sleep. Abstracted: what `EnterNative` decides (that
is NativeClear), logging, `CStubRestoreAllReachables`, and the time
`Thread.sleep(100)` takes.

### NativeClear

One call of `JyGC_clearNativeReferences` on a heap of arbitrary shape: `Init`
allows every content of the slots, every number of references from outside
(`ext`) and from Java weak references (`weak`), with `rc` computed from them.
`Seed` and `SearchRound` are `checkReferenceGraph`, a decref traversal and a
breadth-first search. In the window other threads may take, drop and store
references, but only to what they can reach: `Reachable`, from their own
references and from the objects Java can hand to native code, whose heads live
(`Roots`). Each decref is an action of its own (`Drop`); it deallocates at zero and
makes the decrefs of the contents due, so that nested deallocations happen in any
order. `Clearable` are the objects whose type has a `tp_clear`.

Resurrections take three actions on the finalizer thread. `ConsumeConfirmation` is what the
reaper waits for (`EndWindow`); `RestoreLoad` and `RestoreStore` are the two
halves of the increment in `JyGC_restoreCStubBackend`, which does not hold the GIL and may
come when the delete loop runs already. So the count of an object that a finalizer has begun
to resurrect (`Resurrected`) may be wrong in the code and in the model, and the object may be freed before
its new head has a reference to it. `RefCountsExact` and `NoUseAfterFree` except these objects,
and say that the damage does not spread to any other. Left out: objects with the
eternal-cache flag, and the Java parts.

### ExplorationStack

The stack with its static block `base` and the overflow blocks `next`, under the
GIL and so a single thread. `Without` is `removeObjectExStack`'s loop on one
block, its positions visited from the top down and the last entry moved into the
gap. A container goes from free through untracked and reachable to explored; a
CStub, whose memory of having been explored is nil, from free through fresh to
initialized. `fault` records the two ways in which the C program's behaviour
becomes undefined, and the system then stops. Exploration gives heads to any
set of objects on the way (`R`), which stands for the elements.

Emptied overflow blocks may pile up without bound; `MaxBlocks` bounds them in
the guard of `pushExStack`.

### Gil

The lock (`lock`), `_PyThreadState_Current` (`current`), `tStateLookup` (`lookup`)
and the native thread states: allocated (`live`), still referred to by a JyTState that
was not finalized (`anchored`), and `JyNI_gilstate_counter` (`counter`). A thread's nesting is a sequence of
frames, one per ENTER_JyNI, RE_ENTER_JyNI, `PyGILState_Ensure`, ALLOW_THREADS
block, callback into Java and `clearPyCPeer`; the frame keeps what the C code
keeps on its stack, the local `reenter` or `oldstate` and the saved thread state. Every
operation is split where another thread may come in between:

| Action | Code |
|---|---|
| `CallNative`, `GetState`, `PutState` | `JyTState.prepareNativeThreadState` before a native call, the constructor and `initNativeThreadState` included |
| `Finalize` | `JyTState.finalize` and `clearNativeThreadState` |
| `ReEnter`, `Enter`, `Acquire`, `Entered` | RE_ENTER_JyNI's look at the current state, without the lock; ENTER_JyNI |
| `Leave`, `Unlock` | LEAVE_JyNI, RE_LEAVE_JyNI, `PyEval_ReleaseLock` |
| `SaveThread`, `RestoreThread`, `Restored` | `PyEval_SaveThread`, `PyEval_RestoreThread` |
| `Ensure`, `Ensured`, `EnsuredUnlocked` | `PyGILState_Ensure`; a thread the JVM does not know is attached |
| `Release`, `Released` | `PyGILState_Release` |
| `ClearPyCPeer`, `PeerDecref`, `PeerCleared` | `JyNI_clearPyCPeer` |
| `CallJava`, `JavaReturns`, `ThreadEnds` | external: callbacks that keep the lock, the end of a thread |

`fatal` is the `Py_FatalError` the program ended with. `tStateLookup` is an unsynchronized WeakHashMap: a
thread's `put` may lose what others put since it began its own (`missed`). A thread that loses its entry
in Java gets another thread state at its next call, and everything stays in order. One that
loses it in native code has its thread state freed in use; the history variable `lost` records
that, and the properties, `TypeOK` apart, say what holds until then. TLC refutes the invariants among them afterwards. A destructor run by `clearPyCPeer` does one thing
in the model, to release the lock; that it may also read the exception of a
thread state that is not there is left out. So are the exceptions and the call
depth that travel along on entry and exit.

`holder`, the thread that has the lock by its frames or control state, maps Gil to
OwnedLock, the lock the interpreter needs: one with an owner, who alone changes the current
thread state and leaves none behind.

### JyHash

The table of all pointers JyNI allocated. Probing is stated by what it finds (`FindsAt`: the
k-th probe hits and none before ends the chain; `RoomAt`: the first bucket that can be
taken), so that no loop variable remains. Operations are atomic but for `resize_ptrTable`, one
step per bucket of the old table (`SkipBucket`, `MoveEntry`); when an entry finds no room in
the new table, `StartOver` begins again with a table a tenth larger, and passes over the
last bucket, because the loop decrements the index it has just been given. `FinishInsert` may
store nothing (the result of the last `insert0` is not looked at). PtrSet is the
specification: a set that answers each call and is exact while `growth` is "none". An insertion that makes
the table grow may come to nothing ("once"), and one whose growth starts over may besides cost one
older member ("again").

### HeadLinks

Three kinds of containers, those whose references may change behind JyNI's back: lists, cells and objects of
extension types (peers). `items` are the native slots, NULL among them, `links` the head's links in one of
their four forms: none, a single link, an array, a list. The Java helpers (`setLink`,
`insertLink`, `ensureSize`, `clearLinksFromIndex`) and the native traversals
(`updateJyGCHeadLinks`, `exploreJyGCHeadLinks`, the two passes of
`JyGC_validateGCHead`) are operators under their own names.

| Action | Code |
|---|---|
| `AssItem`, `Insert` | `list_ass_item` and `JyList_set`; `ins1`: update at one index |
| `SetItem`, `SetItemUpdate` | `PyList_SetItem`, before and after it gives up the old item |
| `Rewrite` | append, extend, slices, repetition, sort, reverse: update of all links |
| `PopLast`, `Clear` | the list shrinks, the links stay |
| `CellSet`, `SetMember` | `PyCell_Set`; `PyMember_SetOne` |
| `StoreSilently`, `ExtendFails` | the macros, a field written by the extension, an extend whose iterator fails: nobody is told |
| `Explore` | `JyNI_GC_ExploreObject` |
| `BeginCycle`, `JyGC_validateGCHead`, `WithoutHead`, `EndCycle` | `preProcessCStubGCCycle`, which does not hold the GIL while it goes through the set |

`told` is a history variable: every change since the links were last complete was followed by an update.
A list stops telling, too, when its links are built while it has empty slots (`Dense`: traversal
skips them, so that the links do not have the list's indices), and when the destructor of an item replaced by
`PyList_SetItem`, which updates the link last, changes the list. Both happen freely in the model; a
destructor may do anything but another `PyList_SetItem` on the same list.

The head of a list is a `JyList`, a `java.util.List` of the native list's items. `setLink` is careful to test for a
head before it tests for a list; `clearLink`, `clearLinksFromIndex` and `toHandleArray` are not. When the
only link of a cell or a peer is such a head (`TakenForLinks`), clearing links removes the native list's
items (`CutFirst`, `CutFrom`), and validation compares with the list's items, or, when one of these
is no head, throws a ClassCastException that ends the whole process (`NotReadable`).

GraphMirror is the specification: a mirrored container's references are known to Java,
and a check finds, repairs and reports every reference that is not known. `ImplementsMirror` allows one exception,
`TakesItemsForLinks`, which says what such a confusion may do at most: it concerns the container and the list alone, and
neither comes to count as a mirror without being one.

Left out: `PyList_SetItem` with NULL, and `jyTraverse`, which only Jython's own traversal uses.

### DictNext

The three static fields of `getPyDictionary_Next` (`lastDict`, `lastDictIndex`, `dictIterator`)
and the loops of native code with their positions. A dict is the order its iterators have;
keys come and go between loops only. DictCursor is the specification: a cursor per
loop. It has one exception. The exhausted iterator of an empty dict is cached at index 0, where the next loop over it
starts; when the dict got keys in between and no other call came, that loop is told that there are none (`FoundEmpty`).
The note on `PyDict_Next` calls the sharing safe without this condition.

## Runs

| Run | Shows | States |
|---|---|---|
| handshake | two stubs, one other finalizer, three collections, orderly: agreement, no sleeping with the GIL, pinned heads, and liveness | 8.7 thousand |
| handshake_overlap | the same with overlapping collections and one delayed finalization: a head whose native object was released stays dead, and `refList` agrees with the heads | 98 thousand |
| handshake_lost_wakeup | violated: `GCSane` once a delayed finalization waits on the same monitor | |
| native_clear | three collected objects and one with a live head, a slot for three of them, one outside reference each, types with and without `tp_clear`, late resurrections: only garbage is cleared, and it is freed unless something not cleared refers to it; counts stay exact and nothing is used after it was freed, resurrected objects excepted | 405 thousand |
| native_clear_race | violated: the reference counts of resurrected objects, with the increment outside the GIL | |
| exploration | three containers and a dict, blocks of two entries, two overflow blocks: no entry is lost, nothing is left unexplored | 134 thousand |
| exploration_garbage | violated: a pop from an overflow block that untracking has emptied | |
| gil | two Java threads and one started natively, three frames deep: mutual exclusion, own thread state, exact counters, no thread state freed in use, no fatal error, until a thread in native code loses its entry; refines OwnedLock | 360 thousand |
| hash | four addresses that compete for the same slots, repeated growth and growth that starts over: entries are found, nothing is left behind but what starting over forgets; refines PtrSet | 7 thousand |
| head_links | a list, and a cell or an extension's object that may hold it; two items, empty slots, destructors that use the list: links stay aligned; refines GraphMirror, single links to lists excepted | 137 thousand |
| dict_next | two dicts, two loops, three keys: refines DictCursor | 83 thousand |
| dict_last | violated: a loop's body is not run for the last entry | |

The violated runs each contradict a comment of the code; PROJECT.json quotes it
under "findings". In a few words:

* **Lost wake-up** (`JyNI.java` 1512, 1525, 1479). The monitor serves two
  conditions, "a confirmation is due" and "none is due any more". A `notify()`
  after the last confirmation may wake the delayed finalization instead of the
  reaper; nobody notifies again, and the reaper never returns to its queue, the
  "silent deadlock of GC threads" `isGCSane` was written to detect.
* **Unlocked increment** (`gcmodule.c` 2557).
* **Emptied block** (`gcmodule.c` 169, 208). `stack[--position]` with position 0.
* **Last entry** (`dictobject.c` 1116). The index of the last entry is negative, which is
  meant to spare the next call, but 0 is returned together with the entry.

Other flaws of the code that the models have, too, and their properties allow for; they are listed as hazards.

* `NativeClear`: the last confirmation is counted before its resurrection is done (`CStubGCHead.java` 67), so
  that the reaper's wait, "for finalizers to be done", ends early; a resurrected object may be freed before its increment.
* `ExplorationStack`: a dict that dies while on the stack is explored (`dictobject.c` 1168).
* `Gil`: two first calls of two threads lose one's entry in `tStateLookup`, and its thread state is freed in
  use. The destructor run by `clearPyCPeer` may find no thread state (`JyNI.c` 144).
* `HeadLinks`: a list that is a container's only link is taken for its links
  (`DefaultTraversableGCHead.java` 203, 285); indices do not fit after a list with NULL slots was explored, or
  after a destructor changed the list in the middle of `PyList_SetItem`.
* `DictNext`: a dict found empty is found empty again.
* `JyHash`: a growth that starts over forgets the last bucket's entry (`JyHash.c` 257).

`handshake` is orderly, so that the finalizer that comes before its handle is tracked, and a handle that is tracked
before the arrays are published, do not occur in it; `handshake_overlap` has these interleavings, and
checks what still holds then.

Bounds. Two stubs suffice for a resurrection beside a deletion in one report, and
for one stub early while the other is late; three collections for an object to be
resurrected, collected again and released; the theorems below have no bounds. Three collected
objects allow a chain through the search's rounds, a cycle, and a third held from outside;
the fourth is how a live head's object may refer to the chunk and be referred to. Of the three
one is a CStub, one has a type with `tp_clear` and one may have a weak reference, so that there are
garbage that is cleared, garbage that leaks and what each holds. Blocks of
two entries and up to two overflow blocks have every case of push, pop and
remove: both kinds of block full, part full and emptied, the removed entry
at the top, below it, and moved. In `gil` three frames are
the least for a callback that enters again, for Ensure in an ALLOW_THREADS block
and for two Ensures in one ENTER; the third thread is needed for someone to run
while one waits and another has the lock released, and no property counts
threads beyond that. `MaxDepth` bounds nesting in the guards (`Roomy`). In `hash` the four
addresses are chosen so that they compete for slots in the first table and in larger ones: chains, dummies in
chains, growth, growth that starts over and a last insertion that fails all occur; `MaxCapacity` stops growth. In `gil` the constraint `UntilLost` ends a behaviour with the first lost
entry the properties speak of, and the view `StillRead` does not tell states apart by what an operation that is over has left
in `op`, `hand` and `missed`, which nothing reads again. In `head_links` two
items, the list itself and an object that is not a container, and two slots allow replacing, moving and
repeating one, and a list among the items of the cell or peer. `MaxLinks` bounds what insertion after
`Clear` can pile up. The constraint `Bounded` leaves out combinations of what disturbs a list: empty slots, a pending write
and outdated links do not occur two at once, and neither they nor silent changes of the list beside a peer. Two containers
are needed for one validation's answer to survive the other's, and for a list to be taken for links. In `dict_next` three keys allow an
entry that is neither first nor last, and a key removed while another stays.
Java threads, thread states, dicts, loops and keys are symmetric, and so are
TLC's permutations of them. What is checked with symmetry is safety.

Deadlock is checked only where something can always happen (`hash`, `head_links`, `dict_next`, `dict_last`). In
the other runs the system may really stop, when the bound of
collections is used up, when the call has returned, or after a fault or a fatal
error; a thread that enters with ENTER_JyNI from a callback that keeps the lock
waits for itself, which JyNI's comment leaves to the programmer ("Use with
care!").
`handshake` states the liveness that replaces it.

Fairness. `FairSpec` assumes weak fairness of the reaper, of the finalizer thread
and of every delayed finalization: the JVM runs every runnable thread. It is not
assumed of `JavaGC`, nor of `notify()`'s choice, which the JVM leaves arbitrary. Weak
fairness is enough for acquiring the GIL because it is taken a bounded number of
times. The other modules are about safety only.

## Proofs

`GCHandshakeProofs` proves, for any finite set of stubs, any set of other finalizable
objects and of delayed finalizations, and any number of collections:

| Theorem | Property | Assuming |
|---|---|---|
| `TypeCorrect` | `TypeOK` | nothing but `HandshakeAssumption` |
| `OrderlyTracker` | `NoInconsistentTracker` | `Orderly` |
| `OrderlyCount` | `CountMatchesTracker` | `Orderly` |
| `OrderlyPinned` | `PinnedUntilCycleEnds` | `Orderly` |
| `OrderlyWaiting` | `WaitsWithoutGil` | `Orderly` |

`TypeCorrect` is not trivial: that the count of expected confirmations is a
natural number needs `TrackCount`, by which the loops have not counted more handles as
preconsumed than they have visited, and cardinality facts of the library. It holds in every
interleaving.

The other four have one inductive invariant, `OrderlyInv`, of four parts:

* `TypeInv`: the types, `TrackCount`, and that a thread that handles a stub has one;
* `CycleInv`: `StageInv` says for every control state of the reaper where each handle of
  the chunk is (still to be tracked, tracked, on its way through the finalizer, settled), so that the tracker is
  always a part of the two published arrays; `CountInv` says that the count is the tracker's size
  outside the report;
* `PinInv`: a head resurrected in the running cycle is in `resurrectionQueue`, and nobody is about to
  empty that queue while confirmations are due;
* `GilInv`: the control states in which a thread may own the GIL, and those in which it may sleep.

None of the properties is inductive alone. That the tracker agrees with the arrays
when a finalizer reads them depends on where the reaper is in its loops; that
nobody sleeps with the GIL depends on the reaper never finding unconsumed
confirmations in `gcDeletionReport`, that is, on the count. Each part has its
lemma with one step per action. `Orderly` is needed for them: with overlapping collections the four
properties really fail, `PinnedUntilCycleEnds` only with three stubs and three collections (the code prints "There are unconsumed gc-confirmations!"
and waits with the GIL held).

The same module's second part proves, in every interleaving (no `Orderly`):

| Theorem | Property |
|---|---|
| `ReleasedForGood` | `ReleasedStaysDead` |
| `RefListComplete` | `RefListExact` |

The invariant is the history of a handle. `Asked` is what the reaper's side has yet to decide on (queued, in the
chunk, tracked), `Owed` what a finalizer has yet to settle or left to the reaper; `Undecided` says that the head of none of
these lives, nor of one confirmed or released, and `Once` that a handle is in one place of each side at most. The
step that could break it is a finalizer that finds its handle tracked and reads the arrays of an older report. `ReportInv` excludes it: a
report is consumed after the reaper has left it only if it asked for no resurrection, since otherwise
`JyGC_clearNativeReferences` waits. `Rescued` carries that over to the time between the verdict and
`resurrect`.

`NativeClearProofs` proves, for any finite set of slots, any
heap shape over any objects, any pool without duplicates and any `MaxExt`:

| Theorem | Property | Assuming |
|---|---|---|
| `ClearingIsSafe` | `ClearSparesReachable` | nothing but `ClearAssumption` |
| `CountsStayExact` | `RefCountsExact` | the same |
| `NothingFreedIsUsed` | `NoUseAfterFree` | the same |
| `ClearTypeCorrect` | `TypeOK` | the same |
| `AllGarbageFreed` | `GarbageIsFreed` | the same |

The argument for `ClearingIsSafe`. `Kept` is what the cycle does not clear: the
complement of `loose` if the graph was found invalid, everything outside the
chunk if not. `SearchInv` says that from the report on `Kept` contains the roots
and is closed under references, and so contains all that is reachable. Establishing it
is the correctness of `checkReferenceGraph`: by `InDegreeSplit` an object with an
`Unexplained` count of one has no reference but its head's and those from the
chunk (`SeedStep`), and every round of the search keeps the closure up to the
`frontier` (`RoundStep`). Keeping it in the window, where other threads change the
heap, is the observation that they only store objects that are in `Kept` already, in
objects that are (`KeptFrame`). This needs exact counts only at the start, and so it
holds with the unlocked increment, too.

The argument for the counts. `CountInv` strengthens `RefCountsExact` to deallocated
objects, whose count is zero, so that `DeadUnreferenced` can conclude that nothing refers
to them. Objects that a finalizer has begun to resurrect are exempt from both. That is enough, since
an unlocked increment changes one of their counts only, and since they are no garbage: `Resurrected` is disjoint
from `loose`, and the decrefs their deallocation makes due are counted like any other. `Control` and `Heads` say where a
resurrection may be in each control state of the reaper and that
the delete loop finds the head's reference of every object it has yet to reach. The
counting itself rests on two lemmas about cardinalities, `EmptiedCount` and `StoredCount`,
and one lemma per action. For the resurrected objects the invariant is false;
`native_clear_race` is the counterexample.

The argument for `AllGarbageFreed`. At the end nothing can refer to a loose object but what `tp_clear` was not called for:
threads and what is kept do not (`SearchInv`), its
head's reference is dropped and it never had a weak one (`LooseHeld`), and whatever else referred to it is loose itself and empty
(`Passed`: behind the delete loop an object that can be cleared is empty, or was not worth a `tp_clear` since
its head's reference was the last one, and goes with the decref that is due).
`ValidGraph` covers the graph found valid,
where an object is not loose only because of weak references. If nothing refers to it, then the count, being exact, is zero, and no
object lives with that (`Counted`).

`JyHashProofs` proves `TypeOK`, `Findable`, `MovesAll` and that JyHash implements PtrSet's
`LossySpec`, for any set of pointers, any shift function into the naturals, any initial size from 11 and any
number of probes; the bound `MaxCapacity` is arbitrary, too. The inductive invariant says of both
tables that each entry sits in one bucket and that its chain reaches it without meeting an empty
bucket (deletion keeps it by `Dummy`, storing because it fills the first room of the chain), and of a
running growth that the new table holds part of the old one, all of the buckets passed but the last after
a start-over. That an older member is lost only by a growth that starts over, and then one at most, follows from it; a
step that does not grow the table loses nothing.

`ExplorationStackProofs` proves, for any addresses, any block size and any number of overflow blocks, assuming
nothing but `StackAssumption`:

| Theorem | Property |
|---|---|
| `StackTypeCorrect` | `TypeOK` |
| `StackIsExact` | `StackTracksObjects` |
| `ExplorationComplete` | `NothingLeftUnexplored` |
| `StackLosesNothing` | `NoEntryIsLost` (action property) |

The inductive invariant is `TypeOK`, `StackTracksObjects` and `EmptyInJava`: control is back in Java only when the stack
is empty. The work is in the operators. `removeObjectExStack` moves the last entry into the gap while it walks down
the block; `Swept` says of every position it has passed that no copy of the entry is left above it and that everything
else is still there, so that `Without` removes every copy and loses nothing, in every block of the list. `LeavingStep` then goes
through the actions: a pop takes its one entry, untracking its own copies, and nothing else takes any.

`HeadLinksProofs` proves, for any finite or infinite set of containers and items, any mixture of kinds, any `MaxLen` and any
`MaxLinks` above it, assuming nothing but `LinksAssumption`:

| Theorem | Property |
|---|---|
| `LinksTypeCorrect` | `TypeOK` |
| `LinksStayAligned` | `LinksAligned` |
| `LinksImplementMirror` | `ImplementsMirror` |
| `CyclesRepair` | every `JyGC_validateGCHead` of a container whose only link is not a list `Repairs` |

The inductive invariant says two things of each container. `Sound` is about form: which of the four forms its links have,
and what a write that is pending in `PyList_SetItem` may be. `Aligned` is about a container that tells: every
item of a list has its link at its own index, but for the one whose update is pending, and every item of a
cell or a peer has a link somewhere. It is stronger than the property, which says nothing of a list while a write is pending.
Each Java helper has its lemma (`Sets`, `Ensures`, `Inserted`, `Updated`: form, length and content of the links it returns), and the traversals, which apply a helper once per item,
have an induction on the number of items visited. `HeapStep` gathers what every action does to a container that changes:
its links lead to what they led to before or to what it refers to now (`Learns`). Where a list is taken for links there are two such containers:
`CutGood` says that cutting the list keeps its half of the invariant, since `JyList_remove` updates all links, and `ChangeGood` puts the halves together.
From `MirrorOf`, what the abstract specification
sees of a container in such a state, each action is then a step of GraphMirror, or of `TakesItemsForLinks`
(`TakenImplements`, `NotReadableImplements`).

`CyclesRepair` is what the repair is there for: whatever made the links wrong before (a re-entrant destructor, NULL slots, a silent change),
validation learns exactly the references that were missing, and delays finalizations if and only if there were some. No run lists it, as it is a
part of `ImplementsMirror`.

`DictNextProofs` proves `TypeOK` (`DictTypeCorrect`): positions stay within the dict they are in (`Within`). It proves
`OwnCursors` (`CursorsAreOwn`) for any number of dicts, any finite number of keys and any loops. The
inductive invariant's core is `CacheFits`: whenever the cached iterator fits a loop by dict and index, it has
before it exactly what the loop has, unless it is `Outdated`, an exhausted iterator at index 0. `EmptyCache` says that an
iterator of index 0 is always such a one, the trace of a dict found empty, and `FoundEmpty` maps it to the specification.

`GilProofs` proves, for any finite set of threads, any set of thread states and any `MaxDepth`, with no other assumption (the properties
except what follows the loss of an entry in use):

| Theorem | Property |
|---|---|
| `GilExclusive` | `OneThreadInNative` |
| `GilOwnStates` | `OwnStateCurrent` |
| `GilNoFatalSwap` | `NoFatalSwap` |
| `GilCountersExact` | `CountersExact` |
| `GilStatesLive` | `StatesKeptAlive` |
| `GilImplementsOwnedLock` | `ImplementsOwnedLock` |
| `GilTypeCorrect` | `TypeOK`, whatever is lost |

All but `GilTypeCorrect` rest on one invariant, `UnlessLost`: `lost`, or the conjunction `IInv`. `FramesFit` says which frames may lie upon which: only the lowest
frame and one upon an ALLOW_THREADS block can have taken the lock, so that a thread has taken it once at most; and
each frame has the thread's own state, the one `lookup` finds. `OwnLookups` says that
`lookup` is injective and what it finds is anchored; a lost entry of a thread without frames keeps that, one of a thread in
native code does not, and is recorded in `lost` by the same step. `Controlled` in which control states a thread may be with which frames.
`CurrentCarried` says that `current` is the state of the thread whose top frame carries the lock, and null when none does. That the
counters are exact takes the cardinality of the set of pending `PyGILState_Ensure` frames, which grows or shrinks by
one with the frame pushed or popped (`PushCounts`, `PopCounts`). There is one lemma `<Action>Keeps` per
action. For the refinement: every action except taking and giving up the lock leaves it as it is and touches no thread but the one that acts, so
`holder` stays (`SwitchImplements`, `HolderSwitches`). `GilTypeCorrect` has an invariant of its own, `Typed`, that survives lost entries: a state
whose anchor is left has a counter above 0 (`AnchorsCount`), so that `finalize` may count down, and who has looked up a state has it in hand (`Handled`).

`DataLemmas` is what the proofs of ExplorationStack and HeadLinks share. Both models have loops written as recursive functions
(`after[n]`: the state after n entries). The library's induction theorems take an operator, which these provers cannot
instantiate; `SetInduction` states the same with a set in the operator's place and rests on the well-foundedness of `<`, and
`PrimitiveRecursion` shows that such a function exists, by the same induction. `InsertAtProperties`
and `RemoveAtProperties` say what the community operators return.

What proving changed in the models. `clearLinksFromIndex` had a CASE with overlapping branches, so that its value for
a list no longer than the index was not determined; TLC took the first branch, the prover had none to take. `MaxLinks` has to
exceed `MaxLen`, not to equal it: an insertion behind outdated links makes one link more than the list has items. The number of keys
has to be finite for `DictNext`'s `TypeOK`. `Without`, `Visited` and the traversals are recursive functions for
the sake of the induction.

Every safety property of the passing runs is thereby a theorem, and both TLC and the prover have
looked at the same definitions. Model-checked only: liveness (`GCSane`, `FinalizersSettle`: the prover has no fairness, nor
ENABLED), and the four violated runs, whose properties are false. The only assumption beyond the form of the
constants is `Orderly`, of four theorems about the handshake, which are false without it.

## Plan

1. `WeakRefs`: JyNIGlobalRef against an object that dies on either side and a
   collection that resurrects it. Property: `get` returns a live object or nothing.
2. `NativeObject`: the two handle maps and the flags of a JyObject over
   conversion, clearing and deallocation from either side.
3. `GCCycle`: GCHandshake and NativeClear together under an abstract specification of the
   collector (an object is freed if and only if nothing needs it, a head lives as long as its
   object), with the verdict R of `EnterNative` computed by the search; refinement
   as a PROPERTY of the run.

Further theorems worth proving about what is here: how many objects leak with a cycle of types without `tp_clear` (what such garbage
refers to, and no more), and that `HeadLinks` loses alignment only for lists that stopped telling for one of the named reasons,
once the reasons are told apart.

## Not modelled

Nearly all of the repository's 158 thousand lines of code are CPython 2.7's own modules and objects, compiled with
small adaptations, and JNI boilerplate; they have no protocol of JyNI's in them, so the share of lines covered
stays small whatever is modelled. Of JyNI's own parts these are left out: JyAttributes (a linked list), JySync and the
conversion of values (data, no interleaving), the shared list's Java view except for its effect on the links (note in passing
that `JyList_add` appends whatever index it is given), sets, the reference monitor (a debugging aid),
peers (delegation), the _thread locks (the GIL's JyLock is in Gil), start-up and import (I/O).
