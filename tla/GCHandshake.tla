---------------------------- MODULE GCHandshake ----------------------------
(***************************************************************************)
(* The Java side of JyNI's garbage collection: how the reaper thread, the  *)
(* JVM's finalizer thread and delayed finalizations agree on the fate of   *)
(* every collected CStub head.                                             *)
(*                                                                         *)
(* The JVM clears the JyWeakReferenceGC of an unreachable JyGCHead and     *)
(* queues it for the reaper; the same collection makes the head's          *)
(* finalize() runnable.  The reaper asks the native side which objects are *)
(* really garbage and reports the answer with gcDeletionReport; the        *)
(* finalizer of every CStub head blocks in consumeConfirmation until its   *)
(* own handle was reported, and resurrects the head when it must.          *)
(*                                                                         *)
(* Monitor CStubGCHead.class: a synchronized block is one step, wait() is  *)
(* membership in waitSet, notify() removes one arbitrary member.           *)
(***************************************************************************)
EXTENDS Integers, FiniteSets

CONSTANTS
  Stubs,     \* handles of native objects whose head has a confirming finalize()
  Chores,    \* finalizable Java objects whose finalizer calls into native code
  Delayed,   \* delayed finalizations: FinalizeTriggers run by their own thread
  MaxGC,     \* bound: number of Java collections
  Orderly    \* TRUE: a Java collection starts only when the last one was consumed

Reaper    == "JyNI-GCRefReaper"
Finalizer == "Finalizer"
Nobody    == "nobody"
Threads   == {Reaper, Finalizer} \cup Delayed

ASSUME HandshakeAssumption ==
  /\ IsFiniteSet(Stubs)
  /\ Stubs \cap Chores = {}
  /\ Delayed \cap {Reaper, Finalizer, Nobody} = {}
  /\ MaxGC \in Nat
  /\ Orderly \in BOOLEAN

VARIABLES
  head,        \* of a stub's current head or a chore: live, dying (queued) or gone
  released,    \* stubs whose native object gave up the head's reference as garbage
  pinned,      \* JyNI.resurrectionQueue: heads held strongly until the cycle ends
  refQueue,    \* JyWeakReferenceGC.refQueue
  refList,     \* JyWeakReferenceGC.refList: handles whose weak reference is kept
  finQueue,    \* the JVM's queue of finalizable objects
  gcs,         \* Java collections so far
  gil,         \* holder of the native global interpreter lock
  rpc,         \* the reaper's control state
  cache,       \* JyWeakReferenceGC.refCache, then the native refPool
  confirmed, resurrected,                 \* arguments of gcDeletionReport
  todo, cur, already,                     \* its loops: rest, element, ++preconsumed
  confirmedDeletions, resurrections,      \* static arrays of JyNI
  confirmationsUnconsumed, unconsumedTracker, preconsumedMaybeResurrect,
  waitSet,     \* threads waiting on the monitor
  fpc, fcur, fres, flast,   \* the finalizer thread: control, handle, result flags
  dpc          \* control state of every delayed finalization

reaperVars   == <<rpc, cache, confirmed, resurrected, todo, cur, already>>
reportVars   == <<confirmedDeletions, resurrections, confirmationsUnconsumed,
                  unconsumedTracker, preconsumedMaybeResurrect>>
heapVars     == <<head, released, pinned, refQueue, refList, finQueue, gcs>>
finVars      == <<fpc, fcur, fres, flast>>
vars == <<heapVars, gil, reaperVars, reportVars, waitSet, finVars, dpc>>

NoHandle == "no handle"
Handles  == Stubs \cup {NoHandle}

TypeOK ==
  /\ head \in [Stubs \cup Chores -> {"live", "dying", "gone"}]
  /\ released \subseteq Stubs /\ pinned \subseteq Stubs
  /\ refQueue \subseteq Stubs /\ refList \subseteq Stubs
  /\ finQueue \subseteq Stubs \cup Chores
  /\ gcs \in 0..MaxGC
  /\ gil \in Threads \cup {Nobody}
  /\ rpc \in {"idle", "gather", "enter", "track", "add", "remove", "report", "post",
              "allow", "wait", "reacquire", "delete", "failed"}
  /\ cache \subseteq Stubs /\ confirmed \subseteq Stubs
  /\ resurrected \subseteq Stubs /\ todo \subseteq Stubs
  /\ cur \in Handles /\ already \in Nat
  /\ confirmedDeletions \subseteq Stubs /\ resurrections \subseteq Stubs
  /\ confirmationsUnconsumed \in Nat
  /\ unconsumedTracker \subseteq Stubs /\ preconsumedMaybeResurrect \subseteq Stubs
  /\ waitSet \subseteq Threads
  /\ fpc \in {"idle", "consume", "act", "post", "enter", "native"}
  /\ fcur \in Handles /\ flast \in BOOLEAN
  /\ fres \in {"NONE", "CONFIRMED", "RESURRECTION", "MAYBE_RESURRECT"}
  /\ dpc \in [Delayed -> {"pending", "wait", "enter", "native", "done"}]

Init ==
  /\ head = [o \in Stubs \cup Chores |-> "live"]
  /\ released = {} /\ pinned = {} /\ refQueue = {} /\ refList = Stubs
  /\ finQueue = {} /\ gcs = 0
  /\ gil = Nobody
  /\ rpc = "idle" /\ cache = {} /\ confirmed = {} /\ resurrected = {}
  /\ todo = {} /\ cur = NoHandle /\ already = 0
  /\ confirmedDeletions = {} /\ resurrections = {} /\ confirmationsUnconsumed = 0
  /\ unconsumedTracker = {} /\ preconsumedMaybeResurrect = {}
  /\ waitSet = {}
  /\ fpc = "idle" /\ fcur = NoHandle /\ fres = "NONE" /\ flast = FALSE
  /\ dpc = [d \in Delayed |-> "pending"]

(* The wait sets a notify() may leave behind. *)
NotifyOne(w) == IF w = {} THEN {w} ELSE {w \ {t} : t \in w}
NotifyTwo(w) == UNION {NotifyOne(v) : v \in NotifyOne(w)}

-----------------------------------------------------------------------------
(* The JVM (external).  A collection finds some heads unreachable, clears  *)
(* and enqueues their weak references, and makes them finalizable.         *)

Consumed == rpc = "idle" /\ fpc = "idle" /\ refQueue = {} /\ finQueue = {}

JavaGC(S) ==
  /\ gcs < MaxGC
  /\ Orderly => Consumed
  /\ S # {} /\ \A o \in S : head[o] = "live" /\ o \notin pinned
  /\ gcs' = gcs + 1
  /\ head' = [o \in DOMAIN head |-> IF o \in S THEN "dying" ELSE head[o]]
  /\ refQueue' = refQueue \cup (S \cap Stubs)
  /\ finQueue' = finQueue \cup S
  /\ UNCHANGED <<released, pinned, refList, gil, reaperVars, reportVars, waitSet, finVars, dpc>>

-----------------------------------------------------------------------------
(* The reaper thread: JyWeakReferenceGC.GCReaperThread.run down through    *)
(* JyGC_clearNativeReferences and JyNI.gcDeletionReport.                   *)

(* refQueue.remove() returns; waitingOnRefQueue becomes false. *)
RemoveRef(h) ==
  /\ rpc = "idle" /\ h \in refQueue
  /\ refQueue' = refQueue \ {h} /\ cache' = {h}
  /\ rpc' = "gather"
  /\ UNCHANGED <<head, released, pinned, refList, finQueue, gcs, gil, confirmed,
                 resurrected, todo, cur, already, reportVars, waitSet, finVars, dpc>>

(* Mutant: the nativeRef != 0 filter is missing, foreign references join. *)
PollUnfiltered ==
  /\ rpc = "gather"
  /\ cache' = cache \cup refQueue \cup finQueue /\ refQueue' = {}
  /\ refList' = refList \ cache'
  /\ rpc' = "enter"
  /\ UNCHANGED <<head, released, pinned, finQueue, gcs, gil, confirmed, resurrected,
                 todo, cur, already, reportVars, waitSet, finVars, dpc>>

(* After sleep(100) the references that arrived meanwhile join the chunk,  *)
(* and the chunk's handles, whose references are spent, leave refList.     *)
PollRefs ==
  /\ rpc = "gather"
  /\ cache' = cache \cup refQueue /\ refQueue' = {}
  /\ refList' = refList \ cache'
  /\ rpc' = "enter"
  /\ UNCHANGED <<head, released, pinned, finQueue, gcs, gil, confirmed, resurrected,
                 todo, cur, already, reportVars, waitSet, finVars, dpc>>

(* ENTER_JyNI and checkReferenceGraph: some of the chunk is held natively. *)
EnterNative(R) ==
  /\ rpc = "enter" /\ gil = Nobody
  /\ R \subseteq cache
  /\ gil' = Reaper
  /\ confirmed' = cache \ R /\ resurrected' = R
  /\ todo' = cache /\ already' = 0
  /\ rpc' = "track"
  /\ UNCHANGED <<heapVars, cache, cur, reportVars, waitSet, finVars, dpc>>

(* JyNI.resurrect: a new head, kept in resurrectionQueue, with a weak       *)
(* reference of its own.                                                   *)
Resurrect(h) ==
  /\ head' = [head EXCEPT ![h] = "live"]
  /\ pinned' = pinned \cup {h} /\ refList' = refList \cup {h}

(* The head is given up for good. *)
Settle(h) ==
  /\ head' = [head EXCEPT ![h] = "gone"]
  /\ UNCHANGED <<pinned, refList>>

(* One turn of the unsynchronized loops of gcDeletionReport: confirmed     *)
(* deletions first.  A handle whose finalizer came too early is settled    *)
(* here, and resurrected by the reaper itself: containsKey(l) is true ...  *)
NextToTrack == IF confirmed \cap todo # {} THEN confirmed \cap todo ELSE todo

TrackPreconsumed(h) ==
  /\ rpc = "track" /\ h \in NextToTrack /\ h \in preconsumedMaybeResurrect
  /\ already' = already + 1
  /\ cur' = h /\ todo' = todo \ {h}
  /\ rpc' = "remove"
  /\ UNCHANGED <<heapVars, gil, cache, confirmed, resurrected, reportVars, waitSet,
                 finVars, dpc>>

(* Mutant: every preconsumed head is resurrected. *)
RemoveResurrecting ==
  /\ rpc = "remove"
  /\ preconsumedMaybeResurrect' = preconsumedMaybeResurrect \ {cur}
  /\ cur' = NoHandle /\ rpc' = "track"
  /\ Resurrect(cur)
  /\ UNCHANGED <<released, refQueue, finQueue, gcs, gil, cache, confirmed,
                 resurrected, todo, already, confirmedDeletions, resurrections,
                 confirmationsUnconsumed, unconsumedTracker, waitSet, finVars, dpc>>

(* ... so remove(l), a step of its own.  postProcessCStubGCCycle may have  *)
(* cleared the map in between: resurrect(l, null) then throws.  The JNI    *)
(* calls of the reaper with that exception pending are undefined, and the  *)
(* model stops it there.                                                   *)
RemovePreconsumed ==
  /\ rpc = "remove"
  /\ preconsumedMaybeResurrect' = preconsumedMaybeResurrect \ {cur}
  /\ cur' = NoHandle
  /\ \/ /\ cur \in preconsumedMaybeResurrect
        /\ rpc' = "track"
        /\ IF cur \in resurrected THEN Resurrect(cur) ELSE Settle(cur)
     \/ /\ cur \notin preconsumedMaybeResurrect
        /\ rpc' = IF cur \in resurrected THEN "failed" ELSE "track"
        /\ UNCHANGED <<head, pinned, refList>>
  /\ UNCHANGED <<released, refQueue, finQueue, gcs, gil, cache, confirmed,
                 resurrected, todo, already, confirmedDeletions, resurrections,
                 confirmationsUnconsumed, unconsumedTracker, waitSet, finVars, dpc>>

(* containsKey(l) is false ... *)
TrackUnknown(h) ==
  /\ rpc = "track" /\ h \in NextToTrack /\ h \notin preconsumedMaybeResurrect
  /\ cur' = h /\ todo' = todo \ {h}
  /\ rpc' = "add"
  /\ UNCHANGED <<heapVars, gil, cache, confirmed, resurrected, already, reportVars,
                 waitSet, finVars, dpc>>

(* ... so unconsumedTracker.add(l), a step of its own. *)
TrackAdd ==
  /\ rpc = "add"
  /\ unconsumedTracker' = unconsumedTracker \cup {cur}
  /\ cur' = NoHandle
  /\ rpc' = "track"
  /\ UNCHANGED <<heapVars, gil, cache, confirmed, resurrected, todo, already,
                 confirmedDeletions, resurrections, confirmationsUnconsumed,
                 preconsumedMaybeResurrect, waitSet, finVars, dpc>>

(* Mutant: resurrections do not count. *)
ExpectedDeletions == Cardinality(confirmed) - already

Expected == Cardinality(confirmed) + Cardinality(resurrected) - already

(* JyGC_clearNativeReferences only waits when something was resurrected. *)
AfterReport == IF resurrected = {} THEN "delete" ELSE "allow"

Reporting == \/ rpc = "track" /\ todo = {}
             \/ rpc = "report" /\ Reaper \notin waitSet

(* "There are unconsumed gc-confirmations!": wait, the GIL still held. *)
ReportBlocked ==
  /\ Reporting /\ confirmationsUnconsumed > 0
  /\ waitSet' = waitSet \cup {Reaper}
  /\ rpc' = "report"
  /\ UNCHANGED <<heapVars, gil, cache, confirmed, resurrected, todo, cur, already,
                 reportVars, finVars, dpc>>

(* Mutant: the array of resurrections is not published. *)
PublishDeletions ==
  /\ confirmedDeletions' = confirmed /\ resurrections' = {}
  /\ confirmationsUnconsumed' = Expected

PublishReport ==
  /\ confirmedDeletions' = confirmed /\ resurrections' = resurrected
  /\ confirmationsUnconsumed' = Expected

Report ==
  /\ Reporting /\ confirmationsUnconsumed <= 0
  /\ PublishReport
  /\ IF Expected = 0
     THEN rpc' = "post" /\ waitSet' = waitSet
     ELSE rpc' = AfterReport /\ waitSet' \in NotifyOne(waitSet)
  /\ UNCHANGED <<heapVars, gil, cache, confirmed, resurrected, todo, cur, already,
                 unconsumedTracker, preconsumedMaybeResurrect, finVars, dpc>>

(* postProcessCStubGCCycle *)
PostProcess ==
  /\ pinned' = {} /\ preconsumedMaybeResurrect' = {}

ReaperPostProcess ==
  /\ rpc = "post"
  /\ PostProcess
  /\ rpc' = AfterReport
  /\ UNCHANGED <<head, released, refQueue, refList, finQueue, gcs, gil, cache, confirmed,
                 resurrected, todo, cur, already, confirmedDeletions, resurrections,
                 confirmationsUnconsumed, unconsumedTracker, waitSet, finVars, dpc>>

(* Mutant: the wait keeps the GIL. *)
AllowNoThreads ==
  /\ rpc = "allow"
  /\ rpc' = "wait"
  /\ UNCHANGED <<heapVars, gil, cache, confirmed, resurrected, todo, cur, already,
                 reportVars, waitSet, finVars, dpc>>

(* Py_BEGIN_ALLOW_THREADS *)
AllowThreads ==
  /\ rpc = "allow"
  /\ gil' = Nobody
  /\ rpc' = "wait"
  /\ UNCHANGED <<heapVars, cache, confirmed, resurrected, todo, cur, already,
                 reportVars, waitSet, finVars, dpc>>

(* waitForCStubs, called by the reaper and by delayed finalizations *)
CStubsPending == confirmationsUnconsumed > 0

WaitForCStubs(t) ==
  /\ t \notin waitSet
  /\ waitSet' = IF CStubsPending THEN waitSet \cup {t} ELSE waitSet

ReaperWait ==
  /\ rpc = "wait"
  /\ WaitForCStubs(Reaper)
  /\ rpc' = IF CStubsPending THEN "wait" ELSE "reacquire"
  /\ UNCHANGED <<heapVars, gil, cache, confirmed, resurrected, todo, cur, already,
                 reportVars, finVars, dpc>>

(* Py_END_ALLOW_THREADS *)
EndAllowThreads ==
  /\ rpc = "reacquire" /\ gil = Nobody
  /\ gil' = Reaper
  /\ rpc' = "delete"
  /\ UNCHANGED <<heapVars, cache, confirmed, resurrected, todo, cur, already,
                 reportVars, waitSet, finVars, dpc>>

(* Mutant: refList drops the chunk after the native call, by handle. *)
DeleteForgetting ==
  /\ rpc = "delete"
  /\ released' = released \cup confirmed
  /\ refList' = refList \ cache
  /\ gil' = Nobody
  /\ cache' = {} /\ confirmed' = {} /\ resurrected' = {} /\ already' = 0
  /\ rpc' = "idle"
  /\ UNCHANGED <<head, pinned, refQueue, finQueue, gcs, todo, cur, reportVars, waitSet,
                 finVars, dpc>>

(* The delete loop drops the heads' references, then LEAVE_JyNI; the       *)
(* reaper returns to refQueue.remove().                                    *)
DeleteNative ==
  /\ rpc = "delete"
  /\ released' = released \cup confirmed
  /\ gil' = Nobody
  /\ cache' = {} /\ confirmed' = {} /\ resurrected' = {} /\ already' = 0
  /\ rpc' = "idle"
  /\ UNCHANGED <<head, pinned, refQueue, refList, finQueue, gcs, todo, cur, reportVars,
                 waitSet, finVars, dpc>>

-----------------------------------------------------------------------------
(* The JVM's finalizer thread.                                             *)

(* CStubGCHead.finalize starts. *)
StartFinalize(h) ==
  /\ fpc = "idle" /\ h \in finQueue \cap Stubs
  /\ finQueue' = finQueue \ {h}
  /\ fcur' = h /\ fres' = "NONE" /\ flast' = FALSE
  /\ fpc' = "consume"
  /\ UNCHANGED <<head, released, pinned, refQueue, refList, gcs, gil, reaperVars,
                 reportVars, waitSet, dpc>>

(* consumeConfirmation, one action per way through its synchronized block. *)
Consuming == fpc = "consume" /\ Finalizer \notin waitSet

ConsumeBlocked ==
  /\ Consuming /\ confirmationsUnconsumed = 0
  /\ waitSet' = waitSet \cup {Finalizer}
  /\ UNCHANGED <<heapVars, gil, reaperVars, reportVars, finVars, dpc>>

ConsumeEarly ==
  /\ Consuming /\ confirmationsUnconsumed # 0 /\ fcur \notin unconsumedTracker
  /\ preconsumedMaybeResurrect' = preconsumedMaybeResurrect \cup {fcur}
  /\ fres' = "MAYBE_RESURRECT" /\ fpc' = "act"
  /\ UNCHANGED <<heapVars, gil, reaperVars, confirmedDeletions, resurrections,
                 confirmationsUnconsumed, unconsumedTracker, waitSet, fcur, flast, dpc>>

(* Mutant: the handle stays in the tracker. *)
ConsumeKeeping ==
  /\ Consuming /\ confirmationsUnconsumed # 0 /\ fcur \in unconsumedTracker
  /\ fpc' = "act"
  /\ UNCHANGED <<heapVars, gil, reaperVars, confirmedDeletions, resurrections,
                 unconsumedTracker, preconsumedMaybeResurrect, fcur, dpc>>

ConsumeTracked ==
  /\ Consuming /\ confirmationsUnconsumed # 0 /\ fcur \in unconsumedTracker
  /\ unconsumedTracker' = unconsumedTracker \ {fcur}
  /\ fpc' = "act"
  /\ UNCHANGED <<heapVars, gil, reaperVars, confirmedDeletions, resurrections,
                 preconsumedMaybeResurrect, fcur, dpc>>

(* Mutant: every confirmation claims to be the last one. *)
CountDownAlwaysLast(flag) ==
  /\ confirmationsUnconsumed' = confirmationsUnconsumed - 1
  /\ fres' = flag /\ flast' = TRUE

CountDown(flag) ==
  /\ confirmationsUnconsumed' = confirmationsUnconsumed - 1
  /\ fres' = flag /\ flast' = (confirmationsUnconsumed = 1)

(* Mutant: a confirmed deletion notifies nobody. *)
ConsumeSilently ==
  /\ ConsumeTracked /\ fcur \in confirmedDeletions
  /\ CountDown("CONFIRMED")
  /\ UNCHANGED waitSet

ConsumeDeletion ==
  /\ ConsumeTracked /\ fcur \in confirmedDeletions
  /\ CountDown("CONFIRMED")
  /\ waitSet' \in NotifyOne(waitSet)

ConsumeResurrection ==
  /\ ConsumeTracked /\ fcur \in resurrections \ confirmedDeletions
  /\ CountDown("RESURRECTION")
  /\ waitSet' \in NotifyTwo(waitSet)

(* "Fatal JyNI GC error: Inconsistent tracker behavior!" *)
ConsumeNothing ==
  /\ ConsumeTracked /\ fcur \notin confirmedDeletions \cup resurrections
  /\ UNCHANGED <<confirmationsUnconsumed, waitSet, fres, flast>>

(* The rest of finalize: JyNI.resurrect, outside the monitor; an early     *)
(* handle keeps its head in preconsumedMaybeResurrect.                     *)
FinishFinalize ==
  /\ fpc = "act"
  /\ \/ fres = "RESURRECTION" /\ Resurrect(fcur)
     \/ fres = "MAYBE_RESURRECT" /\ UNCHANGED <<head, pinned, refList>>
     \/ fres \in {"NONE", "CONFIRMED"} /\ Settle(fcur)
  /\ fpc' = IF flast THEN "post" ELSE "idle"
  /\ fcur' = NoHandle /\ fres' = "NONE" /\ flast' = FALSE
  /\ UNCHANGED <<released, refQueue, finQueue, gcs, gil, reaperVars, reportVars,
                 waitSet, dpc>>

FinalizerPostProcess ==
  /\ fpc = "post"
  /\ PostProcess
  /\ fpc' = "idle"
  /\ UNCHANGED <<head, released, refQueue, refList, finQueue, gcs, gil, reaperVars,
                 confirmedDeletions, resurrections, confirmationsUnconsumed,
                 unconsumedTracker, waitSet, fcur, fres, flast, dpc>>

(* An ordinary finalizer on the same thread "might call into native code". *)
StartChore(c) ==
  /\ fpc = "idle" /\ c \in finQueue \cap Chores
  /\ finQueue' = finQueue \ {c}
  /\ head' = [head EXCEPT ![c] = "gone"]
  /\ fpc' = "enter"
  /\ UNCHANGED <<released, pinned, refQueue, refList, gcs, gil, reaperVars, reportVars,
                 waitSet, fcur, fres, flast, dpc>>

ChoreEnterNative ==
  /\ fpc = "enter" /\ gil = Nobody
  /\ gil' = Finalizer /\ fpc' = "native"
  /\ UNCHANGED <<heapVars, reaperVars, reportVars, waitSet, fcur, fres, flast, dpc>>

ChoreLeaveNative ==
  /\ fpc = "native"
  /\ gil' = Nobody /\ fpc' = "idle"
  /\ UNCHANGED <<heapVars, reaperVars, reportVars, waitSet, fcur, fres, flast, dpc>>

-----------------------------------------------------------------------------
(* Delayed finalizations: JyNIFinalizeTrigger.performFinalization waits    *)
(* for the stubs, then runs a finalizer that may call into native code.    *)

DelayedStart(d) ==
  /\ dpc[d] = "pending"
  /\ dpc' = [dpc EXCEPT ![d] = "wait"]
  /\ UNCHANGED <<heapVars, gil, reaperVars, reportVars, waitSet, finVars>>

DelayedWait(d) ==
  /\ dpc[d] = "wait"
  /\ WaitForCStubs(d)
  /\ dpc' = IF CStubsPending THEN dpc ELSE [dpc EXCEPT ![d] = "enter"]
  /\ UNCHANGED <<heapVars, gil, reaperVars, reportVars, finVars>>

DelayedEnterNative(d) ==
  /\ dpc[d] = "enter" /\ gil = Nobody
  /\ gil' = d /\ dpc' = [dpc EXCEPT ![d] = "native"]
  /\ UNCHANGED <<heapVars, reaperVars, reportVars, waitSet, finVars>>

DelayedLeaveNative(d) ==
  /\ dpc[d] = "native"
  /\ gil' = Nobody /\ dpc' = [dpc EXCEPT ![d] = "done"]
  /\ UNCHANGED <<heapVars, reaperVars, reportVars, waitSet, finVars>>

-----------------------------------------------------------------------------

ReaperStep ==
  \/ \E h \in Stubs : RemoveRef(h) \/ TrackPreconsumed(h) \/ TrackUnknown(h)
  \/ \E R \in SUBSET Stubs : EnterNative(R)
  \/ PollRefs \/ RemovePreconsumed \/ TrackAdd \/ ReportBlocked \/ Report \/ ReaperPostProcess
  \/ AllowThreads \/ ReaperWait \/ EndAllowThreads \/ DeleteNative

FinalizerStep ==
  \/ \E h \in Stubs : StartFinalize(h)
  \/ ConsumeBlocked \/ ConsumeEarly
  \/ ConsumeDeletion \/ ConsumeResurrection \/ ConsumeNothing
  \/ FinishFinalize \/ FinalizerPostProcess
  \/ \E c \in Chores : StartChore(c)
  \/ ChoreEnterNative \/ ChoreLeaveNative

DelayedStep(d) ==
  DelayedStart(d) \/ DelayedWait(d) \/ DelayedEnterNative(d) \/ DelayedLeaveNative(d)

Next ==
  \/ \E S \in SUBSET (Stubs \cup Chores) : JavaGC(S)
  \/ ReaperStep
  \/ FinalizerStep
  \/ \E d \in Delayed : DelayedStep(d)

Spec == Init /\ [][Next]_vars

(* The JVM schedules every runnable thread; the number of times the GIL is *)
(* taken is bounded, so weak fairness suffices for the acquirers.          *)
Fairness ==
  /\ WF_vars(ReaperStep) /\ WF_vars(FinalizerStep)
  /\ \A d \in Delayed : WF_vars(DelayedStep(d))

FairSpec == Spec /\ Fairness

-----------------------------------------------------------------------------
(* Properties *)

(* A finalizer that finds its handle tracked also finds it in one of the   *)
(* two published arrays: the branch of consumeConfirmation that prints     *)
(* "Fatal JyNI GC error" is never taken.                                   *)
NoInconsistentTracker == ~(fpc = "act" /\ fres = "NONE")

(* Outside gcDeletionReport, the number of confirmations still expected is *)
(* the number of handles a finalizer can still consume.  Smaller, and the  *)
(* waiters of waitForCStubs run ahead; larger, and they wait forever.      *)
CountMatchesTracker ==
  rpc \notin {"track", "add", "remove", "report"} =>
    confirmationsUnconsumed = Cardinality(unconsumedTracker)

(* Nobody sleeps on the monitor with the GIL in hand: a finalizer calling  *)
(* into native code would deadlock with the reaper (gcmodule.c, comment    *)
(* before Py_BEGIN_ALLOW_THREADS).                                         *)
WaitsWithoutGil == gil \notin waitSet

(* A head resurrected in this cycle stays in resurrectionQueue, out of the *)
(* Java collector's reach, until the last confirmation was consumed.       *)
PinnedUntilCycleEnds ==
  confirmationsUnconsumed > 0 /\ rpc \notin {"track", "add", "remove"} =>
    \A h \in resurrections : head[h] = "live" => h \in pinned

(* Whatever the interleaving, a head whose native object was handed back   *)
(* as garbage never becomes live again.                                    *)
ReleasedStaysDead == \A h \in released : head[h] # "live"

(* refList is keyed by the native handle, which an old head and the one    *)
(* made by resurrect share: lookupJyGCHead finds a weak reference for      *)
(* exactly the heads that live and those the reaper has not polled yet.    *)
(* Missing, the JVM drops the reference of a living head, nobody ever      *)
(* learns of its death, and its native object leaks.                       *)
RefListExact ==
  refList = {h \in Stubs : head[h] = "live"} \cup refQueue
              \cup (IF rpc = "gather" THEN cache ELSE {})

(* isGCSane: the reaper always gets back to waiting on its queue.          *)
GCSane == []<>(rpc = "idle")

(* Every collected object's finalizer is eventually settled.               *)
FinalizersSettle == \A o \in Stubs \cup Chores : head[o] = "dying" ~> head[o] # "dying"
=============================================================================
