-------------------------- MODULE GCHandshakeProofs --------------------------
(***************************************************************************)
(* Proofs about GCHandshake, for every set of stubs, of other finalizable  *)
(* objects and of delayed finalizations, and any number of collections.    *)
(***************************************************************************)
EXTENDS GCHandshake, FiniteSetTheorems, TLAPS

-----------------------------------------------------------------------------
(* Facts about the helpers *)

(* notify() only ever wakes threads up. *)
LEMMA NotifyShrinks ==
  ASSUME NEW w, NEW v
  PROVE  /\ v \in NotifyOne(w) => v \subseteq w
         /\ v \in NotifyTwo(w) => v \subseteq w
  BY DEF NotifyOne, NotifyTwo

(* The sets the reaper and the finalizer handle are finite. *)
LEMMA StubsFinite ==
  ASSUME NEW S, S \subseteq Stubs
  PROVE  IsFiniteSet(S) /\ Cardinality(S) \in Nat
  BY HandshakeAssumption, FS_Subset, FS_CardinalityType DEF HandshakeAssumption

-----------------------------------------------------------------------------
(* Type correctness.  That the number of expected confirmations is never   *)
(* negative takes an argument: gcDeletionReport has not counted more       *)
(* handles as preconsumed than it has looked at.                           *)

TrackCount ==
  rpc \in {"track", "add", "remove", "report"} =>
    /\ confirmed \cap resurrected = {}
    /\ confirmed \cup resurrected = cache
    /\ todo \subseteq cache
    /\ already + Cardinality(todo) <= Cardinality(cache)

Handling ==
  /\ rpc \in {"add", "remove"} => cur \in Stubs
  /\ fpc \in {"consume", "act"} => fcur \in Stubs

TypeInv == TypeOK /\ TrackCount /\ Handling

(* What gcDeletionReport expects is the chunk without the preconsumed ones. *)
LEMMA ExpectedCount ==
  ASSUME TypeInv, rpc \in {"track", "add", "report"}
  PROVE  Expected = Cardinality(cache) - already /\ Expected \in Nat
<1>1. /\ Cardinality(confirmed) \in Nat /\ Cardinality(resurrected) \in Nat
      /\ IsFiniteSet(confirmed) /\ IsFiniteSet(resurrected)
      /\ Cardinality(todo) \in Nat
  BY StubsFinite DEF TypeInv, TypeOK
<1>2. Cardinality(cache) = Cardinality(confirmed) + Cardinality(resurrected)
  <2>1. confirmed \cap resurrected = {} /\ confirmed \cup resurrected = cache
    BY DEF TypeInv, TrackCount
  <2>2. Cardinality(confirmed \cap resurrected) = 0
    BY <2>1, FS_EmptySet
  <2>3. Cardinality(confirmed \cup resurrected)
          = Cardinality(confirmed) + Cardinality(resurrected)
            - Cardinality(confirmed \cap resurrected)
    BY <1>1, FS_Union
  <2>4. Cardinality(cache) = Cardinality(confirmed \cup resurrected)
    BY <2>1
  <2> QED BY <1>1, <2>2, <2>3, <2>4
<1>3. already \in Nat /\ already + Cardinality(todo) <= Cardinality(cache)
  BY DEF TypeInv, TypeOK, TrackCount
<1> QED BY <1>1, <1>2, <1>3 DEF Expected

(* The program starts with empty queues and nothing counted. *)
LEMMA TypeInvInit == Init => TypeInv
<1> SUFFICES ASSUME Init PROVE TypeInv
  OBVIOUS
<1>1. TypeOK
  <2>1. gcs \in 0..MaxGC
    BY HandshakeAssumption DEF Init, HandshakeAssumption
  <2>2. flast \in BOOLEAN
    BY DEF Init
  <2>3. dpc \in [Delayed -> {"pending", "wait", "enter", "native", "done"}]
    BY DEF Init
  <2> QED BY <2>1, <2>2, <2>3 DEF Init, TypeOK, Handles
<1>2. TrackCount /\ Handling
  BY DEF Init, TrackCount, Handling
<1> QED BY <1>1, <1>2 DEF TypeInv

(* Every step keeps the types, and with them what gcDeletionReport has    *)
(* counted as preconsumed within what it has looked at.                    *)
LEMMA TypeInvStep == TypeInv /\ [Next]_vars => TypeInv'
<1> SUFFICES ASSUME TypeInv, [Next]_vars PROVE TypeInv'
  OBVIOUS
<1> USE DEF TypeInv, TypeOK, TrackCount, Handling, heapVars, reaperVars, reportVars, finVars
<1>0. CASE UNCHANGED vars
  BY <1>0 DEF vars
<1>1. ASSUME NEW S \in SUBSET (Stubs \cup Chores), JavaGC(S) PROVE TypeInv'
  BY <1>1, HandshakeAssumption DEF JavaGC, HandshakeAssumption
<1>2. ASSUME NEW h \in Stubs, RemoveRef(h) PROVE TypeInv'
  BY <1>2 DEF RemoveRef
<1>3. CASE PollRefs
  BY <1>3 DEF PollRefs
<1>4. ASSUME NEW R \in SUBSET Stubs, EnterNative(R) PROVE TypeInv'
  <2>1. Cardinality(cache) \in Nat
    BY StubsFinite
  <2> QED BY <1>4, <2>1 DEF EnterNative, Threads
<1>5. ASSUME NEW h \in Stubs, TrackPreconsumed(h) PROVE TypeInv'
  <2>1. Cardinality(todo \ {h}) = Cardinality(todo) - 1
    BY <1>5, StubsFinite, FS_RemoveElement DEF TrackPreconsumed, NextToTrack
  <2>2. Cardinality(todo) \in Nat
    BY StubsFinite
  <2> QED BY <1>5, <2>1, <2>2 DEF TrackPreconsumed, Handles
<1>25. CASE RemovePreconsumed
  <2>1. /\ head' \in [Stubs \cup Chores -> {"live", "dying", "gone"}]
        /\ pinned' \subseteq Stubs /\ refList' \subseteq Stubs
    BY <1>25 DEF RemovePreconsumed, Resurrect, Settle
  <2> QED BY <1>25, <2>1 DEF RemovePreconsumed, Handles
<1>6. ASSUME NEW h \in Stubs, TrackUnknown(h) PROVE TypeInv'
  <2>1. Cardinality(todo \ {h}) <= Cardinality(todo)
    BY StubsFinite, FS_Subset
  <2>2. Cardinality(todo) \in Nat /\ Cardinality(todo \ {h}) \in Nat
        /\ Cardinality(cache) \in Nat
    BY StubsFinite
  <2> QED BY <1>6, <2>1, <2>2 DEF TrackUnknown, Handles
<1>7. CASE TrackAdd
  BY <1>7 DEF TrackAdd, Handles
<1>8. CASE ReportBlocked
  BY <1>8 DEF ReportBlocked, Reporting, Threads
<1>9. CASE Report
  <2>1. Expected \in Nat
    BY <1>9, ExpectedCount DEF Report, Reporting
  <2>2. waitSet' \subseteq waitSet
    BY <1>9, NotifyShrinks DEF Report
  <2>3. rpc' \in {"post", "delete", "allow"}
    BY <1>9 DEF Report, AfterReport
  <2> QED BY <1>9, <2>1, <2>2, <2>3 DEF Report, PublishReport
<1>10. CASE ReaperPostProcess
  BY <1>10 DEF ReaperPostProcess, PostProcess, AfterReport
<1>11. CASE AllowThreads
  BY <1>11 DEF AllowThreads
<1>12. CASE ReaperWait
  BY <1>12 DEF ReaperWait, WaitForCStubs, Threads
<1>13. CASE EndAllowThreads
  BY <1>13 DEF EndAllowThreads, Threads
<1>14. CASE DeleteNative
  BY <1>14 DEF DeleteNative
<1>15. ASSUME NEW h \in Stubs, StartFinalize(h) PROVE TypeInv'
  BY <1>15 DEF StartFinalize, Handles
<1>16. CASE ConsumeBlocked
  BY <1>16 DEF ConsumeBlocked, Threads
<1>17. CASE ConsumeEarly
  BY <1>17 DEF ConsumeEarly, Consuming
<1>18. ASSUME ConsumeDeletion \/ ConsumeResurrection \/ ConsumeNothing PROVE TypeInv'
  <2>1. waitSet' \subseteq waitSet
    BY <1>18, NotifyShrinks DEF ConsumeDeletion, ConsumeResurrection, ConsumeNothing
  <2>2. confirmationsUnconsumed' \in Nat
    BY <1>18 DEF ConsumeDeletion, ConsumeResurrection, ConsumeNothing, CountDown,
                 ConsumeTracked
  <2>3. fres' \in {"NONE", "CONFIRMED", "RESURRECTION", "MAYBE_RESURRECT"}
        /\ flast' \in BOOLEAN
    BY <1>18 DEF ConsumeDeletion, ConsumeResurrection, ConsumeNothing, CountDown
  <2> QED BY <1>18, <2>1, <2>2, <2>3
          DEF ConsumeDeletion, ConsumeResurrection, ConsumeNothing, ConsumeTracked
<1>19. CASE FinishFinalize
  <2>1. head' \in [Stubs \cup Chores -> {"live", "dying", "gone"}]
    BY <1>19 DEF FinishFinalize, Resurrect, Settle
  <2>2. pinned' \subseteq Stubs
    BY <1>19 DEF FinishFinalize, Resurrect, Settle
  <2> QED BY <1>19, <2>1, <2>2 DEF FinishFinalize, Resurrect, Settle, Handles
<1>20. CASE FinalizerPostProcess
  BY <1>20 DEF FinalizerPostProcess, PostProcess
<1>21. ASSUME NEW c \in Chores, StartChore(c) PROVE TypeInv'
  BY <1>21 DEF StartChore
<1>22. CASE ChoreEnterNative
  BY <1>22 DEF ChoreEnterNative, Threads
<1>23. CASE ChoreLeaveNative
  BY <1>23 DEF ChoreLeaveNative
<1>24. ASSUME NEW d \in Delayed, DelayedStep(d) PROVE TypeInv'
  BY <1>24 DEF DelayedStep, DelayedStart, DelayedWait, DelayedEnterNative,
               DelayedLeaveNative, WaitForCStubs, Threads
<1> QED
  BY <1>0, <1>1, <1>2, <1>3, <1>4, <1>5, <1>6, <1>7, <1>8, <1>9, <1>10, <1>11, <1>12,
     <1>13, <1>14, <1>15, <1>16, <1>17, <1>18, <1>19, <1>20, <1>21, <1>22, <1>23, <1>24, <1>25
  DEF Next, ReaperStep, FinalizerStep

(* Every variable keeps its type; in particular the counter of expected    *)
(* confirmations never goes below zero, in any interleaving.               *)
THEOREM TypeCorrect == Spec => []TypeOK
<1>1. Spec => []TypeInv
  BY TypeInvInit, TypeInvStep, PTL DEF Spec
<1> QED BY <1>1, PTL DEF TypeInv

-----------------------------------------------------------------------------
(* Orderly collections.  The reaper and the finalizer agree because every  *)
(* stub whose finalizer is outstanding is in exactly one stage of the      *)
(* reaper's work: still queued, in a chunk that is being examined, or      *)
(* tracked; and a new chunk starts only when nothing is tracked.           *)

Pending == (finQueue \cap Stubs) \cup (IF fpc = "consume" THEN {fcur} ELSE {})

Examining == rpc \in {"gather", "enter"}
Counting  == rpc \in {"track", "add"}

Unreported ==
  IF Examining THEN cache
  ELSE IF Counting THEN todo \cup (IF rpc = "add" THEN {cur} ELSE {})
  ELSE {}

StageInv ==
  /\ Pending = refQueue \cup Unreported \cup unconsumedTracker
  /\ fpc \in {"consume", "act"} => fcur \notin finQueue
  /\ fpc = "act" => fres # "NONE"
  /\ refQueue # {} => rpc \in {"idle", "gather"}
  /\ preconsumedMaybeResurrect = {}

CountInv ==
  /\ rpc \notin {"remove", "report", "failed"}
  /\ Examining \/ refQueue # {} => unconsumedTracker = {}
  /\ Counting => /\ confirmationsUnconsumed = 0 /\ already = 0
                 /\ unconsumedTracker \cup Unreported = cache
  /\ ~Counting => /\ confirmationsUnconsumed = Cardinality(unconsumedTracker)
                  /\ unconsumedTracker \subseteq confirmedDeletions \cup resurrections

PinInv ==
  /\ \A h \in Pending : head[h] = "dying"
  /\ fpc = "post" \/ flast => confirmationsUnconsumed = 0 /\ Pending = {}
  /\ flast => fpc = "act"
  /\ rpc = "post" => confirmationsUnconsumed = 0
  /\ PinnedUntilCycleEnds

GilInv ==
  /\ gil = Reaper => Counting \/ rpc \in {"post", "allow", "delete"}
  /\ gil = Finalizer => fpc = "native"
  /\ \A d \in Delayed : gil = d => dpc[d] = "native"
  /\ Reaper \in waitSet => rpc = "wait"
  /\ Finalizer \in waitSet => fpc = "consume"
  /\ \A d \in Delayed : d \in waitSet => dpc[d] = "wait"

CycleInv == StageInv /\ CountInv

(* Before the first collection nothing is tracked and nothing expected. *)
LEMMA CycleInit == Init => CycleInv
<1> SUFFICES ASSUME Init PROVE CycleInv
  OBVIOUS
<1>1. Cardinality({}) = 0
  BY FS_EmptySet
<1> QED
  BY <1>1 DEF Init, CycleInv, StageInv, CountInv, Pending, Unreported, Examining, Counting

(* A step that touches nothing the agreement is about. *)
LEMMA CycleFrame ==
  ASSUME CycleInv,
         UNCHANGED <<finQueue, refQueue, fpc, fcur, fres, rpc, cache, confirmed,
                     resurrected, todo, cur, already, reportVars>>
  PROVE  CycleInv'
  BY DEF CycleInv, StageInv, CountInv, Pending, Unreported, Examining, Counting, reportVars

(* A finalizer that finds its handle tracked, while confirmations are due. *)
LEMMA ConsumeStep ==
  ASSUME TypeInv, CycleInv,
         ConsumeDeletion \/ ConsumeResurrection \/ ConsumeNothing
  PROVE  CycleInv'
<1> USE DEF CycleInv, StageInv, CountInv, Examining, Counting
<1>1. /\ fpc = "consume" /\ confirmationsUnconsumed # 0 /\ fcur \in unconsumedTracker
      /\ unconsumedTracker' = unconsumedTracker \ {fcur} /\ fpc' = "act"
      /\ UNCHANGED <<heapVars, gil, reaperVars, confirmedDeletions, resurrections,
                     preconsumedMaybeResurrect, fcur, dpc>>
  BY DEF ConsumeDeletion, ConsumeResurrection, ConsumeNothing, ConsumeTracked, Consuming
<1>2. ~Counting /\ ~Examining /\ refQueue = {}
  <2>1. unconsumedTracker # {}
    BY <1>1
  <2> QED BY <1>1, <2>1
<1>3. fcur \in confirmedDeletions \cup resurrections
  BY <1>1, <1>2
<1>4. /\ confirmationsUnconsumed' = confirmationsUnconsumed - 1 /\ fres' # "NONE"
  BY <1>3 DEF ConsumeDeletion, ConsumeResurrection, ConsumeNothing, CountDown
<1>5. Cardinality(unconsumedTracker \ {fcur}) = Cardinality(unconsumedTracker) - 1
  BY <1>1, StubsFinite, FS_RemoveElement DEF TypeInv, TypeOK
<1>6. Pending' = Pending \ {fcur}
  BY <1>1 DEF Pending, heapVars
<1>7. Unreported = {} /\ Unreported' = {}
  BY <1>1, <1>2 DEF Unreported, reaperVars
<1> QED
  BY <1>1, <1>2, <1>4, <1>5, <1>6, <1>7 DEF heapVars, reaperVars

(* As long as a collection only starts when the last one was consumed,     *)
(* every step keeps the tracker, the published arrays and the count of     *)
(* confirmations in agreement.                                             *)
LEMMA CycleStep ==
  ASSUME Orderly, TypeInv, CycleInv, [Next]_vars
  PROVE  CycleInv'
<1> USE DEF CycleInv, StageInv, CountInv, Examining, Counting
<1>0. CASE UNCHANGED vars
  BY <1>0, CycleFrame DEF vars, heapVars, reaperVars, finVars
<1>1. ASSUME NEW S \in SUBSET (Stubs \cup Chores), JavaGC(S) PROVE CycleInv'
  <2>1. Consumed
    BY <1>1 DEF JavaGC
  <2>2. unconsumedTracker = {} /\ confirmationsUnconsumed = 0
    BY <2>1, FS_EmptySet DEF Consumed, Pending
  <2> QED
    BY <1>1, <2>1, <2>2
    DEF JavaGC, Consumed, Pending, Unreported, reaperVars, reportVars, finVars
<1>2. ASSUME NEW h \in Stubs, RemoveRef(h) PROVE CycleInv'
  BY <1>2 DEF RemoveRef, Pending, Unreported, reportVars, finVars
<1>3. CASE PollRefs
  BY <1>3 DEF PollRefs, Pending, Unreported, reportVars, finVars
<1>4. ASSUME NEW R \in SUBSET Stubs, EnterNative(R) PROVE CycleInv'
  BY <1>4, FS_EmptySet DEF EnterNative, Pending, Unreported, heapVars, reportVars, finVars
<1>5. ASSUME NEW h \in Stubs, TrackPreconsumed(h) PROVE CycleInv'
  BY <1>5 DEF TrackPreconsumed
<1>25. CASE RemovePreconsumed
  BY <1>25 DEF RemovePreconsumed
<1>6. ASSUME NEW h \in Stubs, TrackUnknown(h) PROVE CycleInv'
  <2>1. h \in todo
    BY <1>6 DEF TrackUnknown, NextToTrack
  <2> QED
    BY <1>6, <2>1 DEF TrackUnknown, Pending, Unreported, heapVars, reportVars, finVars
<1>7. CASE TrackAdd
  BY <1>7 DEF TrackAdd, Pending, Unreported, heapVars, finVars
<1>8. CASE ReportBlocked
  BY <1>8 DEF ReportBlocked, Reporting, TypeInv, TypeOK
<1>9. CASE Report
  <2>1. rpc = "track" /\ todo = {}
    BY <1>9 DEF Report, Reporting
  <2>2. unconsumedTracker = cache /\ cache = confirmed \cup resurrected
    BY <2>1 DEF Unreported, TypeInv, TrackCount
  <2>3. Expected = Cardinality(cache)
    <3>1. Cardinality(cache) \in Nat
      BY StubsFinite DEF TypeInv, TypeOK
    <3> QED BY <2>1, <3>1, ExpectedCount
  <2>4. rpc' \in {"post", "delete", "allow"}
    BY <1>9 DEF Report, AfterReport
  <2> QED
    BY <1>9, <2>1, <2>2, <2>3, <2>4
    DEF Report, PublishReport, Pending, Unreported, heapVars, finVars
<1>10. CASE ReaperPostProcess
  BY <1>10 DEF ReaperPostProcess, PostProcess, AfterReport, Pending, Unreported, finVars
<1>11. CASE AllowThreads
  BY <1>11 DEF AllowThreads, Pending, Unreported, heapVars, reportVars, finVars
<1>12. CASE ReaperWait
  BY <1>12 DEF ReaperWait, Pending, Unreported, heapVars, reportVars, finVars
<1>13. CASE EndAllowThreads
  BY <1>13 DEF EndAllowThreads, Pending, Unreported, heapVars, reportVars, finVars
<1>14. CASE DeleteNative
  BY <1>14 DEF DeleteNative, Pending, Unreported, reportVars, finVars
<1>15. ASSUME NEW h \in Stubs, StartFinalize(h) PROVE CycleInv'
  BY <1>15 DEF StartFinalize, Pending, Unreported, reaperVars, reportVars
<1>16. CASE ConsumeBlocked
  BY <1>16, CycleFrame DEF ConsumeBlocked, heapVars, reaperVars, finVars
<1>17. CASE ConsumeEarly
  <2>1. fcur \in Pending /\ fcur \notin unconsumedTracker /\ confirmationsUnconsumed # 0
    BY <1>17 DEF ConsumeEarly, Consuming, Pending
  <2>2. fcur \in refQueue \cup Unreported
    BY <2>1
  <2>3. unconsumedTracker = {} \/ Counting
    BY <2>2 DEF Unreported
  <2> QED BY <2>1, <2>3, FS_EmptySet
<1>18. ASSUME ConsumeDeletion \/ ConsumeResurrection \/ ConsumeNothing PROVE CycleInv'
  BY <1>18, ConsumeStep
<1>19. CASE FinishFinalize
  BY <1>19 DEF FinishFinalize, Pending, Unreported, reaperVars, reportVars
<1>20. CASE FinalizerPostProcess
  BY <1>20 DEF FinalizerPostProcess, PostProcess, Pending, Unreported, reaperVars
<1>21. ASSUME NEW c \in Chores, StartChore(c) PROVE CycleInv'
  <2>1. c \notin Stubs
    BY HandshakeAssumption DEF HandshakeAssumption
  <2> QED BY <1>21, <2>1 DEF StartChore, Pending, Unreported, reaperVars, reportVars
<1>22. CASE ChoreEnterNative
  BY <1>22 DEF ChoreEnterNative, Pending, Unreported, heapVars, reaperVars, reportVars
<1>23. CASE ChoreLeaveNative
  BY <1>23 DEF ChoreLeaveNative, Pending, Unreported, heapVars, reaperVars, reportVars
<1>24. ASSUME NEW d \in Delayed, DelayedStep(d) PROVE CycleInv'
  BY <1>24, CycleFrame
  DEF DelayedStep, DelayedStart, DelayedWait, DelayedEnterNative, DelayedLeaveNative,
      heapVars, reaperVars, finVars
<1> QED
  BY <1>0, <1>1, <1>2, <1>3, <1>4, <1>5, <1>6, <1>7, <1>8, <1>9, <1>10, <1>11, <1>12,
     <1>13, <1>14, <1>15, <1>16, <1>17, <1>18, <1>19, <1>20, <1>21, <1>22, <1>23, <1>24, <1>25
  DEF Next, ReaperStep, FinalizerStep

-----------------------------------------------------------------------------
(* resurrectionQueue is emptied only when no confirmation is outstanding.  *)

(* Before the first collection no confirmation is outstanding. *)
LEMMA PinInit == Init => PinInv
<1> SUFFICES ASSUME Init PROVE PinInv
  OBVIOUS
<1> QED BY DEF Init, PinInv, Pending, PinnedUntilCycleEnds

(* A step that touches neither the queue of resurrected heads nor the      *)
(* report of the cycle.                                                    *)
LEMMA PinFrame ==
  ASSUME PinInv,
         UNCHANGED <<head, pinned, finQueue, fpc, fcur, flast, rpc, resurrections,
                     confirmationsUnconsumed>>
  PROVE  PinInv'
  BY DEF PinInv, Pending, PinnedUntilCycleEnds

(* Where the reaper stands between its report and its next one is no matter. *)
LEMMA PinReaperFrame ==
  ASSUME PinInv, ~Counting, rpc # "remove", rpc' \notin {"track", "add", "remove", "post"},
         UNCHANGED <<head, pinned, finQueue, fpc, fcur, flast, resurrections,
                     confirmationsUnconsumed>>
  PROVE  PinInv'
  BY DEF PinInv, Pending, PinnedUntilCycleEnds, Counting

(* Every step keeps resurrected heads pinned: postProcessCStubGCCycle only  *)
(* runs when the last confirmation was consumed.                           *)
LEMMA PinStep ==
  ASSUME Orderly, TypeInv, CycleInv, PinInv, [Next]_vars
  PROVE  PinInv'
<1> USE DEF PinInv, PinnedUntilCycleEnds, Counting
<1>0. CASE UNCHANGED vars
  BY <1>0, PinFrame DEF vars, heapVars, reaperVars, finVars, reportVars
<1>1. ASSUME NEW S \in SUBSET (Stubs \cup Chores), JavaGC(S) PROVE PinInv'
  <2>1. Consumed /\ Pending = {}
    BY <1>1 DEF JavaGC, Consumed, Pending
  <2>2. confirmationsUnconsumed = 0
    BY <2>1, FS_EmptySet DEF CycleInv, StageInv, CountInv, Consumed
  <2>3. \A h \in Pending' : head'[h] = "dying"
    BY <1>1, <2>1 DEF JavaGC, Consumed, Pending, finVars, TypeInv, TypeOK
  <2> QED BY <1>1, <2>1, <2>2, <2>3 DEF JavaGC, Consumed, reaperVars, reportVars, finVars
<1>2. ASSUME NEW h \in Stubs, RemoveRef(h) PROVE PinInv'
  BY <1>2, PinReaperFrame DEF RemoveRef, reportVars, finVars
<1>3. CASE PollRefs
  BY <1>3, PinReaperFrame DEF PollRefs, reportVars, finVars
<1>4. ASSUME NEW R \in SUBSET Stubs, EnterNative(R) PROVE PinInv'
  BY <1>4 DEF EnterNative, Pending, heapVars, reportVars, finVars
<1>5. ASSUME NEW h \in Stubs, TrackPreconsumed(h) PROVE PinInv'
  BY <1>5 DEF TrackPreconsumed, CycleInv, StageInv
<1>25. CASE RemovePreconsumed
  BY <1>25 DEF RemovePreconsumed, CycleInv, CountInv
<1>6. ASSUME NEW h \in Stubs, TrackUnknown(h) PROVE PinInv'
  BY <1>6 DEF TrackUnknown, Pending, heapVars, reportVars, finVars
<1>7. CASE TrackAdd
  BY <1>7 DEF TrackAdd, Pending, heapVars, finVars
<1>8. CASE ReportBlocked
  BY <1>8 DEF ReportBlocked, Reporting, CycleInv, CountInv
<1>9. CASE Report
  <2>1. rpc = "track" /\ todo = {}
    BY <1>9 DEF Report, Reporting, CycleInv, CountInv
  <2>2. unconsumedTracker = cache /\ cache = confirmed \cup resurrected
    BY <2>1 DEF Unreported, Examining, TypeInv, TrackCount, CycleInv, CountInv
  <2>3. cache \subseteq Pending
    BY <2>2 DEF CycleInv, StageInv
  <2>4. Pending = {} => Expected = 0
    <3>1. Expected = Cardinality(cache)
      <4>1. Cardinality(cache) \in Nat
        BY StubsFinite DEF TypeInv, TypeOK
      <4> QED BY <2>1, <4>1, ExpectedCount DEF CycleInv, CountInv
    <3> QED BY <2>3, <3>1, FS_EmptySet
  <2>5. Pending' = Pending /\ UNCHANGED <<head, pinned, fpc, flast>>
    BY <1>9 DEF Report, Pending, heapVars, finVars
  <2>6. \A h \in resurrections' : head'[h] # "live"
    BY <1>9, <2>2, <2>3, <2>5 DEF Report, PublishReport
  <2>7. confirmationsUnconsumed' = Expected
    BY <1>9 DEF Report, PublishReport
  <2>8. rpc' = "post" => Expected = 0
    BY <1>9 DEF Report, AfterReport
  <2> QED BY <2>4, <2>5, <2>6, <2>7, <2>8
<1>10. CASE ReaperPostProcess
  BY <1>10 DEF ReaperPostProcess, AfterReport, Pending, finVars
<1>11. CASE AllowThreads
  BY <1>11, PinReaperFrame DEF AllowThreads, heapVars, reportVars, finVars
<1>12. CASE ReaperWait
  BY <1>12, PinReaperFrame DEF ReaperWait, heapVars, reportVars, finVars
<1>13. CASE EndAllowThreads
  BY <1>13, PinReaperFrame DEF EndAllowThreads, heapVars, reportVars, finVars
<1>14. CASE DeleteNative
  BY <1>14, PinReaperFrame DEF DeleteNative, reportVars, finVars
<1>15. ASSUME NEW h \in Stubs, StartFinalize(h) PROVE PinInv'
  BY <1>15 DEF StartFinalize, Pending, reaperVars, reportVars
<1>16. CASE ConsumeBlocked
  BY <1>16, PinFrame DEF ConsumeBlocked, heapVars, reaperVars, reportVars, finVars
<1>17. CASE ConsumeEarly
  BY <1>17 DEF ConsumeEarly, Consuming, Pending, heapVars, reaperVars
<1>18. ASSUME ConsumeDeletion \/ ConsumeResurrection \/ ConsumeNothing PROVE PinInv'
  <2>1. /\ fpc = "consume" /\ confirmationsUnconsumed # 0 /\ fpc' = "act"
        /\ unconsumedTracker' = unconsumedTracker \ {fcur}
        /\ UNCHANGED <<heapVars, reaperVars, resurrections>>
    BY <1>18
    DEF ConsumeDeletion, ConsumeResurrection, ConsumeNothing, ConsumeTracked, Consuming
  <2>2. ~flast
    BY <2>1
  <2>3. flast' => confirmationsUnconsumed' = 0
    <3>1. CASE ConsumeNothing
      BY <2>2, <3>1 DEF ConsumeNothing
    <3>2. ASSUME NEW flag, CountDown(flag)
          PROVE  flast' => confirmationsUnconsumed' = 0
      <4>1. CASE confirmationsUnconsumed = 1
        BY <3>2, <4>1 DEF CountDown
      <4>2. CASE confirmationsUnconsumed # 1
        <5>1. ~flast'
          BY <3>2, <4>2, Zenon DEF CountDown
        <5> QED BY <5>1
      <4> QED BY <4>1, <4>2
    <3> QED BY <1>18, <3>1, <3>2 DEF ConsumeDeletion, ConsumeResurrection
  <2>4. Pending' \subseteq Pending
    BY <2>1 DEF Pending, heapVars
  <2>5. confirmationsUnconsumed' = 0 => Pending' = {}
    <3>1. CycleInv'
      BY <1>18, ConsumeStep
    <3>2. ~Counting' /\ ~Examining' /\ refQueue' = {}
      <4>1. ~Counting /\ ~Examining /\ refQueue = {}
        <5>1. fcur \in unconsumedTracker
          BY <1>18
          DEF ConsumeDeletion, ConsumeResurrection, ConsumeNothing, ConsumeTracked
        <5> QED BY <2>1, <5>1 DEF CycleInv, CountInv
      <4> QED BY <2>1, <4>1 DEF Examining, heapVars, reaperVars
    <3>3. unconsumedTracker \subseteq Stubs /\ unconsumedTracker' \subseteq Stubs
      BY <2>1 DEF TypeInv, TypeOK
    <3>4. IsFiniteSet(unconsumedTracker')
      BY <3>3, StubsFinite
    <3>5. Cardinality(unconsumedTracker') = 0 => unconsumedTracker' = {}
      BY <3>4, FS_EmptySet
    <3> QED BY <3>1, <3>2, <3>5 DEF CycleInv, CountInv, StageInv, Unreported
  <2>6. confirmationsUnconsumed' > 0 => confirmationsUnconsumed > 0
    BY <2>1, <1>18
    DEF ConsumeDeletion, ConsumeResurrection, ConsumeNothing, CountDown, TypeInv, TypeOK
  <2>7. rpc \notin {"track", "add", "post"}
    BY <2>1 DEF CycleInv, CountInv
  <2> QED BY <2>1, <2>3, <2>4, <2>5, <2>6, <2>7 DEF heapVars, reaperVars
<1>19. CASE FinishFinalize
  <2>1. Pending' = Pending
    BY <1>19 DEF FinishFinalize, Pending
  <2>2. fcur \in Stubs /\ fcur \notin Pending
    BY <1>19 DEF FinishFinalize, Resurrect, Settle, Pending, TypeInv, Handling, CycleInv, StageInv
  <2>3. \A h \in Stubs \ {fcur} : head'[h] = head[h] /\ (h \in pinned => h \in pinned')
    BY <1>19 DEF FinishFinalize, Resurrect, Settle, TypeInv, TypeOK
  <2>4. fres # "MAYBE_RESURRECT" /\ head'[fcur] = "live" => fcur \in pinned'
    BY <1>19, <2>2 DEF FinishFinalize, Resurrect, Settle, TypeInv, TypeOK
  <2>5. fres = "MAYBE_RESURRECT" => head'[fcur] = head[fcur] /\ pinned' = pinned
    BY <1>19, <2>2 DEF FinishFinalize, Resurrect, Settle, TypeInv, TypeOK
  <2>6. Pending \subseteq Stubs /\ resurrections \subseteq Stubs
    BY <1>19 DEF FinishFinalize, Pending, TypeInv, TypeOK
  <2>7. fpc' = "post" => flast
    BY <1>19 DEF FinishFinalize
  <2>8. ~flast' /\ UNCHANGED <<resurrections, confirmationsUnconsumed, rpc>>
    BY <1>19 DEF FinishFinalize, reaperVars, reportVars
  <2> QED BY <2>1, <2>2, <2>3, <2>4, <2>5, <2>6, <2>7, <2>8
<1>20. CASE FinalizerPostProcess
  BY <1>20 DEF FinalizerPostProcess, Pending, reaperVars
<1>21. ASSUME NEW c \in Chores, StartChore(c) PROVE PinInv'
  <2>1. c \notin Stubs
    BY HandshakeAssumption DEF HandshakeAssumption
  <2> QED BY <1>21, <2>1 DEF StartChore, Pending, reaperVars, reportVars, TypeInv, TypeOK
<1>22. CASE ChoreEnterNative
  BY <1>22 DEF ChoreEnterNative, Pending, heapVars, reaperVars, reportVars
<1>23. CASE ChoreLeaveNative
  BY <1>23 DEF ChoreLeaveNative, Pending, heapVars, reaperVars, reportVars
<1>24. ASSUME NEW d \in Delayed, DelayedStep(d) PROVE PinInv'
  BY <1>24, PinFrame
  DEF DelayedStep, DelayedStart, DelayedWait, DelayedEnterNative, DelayedLeaveNative,
      heapVars, reaperVars, reportVars, finVars
<1> QED
  BY <1>0, <1>1, <1>2, <1>3, <1>4, <1>5, <1>6, <1>7, <1>8, <1>9, <1>10, <1>11, <1>12,
     <1>13, <1>14, <1>15, <1>16, <1>17, <1>18, <1>19, <1>20, <1>21, <1>22, <1>23, <1>24, <1>25
  DEF Next, ReaperStep, FinalizerStep

-----------------------------------------------------------------------------
(* The control state tells who may hold the GIL and who may be asleep.     *)

(* The reaper, the finalizer and nobody are different from each other and   *)
(* from every delayed finalization.                                        *)
LEMMA ThreadsDiffer ==
  /\ Reaper # Finalizer /\ Reaper # Nobody /\ Finalizer # Nobody
  /\ Reaper \notin Delayed /\ Finalizer \notin Delayed /\ Nobody \notin Delayed
  BY HandshakeAssumption DEF HandshakeAssumption, Reaper, Finalizer, Nobody

(* At first nobody holds the GIL and nobody sleeps. *)
LEMMA GilInit == Init => GilInv
  BY ThreadsDiffer DEF Init, GilInv

(* Steps that neither take nor give the GIL and put nobody to sleep. *)
LEMMA GilFrame ==
  ASSUME GilInv, waitSet' \subseteq waitSet, UNCHANGED <<gil, dpc>>,
         rpc' = rpc \/ (gil # Reaper /\ Reaper \notin waitSet)
                   \/ (Reaper \notin waitSet
                         /\ rpc' \in {"track", "add", "post", "allow", "delete"}),
         fpc' = fpc \/ (fpc # "native" /\ Finalizer \notin waitSet)
  PROVE  GilInv'
  BY DEF GilInv, Counting

(* Every step keeps the GIL with the thread whose control state says so,   *)
(* and out of the hands of those who sleep on the monitor.                 *)
LEMMA GilStep ==
  ASSUME TypeInv, StageInv, CountInv, GilInv, Orderly, [Next]_vars
  PROVE  GilInv'
<1>0. CASE UNCHANGED vars
  BY <1>0, GilFrame DEF vars, reaperVars, finVars
<1>1. ASSUME NEW S \in SUBSET (Stubs \cup Chores), JavaGC(S) PROVE GilInv'
  BY <1>1, GilFrame DEF JavaGC, reaperVars, finVars
<1>2. ASSUME NEW h \in Stubs, RemoveRef(h) PROVE GilInv'
  BY <1>2, GilFrame DEF RemoveRef, finVars, GilInv, Counting
<1>3. CASE PollRefs
  BY <1>3, GilFrame DEF PollRefs, finVars, GilInv, Counting
<1>4. ASSUME NEW R \in SUBSET Stubs, EnterNative(R) PROVE GilInv'
  BY <1>4, ThreadsDiffer DEF EnterNative, finVars, GilInv, Counting
<1>5. ASSUME NEW h \in Stubs, TrackPreconsumed(h) PROVE GilInv'
  BY <1>5 DEF TrackPreconsumed, StageInv
<1>25. CASE RemovePreconsumed
  BY <1>25 DEF RemovePreconsumed, CountInv
<1>6. ASSUME NEW h \in Stubs, TrackUnknown(h) PROVE GilInv'
  BY <1>6, GilFrame DEF TrackUnknown, finVars, GilInv
<1>7. CASE TrackAdd
  BY <1>7, GilFrame DEF TrackAdd, finVars, GilInv
<1>8. CASE ReportBlocked
  BY <1>8 DEF ReportBlocked, Reporting, CountInv, Counting
<1>9. CASE Report
  <2>1. rpc = "track"
    BY <1>9 DEF Report, Reporting, CountInv
  <2>2. rpc' \in {"post", "delete", "allow"}
    BY <1>9 DEF Report, AfterReport
  <2>3. waitSet' \subseteq waitSet
    BY <1>9, NotifyShrinks DEF Report
  <2> QED BY <1>9, <2>1, <2>2, <2>3, GilFrame DEF Report, finVars, GilInv
<1>10. CASE ReaperPostProcess
  BY <1>10, GilFrame DEF ReaperPostProcess, AfterReport, finVars, GilInv
<1>11. CASE AllowThreads
  BY <1>11, ThreadsDiffer DEF AllowThreads, finVars, GilInv, Counting
<1>12. CASE ReaperWait
  BY <1>12, ThreadsDiffer DEF ReaperWait, WaitForCStubs, finVars, GilInv, Counting
<1>13. CASE EndAllowThreads
  BY <1>13, ThreadsDiffer DEF EndAllowThreads, finVars, GilInv, Counting
<1>14. CASE DeleteNative
  BY <1>14, ThreadsDiffer DEF DeleteNative, finVars, GilInv, Counting
<1>15. ASSUME NEW h \in Stubs, StartFinalize(h) PROVE GilInv'
  BY <1>15, GilFrame DEF StartFinalize, reaperVars, GilInv
<1>16. CASE ConsumeBlocked
  BY <1>16, ThreadsDiffer DEF ConsumeBlocked, Consuming, reaperVars, finVars, GilInv, Counting
<1>17. CASE ConsumeEarly
  BY <1>17, GilFrame DEF ConsumeEarly, Consuming, reaperVars
<1>18. ASSUME ConsumeDeletion \/ ConsumeResurrection \/ ConsumeNothing PROVE GilInv'
  <2>1. waitSet' \subseteq waitSet
    BY <1>18, NotifyShrinks DEF ConsumeDeletion, ConsumeResurrection, ConsumeNothing
  <2>2. /\ fpc = "consume" /\ Finalizer \notin waitSet
        /\ UNCHANGED <<gil, dpc, rpc>>
    BY <1>18
    DEF ConsumeDeletion, ConsumeResurrection, ConsumeNothing, ConsumeTracked, Consuming,
        reaperVars
  <2> QED BY <2>1, <2>2, GilFrame
<1>19. CASE FinishFinalize
  BY <1>19, GilFrame DEF FinishFinalize, reaperVars, GilInv
<1>20. CASE FinalizerPostProcess
  BY <1>20, GilFrame DEF FinalizerPostProcess, reaperVars, GilInv
<1>21. ASSUME NEW c \in Chores, StartChore(c) PROVE GilInv'
  BY <1>21, GilFrame DEF StartChore, reaperVars, GilInv
<1>22. CASE ChoreEnterNative
  BY <1>22, ThreadsDiffer DEF ChoreEnterNative, reaperVars, GilInv, Counting
<1>23. CASE ChoreLeaveNative
  BY <1>23, ThreadsDiffer DEF ChoreLeaveNative, reaperVars, GilInv, Counting
<1>24. ASSUME NEW d \in Delayed, DelayedStep(d) PROVE GilInv'
  <2>1. CASE DelayedStart(d)
    BY <2>1 DEF DelayedStart, reaperVars, finVars, GilInv, Counting, TypeInv, TypeOK
  <2>2. CASE DelayedWait(d)
    BY <2>2, ThreadsDiffer
    DEF DelayedWait, WaitForCStubs, reaperVars, finVars, GilInv, Counting, TypeInv, TypeOK
  <2>3. CASE DelayedEnterNative(d)
    BY <2>3, ThreadsDiffer
    DEF DelayedEnterNative, reaperVars, finVars, GilInv, Counting, TypeInv, TypeOK
  <2>4. CASE DelayedLeaveNative(d)
    BY <2>4, ThreadsDiffer
    DEF DelayedLeaveNative, reaperVars, finVars, GilInv, Counting, TypeInv, TypeOK
  <2> QED BY <1>24, <2>1, <2>2, <2>3, <2>4 DEF DelayedStep
<1> QED
  BY <1>0, <1>1, <1>2, <1>3, <1>4, <1>5, <1>6, <1>7, <1>8, <1>9, <1>10, <1>11, <1>12,
     <1>13, <1>14, <1>15, <1>16, <1>17, <1>18, <1>19, <1>20, <1>21, <1>22, <1>23, <1>24, <1>25
  DEF Next, ReaperStep, FinalizerStep

(* The control states that may own the GIL are none that may sleep. *)
LEMMA NobodySleepsWithGil ==
  ASSUME TypeInv, CountInv, GilInv
  PROVE  WaitsWithoutGil
<1> SUFFICES ASSUME gil \in waitSet PROVE FALSE
  BY DEF WaitsWithoutGil
<1>1. gil \in {Reaper, Finalizer} \cup Delayed
  BY DEF TypeInv, TypeOK, Threads
<1> QED BY <1>1 DEF GilInv, Counting

-----------------------------------------------------------------------------
(* The theorems.  OrderlyInv is inductive for orderly collections.         *)

OrderlyInv == TypeInv /\ CycleInv /\ PinInv /\ GilInv

(* With collections that do not overlap, the four parts are invariant       *)
(* together: each needs the types, and the GIL needs the count.            *)
LEMMA OrderlyInvariance ==
  ASSUME Orderly
  PROVE  Spec => []OrderlyInv
<1>1. Init => OrderlyInv
  BY TypeInvInit, CycleInit, PinInit, GilInit DEF OrderlyInv
<1>2. OrderlyInv /\ [Next]_vars => OrderlyInv'
  BY Orderly, TypeInvStep, CycleStep, PinStep, GilStep DEF OrderlyInv, CycleInv
<1> QED BY <1>1, <1>2, PTL DEF Spec

(* When collections do not overlap, the finalizer of a tracked handle      *)
(* always learns its fate: "Inconsistent tracker behavior!" never happens. *)
THEOREM OrderlyTracker ==
  ASSUME Orderly
  PROVE  Spec => []NoInconsistentTracker
<1>1. OrderlyInv => NoInconsistentTracker
  BY DEF OrderlyInv, CycleInv, StageInv, NoInconsistentTracker
<1> QED BY <1>1, OrderlyInvariance, PTL

(* When collections do not overlap, confirmationsUnconsumed counts exactly *)
(* the handles a finalizer can still consume.                              *)
THEOREM OrderlyCount ==
  ASSUME Orderly
  PROVE  Spec => []CountMatchesTracker
<1>1. OrderlyInv => CountMatchesTracker
  BY DEF OrderlyInv, CycleInv, CountInv, CountMatchesTracker, Counting
<1> QED BY <1>1, OrderlyInvariance, PTL

(* When collections do not overlap, a resurrected head is out of reach of  *)
(* the Java collector until the cycle is over.                             *)
THEOREM OrderlyPinned ==
  ASSUME Orderly
  PROVE  Spec => []PinnedUntilCycleEnds
<1>1. OrderlyInv => PinnedUntilCycleEnds
  BY DEF OrderlyInv, PinInv
<1> QED BY <1>1, OrderlyInvariance, PTL

(* When collections do not overlap, no thread waits on the monitor while   *)
(* it holds the GIL.                                                       *)
THEOREM OrderlyWaiting ==
  ASSUME Orderly
  PROVE  Spec => []WaitsWithoutGil
<1>1. OrderlyInv => WaitsWithoutGil
  BY NobodySleepsWithGil DEF OrderlyInv, CycleInv
<1> QED BY <1>1, OrderlyInvariance, PTL

-----------------------------------------------------------------------------
(***************************************************************************)
(* What needs no Orderly: where a handle may be between its death in the   *)
(* Java heap and the reaper's verdict, when collections overlap in any way. *)
(***************************************************************************)

(* The chunk in the reaper's hands is split once, in EnterNative.          *)
ChunkSplit ==
  /\ rpc \in {"idle", "gather", "enter"} => confirmed = {}
  /\ rpc = "idle" => cache = {}
  /\ rpc \notin {"idle", "gather", "enter"} =>
       confirmed \cap resurrected = {} /\ confirmed \cup resurrected = cache
  /\ todo \subseteq cache
  /\ rpc \notin {"track", "add", "remove", "failed"} => todo = {}
  /\ rpc \in {"add", "remove"} => cur \in cache \ todo

(* As long as a report is consumed after the reaper left it, it has asked  *)
(* for no resurrection: for those JyGC_clearNativeReferences waits.        *)
ReportInv ==
  /\ rpc \in {"post", "allow", "wait"} => resurrections = resurrected
  /\ rpc \notin {"allow", "wait"} =>
       confirmationsUnconsumed = 0 \/ resurrections = {}

(* The handles the reaper's side has yet to decide on ...                  *)
Chunk == IF rpc \in {"gather", "enter"} THEN cache
         ELSE todo \cup (IF rpc \in {"add", "remove"} THEN {cur} ELSE {})

Asked == refQueue \cup Chunk \cup unconsumedTracker

(* ... and the ones a finalizer has yet to settle, or left to the reaper.  *)
Settling == fpc = "consume" \/ (fpc = "act" /\ fres # "MAYBE_RESURRECT")

Owed == (finQueue \cap Stubs) \cup preconsumedMaybeResurrect
          \cup (IF Settling THEN {fcur} ELSE {})

(* Each of them is undecided once: its head does not live.                 *)
Undecided == \A h \in Asked \cup Owed \cup confirmed \cup released : head[h] # "live"

Once ==
  /\ refQueue \cap (Chunk \cup unconsumedTracker \cup confirmed) = {}
  /\ Chunk \cap unconsumedTracker = {}
  /\ finQueue \cap preconsumedMaybeResurrect = {}
  /\ Settling => fcur \notin finQueue \cup preconsumedMaybeResurrect
  /\ released \cap (refQueue \cup cache) = {}

(* What is about to be resurrected is asked of nobody any more.            *)
Rescued ==
  /\ fpc = "consume" => fres = "NONE"
  /\ fpc = "act" /\ fres = "RESURRECTION" =>
       fcur \notin Asked \cup confirmed \cup released

HistoryInv ==
  ChunkSplit /\ ReportInv /\ Undecided /\ Once /\ Rescued /\ RefListExact

-----------------------------------------------------------------------------

(* At first every head lives and nothing is asked of anybody. *)
LEMMA HistoryInit == Init => HistoryInv
  BY DEF Init, HistoryInv, ChunkSplit, ReportInv, Undecided, Once, Rescued, RefListExact,
         Asked, Chunk, Owed, Settling

(* Every step keeps the history of the handles, in any interleaving.       *)
LEMMA HistoryStep ==
  ASSUME TypeInv, HistoryInv, [Next]_vars
  PROVE  HistoryInv'
<1> USE DEF HistoryInv, ChunkSplit, ReportInv, Undecided, Once, Rescued, RefListExact,
            Asked, Chunk, Owed, Settling,
            heapVars, reaperVars, reportVars, finVars
<1>0. CASE UNCHANGED vars
  BY <1>0 DEF vars
<1>1. ASSUME NEW S \in SUBSET (Stubs \cup Chores), JavaGC(S) PROVE HistoryInv'
  <2>1. /\ \A h \in S : head[h] = "live" /\ head'[h] = "dying"
        /\ \A h \in Stubs \ S : head'[h] = head[h]
    BY <1>1 DEF JavaGC, TypeInv, TypeOK
  <2>2. /\ refQueue' = refQueue \cup (S \cap Stubs) /\ finQueue' = finQueue \cup S
        /\ UNCHANGED <<released, refList, reaperVars, reportVars, finVars>>
    BY <1>1 DEF JavaGC
  <2>3. (Asked \cup Owed \cup confirmed \cup released) \subseteq Stubs
    BY DEF TypeInv, TypeOK, Handling
  <2>4. (Asked \cup Owed \cup confirmed \cup released) \cap S = {}
    BY <2>1
  <2>5. /\ Chunk' = Chunk /\ Asked' = Asked \cup (S \cap Stubs)
        /\ Owed' = Owed \cup (S \cap Stubs)
    BY <2>2
  <2>6. ChunkSplit' /\ ReportInv'
    BY <2>2
  <2>7. Undecided'
    BY <2>1, <2>2, <2>3, <2>5
  <2>8. Once' /\ Rescued'
    <3>1. cache \cap S = {} \/ rpc \notin {"gather", "enter"}
      BY <2>4
    <3> QED BY <2>2, <2>4, <2>5, <3>1 DEF TypeInv, TypeOK
  <2>9. RefListExact'
    BY <2>1, <2>2 DEF TypeInv, TypeOK
  <2> QED BY <2>6, <2>7, <2>8, <2>9
<1>2. ASSUME NEW h \in Stubs, RemoveRef(h) PROVE HistoryInv'
  BY <1>2 DEF RemoveRef, TypeInv, TypeOK
<1>3. CASE PollRefs
  BY <1>3 DEF PollRefs, TypeInv, TypeOK
<1>4. ASSUME NEW R \in SUBSET Stubs, EnterNative(R) PROVE HistoryInv'
  BY <1>4 DEF EnterNative, TypeInv, TypeOK
<1>5. ASSUME NEW h \in Stubs, TrackPreconsumed(h) PROVE HistoryInv'
  BY <1>5 DEF TrackPreconsumed, NextToTrack, TypeInv, TypeOK
<1>24. CASE RemovePreconsumed
  <2>1. /\ rpc = "remove" /\ rpc' \in {"track", "failed"} /\ cur \in cache \ todo
        /\ preconsumedMaybeResurrect' = preconsumedMaybeResurrect \ {cur}
        /\ UNCHANGED <<released, refQueue, finQueue, cache, confirmed, resurrected, todo,
                       resurrections, confirmationsUnconsumed, unconsumedTracker, finVars>>
    BY <1>24 DEF RemovePreconsumed
  <2>2. /\ \A g \in Stubs \ {cur} : head'[g] = head[g]
        /\ \/ head'[cur] = head[cur] /\ refList' = refList
           \/ cur \notin resurrected /\ head'[cur] = "gone" /\ refList' = refList
           \/ cur \in resurrected /\ head'[cur] = "live" /\ refList' = refList \cup {cur}
                /\ cur \in preconsumedMaybeResurrect
    BY <1>24 DEF RemovePreconsumed, Resurrect, Settle, TypeInv, TypeOK, Handling
  <2>3. (Asked \cup Owed \cup confirmed \cup released)' \subseteq Stubs
    BY <2>1 DEF TypeInv, TypeOK, Handling
  <2>4. /\ Asked' \subseteq Asked \ {cur} /\ Owed' \subseteq Owed
        /\ cur \in preconsumedMaybeResurrect => cur \notin Owed'
    BY <2>1
  <2>5. cur \in resurrected => cur \notin confirmed \cup released
    BY <2>1
  <2>6. ChunkSplit' /\ ReportInv' /\ Once' /\ Rescued'
    BY <2>1
  <2>7. Undecided'
    BY <2>1, <2>2, <2>3, <2>4, <2>5
  <2>8. RefListExact'
    <3>1. head[cur] # "live" /\ cur \in Stubs
      BY <2>1 DEF TypeInv, Handling
    <3>2. refList = {h \in Stubs : head[h] = "live"} \cup refQueue
      BY <2>1
    <3>3. \/ refList' = refList /\ \A g \in Stubs : head'[g] = "live" <=> head[g] = "live"
          \/ /\ refList' = refList \cup {cur}
             /\ \A g \in Stubs : head'[g] = "live" <=> head[g] = "live" \/ g = cur
      BY <2>2, <3>1
    <3>4. refList' = {h \in Stubs : head'[h] = "live"} \cup refQueue
      BY <3>1, <3>2, <3>3
    <3> QED BY <2>1, <3>4
  <2> QED BY <2>6, <2>7, <2>8
<1>6. ASSUME NEW h \in Stubs, TrackUnknown(h) PROVE HistoryInv'
  BY <1>6 DEF TrackUnknown, NextToTrack, TypeInv, TypeOK
<1>7. CASE TrackAdd
  BY <1>7 DEF TrackAdd, TypeInv, TypeOK
<1>8. CASE ReportBlocked
  BY <1>8 DEF ReportBlocked, Reporting, TypeInv, TypeOK
<1>9. CASE Report
  BY <1>9 DEF Report, PublishReport, Reporting, AfterReport, TypeInv, TypeOK
<1>10. CASE ReaperPostProcess
  BY <1>10 DEF ReaperPostProcess, PostProcess, AfterReport, TypeInv, TypeOK
<1>11. CASE AllowThreads
  BY <1>11 DEF AllowThreads, TypeInv, TypeOK
<1>12. CASE ReaperWait
  BY <1>12 DEF ReaperWait, CStubsPending, TypeInv, TypeOK
<1>13. CASE EndAllowThreads
  BY <1>13 DEF EndAllowThreads, TypeInv, TypeOK
<1>14. CASE DeleteNative
  BY <1>14 DEF DeleteNative, TypeInv, TypeOK
<1>15. ASSUME NEW h \in Stubs, StartFinalize(h) PROVE HistoryInv'
  BY <1>15 DEF StartFinalize, TypeInv, TypeOK
<1>16. CASE ConsumeBlocked
  BY <1>16 DEF ConsumeBlocked
<1>17. CASE ConsumeEarly
  BY <1>17 DEF ConsumeEarly, Consuming, TypeInv, TypeOK, Handling
<1>18. CASE ConsumeDeletion \/ ConsumeResurrection \/ ConsumeNothing
  BY <1>18 DEF ConsumeDeletion, ConsumeResurrection, ConsumeNothing, ConsumeTracked,
               Consuming, CountDown, TypeInv, TypeOK, Handling
<1>19. CASE FinishFinalize
  BY <1>19 DEF FinishFinalize, Resurrect, Settle, TypeInv, TypeOK, Handling
<1>20. CASE FinalizerPostProcess
  BY <1>20 DEF FinalizerPostProcess, PostProcess
<1>21. ASSUME NEW c \in Chores, StartChore(c) PROVE HistoryInv'
  BY <1>21, HandshakeAssumption DEF StartChore, HandshakeAssumption, TypeInv, TypeOK
<1>22. CASE ChoreEnterNative \/ ChoreLeaveNative
  BY <1>22 DEF ChoreEnterNative, ChoreLeaveNative
<1>23. ASSUME NEW d \in Delayed, DelayedStep(d) PROVE HistoryInv'
  BY <1>23 DEF DelayedStep, DelayedStart, DelayedWait, DelayedEnterNative,
               DelayedLeaveNative
<1> QED
  BY <1>0, <1>1, <1>2, <1>3, <1>4, <1>5, <1>6, <1>7, <1>8, <1>9, <1>10, <1>11, <1>12,
     <1>13, <1>14, <1>15, <1>16, <1>17, <1>18, <1>19, <1>20, <1>21, <1>22, <1>23, <1>24
  DEF Next, ReaperStep, FinalizerStep

-----------------------------------------------------------------------------

(* The history of the handles is an invariant of every interleaving. *)
LEMMA HistoryInvariance == Spec => [](TypeInv /\ HistoryInv)
<1>1. Init => TypeInv /\ HistoryInv
  BY TypeInvInit, HistoryInit
<1>2. (TypeInv /\ HistoryInv) /\ [Next]_vars => (TypeInv /\ HistoryInv)'
  BY TypeInvStep, HistoryStep
<1> QED BY <1>1, <1>2, PTL DEF Spec

(* Whatever the interleaving, overlapping collections included, a head     *)
(* whose native object was given up as garbage never lives again.          *)
THEOREM ReleasedForGood == Spec => []ReleasedStaysDead
<1>1. HistoryInv => ReleasedStaysDead
  BY DEF HistoryInv, Undecided, ReleasedStaysDead
<1> QED BY <1>1, HistoryInvariance, PTL

(* Whatever the interleaving, refList has the weak references of the heads *)
(* that live and of those the reaper has not polled yet, and no others.    *)
THEOREM RefListComplete == Spec => []RefListExact
<1>1. HistoryInv => RefListExact
  BY DEF HistoryInv
<1> QED BY <1>1, HistoryInvariance, PTL
=============================================================================
