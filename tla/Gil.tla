---------------------------------- MODULE Gil ----------------------------------
(***************************************************************************)
(* The global interpreter lock and the thread states.  The lock is a       *)
(* JyLock, a flag that knows no owner; who may run native code follows     *)
(* from how ENTER_JyNI, RE_ENTER_JyNI, PyEval_SaveThread, RestoreThread,   *)
(* PyGILState_Ensure and Release are nested.  Each thread finds its native *)
(* thread state through JyTState.tStateLookup, which is not synchronized.  *)
(*                                                                         *)
(* A thread's nesting is the sequence nest[t] of frames: entered and       *)
(* ensured took the lock, reentered and ensuredLocked found it taken,      *)
(* allowed released it, java is a callback into Java that keeps it, and    *)
(* peer is the body of clearPyCPeer.                                       *)
(***************************************************************************)
EXTENDS Integers, Sequences, FiniteSets

CONSTANTS
  Threads,      \* threads, each with its Jython ThreadState
  Natives,      \* those started by native code, unknown to the JVM at first
  States,       \* addresses of native thread states
  Null,         \* no thread state
  MaxDepth      \* bound: frames of a thread

ASSUME GilAssumption ==
  /\ IsFiniteSet(Threads) /\ Natives \subseteq Threads
  /\ Null \notin States /\ Null \notin Threads
  /\ MaxDepth \in Nat

VARIABLES
  lock,      \* JyLock.locked of interpreter_lock
  current,   \* _PyThreadState_Current
  lookup,    \* tStateLookup: the thread state of every thread
  missed,    \* entries put since a thread began to put its own
  lost,      \* history: a thread in native code has lost its entry
  live,      \* allocated thread states
  anchored,  \* those whose JyTState has not been finalized
  counter,   \* JyNI_gilstate_counter
  detach,    \* those with JyNI_natively_attached = JNI_EDETACHED
  attached,  \* native threads attached to the JVM
  nest,      \* the frames of every thread
  pc, op,    \* where a thread is, and in which operation
  hand,      \* the thread state it has looked up
  fatal      \* the Py_FatalError the program ended with

stateVars  == <<live, anchored, counter, detach>>
lookupVars == <<lookup, missed, lost>>
threadVars == <<nest, pc, op, hand>>
vars == <<lock, current, lookupVars, stateVars, attached, threadVars, fatal>>

Kinds  == {"entered", "reentered", "ensured", "ensuredLocked", "allowed", "java", "peer"}
Frames == [kind : Kinds, ts : States \cup {Null}]

TypeOK ==
  /\ lock \in BOOLEAN /\ current \in States \cup {Null}
  /\ lookup \in [Threads -> States \cup {Null}]
  /\ missed \in [Threads -> SUBSET Threads] /\ lost \in BOOLEAN
  /\ live \subseteq States /\ anchored \subseteq live /\ detach \subseteq States
  /\ counter \in [States -> Nat]
  /\ attached \subseteq Natives
  /\ nest \in [Threads -> Seq(Frames)]
  /\ pc \in [Threads -> {"run", "get", "put", "have", "acquire", "got", "unlock"}]
  /\ op \in [Threads -> {"none", "enter", "reenter", "ensure", "release", "restore", "peer"}]
  /\ hand \in [Threads -> States \cup {Null}]
  /\ fatal \in {"no", "overwriting", "nullState", "notCurrent", "noState"}

Init ==
  /\ lock = FALSE /\ current = Null
  /\ lookup = [t \in Threads |-> Null] /\ missed = [t \in Threads |-> {}]
  /\ lost = FALSE
  /\ live = {} /\ anchored = {} /\ detach = {}
  /\ counter = [s \in States |-> 0]
  /\ attached = {}
  /\ nest = [t \in Threads |-> <<>>]
  /\ pc = [t \in Threads |-> "run"] /\ op = [t \in Threads |-> "none"]
  /\ hand = [t \in Threads |-> Null]
  /\ fatal = "no"

-----------------------------------------------------------------------------
(* Where a thread is *)

Top(t) == IF nest[t] = <<>> THEN "none" ELSE nest[t][Len(nest[t])].kind

HasGil == {"entered", "reentered", "ensured", "ensuredLocked", "java", "peer"}

(* Extension code that runs with the lock and a thread state. *)
InNative(t) == Top(t) \in {"entered", "reentered", "ensured", "ensuredLocked"}

Push(t, k, s) == nest' = [nest EXCEPT ![t] = Append(@, [kind |-> k, ts |-> s])]
Pop(t)        == nest' = [nest EXCEPT ![t] = SubSeq(@, 1, Len(@) - 1)]
Goto(t, p)    == pc' = [pc EXCEPT ![t] = p]
Begin(t, o)   == op' = [op EXCEPT ![t] = o]

Running(t) == fatal = "no" /\ pc[t] = "run"
Roomy(t)   == Len(nest[t]) < MaxDepth

Die(reason) ==
  /\ fatal' = reason
  /\ UNCHANGED <<lock, current, lookupVars, stateVars, attached, threadVars>>

-----------------------------------------------------------------------------
(* JyTState.fromThreadState *)

(* Mutant: the counter starts at 0, as in CPython. *)
GetStateUnanchored(t) ==
  /\ fatal = "no" /\ pc[t] = "get"
  /\ \/ /\ lookup[t] # Null
        /\ hand' = [hand EXCEPT ![t] = lookup[t]]
        /\ Goto(t, "have")
        /\ UNCHANGED stateVars
     \/ /\ lookup[t] = Null
        /\ \E s \in States \ live :
             /\ hand' = [hand EXCEPT ![t] = s]
             /\ live' = live \cup {s} /\ anchored' = anchored
             /\ counter' = [counter EXCEPT ![s] = 0]
             /\ detach' = detach \ {s}
        /\ Goto(t, "put")
  /\ UNCHANGED <<lock, current, lookupVars, attached, nest, op, fatal>>

(* tStateLookup.get, and the constructor if there is no entry *)
GetState(t) ==
  /\ fatal = "no" /\ pc[t] = "get"
  /\ \/ /\ lookup[t] # Null
        /\ hand' = [hand EXCEPT ![t] = lookup[t]]
        /\ Goto(t, "have")
        /\ UNCHANGED stateVars
     \/ /\ lookup[t] = Null
        /\ \E s \in States \ live :
             /\ hand' = [hand EXCEPT ![t] = s]
             /\ live' = live \cup {s} /\ anchored' = anchored \cup {s}
             /\ counter' = [counter EXCEPT ![s] = 1]
             /\ detach' = detach \ {s}
        /\ Goto(t, "put")
  /\ UNCHANGED <<lock, current, lookupVars, attached, nest, op, fatal>>

(* tStateLookup.put: a WeakHashMap may lose what another thread inserted   *)
(* since this one read the bucket.  Whether that thread is in native code  *)
(* or about to go there decides what follows from it.                      *)
InUse(t) == pc[t] # "run" \/ nest[t] # <<>>

PutState(t) ==
  /\ fatal = "no" /\ pc[t] = "put"
  /\ \E Lost \in SUBSET missed[t] :
       /\ lookup' = [u \in Threads |-> IF u = t THEN hand[t]
                                       ELSE IF u \in Lost THEN Null ELSE lookup[u]]
       /\ lost' = (lost \/ \E u \in Lost : lookup[u] # Null /\ InUse(u))
  /\ missed' = [u \in Threads |-> IF pc[u] = "put" /\ u # t THEN missed[u] \cup {t} ELSE {}]
  /\ Goto(t, "have")
  /\ UNCHANGED <<lock, current, stateVars, attached, nest, op, hand, fatal>>

(* The weak key of a thread that has ended is removed. *)
ThreadEnds(t) ==
  /\ Running(t) /\ nest[t] = <<>> /\ t \notin attached
  /\ lookup[t] # Null
  /\ lookup' = [lookup EXCEPT ![t] = Null]
  /\ UNCHANGED <<lock, current, missed, lost, stateVars, attached, threadVars, fatal>>

(* Mutant: the JyTState keeps its handle and clears it once more later. *)
FinalizeAgain(s) ==
  /\ fatal = "no"
  /\ s \in anchored
  /\ \A t \in Threads : lookup[t] # s /\ ~(pc[t] = "put" /\ hand[t] = s)
  /\ anchored' = anchored
  /\ counter' = [counter EXCEPT ![s] = @ - 1]
  /\ live' = IF counter[s] = 1 THEN live \ {s} ELSE live
  /\ UNCHANGED <<lock, current, lookupVars, detach, attached, threadVars, fatal>>

(* JyTState.finalize, when the map no longer holds the JyTState *)
Finalize(s) ==
  /\ fatal = "no"
  /\ s \in anchored
  /\ \A t \in Threads : lookup[t] # s /\ ~(pc[t] = "put" /\ hand[t] = s)
  /\ anchored' = anchored \ {s}
  /\ counter' = [counter EXCEPT ![s] = @ - 1]
  /\ live' = IF counter[s] = 1 THEN live \ {s} ELSE live
  /\ UNCHANGED <<lock, current, lookupVars, detach, attached, threadVars, fatal>>

-----------------------------------------------------------------------------
(* Calls from Java into native code *)

(* The Java side prepares the thread state; o says which macro the         *)
(* function begins with.                                                   *)
CallNative(t, o) ==
  /\ Running(t) /\ Roomy(t) /\ o \in {"enter", "reenter"}
  /\ Top(t) \in {"none", "allowed", "java"}
  /\ Top(t) = "none" => t \notin Natives
  /\ Begin(t, o) /\ Goto(t, "get")
  /\ UNCHANGED <<lock, current, lookupVars, stateVars, attached, nest, hand, fatal>>

(* Mutant: whoever's state is current counts as the thread's own. *)
ReEnterAnyones(t) ==
  /\ fatal = "no" /\ pc[t] = "have" /\ op[t] = "reenter"
  /\ IF current # Null
     THEN Push(t, "reentered", hand[t]) /\ Goto(t, "run") /\ UNCHANGED op
     ELSE Begin(t, "enter") /\ UNCHANGED <<nest, pc>>
  /\ UNCHANGED <<lock, current, lookupVars, stateVars, attached, hand, fatal>>

(* RE_ENTER_JyNI looks at the current state without holding the lock. *)
ReEnter(t) ==
  /\ fatal = "no" /\ pc[t] = "have" /\ op[t] = "reenter"
  /\ IF current = hand[t]
     THEN Push(t, "reentered", hand[t]) /\ Goto(t, "run") /\ UNCHANGED op
     ELSE Begin(t, "enter") /\ UNCHANGED <<nest, pc>>
  /\ UNCHANGED <<lock, current, lookupVars, stateVars, attached, hand, fatal>>

Enter(t) ==
  /\ fatal = "no" /\ pc[t] = "have" /\ op[t] = "enter"
  /\ Goto(t, "acquire")
  /\ UNCHANGED <<lock, current, lookupVars, stateVars, attached, nest, op, hand, fatal>>

(* JyLock.acquire *)
Acquire(t) ==
  /\ fatal = "no" /\ pc[t] = "acquire" /\ ~lock
  /\ lock' = TRUE /\ Goto(t, "got")
  /\ UNCHANGED <<current, lookupVars, stateVars, attached, nest, op, hand, fatal>>

Entered(t) ==
  /\ fatal = "no" /\ pc[t] = "got" /\ op[t] = "enter"
  /\ IF current # Null THEN Die("overwriting")
     ELSE /\ current' = hand[t] /\ Push(t, "entered", hand[t]) /\ Goto(t, "run")
          /\ UNCHANGED <<lock, lookupVars, stateVars, attached, op, hand, fatal>>

(* Mutant: the current thread state is left behind. *)
LeaveCurrent(t) ==
  /\ Running(t) /\ Top(t) \in {"entered", "reentered"}
  /\ Pop(t)
  /\ Goto(t, IF Top(t) = "entered" THEN "unlock" ELSE "run")
  /\ UNCHANGED <<current, lock, lookupVars, stateVars, attached, op, hand, fatal>>

(* LEAVE_JyNI, RE_LEAVE_JyNI *)
Leave(t) ==
  /\ Running(t) /\ Top(t) \in {"entered", "reentered"}
  /\ Pop(t)
  /\ IF Top(t) = "entered" THEN current' = Null /\ Goto(t, "unlock")
     ELSE UNCHANGED current /\ Goto(t, "run")
  /\ UNCHANGED <<lock, lookupVars, stateVars, attached, op, hand, fatal>>

(* JyLock.release *)
Unlock(t) ==
  /\ fatal = "no" /\ pc[t] = "unlock"
  /\ lock' = FALSE /\ Goto(t, "run")
  /\ UNCHANGED <<current, lookupVars, stateVars, attached, nest, op, hand, fatal>>

(* Native code calls a Java method with the lock held, which returns. *)
CallJava(t) ==
  /\ Running(t) /\ Roomy(t) /\ InNative(t)
  /\ Push(t, "java", current)
  /\ UNCHANGED <<lock, current, lookupVars, stateVars, attached, pc, op, hand, fatal>>

JavaReturns(t) ==
  /\ Running(t) /\ Top(t) = "java"
  /\ Pop(t)
  /\ UNCHANGED <<lock, current, lookupVars, stateVars, attached, pc, op, hand, fatal>>

-----------------------------------------------------------------------------
(* Py_BEGIN_ALLOW_THREADS, Py_END_ALLOW_THREADS *)

(* Extension code, or the tp_dealloc of a peer that clearPyCPeer released. *)
SaveThread(t) ==
  /\ Running(t) /\ Roomy(t) /\ (InNative(t) \/ Top(t) = "peer")
  /\ IF current = Null THEN Die("nullState")
     ELSE /\ Push(t, "allowed", current) /\ current' = Null /\ Goto(t, "unlock")
          /\ UNCHANGED <<lock, lookupVars, stateVars, attached, op, hand, fatal>>

(* Mutant: the thread state is put back before the lock is taken. *)
RestoreThreadEarly(t) ==
  /\ Running(t) /\ Top(t) = "allowed"
  /\ Begin(t, "restore") /\ Goto(t, "acquire")
  /\ current' = nest[t][Len(nest[t])].ts
  /\ UNCHANGED <<lock, lookupVars, stateVars, attached, nest, hand, fatal>>

RestoreThread(t) ==
  /\ Running(t) /\ Top(t) = "allowed"
  /\ Begin(t, "restore") /\ Goto(t, "acquire")
  /\ UNCHANGED <<lock, current, lookupVars, stateVars, attached, nest, hand, fatal>>

(* Mutant: the lock is taken again, the thread state is not put back. *)
RestoredLockOnly(t) ==
  /\ fatal = "no" /\ pc[t] = "got" /\ op[t] = "restore"
  /\ current' = current
  /\ Pop(t) /\ Goto(t, "run")
  /\ UNCHANGED <<lock, lookupVars, stateVars, attached, op, hand, fatal>>

Restored(t) ==
  /\ fatal = "no" /\ pc[t] = "got" /\ op[t] = "restore"
  /\ current' = nest[t][Len(nest[t])].ts
  /\ Pop(t) /\ Goto(t, "run")
  /\ UNCHANGED <<lock, lookupVars, stateVars, attached, op, hand, fatal>>

-----------------------------------------------------------------------------
(* PyGILState_Ensure, PyGILState_Release *)

(* A native thread gets attached to the JVM here. *)
Ensure(t) ==
  /\ Running(t) /\ Roomy(t)
  /\ InNative(t) \/ Top(t) = "allowed" \/ (Top(t) = "none" /\ t \in Natives)
  /\ Begin(t, "ensure") /\ Goto(t, "get")
  /\ UNCHANGED <<lock, current, lookupVars, stateVars, attached, nest, hand, fatal>>

(* What the first GetEnv said, before this thread was attached, goes into  *)
(* the thread state; then PyThreadState_IsCurrent.                         *)
Ensured(t) ==
  /\ fatal = "no" /\ pc[t] = "have" /\ op[t] = "ensure"
  /\ detach' = IF t \in Natives \ attached THEN detach \cup {hand[t]} ELSE detach \ {hand[t]}
  /\ attached' = attached \cup ({t} \cap Natives)
  /\ IF current = hand[t]
     THEN /\ counter' = [counter EXCEPT ![hand[t]] = @ + 1]
          /\ Push(t, "ensuredLocked", hand[t]) /\ Goto(t, "run")
     ELSE /\ Goto(t, "acquire")
          /\ UNCHANGED <<counter, nest>>
  /\ UNCHANGED <<lock, current, lookupVars, live, anchored, op, hand, fatal>>

(* The end of RestoreThread and of Ensure. *)
EnsuredUnlocked(t) ==
  /\ fatal = "no" /\ pc[t] = "got" /\ op[t] = "ensure"
  /\ current' = hand[t]
  /\ counter' = [counter EXCEPT ![hand[t]] = @ + 1]
  /\ Push(t, "ensured", hand[t]) /\ Goto(t, "run")
  /\ UNCHANGED <<lock, lookupVars, live, anchored, detach, attached, op, hand, fatal>>

Release(t) ==
  /\ Running(t) /\ Top(t) \in {"ensured", "ensuredLocked"}
  /\ Begin(t, "release") /\ Goto(t, "get")
  /\ UNCHANGED <<lock, current, lookupVars, stateVars, attached, nest, hand, fatal>>

(* Mutant: releasing what was locked before has nothing to do. *)
ReleasedUnlockedOnly(t) ==
  /\ fatal = "no" /\ pc[t] = "have" /\ op[t] = "release"
  /\ Pop(t)
  /\ IF Top(t) = "ensured"
     THEN /\ counter' = [counter EXCEPT ![hand[t]] = @ - 1]
          /\ current' = Null /\ Goto(t, "unlock")
     ELSE UNCHANGED <<counter, current>> /\ Goto(t, "run")
  /\ UNCHANGED <<lock, lookupVars, live, anchored, detach, attached, op, hand, fatal>>

Released(t) ==
  /\ fatal = "no" /\ pc[t] = "have" /\ op[t] = "release"
  /\ IF counter[hand[t]] = 0 THEN Die("noState")
     ELSE IF current # hand[t] THEN Die("notCurrent")
     ELSE LET last == counter[hand[t]] = 1 IN
          /\ counter' = [counter EXCEPT ![hand[t]] = @ - 1]
          /\ live'     = IF last THEN live \ {hand[t]} ELSE live
          /\ anchored' = IF last THEN anchored \ {hand[t]} ELSE anchored
          /\ attached' = IF last /\ hand[t] \in detach THEN attached \ {t} ELSE attached
          /\ Pop(t)
          /\ IF last \/ Top(t) = "ensured"
             THEN current' = Null /\ Goto(t, "unlock")
             ELSE UNCHANGED current /\ Goto(t, "run")
          /\ UNCHANGED <<lock, lookupVars, detach, op, hand, fatal>>

-----------------------------------------------------------------------------
(* JyNI_clearPyCPeer, from the finalizer of a peer: no thread state is set *)

ClearPyCPeer(t) ==
  /\ Running(t) /\ Roomy(t) /\ nest[t] = <<>> /\ t \notin Natives
  /\ Begin(t, "peer") /\ Goto(t, "acquire")
  /\ UNCHANGED <<lock, current, lookupVars, stateVars, attached, nest, hand, fatal>>

PeerDecref(t) ==
  /\ fatal = "no" /\ pc[t] = "got" /\ op[t] = "peer"
  /\ Push(t, "peer", Null) /\ Goto(t, "run")
  /\ UNCHANGED <<lock, current, lookupVars, stateVars, attached, op, hand, fatal>>

PeerCleared(t) ==
  /\ Running(t) /\ Top(t) = "peer"
  /\ Pop(t) /\ Goto(t, "unlock")
  /\ UNCHANGED <<lock, current, lookupVars, stateVars, attached, op, hand, fatal>>

-----------------------------------------------------------------------------

Step(t) ==
  \/ GetState(t) \/ PutState(t) \/ ThreadEnds(t)
  \/ ReEnter(t) \/ Enter(t) \/ Acquire(t) \/ Entered(t) \/ Leave(t) \/ Unlock(t)
  \/ CallJava(t) \/ JavaReturns(t)
  \/ SaveThread(t) \/ RestoreThread(t) \/ Restored(t)
  \/ Ensure(t) \/ Ensured(t) \/ EnsuredUnlocked(t) \/ Release(t) \/ Released(t)
  \/ ClearPyCPeer(t) \/ PeerDecref(t) \/ PeerCleared(t)
  \/ \E o \in {"enter", "reenter"} : CallNative(t, o)

Next == (\E t \in Threads : Step(t)) \/ \E s \in States : Finalize(s)

Spec == Init /\ [][Next]_vars

-----------------------------------------------------------------------------
(* Properties *)

(* The thread's frames, or what it is about to do, say it has the lock. *)
Holds(t) == pc[t] \in {"got", "unlock"} \/ Top(t) \in HasGil

(* What follows holds as long as no thread in native code has lost its     *)
(* entry in tStateLookup; a thread that has lost it elsewhere merely gets  *)
(* another thread state.                                                   *)

(* At most one thread runs native code, although neither the lock nor      *)
(* RE_ENTER_JyNI checks for an owner: what is locked has one holder.       *)
OneHolder ==
  /\ \A t, u \in Threads : Holds(t) /\ Holds(u) => t = u
  /\ lock = \E t \in Threads : Holds(t)

OneThreadInNative == lost \/ OneHolder

(* Extension code finds its own thread's state current, not the one of a   *)
(* thread that ran in between; so does Java code it calls back.            *)
OwnStateCurrent ==
  lost \/ \A t \in Threads :
    pc[t] # "unlock" /\ Top(t) \in HasGil \ {"peer"} =>
      current # Null /\ current = nest[t][Len(nest[t])].ts

(* The fatal error of ENTER_JyNI never happens, nor those of Release.      *)
NoSwapError == fatal \notin {"overwriting", "notCurrent", "noState"}
NoFatalSwap == lost \/ NoSwapError

(* A thread state's counter is one for Java's anchor and one for every     *)
(* PyGILState_Ensure that has not been released.                           *)
Ensures(s) ==
  {f \in Threads \X (1..MaxDepth) :
     /\ f[2] \in DOMAIN nest[f[1]]
     /\ nest[f[1]][f[2]].kind \in {"ensured", "ensuredLocked"}
     /\ nest[f[1]][f[2]].ts = s}

CountersAgree ==
  \A s \in live : counter[s] = Cardinality(Ensures(s)) + IF s \in anchored THEN 1 ELSE 0

CountersExact == lost \/ CountersAgree

(* No thread works with a thread state that was freed: "each ThreadState   *)
(* keeping alive the corresponding JyTState".                              *)
StatesKeptAlive ==
  lost \/
  /\ current \in live \cup {Null}
  /\ \A t \in Threads :
       /\ pc[t] \in {"have", "acquire", "got"} /\ op[t] \in {"enter", "reenter", "ensure", "release"}
            => hand[t] \in live
       /\ \A i \in DOMAIN nest[t] : nest[t][i].ts \in live \cup {Null}

holder == IF \E t \in Threads : Holds(t) THEN CHOOSE t \in Threads : Holds(t) ELSE Null

Owned == INSTANCE OwnedLock

(* JyLock knows no owner, and RE_ENTER_JyNI does not ask for the lock; yet *)
(* the protocol around them makes it a lock with an owner, who alone       *)
(* changes the current thread state and leaves none behind, until a thread *)
(* in native code loses its entry.                                         *)
ImplementsOwnedLock == Owned!Init /\ [][lost' \/ Owned!Next]_Owned!vars
=============================================================================
