--------------------------- MODULE ExplorationStack ---------------------------
(***************************************************************************)
(* The exploration stack of gcmodule.c.  A container that is tracked, and  *)
(* a CStub whose Java part is initialized, is pushed; when native code     *)
(* returns to Java (LEAVE_JyNI, RE_LEAVE_JyNI), JyNI_GC_Explore pops the   *)
(* stack until it is empty and gives every unexplored object its JyGCHead. *)
(*                                                                         *)
(* The stack "explicitly does *not* incref or decref": an object may die   *)
(* while it is on it.  It consists of a static block, base, and of         *)
(* malloc'ed overflow blocks, next, the newest first; pushExStack fills    *)
(* base first, popExStack empties the overflow blocks first.               *)
(* All of this runs under the GIL: one thread.                             *)
(***************************************************************************)
EXTENDS Integers, Sequences

CONSTANTS
  GcObjs,    \* addresses of PyObject_IS_GC objects
  CStubs,    \* addresses of pure CStubs, e.g. dicts: no PyGC_Head
  BlockSize, \* EX_STACK_BLOCK_SIZE
  MaxBlocks  \* bound: overflow blocks; emptied ones may pile up

Objs == GcObjs \cup CStubs

ASSUME StackAssumption ==
  /\ GcObjs \cap CStubs = {}
  /\ BlockSize \in Nat \ {0}
  /\ MaxBlocks \in Nat

VARIABLES
  base,    \* explorationStack.stack, up to its position
  next,    \* the overflow blocks
  refs,    \* gc_refs of the GC objects, or free
  stub,    \* of every CStub: free, fresh (no Java part yet) or initialized
  headed,  \* objects whose JyGCHead holds a reference to them
  pc,      \* who runs: java, native code, or the loop of JyNI_GC_Explore
  fault    \* the way the program went wrong

stackVars == <<base, next>>
objVars   == <<refs, stub, headed>>
vars      == <<stackVars, objVars, pc, fault>>

Blocks == Seq(Objs)

TypeOK ==
  /\ base \in Blocks /\ Len(base) <= BlockSize
  /\ next \in Seq(Blocks) /\ \A k \in DOMAIN next : Len(next[k]) <= BlockSize
  /\ refs \in [GcObjs -> {"free", "untracked", "reachable", "explored"}]
  /\ stub \in [CStubs -> {"free", "fresh", "initialized"}]
  /\ headed \subseteq Objs
  /\ pc \in {"java", "native", "explore"}
  /\ fault \in {"none", "popped garbage", "explored freed memory"}

Init ==
  /\ base = <<>> /\ next = <<>>
  /\ refs = [o \in GcObjs |-> "free"] /\ stub = [o \in CStubs |-> "free"]
  /\ headed = {}
  /\ pc = "java" /\ fault = "none"

Allocated ==
  {o \in GcObjs : refs[o] # "free"} \cup {o \in CStubs : stub[o] # "free"}

(* IS_UNEXPLORED: of the CStubs nothing is remembered. *)
Unexplored(o) == o \in GcObjs => refs[o] \in {"untracked", "reachable"}

-----------------------------------------------------------------------------
(* The stack *)

(* Mutant: a full base block is not noticed. *)
PushBeyond(o) == base' = Append(base, o) /\ UNCHANGED next

pushExStack(o) ==
  IF Len(base) < BlockSize
  THEN base' = Append(base, o) /\ UNCHANGED next
  ELSE /\ UNCHANGED base
       /\ IF next # <<>> /\ Len(Head(next)) < BlockSize
          THEN next' = [next EXCEPT ![1] = Append(@, o)]
          ELSE Len(next) < MaxBlocks /\ next' = <<<<o>>>> \o next

(* Mutant: overflow blocks do not count. *)
BaseIsEmpty == base = <<>>

isExStackEmpty == next = <<>> /\ base = <<>>

(* An overflow block that removeObjectExStack has emptied is still there:  *)
(* popExStack then reads below the block's array.                          *)
PopsGarbage == next # <<>> /\ Head(next) = <<>>

TopBlock == IF next # <<>> THEN Head(next) ELSE base
Top      == TopBlock[Len(TopBlock)]

Shortened(block) == SubSeq(block, 1, Len(block) - 1)

popExStack ==
  IF next = <<>> THEN base' = Shortened(base) /\ UNCHANGED next
  ELSE /\ UNCHANGED base
       /\ next' = IF Len(Head(next)) > 1 THEN [next EXCEPT ![1] = Shortened(@)]
                                         ELSE Tail(next)

(* Mutant: the block shrinks, but the last element does not fill the gap. *)
WithoutLast(block, o) ==
  IF \E i \in DOMAIN block : block[i] = o THEN Shortened(block) ELSE block

(* The last element takes the place of the one at i. *)
FillGap(block, i) ==
  [j \in 1..(Len(block) - 1) |-> IF j = i THEN block[Len(block)] ELSE block[j]]

(* From the top down, every o is replaced so. *)
Without(block, o) ==
  LET after[n \in 0..Len(block)] ==  \* n positions examined
        IF n = 0 THEN block
        ELSE LET i == Len(block) - n + 1
             IN  IF after[n - 1][i] = o THEN FillGap(after[n - 1], i) ELSE after[n - 1]
  IN  after[Len(block)]

removeObjectExStack(o) ==
  /\ base' = Without(base, o)
  /\ next' = [k \in DOMAIN next |-> Without(next[k], o)]

Occurrences(block, o) == {i \in DOMAIN block : block[i] = o}
OnStack(o) == \/ Occurrences(base, o) # {}
              \/ \E k \in DOMAIN next : Occurrences(next[k], o) # {}

-----------------------------------------------------------------------------
(* Native code *)

Running(where) == pc = where /\ fault = "none"

EnterNative ==
  /\ Running("java") /\ pc' = "native"
  /\ UNCHANGED <<stackVars, objVars, fault>>

GCMalloc(o) ==
  /\ Running("native") /\ refs[o] = "free"
  /\ refs' = [refs EXCEPT ![o] = "untracked"]
  /\ UNCHANGED <<stackVars, stub, headed, pc, fault>>

GCTrack(o) ==
  /\ Running("native") /\ refs[o] = "untracked"
  /\ refs' = [refs EXCEPT ![o] = "reachable"]
  /\ pushExStack(o)
  /\ UNCHANGED <<stub, headed, pc, fault>>

(* Mutant: only an unexplored object is removed, as the code once did. *)
GCUnTrackLazily(o) ==
  /\ Running("native") /\ refs[o] \in {"reachable", "explored"}
  /\ refs' = [refs EXCEPT ![o] = "untracked"]
  /\ IF refs[o] = "reachable" THEN removeObjectExStack(o) ELSE UNCHANGED stackVars
  /\ UNCHANGED <<stub, headed, pc, fault>>

GCUnTrack(o) ==
  /\ Running("native") /\ refs[o] \in {"reachable", "explored"}
  /\ refs' = [refs EXCEPT ![o] = "untracked"]
  /\ removeObjectExStack(o)
  /\ UNCHANGED <<stub, headed, pc, fault>>

(* Every tp_dealloc untracks first; a head's reference keeps the object. *)
GCDel(o) ==
  /\ Running("native") /\ refs[o] = "untracked" /\ o \notin headed
  /\ refs' = [refs EXCEPT ![o] = "free"]
  /\ UNCHANGED <<stackVars, stub, headed, pc, fault>>

NewCStub(o) ==
  /\ Running("native") /\ stub[o] = "free"
  /\ stub' = [stub EXCEPT ![o] = "fresh"]
  /\ UNCHANGED <<stackVars, refs, headed, pc, fault>>

(* JyNI_InitJythonPyObject: push, unless JyNI_GC_EnsureHeadObject finds a  *)
(* head.  Exploring a container may convert its elements on the way.       *)
InitJythonPyObject(o) ==
  /\ Running("native") \/ Running("explore")
  /\ stub[o] = "fresh"
  /\ stub' = [stub EXCEPT ![o] = "initialized"]
  /\ IF o \in headed THEN UNCHANGED stackVars ELSE pushExStack(o)
  /\ UNCHANGED <<refs, headed, pc, fault>>

(* tp_dealloc of a CStub, e.g. dict_dealloc *)
CStubDealloc(o) ==
  /\ Running("native") /\ stub[o] # "free" /\ o \notin headed
  /\ stub' = [stub EXCEPT ![o] = "free"]
  /\ UNCHANGED <<stackVars, refs, headed, pc, fault>>

(* JyGC_clearNativeReferences drops the reference of a dead head. *)
ReleaseHead(o) ==
  /\ Running("native") /\ o \in headed
  /\ headed' = headed \ {o}
  /\ UNCHANGED <<stackVars, refs, stub, pc, fault>>

(* JyNI_GC_ExploreObject: what it refers to, R, gets heads on the way. *)
ExploreObject(o, R) ==
  IF o \in GcObjs
  THEN /\ refs' = [refs EXCEPT ![o] = "explored"]
       /\ headed' = headed \cup {o} \cup R
  ELSE headed' = headed \cup {o} /\ UNCHANGED refs

(* Called outside the loop when a list or tuple is handed to Java. *)
ExploreEarly(o, R) ==
  /\ Running("native") /\ refs[o] = "reachable"
  /\ ExploreObject(o, R)
  /\ UNCHANGED <<stackVars, stub, pc, fault>>

-----------------------------------------------------------------------------
(* JyNI_GC_Explore *)

StartExplore ==
  /\ Running("native") /\ pc' = "explore"
  /\ UNCHANGED <<stackVars, objVars, fault>>

ExplorePop(R) ==
  /\ Running("explore") /\ ~isExStackEmpty /\ ~PopsGarbage
  /\ Top \in Allocated
  /\ popExStack
  /\ IF Unexplored(Top) THEN ExploreObject(Top, R) ELSE UNCHANGED <<refs, headed>>
  /\ UNCHANGED <<stub, pc, fault>>

(* From here on the behaviour of the program is undefined. *)
ExploreFreed ==
  /\ Running("explore") /\ ~isExStackEmpty /\ ~PopsGarbage
  /\ Top \notin Allocated
  /\ popExStack
  /\ fault' = "explored freed memory"
  /\ UNCHANGED <<objVars, pc>>

ExploreGarbage ==
  /\ Running("explore") /\ PopsGarbage
  /\ next' = Tail(next)
  /\ fault' = "popped garbage"
  /\ UNCHANGED <<base, objVars, pc>>

(* LEAVE_JyNI returns to Java, RE_LEAVE_JyNI to an outer native frame. *)
ExploreDone ==
  /\ Running("explore") /\ isExStackEmpty
  /\ pc' \in {"java", "native"}
  /\ UNCHANGED <<stackVars, objVars, fault>>

-----------------------------------------------------------------------------

Next ==
  \/ EnterNative \/ StartExplore \/ ExploreFreed \/ ExploreGarbage \/ ExploreDone
  \/ \E o \in GcObjs : GCMalloc(o) \/ GCTrack(o) \/ GCUnTrack(o) \/ GCDel(o)
  \/ \E o \in CStubs : NewCStub(o) \/ InitJythonPyObject(o) \/ CStubDealloc(o)
  \/ \E o \in Objs : ReleaseHead(o)
  \/ \E R \in SUBSET Allocated : \/ ExplorePop(R)
                                 \/ \E o \in GcObjs : ExploreEarly(o, R)

Spec == Init /\ [][Next]_vars

-----------------------------------------------------------------------------
(* Properties *)

(* A container is never on the stack once it is untracked, so never when   *)
(* it is deallocated; and one that still has to be explored always is.     *)
StackTracksObjects ==
  \A o \in GcObjs :
    /\ OnStack(o) => refs[o] \in {"reachable", "explored"}
    /\ refs[o] = "reachable" => OnStack(o)

(* No step loses an entry: whatever leaves the stack was untracked, or    *)
(* popped to be explored, by that very step, however the blocks were       *)
(* rearranged.                                                             *)
Untracked(o) == o \in GcObjs /\ refs[o] # "untracked" /\ refs'[o] = "untracked"
Popped(o)    == pc = "explore" /\ ~PopsGarbage /\ popExStack /\ o = Top

NoEntryIsLost ==
  [][\A o \in Objs : OnStack(o) /\ ~OnStack(o)' => Untracked(o) \/ Popped(o)]_vars

(* When control is back in Java the stack is empty, and every tracked      *)
(* container has been explored.                                            *)
NothingLeftUnexplored ==
  pc = "java" => isExStackEmpty /\ \A o \in GcObjs : refs[o] # "reachable"

(* gcmodule.c on PyObject_GC_UnTrack: "We must remove the object from      *)
(* exStack in any case", so Explore only ever takes what was pushed.       *)
PopsOnlyPushed == fault # "popped garbage"
=============================================================================
