------------------------------ MODULE HeadLinks ------------------------------
(***************************************************************************)
(* The links of a JyGCHead (DefaultTraversableGCHead.java, used by JyList  *)
(* and PyCPeerGC, too), their maintenance by the native operations         *)
(* (gcmodule.c, listobject.c, cellobject.c, structmember.c) and their      *)
(* validation before a cycle of delayed finalizations                      *)
(* (preProcessCStubGCCycle).                                               *)
(*                                                                         *)
(* The containers are those JyNI calls critical: their references may      *)
(* change without notice through PyList_SET_ITEM, PyCell_SET or a write to *)
(* a field of an extension's object.  A link is named by the item its head *)
(* belongs to.  A list or cell operation holds the GIL and is one step,    *)
(* except that PyList_SetItem gives up the old item, whose destructor may  *)
(* use the list, before it updates the link.  Validation of one container  *)
(* is one step, too; native operations come in between two of them.        *)
(*                                                                         *)
(* The head of a list is a JyList: a java.util.List, of the items of the   *)
(* native list.  Most operations on links test for a list before they test *)
(* for a head, so when such a head is the only link of a cell or a peer    *)
(* they take the items of that list for the links.                         *)
(***************************************************************************)
EXTENDS Integers, Sequences, FiniteSets, SequencesExt

CONSTANTS
  Containers, Items,
  NoItem,     \* NULL, or a null link
  MaxLen,     \* bound: items of a list; also the number of fields of a peer
  MaxLinks,   \* bound: links of a list
  Kinds,      \* the mixes of lists, cells and peers looked at
  OwnHeads    \* items that are not containers and whose Java object is their head

ASSUME LinksAssumption ==
  /\ NoItem \notin Items
  /\ MaxLen \in Nat \ {0} /\ MaxLinks \in Nat /\ MaxLinks > MaxLen
  /\ Kinds \subseteq [Containers -> {"list", "cell", "peer"}]
  /\ OwnHeads \subseteq Items \ Containers

VARIABLES
  kind,      \* "list", "cell" or "peer" (of a type that is not builtin)
  items,     \* the slots of a container
  explored,  \* GC_EXPLORED
  links,     \* the links of its head
  told,      \* since the links were last complete every change was followed by an update,
             \* and the destructor of an item PyList_SetItem replaced did not use the list
  pending,   \* a PyList_SetItem between the write and its update
  busy, left, delayFinalization,  \* preProcessCStubGCCycle
  forced     \* FORCE_DELAYED_FINALIZATION

heap  == <<kind, items, explored, links, told, pending>>
cycle == <<busy, left, delayFinalization, forced>>
vars  == <<heap, cycle>>

Slots   == Items \cup {NoItem}
NoWrite == [index |-> 0, item |-> NoItem]

(* What tp_traverse visits, in order. *)
Visited(s) ==
  LET seen[n \in 0..Len(s)] ==
        IF n = 0 THEN <<>>
        ELSE IF s[n] = NoItem THEN seen[n - 1] ELSE Append(seen[n - 1], s[n])
  IN seen[Len(s)]

-----------------------------------------------------------------------------
(* The links: nothing, a single link, an array or a list. *)

NoLinks   == [rep |-> "none", at |-> <<>>]
Single(x) == [rep |-> "single", at |-> <<x>>]
Array(s)  == [rep |-> "array", at |-> s]
List(s)   == [rep |-> "list", at |-> s]

Blanks(n)    == [j \in 1..n |-> NoItem]
Padded(s, n) == s \o Blanks(n - Len(s))

(* setLink does not return -1. *)
Fits(k, index) ==
  CASE k.rep = "list"  -> TRUE
    [] k.rep = "array" -> index < Len(k.at)
    [] OTHER           -> index = 0

setLink(k, index, x) ==
  CASE k.rep = "list"  -> List([Padded(k.at, index + 1) EXCEPT ![index + 1] = x])
    [] k.rep = "array" -> Array([k.at EXCEPT ![index + 1] = x])
    [] OTHER           -> Single(x)

(* Mutant: the link takes the place of the one there. *)
insertLinkOver(k, index, x) == List([Padded(k.at, index + 1) EXCEPT ![index + 1] = x])

(* Of lists only: other heads throw UnsupportedOperationException. *)
insertLink(k, index, x) == List(InsertAt(k.at, index + 1, x))

(* Mutant: one place too many. *)
ensureSizeBeyond(k, size) ==
  IF k.rep = "list" THEN List(Padded(k.at, size)) ELSE Array(Padded(k.at, size + 1))

ensureSize(k, size) ==
  CASE k.rep = "list" -> List(Padded(k.at, size))
    [] k.rep = "array" \/ (k.rep # "list" /\ size > 1) -> Array(Padded(k.at, size))
    [] OTHER -> IF size = 1 THEN k ELSE NoLinks

(* A single link stays: only the parameter of the static helper is set to  *)
(* null (clearLink has the same flaw).  What happens to a list it leads to *)
(* is in CutFrom below.                                                    *)
clearLinksFromIndex(k, startIndex) ==
  CASE startIndex < Len(k.at) /\ k.rep = "list"  -> List(SubSeq(k.at, 1, startIndex))
    [] startIndex < Len(k.at) /\ k.rep = "array" ->
         Array([j \in DOMAIN k.at |-> IF j <= startIndex THEN k.at[j] ELSE NoItem])
    [] OTHER -> k

visit_updateLinks(k, index, x, size) ==
  IF Fits(k, index) THEN setLink(k, index, x) ELSE setLink(ensureSize(k, size), index, x)

updateJyGCHeadLinks(k, s) ==
  LET v == Visited(s)
      after[n \in 0..Len(v)] ==
        IF n = 0 THEN k ELSE visit_updateLinks(after[n - 1], n - 1, v[n], Len(v))
  IN clearLinksFromIndex(after[Len(v)], Len(v))

exploreJyGCHeadLinks(type, s) ==
  LET v == Visited(s) IN
  CASE type = "list" -> List(v)
    [] type # "list" /\ Len(v) = 1 -> Single(v[1])
    [] type = "cell" /\ Len(v) = 0 -> NoLinks
    [] OTHER -> Array(v)

-----------------------------------------------------------------------------
Init ==
  /\ kind \in Kinds
  /\ \E size \in [Containers -> 0..MaxLen] :
       /\ \A c \in Containers : (kind[c] = "cell" => size[c] = 1) /\ (kind[c] = "peer" => size[c] = MaxLen)
       /\ items = [c \in Containers |-> Blanks(size[c])]
  /\ explored = [c \in Containers |-> FALSE]
  /\ links = [c \in Containers |-> NoLinks]
  /\ told = [c \in Containers |-> TRUE]
  /\ pending = [c \in Containers |-> NoWrite]
  /\ busy = FALSE /\ left = {} /\ delayFinalization = FALSE /\ forced = FALSE

Write(c, s) == items' = [items EXCEPT ![c] = s]

(* Updates of an unexplored object do nothing. *)
Update(c, k) == links' = [links EXCEPT ![c] = IF explored[c] THEN k ELSE @]

(* Exploration and updates of all links skip empty slots, so the links of  *)
(* a list with such slots do not have its indices.                         *)
Dense(c, s) == kind[c] = "list" => NoItem \notin Range(s)

Undisturbed(c) == pending[c] = NoWrite

Complete(c, s) == told' = [told EXCEPT ![c] = Undisturbed(c) /\ Dense(c, s)]
Follows(c)     == told' = [told EXCEPT ![c] = @ /\ Undisturbed(c)]
Silent(c)      == told' = [told EXCEPT ![c] = ~explored[c] /\ Undisturbed(c)]

-----------------------------------------------------------------------------
(* A single link that is a list *)

(* The list whose items are taken for links. *)
TakenForLinks(k) == {x \in Containers : kind[x] = "list" /\ k = Single(x)}

(* The lists cut by clearLinksFromIndex(k, n) and clearLink(k, 0), with    *)
(* what is left of them.                                                   *)
CutFrom(k, n) == [x \in {x \in TakenForLinks(k) : n < Len(items[x])} |-> SubSeq(items[x], 1, n)]
CutFirst(k)   == [x \in {x \in TakenForLinks(k) : items[x] # <<>>} |-> Tail(items[x])]

(* Items are removed one by one (JyList_remove), each time with an update  *)
(* of all links of the list unless nothing is left (list_clear).           *)
LinksLeft(x, s) ==
  IF explored[x] /\ Len(items[x]) > 1
    THEN updateJyGCHeadLinks(links[x], IF s = <<>> THEN SubSeq(items[x], 1, 1) ELSE s)
    ELSE links[x]

(* c gets the slots s and the links k, and the lists in the domain of cut  *)
(* lose items.                                                             *)
Change(c, s, k, t, cut) ==
  /\ items' = [o \in Containers |-> IF o = c THEN s ELSE IF o \in DOMAIN cut THEN cut[o] ELSE items[o]]
  /\ links' = [o \in Containers |->
                 IF o = c THEN k ELSE IF o \in DOMAIN cut THEN LinksLeft(o, cut[o]) ELSE links[o]]
  /\ told' = [o \in Containers |->
                IF o = c THEN t ELSE IF o \in DOMAIN cut THEN told[o] /\ Undisturbed(o) ELSE told[o]]
  /\ UNCHANGED <<kind, explored, pending>>

-----------------------------------------------------------------------------
(* PyList_SetItem writes the item, and gives up the old one ... *)
SetItem(c) ==
  /\ kind[c] = "list" /\ pending[c] = NoWrite
  /\ \E j \in DOMAIN items[c], x \in Items :
       /\ Write(c, [items[c] EXCEPT ![j] = x])
       /\ pending' = [pending EXCEPT ![c] = [index |-> j, item |-> x]]
  /\ UNCHANGED <<kind, explored, links, told, cycle>>

(* ... and updates the link after the old item's destructor. *)
SetItemUpdate(c) ==
  /\ pending[c] # NoWrite
  /\ Update(c, setLink(links[c], pending[c].index - 1, pending[c].item))
  /\ pending' = [pending EXCEPT ![c] = NoWrite]
  /\ UNCHANGED <<kind, items, explored, told, cycle>>

(* list_ass_item, JyList_set *)
AssItem(c) ==
  /\ kind[c] = "list"
  /\ \E j \in DOMAIN items[c], x \in Items :
       Write(c, [items[c] EXCEPT ![j] = x]) /\ Update(c, setLink(links[c], j - 1, x))
  /\ Follows(c)
  /\ UNCHANGED <<kind, explored, pending, cycle>>

(* The size is that of the references: too small for an index behind empty *)
(* slots, and then nothing is inserted.                                    *)
updateInsertJyGCHeadLink(k, index, x, size) ==
  LET grown == IF index <= Len(k.at) THEN k ELSE ensureSize(k, size) IN
  IF index <= Len(grown.at) THEN insertLink(grown, index, x) ELSE grown

(* ins1 *)
Insert(c) ==
  /\ kind[c] = "list" /\ Len(items[c]) < MaxLen /\ Len(links[c].at) < MaxLinks
  /\ \E where \in 0..Len(items[c]), x \in Items :
       LET s == InsertAt(items[c], where + 1, x) IN
       /\ Write(c, s)
       /\ Update(c, updateInsertJyGCHeadLink(links[c], where, x, Len(Visited(s))))
  /\ Follows(c)
  /\ UNCHANGED <<kind, explored, pending, cycle>>

(* pop() of the last item only shrinks the list. *)
PopLast(c) ==
  /\ kind[c] = "list" /\ items[c] # <<>>
  /\ Write(c, Front(items[c])) /\ Follows(c)
  /\ UNCHANGED <<kind, explored, links, pending, cycle>>

(* list_clear, whether called or because a slice assignment leaves nothing *)
Clear(c) ==
  /\ kind[c] = "list" /\ items[c] # <<>>
  /\ Write(c, <<>>) /\ Follows(c)
  /\ UNCHANGED <<kind, explored, links, pending, cycle>>

(* app1, list_ass_slice, listextend, list_inplace_repeat, sort and reverse *)
(* end with an update of all links.  Empty slots are only kept.            *)
Rewrite(c) ==
  /\ kind[c] = "list"
  /\ \E s \in SeqOf(Slots, MaxLen) \ {<<>>} :
       /\ NoItem \in Range(s) => NoItem \in Range(items[c])
       /\ Write(c, s) /\ Update(c, updateJyGCHeadLinks(links[c], s))
       /\ Complete(c, s)
  /\ UNCHANGED <<kind, explored, pending, cycle>>

(* The iterator given to listextend fails: what it yielded stays. *)
ExtendFails(c) ==
  /\ kind[c] = "list" /\ Len(items[c]) < MaxLen
  /\ \E x \in Items : Write(c, Append(items[c], x))
  /\ Silent(c)
  /\ UNCHANGED <<kind, explored, links, pending, cycle>>

(* PyList_SET_ITEM, PyCell_SET, a field written by the extension *)
StoreSilently(c) ==
  /\ \E j \in DOMAIN items[c], x \in IF kind[c] = "list" THEN Items ELSE Slots :
       Write(c, [items[c] EXCEPT ![j] = x])
  /\ Silent(c)
  /\ UNCHANGED <<kind, explored, links, pending, cycle>>

(* PyCell_Set; clearLink leaves a single link as it is. *)
CellSet(c) ==
  /\ kind[c] = "cell"
  /\ \/ \E x \in Items :
          Change(c, <<x>>, IF explored[c] THEN setLink(links[c], 0, x) ELSE links[c], TRUE, <<>>)
     \/ Change(c, <<NoItem>>, links[c], TRUE, CutFirst(links[c]))
  /\ UNCHANGED cycle

(* PyMember_SetOne of an object member *)
SetMember(c) ==
  /\ kind[c] = "peer"
  /\ \E j \in DOMAIN items[c], x \in Slots :
       LET s == [items[c] EXCEPT ![j] = x]
           k == IF explored[c] THEN updateJyGCHeadLinks(links[c], s) ELSE links[c]
       IN Change(c, s, k, TRUE, CutFrom(k, Len(Visited(s))))
  /\ UNCHANGED cycle

(* JyNI_GC_ExploreObject *)
Explore(c) ==
  /\ ~explored[c]
  /\ explored' = [explored EXCEPT ![c] = TRUE]
  /\ links' = [links EXCEPT ![c] = exploreJyGCHeadLinks(kind[c], items[c])]
  /\ told' = [told EXCEPT ![c] = (@ \/ Undisturbed(c)) /\ Dense(c, items[c])]
  /\ UNCHANGED <<kind, items, pending, cycle>>

-----------------------------------------------------------------------------
(* preProcessCStubGCCycle *)

(* Mutant: what is beyond the old links is not compared. *)
ChangesWithin(v, oldLinks) ==
  {j \in DOMAIN v : j <= Len(oldLinks) /\ v[j] # oldLinks[j]}

(* Positions at which tp_traverse visits something else than the links say. *)
Changes(v, oldLinks) == {j \in DOMAIN v : j > Len(oldLinks) \/ v[j] # oldLinks[j]}

longArrayContains(oldLinks, x) == x \in Range(oldLinks)

BeginCycle ==
  /\ ~busy /\ busy' = TRUE
  /\ forced' = FALSE /\ delayFinalization' = FALSE
  /\ left' = Containers
  /\ UNCHANGED heap

(* The items of a list taken for links are converted, and must be heads. *)
IsHead(x) == x \in OwnHeads \/ (x \in Containers /\ kind[x] = "peer")

toHandleArray(k) ==
  IF TakenForLinks(k) = {} THEN k.at ELSE items[CHOOSE x \in TakenForLinks(k) : TRUE]

Readable(k) == \A x \in TakenForLinks(k) : \A y \in Range(items[x]) \ {NoItem} : IsHead(y)

JyGC_validateGCHead(c) ==
  /\ c \in left /\ left' = left \ {c}
  /\ Readable(links[c])
  /\ LET v        == Visited(items[c])
         oldLinks == toHandleArray(links[c])
         changes  == Changes(v, oldLinks)
         k        == IF changes # {} /\ explored[c] THEN updateJyGCHeadLinks(links[c], items[c])
                                                    ELSE links[c]
         complete == (changes # {} \/ TakenForLinks(links[c]) = {}) /\ Dense(c, items[c])
     IN /\ delayFinalization' =
             ((\E j \in changes : ~longArrayContains(oldLinks, v[j])) \/ delayFinalization)
        /\ Change(c, items[c], k, told[c] \/ (complete /\ Undisturbed(c)),
                  IF changes = {} THEN <<>> ELSE CutFrom(k, Len(v)))
  /\ UNCHANGED <<busy, forced>>

(* toHandleArray throws a ClassCastException, which ends the whole process. *)
NotReadable(c) ==
  /\ c \in left /\ ~Readable(links[c])
  /\ left' = {} /\ busy' = FALSE /\ delayFinalization' = FALSE
  /\ UNCHANGED <<heap, forced>>

(* No head, or none any more. *)
WithoutHead(c) ==
  /\ c \in left /\ left' = left \ {c}
  /\ ~explored[c]
  /\ UNCHANGED <<heap, busy, delayFinalization, forced>>

EndCycle ==
  /\ busy /\ left = {} /\ busy' = FALSE
  /\ forced' = delayFinalization /\ delayFinalization' = FALSE
  /\ UNCHANGED <<heap, left>>

Next ==
  \/ \E c \in Containers :
       \/ SetItem(c) \/ SetItemUpdate(c) \/ AssItem(c) \/ Insert(c) \/ PopLast(c) \/ Clear(c)
       \/ Rewrite(c) \/ ExtendFails(c) \/ StoreSilently(c) \/ CellSet(c) \/ SetMember(c)
       \/ Explore(c) \/ JyGC_validateGCHead(c) \/ NotReadable(c) \/ WithoutHead(c)
  \/ BeginCycle \/ EndCycle

Spec == Init /\ [][Next]_vars

-----------------------------------------------------------------------------
(* Properties *)

(* Single links and arrays are the fixed-size forms. *)
LinkForms ==
  {NoLinks} \cup {Single(x) : x \in Items} \cup {Array(s) : s \in SeqOf(Slots, MaxLen)}
    \cup {List(s) : s \in SeqOf(Slots, MaxLinks)}

TypeOK ==
  /\ kind \in Kinds
  /\ \A c \in Containers :
       /\ items[c] \in SeqOf(Slots, MaxLen)
       /\ links[c] \in LinkForms
       /\ links[c].rep = "list" <=> kind[c] = "list" /\ explored[c]
       /\ pending[c] = NoWrite \/ pending[c] \in [index : 1..MaxLen, item : Items]
  /\ explored \in [Containers -> BOOLEAN] /\ told \in [Containers -> BOOLEAN]
  /\ busy \in BOOLEAN /\ left \subseteq Containers
  /\ delayFinalization \in BOOLEAN /\ forced \in BOOLEAN

(* A list all of whose changes were followed by updates has the link of    *)
(* each item at the item's index; outdated links come after them only.     *)
(* That is what updates at an index (updateJyGCHeadLink and                *)
(* updateInsertJyGCHeadLink) rely on.  It holds until the destructor of an *)
(* item that PyList_SetItem replaced changes the list, and not for lists   *)
(* explored, rewritten or validated with empty slots.                      *)
Settled(c) == explored[c] /\ told[c] /\ pending[c] = NoWrite

LinksAligned ==
  \A c \in Containers :
    kind[c] = "list" /\ Settled(c) => IsPrefix(items[c], links[c].at)

refs  == [c \in Containers |-> Range(Visited(items[c]))]
known == [c \in Containers |-> Range(links[c].at) \ {NoItem}]
view  == [c \in Containers |->
            IF ~explored[c] THEN "hidden" ELSE IF Settled(c) THEN "mirror" ELSE "stale"]

Mirror == INSTANCE GraphMirror WITH missed <- delayFinalization

(* What happens when the items of the list x are taken for the links of c: *)
(* x may lose references, and a cycle may learn nothing of c, or break off *)
(* without delay.  Still no container counts as a mirror that is not one.  *)
TakesItemsForLinks(c, x) ==
  /\ x \in TakenForLinks(links[c]) \cup TakenForLinks(links'[c])
  /\ \A o \in Containers \ {c, x} :
       refs'[o] = refs[o] /\ known'[o] = known[o] /\ view'[o] = view[o]
  /\ \A o \in {c, x} :
       /\ view'[o] = "hidden" <=> view[o] = "hidden"
       /\ view'[o] = "mirror" => refs'[o] \subseteq known'[o]
       /\ known'[o] \subseteq known[o] \cup refs[o] \cup refs'[o]
  /\ refs'[x] \subseteq refs[x]
  /\ \/ UNCHANGED Mirror!check
     \/ /\ c \in left /\ left' = left \ {c} /\ refs'[c] = refs[c]
        /\ delayFinalization => delayFinalization'
        /\ UNCHANGED <<busy, forced>>
     \/ /\ c \in left /\ left' = {} /\ busy' = FALSE /\ delayFinalization' = FALSE
        /\ UNCHANGED <<refs, known, view, forced>>

(* "Here we care to repair the referenceGraph" (preProcessCStubGCCycle):   *)
(* Java's collector knows every reference of a container that tells, and   *)
(* a cycle finds, repairs and answers with delay every one it does not,    *)
(* but where the only link of a container is the head of a list.           *)
ImplementsMirror ==
  Mirror!Init
  /\ [][Mirror!Next \/ \E c, x \in Containers : TakesItemsForLinks(c, x)]_Mirror!vars
=============================================================================
