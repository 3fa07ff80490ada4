---------------------------- MODULE DictNextProofs ----------------------------
(***************************************************************************)
(* One iterator for all loops is as good as a cursor per loop, for any     *)
(* number of dicts, keys and loops; but an empty dict that gets keys may   *)
(* be taken for empty once more.                                           *)
(***************************************************************************)
EXTENDS DictNext, DataLemmas, FiniteSetTheorems

(* What is before a loop of its dict. *)
Before(l) == SubSeq(order[over[l]], ppos[l] + 1, Len(order[over[l]]))

(* No loop is beyond the end of its dict. *)
Within == \A l \in Loops : over[l] # None => ppos[l] <= Len(order[over[l]])

(* An iterator at index 0 was made for an empty dict, which may have got   *)
(* keys since.                                                             *)
EmptyCache ==
  dictIterator # None /\ lastDictIndex = 0 => dictIterator = <<>>

Outdated(l) == ppos[l] = 0 /\ dictIterator = <<>>

(* When the cached iterator fits a loop, it is where the loop is. *)
CacheFits ==
  \A l \in Loops :
    over[l] # None /\ Cached(over[l], ppos[l]) => dictIterator = Before(l) \/ Outdated(l)

(* CacheFits alone is not inductive: a loop starts at index 0.             *)
IInv == TypeOK /\ Within /\ EmptyCache /\ CacheFits

-----------------------------------------------------------------------------
(* The orders a dict can have *)

LEMMA MaxLenType == MaxLen \in Nat
  BY FS_CardinalityType, DictAssumption DEF MaxLen, DictAssumption

(* Keys that all differ are no more than there are. *)
LEMMA OrdersAre == \A s : s \in Orders <=> s \in Seq(Keys) /\ IsInjective(s)
<1>1. ASSUME NEW s \in Orders PROVE s \in Seq(Keys) /\ IsInjective(s)
  BY DEF Orders, SeqOf
<1>2. ASSUME NEW s \in Seq(Keys), IsInjective(s) PROVE s \in Orders
  <2> DEFINE len == Len(s)
  <2>1. len \in Nat /\ s \in [1..len -> Keys]
    BY LenProperties
  <2>2. IsFiniteSet(1..len) /\ Cardinality(1..len) = len
    <3> HIDE DEF len
    <3>1. 1 \in Int /\ len \in Int
      BY <2>1
    <3>2. IsFiniteSet(1..len) /\ Cardinality(1..len) = IF 1 > len THEN 0 ELSE len - 1 + 1
      BY <3>1, FS_Interval
    <3> QED BY <2>1, <3>2
  <2>3. Cardinality(1..len) <= Cardinality(Keys)
    <3>1. \A j, k \in 1..len : s[j] = s[k] => j = k
      BY <1>2, <2>1 DEF IsInjective
    <3>2. IsFiniteSet(Keys) /\ Cardinality(Keys) \in Nat
      BY MaxLenType, DictAssumption DEF DictAssumption, MaxLen
    <3> HIDE DEF len
    <3>3. ~(Cardinality(Keys) < Cardinality(1..len))
      BY <2>1, <2>2, <3>1, <3>2, FS_PigeonHole
    <3> QED BY <2>1, <2>2, <3>2, <3>3
  <2>4. len \in 0..MaxLen
    BY <2>1, <2>2, <2>3, MaxLenType DEF MaxLen
  <2> QED BY <1>2, <2>1, <2>4 DEF Orders, SeqOf
<1> QED BY <1>1, <1>2

(* The rest of a sequence from position p on. *)
LEMMA RestOfSeq ==
  ASSUME NEW S, NEW s \in Seq(S), NEW p \in Nat, p <= Len(s)
  PROVE  /\ SubSeq(s, p + 1, Len(s)) = <<>> <=> p = Len(s)
         /\ p < Len(s) => /\ Head(SubSeq(s, p + 1, Len(s))) = s[p + 1]
                          /\ Tail(SubSeq(s, p + 1, Len(s))) = SubSeq(s, p + 2, Len(s))
                          /\ s[p + 1] \in S
  <1>1. Len(s) \in Nat OBVIOUS
  <1>2. CASE p = Len(s)
    BY <1>1, <1>2, SubSeqEmpty
  <1>3. CASE p < Len(s)
    <2>1. p + 1 \in 1..(Len(s) + 1) /\ Len(s) \in (p + 1 - 1)..Len(s) BY <1>1, <1>3
    <2>2. p + 1 \in 1..Len(s) BY <1>1, <1>3
    <2>3. /\ Len(SubSeq(s, p + 1, Len(s))) = Len(s) - (p + 1) + 1
      BY <1>1, <1>3, <2>1, SubSeqProperties
    <2>4. SubSeq(s, p + 1, Len(s)) # <<>>
      <3>1. Len(SubSeq(s, p + 1, Len(s))) # 0 BY <1>1, <1>3, <2>3
      <3>2. Len(<<>>) = 0 OBVIOUS
      <3> QED BY <3>1, <3>2
    <2>5. /\ Head(SubSeq(s, p + 1, Len(s))) = s[p + 1]
          /\ Tail(SubSeq(s, p + 1, Len(s))) = SubSeq(s, p + 2, Len(s))
      BY <1>1, <1>3, <2>2, HeadTailOfSubSeq
    <2> QED BY <1>1, <1>3, <2>2, <2>4, <2>5
  <1> QED BY <1>1, <1>2, <1>3

(* What a call of PyDict_Next finds. *)
LEMMA CallFinds ==
  ASSUME IInv, NEW l \in Loops, over[l] # None
  PROVE  /\ over[l] \in Dicts /\ order[over[l]] \in Orders /\ order[over[l]] \in Seq(Keys)
         /\ ppos[l] \in Nat /\ Len(order[over[l]]) \in 0..MaxLen
         /\ ppos[l] <= Len(order[over[l]])
         /\ Ahead(over[l], ppos[l]) = <<>> =>
              ppos[l] = Len(order[over[l]]) \/ (ppos[l] = 0 /\ FoundEmpty = over[l])
         /\ Ahead(over[l], ppos[l]) # <<>> =>
              /\ ppos[l] < Len(order[over[l]])
              /\ Head(Ahead(over[l], ppos[l])) = order[over[l]][ppos[l] + 1]
              /\ order[over[l]][ppos[l] + 1] \in Keys
              /\ Tail(Ahead(over[l], ppos[l]))
                   = SubSeq(order[over[l]], ppos[l] + 2, Len(order[over[l]]))
<1>1. over[l] \in Dicts /\ order[over[l]] \in Orders /\ ppos[l] \in Nat
  BY DEF IInv, TypeOK
<1>2. order[over[l]] \in Seq(Keys) /\ Len(order[over[l]]) \in 0..MaxLen
  <2>1. order[over[l]] \in Seq(Keys)
    BY <1>1, OrdersAre
  <2>2. PICK m \in 0..MaxLen : order[over[l]] \in [1..m -> Keys]
    BY <1>1 DEF Orders, SeqOf
  <2>3. Len(order[over[l]]) = m
    BY <2>1, <2>2, LenProperties, MaxLenType
  <2> QED BY <2>1, <2>3
<1>3. ppos[l] <= Len(order[over[l]])
  BY DEF IInv, Within
<1>4. \/ Ahead(over[l], ppos[l]) = Before(l)
      \/ /\ Ahead(over[l], ppos[l]) = <<>>
         /\ ppos[l] = 0 /\ FoundEmpty = over[l]
  <2>1. CASE Cached(over[l], ppos[l])
    BY <1>1, <2>1 DEF IInv, CacheFits, Cached, Ahead, Outdated, FoundEmpty
  <2>2. CASE ~Cached(over[l], ppos[l]) BY <2>2 DEF Ahead, Before
  <2> QED BY <2>1, <2>2
<1>5. /\ Before(l) = <<>> <=> ppos[l] = Len(order[over[l]])
      /\ ppos[l] < Len(order[over[l]]) =>
           /\ Head(Before(l)) = order[over[l]][ppos[l] + 1]
           /\ Tail(Before(l)) = SubSeq(order[over[l]], ppos[l] + 2, Len(order[over[l]]))
           /\ order[over[l]][ppos[l] + 1] \in Keys
  BY <1>1, <1>2, <1>3, RestOfSeq DEF Before
<1>6. Ahead(over[l], ppos[l]) = <<>> =>
        ppos[l] = Len(order[over[l]]) \/ (ppos[l] = 0 /\ FoundEmpty = over[l])
  BY <1>4, <1>5
<1>7. ASSUME Ahead(over[l], ppos[l]) # <<>>
      PROVE  ppos[l] < Len(order[over[l]]) /\ Ahead(over[l], ppos[l]) = Before(l)
  <2>1. Len(order[over[l]]) \in Nat
    BY <1>2
  <2> QED BY <1>1, <1>3, <1>4, <1>5, <1>7, <2>1
<1> QED BY <1>1, <1>2, <1>3, <1>5, <1>6, <1>7

(* The rest of an order is an order. *)
LEMMA OrderRest ==
  ASSUME NEW s \in Orders, NEW p \in Nat, p < Len(s)
  PROVE  SubSeq(s, p + 2, Len(s)) \in Orders
<1>1. s \in Seq(Keys) /\ IsInjective(s) /\ Len(s) \in Nat
  BY OrdersAre
<1> DEFINE t == SubSeq(s, p + 2, Len(s))
<1>2. p + 2 \in Nat \ {0} /\ Len(s) <= Len(s) /\ p + 2 <= Len(s) + 1
  BY <1>1
<1>3. t \in Seq(Keys) /\ Len(t) = Len(s) - (p + 2) + 1
      /\ \A i \in 1..(Len(s) - (p + 2) + 1) : t[i] = s[(p + 2) + i - 1]
  BY <1>1, <1>2, SubSeqOf
<1> HIDE DEF t
<1>4. IsInjective(t)
  <2>1. DOMAIN t = 1..(Len(s) - (p + 2) + 1) /\ DOMAIN s = 1..Len(s)
    BY <1>1, <1>3, LenProperties
  <2>2. \A i \in DOMAIN t : (p + 2) + i - 1 \in DOMAIN s
    BY <1>1, <2>1
  <2>3. ASSUME NEW i \in DOMAIN t, NEW j \in DOMAIN t, t[i] = t[j] PROVE i = j
    <3>1. s[(p + 2) + i - 1] = s[(p + 2) + j - 1]
      BY <1>3, <2>1, <2>3
    <3>2. (p + 2) + i - 1 = (p + 2) + j - 1
      BY <1>1, <2>2, <3>1 DEF IsInjective
    <3> QED BY <2>1, <3>2
  <2> QED BY <2>3 DEF IsInjective
<1> QED BY <1>3, <1>4, OrdersAre DEF t

(* The fields of the loop after an entry was delivered. *)
LEMMA DeliverStep ==
  ASSUME IInv, NEW l \in Loops, Deliver(l)
  PROVE  /\ over[l] # None /\ over[l] \in Dicts
         /\ ppos[l] \in Nat /\ ppos[l] < Len(order[over[l]])
         /\ Len(order[over[l]]) \in 0..MaxLen /\ order' = order
         /\ ppos' = [ppos EXCEPT ![l] = ppos[l] + 1]
         /\ pkey' = [pkey EXCEPT ![l] = order[over[l]][ppos[l] + 1]]
         /\ order[over[l]][ppos[l] + 1] \in Keys
         /\ lastDict' = over[l] /\ lastDictIndex' \in -MaxLen..MaxLen /\ lastDictIndex' # 0
         /\ dictIterator' \in Orders
         /\ lastDictIndex' >= 0 => lastDictIndex' = ppos[l] + 1
         /\ dictIterator' = SubSeq(order[over[l]], ppos[l] + 2, Len(order[over[l]]))
         /\ \/ UNCHANGED <<over, complete>>
            \/ /\ ppos[l] + 1 = Len(order[over[l]])
               /\ over' = [over EXCEPT ![l] = None]
               /\ complete' = [complete EXCEPT ![l] = TRUE]
         /\ \/ UNCHANGED body
            \/ body' = [body EXCEPT ![l] = @ \cup {order[over[l]][ppos[l] + 1]}]
  <1> DEFINE d == over[l]
             len == Len(order[d])
             new == ppos[l] + 1
  <1>1. over[l] # None /\ order' = order BY DEF Deliver
  <1>2. NextIsEntry(d, ppos[l]) BY DEF Deliver
  <1>3. /\ d \in Dicts /\ ppos[l] \in Nat /\ len \in 0..MaxLen /\ ppos[l] < len
        /\ order[d] \in Orders
        /\ Head(Ahead(d, ppos[l])) = order[d][new] /\ order[d][new] \in Keys
        /\ Tail(Ahead(d, ppos[l])) = SubSeq(order[d], ppos[l] + 2, len)
    <2>1. Ahead(d, ppos[l]) # <<>> BY <1>2 DEF NextIsEntry
    <2> QED BY <1>1, <2>1, CallFinds
  <1>4. lastDictIndex' = Marked(d, new) /\ lastDict' = d
        /\ dictIterator' = SubSeq(order[d], ppos[l] + 2, len)
    BY <1>2, <1>3 DEF NextIsEntry
  <1>5. \/ new = len /\ lastDictIndex' = -new
        \/ new # len /\ lastDictIndex' = new
    BY <1>4 DEF Marked
  <1>6. NewPosition(lastDictIndex') = new
    BY <1>3, <1>5 DEF NewPosition
  <1>7. ppos' = [ppos EXCEPT ![l] = new] /\ pkey' = [pkey EXCEPT ![l] = order[d][new]]
    BY <1>3, <1>6 DEF Deliver
  <1>8. lastDictIndex' \in -MaxLen..MaxLen /\ lastDictIndex' # 0
        /\ (lastDictIndex' >= 0 => lastDictIndex' = new)
        /\ (lastDictIndex' < 0 => new = len)
    <2>1. new \in 1..MaxLen /\ -new \in -MaxLen..MaxLen /\ -new < 0 /\ new \in -MaxLen..MaxLen
      <3>1. /\ MaxLen \in Nat /\ len \in Nat /\ len <= MaxLen
            /\ new \in Nat /\ 1 <= new /\ new <= len
        BY <1>3, MaxLenType
      <3> HIDE DEF new, len
      <3> QED BY <3>1
    <2> HIDE DEF new
    <2> QED BY <1>5, <2>1
  <1>9. \/ UNCHANGED <<over, complete>>
        \/ /\ new = len
           /\ over' = [over EXCEPT ![l] = None]
           /\ complete' = [complete EXCEPT ![l] = TRUE]
    BY <1>8 DEF Deliver
  <1>10. \/ UNCHANGED body
         \/ body' = [body EXCEPT ![l] = @ \cup {order[d][new]}]
    <2>1. pkey'[l] = order[d][new] BY <1>7 DEF IInv, TypeOK
    <2> QED BY <2>1 DEF Deliver
  <1>11. dictIterator' \in Orders BY <1>3, <1>4, OrderRest
  <1> QED BY <1>1, <1>3, <1>4, <1>7, <1>8, <1>9, <1>10, <1>11

LEMMA InitIInv == Init => IInv
  <1> SUFFICES ASSUME Init PROVE IInv
    OBVIOUS
  <1> QED BY MaxLenType DEF Init, IInv, TypeOK, Within, EmptyCache, CacheFits, Cached

(* Keys come and go while nobody runs over the dict. *)
LEMMA ChangeStep ==
  ASSUME IInv, NEW d \in Dicts, Unused(d),
         NEW t \in Orders, order' = [order EXCEPT ![d] = t],
         UNCHANGED <<cache, loops>>
  PROVE  IInv'
  <1>1. TypeOK' BY DEF IInv, TypeOK, cache, loops
  <1>2. \A e \in Dicts : e # d => order'[e] = order[e]
    BY DEF IInv, TypeOK
  <1>3. EmptyCache'
    BY DEF IInv, EmptyCache, cache
  <1>4. \A l \in Loops : over[l] # None => over[l] \in Dicts /\ over[l] # d
    BY DEF IInv, TypeOK, Unused
  <1>5. Within' BY <1>2, <1>4 DEF IInv, Within, loops
  <1>6. CacheFits'
    BY <1>2, <1>4 DEF IInv, CacheFits, Cached, Before, Outdated, loops, cache
  <1> QED BY <1>1, <1>3, <1>5, <1>6 DEF IInv

LEMMA EmptyOrder == <<>> \in Orders
<1>1. <<>> \in Seq(Keys) /\ DOMAIN <<>> = {} OBVIOUS
<1>2. IsInjective(<<>>) BY <1>1 DEF IsInjective
<1> QED BY <1>1, <1>2, OrdersAre

LEMMA StartStep ==
  ASSUME IInv, NEW l \in Loops, NEW d \in Dicts, Start(l, d)
  PROVE  IInv'
<1>0. TypeOK /\ Within /\ EmptyCache /\ CacheFits BY DEF IInv
<1>1. /\ over' = [over EXCEPT ![l] = d] /\ ppos' = [ppos EXCEPT ![l] = 0]
      /\ order' = order /\ UNCHANGED cache
  BY DEF Start
<1>2. TypeOK' BY <1>0, MaxLenType DEF Start, TypeOK, cache
<1>3. order[d] \in Seq(Keys) /\ Len(order[d]) \in Nat
  BY <1>0, OrdersAre DEF TypeOK
<1>4. \A m \in Loops : m # l => over'[m] = over[m] /\ ppos'[m] = ppos[m]
  BY <1>0, <1>1 DEF TypeOK
<1>5. over'[l] = d /\ ppos'[l] = 0 BY <1>0, <1>1 DEF TypeOK
<1>6. Within' BY <1>0, <1>1, <1>3, <1>4, <1>5 DEF Within
<1>7. EmptyCache' BY <1>0, <1>1 DEF EmptyCache, cache
<1>8. ASSUME NEW m \in Loops, over'[m] # None, Cached(over[m], ppos[m])'
      PROVE  dictIterator' = Before(m)' \/ Outdated(m)'
  <2>1. CASE m = l
    <3>1. d = lastDict /\ lastDictIndex = 0 /\ dictIterator # None
      BY <1>1, <1>5, <1>8, <2>1 DEF Cached, cache
    <3>2. dictIterator = <<>> BY <1>0, <3>1 DEF EmptyCache
    <3> QED BY <1>1, <1>5, <2>1, <3>2 DEF Outdated, cache
  <2>2. CASE m # l
    BY <1>0, <1>1, <1>4, <1>8, <2>2 DEF CacheFits, Cached, Before, Outdated, cache
  <2> QED BY <2>1, <2>2
<1> QED BY <1>2, <1>6, <1>7, <1>8 DEF IInv, CacheFits

LEMMA NoMoreStep ==
  ASSUME IInv, NEW l \in Loops, NoMore(l)
  PROVE  IInv'
<1>0. TypeOK /\ Within BY DEF IInv
<1>1. /\ over[l] # None /\ over' = [over EXCEPT ![l] = None]
      /\ complete' = [complete EXCEPT ![l] = TRUE]
      /\ UNCHANGED <<order, ppos, pkey, body>>
      /\ lastDict' = over[l] /\ lastDictIndex' = ppos[l] /\ dictIterator' = <<>>
      /\ Ahead(over[l], ppos[l]) = <<>>
  BY DEF NoMore, NextIsNull
<1>2. /\ over[l] \in Dicts /\ order[over[l]] \in Seq(Keys)
      /\ Len(order[over[l]]) \in 0..MaxLen /\ ppos[l] \in Nat /\ ppos[l] <= Len(order[over[l]])
      /\ ppos[l] = Len(order[over[l]]) \/ ppos[l] = 0
  BY <1>1, CallFinds
<1>3. TypeOK'
  <2>1. ppos[l] \in -MaxLen..MaxLen BY <1>2, MaxLenType
  <2> QED BY <1>0, <1>1, <1>2, <2>1, EmptyOrder DEF TypeOK
<1>4. \A m \in Loops : over'[m] # None => over'[m] = over[m]
  BY <1>0, <1>1 DEF TypeOK
<1>5. Within' BY <1>0, <1>1, <1>4 DEF Within
<1>6. EmptyCache' BY <1>1 DEF EmptyCache
<1>7. ASSUME NEW m \in Loops, over'[m] # None, Cached(over[m], ppos[m])'
      PROVE  dictIterator' = Before(m)' \/ Outdated(m)'
  <2>1. over'[m] = over[l] /\ ppos'[m] = ppos[l] BY <1>1, <1>7 DEF Cached
  <2>2. ppos[l] = Len(order[over[l]])
          => SubSeq(order[over[l]], ppos[l] + 1, Len(order[over[l]])) = <<>>
    BY <1>2, SubSeqEmpty
  <2> QED BY <1>1, <1>2, <2>1, <2>2 DEF Before, Outdated
<1> QED BY <1>3, <1>5, <1>6, <1>7 DEF IInv, CacheFits

LEMMA DeliverKeepsIInv ==
  ASSUME IInv, NEW l \in Loops, Deliver(l)
  PROVE  IInv'
<1> DEFINE d == over[l]
<1>0. TypeOK /\ Within BY DEF IInv
<1>1. /\ d \in Dicts /\ ppos[l] \in Nat /\ Len(order[d]) \in 0..MaxLen
      /\ ppos[l] < Len(order[d]) /\ order' = order
      /\ ppos' = [ppos EXCEPT ![l] = ppos[l] + 1]
      /\ pkey' = [pkey EXCEPT ![l] = order[d][ppos[l] + 1]]
      /\ order[d][ppos[l] + 1] \in Keys
      /\ lastDict' = d /\ lastDictIndex' \in -MaxLen..MaxLen /\ lastDictIndex' # 0
      /\ dictIterator' \in Orders
      /\ lastDictIndex' >= 0 => lastDictIndex' = ppos[l] + 1
      /\ dictIterator' = SubSeq(order[d], ppos[l] + 2, Len(order[d]))
      /\ over' = over \/ over' = [over EXCEPT ![l] = None]
      /\ complete' = complete \/ complete' = [complete EXCEPT ![l] = TRUE]
      /\ body' = body \/ body' = [body EXCEPT ![l] = @ \cup {order[d][ppos[l] + 1]}]
  BY DeliverStep
<1>2. TypeOK'
  <2>1. ppos[l] + 1 \in 0..MaxLen BY <1>1, MaxLenType
  <2>2. lastDictIndex' \in -MaxLen..MaxLen /\ dictIterator' \in Orders /\ lastDict' \in Dicts
    BY <1>1
  <2>3. ppos' \in [Loops -> 0..MaxLen] BY <1>0, <1>1, <2>1 DEF TypeOK
  <2>4. over' \in [Loops -> Dicts \cup {None}] BY <1>0, <1>1 DEF TypeOK
  <2>5. pkey' \in [Loops -> Keys \cup {None}] BY <1>0, <1>1 DEF TypeOK
  <2>6. body' \in [Loops -> SUBSET Keys]
    <3>1. \A m \in Loops : body[m] \cup {order[d][ppos[l] + 1]} \in SUBSET Keys
      BY <1>0, <1>1 DEF TypeOK
    <3> QED BY <1>0, <1>1, <3>1 DEF TypeOK
  <2>7. complete' \in [Loops -> BOOLEAN] BY <1>0, <1>1 DEF TypeOK
  <2> QED BY <1>0, <1>1, <2>2, <2>3, <2>4, <2>5, <2>6, <2>7 DEF TypeOK
<1>3. \A m \in Loops : over'[m] # None => over'[m] = over[m]
  BY <1>0, <1>1 DEF TypeOK
<1>4. \A m \in Loops : ppos'[m] = IF m = l THEN ppos[l] + 1 ELSE ppos[m]
  BY <1>0, <1>1 DEF TypeOK
<1>5. Within' BY <1>0, <1>1, <1>3, <1>4 DEF Within
<1>6. EmptyCache' BY <1>1 DEF EmptyCache
<1>7. ASSUME NEW m \in Loops, over'[m] # None, Cached(over[m], ppos[m])'
      PROVE  dictIterator' = Before(m)'
  <2>1. over'[m] = d /\ ppos'[m] = lastDictIndex' BY <1>1, <1>7 DEF Cached
  <2>2. ppos'[m] \in Nat BY <1>2 DEF TypeOK
  <2>3. ppos'[m] + 1 = ppos[l] + 2 BY <1>1, <2>1, <2>2
  <2> QED BY <1>1, <2>1, <2>3 DEF Before
<1> QED BY <1>2, <1>5, <1>6, <1>7 DEF IInv, CacheFits

LEMMA ChangeKeepsIInv ==
  ASSUME IInv, NEW d \in Dicts, AddKey(d) \/ RemoveKey(d)
  PROVE  IInv'
<1>0. order[d] \in Seq(Keys) /\ IsInjective(order[d])
  BY OrdersAre DEF IInv, TypeOK
<1> DEFINE s == order[d]
<1>1. Len(s) \in Nat /\ DOMAIN s = 1..Len(s) BY <1>0, LenProperties
<1>2. Unused(d) /\ UNCHANGED <<cache, loops>> BY DEF AddKey, RemoveKey
<1>3. CASE AddKey(d)
  <2>1. PICK key \in Keys \ Range(s), at \in 1..(Len(s) + 1) :
          order' = [order EXCEPT ![d] = InsertAt(s, at, key)]
    BY <1>3 DEF AddKey
  <2>2. \A j \in 1..Len(s) : s[j] # key BY <1>1, <2>1 DEF Range
  <2> DEFINE t == InsertAt(s, at, key)
  <2>3. /\ t \in Seq(Keys) /\ Len(t) = Len(s) + 1
        /\ \A k \in 1..(Len(s) + 1) :
             t[k] = IF k < at THEN s[k] ELSE IF k = at THEN key ELSE s[k - 1]
    <3>1. s \in Seq(Keys) /\ key \in Keys /\ at \in 1..(Len(s) + 1) BY <1>0, <2>1
    <3> HIDE DEF s
    <3> QED BY ONLY <3>1, InsertAtProperties DEF t
  <2> HIDE DEF t, s
  <2>4. IsInjective(t)
    <3>1. DOMAIN t = 1..(Len(s) + 1) BY <2>3, LenProperties
    <3> DEFINE from(k) == IF k < at THEN k ELSE k - 1
    <3>2. \A k \in DOMAIN t : k # at => from(k) \in 1..Len(s) /\ t[k] = s[from(k)]
      BY <1>1, <2>1, <2>3, <3>1
    <3>3. \A k \in DOMAIN t : k = at => t[k] = key BY <1>1, <2>1, <2>3, <3>1
    <3>4. \A j, k \in 1..Len(s) : s[j] = s[k] => j = k
      BY <1>0, <1>1 DEF IsInjective, s
    <3>5. ASSUME NEW j \in DOMAIN t, NEW k \in DOMAIN t, t[j] = t[k] PROVE j = k
      <4>1. j = at <=> k = at BY <2>2, <3>2, <3>3, <3>5
      <4>2. CASE j # at
        <5>1. from(j) \in 1..Len(s) /\ from(k) \in 1..Len(s) /\ s[from(j)] = s[from(k)]
          BY <3>2, <3>5, <4>1, <4>2
        <5>2. from(j) = from(k) BY <3>4, <5>1
        <5> QED BY <1>1, <2>1, <3>1, <4>1, <4>2, <5>2
      <4> QED BY <4>1, <4>2
    <3> QED BY <3>5 DEF IsInjective
  <2>5. t \in Orders BY <2>3, <2>4, OrdersAre
  <2> QED BY <1>2, <2>1, <2>5, ChangeStep DEF t, s
<1>4. CASE RemoveKey(d)
  <2>1. PICK at \in DOMAIN s : order' = [order EXCEPT ![d] = RemoveAt(s, at)]
    BY <1>4 DEF RemoveKey
  <2> DEFINE t == RemoveAt(s, at)
  <2>2. /\ t \in Seq(Keys) /\ Len(t) = Len(s) - 1
        /\ \A k \in 1..(Len(s) - 1) : t[k] = IF k < at THEN s[k] ELSE s[k + 1]
    BY <1>0, <1>1, <2>1, RemoveAtProperties
  <2> HIDE DEF t, s
  <2>4. IsInjective(t)
    <3>1. DOMAIN t = 1..(Len(s) - 1) BY <2>2, LenProperties
    <3> DEFINE from(k) == IF k < at THEN k ELSE k + 1
    <3>2. \A k \in DOMAIN t : from(k) \in 1..Len(s) /\ t[k] = s[from(k)]
      BY <1>1, <2>1, <2>2, <3>1
    <3>3. \A j, k \in 1..Len(s) : s[j] = s[k] => j = k
      BY <1>0, <1>1 DEF IsInjective, s
    <3>4. ASSUME NEW j \in DOMAIN t, NEW k \in DOMAIN t, t[j] = t[k] PROVE j = k
      <4>1. from(j) = from(k) BY <3>2, <3>3, <3>4
      <4> QED BY <1>1, <2>1, <3>1, <4>1
    <3> QED BY <3>4 DEF IsInjective
  <2>5. t \in Orders BY <2>2, <2>4, OrdersAre
  <2> QED BY <1>2, <2>1, <2>5, ChangeStep DEF t, s
<1> QED BY <1>3, <1>4

LEMMA StepIInv == IInv /\ [Next]_vars => IInv'
<1> SUFFICES ASSUME IInv, [Next]_vars PROVE IInv'
  OBVIOUS
<1>0. TypeOK /\ Within /\ EmptyCache /\ CacheFits BY DEF IInv
<1>1. ASSUME NEW l \in Loops, Leave(l) PROVE IInv'
  <2>1. /\ over' = [over EXCEPT ![l] = None]
        /\ UNCHANGED <<order, cache, ppos, pkey, body, complete>>
    BY <1>1 DEF Leave
  <2>2. \A m \in Loops : over'[m] # None => over'[m] = over[m]
    BY <1>0, <2>1 DEF TypeOK
  <2>3. TypeOK' BY <1>0, <2>1 DEF TypeOK, cache
  <2>4. Within' /\ EmptyCache'
    BY <1>0, <2>1, <2>2 DEF Within, EmptyCache, cache
  <2>5. CacheFits' BY <1>0, <2>1, <2>2 DEF CacheFits, Cached, Before, Outdated, cache
  <2> QED BY <2>3, <2>4, <2>5 DEF IInv
<1>2. CASE UNCHANGED vars
  BY <1>0, <1>2 DEF vars, cache, loops, IInv, TypeOK, Within, EmptyCache, CacheFits,
    Cached, Before, Outdated
<1> QED BY <1>1, <1>2, StartStep, NoMoreStep, DeliverKeepsIInv, ChangeKeepsIInv DEF Next

(* A call of a loop is a step of the loop's own cursor. *)
LEMMA StepRefines ==
  ASSUME IInv, [Next]_vars
  PROVE  [Cursor!Next]_(Cursor!vars)
  <1> USE DEF Cursor!Next, Cursor!vars
  <1>1. ASSUME NEW l \in Loops, NEW d \in Dicts, Start(l, d) PROVE Cursor!Start(l, d)
    BY <1>1 DEF Start, Cursor!Start, FoundEmpty, cache
  <1>2. ASSUME NEW l \in Loops, NoMore(l) PROVE Cursor!End(l)
    <2>1. over[l] # None /\ Ahead(over[l], ppos[l]) = <<>>
      BY <1>2 DEF NoMore, NextIsNull
    <2>2. ppos[l] = Len(order[over[l]]) \/ (ppos[l] = 0 /\ FoundEmpty = over[l])
      BY <2>1, CallFinds
    <2>3. FoundEmpty' = IF ppos[l] = 0 THEN over[l] ELSE None
      BY <1>2, <2>1 DEF NoMore, NextIsNull, FoundEmpty
    <2> QED BY <1>2, <2>1, <2>2, <2>3 DEF NoMore, Cursor!End, Cursor!Told
  <1>3. ASSUME NEW l \in Loops, Deliver(l) PROVE Cursor!Deliver(l)
    <2>1. ppos'[l] = ppos[l] + 1
      BY <1>3, DeliverStep DEF IInv, TypeOK
    <2>2. FoundEmpty' = None BY <1>3, DeliverStep DEF FoundEmpty
    <2> QED BY <1>3, <2>1, <2>2, DeliverStep DEF Cursor!Deliver, Cursor!Told
  <1>4. ASSUME NEW l \in Loops, Leave(l) PROVE Cursor!Leave(l)
    BY <1>4 DEF Leave, Cursor!Leave, FoundEmpty, cache
  <1>5. ASSUME NEW d \in Dicts, AddKey(d) \/ RemoveKey(d) PROVE Cursor!Change
    <2>1. Unused(d) /\ UNCHANGED <<loops, FoundEmpty>>
      BY <1>5 DEF AddKey, RemoveKey, cache, FoundEmpty
    <2>2. \A e \in Dicts : e # d => order'[e] = order[e]
      BY <1>5 DEF AddKey, RemoveKey, IInv, TypeOK
    <2> QED BY <2>1, <2>2 DEF Cursor!Change, Cursor!Unused, Unused, loops
  <1>6. CASE UNCHANGED vars
    BY <1>6 DEF vars, loops, cache, FoundEmpty
  <1> QED BY <1>1, <1>2, <1>3, <1>4, <1>5, <1>6 DEF Next

(* The bookkeeping of PyDict_Next stays within the dict: no position is    *)
(* beyond its end.                                                         *)
THEOREM DictTypeCorrect == Spec => []TypeOK
  <1>1. IInv => TypeOK BY DEF IInv
  <1> QED BY <1>1, InitIInv, StepIInv, PTL DEF Spec

(* PyDict_Next: the shared iterator serves every loop as a cursor of its   *)
(* own, except that a dict just found empty may be found so once more.     *)
THEOREM CursorsAreOwn == Spec => OwnCursors
  <1>4. Init => FoundEmpty = None BY DEF Init, FoundEmpty
  <1>1. Init => IInv BY InitIInv
  <1>2. IInv /\ [Next]_vars => IInv' BY StepIInv
  <1>3. IInv /\ [Next]_vars => [Cursor!Next]_(Cursor!vars) BY StepRefines
  <1> QED BY <1>1, <1>2, <1>3, <1>4, PTL DEF Spec, OwnCursors, Cursor!Spec
=============================================================================
