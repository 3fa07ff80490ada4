----------------------- MODULE ExplorationStackProofs -----------------------
(***************************************************************************)
(* Proofs about the exploration stack, for any number of objects, blocks   *)
(* of any size and any number of them.                                     *)
(***************************************************************************)
EXTENDS ExplorationStack, DataLemmas

-----------------------------------------------------------------------------
(* removeObjectExStack: what its loop over one block does. *)

On(block, o) == Occurrences(block, o) # {}

LEMMA OnBlock ==
  ASSUME NEW S, NEW block \in Seq(S), NEW o
  PROVE  On(block, o) <=> \E i \in 1..Len(block) : block[i] = o
  BY DEF On, Occurrences

(* One position of the loop. *)
Examined(block, i, o) == IF block[i] = o THEN FillGap(block, i) ELSE block

LEMMA ExaminedType ==
  ASSUME NEW S, NEW block \in Seq(S), NEW i \in Nat \ {0}, NEW o
  PROVE  Examined(block, i, o) \in Seq(S)
<1>1. CASE block[i] # o
  BY <1>1 DEF Examined
<1>2. CASE block[i] = o
  <2>1. Len(block) \in Nat /\ \A j \in 1..Len(block) : block[j] \in S
    BY ElementOfSeq
  <2>2. FillGap(block, i) \in [1..(Len(block) - 1) -> S]
    BY <2>1 DEF FillGap
  <2>3. CASE Len(block) = 0
    <3>1. FillGap(block, i) \in [1..0 -> S]
      BY <2>1, <2>3 DEF FillGap
    <3> QED BY <1>2, <3>1, IsASeq DEF Examined
  <2>4. CASE Len(block) # 0
    <3>1. Len(block) - 1 \in Nat
      BY <2>1, <2>4
    <3> QED BY <1>2, <2>2, <3>1, IsASeq DEF Examined
  <2> QED BY <2>3, <2>4
<1> QED BY <1>1, <1>2

(* The loop passes through as many states as the block has positions. *)
LEMMA WithoutLoop ==
  ASSUME NEW S, NEW block \in Seq(S), NEW o
  PROVE  \E b \in [0..Len(block) -> Seq(S)] :
           /\ b[0] = block
           /\ \A n \in 1..Len(block) : b[n] = Examined(b[n - 1], Len(block) - n + 1, o)
           /\ Without(block, o) = b[Len(block)]
<1> DEFINE len == Len(block)
           step == [n \in 1..len |-> [s \in Seq(S) |-> Examined(s, len - n + 1, o)]]
           Loop(b) == b = [n \in 0..len |->
                             IF n = 0 THEN block
                             ELSE LET i == len - n + 1
                                  IN  IF b[n - 1][i] = o THEN FillGap(b[n - 1], i)
                                                         ELSE b[n - 1]]
<1>1. len \in Nat
  OBVIOUS
<1>2. step \in [1..len -> [Seq(S) -> Seq(S)]]
  <2>1. ASSUME NEW n \in 1..len, NEW s \in Seq(S)
        PROVE  Examined(s, len - n + 1, o) \in Seq(S)
    <3>1. len - n + 1 \in Nat \ {0}
      BY <1>1
    <3> QED BY <3>1, ExaminedType
  <2> QED BY <2>1
<1>3. PICK b \in [0..len -> Seq(S)] :
        b[0] = block /\ \A n \in 1..len : b[n] = step[n][b[n - 1]]
  <2> DEFINE States == Seq(S)
  <2>1. block \in States /\ step \in [1..len -> [States -> States]]
    BY <1>2
  <2> HIDE DEF step, len, States
  <2>2. \E b \in [0..len -> States] : Iterates(b, block, step, len)
    BY <1>1, <2>1, PrimitiveRecursion
  <2> QED BY <2>2 DEF States, Iterates
<1>4. \A n \in 1..len : b[n] = Examined(b[n - 1], len - n + 1, o)
  <2>1. \A n \in 1..len : b[n - 1] \in Seq(S)
    BY <1>1, <1>3
  <2> QED BY <1>3, <2>1
<1>5. Loop(b)
  BY <1>1, <1>3, <1>4 DEF Examined
<1> DEFINE c == CHOOSE f : Loop(f)
<1>6. Loop(c)
  <2> HIDE DEF Loop
  <2> QED BY <1>5
<1>7. Without(block, o) = c[len]
  BY DEF Without
<1>8. c[len] = b[len]
  <2> HIDE DEF c
  <2> DEFINE T == {n \in 0..len : c[n] = b[n]}
  <2>1. 0 \in T
    BY <1>1, <1>5, <1>6
  <2>2. ASSUME NEW n \in 1..len, n - 1 \in T PROVE n \in T
    BY <1>1, <1>5, <1>6, <2>2
  <2> HIDE DEF T
  <2>3. 0..len \subseteq T
    BY <1>1, <2>1, <2>2, SetInduction
  <2> QED BY <1>1, <2>3 DEF T
<1> QED BY <1>3, <1>4, <1>7, <1>8

(* What the loop leaves when it has come down to position i. *)
Swept(b, block, i, o) ==
  /\ i <= Len(b) + 1 /\ Len(b) <= Len(block)
  /\ \A k \in i..Len(b) : b[k] # o
  /\ \A p : p # o => (On(b, p) <=> On(block, p))

LEMMA SweepOne ==
  ASSUME NEW S, NEW block \in Seq(S), NEW b \in Seq(S), NEW i \in Nat \ {0}, NEW o,
         Swept(b, block, i + 1, o)
  PROVE  Swept(Examined(b, i, o), block, i, o)
<1>1. /\ Len(b) \in Nat /\ Len(block) \in Nat
      /\ i <= Len(b) /\ Len(b) <= Len(block)
      /\ \A k \in (i + 1)..Len(b) : b[k] # o
      /\ \A p : p # o => (On(b, p) <=> On(block, p))
  BY DEF Swept
<1>2. CASE b[i] # o
  BY <1>1, <1>2 DEF Swept, Examined
<1>3. CASE b[i] = o
  <2> DEFINE s == FillGap(b, i)
  <2>1. Examined(b, i, o) = s
    BY <1>3 DEF Examined
  <2>2. s = [j \in 1..(Len(b) - 1) |-> IF j = i THEN b[Len(b)] ELSE b[j]]
    BY DEF FillGap
  <2>3. s \in Seq(S)
    BY <2>1, ExaminedType
  <2>4. Len(s) = Len(b) - 1
    <3>1. DOMAIN s = 1..(Len(b) - 1) /\ DOMAIN s = 1..Len(s) /\ Len(s) \in Nat
      BY <2>2, <2>3, LenProperties
    <3> QED BY <1>1, <3>1
  <2>5. \A k \in 1..Len(s) : s[k] = IF k = i THEN b[Len(b)] ELSE b[k]
    BY <2>2, <2>4
  <2> HIDE DEF s
  <2>6. \A k \in i..Len(s) : s[k] # o
    BY <1>1, <2>4, <2>5
  <2>7. ASSUME NEW p, p # o PROVE On(s, p) <=> On(block, p)
    <3>1. ASSUME NEW k \in 1..Len(b), b[k] = p PROVE \E j \in 1..Len(s) : s[j] = p
      <4>1. k # i
        BY <1>3, <2>7, <3>1
      <4>2. CASE k = Len(b)
        <5>1. i \in 1..Len(s) /\ s[i] = p
          BY <1>1, <2>4, <2>5, <3>1, <4>1, <4>2
        <5> QED BY <5>1
      <4>3. CASE k # Len(b)
        <5>1. k \in 1..Len(s) /\ s[k] = p
          BY <1>1, <2>4, <2>5, <3>1, <4>1, <4>3
        <5> QED BY <5>1
      <4> QED BY <4>2, <4>3
    <3>2. ASSUME NEW j \in 1..Len(s), s[j] = p PROVE \E k \in 1..Len(b) : b[k] = p
      BY <1>1, <2>4, <2>5, <3>2
    <3>3. On(s, p) <=> On(b, p)
      BY <2>3, <3>1, <3>2, OnBlock
    <3> QED BY <1>1, <2>7, <3>3
  <2> QED BY <1>1, <2>1, <2>4, <2>6, <2>7 DEF Swept
<1> QED BY <1>2, <1>3

(* removeObjectExStack takes the object out of a block, however often it   *)
(* is in it, and nothing else.                                             *)
LEMMA WithoutProperties ==
  ASSUME NEW S, NEW block \in Seq(S), NEW o
  PROVE  /\ Without(block, o) \in Seq(S)
         /\ Len(Without(block, o)) <= Len(block)
         /\ ~On(Without(block, o), o)
         /\ \A p : p # o => (On(Without(block, o), p) <=> On(block, p))
<1> DEFINE len == Len(block)
<1>1. len \in Nat
  OBVIOUS
<1>2. PICK b \in [0..len -> Seq(S)] :
        /\ b[0] = block
        /\ \A n \in 1..len : b[n] = Examined(b[n - 1], len - n + 1, o)
        /\ Without(block, o) = b[len]
  BY WithoutLoop
<1> DEFINE T == {n \in 0..len : Swept(b[n], block, len - n + 1, o)}
<1>3. 0 \in T
  <2>1. Swept(block, block, len - 0 + 1, o)
    BY <1>1 DEF Swept
  <2> QED BY <1>1, <1>2, <2>1
<1>4. ASSUME NEW n \in 1..len, n - 1 \in T PROVE n \in T
  <2> DEFINE i == len - n + 1
  <2>1. /\ i \in Nat \ {0} /\ b[n - 1] \in Seq(S)
        /\ len - (n - 1) + 1 = i + 1
    BY <1>1, <1>2
  <2>2. Swept(b[n - 1], block, i + 1, o)
    BY <1>4, <2>1
  <2> HIDE DEF i
  <2>3. Swept(Examined(b[n - 1], i, o), block, i, o)
    BY <2>1, <2>2, SweepOne
  <2> QED BY <1>2, <2>3 DEF i
<1> HIDE DEF T
<1>5. 0..len \subseteq T
  BY <1>1, <1>3, <1>4, SetInduction
<1>6. b[len] \in Seq(S) /\ Swept(b[len], block, 1, o)
  <2>1. len \in T /\ len - len + 1 = 1
    BY <1>1, <1>5
  <2> QED BY <1>1, <1>2, <2>1 DEF T
<1>7. ~On(b[len], o)
  BY <1>6, OnBlock DEF Swept
<1> QED BY <1>2, <1>6, <1>7 DEF Swept

(* An object at the end of a block is on it. *)
LEMMA OnAppended ==
  ASSUME NEW S, NEW block \in Seq(S), NEW o \in S
  PROVE  /\ Append(block, o) \in Seq(S) /\ Len(Append(block, o)) = Len(block) + 1
         /\ \A p : On(Append(block, o), p) <=> On(block, p) \/ p = o
<1> DEFINE s == Append(block, o)
<1>1. s \in Seq(S) /\ Len(s) = Len(block) + 1 /\ Len(block) \in Nat
  OBVIOUS
<1>2. \A i \in 1..Len(s) : s[i] = IF i = Len(block) + 1 THEN o ELSE block[i]
  OBVIOUS
<1> HIDE DEF s
<1>3. ASSUME NEW p PROVE On(s, p) <=> On(block, p) \/ p = o
  <2>1. On(s, p) <=> \E i \in 1..Len(s) : s[i] = p
    BY <1>1, OnBlock
  <2>2. On(block, p) <=> \E i \in 1..Len(block) : block[i] = p
    BY OnBlock
  <2>3. Len(s) \in 1..Len(s) /\ s[Len(s)] = o
    BY <1>1, <1>2
  <2>4. \A i \in 1..Len(block) : i \in 1..Len(s) /\ s[i] = block[i]
    BY <1>1, <1>2
  <2>5. \A i \in 1..Len(s) : i = Len(block) + 1 \/ i \in 1..Len(block)
    BY <1>1
  <2> QED BY <1>1, <1>2, <2>1, <2>2, <2>3, <2>4, <2>5
<1> QED BY <1>1, <1>3 DEF s

(* Without its last element a block holds the same but for that. *)
LEMMA OnShortened ==
  ASSUME NEW S, NEW block \in Seq(S), block # <<>>
  PROVE  /\ Shortened(block) \in Seq(S) /\ Len(Shortened(block)) = Len(block) - 1
         /\ block[Len(block)] \in S /\ On(block, block[Len(block)])
         /\ \A p : On(Shortened(block), p) => On(block, p)
         /\ \A p : On(block, p) /\ p # block[Len(block)] => On(Shortened(block), p)
<1> DEFINE s   == Shortened(block)
           len == Len(block)
<1>1. len \in Nat /\ len > 0
  BY EmptySeq
<1>2. 1 \in Int /\ len - 1 \in Int /\ \A i \in 1..(len - 1) : block[i] \in S
  BY <1>1
<1>3. /\ s \in Seq(S) /\ Len(s) = len - 1
      /\ \A i \in 1..(len - 1) : s[i] = block[i]
  <2>1. /\ s \in Seq(S)
        /\ Len(s) = IF 1 <= len - 1 THEN len - 1 - 1 + 1 ELSE 0
        /\ \A i \in 1..(len - 1 - 1 + 1) : s[i] = block[1 + i - 1]
    <3>1. s = SubSeq(block, 1, len - 1)
      BY DEF Shortened
    <3> HIDE DEF len, s
    <3> QED BY <1>2, <3>1, SubSeqProperties
  <2>2. \A i \in 1..(len - 1) : i \in 1..(len - 1 - 1 + 1) /\ 1 + i - 1 = i
    BY <1>1
  <2> HIDE DEF s, len
  <2> QED BY <1>1, <2>1, <2>2
<1>4. block[len] \in S /\ On(block, block[len])
  BY <1>1, OnBlock
<1> HIDE DEF s, len
<1>5. ASSUME NEW p
      PROVE  (On(s, p) => On(block, p)) /\ (On(block, p) /\ p # block[len] => On(s, p))
  <2>1. On(s, p) <=> \E i \in 1..(len - 1) : s[i] = p
    BY <1>3, OnBlock
  <2>2. On(block, p) <=> \E i \in 1..len : block[i] = p
    BY OnBlock DEF len
  <2>3. \A i \in 1..len : i = len \/ i \in 1..(len - 1)
    BY <1>1
  <2>4. \A i \in 1..(len - 1) : i \in 1..len
    BY <1>1
  <2> QED BY <1>3, <2>1, <2>2, <2>3, <2>4
<1> QED BY <1>3, <1>4, <1>5 DEF s, len

LEMMA EmptyIsOff == \A o : ~On(<<>>, o)
  BY DEF On, Occurrences

(* The overflow blocks *)
OnBlocks(blocks, p) == \E k \in DOMAIN blocks : On(blocks[k], p)

Limited(blocks) ==
  blocks \in Seq(Blocks) /\ \A k \in DOMAIN blocks : Len(blocks[k]) <= BlockSize

LEMMA BlockOf ==
  ASSUME NEW blocks, Limited(blocks)
  PROVE  /\ Len(blocks) \in Nat /\ DOMAIN blocks = 1..Len(blocks)
         /\ \A k \in DOMAIN blocks : blocks[k] \in Seq(Objs)
         /\ blocks # <<>> => /\ Len(blocks) > 0 /\ 1 \in DOMAIN blocks
                             /\ Head(blocks) = blocks[1] /\ Head(blocks) \in Seq(Objs)
  BY EmptySeq DEF Limited, Blocks

(* The newest block and the others. *)
LEMMA OnHeadTail ==
  ASSUME NEW blocks, Limited(blocks), blocks # <<>>
  PROVE  /\ Limited(Tail(blocks)) /\ Len(Head(blocks)) <= BlockSize
         /\ \A p : OnBlocks(blocks, p) <=> On(Head(blocks), p) \/ OnBlocks(Tail(blocks), p)
<1>1. /\ blocks \in Seq(Blocks) /\ Len(blocks) \in Nat /\ Len(blocks) > 0
      /\ DOMAIN blocks = 1..Len(blocks) /\ Head(blocks) = blocks[1] /\ 1 \in DOMAIN blocks
      /\ \A k \in DOMAIN blocks : Len(blocks[k]) <= BlockSize
  BY BlockOf DEF Limited
<1> DEFINE t == Tail(blocks)
<1>2. t \in Seq(Blocks) /\ Len(t) = Len(blocks) - 1 /\ DOMAIN t = 1..(Len(blocks) - 1)
  BY <1>1
<1>3. \A k \in 1..(Len(blocks) - 1) : t[k] = blocks[k + 1]
  BY <1>1
<1> HIDE DEF t
<1>4. \A k \in 1..(Len(blocks) - 1) : k + 1 \in DOMAIN blocks
  BY <1>1
<1>5. \A k \in DOMAIN blocks : k = 1 \/ (k - 1 \in 1..(Len(blocks) - 1) /\ (k - 1) + 1 = k)
  BY <1>1
<1>6. Limited(t) /\ Len(Head(blocks)) <= BlockSize
  BY <1>1, <1>2, <1>3, <1>4 DEF Limited
<1>7. ASSUME NEW p
      PROVE  OnBlocks(blocks, p) <=> On(Head(blocks), p) \/ OnBlocks(t, p)
  <2>1. ASSUME OnBlocks(blocks, p) PROVE On(Head(blocks), p) \/ OnBlocks(t, p)
    <3>1. PICK k \in DOMAIN blocks : On(blocks[k], p)
      BY <2>1 DEF OnBlocks
    <3>2. k # 1 => k - 1 \in DOMAIN t /\ t[k - 1] = blocks[k]
      BY <1>2, <1>3, <1>5
    <3> QED BY <1>1, <3>1, <3>2 DEF OnBlocks
  <2>2. ASSUME On(Head(blocks), p) \/ OnBlocks(t, p) PROVE OnBlocks(blocks, p)
    BY <1>1, <1>2, <1>3, <1>4, <2>2 DEF OnBlocks
  <2> QED BY <2>1, <2>2
<1> QED BY <1>6, <1>7 DEF t

(* Another newest block. *)
LEMMA OnReplaced ==
  ASSUME NEW blocks, Limited(blocks), blocks # <<>>,
         NEW s \in Seq(Objs), Len(s) <= BlockSize,
         NEW result, result = [blocks EXCEPT ![1] = s]
  PROVE  /\ Limited(result)
         /\ \A p : OnBlocks(result, p) <=> On(s, p) \/ OnBlocks(Tail(blocks), p)
<1>1. /\ blocks \in Seq(Blocks) /\ Len(blocks) \in Nat /\ Len(blocks) > 0
      /\ DOMAIN blocks = 1..Len(blocks) /\ 1 \in DOMAIN blocks
  BY BlockOf DEF Limited
<1>2. /\ result \in Seq(Blocks) /\ DOMAIN result = DOMAIN blocks /\ Len(result) = Len(blocks)
      /\ result[1] = s /\ \A k \in DOMAIN blocks : k # 1 => result[k] = blocks[k]
  BY <1>1 DEF Blocks
<1>3. Limited(result)
  BY <1>1, <1>2 DEF Limited
<1>4. result # <<>> /\ Head(result) = s
  BY <1>1, <1>2, <1>3, EmptySeq
<1>5. Tail(result) = Tail(blocks)
  <2> DEFINE t == Tail(result)
             u == Tail(blocks)
  <2>1. /\ t \in Seq(Blocks) /\ Len(t) = Len(blocks) - 1
        /\ \A k \in 1..(Len(blocks) - 1) : t[k] = result[k + 1]
    BY <1>1, <1>2, <1>4
  <2>2. /\ u \in Seq(Blocks) /\ Len(u) = Len(blocks) - 1
        /\ \A k \in 1..(Len(blocks) - 1) : u[k] = blocks[k + 1]
    BY <1>1
  <2>3. \A k \in 1..(Len(blocks) - 1) : result[k + 1] = blocks[k + 1]
    BY <1>1, <1>2
  <2> HIDE DEF t, u
  <2>4. t = u
    BY <2>1, <2>2, <2>3, SeqEqual
  <2> QED BY <2>4 DEF t, u
<1>6. \A p : OnBlocks(result, p) <=> On(Head(result), p) \/ OnBlocks(Tail(result), p)
  BY <1>3, <1>4, OnHeadTail
<1> QED BY <1>3, <1>4, <1>5, <1>6

(* A new block. *)
LEMMA OnPushed ==
  ASSUME NEW blocks, Limited(blocks), NEW s \in Seq(Objs), Len(s) <= BlockSize,
         NEW result, result = <<s>> \o blocks
  PROVE  /\ Limited(result)
         /\ \A p : OnBlocks(result, p) <=> On(s, p) \/ OnBlocks(blocks, p)
<1>1. blocks \in Seq(Blocks) /\ <<s>> \in Seq(Blocks) /\ Len(<<s>>) = 1 /\ Len(blocks) \in Nat
  BY BlockOf DEF Limited, Blocks
<1>2. /\ result \in Seq(Blocks) /\ Len(result) = Len(blocks) + 1
      /\ \A k \in 1..(Len(blocks) + 1) : result[k] = IF k = 1 THEN s ELSE blocks[k - 1]
  BY <1>1
<1>3. DOMAIN result = 1..(Len(blocks) + 1) /\ DOMAIN blocks = 1..Len(blocks)
  BY <1>1, <1>2, LenProperties
<1>4. \A k \in DOMAIN result : k = 1 \/ (k - 1 \in DOMAIN blocks /\ result[k] = blocks[k - 1])
  BY <1>1, <1>2, <1>3
<1>5. Limited(result)
  BY <1>2, <1>3, <1>4 DEF Limited
<1>6. result # <<>> /\ Head(result) = s
  BY <1>1, <1>2, <1>3
<1>7. Tail(result) = blocks
  BY <1>1
<1>8. \A p : OnBlocks(result, p) <=> On(Head(result), p) \/ OnBlocks(Tail(result), p)
  BY <1>5, <1>6, OnHeadTail
<1> QED BY <1>5, <1>6, <1>7, <1>8

-----------------------------------------------------------------------------
(* What the operations do to the stack as a whole. *)

StackTypes == base \in Blocks /\ Len(base) <= BlockSize /\ Limited(next)

LEMMA OnStackIs ==
  ASSUME NEW o
  PROVE  /\ OnStack(o) <=> On(base, o) \/ OnBlocks(next, o)
         /\ OnStack(o)' <=> On(base', o) \/ OnBlocks(next', o)
  BY DEF OnStack, On, OnBlocks, Occurrences

(* pushExStack *)
LEMMA PushProperties ==
  ASSUME StackTypes, NEW o \in Objs, pushExStack(o)
  PROVE  StackTypes' /\ \A p : OnStack(p)' <=> OnStack(p) \/ p = o
<1>0. base \in Seq(Objs) /\ Len(base) \in Nat /\ Limited(next) /\ BlockSize \in Nat \ {0}
  BY StackAssumption DEF StackTypes, Blocks, StackAssumption
<1>1. CASE Len(base) < BlockSize
  <2>1. base' = Append(base, o) /\ next' = next
    BY <1>1 DEF pushExStack
  <2>2. /\ base' \in Seq(Objs) /\ Len(base') = Len(base) + 1
        /\ \A p : On(base', p) <=> On(base, p) \/ p = o
    BY <1>0, <2>1, OnAppended
  <2> QED BY <1>0, <1>1, <2>1, <2>2, OnStackIs DEF StackTypes, Blocks
<1>2. CASE /\ ~(Len(base) < BlockSize)
           /\ next # <<>> /\ Len(Head(next)) < BlockSize
  <2> DEFINE s == Append(Head(next), o)
  <2>1. base' = base /\ next' = [next EXCEPT ![1] = s]
    BY <1>0, <1>2, BlockOf DEF pushExStack
  <2>2. Head(next) \in Seq(Objs) /\ Len(Head(next)) \in Nat
    BY <1>0, <1>2, BlockOf
  <2>3. s \in Seq(Objs) /\ Len(s) <= BlockSize /\ \A p : On(s, p) <=> On(Head(next), p) \/ p = o
    BY <1>0, <1>2, <2>2, OnAppended
  <2> HIDE DEF s
  <2>4. /\ Limited(next')
        /\ \A p : OnBlocks(next', p) <=> On(s, p) \/ OnBlocks(Tail(next), p)
    BY <1>0, <1>2, <2>1, <2>3, OnReplaced
  <2>5. \A p : OnBlocks(next, p) <=> On(Head(next), p) \/ OnBlocks(Tail(next), p)
    BY <1>0, <1>2, OnHeadTail
  <2> QED BY <2>1, <2>3, <2>4, <2>5, OnStackIs DEF StackTypes
<1>3. CASE /\ ~(Len(base) < BlockSize)
           /\ ~(next # <<>> /\ Len(Head(next)) < BlockSize)
  <2>1. base' = base /\ next' = <<<<o>>>> \o next
    BY <1>3 DEF pushExStack
  <2> DEFINE s == <<o>>
  <2>2. s \in Seq(Objs) /\ Len(s) <= BlockSize
    BY <1>0
  <2>3. \A p : On(s, p) <=> p = o
    BY DEF On, Occurrences
  <2> HIDE DEF s
  <2>4. next' = <<s>> \o next
    BY <2>1 DEF s
  <2>5. /\ Limited(next')
        /\ \A p : OnBlocks(next', p) <=> On(s, p) \/ OnBlocks(next, p)
    BY <1>0, <2>2, <2>4, OnPushed
  <2> QED BY <2>1, <2>3, <2>5, OnStackIs DEF StackTypes
<1> QED BY <1>1, <1>2, <1>3

(* popExStack, as long as the newest block has an element. *)
LEMMA PopProperties ==
  ASSUME StackTypes, ~isExStackEmpty, ~PopsGarbage, popExStack
  PROVE  /\ StackTypes' /\ Top \in Objs /\ OnStack(Top)
         /\ \A p : OnStack(p)' => OnStack(p)
         /\ \A p : OnStack(p) /\ p # Top => OnStack(p)'
<1>0. base \in Seq(Objs) /\ Len(base) \in Nat /\ Limited(next) /\ BlockSize \in Nat \ {0}
  BY StackAssumption DEF StackTypes, Blocks, StackAssumption
<1>1. CASE next = <<>>
  <2>1. base # <<>> /\ base' = Shortened(base) /\ next' = next /\ Top = base[Len(base)]
    BY <1>1 DEF isExStackEmpty, popExStack, Top, TopBlock
  <2>2. /\ base' \in Seq(Objs) /\ Len(base') = Len(base) - 1
        /\ Top \in Objs /\ On(base, Top)
        /\ \A p : On(base', p) => On(base, p)
        /\ \A p : On(base, p) /\ p # Top => On(base', p)
    BY <1>0, <2>1, OnShortened
  <2>3. StackTypes'
    BY <1>0, <2>1, <2>2 DEF StackTypes, Blocks
  <2> HIDE DEF Top
  <2> QED BY <2>1, <2>2, <2>3, OnStackIs
<1>2. CASE next # <<>>
  <2> DEFINE h == Head(next)
             s == Shortened(h)
  <2>1. h # <<>> /\ h \in Seq(Objs) /\ Len(h) \in Nat /\ Len(h) > 0 /\ Len(h) <= BlockSize
    <3>1. h # <<>> /\ h \in Seq(Objs) /\ Len(h) <= BlockSize
      BY <1>0, <1>2, BlockOf, OnHeadTail DEF PopsGarbage
    <3> QED BY <3>1, EmptySeq
  <2>2. base' = base /\ Top = h[Len(h)]
    BY <1>2 DEF popExStack, Top, TopBlock
  <2>3. /\ s \in Seq(Objs) /\ Len(s) = Len(h) - 1
        /\ Top \in Objs /\ On(h, Top)
        /\ \A p : On(s, p) => On(h, p)
        /\ \A p : On(h, p) /\ p # Top => On(s, p)
    BY <2>1, <2>2, OnShortened
  <2>4. /\ Limited(Tail(next))
        /\ \A p : OnBlocks(next, p) <=> On(h, p) \/ OnBlocks(Tail(next), p)
    BY <1>0, <1>2, OnHeadTail
  <2> HIDE DEF h
  <2>5. CASE Len(h) > 1
    <3>1. next' = [next EXCEPT ![1] = s]
      BY <1>0, <1>2, <2>5, BlockOf DEF popExStack, h
    <3>2. Len(s) <= BlockSize
      BY <1>0, <2>1, <2>3
    <3> HIDE DEF s
    <3>3. /\ Limited(next')
          /\ \A p : OnBlocks(next', p) <=> On(s, p) \/ OnBlocks(Tail(next), p)
      BY <1>0, <1>2, <2>3, <3>1, <3>2, OnReplaced
    <3>4. StackTypes'
      BY <2>2, <3>3 DEF StackTypes
    <3> QED BY <2>2, <2>3, <2>4, <3>3, <3>4, OnStackIs
  <2>6. CASE ~(Len(h) > 1)
    <3>1. next' = Tail(next)
      BY <1>2, <2>6 DEF popExStack, h
    <3> HIDE DEF s
    <3>2. \A p : ~On(s, p)
      <4>1. s \in Seq(Objs) /\ 1..Len(s) = {}
        BY <2>1, <2>3, <2>6
      <4> QED BY <4>1, OnBlock
    <3>3. StackTypes'
      BY <2>2, <2>4, <3>1 DEF StackTypes
    <3> QED BY <2>2, <2>3, <2>4, <3>1, <3>2, <3>3, OnStackIs
  <2> QED BY <2>5, <2>6
<1> QED BY <1>1, <1>2

(* removeObjectExStack *)
LEMMA RemoveProperties ==
  ASSUME StackTypes, NEW o, removeObjectExStack(o)
  PROVE  /\ StackTypes' /\ ~OnStack(o)'
         /\ \A p : p # o => (OnStack(p)' <=> OnStack(p))
<1>1. base \in Seq(Objs) /\ Limited(next) /\ BlockSize \in Nat /\ Len(base) <= BlockSize
  BY StackAssumption DEF StackTypes, Blocks, StackAssumption
<1>2. base' = Without(base, o) /\ next' = [k \in DOMAIN next |-> Without(next[k], o)]
  BY DEF removeObjectExStack
<1>3. /\ base' \in Seq(Objs) /\ Len(base') <= Len(base) /\ ~On(base', o)
      /\ \A p : p # o => (On(base', p) <=> On(base, p))
  BY <1>1, <1>2, WithoutProperties
<1>4. DOMAIN next = 1..Len(next) /\ Len(next) \in Nat /\ DOMAIN next' = DOMAIN next
  BY <1>1, <1>2, BlockOf
<1>5. ASSUME NEW k \in DOMAIN next
      PROVE  /\ next'[k] \in Seq(Objs) /\ Len(next'[k]) <= BlockSize /\ ~On(next'[k], o)
             /\ \A p : p # o => (On(next'[k], p) <=> On(next[k], p))
  <2>1. next[k] \in Seq(Objs) /\ Len(next[k]) <= BlockSize
    BY <1>1, BlockOf DEF Limited
  <2>2. /\ Without(next[k], o) \in Seq(Objs) /\ ~On(Without(next[k], o), o)
        /\ Len(Without(next[k], o)) <= Len(next[k])
        /\ \A p : p # o => (On(Without(next[k], o), p) <=> On(next[k], p))
    BY <2>1, WithoutProperties
  <2>3. next'[k] = Without(next[k], o)
    BY <1>2
  <2>4. Len(next[k]) \in Nat /\ Len(next'[k]) \in Nat
    BY <2>1, <2>2, <2>3
  <2> QED BY <1>1, <2>1, <2>2, <2>3, <2>4
<1>6. Limited(next')
  <2>1. next' \in [1..Len(next) -> Seq(Objs)]
    BY <1>2, <1>4, <1>5
  <2> QED BY <1>4, <1>5, <2>1, IsASeq DEF Limited, Blocks
<1>7. ~OnBlocks(next', o) /\ \A p : p # o => (OnBlocks(next', p) <=> OnBlocks(next, p))
  BY <1>4, <1>5 DEF OnBlocks
<1>8. StackTypes'
  <2>1. Len(base) \in Nat /\ Len(base') \in Nat
    BY <1>1, <1>3
  <2> QED BY <1>1, <1>3, <1>6, <2>1 DEF StackTypes, Blocks
<1> QED BY <1>3, <1>7, <1>8, OnStackIs

-----------------------------------------------------------------------------
(* The invariant.  In Java the stack is empty: native code is left through *)
(* JyNI_GC_Explore only.                                                   *)

ObjTypes ==
  /\ refs \in [GcObjs -> {"free", "untracked", "reachable", "explored"}]
  /\ stub \in [CStubs -> {"free", "fresh", "initialized"}]
  /\ headed \subseteq Objs
  /\ pc \in {"java", "native", "explore"}
  /\ fault \in {"none", "popped garbage", "explored freed memory"}

LEMMA TypesAre == TypeOK <=> StackTypes /\ ObjTypes
  BY DEF TypeOK, StackTypes, Limited, ObjTypes

EmptyInJava == pc = "java" => isExStackEmpty

IInv == TypeOK /\ StackTracksObjects /\ EmptyInJava

LEMMA InitIInv == Init => IInv
<1> SUFFICES ASSUME Init PROVE IInv
  OBVIOUS
<1>1. TypeOK
  BY StackAssumption DEF Init, TypeOK, Blocks, StackAssumption
<1>2. StackTracksObjects
  <2>1. \A o : ~On(<<>>, o) /\ ~OnBlocks(<<>>, o)
    BY EmptyIsOff DEF OnBlocks
  <2>2. base = <<>> /\ next = <<>>
    BY DEF Init
  <2>3. \A o : ~OnStack(o)
    BY <2>1, <2>2, OnStackIs
  <2> QED BY <2>3 DEF Init, StackTracksObjects
<1>3. EmptyInJava
  BY DEF Init, EmptyInJava, isExStackEmpty
<1> QED BY <1>1, <1>2, <1>3 DEF IInv

(* The stack as it was is on no other object than before. *)
LEMMA SameStack ==
  ASSUME UNCHANGED stackVars
  PROVE  /\ StackTypes => StackTypes'
         /\ \A p : OnStack(p)' <=> OnStack(p)
         /\ isExStackEmpty' <=> isExStackEmpty
  BY DEF stackVars, StackTypes, OnStack, isExStackEmpty

(* No head is made for anything but an object. *)
LEMMA AllocatedObjects == Allocated \subseteq Objs
  BY DEF Allocated, Objs

LEMMA NativeStep ==
  ASSUME IInv,
         \/ \E o \in GcObjs : GCMalloc(o) \/ GCTrack(o) \/ GCUnTrack(o) \/ GCDel(o)
         \/ \E o \in CStubs : NewCStub(o) \/ InitJythonPyObject(o) \/ CStubDealloc(o)
         \/ \E o \in Objs : ReleaseHead(o)
         \/ \E R \in SUBSET Allocated, o \in GcObjs : ExploreEarly(o, R)
  PROVE  IInv'
<1>1. StackTypes /\ ObjTypes /\ StackTracksObjects
  BY TypesAre DEF IInv
<1> USE DEF Running
<1>2. pc # "java" /\ pc' = pc
  BY DEF GCMalloc, GCTrack, GCUnTrack, GCDel, NewCStub, InitJythonPyObject, CStubDealloc,
    ReleaseHead, ExploreEarly
<1>3. EmptyInJava'
  BY <1>2 DEF EmptyInJava
<1>4. SUFFICES StackTypes' /\ ObjTypes' /\ StackTracksObjects'
  <2>1. TypeOK' <=> StackTypes' /\ ObjTypes'
    BY DEF TypeOK, StackTypes, Limited, ObjTypes
  <2> QED BY <1>3, <1>4, <2>1 DEF IInv
<1>5. ASSUME NEW o \in GcObjs, GCMalloc(o) PROVE StackTypes' /\ ObjTypes' /\ StackTracksObjects'
  <2>1. UNCHANGED stackVars /\ refs[o] = "free" /\ refs' = [refs EXCEPT ![o] = "untracked"]
        /\ UNCHANGED <<stub, headed, pc, fault>>
    BY <1>5 DEF GCMalloc
  <2>2. ObjTypes'
    BY <1>1, <2>1 DEF ObjTypes
  <2>3. StackTracksObjects'
    BY <1>1, <2>1, SameStack DEF StackTracksObjects, ObjTypes
  <2> QED BY <1>1, <2>1, <2>2, <2>3, SameStack
<1>6. ASSUME NEW o \in GcObjs, GCTrack(o) PROVE StackTypes' /\ ObjTypes' /\ StackTracksObjects'
  <2>1. pushExStack(o) /\ refs' = [refs EXCEPT ![o] = "reachable"]
        /\ UNCHANGED <<stub, headed, pc, fault>>
    BY <1>6 DEF GCTrack
  <2>2. StackTypes' /\ \A p : OnStack(p)' <=> OnStack(p) \/ p = o
    BY <1>1, <2>1, PushProperties DEF Objs
  <2>3. ObjTypes'
    BY <1>1, <2>1 DEF ObjTypes
  <2>4. StackTracksObjects'
    BY <1>1, <2>1, <2>2 DEF StackTracksObjects, ObjTypes
  <2> QED BY <2>2, <2>3, <2>4
<1>7. ASSUME NEW o \in GcObjs, GCUnTrack(o) PROVE StackTypes' /\ ObjTypes' /\ StackTracksObjects'
  <2>1. removeObjectExStack(o) /\ refs' = [refs EXCEPT ![o] = "untracked"]
        /\ UNCHANGED <<stub, headed, pc, fault>>
    BY <1>7 DEF GCUnTrack
  <2>2. StackTypes' /\ ~OnStack(o)' /\ \A p : p # o => (OnStack(p)' <=> OnStack(p))
    BY <1>1, <2>1, RemoveProperties
  <2>3. ObjTypes'
    BY <1>1, <2>1 DEF ObjTypes
  <2>4. StackTracksObjects'
    BY <1>1, <2>1, <2>2 DEF StackTracksObjects, ObjTypes
  <2> QED BY <2>2, <2>3, <2>4
<1>8. ASSUME NEW o \in GcObjs, GCDel(o) PROVE StackTypes' /\ ObjTypes' /\ StackTracksObjects'
  <2>1. UNCHANGED stackVars /\ refs[o] = "untracked" /\ refs' = [refs EXCEPT ![o] = "free"]
        /\ UNCHANGED <<stub, headed, pc, fault>>
    BY <1>8 DEF GCDel
  <2>2. ObjTypes'
    BY <1>1, <2>1 DEF ObjTypes
  <2>3. StackTracksObjects'
    BY <1>1, <2>1, SameStack DEF StackTracksObjects, ObjTypes
  <2> QED BY <1>1, <2>1, <2>2, <2>3, SameStack
<1>9. ASSUME NEW o \in CStubs, NewCStub(o) \/ CStubDealloc(o)
      PROVE  StackTypes' /\ ObjTypes' /\ StackTracksObjects'
  <2>1. UNCHANGED stackVars /\ UNCHANGED <<refs, headed, pc, fault>>
        /\ (stub' = [stub EXCEPT ![o] = "fresh"] \/ stub' = [stub EXCEPT ![o] = "free"])
    BY <1>9 DEF NewCStub, CStubDealloc
  <2>2. ObjTypes'
    BY <1>1, <2>1 DEF ObjTypes
  <2> QED BY <1>1, <2>1, <2>2, SameStack DEF StackTracksObjects
<1>10. ASSUME NEW o \in CStubs, InitJythonPyObject(o)
       PROVE  StackTypes' /\ ObjTypes' /\ StackTracksObjects'
  <2>1. /\ stub' = [stub EXCEPT ![o] = "initialized"] /\ UNCHANGED <<refs, headed, pc, fault>>
        /\ UNCHANGED stackVars \/ pushExStack(o)
    BY <1>10 DEF InitJythonPyObject
  <2>2. ObjTypes'
    BY <1>1, <2>1 DEF ObjTypes
  <2>3. o \in Objs /\ o \notin GcObjs
    BY StackAssumption DEF StackAssumption, Objs
  <2>4. CASE UNCHANGED stackVars
    BY <1>1, <2>1, <2>2, <2>4, SameStack DEF StackTracksObjects
  <2>5. CASE pushExStack(o)
    <3>1. StackTypes' /\ \A p : OnStack(p)' <=> OnStack(p) \/ p = o
      BY <1>1, <2>3, <2>5, PushProperties
    <3>2. StackTracksObjects'
      BY <1>1, <2>1, <2>3, <3>1 DEF StackTracksObjects
    <3> QED BY <2>2, <3>1, <3>2
  <2> QED BY <2>1, <2>4, <2>5
<1>11. ASSUME NEW o \in Objs, ReleaseHead(o)
       PROVE  StackTypes' /\ ObjTypes' /\ StackTracksObjects'
  <2>1. UNCHANGED stackVars /\ UNCHANGED <<refs, stub, pc, fault>> /\ headed' = headed \ {o}
    BY <1>11 DEF ReleaseHead
  <2>2. ObjTypes'
    BY <1>1, <2>1 DEF ObjTypes
  <2> QED BY <1>1, <2>1, <2>2, SameStack DEF StackTracksObjects
<1>12. ASSUME NEW R \in SUBSET Allocated, NEW o \in GcObjs, ExploreEarly(o, R)
       PROVE  StackTypes' /\ ObjTypes' /\ StackTracksObjects'
  <2>1. UNCHANGED stackVars /\ UNCHANGED <<stub, pc, fault>> /\ refs[o] = "reachable"
        /\ refs' = [refs EXCEPT ![o] = "explored"] /\ headed' = headed \cup {o} \cup R
    BY <1>12 DEF ExploreEarly, ExploreObject
  <2>2. ObjTypes'
    BY <1>1, <2>1, AllocatedObjects DEF ObjTypes, Objs
  <2>3. StackTracksObjects'
    BY <1>1, <2>1, SameStack DEF StackTracksObjects, ObjTypes
  <2> QED BY <1>1, <2>1, <2>2, <2>3, SameStack
<1> QED BY <1>5, <1>6, <1>7, <1>8, <1>9, <1>10, <1>11, <1>12

LEMMA LoopStep ==
  ASSUME IInv,
         \/ EnterNative \/ StartExplore \/ ExploreFreed \/ ExploreGarbage \/ ExploreDone
         \/ \E R \in SUBSET Allocated : ExplorePop(R)
  PROVE  IInv'
<1>1. StackTypes /\ ObjTypes /\ StackTracksObjects
  BY TypesAre DEF IInv
<1> USE DEF Running
<1>2. SUFFICES StackTypes' /\ ObjTypes' /\ StackTracksObjects' /\ EmptyInJava'
  <2>1. TypeOK' <=> StackTypes' /\ ObjTypes'
    BY DEF TypeOK, StackTypes, Limited, ObjTypes
  <2> QED BY <1>2, <2>1 DEF IInv
<1>3. CASE EnterNative \/ StartExplore \/ ExploreDone
  <2>1. /\ UNCHANGED stackVars /\ UNCHANGED <<refs, stub, headed, fault>>
        /\ pc' \in {"java", "native", "explore"} /\ (pc' = "java" => isExStackEmpty)
    BY <1>3 DEF EnterNative, StartExplore, ExploreDone, objVars
  <2>2. ObjTypes'
    BY <1>1, <2>1 DEF ObjTypes
  <2> QED BY <1>1, <2>1, <2>2, SameStack DEF StackTracksObjects, EmptyInJava
<1>4. ASSUME NEW R \in SUBSET Allocated, ExplorePop(R)
      PROVE  StackTypes' /\ ObjTypes' /\ StackTracksObjects' /\ EmptyInJava'
  <2>1. /\ pc = "explore" /\ pc' = pc /\ UNCHANGED <<stub, fault>>
        /\ ~isExStackEmpty /\ ~PopsGarbage /\ popExStack
        /\ IF Unexplored(Top) THEN ExploreObject(Top, R) ELSE UNCHANGED <<refs, headed>>
    BY <1>4 DEF ExplorePop
  <2>2. /\ StackTypes' /\ Top \in Objs /\ OnStack(Top)
        /\ \A p : OnStack(p)' => OnStack(p)
        /\ \A p : OnStack(p) /\ p # Top => OnStack(p)'
    BY <1>1, <2>1, PopProperties
  <2> DEFINE t == Top
  <2>3. /\ t \in Objs /\ OnStack(t) /\ \A p : OnStack(p) /\ p # t => OnStack(p)'
        /\ IF Unexplored(t) THEN ExploreObject(t, R) ELSE UNCHANGED <<refs, headed>>
    BY <2>1, <2>2
  <2> HIDE DEF t
  <2>4. /\ refs' = refs \/ (t \in GcObjs /\ refs' = [refs EXCEPT ![t] = "explored"])
        /\ headed' \subseteq headed \cup {t} \cup R
        /\ t \in GcObjs => refs'[t] # "reachable"
    BY <1>1, <2>3 DEF ExploreObject, Unexplored, ObjTypes
  <2>5. ObjTypes'
    BY <1>1, <2>1, <2>3, <2>4, AllocatedObjects DEF ObjTypes
  <2>6. StackTracksObjects'
    BY <1>1, <2>2, <2>3, <2>4 DEF StackTracksObjects, ObjTypes
  <2> QED BY <2>1, <2>2, <2>5, <2>6 DEF EmptyInJava
<1>5. CASE ExploreFreed
  <2>1. /\ pc = "explore" /\ pc' = pc /\ UNCHANGED <<refs, stub, headed>>
        /\ fault' = "explored freed memory" /\ Top \notin Allocated
        /\ ~isExStackEmpty /\ ~PopsGarbage /\ popExStack
    BY <1>5 DEF ExploreFreed, objVars
  <2>2. /\ StackTypes' /\ Top \in Objs /\ OnStack(Top)
        /\ \A p : OnStack(p)' => OnStack(p)
        /\ \A p : OnStack(p) /\ p # Top => OnStack(p)'
    BY <1>1, <2>1, PopProperties
  <2>3. Top \notin GcObjs
    BY <1>1, <2>1, <2>2 DEF StackTracksObjects, Allocated
  <2>4. ObjTypes' /\ EmptyInJava'
    BY <1>1, <2>1 DEF ObjTypes, EmptyInJava
  <2>5. StackTracksObjects'
    BY <1>1, <2>1, <2>2, <2>3 DEF StackTracksObjects
  <2> QED BY <2>2, <2>4, <2>5
<1>6. CASE ExploreGarbage
  <2>1. /\ pc = "explore" /\ pc' = pc /\ UNCHANGED <<base, refs, stub, headed>>
        /\ fault' = "popped garbage" /\ next' = Tail(next)
        /\ next # <<>> /\ Head(next) = <<>>
    BY <1>6 DEF ExploreGarbage, PopsGarbage, objVars
  <2>2. /\ Limited(Tail(next))
        /\ \A p : OnBlocks(next, p) <=> On(Head(next), p) \/ OnBlocks(Tail(next), p)
    BY <1>1, <2>1, OnHeadTail DEF StackTypes
  <2>3. StackTypes' /\ \A p : OnStack(p)' <=> OnStack(p)
    BY <1>1, <2>1, <2>2, EmptyIsOff, OnStackIs DEF StackTypes
  <2>4. ObjTypes' /\ EmptyInJava'
    BY <1>1, <2>1 DEF ObjTypes, EmptyInJava
  <2> QED BY <1>1, <2>1, <2>3, <2>4 DEF StackTracksObjects
<1> QED BY <1>3, <1>4, <1>5, <1>6

LEMMA StepIInv == IInv /\ [Next]_vars => IInv'
<1> SUFFICES ASSUME IInv, [Next]_vars PROVE IInv'
  OBVIOUS
<1>1. CASE Next
  BY <1>1, NativeStep, LoopStep DEF Next
<1>2. CASE UNCHANGED vars
  BY <1>2 DEF vars, stackVars, objVars, IInv, TypeOK, StackTracksObjects, EmptyInJava, OnStack,
    isExStackEmpty
<1> QED BY <1>1, <1>2

LEMMA SpecIInv == Spec => []IInv
  BY InitIInv, StepIInv, PTL DEF Spec

-----------------------------------------------------------------------------
(* Theorems *)

(* pushExStack, popExStack and removeObjectExStack never fill a block      *)
(* beyond its size, and the stack holds nothing but addresses of objects.  *)
THEOREM StackTypeCorrect == Spec => []TypeOK
<1>1. IInv => TypeOK
  BY DEF IInv
<1> QED BY <1>1, SpecIInv, PTL

(* PyObject_GC_UnTrack leaves no trace of a container on the stack, however *)
(* often it was pushed, so none is on it that was deallocated; and whatever *)
(* still has to be explored is on it.                                       *)
THEOREM StackIsExact == Spec => []StackTracksObjects
<1>1. IInv => StackTracksObjects
  BY DEF IInv
<1> QED BY <1>1, SpecIInv, PTL

(* LEAVE_JyNI returns to Java with every tracked container explored. *)
THEOREM ExplorationComplete == Spec => []NothingLeftUnexplored
<1>1. IInv => NothingLeftUnexplored
  <2> SUFFICES ASSUME IInv, pc = "java"
               PROVE  isExStackEmpty /\ \A o \in GcObjs : refs[o] # "reachable"
    BY DEF NothingLeftUnexplored
  <2>1. isExStackEmpty /\ StackTracksObjects
    BY DEF IInv, EmptyInJava
  <2>2. \A o : ~OnStack(o)
    BY <2>1 DEF isExStackEmpty, OnStack, Occurrences
  <2> QED BY <2>1, <2>2 DEF StackTracksObjects
<1> QED BY <1>1, SpecIInv, PTL

(* Of what is on the stack only what is untracked or popped leaves it.     *)
LEMMA LeavingStep ==
  ASSUME IInv, [Next]_vars, NEW o \in Objs, OnStack(o), ~OnStack(o)'
  PROVE  Untracked(o) \/ Popped(o)
<1>1. StackTypes
  BY TypesAre DEF IInv
<1>2. CASE UNCHANGED stackVars
  BY <1>2, SameStack
<1>3. ASSUME NEW p \in Objs, pushExStack(p) PROVE FALSE
  BY <1>1, <1>3, PushProperties
<1>4. ASSUME NEW p \in GcObjs, GCUnTrack(p) PROVE Untracked(o)
  <2>1. removeObjectExStack(p) /\ refs[p] # "untracked" /\ refs' = [refs EXCEPT ![p] = "untracked"]
    BY <1>4 DEF GCUnTrack
  <2>2. \A q : OnStack(q) /\ q # p => OnStack(q)'
    BY <1>1, <2>1, RemoveProperties
  <2>3. o = p
    BY <2>2
  <2> QED BY <2>1, <2>3 DEF Untracked, IInv, TypeOK
<1>5. ASSUME ExploreFreed \/ \E R \in SUBSET Allocated : ExplorePop(R)
      PROVE  Popped(o)
  <2>1. ~isExStackEmpty /\ ~PopsGarbage /\ popExStack /\ pc = "explore"
    BY <1>5 DEF ExploreFreed, ExplorePop, Running
  <2>2. \A p : OnStack(p) /\ p # Top => OnStack(p)'
    BY <1>1, <2>1, PopProperties
  <2> QED BY <2>1, <2>2 DEF Popped
<1>6. CASE ExploreGarbage
  <2>1. base' = base /\ next' = Tail(next) /\ next # <<>> /\ Head(next) = <<>>
    BY <1>6 DEF ExploreGarbage, PopsGarbage
  <2>2. \A p : OnBlocks(next, p) <=> OnBlocks(Tail(next), p)
    BY <1>1, <2>1, OnHeadTail, EmptyIsOff DEF StackTypes
  <2> QED BY <2>1, <2>2, OnStackIs
<1>7. \/ UNCHANGED stackVars
      \/ \E p \in Objs : pushExStack(p)
      \/ \E p \in GcObjs : GCUnTrack(p)
      \/ ExploreFreed \/ \E R \in SUBSET Allocated : ExplorePop(R)
      \/ ExploreGarbage
  BY DEF Next, vars, EnterNative, StartExplore, ExploreDone, GCMalloc, GCTrack, GCDel, NewCStub,
    InitJythonPyObject, CStubDealloc, ReleaseHead, ExploreEarly, Objs
<1> QED BY <1>2, <1>3, <1>4, <1>5, <1>6, <1>7

(* Rearranging the blocks loses nothing, for any block size and any number *)
(* of blocks and objects.                                                  *)
THEOREM StackLosesNothing == Spec => NoEntryIsLost
<1> DEFINE Step == \A o \in Objs : OnStack(o) /\ ~OnStack(o)' => Untracked(o) \/ Popped(o)
<1>1. IInv /\ [Next]_vars => [Step]_vars
  BY LeavingStep
<1> QED BY <1>1, SpecIInv, PTL DEF Spec, NoEntryIsLost
=============================================================================
