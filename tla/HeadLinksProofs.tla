--------------------------- MODULE HeadLinksProofs ---------------------------
(***************************************************************************)
(* Proofs about the links of JyGCHeads, for any number of containers and   *)
(* items and lists of any length.                                          *)
(***************************************************************************)
EXTENDS HeadLinks, DataLemmas

LEMMA Limits ==
  MaxLen \in Nat /\ MaxLen > 0 /\ MaxLinks \in Nat /\ MaxLinks > MaxLen /\ NoItem \notin Items
BY LinksAssumption DEF LinksAssumption

Has(s, x) == \E i \in 1..Len(s) : s[i] = x

LEMMA RangeHas ==
  ASSUME NEW S, NEW s \in Seq(S)
  PROVE  \A x : x \in Range(s) <=> Has(s, x)
<1>1. DOMAIN s = 1..Len(s)
  OBVIOUS
<1> QED BY <1>1 DEF Range, Has

LEMMA BoundedSeq1 ==
  ASSUME NEW S, NEW n \in Nat, NEW s
  PROVE  s \in SeqOf(S, n) <=> s \in Seq(S) /\ Len(s) <= n
<1>1. ASSUME s \in SeqOf(S, n) PROVE s \in Seq(S) /\ Len(s) <= n
  <2>1. PICK m \in 0..n : s \in [1..m -> S]
    BY <1>1 DEF SeqOf
  <2>2. m \in Nat /\ s \in Seq(S)
    BY <2>1, IsASeq
  <2>3. DOMAIN s = 1..m /\ DOMAIN s = 1..Len(s) /\ Len(s) \in Nat
    BY <2>1, <2>2
  <2> QED BY <2>2, <2>3
<1>2. ASSUME s \in Seq(S), Len(s) <= n PROVE s \in SeqOf(S, n)
  <2>1. Len(s) \in 0..n /\ s \in [1..Len(s) -> S]
    BY <1>2
  <2> QED BY <2>1 DEF SeqOf
<1> QED BY <1>1, <1>2

LEMMA PrefixIs ==
  ASSUME NEW S, NEW s \in Seq(S), NEW t \in Seq(S),
         \A i \in 1..Len(s) : i <= Len(t) /\ t[i] = s[i]
  PROVE  IsPrefix(s, t)
<1>1. Len(s) \in Nat /\ Len(t) \in Nat /\ Len(s) <= Len(t)
  <2>1. Len(s) \in Nat /\ Len(t) \in Nat
    OBVIOUS
  <2>2. CASE Len(s) = 0
    BY <2>1, <2>2
  <2>3. CASE Len(s) # 0
    <3>1. Len(s) \in 1..Len(s)
      BY <2>1, <2>3
    <3> QED BY <2>1, <3>1
  <2> QED BY <2>2, <2>3
<1> DEFINE a == SubSeq(s, 1, Len(s))
           b == SubSeq(t, 1, Len(s))
<1>2. 1 \in Nat \ {0} /\ Len(s) <= Len(s) /\ 1 <= Len(s) + 1
  BY <1>1
<1>3. a \in Seq(S) /\ Len(a) = Len(s) - 1 + 1 /\ \A i \in 1..(Len(s) - 1 + 1) : a[i] = s[1 + i - 1]
  BY <1>1, <1>2, SubSeqOf
<1>4. b \in Seq(S) /\ Len(b) = Len(s) - 1 + 1 /\ \A i \in 1..(Len(s) - 1 + 1) : b[i] = t[1 + i - 1]
  BY <1>1, <1>2, SubSeqOf
<1> HIDE DEF a, b
<1>5. \A i \in 1..Len(a) : a[i] = b[i]
  BY <1>1, <1>3, <1>4
<1>6. a = b
  BY <1>3, <1>4, <1>5, SeqEqual
<1> QED BY <1>1, <1>6 DEF IsPrefix, a, b

-----------------------------------------------------------------------------
(* tp_traverse *)

Visit(t, x) == IF x = NoItem THEN t ELSE Append(t, x)

LEMMA VisitedLoop ==
  ASSUME NEW s \in Seq(Slots)
  PROVE  \E b \in [0..Len(s) -> Seq(Items)] :
           /\ b[0] = <<>>
           /\ \A n \in 1..Len(s) : b[n] = Visit(b[n - 1], s[n])
           /\ Visited(s) = b[Len(s)]
<1> DEFINE len == Len(s)
           step == [n \in 1..len |-> [t \in Seq(Items) |-> Visit(t, s[n])]]
           Loop(b) == b = [n \in 0..len |->
                             IF n = 0 THEN <<>>
                             ELSE IF s[n] = NoItem THEN b[n - 1] ELSE Append(b[n - 1], s[n])]
<1>1. len \in Nat /\ \A n \in 1..len : s[n] \in Slots
  OBVIOUS
<1>2. step \in [1..len -> [Seq(Items) -> Seq(Items)]]
  <2>1. ASSUME NEW n \in 1..len, NEW t \in Seq(Items) PROVE Visit(t, s[n]) \in Seq(Items)
    BY <1>1 DEF Visit, Slots
  <2> QED BY <2>1
<1>3. PICK b \in [0..len -> Seq(Items)] :
        b[0] = <<>> /\ \A n \in 1..len : b[n] = step[n][b[n - 1]]
  <2> DEFINE States == Seq(Items)
  <2>1. <<>> \in States /\ step \in [1..len -> [States -> States]]
    BY <1>2
  <2> HIDE DEF step, len, States
  <2>2. \E b \in [0..len -> States] : Iterates(b, <<>>, step, len)
    BY <1>1, <2>1, PrimitiveRecursion
  <2> QED BY <2>2 DEF States, Iterates
<1>4. \A n \in 1..len : b[n] = Visit(b[n - 1], s[n])
  <2>1. \A n \in 1..len : b[n - 1] \in Seq(Items)
    BY <1>1, <1>3
  <2> QED BY <1>3, <2>1
<1>5. Loop(b)
  <2>1. \A n \in 0..len : b[n] = IF n = 0 THEN <<>>
                              ELSE IF s[n] = NoItem THEN b[n - 1] ELSE Append(b[n - 1], s[n])
    <3>1. \A n \in 0..len : n = 0 \/ n \in 1..len
      BY <1>1
    <3> QED BY <1>3, <1>4, <3>1 DEF Visit
  <2>2. DOMAIN b = 0..len /\ b = [n \in DOMAIN b |-> b[n]]
    BY <1>3
  <2> QED BY <2>1, <2>2
<1> DEFINE c == CHOOSE f : Loop(f)
<1>6. Loop(c)
  <2> HIDE DEF Loop
  <2> QED BY <1>5
<1>7. Visited(s) = c[len]
  BY DEF Visited
<1>8. c[len] = b[len]
  <2> HIDE DEF c
  <2> DEFINE T == {n \in 0..len : c[n] = b[n]}
  <2>1. 0 \in T
    BY <1>1, <1>5, <1>6
  <2>2. ASSUME NEW n \in 1..len, n - 1 \in T PROVE n \in T
    <3>1. n \in 0..len /\ n # 0 /\ c[n - 1] = b[n - 1]
      BY <1>1, <2>2
    <3>2. c[n] = IF s[n] = NoItem THEN c[n - 1] ELSE Append(c[n - 1], s[n])
      BY <1>6, <3>1
    <3>3. b[n] = IF s[n] = NoItem THEN b[n - 1] ELSE Append(b[n - 1], s[n])
      BY <1>4 DEF Visit
    <3> QED BY <3>1, <3>2, <3>3
  <2> HIDE DEF T
  <2>3. 0..len \subseteq T
    BY <1>1, <2>1, <2>2, SetInduction
  <2> QED BY <1>1, <2>3 DEF T
<1> QED BY <1>3, <1>4, <1>7, <1>8

(* What was visited after n slots. *)
Seen(t, s, n) ==
  /\ Len(t) <= n
  /\ \A x : Has(t, x) <=> x # NoItem /\ \E i \in 1..n : s[i] = x
  /\ (\A i \in 1..n : s[i] # NoItem) => Len(t) = n /\ \A i \in 1..n : t[i] = s[i]

LEMMA SeenOne ==
  ASSUME NEW s \in Seq(Slots), NEW n \in 1..Len(s), NEW t \in Seq(Items), Seen(t, s, n - 1)
  PROVE  Seen(Visit(t, s[n]), s, n)
<1>1. /\ Len(t) \in Nat /\ n \in Nat /\ n >= 1
      /\ Len(t) <= n - 1
      /\ \A x : Has(t, x) <=> x # NoItem /\ \E i \in 1..(n - 1) : s[i] = x
      /\ (\A i \in 1..(n - 1) : s[i] # NoItem)
            => Len(t) = n - 1 /\ \A i \in 1..(n - 1) : t[i] = s[i]
  BY DEF Seen
<1>2. \A i : i \in 1..n <=> i \in 1..(n - 1) \/ i = n
  BY <1>1
<1>3. CASE s[n] = NoItem
  <2>1. Visit(t, s[n]) = t
    BY <1>3 DEF Visit
  <2> QED BY <1>1, <1>2, <1>3, <2>1 DEF Seen
<1>4. CASE s[n] # NoItem
  <2> DEFINE u == Append(t, s[n])
  <2>1. Visit(t, s[n]) = u /\ s[n] \in Items
    BY <1>4 DEF Visit, Slots
  <2>2. /\ u \in Seq(Items) /\ Len(u) = Len(t) + 1
        /\ \A i \in 1..(Len(t) + 1) : u[i] = IF i = Len(t) + 1 THEN s[n] ELSE t[i]
    BY <2>1
  <2> HIDE DEF u
  <2>3. \A x : Has(u, x) <=> Has(t, x) \/ x = s[n]
    <3>1. \A i : i \in 1..Len(u) <=> i \in 1..Len(t) \/ i = Len(t) + 1
      BY <1>1, <2>2
    <3>2. \A i \in 1..Len(t) : i # Len(t) + 1
      BY <1>1
    <3> QED BY <1>1, <2>2, <3>1, <3>2 DEF Has
  <2>4. \A x : Has(u, x) <=> x # NoItem /\ \E i \in 1..n : s[i] = x
    BY <1>1, <1>2, <1>4, <2>3
  <2>5. ASSUME \A i \in 1..n : s[i] # NoItem PROVE Len(u) = n /\ \A i \in 1..n : u[i] = s[i]
    BY <1>1, <1>2, <2>2, <2>5
  <2> QED BY <1>1, <2>1, <2>2, <2>4, <2>5 DEF Seen
<1> QED BY <1>3, <1>4

(* tp_traverse visits the references there are, and all of a list's slots. *)
LEMMA VisitedProperties ==
  ASSUME NEW s \in Seq(Slots)
  PROVE  /\ Visited(s) \in Seq(Items) /\ Len(Visited(s)) <= Len(s)
         /\ \A x : Has(Visited(s), x) <=> x # NoItem /\ Has(s, x)
         /\ ~Has(s, NoItem) => Visited(s) = s
<1>1. Len(s) \in Nat
  OBVIOUS
<1>2. PICK b \in [0..Len(s) -> Seq(Items)] :
        /\ b[0] = <<>>
        /\ \A n \in 1..Len(s) : b[n] = Visit(b[n - 1], s[n])
        /\ Visited(s) = b[Len(s)]
  BY VisitedLoop
<1> DEFINE T == {n \in 0..Len(s) : Seen(b[n], s, n)}
<1>3. 0 \in T
  BY <1>1, <1>2 DEF Seen, Has
<1>4. ASSUME NEW n \in 1..Len(s), n - 1 \in T PROVE n \in T
  <2>1. b[n - 1] \in Seq(Items) /\ Seen(b[n - 1], s, n - 1)
    BY <1>1, <1>2, <1>4
  <2> QED BY <1>2, <2>1, SeenOne
<1> HIDE DEF T
<1>5. 0..Len(s) \subseteq T
  BY <1>1, <1>3, <1>4, SetInduction
<1> DEFINE v == Visited(s)
<1>6. v \in Seq(Items) /\ Seen(v, s, Len(s))
  BY <1>1, <1>2, <1>5 DEF T
<1> HIDE DEF v
<1>7. ASSUME ~Has(s, NoItem) PROVE v = s
  <2>1. Len(v) = Len(s) /\ \A i \in 1..Len(s) : v[i] = s[i]
    BY <1>6, <1>7 DEF Seen, Has
  <2>2. v \in Seq(Slots)
    BY <1>6 DEF Slots
  <2> QED BY <2>1, <2>2, SeqEqual
<1>8. Len(v) <= Len(s) /\ \A x : Has(v, x) <=> x # NoItem /\ Has(s, x)
  BY <1>6 DEF Seen, Has
<1> QED BY <1>6, <1>7, <1>8 DEF v

-----------------------------------------------------------------------------
(* The forms of links *)

IsForm(k) ==
  /\ k \in [rep : {"none", "single", "array", "list"}, at : Seq(Slots)]
  /\ k.rep = "none" => k.at = <<>>
  /\ k.rep = "single" => \E x \in Items : k.at = <<x>>
  /\ k.rep = "array" => Len(k.at) <= MaxLen
  /\ k.rep = "list" => Len(k.at) <= MaxLinks

LEMMA FormsAre == \A k : k \in LinkForms <=> IsForm(k)
<1> USE Limits
<1>1. ASSUME NEW k, k \in LinkForms PROVE IsForm(k)
  <2>1. CASE k = NoLinks
    BY <2>1 DEF NoLinks, IsForm
  <2>2. ASSUME NEW x \in Items, k = Single(x) PROVE IsForm(k)
    BY <2>2 DEF Single, IsForm, Slots
  <2>3. ASSUME NEW s \in SeqOf(Slots, MaxLen), k = Array(s) PROVE IsForm(k)
    <3>1. s \in Seq(Slots) /\ Len(s) <= MaxLen
      BY BoundedSeq1
    <3> QED BY <2>3, <3>1 DEF Array, IsForm
  <2>4. ASSUME NEW s \in SeqOf(Slots, MaxLinks), k = List(s) PROVE IsForm(k)
    <3>1. s \in Seq(Slots) /\ Len(s) <= MaxLinks
      BY BoundedSeq1
    <3> QED BY <2>4, <3>1 DEF List, IsForm
  <2> QED BY <1>1, <2>1, <2>2, <2>3, <2>4 DEF LinkForms
<1>2. ASSUME NEW k, IsForm(k) PROVE k \in LinkForms
  <2>1. k = [rep |-> k.rep, at |-> k.at] /\ k.rep \in {"none", "single", "array", "list"}
        /\ k.at \in Seq(Slots)
    BY <1>2 DEF IsForm
  <2>2. CASE k.rep = "none"
    BY <1>2, <2>1, <2>2 DEF IsForm, LinkForms, NoLinks
  <2>3. CASE k.rep = "single"
    BY <1>2, <2>1, <2>3 DEF IsForm, LinkForms, Single
  <2>4. CASE k.rep = "array"
    <3>1. k.at \in SeqOf(Slots, MaxLen)
      BY <1>2, <2>1, <2>4, BoundedSeq1 DEF IsForm
    <3> QED BY <2>1, <2>4, <3>1 DEF LinkForms, Array
  <2>5. CASE k.rep = "list"
    <3>1. k.at \in SeqOf(Slots, MaxLinks)
      BY <1>2, <2>1, <2>5, BoundedSeq1 DEF IsForm
    <3> QED BY <2>1, <2>5, <3>1 DEF LinkForms, List
  <2> QED BY <2>1, <2>2, <2>3, <2>4, <2>5
<1> QED BY <1>1, <1>2

LEMMA FixedForms == IsForm(NoLinks) /\ \A x \in Items : IsForm(Single(x))
  BY FormsAre DEF LinkForms

LEMMA SingleLink ==
  ASSUME NEW k, IsForm(k), k.rep \in {"none", "single"}
  PROVE  Len(k.at) \in Nat /\ Len(k.at) <= 1
<1>1. CASE k.rep = "none"
  BY <1>1 DEF IsForm
<1>2. CASE k.rep = "single"
  <2>1. PICK x \in Items : k.at = <<x>>
    BY <1>2 DEF IsForm
  <2> QED BY <2>1
<1> QED BY <1>1, <1>2

LEMMA PaddedProperties ==
  ASSUME NEW s \in Seq(Slots), NEW n \in Nat
  PROVE  /\ Padded(s, n) \in Seq(Slots)
         /\ Len(Padded(s, n)) = IF n <= Len(s) THEN Len(s) ELSE n
         /\ \A i \in 1..Len(Padded(s, n)) :
              Padded(s, n)[i] = IF i <= Len(s) THEN s[i] ELSE NoItem
<1> DEFINE m == IF n <= Len(s) THEN 0 ELSE n - Len(s)
           b == Blanks(n - Len(s))
<1>1. Len(s) \in Nat /\ m \in Nat /\ 1..(n - Len(s)) = 1..m
  OBVIOUS
<1>2. b = [j \in 1..m |-> NoItem] /\ b \in [1..m -> Slots]
  BY <1>1 DEF Blanks, Slots
<1>3. b \in Seq(Slots)
  BY <1>1, <1>2, IsASeq
<1>4. Len(b) = m /\ \A j \in 1..m : b[j] = NoItem
  <2>1. DOMAIN b = 1..m /\ DOMAIN b = 1..Len(b) /\ Len(b) \in Nat
    BY <1>2, <1>3
  <2> HIDE DEF b, m
  <2> QED BY <1>1, <1>2, <2>1
<1>5. Padded(s, n) = s \o b
  BY DEF Padded
<1> HIDE DEF b
<1>6. /\ s \o b \in Seq(Slots) /\ Len(s \o b) = Len(s) + m
      /\ \A i \in 1..(Len(s) + m) : (s \o b)[i] = IF i <= Len(s) THEN s[i] ELSE b[i - Len(s)]
  BY <1>3, <1>4, ConcatProperties
<1>7. ASSUME NEW i \in 1..(Len(s) + m)
      PROVE  (s \o b)[i] = IF i <= Len(s) THEN s[i] ELSE NoItem
  <2>1. ~(i <= Len(s)) => i - Len(s) \in 1..m
    BY <1>1
  <2> QED BY <1>4, <1>6, <2>1
<1>8. Len(s) + m = IF n <= Len(s) THEN Len(s) ELSE n
  BY <1>1
<1> QED BY <1>5, <1>6, <1>7, <1>8

(* l has x at i, and otherwise what k has, with null links beyond it. *)
Sets(l, k, i, x) ==
  /\ IsForm(l) /\ (l.rep = "list" <=> k.rep = "list")
  /\ i \in 1..Len(l.at) /\ l.at[i] = x
  /\ \A j \in 1..Len(k.at) : j # i => j <= Len(l.at) /\ l.at[j] = k.at[j]
  /\ \A j \in 1..Len(l.at) : j # i /\ j > Len(k.at) => l.at[j] = NoItem

LEMMA setLinkSets ==
  ASSUME NEW k, IsForm(k), NEW index \in Nat, NEW x \in Items, index < MaxLinks, Fits(k, index)
  PROVE  /\ Sets(setLink(k, index, x), k, index + 1, x)
         /\ k.rep \in {"none", "single"} => setLink(k, index, x).rep = "single"
<1> USE Limits
<1>1. k.rep \in {"none", "single", "array", "list"} /\ k.at \in Seq(Slots) /\ Len(k.at) \in Nat
      /\ x \in Slots
  BY DEF IsForm, Slots
<1>2. CASE k.rep = "list"
  <2> DEFINE p == Padded(k.at, index + 1)
             q == [p EXCEPT ![index + 1] = x]
  <2>1. /\ p \in Seq(Slots) /\ Len(p) = IF index + 1 <= Len(k.at) THEN Len(k.at) ELSE index + 1
        /\ \A i \in 1..Len(p) : p[i] = IF i <= Len(k.at) THEN k.at[i] ELSE NoItem
    <3>1. index + 1 \in Nat
      OBVIOUS
    <3> QED BY <1>1, <3>1, PaddedProperties
  <2>2. index + 1 \in 1..Len(p) /\ Len(p) <= MaxLinks /\ Len(k.at) <= Len(p)
    BY <1>1, <1>2, <2>1 DEF IsForm
  <2> HIDE DEF p
  <2>3. /\ q \in Seq(Slots) /\ Len(q) = Len(p)
        /\ \A i \in 1..Len(p) : q[i] = IF i = index + 1 THEN x ELSE p[i]
    BY <1>1, <2>1, <2>2
  <2>4. setLink(k, index, x) = List(q)
    BY <1>2 DEF setLink, p
  <2> HIDE DEF q
  <2>5. /\ \A j \in 1..Len(k.at) : j # index + 1 => j <= Len(q) /\ q[j] = k.at[j]
        /\ \A j \in 1..Len(q) : j # index + 1 /\ j > Len(k.at) => q[j] = NoItem
        /\ index + 1 \in 1..Len(q) /\ q[index + 1] = x
    BY <1>1, <2>1, <2>2, <2>3
  <2>6. IsForm(List(q)) /\ List(q).rep = "list" /\ List(q).at = q
    BY <2>2, <2>3 DEF IsForm, List
  <2> QED BY <1>2, <2>4, <2>5, <2>6 DEF Sets
<1>3. CASE k.rep = "array"
  <2> DEFINE q == [k.at EXCEPT ![index + 1] = x]
  <2>1. index + 1 \in 1..Len(k.at) /\ Len(k.at) <= MaxLen
    BY <1>1, <1>3 DEF IsForm, Fits
  <2>2. /\ q \in Seq(Slots) /\ Len(q) = Len(k.at)
        /\ \A i \in 1..Len(k.at) : q[i] = IF i = index + 1 THEN x ELSE k.at[i]
    BY <1>1, <2>1
  <2>3. setLink(k, index, x) = Array(q)
    BY <1>3 DEF setLink
  <2> HIDE DEF q
  <2>4. IsForm(Array(q)) /\ Array(q).rep = "array" /\ Array(q).at = q
    BY <2>1, <2>2 DEF IsForm, Array
  <2> QED BY <1>1, <1>3, <2>1, <2>2, <2>3, <2>4 DEF Sets
<1>4. CASE k.rep \in {"none", "single"}
  <2>1. index = 0 /\ setLink(k, index, x) = Single(x)
    BY <1>4 DEF Fits, setLink
  <2>2. IsForm(Single(x)) /\ Single(x).rep = "single" /\ Single(x).at = <<x>>
    BY <1>1 DEF IsForm, Single
  <2>3. Len(k.at) \in Nat /\ Len(k.at) <= 1 /\ Len(<<x>>) = 1 /\ <<x>>[1] = x
    BY <1>4, SingleLink
  <2> DEFINE l == Single(x)
  <2>4. IsForm(l) /\ l.rep = "single" /\ Len(l.at) = 1 /\ l.at[1] = x
    BY <2>2, <2>3
  <2> HIDE DEF l
  <2>5. Sets(l, k, 1, x)
    <3>1. \A j \in 1..Len(k.at) : j = 1
      BY <2>3
    <3>2. \A j \in 1..Len(l.at) : j = 1
      BY <2>4
    <3>3. 1 \in 1..Len(l.at) /\ (l.rep = "list" <=> k.rep = "list")
      BY <1>4, <2>4
    <3> QED BY <2>4, <3>1, <3>2, <3>3 DEF Sets
  <2> QED BY <2>1, <2>4, <2>5 DEF l
<1> QED BY <1>1, <1>2, <1>3, <1>4

(* l is k with null links added, and has size links if it is not a single one. *)
Ensures(l, k, size) ==
  /\ IsForm(l) /\ (l.rep = "list" <=> k.rep = "list")
  /\ size = 1 /\ k.rep \in {"none", "single"} => l = k
  /\ size > 1 \/ k.rep \in {"array", "list"} =>
       l.rep \in {"array", "list"} /\ size <= Len(l.at)
  /\ Len(k.at) <= Len(l.at)
  /\ \A j \in 1..Len(k.at) : l.at[j] = k.at[j]
  /\ \A j \in 1..Len(l.at) : j > Len(k.at) => l.at[j] = NoItem

LEMMA ensureSizeEnsures ==
  ASSUME NEW k, IsForm(k), NEW size \in 1..MaxLen
  PROVE  Ensures(ensureSize(k, size), k, size)
<1> USE Limits
<1> DEFINE p == Padded(k.at, size)
           l == ensureSize(k, size)
<1>1. /\ k.rep \in {"none", "single", "array", "list"} /\ k.at \in Seq(Slots) /\ Len(k.at) \in Nat
      /\ size \in Nat
  BY DEF IsForm
<1>2. /\ p \in Seq(Slots) /\ Len(p) = IF size <= Len(k.at) THEN Len(k.at) ELSE size
      /\ \A i \in 1..Len(p) : p[i] = IF i <= Len(k.at) THEN k.at[i] ELSE NoItem
  BY <1>1, PaddedProperties
<1>3. size <= Len(p) /\ Len(k.at) <= Len(p)
  BY <1>1, <1>2
<1>4. CASE k.rep = "list"
  <2>1. l = List(p)
    BY <1>4 DEF ensureSize
  <2>2. IsForm(List(p)) /\ List(p).rep = "list" /\ List(p).at = p
    <3> HIDE DEF p
    <3> QED BY <1>1, <1>2, <1>4 DEF IsForm, List
  <2> HIDE DEF p
  <2> QED BY <1>1, <1>2, <1>3, <1>4, <2>1, <2>2 DEF Ensures
<1>5. CASE k.rep = "array" \/ (k.rep # "list" /\ size > 1)
  <2>1. l = Array(p)
    BY <1>5 DEF ensureSize
  <2>2. IsForm(Array(p)) /\ Array(p).rep = "array" /\ Array(p).at = p
    <3>1. Len(k.at) <= MaxLen
      <4>1. CASE k.rep = "array"
        BY <4>1 DEF IsForm
      <4>2. CASE k.rep \in {"none", "single"}
        <5>1. Len(k.at) \in Nat /\ Len(k.at) <= 1
          BY <4>2, SingleLink
        <5> QED BY <5>1
      <4>3. k.rep # "list"
        BY <1>5
      <4> QED BY <1>1, <4>1, <4>2, <4>3
    <3> HIDE DEF p
    <3> QED BY <1>1, <1>2, <3>1 DEF IsForm, Array
  <2> HIDE DEF p
  <2> QED BY <1>1, <1>2, <1>3, <1>5, <2>1, <2>2 DEF Ensures
<1>6. CASE k.rep \in {"none", "single"} /\ size = 1
  <2>1. l = k
    BY <1>6 DEF ensureSize
  <2> QED BY <1>1, <1>6, <2>1 DEF Ensures
<1> QED BY <1>1, <1>4, <1>5, <1>6

LEMMA visitSets ==
  ASSUME NEW k, IsForm(k), NEW size \in 1..MaxLen, NEW n \in 1..size, NEW x \in Items
  PROVE  /\ Sets(visit_updateLinks(k, n - 1, x, size), k, n, x)
         /\ size = 1 /\ k.rep \in {"none", "single"}
              => visit_updateLinks(k, n - 1, x, size).rep = "single"
<1> USE Limits
<1>1. /\ n - 1 \in Nat /\ n - 1 + 1 = n /\ n - 1 < MaxLinks
      /\ k.rep \in {"none", "single", "array", "list"} /\ Len(k.at) \in Nat
  BY DEF IsForm
<1>2. CASE Fits(k, n - 1)
  <2>1. visit_updateLinks(k, n - 1, x, size) = setLink(k, n - 1, x)
    BY <1>2 DEF visit_updateLinks
  <2>2. /\ Sets(setLink(k, n - 1, x), k, n - 1 + 1, x)
        /\ k.rep \in {"none", "single"} => setLink(k, n - 1, x).rep = "single"
    BY <1>1, <1>2, setLinkSets
  <2> QED BY <1>1, <2>1, <2>2
<1>3. CASE ~Fits(k, n - 1)
  <2> DEFINE e == ensureSize(k, size)
             l == setLink(e, n - 1, x)
  <2>1. Ensures(e, k, size)
    BY ensureSizeEnsures
  <2>2. size > 1 \/ k.rep \in {"array", "list"}
    <3>1. CASE k.rep \in {"none", "single"}
      <4>1. n - 1 # 0
        BY <1>3, <3>1 DEF Fits
      <4> QED BY <4>1
    <3> QED BY <1>1, <3>1
  <2>3. visit_updateLinks(k, n - 1, x, size) = l
    BY <1>3 DEF visit_updateLinks
  <2> HIDE DEF e
  <2>4. /\ IsForm(e) /\ (e.rep = "list" <=> k.rep = "list")
        /\ e.rep \in {"array", "list"} /\ size <= Len(e.at) /\ Len(e.at) \in Nat
    BY <2>1, <2>2 DEF Ensures, IsForm
  <2>5. Fits(e, n - 1)
    <3>1. n - 1 < Len(e.at)
      BY <1>1, <2>4
    <3> QED BY <2>4, <3>1 DEF Fits
  <2>6. Sets(l, e, n - 1 + 1, x)
    BY <1>1, <2>4, <2>5, setLinkSets
  <2> HIDE DEF l
  <2>7. Sets(l, e, n, x) /\ Len(l.at) \in Nat
    BY <1>1, <2>6 DEF Sets, IsForm
  <2>8. Sets(l, k, n, x)
    <3>1. /\ Len(k.at) <= Len(e.at)
          /\ \A j \in 1..Len(k.at) : e.at[j] = k.at[j]
          /\ \A j \in 1..Len(e.at) : j > Len(k.at) => e.at[j] = NoItem
      BY <2>1 DEF Ensures
    <3>2. /\ IsForm(l) /\ (l.rep = "list" <=> e.rep = "list")
          /\ n \in 1..Len(l.at) /\ l.at[n] = x
          /\ \A j \in 1..Len(e.at) : j # n => j <= Len(l.at) /\ l.at[j] = e.at[j]
          /\ \A j \in 1..Len(l.at) : j # n /\ j > Len(e.at) => l.at[j] = NoItem
      BY <2>7 DEF Sets
    <3>3. \A j \in 1..Len(k.at) : j # n => j <= Len(l.at) /\ l.at[j] = k.at[j]
      <4>1. \A j \in 1..Len(k.at) : j \in 1..Len(e.at)
        BY <1>1, <2>4, <3>1
      <4> QED BY <3>1, <3>2, <4>1
    <3>4. ASSUME NEW j \in 1..Len(l.at), j # n, j > Len(k.at) PROVE l.at[j] = NoItem
      <4>1. CASE j > Len(e.at)
        BY <3>2, <3>4, <4>1
      <4>2. CASE ~(j > Len(e.at))
        <5>1. j \in 1..Len(e.at)
          BY <2>4, <2>7, <4>2
        <5> QED BY <3>1, <3>2, <3>4, <5>1
      <4> QED BY <4>1, <4>2
    <3> QED BY <2>4, <3>2, <3>3, <3>4 DEF Sets
  <2>9. CASE size = 1 /\ k.rep \in {"none", "single"}
    <3>1. n - 1 = 0 /\ Fits(k, 0)
      BY <2>9 DEF Fits
    <3> QED BY <1>3, <3>1
  <2> QED BY <2>3, <2>8, <2>9
<1> QED BY <1>2, <1>3

LEMMA clearLinksProperties ==
  ASSUME NEW k, IsForm(k), NEW m \in Nat
  PROVE  LET l == clearLinksFromIndex(k, m) IN
         /\ IsForm(l) /\ l.rep = k.rep
         /\ \A j \in 1..Len(k.at) : j <= m => j <= Len(l.at) /\ l.at[j] = k.at[j]
         /\ \A j \in 1..Len(l.at) : l.at[j] = NoItem \/ (j <= Len(k.at) /\ l.at[j] = k.at[j])
<1> DEFINE l == clearLinksFromIndex(k, m)
<1> USE Limits
<1>1. k.rep \in {"none", "single", "array", "list"} /\ k.at \in Seq(Slots) /\ Len(k.at) \in Nat
  BY DEF IsForm
<1> SUFFICES
      /\ IsForm(l) /\ l.rep = k.rep
      /\ \A j \in 1..Len(k.at) : j <= m => j <= Len(l.at) /\ l.at[j] = k.at[j]
      /\ \A j \in 1..Len(l.at) : l.at[j] = NoItem \/ (j <= Len(k.at) /\ l.at[j] = k.at[j])
  OBVIOUS
<1>2. CASE l = k
  <2> HIDE DEF l
  <2> QED BY <1>1, <1>2
<1>3. CASE m < Len(k.at) /\ k.rep = "list"
  <2> DEFINE q == SubSeq(k.at, 1, m)
  <2>1. l = List(q)
    BY <1>3 DEF clearLinksFromIndex
  <2>2. q \in Seq(Slots) /\ Len(q) = m - 1 + 1 /\ \A j \in 1..(m - 1 + 1) : q[j] = k.at[1 + j - 1]
    <3>1. 1 \in Nat \ {0} /\ m <= Len(k.at) /\ 1 <= m + 1
      BY <1>1, <1>3
    <3> QED BY <1>1, <3>1, SubSeqOf
  <2> HIDE DEF q
  <2>3. Len(q) = m /\ \A j \in 1..m : q[j] = k.at[j]
    BY <2>2
  <2>4. IsForm(List(q)) /\ List(q).rep = "list" /\ List(q).at = q
    BY <1>1, <1>3, <2>2, <2>3 DEF IsForm, List
  <2> HIDE DEF l
  <2> QED BY <1>1, <1>3, <2>1, <2>3, <2>4
<1>4. CASE m < Len(k.at) /\ k.rep = "array"
  <2> DEFINE q == [j \in DOMAIN k.at |-> IF j <= m THEN k.at[j] ELSE NoItem]
  <2>1. l = Array(q)
    BY <1>4 DEF clearLinksFromIndex
  <2>2. DOMAIN k.at = 1..Len(k.at)
    BY <1>1
  <2>3. q \in Seq(Slots)
    <3>1. q \in [1..Len(k.at) -> Slots]
      BY <1>1, <2>2 DEF Slots
    <3> HIDE DEF q
    <3> QED BY <1>1, <3>1, IsASeq
  <2>4. Len(q) = Len(k.at) /\ \A j \in 1..Len(k.at) : q[j] = IF j <= m THEN k.at[j] ELSE NoItem
    <3>1. DOMAIN q = 1..Len(k.at) /\ DOMAIN q = 1..Len(q) /\ Len(q) \in Nat
      BY <2>2, <2>3
    <3>2. Len(q) = Len(k.at)
      <4> HIDE DEF q
      <4> QED BY <1>1, <3>1
    <3> QED BY <2>2, <3>2
  <2> HIDE DEF q
  <2>5. IsForm(Array(q)) /\ Array(q).rep = "array" /\ Array(q).at = q
    BY <1>1, <1>4, <2>3, <2>4 DEF IsForm, Array
  <2> HIDE DEF l
  <2> QED BY <1>1, <1>4, <2>1, <2>4, <2>5
<1>5. CASE m >= Len(k.at) \/ k.rep \in {"none", "single"}
  <2>1. ~(m < Len(k.at)) \/ (k.rep # "list" /\ k.rep # "array")
    BY <1>1, <1>5
  <2>2. l = k
    BY <2>1 DEF clearLinksFromIndex
  <2> QED BY <1>2, <2>2
<1> QED BY <1>1, <1>3, <1>4, <1>5

-----------------------------------------------------------------------------
(* updateJyGCHeadLinks *)

(* l has a link for each of v, in order, and else null and outdated links. *)
Updated(l, k, v) ==
  /\ IsForm(l) /\ (l.rep = "list" <=> k.rep = "list")
  /\ \A j \in 1..Len(v) : j <= Len(l.at) /\ l.at[j] = v[j]
  /\ \A x : Has(l.at, x) => x = NoItem \/ Has(k.at, x) \/ Has(v, x)
  /\ Len(v) <= 1 /\ k.rep \in {"none", "single"} => l.rep \in {"none", "single"}

(* The same after n of them. *)
UpdatedTo(l, k, v, n) ==
  /\ IsForm(l) /\ (l.rep = "list" <=> k.rep = "list")
  /\ \A j \in 1..n : j <= Len(l.at) /\ l.at[j] = v[j]
  /\ \A x : Has(l.at, x) => x = NoItem \/ Has(k.at, x) \/ Has(v, x)
  /\ Len(v) <= 1 /\ k.rep \in {"none", "single"} => l.rep \in {"none", "single"}

LEMMA UpdateOne ==
  ASSUME NEW k, IsForm(k), NEW v \in Seq(Items), Len(v) <= MaxLen, NEW n \in 1..Len(v),
         NEW l, UpdatedTo(l, k, v, n - 1)
  PROVE  UpdatedTo(visit_updateLinks(l, n - 1, v[n], Len(v)), k, v, n)
<1> DEFINE r == visit_updateLinks(l, n - 1, v[n], Len(v))
<1> USE Limits
<1>1. /\ Len(v) \in 1..MaxLen /\ v[n] \in Items /\ n \in Nat /\ n >= 1
      /\ IsForm(l) /\ (l.rep = "list" <=> k.rep = "list")
      /\ \A j \in 1..(n - 1) : j <= Len(l.at) /\ l.at[j] = v[j]
      /\ \A x : Has(l.at, x) => x = NoItem \/ Has(k.at, x) \/ Has(v, x)
      /\ Len(v) <= 1 /\ k.rep \in {"none", "single"} => l.rep \in {"none", "single"}
  BY DEF UpdatedTo
<1>2. /\ Sets(r, l, n, v[n])
      /\ Len(v) = 1 /\ l.rep \in {"none", "single"} => r.rep = "single"
  BY <1>1, visitSets
<1> HIDE DEF r
<1>3. /\ IsForm(r) /\ (r.rep = "list" <=> l.rep = "list")
      /\ n \in 1..Len(r.at) /\ r.at[n] = v[n]
      /\ \A j \in 1..Len(l.at) : j # n => j <= Len(r.at) /\ r.at[j] = l.at[j]
      /\ \A j \in 1..Len(r.at) : j # n /\ j > Len(l.at) => r.at[j] = NoItem
      /\ Len(r.at) \in Nat /\ Len(l.at) \in Nat
  BY <1>1, <1>2 DEF Sets, IsForm
<1>4. ASSUME NEW j \in 1..n PROVE j <= Len(r.at) /\ r.at[j] = v[j]
  <2>1. CASE j = n
    BY <1>3, <2>1
  <2>2. CASE j # n
    <3>1. j \in 1..(n - 1) /\ j \in 1..Len(l.at)
      BY <1>1, <1>3, <2>2
    <3> QED BY <1>1, <1>3, <2>2, <3>1
  <2> QED BY <2>1, <2>2
<1>5. ASSUME NEW x, Has(r.at, x) PROVE x = NoItem \/ Has(k.at, x) \/ Has(v, x)
  <2>1. PICK j \in 1..Len(r.at) : r.at[j] = x
    BY <1>5 DEF Has
  <2>2. CASE j = n
    BY <1>3, <2>1, <2>2 DEF Has
  <2>3. CASE j # n /\ j > Len(l.at)
    BY <1>3, <2>1, <2>3
  <2>4. CASE j # n /\ ~(j > Len(l.at))
    <3>1. j \in 1..Len(l.at) /\ l.at[j] = x
      BY <1>3, <2>1, <2>4
    <3>2. Has(l.at, x)
      BY <3>1 DEF Has
    <3> QED BY <1>1, <3>2
  <2> QED BY <2>2, <2>3, <2>4
<1>6. ASSUME Len(v) <= 1, k.rep \in {"none", "single"} PROVE r.rep \in {"none", "single"}
  <2>1. Len(v) = 1
    <3>1. Len(v) \in Nat /\ Len(v) >= 1
      BY <1>1
    <3>2. Len(v) <= 1
      BY <1>6
    <3>3. \A a \in Nat : a >= 1 /\ a <= 1 => a = 1
      OBVIOUS
    <3> QED BY <3>1, <3>2, <3>3, Zenon
  <2>2. l.rep \in {"none", "single"}
    BY <1>1, <1>6
  <2> QED BY <1>2, <2>1, <2>2
<1>7. UpdatedTo(r, k, v, n)
  BY <1>1, <1>3, <1>4, <1>5, <1>6 DEF UpdatedTo
<1> QED BY <1>7 DEF r

LEMMA UpdateLoop ==
  ASSUME NEW k, IsForm(k), NEW s, NEW v \in Seq(Items), v = Visited(s), Len(v) <= MaxLen
  PROVE  \E b \in [0..Len(v) -> LinkForms] :
           /\ b[0] = k
           /\ \A n \in 1..Len(v) : b[n] = visit_updateLinks(b[n - 1], n - 1, v[n], Len(v))
           /\ updateJyGCHeadLinks(k, s) = clearLinksFromIndex(b[Len(v)], Len(v))
<1> DEFINE len == Len(v)
           step == [n \in 1..len |->
                      [l \in LinkForms |-> visit_updateLinks(l, n - 1, v[n], len)]]
           Loop(b) == b = [n \in 0..len |->
                             IF n = 0 THEN k
                             ELSE visit_updateLinks(b[n - 1], n - 1, v[n], len)]
<1> USE Limits
<1>1. len \in Nat /\ len <= MaxLen /\ k \in LinkForms /\ \A n \in 1..len : v[n] \in Items
  BY FormsAre
<1>2. step \in [1..len -> [LinkForms -> LinkForms]]
  <2>1. ASSUME NEW n \in 1..len, NEW l \in LinkForms
        PROVE  visit_updateLinks(l, n - 1, v[n], len) \in LinkForms
    <3>1. IsForm(l) /\ len \in 1..MaxLen /\ v[n] \in Items
      BY <1>1, <2>1, FormsAre
    <3>2. Sets(visit_updateLinks(l, n - 1, v[n], len), l, n, v[n])
      BY <3>1, visitSets
    <3> QED BY <3>2, FormsAre DEF Sets
  <2> QED BY <2>1
<1>3. PICK b \in [0..len -> LinkForms] :
        b[0] = k /\ \A n \in 1..len : b[n] = step[n][b[n - 1]]
  <2> DEFINE States == LinkForms
  <2>1. k \in States /\ step \in [1..len -> [States -> States]]
    BY <1>1, <1>2
  <2> HIDE DEF step, len, States
  <2>2. \E b \in [0..len -> States] : Iterates(b, k, step, len)
    BY <1>1, <2>1, PrimitiveRecursion
  <2> QED BY <2>2 DEF States, Iterates
<1>4. \A n \in 1..len : b[n] = visit_updateLinks(b[n - 1], n - 1, v[n], len)
  <2>1. \A n \in 1..len : b[n - 1] \in LinkForms
    BY <1>1, <1>3
  <2> QED BY <1>3, <2>1
<1>5. Loop(b)
  <2>1. \A n \in 0..len : b[n] = IF n = 0 THEN k
                              ELSE visit_updateLinks(b[n - 1], n - 1, v[n], len)
    <3>1. \A n \in 0..len : n = 0 \/ n \in 1..len
      BY <1>1
    <3> QED BY <1>3, <1>4, <3>1
  <2>2. DOMAIN b = 0..len /\ b = [n \in DOMAIN b |-> b[n]]
    BY <1>3
  <2> QED BY <2>1, <2>2
<1> DEFINE c == CHOOSE f : Loop(f)
<1>6. Loop(c)
  <2> HIDE DEF Loop
  <2> QED BY <1>5
<1>7. updateJyGCHeadLinks(k, s) = clearLinksFromIndex(c[len], len)
  BY DEF updateJyGCHeadLinks
<1>8. c[len] = b[len]
  <2> HIDE DEF c
  <2> DEFINE T == {n \in 0..len : c[n] = b[n]}
  <2>1. 0 \in T
    BY <1>1, <1>5, <1>6
  <2>2. ASSUME NEW n \in 1..len, n - 1 \in T PROVE n \in T
    <3>1. n \in 0..len /\ n # 0 /\ c[n - 1] = b[n - 1]
      BY <1>1, <2>2
    <3>2. c[n] = visit_updateLinks(c[n - 1], n - 1, v[n], len)
      BY <1>6, <3>1
    <3> QED BY <1>4, <3>1, <3>2
  <2> HIDE DEF T
  <2>3. 0..len \subseteq T
    BY <1>1, <2>1, <2>2, SetInduction
  <2> QED BY <1>1, <2>3 DEF T
<1> QED BY <1>3, <1>4, <1>7, <1>8

(* An update of all links leaves a link for each reference, in the order   *)
(* of the traversal, and no link but to what was or is referred to.        *)
LEMMA UpdateProperties ==
  ASSUME NEW k, IsForm(k), NEW s \in Seq(Slots), Len(s) <= MaxLen
  PROVE  Updated(updateJyGCHeadLinks(k, s), k, Visited(s))
<1> USE Limits
<1> DEFINE v == Visited(s)
           m == Len(v)
           r == updateJyGCHeadLinks(k, s)
<1>1. v \in Seq(Items) /\ m \in Nat /\ m <= MaxLen
  BY VisitedProperties
<1>2. PICK b \in [0..m -> LinkForms] :
        /\ b[0] = k
        /\ \A n \in 1..m : b[n] = visit_updateLinks(b[n - 1], n - 1, v[n], m)
        /\ r = clearLinksFromIndex(b[m], m)
  <2> DEFINE u == v
  <2>1. u \in Seq(Items) /\ u = Visited(s) /\ Len(u) <= MaxLen
    BY <1>1
  <2> HIDE DEF u
  <2>2. \E b \in [0..Len(u) -> LinkForms] :
           /\ b[0] = k
           /\ \A n \in 1..Len(u) : b[n] = visit_updateLinks(b[n - 1], n - 1, u[n], Len(u))
           /\ updateJyGCHeadLinks(k, s) = clearLinksFromIndex(b[Len(u)], Len(u))
    BY <2>1, UpdateLoop
  <2> QED BY <2>2 DEF u
<1> HIDE DEF r
<1> DEFINE T == {n \in 0..m : UpdatedTo(b[n], k, v, n)}
<1> HIDE DEF v
<1>3. 0 \in T
  BY <1>1, <1>2 DEF UpdatedTo
<1>4. ASSUME NEW n \in 1..m, n - 1 \in T PROVE n \in T
  <2>1. UpdatedTo(b[n - 1], k, v, n - 1)
    BY <1>4
  <2>2. UpdatedTo(visit_updateLinks(b[n - 1], n - 1, v[n], m), k, v, n)
    BY <1>1, <2>1, UpdateOne
  <2> QED BY <1>2, <2>2
<1> HIDE DEF T
<1>5. 0..m \subseteq T
  BY <1>1, <1>3, <1>4, SetInduction
<1> DEFINE l == b[m]
<1>6. UpdatedTo(l, k, v, m)
  BY <1>1, <1>5 DEF T
<1> HIDE DEF l
<1>7. /\ IsForm(l) /\ (l.rep = "list" <=> k.rep = "list")
      /\ \A j \in 1..m : j <= Len(l.at) /\ l.at[j] = v[j]
      /\ \A x : Has(l.at, x) => x = NoItem \/ Has(k.at, x) \/ Has(v, x)
      /\ m <= 1 /\ k.rep \in {"none", "single"} => l.rep \in {"none", "single"}
  BY <1>6 DEF UpdatedTo
<1>8. /\ IsForm(r) /\ r.rep = l.rep
      /\ \A j \in 1..Len(l.at) : j <= m => j <= Len(r.at) /\ r.at[j] = l.at[j]
      /\ \A j \in 1..Len(r.at) : r.at[j] = NoItem \/ (j <= Len(l.at) /\ r.at[j] = l.at[j])
  <2>1. r = clearLinksFromIndex(l, m)
    BY <1>2 DEF l
  <2> QED BY <1>1, <1>7, <2>1, clearLinksProperties
<1>9. Len(l.at) \in Nat /\ Len(r.at) \in Nat
  BY <1>7, <1>8 DEF IsForm
<1>10. \A j \in 1..m : j <= Len(r.at) /\ r.at[j] = v[j]
  <2>1. \A j \in 1..m : j \in 1..Len(l.at) /\ j <= m
    BY <1>1, <1>7, <1>9
  <2> QED BY <1>7, <1>8, <2>1
<1>11. ASSUME NEW x, Has(r.at, x) PROVE x = NoItem \/ Has(k.at, x) \/ Has(v, x)
  <2>1. PICK j \in 1..Len(r.at) : r.at[j] = x
    BY <1>11 DEF Has
  <2>2. CASE j <= Len(l.at) /\ r.at[j] = l.at[j]
    <3>1. j \in 1..Len(l.at) /\ l.at[j] = x
      BY <1>9, <2>1, <2>2
    <3>2. Has(l.at, x)
      BY <3>1 DEF Has
    <3> QED BY <1>7, <3>2
  <2> QED BY <1>8, <2>1, <2>2
<1>12. Updated(r, k, v)
  BY <1>7, <1>8, <1>10, <1>11 DEF Updated
<1> QED BY <1>12 DEF r, v

-----------------------------------------------------------------------------
(* insertLink, exploreJyGCHeadLinks *)

(* r has x at the index, the links of k that were there moved on, unless   *)
(* the index is behind all links.                                          *)
Inserted(r, k, index, x) ==
  /\ IsForm(r) /\ r.rep = "list"
  /\ index <= Len(k.at) =>
       /\ Len(r.at) = Len(k.at) + 1
       /\ \A j \in 1..(Len(k.at) + 1) :
            r.at[j] = IF j < index + 1 THEN k.at[j]
                      ELSE IF j = index + 1 THEN x ELSE k.at[j - 1]
  /\ \A y : Has(r.at, y) => y = NoItem \/ Has(k.at, y) \/ y = x

LEMMA InsertProperties ==
  ASSUME NEW k, IsForm(k), k.rep = "list", Len(k.at) < MaxLinks,
         NEW size \in 1..MaxLen, NEW index \in Nat, index < MaxLen, NEW x \in Items
  PROVE  Inserted(updateInsertJyGCHeadLink(k, index, x, size), k, index, x)
<1> USE Limits
<1> DEFINE r == updateInsertJyGCHeadLink(k, index, x, size)
<1> SUFFICES Inserted(r, k, index, x)
  OBVIOUS
<1>1. k.at \in Seq(Slots) /\ Len(k.at) \in Nat /\ x \in Slots /\ index \in Nat /\ size \in Nat
  BY DEF IsForm, Slots
<1>2. ASSUME NEW l, IsForm(l), l.rep = "list", Len(l.at) < MaxLinks, index <= Len(l.at),
             r = insertLink(l, index, x)
      PROVE  /\ IsForm(r) /\ r.rep = "list" /\ Len(r.at) = Len(l.at) + 1 /\ Len(l.at) \in Nat
             /\ \A j \in 1..(Len(l.at) + 1) :
                  r.at[j] = IF j < index + 1 THEN l.at[j]
                            ELSE IF j = index + 1 THEN x ELSE l.at[j - 1]
             /\ \A y : Has(r.at, y) => Has(l.at, y) \/ y = x
  <2> DEFINE t == l.at
             q == InsertAt(t, index + 1, x)
  <2>1. t \in Seq(Slots) /\ Len(t) \in Nat /\ Len(t) < MaxLinks /\ index <= Len(t)
    BY <1>2 DEF IsForm
  <2> HIDE DEF t
  <2>2. index + 1 \in 1..(Len(t) + 1) /\ x \in Slots
    BY <1>1, <2>1
  <2>3. /\ q \in Seq(Slots) /\ Len(q) = Len(t) + 1
        /\ \A j \in 1..(Len(t) + 1) :
             q[j] = IF j < index + 1 THEN t[j] ELSE IF j = index + 1 THEN x ELSE t[j - 1]
    <3> DEFINE i == index + 1
    <3>1. i \in 1..(Len(t) + 1)
      BY <2>2
    <3> HIDE DEF i
    <3>2. /\ InsertAt(t, i, x) \in Seq(Slots) /\ Len(InsertAt(t, i, x)) = Len(t) + 1
          /\ \A j \in 1..(Len(t) + 1) :
               InsertAt(t, i, x)[j] = IF j < i THEN t[j] ELSE IF j = i THEN x ELSE t[j - 1]
      BY <2>1, <2>2, <3>1, InsertAtProperties
    <3> QED BY <3>2 DEF i
  <2>4. r = List(q)
    BY <1>2 DEF insertLink, t
  <2> HIDE DEF q
  <2>5. IsForm(r) /\ r.rep = "list" /\ r.at = q
    BY <2>1, <2>3, <2>4 DEF IsForm, List
  <2>6. ASSUME NEW y, Has(q, y) PROVE Has(t, y) \/ y = x
    <3>1. PICK j \in 1..Len(q) : q[j] = y
      BY <2>6 DEF Has
    <3>2. CASE j < index + 1
      <4>1. j \in 1..Len(t) /\ t[j] = y
        BY <1>1, <2>1, <2>3, <3>1, <3>2
      <4> QED BY <4>1 DEF Has
    <3>3. CASE j = index + 1
      BY <1>1, <2>1, <2>3, <3>1, <3>3
    <3>4. CASE j > index + 1
      <4>1. j - 1 \in 1..Len(t) /\ t[j - 1] = y
        BY <1>1, <2>1, <2>3, <3>1, <3>4
      <4> QED BY <4>1 DEF Has
    <3> QED BY <1>1, <2>1, <2>3, <3>2, <3>3, <3>4
  <2> QED BY <2>1, <2>3, <2>5, <2>6 DEF t
<1>3. CASE index <= Len(k.at)
  <2>1. r = insertLink(k, index, x)
    BY <1>3 DEF updateInsertJyGCHeadLink
  <2> HIDE DEF r
  <2>2. /\ IsForm(r) /\ r.rep = "list" /\ Len(r.at) = Len(k.at) + 1
        /\ \A j \in 1..(Len(k.at) + 1) :
             r.at[j] = IF j < index + 1 THEN k.at[j]
                       ELSE IF j = index + 1 THEN x ELSE k.at[j - 1]
        /\ \A y : Has(r.at, y) => Has(k.at, y) \/ y = x
    BY <1>2, <1>3, <2>1
  <2>3. index + 1 \in 1..(Len(k.at) + 1)
    BY <1>1, <1>3
  <2> QED BY <1>1, <1>3, <2>2, <2>3 DEF Inserted
<1>4. CASE ~(index <= Len(k.at))
  <2> DEFINE e == ensureSize(k, size)
             p == Padded(k.at, size)
  <2>1. e = List(p) /\ r = IF index <= Len(e.at) THEN insertLink(e, index, x) ELSE e
    <3>1. e = List(p)
      BY DEF ensureSize
    <3> HIDE DEF p
    <3>2. r = IF index <= Len(e.at) THEN insertLink(e, index, x) ELSE e
      BY <1>4 DEF updateInsertJyGCHeadLink
    <3> QED BY <3>1, <3>2
  <2> HIDE DEF r
  <2>2. /\ p \in Seq(Slots) /\ Len(p) = IF size <= Len(k.at) THEN Len(k.at) ELSE size
        /\ \A i \in 1..Len(p) : p[i] = IF i <= Len(k.at) THEN k.at[i] ELSE NoItem
    BY <1>1, PaddedProperties
  <2>3. Len(p) \in Nat /\ Len(p) < MaxLinks
    BY <1>1, <2>2
  <2> HIDE DEF p
  <2>4. IsForm(e) /\ e.rep = "list" /\ e.at = p
    BY <2>1, <2>2, <2>3 DEF IsForm, List
  <2> HIDE DEF e
  <2>5. ASSUME NEW y, Has(e.at, y) PROVE y = NoItem \/ Has(k.at, y)
    <3>1. PICK j \in 1..Len(p) : p[j] = y
      BY <2>4, <2>5 DEF Has
    <3>2. j <= Len(k.at) => j \in 1..Len(k.at)
      BY <1>1
    <3> QED BY <2>2, <3>1, <3>2 DEF Has
  <2>6. CASE index <= Len(e.at)
    <3>1. /\ IsForm(r) /\ r.rep = "list"
          /\ \A y : Has(r.at, y) => Has(e.at, y) \/ y = x
      BY <1>2, <2>1, <2>3, <2>4, <2>6
    <3> QED BY <1>4, <2>5, <3>1 DEF Inserted
  <2>7. CASE ~(index <= Len(e.at))
    BY <1>4, <2>1, <2>4, <2>5, <2>7 DEF Inserted
  <2> QED BY <2>6, <2>7
<1> QED BY <1>3, <1>4

(* The links of a container just explored are what tp_traverse visits. *)
LEMMA ExploreProperties ==
  ASSUME NEW type \in {"list", "cell", "peer"}, NEW s \in Seq(Slots), Len(s) <= MaxLen,
         type = "cell" => Len(s) = 1,
         NEW r, r = exploreJyGCHeadLinks(type, s)
  PROVE  /\ IsForm(r) /\ (r.rep = "list" <=> type = "list")
         /\ type = "cell" => r.rep \in {"none", "single"}
         /\ r.at = Visited(s)
<1> USE Limits
<1> DEFINE v == Visited(s)
<1>1. v \in Seq(Items) /\ Len(v) \in Nat /\ Len(v) <= Len(s) /\ Len(s) \in Nat
  BY VisitedProperties
<1>2. /\ type = "list" => r = List(v)
      /\ type # "list" /\ Len(v) = 1 => r = Single(v[1])
      /\ type = "cell" /\ Len(v) = 0 => r = NoLinks
      /\ type # "list" /\ Len(v) # 1 /\ ~(type = "cell" /\ Len(v) = 0) => r = Array(v)
  BY DEF exploreJyGCHeadLinks
<1> HIDE DEF v
<1>3. v \in Seq(Slots)
  BY <1>1 DEF Slots
<1>4. CASE type = "list"
  BY <1>1, <1>2, <1>3, <1>4 DEF IsForm, List, v
<1>5. CASE type # "list" /\ Len(v) = 1
  <2>1. PICK x \in Items : x = v[1]
    <3>1. Len(v) = 1
      BY <1>5
    <3>2. v[1] \in Items
      BY <1>1, <3>1
    <3> QED BY <3>2
  <2>2. v = <<x>>
    <3>1. <<x>> \in Seq(Items) /\ Len(<<x>>) = 1 /\ <<x>>[1] = x
      OBVIOUS
    <3>2. \A i \in 1..Len(v) : v[i] = <<x>>[i]
      BY <1>5, <2>1, <3>1
    <3> QED BY <1>1, <1>5, <3>1, <3>2, SeqEqual
  <2>3. r.rep = "single" /\ r.at = <<x>>
    BY <1>2, <1>5, <2>1 DEF Single
  <2>4. IsForm(r)
    <3>1. r = Single(x)
      BY <1>2, <1>5, <2>1
    <3> QED BY <3>1, FixedForms
  <2> QED BY <1>5, <2>2, <2>3, <2>4 DEF v
<1>6. CASE type = "cell" /\ Len(v) = 0
  <2>1. v = <<>>
    BY <1>1, <1>6
  <2>2. r.rep = "none" /\ r.at = <<>>
    BY <1>2, <1>6 DEF NoLinks
  <2>3. IsForm(r)
    <3>1. r = NoLinks
      BY <1>2, <1>6
    <3> QED BY <3>1, FixedForms
  <2> QED BY <1>6, <2>1, <2>2, <2>3 DEF v
<1>7. CASE type # "list" /\ Len(v) # 1 /\ ~(type = "cell" /\ Len(v) = 0)
  <2>1. type # "cell"
    BY <1>1, <1>7
  <2>2. r.rep = "array" /\ r.at = v /\ IsForm(r)
    BY <1>1, <1>2, <1>3, <1>7 DEF Array, IsForm
  <2> QED BY <1>7, <2>1, <2>2 DEF v
<1> QED BY <1>4, <1>5, <1>6, <1>7

-----------------------------------------------------------------------------
(* The inductive invariant *)

(* Of a container of kind kd with slots s, explored or not, links k and a  *)
(* pending write p.                                                        *)
Sound(kd, s, e, k, p) ==
  /\ kd \in {"list", "cell", "peer"} /\ e \in BOOLEAN
  /\ s \in Seq(Slots) /\ Len(s) <= MaxLen
  /\ kd = "cell" => Len(s) = 1
  /\ IsForm(k) /\ (k.rep = "list" <=> kd = "list" /\ e)
  /\ ~e => k = NoLinks
  /\ kd = "cell" => k.rep \in {"none", "single"}
  /\ p = NoWrite \/ (p \in [index : 1..MaxLen, item : Items] /\ kd = "list")

(* If every change was followed by an update (t): while a write is pending *)
(* its slot holds the item, and only its link may be outdated.             *)
Aligned(kd, s, e, k, t, p) ==
  /\ t /\ p # NoWrite => p.index \in 1..Len(s) /\ s[p.index] = p.item
  /\ e /\ t /\ kd = "list" =>
       /\ ~Has(s, NoItem)
       /\ \A i \in 1..Len(s) : (p # NoWrite /\ i = p.index) \/ (i <= Len(k.at) /\ k.at[i] = s[i])
  /\ e /\ t /\ kd # "list" => \A x : Has(s, x) => x = NoItem \/ Has(k.at, x)

(* New links lead to what old ones led to, or what is referred to. *)
Learns(k, l, s) == \A x : Has(l.at, x) => x = NoItem \/ Has(k.at, x) \/ Has(s, x)

IsFun(f)  == f = [c \in Containers |-> f[c]]
Functions == IsFun(items) /\ IsFun(explored) /\ IsFun(links) /\ IsFun(told) /\ IsFun(pending)

Each(c) ==
  /\ told[c] \in BOOLEAN /\ Sound(kind[c], items[c], explored[c], links[c], pending[c])
  /\ Aligned(kind[c], items[c], explored[c], links[c], told[c], pending[c])

CycleTypes ==
  busy \in BOOLEAN /\ left \subseteq Containers /\ delayFinalization \in BOOLEAN /\ forced \in BOOLEAN

IInv == kind \in Kinds /\ Functions /\ (\A c \in Containers : Each(c)) /\ CycleTypes

LEMMA InitIInv == Init => IInv
<1> SUFFICES ASSUME Init PROVE IInv
  OBVIOUS
<1> USE Limits
<1>1. kind \in Kinds /\ kind \in [Containers -> {"list", "cell", "peer"}]
  BY LinksAssumption DEF Init, LinksAssumption
<1>2. Functions
  BY DEF Init, Functions, IsFun
<1>3. PICK size \in [Containers -> 0..MaxLen] :
        /\ \A c \in Containers : kind[c] = "cell" => size[c] = 1
        /\ items = [c \in Containers |-> Blanks(size[c])]
  BY DEF Init
<1>4. ASSUME NEW c \in Containers PROVE Each(c)
  <2>1. /\ explored[c] = FALSE /\ links[c] = NoLinks /\ told[c] = TRUE /\ pending[c] = NoWrite
        /\ kind[c] \in {"list", "cell", "peer"}
    BY <1>1 DEF Init
  <2> DEFINE n == size[c]
             b == Blanks(n)
  <2>2. items[c] = b /\ n \in 0..MaxLen /\ n \in Nat /\ (kind[c] = "cell" => n = 1)
    BY <1>3
  <2>3. b \in Seq(Slots) /\ Len(b) = n
    <3> HIDE DEF n
    <3>1. b \in [1..n -> Slots]
      BY DEF Blanks, Slots
    <3> HIDE DEF b
    <3>2. b \in Seq(Slots)
      BY <2>2, <3>1, IsASeq
    <3>3. DOMAIN b = 1..n /\ DOMAIN b = 1..Len(b) /\ Len(b) \in Nat
      BY <3>1, <3>2
    <3> QED BY <2>2, <3>2, <3>3
  <2> HIDE DEF b, n
  <2>4. IsForm(NoLinks) /\ NoLinks.rep = "none"
    BY FixedForms DEF NoLinks
  <2>5. Sound(kind[c], items[c], explored[c], links[c], pending[c])
    <3>1. items[c] \in Seq(Slots) /\ Len(items[c]) <= MaxLen /\ (kind[c] = "cell" => Len(items[c]) = 1)
      BY <2>2, <2>3
    <3> QED BY <2>1, <2>4, <3>1 DEF Sound
  <2>6. Aligned(kind[c], items[c], explored[c], links[c], told[c], pending[c])
    BY <2>1 DEF Aligned
  <2> QED BY <2>1, <2>5, <2>6 DEF Each
<1>5. CycleTypes
  BY DEF Init, CycleTypes
<1> QED BY <1>1, <1>2, <1>4, <1>5 DEF IInv

(* New values of a container that are as they should be. *)
Good(c, s, k, t, p) ==
  /\ t \in BOOLEAN /\ Sound(kind[c], s, explored[c], k, p)
  /\ Aligned(kind[c], s, explored[c], k, t, p)
  /\ ~explored[c] => k = links[c]
  /\ t /\ p = NoWrite => Learns(links[c], k, s)

Same(d) ==
  items'[d] = items[d] /\ links'[d] = links[d] /\ told'[d] = told[d] /\ pending'[d] = pending[d]

Others(c) == \A d \in Containers \ {c} : Same(d)

(* A step of one container. *)
HeapStep(c) ==
  /\ UNCHANGED <<kind, explored>> /\ Functions' /\ Others(c)
  /\ Good(c, items'[c], links'[c], told'[c], pending'[c])

LEMMA HeapStepOf ==
  ASSUME IInv, NEW c \in Containers, NEW s, NEW k, NEW t, NEW p, Good(c, s, k, t, p),
         UNCHANGED <<kind, explored>>,
         items' = [items EXCEPT ![c] = s], links' = [links EXCEPT ![c] = k],
         told' = [told EXCEPT ![c] = t], pending' = [pending EXCEPT ![c] = p]
  PROVE  HeapStep(c)
<1>1. Functions
  BY DEF IInv
<1>2. Functions' /\ Others(c)
  BY <1>1 DEF Functions, IsFun, Others, Same
<1>3. items'[c] = s /\ links'[c] = k /\ told'[c] = t /\ pending'[c] = p
  BY <1>1 DEF Functions, IsFun
<1> QED BY <1>2, <1>3 DEF HeapStep

LEMMA SameValue ==
  ASSUME NEW f, IsFun(f), NEW c \in Containers
  PROVE  [f EXCEPT ![c] = f[c]] = f
  BY DEF IsFun

(* The invariant survives if all changed containers are good. *)
LEMMA GoodSteps ==
  ASSUME IInv, UNCHANGED <<kind, explored>>, Functions',
         \A d \in Containers : Same(d) \/ Good(d, items'[d], links'[d], told'[d], pending'[d])
  PROVE  kind' \in Kinds /\ Functions' /\ \A d \in Containers : Each(d)'
<1>1. ASSUME NEW d \in Containers PROVE Each(d)'
  <2>1. CASE Good(d, items'[d], links'[d], told'[d], pending'[d])
    BY <2>1 DEF Good, Each
  <2>2. CASE Same(d)
    BY <2>2 DEF Same, Each, IInv
  <2> QED BY <2>1, <2>2
<1> QED BY <1>1 DEF IInv

LEMMA HeapStepEach ==
  ASSUME IInv, NEW c \in Containers, HeapStep(c)
  PROVE  kind' \in Kinds /\ Functions' /\ \A d \in Containers : Each(d)'
<1>1. \A d \in Containers : Same(d) \/ Good(d, items'[d], links'[d], told'[d], pending'[d])
  BY DEF HeapStep, Others
<1> QED BY <1>1, GoodSteps DEF HeapStep

LEMMA EachIs ==
  ASSUME IInv, NEW c \in Containers
  PROVE  /\ Sound(kind[c], items[c], explored[c], links[c], pending[c]) /\ told[c] \in BOOLEAN
         /\ Aligned(kind[c], items[c], explored[c], links[c], told[c], pending[c])
         /\ items[c] \in Seq(Slots) /\ Len(items[c]) \in Nat /\ Len(items[c]) <= MaxLen
         /\ DOMAIN items[c] = 1..Len(items[c])
         /\ IsForm(links[c]) /\ links[c].at \in Seq(Slots) /\ Len(links[c].at) \in Nat
         /\ explored[c] \in BOOLEAN
<1>1. Each(c)
  BY DEF IInv
<1>2. Sound(kind[c], items[c], explored[c], links[c], pending[c])
  BY <1>1 DEF Each
<1>3. /\ items[c] \in Seq(Slots) /\ Len(items[c]) <= MaxLen
      /\ IsForm(links[c]) /\ explored[c] \in BOOLEAN
  BY <1>2 DEF Sound
<1>4. links[c].at \in Seq(Slots)
  BY <1>3 DEF IsForm
<1> QED BY <1>1, <1>2, <1>3, <1>4 DEF Each

LEMMA SameValues ==
  ASSUME IInv, NEW c \in Containers
  PROVE  /\ items = [items EXCEPT ![c] = items[c]] /\ links = [links EXCEPT ![c] = links[c]]
         /\ told = [told EXCEPT ![c] = told[c]] /\ pending = [pending EXCEPT ![c] = pending[c]]
  BY SameValue DEF IInv, Functions

(* No empty slot is visited as one. *)
LEMMA DenseIs ==
  ASSUME NEW c, NEW s \in Seq(Slots)
  PROVE  Dense(c, s) <=> (kind[c] = "list" => ~Has(s, NoItem))
BY RangeHas DEF Dense

-----------------------------------------------------------------------------
(* One lemma per action *)

LEMMA SetItemGood ==
  ASSUME IInv, NEW c \in Containers, SetItem(c)
  PROVE  HeapStep(c)
<1> USE Limits
<1>1. PICK j \in DOMAIN items[c], x \in Items :
        /\ items' = [items EXCEPT ![c] = [items[c] EXCEPT ![j] = x]]
        /\ pending' = [pending EXCEPT ![c] = [index |-> j, item |-> x]]
  BY DEF SetItem, Write
<1>2. kind[c] = "list" /\ pending[c] = NoWrite /\ UNCHANGED <<kind, explored, links, told>>
  BY DEF SetItem
<1> DEFINE s == items[c]
           q == [s EXCEPT ![j] = x]
           w == [index |-> j, item |-> x]
<1>3. /\ Sound(kind[c], s, explored[c], links[c], pending[c]) /\ told[c] \in BOOLEAN
      /\ Aligned(kind[c], s, explored[c], links[c], told[c], pending[c])
      /\ s \in Seq(Slots) /\ Len(s) <= MaxLen /\ Len(s) \in Nat /\ j \in 1..Len(s)
  BY EachIs
<1> HIDE DEF s
<1>4. /\ q \in Seq(Slots) /\ Len(q) = Len(s)
      /\ \A i \in 1..Len(s) : q[i] = IF i = j THEN x ELSE s[i]
  BY <1>3 DEF Slots
<1> HIDE DEF q
<1>5. w.index = j /\ w.item = x /\ w # NoWrite /\ w \in [index : 1..MaxLen, item : Items]
  BY <1>3 DEF NoWrite
<1> HIDE DEF w
<1>6. Sound(kind[c], q, explored[c], links[c], w)
  BY <1>2, <1>3, <1>4, <1>5 DEF Sound
<1>7. Aligned(kind[c], q, explored[c], links[c], told[c], w)
  <2>1. ~Has(s, NoItem) => ~Has(q, NoItem)
    BY <1>4 DEF Has
  <2> QED BY <1>2, <1>3, <1>4, <1>5, <2>1 DEF Aligned
<1>8. Good(c, q, links[c], told[c], w)
  BY <1>3, <1>5, <1>6, <1>7 DEF Good
<1>9. links' = [links EXCEPT ![c] = links[c]] /\ told' = [told EXCEPT ![c] = told[c]]
  BY <1>2, SameValues
<1>10. items' = [items EXCEPT ![c] = q] /\ pending' = [pending EXCEPT ![c] = w]
  BY <1>1 DEF q, w, s
<1> QED BY <1>2, <1>8, <1>9, <1>10, HeapStepOf

(* q is s but for x in slot j. *)
Wrote(q, s, j, x) ==
  /\ q \in Seq(Slots) /\ Len(q) = Len(s)
  /\ \A i \in 1..Len(s) : q[i] = IF i = j THEN x ELSE s[i]
  /\ Has(q, x) /\ (~Has(s, NoItem) /\ x # NoItem => ~Has(q, NoItem))

LEMMA WriteSlot ==
  ASSUME NEW s \in Seq(Slots), NEW j \in 1..Len(s), NEW x \in Slots
  PROVE  Wrote([s EXCEPT ![j] = x], s, j, x)
<1> DEFINE q == [s EXCEPT ![j] = x]
<1>1. /\ q \in Seq(Slots) /\ Len(q) = Len(s)
      /\ \A i \in 1..Len(s) : q[i] = IF i = j THEN x ELSE s[i]
  OBVIOUS
<1> HIDE DEF q
<1>2. Wrote(q, s, j, x)
  BY <1>1 DEF Has, Wrote
<1> QED BY <1>2 DEF q

LEMMA SetsLearns ==
  ASSUME NEW l, NEW k, IsForm(k), NEW i, NEW x, Sets(l, k, i, x)
  PROVE  \A y : Has(l.at, y) => y = NoItem \/ Has(k.at, y) \/ y = x
<1> SUFFICES ASSUME NEW y, Has(l.at, y) PROVE y = NoItem \/ Has(k.at, y) \/ y = x
  OBVIOUS
<1>1. PICK j \in 1..Len(l.at) : l.at[j] = y
  BY DEF Has
<1>2. Len(k.at) \in Nat /\ Len(l.at) \in Nat /\ IsForm(l)
  BY DEF IsForm, Sets
<1>3. CASE j = i
  BY <1>1, <1>3 DEF Sets
<1>4. CASE j # i /\ j > Len(k.at)
  BY <1>1, <1>4 DEF Sets
<1>5. CASE j # i /\ ~(j > Len(k.at))
  <2>1. j \in 1..Len(k.at)
    BY <1>2, <1>5
  <2>2. k.at[j] = y
    BY <1>1, <1>5, <2>1 DEF Sets
  <2> QED BY <2>1, <2>2 DEF Has
<1> QED BY <1>3, <1>4, <1>5

LEMMA SetItemUpdateGood ==
  ASSUME IInv, NEW c \in Containers, SetItemUpdate(c)
  PROVE  HeapStep(c)
<1> USE Limits
<1> DEFINE s == items[c]
           k == links[c]
           p == pending[c]
           e == explored[c]
           t == told[c]
           n == setLink(k, p.index - 1, p.item)
           l == IF e THEN n ELSE k
<1>1. /\ p # NoWrite /\ UNCHANGED <<kind, items, explored, told>>
      /\ links' = [links EXCEPT ![c] = l] /\ pending' = [pending EXCEPT ![c] = NoWrite]
  <2>1. links' = [links EXCEPT ![c] = IF explored[c]
                    THEN setLink(links[c], pending[c].index - 1, pending[c].item) ELSE @]
    BY DEF SetItemUpdate, Update
  <2> QED BY <2>1 DEF SetItemUpdate
<1>2. /\ Sound(kind[c], s, e, k, p) /\ t \in BOOLEAN
      /\ Aligned(kind[c], s, e, k, t, p)
      /\ Len(s) \in Nat /\ IsForm(k) /\ e \in BOOLEAN /\ Len(k.at) \in Nat
  BY EachIs
<1> HIDE DEF s, k, p, e, t
<1>3. p.index \in 1..MaxLen /\ p.item \in Items /\ kind[c] = "list"
  BY <1>1, <1>2 DEF Sound
<1>4. e => Sets(n, k, p.index, p.item)
  <2> SUFFICES ASSUME e PROVE Sets(n, k, p.index, p.item)
    OBVIOUS
  <2>1. k.rep = "list" /\ Fits(k, p.index - 1)
    BY <1>2, <1>3 DEF Sound, Fits
  <2>2. p.index - 1 \in Nat /\ p.index - 1 < MaxLinks /\ p.index - 1 + 1 = p.index
    BY <1>3
  <2>3. Sets(n, k, p.index - 1 + 1, p.item)
    BY <1>2, <1>3, <2>1, <2>2, setLinkSets
  <2> QED BY <2>2, <2>3
<1> HIDE DEF n
<1>5. Sound(kind[c], s, e, l, NoWrite)
  <2>1. CASE e
    BY <1>2, <1>3, <1>4, <2>1 DEF Sound, Sets
  <2>2. CASE ~e
    BY <1>2, <2>2 DEF Sound
  <2> QED BY <1>2, <2>1, <2>2
<1>6. Aligned(kind[c], s, e, l, t, NoWrite)
  <2> SUFFICES ASSUME e, t PROVE /\ ~Has(s, NoItem)
                                 /\ \A i \in 1..Len(s) : i <= Len(n.at) /\ n.at[i] = s[i]
    BY <1>3 DEF Aligned
  <2>1. ~Has(s, NoItem)
    BY <1>2, <1>3 DEF Aligned
  <2>2. ASSUME NEW i \in 1..Len(s) PROVE i <= Len(n.at) /\ n.at[i] = s[i]
    <3>1. s[p.index] = p.item /\ (i = p.index \/ (i <= Len(k.at) /\ k.at[i] = s[i]))
      BY <1>1, <1>2, <1>3 DEF Aligned
    <3>2. CASE i = p.index
      <4>1. p.index \in 1..Len(n.at) /\ n.at[p.index] = p.item
        BY <1>4 DEF Sets
      <4> QED BY <1>2, <3>1, <3>2, <4>1
    <3>3. CASE i # p.index
      <4>1. i \in 1..Len(k.at)
        BY <1>2, <3>1, <3>3
      <4> QED BY <1>4, <3>1, <3>3, <4>1 DEF Sets
    <3> QED BY <3>2, <3>3
  <2> QED BY <2>1, <2>2
<1>7. ASSUME t PROVE Learns(k, l, s)
  <2>1. CASE e
    <3>1. Has(s, p.item)
      BY <1>1, <1>2, <1>7 DEF Aligned, Has
    <3>2. \A y : Has(n.at, y) => y = NoItem \/ Has(k.at, y) \/ y = p.item
      BY <1>2, <1>4, <2>1, SetsLearns
    <3> QED BY <2>1, <3>1, <3>2 DEF Learns
  <2>2. CASE ~e
    BY <2>2 DEF Learns
  <2> QED BY <2>1, <2>2
<1>8. ~e => l = k
  OBVIOUS
<1> HIDE DEF l
<1>9. Good(c, s, l, t, NoWrite)
  BY <1>2, <1>5, <1>6, <1>7, <1>8 DEF Good, e, k
<1>10. items' = [items EXCEPT ![c] = s] /\ told' = [told EXCEPT ![c] = t]
  BY <1>1, SameValues DEF s, t
<1> QED BY <1>1, <1>9, <1>10, HeapStepOf

(* What remains of being told if the list is used while a write is pending. *)
FollowsTo(c, t) == t \in BOOLEAN /\ (t <=> told[c] /\ pending[c] = NoWrite)

LEMMA FollowsIs ==
  ASSUME IInv, NEW c \in Containers, Follows(c)
  PROVE  \E t : FollowsTo(c, t) /\ told' = [told EXCEPT ![c] = t]
<1> DEFINE t == told[c] /\ Undisturbed(c)
<1>1. FollowsTo(c, t)
  BY DEF FollowsTo, Undisturbed
<1>2. told' = [told EXCEPT ![c] = t]
  BY DEF Follows
<1> QED BY <1>1, <1>2

LEMMA AssItemGood ==
  ASSUME IInv, NEW c \in Containers, AssItem(c)
  PROVE  HeapStep(c)
<1> USE Limits
<1> DEFINE s == items[c]
           k == links[c]
           p == pending[c]
           e == explored[c]
<1>1. UNCHANGED <<kind, explored, pending>> /\ kind[c] = "list" /\ Follows(c)
  BY DEF AssItem
<1>2. PICK j \in DOMAIN s, x \in Items :
        /\ items' = [items EXCEPT ![c] = [s EXCEPT ![j] = x]]
        /\ links' = [links EXCEPT ![c] = IF e THEN setLink(k, j - 1, x) ELSE k]
  BY DEF AssItem, Write, Update
<1>3. /\ Sound(kind[c], s, e, k, p)
      /\ Aligned(kind[c], s, e, k, told[c], p)
      /\ s \in Seq(Slots) /\ Len(s) \in Nat /\ DOMAIN s = 1..Len(s) /\ Len(s) <= MaxLen
      /\ IsForm(k) /\ e \in BOOLEAN /\ Len(k.at) \in Nat
  BY <1>1, EachIs
<1> DEFINE q == [s EXCEPT ![j] = x]
           n == setLink(k, j - 1, x)
           l == IF e THEN n ELSE k
<1>4. items' = [items EXCEPT ![c] = q] /\ links' = [links EXCEPT ![c] = l] /\ j \in 1..Len(s)
  BY <1>2, <1>3
<1>5. PICK t : FollowsTo(c, t) /\ told' = [told EXCEPT ![c] = t]
  BY <1>1, FollowsIs
<1>6. t \in BOOLEAN /\ (t => told[c] /\ p = NoWrite)
  BY <1>5 DEF FollowsTo
<1> HIDE DEF s, k, p, e
<1>7. /\ q \in Seq(Slots) /\ Len(q) = Len(s) /\ Has(q, x) /\ (~Has(s, NoItem) => ~Has(q, NoItem))
      /\ \A i \in 1..Len(s) : q[i] = IF i = j THEN x ELSE s[i]
  <2>1. x \in Slots /\ x # NoItem
    BY DEF Slots
  <2>2. Wrote(q, s, j, x)
    BY <1>3, <1>4, <2>1, WriteSlot
  <2> HIDE DEF q
  <2> QED BY <1>3, <2>1, <2>2 DEF Wrote
<1> HIDE DEF q
<1>8. e => Sets(n, k, j, x)
  <2> SUFFICES ASSUME e PROVE Sets(n, k, j, x)
    OBVIOUS
  <2>1. k.rep = "list" /\ Fits(k, j - 1)
    BY <1>1, <1>3 DEF Sound, Fits
  <2>2. j - 1 \in Nat /\ j - 1 < MaxLinks /\ j - 1 + 1 = j
    BY <1>3, <1>4
  <2>3. Sets(n, k, j - 1 + 1, x)
    BY <1>3, <2>1, <2>2, setLinkSets
  <2> QED BY <2>2, <2>3
<1> HIDE DEF n
<1>9. Sound(kind[c], q, e, l, p)
  <2>1. CASE e
    BY <1>1, <1>3, <1>7, <1>8, <2>1 DEF Sound, Sets
  <2>2. CASE ~e
    BY <1>1, <1>3, <1>7, <2>2 DEF Sound
  <2> QED BY <1>3, <2>1, <2>2
<1>10. Aligned(kind[c], q, e, l, t, p)
  <2> SUFFICES ASSUME e, t PROVE /\ ~Has(q, NoItem)
                                 /\ \A i \in 1..Len(s) : i <= Len(n.at) /\ n.at[i] = q[i]
    BY <1>1, <1>6, <1>7 DEF Aligned
  <2>1. ~Has(q, NoItem)
    BY <1>1, <1>3, <1>6, <1>7 DEF Aligned
  <2>2. ASSUME NEW i \in 1..Len(s) PROVE i <= Len(n.at) /\ n.at[i] = q[i]
    <3>1. CASE i = j
      <4>1. j \in 1..Len(n.at) /\ n.at[j] = x
        BY <1>8 DEF Sets
      <4> QED BY <1>7, <3>1, <4>1
    <3>2. CASE i # j
      <4>1. i <= Len(k.at) /\ k.at[i] = s[i]
        BY <1>1, <1>3, <1>6 DEF Aligned
      <4>2. i \in 1..Len(k.at)
        BY <1>3, <4>1
      <4> QED BY <1>7, <1>8, <3>2, <4>1, <4>2 DEF Sets
    <3> QED BY <3>1, <3>2
  <2> QED BY <2>1, <2>2
<1>11. Learns(k, l, q)
  <2>1. CASE e
    <3>1. \A y : Has(n.at, y) => y = NoItem \/ Has(k.at, y) \/ y = x
      BY <1>3, <1>8, <2>1, SetsLearns
    <3> QED BY <1>7, <2>1, <3>1 DEF Learns
  <2>2. CASE ~e
    BY <2>2 DEF Learns
  <2> QED BY <1>3, <2>1, <2>2
<1>12. ~e => l = k
  OBVIOUS
<1> HIDE DEF l
<1>13. Good(c, q, l, t, p)
  BY <1>6, <1>9, <1>10, <1>11, <1>12 DEF Good, e, k
<1>14. pending' = [pending EXCEPT ![c] = p]
  BY <1>1, SameValues DEF p
<1> QED BY <1>1, <1>4, <1>5, <1>13, <1>14, HeapStepOf

LEMMA InsertGood ==
  ASSUME IInv, NEW c \in Containers, Insert(c)
  PROVE  HeapStep(c)
<1> USE Limits
<1> DEFINE s == items[c]
           k == links[c]
           p == pending[c]
           e == explored[c]
<1>1. /\ UNCHANGED <<kind, explored, pending>> /\ kind[c] = "list" /\ Follows(c)
      /\ Len(s) < MaxLen /\ Len(k.at) < MaxLinks
  BY DEF Insert
<1>2. PICK where \in 0..Len(s), x \in Items :
        /\ items' = [items EXCEPT ![c] = InsertAt(s, where + 1, x)]
        /\ links' = [links EXCEPT ![c] =
                       IF e THEN updateInsertJyGCHeadLink(k, where, x,
                                   Len(Visited(InsertAt(s, where + 1, x)))) ELSE k]
  BY DEF Insert, Write, Update
<1>3. /\ Sound(kind[c], s, e, k, p)
      /\ Aligned(kind[c], s, e, k, told[c], p)
      /\ s \in Seq(Slots) /\ Len(s) \in Nat /\ Len(s) <= MaxLen
      /\ IsForm(k) /\ e \in BOOLEAN /\ Len(k.at) \in Nat
  BY <1>1, EachIs
<1> DEFINE q == InsertAt(s, where + 1, x)
           size == Len(Visited(q))
           n == updateInsertJyGCHeadLink(k, where, x, size)
           l == IF e THEN n ELSE k
<1>4. items' = [items EXCEPT ![c] = q] /\ links' = [links EXCEPT ![c] = l]
  BY <1>2
<1>5. PICK t : FollowsTo(c, t) /\ told' = [told EXCEPT ![c] = t]
  BY <1>1, FollowsIs
<1>6. t \in BOOLEAN /\ (t => told[c] /\ p = NoWrite)
  BY <1>5 DEF FollowsTo
<1> HIDE DEF s, k, p, e
<1>7. /\ q \in Seq(Slots) /\ Len(q) = Len(s) + 1
      /\ \A i \in 1..(Len(s) + 1) :
           q[i] = IF i < where + 1 THEN s[i] ELSE IF i = where + 1 THEN x ELSE s[i - 1]
  <2> DEFINE w == where + 1
  <2>1. w \in 1..(Len(s) + 1) /\ x \in Slots
    BY <1>3 DEF Slots
  <2> HIDE DEF w
  <2>2. /\ InsertAt(s, w, x) \in Seq(Slots) /\ Len(InsertAt(s, w, x)) = Len(s) + 1
        /\ \A i \in 1..(Len(s) + 1) :
             InsertAt(s, w, x)[i] = IF i < w THEN s[i] ELSE IF i = w THEN x ELSE s[i - 1]
    BY <1>3, <2>1, InsertAtProperties
  <2> QED BY <2>2 DEF w
<1> HIDE DEF q
<1>8. where \in Nat /\ where + 1 \in 1..(Len(s) + 1) /\ q[where + 1] = x
  BY <1>3, <1>7
<1>9. Has(q, x)
  BY <1>3, <1>7, <1>8 DEF Has
<1>10. ASSUME ~Has(s, NoItem), NEW i \in 1..Len(q) PROVE q[i] # NoItem
  <2>1. i \in 1..(Len(s) + 1)
    BY <1>7
  <2>2. CASE i < where + 1
    <3>1. i \in 1..Len(s)
      BY <1>3, <1>8, <2>1, <2>2
    <3> QED BY <1>7, <1>10, <2>1, <2>2, <3>1 DEF Has
  <2>3. CASE i = where + 1
    BY <1>8, <2>3
  <2>4. CASE i > where + 1
    <3>1. i - 1 \in 1..Len(s)
      BY <1>3, <1>8, <2>1, <2>4
    <3>2. q[i] = s[i - 1]
      BY <1>7, <1>8, <2>1, <2>4
    <3> QED BY <1>10, <3>1, <3>2 DEF Has
  <2> QED BY <1>8, <2>1, <2>2, <2>3, <2>4
<1>11. size \in 1..MaxLen /\ where < MaxLen
  <2>1. /\ Visited(q) \in Seq(Items) /\ size <= Len(q) /\ Has(Visited(q), x)
    BY <1>7, <1>9, VisitedProperties
  <2>2. \E i \in 1..size : TRUE
    BY <2>1 DEF Has
  <2> QED BY <1>1, <1>3, <1>7, <2>1, <2>2
<1>12. e => Inserted(n, k, where, x)
  <2>1. e => k.rep = "list"
    BY <1>1, <1>3 DEF Sound
  <2> HIDE DEF size
  <2> QED BY <1>1, <1>3, <1>8, <1>11, <2>1, InsertProperties
<1> HIDE DEF n
<1>13. Sound(kind[c], q, e, l, p)
  <2>1. CASE e
    BY <1>1, <1>3, <1>7, <1>12, <2>1 DEF Sound, Inserted
  <2>2. CASE ~e
    BY <1>1, <1>3, <1>7, <2>2 DEF Sound
  <2> QED BY <1>3, <2>1, <2>2
<1>14. Aligned(kind[c], q, e, l, t, p)
  <2> SUFFICES ASSUME e, t PROVE /\ ~Has(q, NoItem)
                                 /\ \A i \in 1..Len(q) : i <= Len(n.at) /\ n.at[i] = q[i]
    BY <1>1, <1>6 DEF Aligned
  <2>1. ~Has(s, NoItem) /\ \A j \in 1..Len(s) : j <= Len(k.at) /\ k.at[j] = s[j]
    BY <1>1, <1>3, <1>6 DEF Aligned
  <2>2. ~Has(q, NoItem)
    BY <1>10, <2>1 DEF Has
  <2>3. Len(s) <= Len(k.at)
    <3>1. CASE Len(s) = 0
      BY <1>3, <3>1
    <3>2. CASE Len(s) # 0
      <4>1. Len(s) \in 1..Len(s)
        BY <1>3, <3>2
      <4> QED BY <2>1, <4>1
    <3> QED BY <3>1, <3>2
  <2>4. ASSUME NEW i \in 1..Len(q) PROVE i <= Len(n.at) /\ n.at[i] = q[i]
    <3>1. where <= Len(k.at) /\ i \in 1..(Len(s) + 1) /\ i \in 1..(Len(k.at) + 1)
      BY <1>3, <1>7, <1>8, <2>3
    <3>2. /\ Len(n.at) = Len(k.at) + 1
          /\ n.at[i] = IF i < where + 1 THEN k.at[i] ELSE IF i = where + 1 THEN x ELSE k.at[i - 1]
      BY <1>12, <3>1 DEF Inserted
    <3>3. q[i] = IF i < where + 1 THEN s[i] ELSE IF i = where + 1 THEN x ELSE s[i - 1]
      BY <1>7, <3>1
    <3>4. CASE i < where + 1
      <4>1. i \in 1..Len(s)
        BY <1>3, <1>8, <3>1, <3>4
      <4> QED BY <1>3, <2>1, <3>1, <3>2, <3>3, <3>4, <4>1
    <3>5. CASE i = where + 1
      BY <1>3, <1>8, <3>1, <3>2, <3>3, <3>5
    <3>6. CASE i > where + 1
      <4>1. i - 1 \in 1..Len(s)
        BY <1>3, <1>8, <3>1, <3>6
      <4>2. n.at[i] = k.at[i - 1] /\ q[i] = s[i - 1]
        BY <1>8, <3>1, <3>2, <3>3, <3>6
      <4> QED BY <1>3, <2>1, <3>1, <3>2, <4>1, <4>2
    <3> QED BY <1>8, <3>1, <3>4, <3>5, <3>6
  <2> QED BY <2>2, <2>4
<1>15. Learns(k, l, q)
  <2>1. CASE e
    BY <1>9, <1>12, <2>1 DEF Learns, Inserted
  <2>2. CASE ~e
    BY <2>2 DEF Learns
  <2> QED BY <1>3, <2>1, <2>2
<1>16. ~e => l = k
  OBVIOUS
<1> HIDE DEF l
<1>17. Good(c, q, l, t, p)
  BY <1>6, <1>13, <1>14, <1>15, <1>16 DEF Good, e, k
<1>18. pending' = [pending EXCEPT ![c] = p]
  BY <1>1, SameValues DEF p
<1> QED BY <1>1, <1>4, <1>5, <1>17, <1>18, HeapStepOf

(* The list gets shorter, its links stay. *)
LEMMA ShrinkGood ==
  ASSUME IInv, NEW c \in Containers, PopLast(c) \/ Clear(c)
  PROVE  HeapStep(c)
<1> USE Limits
<1> DEFINE s == items[c]
           k == links[c]
           p == pending[c]
           e == explored[c]
           q == IF PopLast(c) THEN Front(s) ELSE <<>>
<1>1. /\ UNCHANGED <<kind, explored, links, pending>>
      /\ kind[c] = "list" /\ s # <<>> /\ Follows(c)
      /\ items' = [items EXCEPT ![c] = q]
  BY DEF PopLast, Clear, Write
<1>2. /\ Sound(kind[c], s, e, k, p)
      /\ Aligned(kind[c], s, e, k, told[c], p)
      /\ s \in Seq(Slots) /\ Len(s) \in Nat /\ Len(s) <= MaxLen
  BY <1>1, EachIs
<1>3. q \in Seq(Slots) /\ Len(q) <= Len(s) /\ Len(q) \in Nat /\ \A i \in 1..Len(q) : q[i] = s[i]
  <2> HIDE DEF s
  <2>1. CASE PopLast(c)
    <3> DEFINE f == SubSeq(s, 1, Len(s) - 1)
               m == Len(s) - 1
    <3>1. m \in Nat /\ 1 \in Nat \ {0} /\ m <= Len(s) /\ 1 <= m + 1
      BY <1>1, <1>2, EmptySeq
    <3>2. f \in Seq(Slots) /\ Len(f) = m - 1 + 1 /\ \A i \in 1..(m - 1 + 1) : f[i] = s[1 + i - 1]
      <4> HIDE DEF m
      <4>1. /\ SubSeq(s, 1, m) \in Seq(Slots) /\ Len(SubSeq(s, 1, m)) = m - 1 + 1
            /\ \A i \in 1..(m - 1 + 1) : SubSeq(s, 1, m)[i] = s[1 + i - 1]
        BY <1>2, <3>1, SubSeqOf
      <4> QED BY <4>1 DEF m
    <3>3. q = f
      BY <2>1 DEF Front
    <3> HIDE DEF f
    <3> QED BY <1>2, <3>1, <3>2, <3>3
  <2>2. CASE ~PopLast(c)
    BY <1>2, <2>2
  <2> QED BY <2>1, <2>2
<1>4. PICK t : FollowsTo(c, t) /\ told' = [told EXCEPT ![c] = t]
  BY <1>1, FollowsIs
<1>5. t \in BOOLEAN /\ (t => told[c] /\ p = NoWrite)
  BY <1>4 DEF FollowsTo
<1> HIDE DEF s, k, p, e, q
<1>6. \A i \in 1..Len(q) : i \in 1..Len(s)
  BY <1>2, <1>3
<1>7. ~Has(s, NoItem) => ~Has(q, NoItem)
  BY <1>3, <1>6 DEF Has
<1>8. Sound(kind[c], q, e, k, p)
  BY <1>1, <1>2, <1>3 DEF Sound
<1>9. Aligned(kind[c], q, e, k, t, p)
  BY <1>1, <1>2, <1>3, <1>5, <1>6, <1>7 DEF Aligned
<1>10. Good(c, q, k, t, p)
  BY <1>5, <1>8, <1>9 DEF Good, Learns, e, k
<1>11. links' = [links EXCEPT ![c] = k] /\ pending' = [pending EXCEPT ![c] = p]
  BY <1>1, SameValues DEF k, p
<1> QED BY <1>1, <1>4, <1>10, <1>11, HeapStepOf

(* After an update of all links a container is as it should be. *)
LEMMA UpdatedGood ==
  ASSUME IInv, NEW c \in Containers, NEW q \in Seq(Slots), Len(q) <= MaxLen,
         kind[c] = "cell" => Len(q) = 1,
         NEW t \in BOOLEAN,
         t /\ explored[c] /\ kind[c] = "list" => ~Has(q, NoItem),
         t /\ pending[c] # NoWrite =>
           pending[c].index \in 1..Len(q) /\ q[pending[c].index] = pending[c].item
  PROVE  /\ Good(c, q, IF explored[c] THEN updateJyGCHeadLinks(links[c], q) ELSE links[c],
                 t, pending[c])
         /\ Learns(links[c], IF explored[c] THEN updateJyGCHeadLinks(links[c], q) ELSE links[c], q)
<1> USE Limits
<1> DEFINE s == items[c]
           k == links[c]
           p == pending[c]
           e == explored[c]
           v == Visited(q)
           n == updateJyGCHeadLinks(k, q)
           l == IF e THEN n ELSE k
<1>1. /\ Sound(kind[c], s, e, k, p) /\ IsForm(k) /\ e \in BOOLEAN
  BY EachIs
<1>2. /\ v \in Seq(Items) /\ Len(v) <= Len(q) /\ \A x : Has(v, x) <=> x # NoItem /\ Has(q, x)
      /\ ~Has(q, NoItem) => v = q
  BY VisitedProperties
<1>3. Updated(n, k, v)
  BY <1>1, UpdateProperties
<1>4. (t /\ e /\ kind[c] = "list" => ~Has(q, NoItem))
      /\ (t /\ p # NoWrite => p.index \in 1..Len(q) /\ q[p.index] = p.item)
  OBVIOUS
<1> HIDE DEF s, k, p, e, v, n
<1>5. Len(v) \in Nat /\ Len(q) \in Nat /\ Len(n.at) \in Nat
  BY <1>2, <1>3 DEF Updated, IsForm
<1>6. /\ IsForm(n) /\ (n.rep = "list" <=> k.rep = "list")
      /\ \A j \in 1..Len(v) : j <= Len(n.at) /\ n.at[j] = v[j]
      /\ \A x : Has(n.at, x) => x = NoItem \/ Has(k.at, x) \/ Has(v, x)
  BY <1>3 DEF Updated
<1>7. kind[c] = "cell" => n.rep \in {"none", "single"}
  <2> SUFFICES ASSUME kind[c] = "cell" PROVE n.rep \in {"none", "single"}
    OBVIOUS
  <2>1. k.rep \in {"none", "single"}
    BY <1>1 DEF Sound
  <2>2. Len(v) <= 1
    BY <1>2, <1>5
  <2> QED BY <1>3, <2>1, <2>2 DEF Updated
<1>8. Sound(kind[c], q, e, l, p)
  <2>1. CASE e
    BY <1>1, <1>6, <1>7, <2>1 DEF Sound
  <2>2. CASE ~e
    BY <1>1, <2>2 DEF Sound
  <2> QED BY <1>1, <2>1, <2>2
<1>9. Aligned(kind[c], q, e, l, t, p)
  <2>1. ASSUME e, t, kind[c] = "list", NEW i \in 1..Len(q) PROVE i <= Len(l.at) /\ l.at[i] = q[i]
    BY <1>2, <1>4, <1>6, <2>1
  <2>2. ASSUME e, NEW x, Has(q, x), x # NoItem PROVE Has(l.at, x)
    <3>1. PICK j \in 1..Len(v) : v[j] = x
      BY <1>2, <2>2 DEF Has
    <3>2. j \in 1..Len(n.at) /\ n.at[j] = x
      BY <1>5, <1>6, <3>1
    <3> QED BY <2>2, <3>2 DEF Has
  <2> HIDE DEF l
  <2> QED BY <1>4, <2>1, <2>2 DEF Aligned
<1>10. Learns(k, l, q)
  <2>1. CASE e
    BY <1>2, <1>6, <2>1 DEF Learns
  <2>2. CASE ~e
    BY <2>2 DEF Learns
  <2> QED BY <1>1, <2>1, <2>2
<1>11. ~e => l = k
  OBVIOUS
<1> HIDE DEF l
<1>12. Good(c, q, l, t, p)
  BY <1>8, <1>9, <1>10, <1>11 DEF Good, e, k
<1> QED BY <1>10, <1>12 DEF l, n, k, p, e

LEMMA RewriteGood ==
  ASSUME IInv, NEW c \in Containers, Rewrite(c)
  PROVE  HeapStep(c)
<1> USE Limits
<1> DEFINE p == pending[c]
<1>1. UNCHANGED <<kind, explored, pending>> /\ kind[c] = "list"
  BY DEF Rewrite
<1>2. PICK q \in SeqOf(Slots, MaxLen) \ {<<>>} :
        /\ items' = [items EXCEPT ![c] = q]
        /\ links' = [links EXCEPT ![c] = IF explored[c] THEN updateJyGCHeadLinks(links[c], q)
                                                        ELSE links[c]]
        /\ told' = [told EXCEPT ![c] = Undisturbed(c) /\ Dense(c, q)]
  BY DEF Rewrite, Write, Update, Complete
<1>3. q \in Seq(Slots) /\ Len(q) <= MaxLen
  BY BoundedSeq1
<1> DEFINE t == Undisturbed(c) /\ Dense(c, q)
           l == IF explored[c] THEN updateJyGCHeadLinks(links[c], q) ELSE links[c]
<1>4. t \in BOOLEAN /\ (t => p = NoWrite /\ ~Has(q, NoItem))
  BY <1>1, <1>3, DenseIs DEF Undisturbed
<1>5. told' = [told EXCEPT ![c] = t] /\ links' = [links EXCEPT ![c] = l]
  BY <1>2
<1> HIDE DEF t
<1>6. Good(c, q, l, t, p)
  BY <1>1, <1>3, <1>4, UpdatedGood
<1>7. pending' = [pending EXCEPT ![c] = p]
  BY <1>1, SameValues
<1> HIDE DEF l, p
<1> QED BY <1>1, <1>2, <1>5, <1>6, <1>7, HeapStepOf

(* What nobody is told of. *)
LEMMA SilentGood ==
  ASSUME IInv, NEW c \in Containers, ExtendFails(c) \/ StoreSilently(c)
  PROVE  HeapStep(c)
<1> USE Limits
<1> DEFINE s == items[c]
           k == links[c]
           p == pending[c]
           e == explored[c]
           t == ~explored[c] /\ Undisturbed(c)
<1>1. /\ UNCHANGED <<kind, explored, links, pending>>
      /\ told' = [told EXCEPT ![c] = t]
  BY DEF ExtendFails, StoreSilently, Silent
<1>2. /\ Sound(kind[c], s, e, k, p) /\ e \in BOOLEAN
      /\ s \in Seq(Slots) /\ Len(s) \in Nat /\ Len(s) <= MaxLen /\ DOMAIN s = 1..Len(s)
  BY EachIs
<1>3. PICK q \in Seq(Slots) :
        /\ items' = [items EXCEPT ![c] = q]
        /\ Len(q) <= MaxLen
        /\ kind[c] = "cell" => Len(q) = 1
  <2>1. CASE ExtendFails(c)
    <3>1. PICK x \in Items : items' = [items EXCEPT ![c] = Append(s, x)]
      BY <2>1 DEF ExtendFails, Write
    <3>2. kind[c] = "list" /\ Len(s) < MaxLen
      BY <2>1 DEF ExtendFails
    <3> DEFINE q == Append(s, x)
    <3> HIDE DEF s
    <3>3. q \in Seq(Slots) /\ Len(q) = Len(s) + 1
      BY <1>2 DEF Slots
    <3> HIDE DEF q
    <3>4. Len(q) <= MaxLen
      BY <1>2, <3>2, <3>3
    <3> QED BY <3>1, <3>2, <3>3, <3>4 DEF q
  <2>2. CASE StoreSilently(c)
    <3>1. PICK j \in DOMAIN s, x \in Slots : items' = [items EXCEPT ![c] = [s EXCEPT ![j] = x]]
      BY <2>2 DEF StoreSilently, Write, Slots
    <3> DEFINE q == [s EXCEPT ![j] = x]
    <3>2. items' = [items EXCEPT ![c] = q]
      BY <3>1
    <3> HIDE DEF s
    <3>3. Wrote(q, s, j, x)
      BY <1>2, <3>1, WriteSlot
    <3> HIDE DEF q
    <3>4. kind[c] = "cell" => Len(q) = 1
      BY <1>2, <3>3 DEF Sound, Wrote
    <3> QED BY <1>2, <3>2, <3>3, <3>4 DEF Wrote
  <2> QED BY <2>1, <2>2
<1>4. t \in BOOLEAN /\ (t => ~e /\ p = NoWrite)
  BY DEF Undisturbed
<1> HIDE DEF s, k, p, e, t
<1>5. Sound(kind[c], q, e, k, p)
  BY <1>2, <1>3 DEF Sound
<1>6. Aligned(kind[c], q, e, k, t, p)
  BY <1>4 DEF Aligned
<1>7. Good(c, q, k, t, p)
  BY <1>4, <1>5, <1>6 DEF Good, Learns, e, k
<1>8. links' = [links EXCEPT ![c] = k] /\ pending' = [pending EXCEPT ![c] = p]
  BY <1>1, SameValues DEF k, p
<1> QED BY <1>1, <1>3, <1>7, <1>8, HeapStepOf

LEMMA ExploreGood ==
  ASSUME IInv, NEW c \in Containers, Explore(c)
  PROVE  /\ kind' \in Kinds /\ Functions' /\ (\A d \in Containers : Each(d)') /\ UNCHANGED cycle
         /\ \A x : Has(links'[c].at, x) <=> x # NoItem /\ Has(items[c], x)
         /\ explored'[c] = TRUE /\ \A d \in Containers \ {c} : explored'[d] = explored[d]
         /\ Others(c) /\ UNCHANGED items /\ ~explored[c]
<1> DEFINE s == items[c]
           r == exploreJyGCHeadLinks(kind[c], s)
           p == pending[c]
           t == (told[c] \/ Undisturbed(c)) /\ Dense(c, s)
<1>1. /\ UNCHANGED <<kind, items, pending, cycle>> /\ ~explored[c]
      /\ explored' = [explored EXCEPT ![c] = TRUE] /\ links' = [links EXCEPT ![c] = r]
      /\ told' = [told EXCEPT ![c] = t]
  BY DEF Explore
<1>2. /\ Sound(kind[c], s, explored[c], links[c], p)
      /\ Aligned(kind[c], s, explored[c], links[c], told[c], p)
      /\ s \in Seq(Slots) /\ Len(s) \in Nat /\ Len(s) <= MaxLen
  BY EachIs
<1>3. Functions /\ Functions'
  BY <1>1 DEF IInv, Functions, IsFun
<1>4. /\ explored'[c] = TRUE /\ links'[c] = r /\ told'[c] = t
      /\ \A d \in Containers \ {c} :
           explored'[d] = explored[d] /\ links'[d] = links[d] /\ told'[d] = told[d]
  BY <1>1, <1>3 DEF Functions, IsFun
<1>5. t \in BOOLEAN /\ (t => (told[c] \/ p = NoWrite) /\ (kind[c] = "list" => ~Has(s, NoItem)))
  BY <1>2, DenseIs DEF Undisturbed
<1> HIDE DEF t
<1>6. /\ IsForm(r) /\ (r.rep = "list" <=> kind[c] = "list")
      /\ kind[c] = "cell" => r.rep \in {"none", "single"}
      /\ r.at = Visited(s)
  <2>1. kind[c] \in {"list", "cell", "peer"} /\ (kind[c] = "cell" => Len(s) = 1)
    BY <1>2 DEF Sound
  <2> HIDE DEF s
  <2> DEFINE ty == kind[c]
  <2>2. ty \in {"list", "cell", "peer"} /\ (ty = "cell" => Len(s) = 1) /\ s \in Seq(Slots)
        /\ Len(s) <= MaxLen /\ r = exploreJyGCHeadLinks(ty, s)
    BY <1>2, <2>1
  <2> HIDE DEF ty, r
  <2>3. /\ IsForm(r) /\ (r.rep = "list" <=> ty = "list")
        /\ ty = "cell" => r.rep \in {"none", "single"}
        /\ r.at = Visited(s)
    BY <2>2, ExploreProperties
  <2> QED BY <2>3 DEF ty
<1>7. /\ Visited(s) \in Seq(Items) /\ \A x : Has(Visited(s), x) <=> x # NoItem /\ Has(s, x)
      /\ ~Has(s, NoItem) => Visited(s) = s
  BY <1>2, VisitedProperties
<1> HIDE DEF s, r, p
<1>8. Sound(kind[c], s, TRUE, r, p)
  BY <1>2, <1>6 DEF Sound
<1>9. Aligned(kind[c], s, TRUE, r, t, p)
  <2>1. t /\ p # NoWrite => p.index \in 1..Len(s) /\ s[p.index] = p.item
    BY <1>2, <1>5 DEF Aligned
  <2>2. ASSUME t, kind[c] = "list"
        PROVE  ~Has(s, NoItem) /\ \A i \in 1..Len(s) : i <= Len(r.at) /\ r.at[i] = s[i]
    BY <1>2, <1>5, <1>6, <1>7, <2>2
  <2>3. \A x : Has(s, x) => x = NoItem \/ Has(r.at, x)
    BY <1>6, <1>7
  <2> QED BY <2>1, <2>2, <2>3 DEF Aligned
<1>10. ASSUME NEW d \in Containers PROVE Each(d)'
  <2>1. CASE d = c
    <3>1. /\ told'[c] \in BOOLEAN /\ Sound(kind'[c], items'[c], explored'[c], links'[c], pending'[c])
          /\ Aligned(kind'[c], items'[c], explored'[c], links'[c], told'[c], pending'[c])
      BY <1>1, <1>4, <1>5, <1>8, <1>9 DEF s, p
    <3> QED BY <2>1, <3>1 DEF Each
  <2>2. CASE d # c
    BY <1>1, <1>4, <2>2 DEF Each, IInv
  <2> QED BY <2>1, <2>2
<1>11. \A x : Has(links'[c].at, x) <=> x # NoItem /\ Has(items[c], x)
  BY <1>4, <1>6, <1>7 DEF s
<1>12. Others(c)
  BY <1>1, <1>4 DEF Others, Same
<1> QED BY <1>1, <1>3, <1>4, <1>10, <1>11, <1>12 DEF IInv

-----------------------------------------------------------------------------
(* A list is taken for links *)

LEMMA OneTaken ==
  ASSUME NEW k, NEW x \in TakenForLinks(k), NEW y \in TakenForLinks(k)
  PROVE  x = y
<1>1. Single(x).at = <<x>> /\ Single(y).at = <<y>> /\ Single(x) = Single(y)
  BY DEF TakenForLinks, Single
<1>2. <<x>>[1] = x /\ <<y>>[1] = y
  OBVIOUS
<1> QED BY <1>1, <1>2

LEMMA TakenIsOther ==
  ASSUME NEW c, NEW s, NEW p, NEW k, Sound(kind[c], s, explored[c], k, p), NEW x \in TakenForLinks(k)
  PROVE  x \in Containers /\ kind[x] = "list" /\ x # c
<1>1. x \in Containers /\ kind[x] = "list" /\ k.rep = "single"
  BY DEF TakenForLinks, Single
<1>2. x # c
  BY <1>1 DEF Sound, NoLinks
<1> QED BY <1>1, <1>2

(* What is left of the list x is s. *)
IsCut(x, s) ==
  /\ x \in Containers /\ kind[x] = "list"
  /\ s \in Seq(Slots) /\ Len(s) < Len(items[x])
  /\ \A y : Has(s, y) => Has(items[x], y)

LEMMA CutFromIs ==
  ASSUME IInv, NEW k, NEW n \in Nat, NEW x \in DOMAIN CutFrom(k, n)
  PROVE  x \in TakenForLinks(k) /\ IsCut(x, CutFrom(k, n)[x])
<1> DEFINE s == items[x]
           q == SubSeq(s, 1, n)
<1>1. x \in TakenForLinks(k) /\ n < Len(s) /\ CutFrom(k, n)[x] = q
  BY DEF CutFrom
<1>2. x \in Containers /\ kind[x] = "list"
  BY <1>1 DEF TakenForLinks
<1>3. s \in Seq(Slots) /\ Len(s) \in Nat
  BY <1>2, EachIs
<1> HIDE DEF s
<1>4. q \in Seq(Slots) /\ Len(q) = n - 1 + 1 /\ \A j \in 1..(n - 1 + 1) : q[j] = s[1 + j - 1]
  <2>1. 1 \in Nat \ {0} /\ n <= Len(s) /\ 1 <= n + 1
    BY <1>1, <1>3
  <2> QED BY <1>3, <2>1, SubSeqOf
<1> HIDE DEF q
<1>5. Len(q) = n /\ \A j \in 1..n : j \in 1..Len(s) /\ q[j] = s[j]
  BY <1>1, <1>3, <1>4
<1>6. \A y : Has(q, y) => Has(s, y)
  BY <1>5 DEF Has
<1> QED BY <1>1, <1>2, <1>4, <1>5, <1>6 DEF IsCut, s

LEMMA CutFirstIs ==
  ASSUME IInv, NEW k, NEW x \in DOMAIN CutFirst(k)
  PROVE  x \in TakenForLinks(k) /\ IsCut(x, CutFirst(k)[x])
<1> DEFINE s == items[x]
           q == Tail(s)
<1>1. x \in TakenForLinks(k) /\ s # <<>> /\ CutFirst(k)[x] = q
  BY DEF CutFirst
<1>2. x \in Containers /\ kind[x] = "list"
  BY <1>1 DEF TakenForLinks
<1>3. s \in Seq(Slots) /\ Len(s) \in Nat
  BY <1>2, EachIs
<1> HIDE DEF s
<1>4. q \in Seq(Slots) /\ Len(q) = Len(s) - 1 /\ \A j \in 1..Len(q) : q[j] = s[j + 1]
  BY <1>1, <1>3
<1> HIDE DEF q
<1>5. \A j \in 1..Len(q) : j + 1 \in 1..Len(s)
  BY <1>3, <1>4
<1>6. \A y : Has(q, y) => Has(s, y)
  BY <1>4, <1>5 DEF Has
<1>7. Len(q) < Len(s)
  BY <1>3, <1>4
<1> QED BY <1>1, <1>2, <1>4, <1>6, <1>7 DEF IsCut, s

(* A list that loses items is updated as if they had been removed. *)
LEMMA CutGood ==
  ASSUME IInv, NEW x, NEW s, IsCut(x, s), NEW t \in BOOLEAN, t <=> told[x] /\ Undisturbed(x)
  PROVE  /\ Good(x, s, LinksLeft(x, s), t, pending[x])
         /\ \A y : Has(LinksLeft(x, s).at, y) =>
                     y = NoItem \/ Has(links[x].at, y) \/ Has(items[x], y)
<1> USE Limits
<1> DEFINE o == items[x]
           k == links[x]
           e == explored[x]
           p == pending[x]
           l == LinksLeft(x, s)
           first == SubSeq(o, 1, 1)
<1>1. /\ x \in Containers /\ kind[x] = "list" /\ s \in Seq(Slots) /\ Len(s) < Len(o)
      /\ \A y : Has(s, y) => Has(o, y)
  BY DEF IsCut
<1>2. /\ Sound(kind[x], o, e, k, p) /\ Aligned(kind[x], o, e, k, told[x], p)
      /\ o \in Seq(Slots) /\ Len(o) \in Nat /\ Len(o) <= MaxLen
      /\ IsForm(k) /\ e \in BOOLEAN /\ Len(k.at) \in Nat
  BY <1>1, EachIs
<1>3. t => told[x] /\ p = NoWrite
  BY DEF Undisturbed
<1>4. t /\ e => ~Has(s, NoItem) /\ \A y : Has(o, y) => Has(k.at, y)
  <2> SUFFICES ASSUME t, e PROVE ~Has(s, NoItem) /\ \A y : Has(o, y) => Has(k.at, y)
    OBVIOUS
  <2> HIDE DEF o, k, e, p
  <2>1. ~Has(o, NoItem) /\ \A i \in 1..Len(o) : i <= Len(k.at) /\ k.at[i] = o[i]
    BY <1>1, <1>2, <1>3 DEF Aligned
  <2>2. ~Has(s, NoItem)
    BY <1>1, <2>1
  <2>3. ASSUME NEW y, Has(o, y) PROVE Has(k.at, y)
    <3>1. PICK i \in 1..Len(o) : o[i] = y
      BY <2>3 DEF Has
    <3>2. i \in 1..Len(k.at) /\ k.at[i] = y
      BY <1>2, <2>1, <3>1
    <3> QED BY <3>2 DEF Has
  <2> QED BY <2>2, <2>3
<1>5. Len(s) \in Nat /\ Len(s) <= MaxLen
  BY <1>1, <1>2
<1>6. CASE e /\ s # <<>>
  <2>1. l = updateJyGCHeadLinks(k, s)
    <3>1. Len(s) # 0
      BY <1>1, <1>6, EmptySeq
    <3>2. Len(o) > 1
      BY <1>1, <1>2, <1>5, <3>1
    <3> QED BY <1>6, <3>2 DEF LinksLeft
  <2>2. Good(x, s, IF explored[x] THEN updateJyGCHeadLinks(links[x], s) ELSE links[x], t, pending[x])
        /\ Learns(links[x], IF explored[x] THEN updateJyGCHeadLinks(links[x], s) ELSE links[x], s)
    <3>1. /\ kind[x] = "cell" => Len(s) = 1
          /\ t /\ explored[x] /\ kind[x] = "list" => ~Has(s, NoItem)
          /\ ~(t /\ pending[x] # NoWrite)
      BY <1>1, <1>3, <1>4
    <3> QED BY <1>1, <1>5, <3>1, UpdatedGood
  <2> QED BY <1>1, <1>6, <2>1, <2>2 DEF Learns
<1>7. CASE e /\ s = <<>> /\ Len(o) > 1
  <2>1. l = updateJyGCHeadLinks(k, first)
    BY <1>7 DEF LinksLeft
  <2> HIDE DEF o, k, e, p, l
  <2>2. first \in Seq(Slots) /\ Len(first) = 1 /\ first[1] = o[1]
    <3>1. 1 \in Nat \ {0} /\ 1 \in Nat /\ 1 <= Len(o) /\ 1 <= 1 + 1
      BY <1>7
    <3>2. first \in Seq(Slots) /\ Len(first) = 1 - 1 + 1 /\ \A j \in 1..(1 - 1 + 1) : first[j] = o[1 + j - 1]
      BY <1>2, <3>1, SubSeqOf
    <3> HIDE DEF first
    <3> QED BY <3>2
  <2> HIDE DEF first
  <2>3. \A y : Has(first, y) => Has(o, y)
    BY <1>2, <1>7, <2>2 DEF Has
  <2>4. Updated(l, k, Visited(first))
    <3>1. Len(first) <= MaxLen
      BY <2>2
    <3> QED BY <1>2, <2>1, <2>2, <3>1, UpdateProperties
  <2>5. \A y : Has(l.at, y) => y = NoItem \/ Has(k.at, y) \/ Has(o, y)
    BY <2>2, <2>3, <2>4, VisitedProperties DEF Updated
  <2>6. Sound(kind[x], s, e, l, p)
    BY <1>1, <1>2, <1>5, <1>7, <2>4 DEF Sound, Updated
  <2>7. Aligned(kind[x], s, e, l, t, p)
    <3>1. Len(s) = 0 /\ ~Has(s, NoItem) /\ \A i \in 1..Len(s) : FALSE
      BY <1>7 DEF Has
    <3> HIDE DEF Has
    <3> QED BY <1>1, <1>3, <3>1 DEF Aligned
  <2>8. t => Learns(k, l, s)
    BY <1>4, <1>7, <2>5 DEF Learns
  <2> QED BY <1>7, <2>5, <2>6, <2>7, <2>8 DEF Good, e, k, o, p, l
<1>8. CASE ~e \/ ~(Len(o) > 1)
  <2>1. l = k
    BY <1>8 DEF LinksLeft
  <2> HIDE DEF o, k, e, p, l
  <2>2. Sound(kind[x], s, e, k, p)
    BY <1>1, <1>2, <1>5 DEF Sound
  <2>3. Aligned(kind[x], s, e, k, t, p)
    <3>1. e => ~Has(s, NoItem) /\ \A i \in 1..Len(s) : FALSE
      <4>1. e => Len(s) = 0
        BY <1>1, <1>2, <1>5, <1>8
      <4> QED BY <4>1 DEF Has
    <3> QED BY <1>1, <1>3, <3>1 DEF Aligned
  <2> QED BY <2>1, <2>2, <2>3 DEF Good, Learns, e, k, o, p, l
<1>9. Len(s) = 0 <=> s = <<>>
  BY <1>1, EmptySeq
<1> QED BY <1>2, <1>5, <1>6, <1>7, <1>8

HeapNext == kind' \in Kinds /\ Functions' /\ \A d \in Containers : Each(d)'

(* What happens to c and to the list x taken for its links. *)
Touched(c, x) ==
  /\ UNCHANGED <<kind, explored>>
  /\ \A o \in Containers \ {c, x} : Same(o)
  /\ \A o \in {c, x} : \A y :
       Has(links'[o].at, y) =>
         y = NoItem \/ Has(links[o].at, y) \/ Has(items[o], y) \/ Has(items'[o], y)
  /\ \A y : Has(items'[x], y) => Has(items[x], y)

LEMMA ChangeGood ==
  ASSUME IInv, NEW c \in Containers, NEW s, NEW k, NEW t, NEW cut, Change(c, s, k, t, cut),
         Good(c, s, k, t, pending[c]), Learns(links[c], k, s),
         \A x \in DOMAIN cut : x # c /\ IsCut(x, cut[x])
  PROVE  /\ HeapNext /\ items'[c] = s /\ links'[c] = k /\ told'[c] = t
         /\ DOMAIN cut = {} => HeapStep(c)
         /\ \A x \in Containers \ {c} : DOMAIN cut \subseteq {x} => Touched(c, x)
<1>1. UNCHANGED <<kind, explored, pending>> /\ Functions'
  BY DEF Change, Functions, IsFun, IInv
<1>2. items'[c] = s /\ links'[c] = k /\ told'[c] = t /\ pending'[c] = pending[c]
  BY <1>1 DEF Change
<1>3. ASSUME NEW d \in Containers \ {c}, d \notin DOMAIN cut PROVE Same(d)
  BY <1>1, <1>3 DEF Change, Same
<1>4. ASSUME NEW d \in Containers \ {c}, d \in DOMAIN cut
      PROVE  /\ items'[d] = cut[d] /\ links'[d] = LinksLeft(d, cut[d]) /\ pending'[d] = pending[d]
             /\ told'[d] \in BOOLEAN /\ (told'[d] <=> told[d] /\ Undisturbed(d))
  <2>1. told'[d] = (told[d] /\ Undisturbed(d))
    BY <1>4 DEF Change
  <2>2. told[d] \in BOOLEAN
    BY EachIs
  <2> QED BY <1>1, <1>4, <2>1, <2>2 DEF Change
<1>5. ASSUME NEW d \in Containers \ {c}, d \in DOMAIN cut
      PROVE  /\ Good(d, items'[d], links'[d], told'[d], pending'[d])
             /\ \A y : Has(links'[d].at, y) => y = NoItem \/ Has(links[d].at, y) \/ Has(items[d], y)
             /\ \A y : Has(items'[d], y) => Has(items[d], y)
  <2>1. IsCut(d, cut[d])
    BY <1>5
  <2>2. /\ Good(d, cut[d], LinksLeft(d, cut[d]), told'[d], pending[d])
        /\ \A y : Has(LinksLeft(d, cut[d]).at, y) =>
                    y = NoItem \/ Has(links[d].at, y) \/ Has(items[d], y)
    BY <1>4, <1>5, <2>1, CutGood
  <2> QED BY <1>4, <1>5, <2>1, <2>2 DEF IsCut
<1>6. HeapNext
  <2>1. \A d \in Containers : Same(d) \/ Good(d, items'[d], links'[d], told'[d], pending'[d])
    BY <1>2, <1>3, <1>5
  <2> QED BY <1>1, <2>1, GoodSteps DEF HeapNext
<1>7. DOMAIN cut = {} => HeapStep(c)
  BY <1>1, <1>2, <1>3 DEF HeapStep, Others
<1>8. ASSUME NEW x \in Containers \ {c}, DOMAIN cut \subseteq {x} PROVE Touched(c, x)
  <2>1. \A o \in Containers \ {c, x} : Same(o)
    BY <1>3, <1>8
  <2>2. \A y : Has(links'[c].at, y) => y = NoItem \/ Has(links[c].at, y) \/ Has(items'[c], y)
    BY <1>2 DEF Learns
  <2>3. /\ \A y : Has(links'[x].at, y) => y = NoItem \/ Has(links[x].at, y) \/ Has(items[x], y)
        /\ \A y : Has(items'[x], y) => Has(items[x], y)
    BY <1>3, <1>5 DEF Same
  <2> QED BY <1>1, <2>1, <2>2, <2>3 DEF Touched
<1> QED BY <1>2, <1>6, <1>7, <1>8

(* Some list is taken for the links of c. *)
ListTaken(c) ==
  \E x \in TakenForLinks(links[c]) \cup TakenForLinks(links'[c]) : x \in Containers \ {c} /\ Touched(c, x)

LEMMA CutChange ==
  ASSUME IInv, NEW c \in Containers, NEW s, NEW k, NEW t, NEW cut, Change(c, s, k, t, cut),
         Good(c, s, k, t, pending[c]), Learns(links[c], k, s),
         NEW m \in {links[c], k},
         \A x \in DOMAIN cut : x \in TakenForLinks(m) /\ IsCut(x, cut[x])
  PROVE  /\ HeapNext /\ items'[c] = s /\ links'[c] = k /\ told'[c] = t
         /\ HeapStep(c) \/ ListTaken(c)
         /\ DOMAIN cut = {} => HeapStep(c)
         /\ TakenForLinks(m) # {} => ListTaken(c)
<1>1. \A x \in TakenForLinks(m) : x \in Containers \ {c}
  <2>1. Sound(kind[c], items[c], explored[c], links[c], pending[c])
    BY EachIs
  <2>2. Sound(kind[c], s, explored[c], k, pending[c])
    BY DEF Good
  <2> QED BY <2>1, <2>2, TakenIsOther
<1>2. /\ HeapNext /\ items'[c] = s /\ links'[c] = k /\ told'[c] = t
      /\ DOMAIN cut = {} => HeapStep(c)
      /\ \A x \in Containers \ {c} : DOMAIN cut \subseteq {x} => Touched(c, x)
  <2>1. \A x \in DOMAIN cut : x # c /\ IsCut(x, cut[x])
    BY <1>1
  <2> QED BY <2>1, ChangeGood
<1>3. ASSUME NEW x \in TakenForLinks(m) PROVE ListTaken(c)
  <2>1. DOMAIN cut \subseteq {x}
    BY <1>3, OneTaken
  <2>2. Touched(c, x) /\ x \in Containers \ {c}
    BY <1>1, <1>2, <2>1
  <2>3. m = links[c] \/ m = links'[c]
    BY <1>2
  <2> QED BY <2>2, <2>3 DEF ListTaken
<1> QED BY <1>2, <1>3

LEMMA NoCut == DOMAIN <<>> = {}
  OBVIOUS

LEMMA CellSetGood ==
  ASSUME IInv, NEW c \in Containers, CellSet(c)
  PROVE  HeapNext /\ (HeapStep(c) \/ ListTaken(c)) /\ UNCHANGED cycle
<1> USE Limits
<1> DEFINE k == links[c]
           p == pending[c]
           e == explored[c]
<1>1. kind[c] = "cell" /\ UNCHANGED cycle
  BY DEF CellSet
<1>2. Sound(kind[c], items[c], e, k, p) /\ IsForm(k) /\ e \in BOOLEAN
  BY EachIs
<1>3. k.rep \in {"none", "single"} /\ p = NoWrite
  BY <1>1, <1>2 DEF Sound
<1>4. ASSUME NEW x \in Items, Change(c, <<x>>, IF e THEN setLink(k, 0, x) ELSE k, TRUE, <<>>)
      PROVE  HeapNext /\ HeapStep(c)
  <2> DEFINE n == setLink(k, 0, x)
             q == <<x>>
             l == IF e THEN n ELSE k
  <2>1. q \in Seq(Slots) /\ Len(q) = 1 /\ \A y : Has(q, y) <=> y = x
    BY DEF Has, Slots
  <2>2. Change(c, q, l, TRUE, <<>>)
    BY <1>4
  <2>3. k = links[c] /\ e = explored[c] /\ p = pending[c]
    OBVIOUS
  <2> HIDE DEF k, e, p
  <2>4. Sets(n, k, 1, x) /\ n.rep = "single"
    <3>1. Fits(k, 0) /\ 0 \in Nat /\ 0 < MaxLinks
      BY <1>3 DEF Fits
    <3>2. Sets(n, k, 0 + 1, x) /\ n.rep = "single"
      BY <1>2, <1>3, <3>1, setLinkSets
    <3> QED BY <3>2
  <2> HIDE DEF n, q
  <2>5. Has(n.at, x) /\ \A y : Has(n.at, y) => y = NoItem \/ Has(k.at, y) \/ y = x
    BY <1>2, <2>4, SetsLearns DEF Sets, Has
  <2>6. Sound(kind[c], q, e, l, p)
    <3>1. CASE e
      BY <1>1, <1>2, <1>3, <2>1, <2>4, <3>1 DEF Sound, Sets
    <3>2. CASE ~e
      BY <1>1, <1>2, <2>1, <3>2 DEF Sound
    <3> QED BY <1>2, <3>1, <3>2
  <2>7. Aligned(kind[c], q, e, l, TRUE, p)
    BY <1>1, <1>3, <2>1, <2>5 DEF Aligned
  <2>8. Learns(k, l, q)
    BY <1>2, <2>1, <2>5 DEF Learns
  <2>9. ~e => l = k
    OBVIOUS
  <2> HIDE DEF l
  <2>10. Good(c, q, l, TRUE, pending[c]) /\ Learns(links[c], l, q)
    BY <2>3, <2>6, <2>7, <2>8, <2>9 DEF Good
  <2> DEFINE none == <<>>
  <2>11. DOMAIN none = {}
    BY NoCut
  <2>12. Change(c, q, l, TRUE, none)
    BY <2>2
  <2> HIDE DEF none
  <2> QED BY <2>10, <2>11, <2>12, CutChange
<1>5. ASSUME Change(c, <<NoItem>>, k, TRUE, CutFirst(k))
      PROVE  HeapNext /\ (HeapStep(c) \/ ListTaken(c))
  <2> DEFINE q == <<NoItem>>
             cut == CutFirst(k)
  <2>1. q \in Seq(Slots) /\ Len(q) = 1 /\ \A y : Has(q, y) <=> y = NoItem
    BY DEF Has, Slots
  <2>2. \A x \in DOMAIN cut : x \in TakenForLinks(k) /\ IsCut(x, cut[x])
    BY CutFirstIs
  <2>3. Change(c, q, links[c], TRUE, cut) /\ k = links[c] /\ e = explored[c] /\ p = pending[c]
    BY <1>5
  <2> HIDE DEF q, cut, k, e, p
  <2>4. Sound(kind[c], q, e, k, p)
    BY <1>1, <1>2, <2>1 DEF Sound
  <2>5. Aligned(kind[c], q, e, k, TRUE, p)
    BY <1>1, <1>3, <2>1 DEF Aligned
  <2>6. Good(c, q, links[c], TRUE, pending[c]) /\ Learns(links[c], links[c], q)
    BY <2>3, <2>4, <2>5 DEF Good, Learns
  <2> QED BY <2>2, <2>3, <2>6, CutChange
<1> QED BY <1>1, <1>4, <1>5 DEF CellSet

LEMMA SetMemberGood ==
  ASSUME IInv, NEW c \in Containers, SetMember(c)
  PROVE  HeapNext /\ (HeapStep(c) \/ ListTaken(c)) /\ UNCHANGED cycle
<1> USE Limits
<1>1. kind[c] = "peer" /\ UNCHANGED cycle
  BY DEF SetMember
<1>2. PICK j \in DOMAIN items[c], x \in Slots :
        LET s == [items[c] EXCEPT ![j] = x]
            k == IF explored[c] THEN updateJyGCHeadLinks(links[c], s) ELSE links[c]
        IN Change(c, s, k, TRUE, CutFrom(k, Len(Visited(s))))
  BY DEF SetMember
<1> DEFINE q == [items[c] EXCEPT ![j] = x]
           l == IF explored[c] THEN updateJyGCHeadLinks(links[c], q) ELSE links[c]
           n == Len(Visited(q))
           cut == CutFrom(l, n)
<1>3. Change(c, q, l, TRUE, cut)
  BY <1>2
<1>4. /\ items[c] \in Seq(Slots) /\ j \in 1..Len(items[c]) /\ Len(items[c]) <= MaxLen
      /\ Sound(kind[c], items[c], explored[c], links[c], pending[c])
  BY EachIs
<1>5. Wrote(q, items[c], j, x)
  BY <1>4, WriteSlot
<1> HIDE DEF q
<1>6. q \in Seq(Slots) /\ Len(q) <= MaxLen /\ pending[c] = NoWrite
  BY <1>1, <1>4, <1>5 DEF Wrote, Sound
<1>7. Good(c, q, l, TRUE, pending[c]) /\ Learns(links[c], l, q)
  BY <1>1, <1>6, UpdatedGood
<1> HIDE DEF l
<1>8. \A y \in DOMAIN cut : y \in TakenForLinks(l) /\ IsCut(y, cut[y])
  <2>1. n \in Nat
    BY <1>6, VisitedProperties
  <2> HIDE DEF n
  <2> QED BY <2>1, CutFromIs
<1> HIDE DEF cut
<1> QED BY <1>1, <1>3, <1>7, <1>8, CutChange

(* A validation: the links are repaired if anything differs from what is   *)
(* taken for them.                                                         *)
Missed(c)  == \E x \in Items : Has(items[c], x) /\ ~Has(links[c].at, x)
Covered(c) == \A x \in Items : Has(items[c], x) => Has(links'[c].at, x)

LEMMA ValidateGood ==
  ASSUME IInv, NEW c \in Containers, JyGC_validateGCHead(c)
  PROVE  /\ HeapNext /\ (HeapStep(c) \/ ListTaken(c))
         /\ UNCHANGED <<kind, explored, busy, forced>>
         /\ c \in left /\ left' = left \ {c} /\ items'[c] = items[c]
         /\ delayFinalization' \in BOOLEAN /\ (delayFinalization => delayFinalization')
         /\ Learns(links[c], links'[c], items[c])
         /\ TakenForLinks(links[c]) # {} => ListTaken(c)
         /\ TakenForLinks(links[c]) = {} =>
              /\ delayFinalization' <=> Missed(c) \/ delayFinalization
              /\ explored[c] => Covered(c)
<1> USE Limits
<1> DEFINE s == items[c]
           k == links[c]
           p == pending[c]
           e == explored[c]
           v == Visited(s)
           o == toHandleArray(k)
           ch == Changes(v, o)
           u == updateJyGCHeadLinks(k, s)
           l == IF ch # {} /\ e THEN u ELSE k
           complete == (ch # {} \/ TakenForLinks(k) = {}) /\ Dense(c, s)
           t == told[c] \/ (complete /\ Undisturbed(c))
           cut == IF ch = {} THEN <<>> ELSE CutFrom(l, Len(v))
           found == \E j \in ch : ~longArrayContains(o, v[j])
<1>1. /\ UNCHANGED <<busy, forced>> /\ c \in left /\ left' = left \ {c}
      /\ delayFinalization' = (found \/ delayFinalization)
      /\ Change(c, s, l, t, cut)
  BY DEF JyGC_validateGCHead
<1>2. UNCHANGED <<kind, explored>>
  BY <1>1 DEF Change
<1>3. /\ Sound(kind[c], s, e, k, p) /\ told[c] \in BOOLEAN /\ e \in BOOLEAN
      /\ Aligned(kind[c], s, e, k, told[c], p)
      /\ s \in Seq(Slots) /\ Len(s) \in Nat /\ Len(s) <= MaxLen
      /\ IsForm(k) /\ k.at \in Seq(Slots) /\ Len(k.at) \in Nat
  BY EachIs
<1>4. /\ v \in Seq(Items) /\ Len(v) \in Nat /\ \A x : Has(v, x) <=> x # NoItem /\ Has(s, x)
      /\ ~Has(s, NoItem) => v = s
  BY <1>3, VisitedProperties
<1>5. delayFinalization \in BOOLEAN
  BY DEF IInv, CycleTypes
<1>6. ASSUME TakenForLinks(k) = {} PROVE o = k.at
  BY <1>6 DEF toHandleArray
<1>7. t \in BOOLEAN /\ (t <=> told[c] \/ (complete /\ p = NoWrite))
      /\ (complete => (ch # {} \/ TakenForLinks(k) = {}) /\ (kind[c] = "list" => ~Has(s, NoItem)))
  BY <1>3, DenseIs DEF Undisturbed
<1>8. DOMAIN v = 1..Len(v) /\ \A j \in ch : j \in 1..Len(v)
  BY <1>4 DEF Changes
<1>9. ASSUME TakenForLinks(k) = {}, NEW j \in 1..Len(v), j \notin ch
      PROVE  j <= Len(k.at) /\ v[j] = k.at[j]
  <2> HIDE DEF v, k
  <2>1. ch = Changes(v, k.at)
    BY <1>6, <1>9
  <2> HIDE DEF ch
  <2> QED BY <1>3, <1>8, <1>9, <2>1 DEF Changes
<1> HIDE DEF o, ch
<1>10. ASSUME TakenForLinks(k) = {}, NEW j \in 1..Len(v), j \notin ch PROVE Has(k.at, v[j])
  <2> HIDE DEF v, k
  <2>1. j \in 1..Len(k.at) /\ k.at[j] = v[j]
    BY <1>3, <1>4, <1>9, <1>10
  <2> QED BY <2>1 DEF Has
<1>11. ASSUME TakenForLinks(k) = {} PROVE found <=> Missed(c)
  <2>1. \A x : longArrayContains(o, x) <=> Has(k.at, x)
    BY <1>3, <1>6, <1>11, RangeHas DEF longArrayContains
  <2>2. Missed(c) <=> \E x \in Items : Has(s, x) /\ ~Has(k.at, x)
    BY DEF Missed
  <2> HIDE DEF s, k, v
  <2>3. ASSUME NEW j \in ch, ~longArrayContains(o, v[j]) PROVE Missed(c)
    <3>1. j \in 1..Len(v) /\ v[j] \in Items
      BY <1>4, <1>8
    <3>2. Has(v, v[j])
      BY <3>1 DEF Has
    <3> QED BY <1>4, <2>1, <2>2, <2>3, <3>1, <3>2
  <2>4. ASSUME NEW x \in Items, Has(s, x), ~Has(k.at, x) PROVE found
    <3>1. Has(v, x)
      BY <1>4, <2>4
    <3>2. PICK j \in 1..Len(v) : v[j] = x
      BY <3>1 DEF Has
    <3>3. j \in ch
      BY <1>10, <1>11, <2>4, <3>2
    <3> QED BY <2>1, <2>4, <3>2, <3>3
  <2> QED BY <2>2, <2>3, <2>4
<1> HIDE DEF found, complete, t
<1>12. Good(c, s, l, t, p) /\ Learns(k, l, s)
  <2>1. CASE ch # {}
    <3>1. /\ kind[c] = "cell" => Len(s) = 1
          /\ t /\ explored[c] /\ kind[c] = "list" => ~Has(s, NoItem)
          /\ t /\ pending[c] # NoWrite =>
               pending[c].index \in 1..Len(s) /\ s[pending[c].index] = pending[c].item
      <4>1. kind[c] = "cell" => Len(s) = 1
        BY <1>3 DEF Sound
      <4>2. t /\ e /\ kind[c] = "list" => ~Has(s, NoItem)
        BY <1>3, <1>7 DEF Aligned
      <4>3. t /\ p # NoWrite => p.index \in 1..Len(s) /\ s[p.index] = p.item
        BY <1>3, <1>7 DEF Aligned
      <4> QED BY <4>1, <4>2, <4>3
    <3>2. /\ Good(c, s, IF explored[c] THEN updateJyGCHeadLinks(links[c], s) ELSE links[c],
                  t, pending[c])
          /\ Learns(links[c], IF explored[c] THEN updateJyGCHeadLinks(links[c], s) ELSE links[c], s)
      <4> DEFINE q == s
      <4>1. q \in Seq(Slots) /\ Len(q) <= MaxLen
        BY <1>3
      <4>2. /\ kind[c] = "cell" => Len(q) = 1
            /\ t /\ explored[c] /\ kind[c] = "list" => ~Has(q, NoItem)
            /\ t /\ pending[c] # NoWrite =>
                 pending[c].index \in 1..Len(q) /\ q[pending[c].index] = pending[c].item
        BY <3>1
      <4>3. q = s
        OBVIOUS
      <4> HIDE DEF q
      <4> QED BY <1>7, <4>1, <4>2, <4>3, UpdatedGood
    <3> QED BY <2>1, <3>2
  <2>2. CASE ch = {}
    <3>1. l = k
      BY <2>2
    <3>2. Aligned(kind[c], s, e, k, t, p)
      <4>1. CASE told[c]
        BY <1>3, <1>7, <4>1 DEF Aligned
      <4>2. CASE ~t
        BY <4>2 DEF Aligned
      <4>3. CASE ~told[c] /\ t
        <5> HIDE DEF s, k, p, v, e
        <5>1. TakenForLinks(k) = {} /\ p = NoWrite /\ (kind[c] = "list" => ~Has(s, NoItem))
          BY <1>7, <2>2, <4>3
        <5>2. \A j \in 1..Len(v) : j <= Len(k.at) /\ v[j] = k.at[j] /\ Has(k.at, v[j])
          BY <1>9, <1>10, <2>2, <5>1
        <5>3. ASSUME NEW x, Has(s, x), x # NoItem PROVE Has(k.at, x)
          <6>1. Has(v, x)
            BY <1>4, <5>3
          <6>2. PICK j \in 1..Len(v) : v[j] = x
            BY <6>1 DEF Has
          <6> QED BY <5>2, <6>2
        <5>4. kind[c] = "list" => \A j \in 1..Len(s) : j <= Len(k.at) /\ k.at[j] = s[j]
          BY <1>4, <5>1, <5>2
        <5> QED BY <5>1, <5>3, <5>4 DEF Aligned
      <4> QED BY <1>3, <1>7, <4>1, <4>2, <4>3
    <3> HIDE DEF l
    <3> QED BY <1>3, <1>7, <3>1, <3>2 DEF Good, Learns
  <2> QED BY <2>1, <2>2
<1>13. \A x \in DOMAIN cut : x \in TakenForLinks(l) /\ IsCut(x, cut[x])
  <2> HIDE DEF l
  <2>1. CASE ch = {}
    BY <2>1, NoCut
  <2>2. CASE ch # {}
    <3>1. cut = CutFrom(l, Len(v))
      BY <2>2
    <3> HIDE DEF cut, v
    <3> QED BY <1>4, <3>1, CutFromIs
  <2> QED BY <2>1, <2>2
<1>14. /\ HeapNext /\ items'[c] = s /\ links'[c] = l /\ (HeapStep(c) \/ ListTaken(c))
       /\ TakenForLinks(l) # {} => ListTaken(c)
  <2> HIDE DEF l, cut, s
  <2>1. Good(c, s, l, t, pending[c]) /\ Learns(links[c], l, s)
    BY <1>12
  <2> QED BY <1>1, <1>13, <2>1, CutChange
<1>15. TakenForLinks(k) # {} => ListTaken(c)
  <2> SUFFICES ASSUME TakenForLinks(k) # {}, TakenForLinks(l) = {} PROVE ListTaken(c)
    BY <1>14
  <2> HIDE DEF l, s
  <2>1. \A x \in DOMAIN cut : x \in TakenForLinks(k) /\ IsCut(x, cut[x])
    BY <1>13
  <2> HIDE DEF cut
  <2>2. Good(c, s, l, t, pending[c]) /\ Learns(links[c], l, s)
    BY <1>12
  <2> QED BY <1>1, <2>1, <2>2, CutChange
<1>16. ASSUME TakenForLinks(k) = {}, e PROVE Covered(c)
  <2> SUFFICES ASSUME NEW x \in Items, Has(s, x) PROVE Has(l.at, x)
    BY <1>14 DEF Covered
  <2>1. Updated(u, k, v)
    BY <1>3, UpdateProperties
  <2> HIDE DEF s, k, p, v, e, u
  <2>2. PICK j \in 1..Len(v) : v[j] = x
    <3>1. Has(v, x)
      BY <1>4
    <3> QED BY <3>1 DEF Has
  <2>3. CASE ch # {}
    <3>1. j <= Len(u.at) /\ u.at[j] = x /\ Len(u.at) \in Nat /\ l = u
      BY <1>16, <2>1, <2>2, <2>3 DEF Updated, IsForm
    <3>2. j \in 1..Len(u.at)
      BY <3>1
    <3> QED BY <3>1, <3>2 DEF Has
  <2>4. CASE ch = {}
    BY <1>10, <1>16, <2>2, <2>4
  <2> QED BY <2>3, <2>4
<1>17. /\ delayFinalization' \in BOOLEAN /\ (delayFinalization => delayFinalization')
       /\ TakenForLinks(k) = {} => (delayFinalization' <=> Missed(c) \/ delayFinalization)
  <2> HIDE DEF k
  <2>1. found \in BOOLEAN
    BY DEF found
  <2> QED BY <1>1, <1>5, <1>11, <2>1
<1> HIDE DEF l, t, cut, ch
<1> QED BY <1>1, <1>2, <1>12, <1>14, <1>15, <1>16, <1>17 DEF s, k, e

NativeWork(c) ==
  \/ SetItem(c) \/ SetItemUpdate(c) \/ AssItem(c) \/ Insert(c) \/ PopLast(c) \/ Clear(c)
  \/ Rewrite(c) \/ ExtendFails(c) \/ StoreSilently(c) \/ CellSet(c) \/ SetMember(c)

LEMMA NativeWorkGood ==
  ASSUME IInv, NEW c \in Containers, NativeWork(c)
  PROVE  HeapNext /\ (HeapStep(c) \/ ListTaken(c)) /\ UNCHANGED cycle
<1>1. CASE CellSet(c) \/ SetMember(c)
  BY <1>1, CellSetGood, SetMemberGood
<1>2. CASE ~(CellSet(c) \/ SetMember(c))
  <2>1. HeapStep(c)
    BY <1>2, SetItemGood, SetItemUpdateGood, AssItemGood, InsertGood, ShrinkGood, RewriteGood,
      SilentGood DEF NativeWork
  <2>2. UNCHANGED cycle
    BY <1>2 DEF NativeWork, SetItem, SetItemUpdate, AssItem, Insert, PopLast, Clear, Rewrite,
      ExtendFails, StoreSilently
  <2> QED BY <2>1, <2>2, HeapStepEach DEF HeapNext
<1> QED BY <1>1, <1>2

-----------------------------------------------------------------------------
(* The invariant holds *)

LEMMA StepIInv ==
  ASSUME IInv, [Next]_vars
  PROVE  IInv'
<1>1. ASSUME NEW c \in Containers, NativeWork(c) PROVE IInv'
  BY <1>1, NativeWorkGood DEF IInv, CycleTypes, cycle, HeapNext
<1>2. ASSUME NEW c \in Containers, Explore(c) PROVE IInv'
  <2>1. kind' \in Kinds /\ Functions' /\ (\A d \in Containers : Each(d)') /\ UNCHANGED cycle
    BY <1>2, ExploreGood
  <2> QED BY <2>1 DEF IInv, CycleTypes, cycle
<1>3. ASSUME NEW c \in Containers, JyGC_validateGCHead(c) PROVE IInv'
  <2>1. HeapNext /\ UNCHANGED <<busy, forced>> /\ left' = left \ {c} /\ delayFinalization' \in BOOLEAN
    BY <1>3, ValidateGood
  <2>2. CycleTypes'
    BY <2>1 DEF IInv, CycleTypes
  <2> QED BY <2>1, <2>2 DEF IInv, HeapNext
<1>4. CASE \/ \E c \in Containers : WithoutHead(c) \/ NotReadable(c)
           \/ BeginCycle \/ EndCycle \/ UNCHANGED vars
  <2>1. UNCHANGED heap
    BY <1>4 DEF WithoutHead, NotReadable, BeginCycle, EndCycle, vars
  <2>2. CycleTypes'
    BY <1>4 DEF IInv, CycleTypes, WithoutHead, NotReadable, BeginCycle, EndCycle, vars, cycle
  <2>3. ASSUME NEW c \in Containers PROVE Each(c)'
    BY <2>1 DEF IInv, Each, heap
  <2>4. kind' \in Kinds /\ Functions'
    BY <2>1 DEF IInv, Functions, IsFun, heap
  <2> QED BY <2>2, <2>3, <2>4 DEF IInv
<1> QED BY <1>1, <1>2, <1>3, <1>4 DEF Next, NativeWork

LEMMA SpecIInv == Spec => []IInv
<1>1. IInv /\ [Next]_vars => IInv'
  BY StepIInv
<1> QED BY <1>1, InitIInv, PTL DEF Spec

(* Type correctness; lists have lists of links, cells and peers a single   *)
(* link or an array of fixed size, whatever destructors do and whatever is *)
(* taken for links.                                                        *)
THEOREM LinksTypeCorrect == Spec => []TypeOK
<1>1. IInv => TypeOK
  <2> SUFFICES ASSUME IInv PROVE TypeOK
    OBVIOUS
  <2>1. ASSUME NEW c \in Containers
        PROVE  /\ items[c] \in SeqOf(Slots, MaxLen) /\ links[c] \in LinkForms
               /\ links[c].rep = "list" <=> kind[c] = "list" /\ explored[c]
               /\ pending[c] = NoWrite \/ pending[c] \in [index : 1..MaxLen, item : Items]
    <3>1. Sound(kind[c], items[c], explored[c], links[c], pending[c])
      BY EachIs
    <3>2. items[c] \in SeqOf(Slots, MaxLen)
      BY <3>1, Limits, BoundedSeq1 DEF Sound
    <3>3. links[c] \in LinkForms
      BY <3>1, FormsAre DEF Sound
    <3> QED BY <3>1, <3>2, <3>3 DEF Sound
  <2>2. explored \in [Containers -> BOOLEAN] /\ told \in [Containers -> BOOLEAN]
    <3>1. \A c \in Containers : explored[c] \in BOOLEAN /\ told[c] \in BOOLEAN
      BY EachIs
    <3> QED BY <3>1 DEF IInv, Functions, IsFun
  <2> QED BY <2>1, <2>2 DEF TypeOK, IInv, CycleTypes
<1> QED BY <1>1, SpecIInv, PTL

(* Updates at an index (updateJyGCHeadLink and updateInsertJyGCHeadLink)   *)
(* hit the link of the item they are about: the links of a list that tells *)
(* are its items, and outdated ones behind.  A list does not tell any more *)
(* when the destructor of an item PyList_SetItem replaced has changed it,  *)
(* or when its links were made while it had empty slots.                   *)
THEOREM LinksStayAligned == Spec => []LinksAligned
<1>1. IInv => LinksAligned
  <2> SUFFICES ASSUME IInv, NEW c \in Containers, kind[c] = "list", Settled(c)
               PROVE  IsPrefix(items[c], links[c].at)
    BY DEF LinksAligned
  <2>1. /\ Aligned(kind[c], items[c], explored[c], links[c], told[c], pending[c])
        /\ items[c] \in Seq(Slots) /\ links[c].at \in Seq(Slots)
    BY EachIs
  <2>2. \A i \in 1..Len(items[c]) : i <= Len(links[c].at) /\ links[c].at[i] = items[c][i]
    BY <2>1 DEF Aligned, Settled
  <2> DEFINE s == items[c]
             t == links[c].at
  <2>3. s \in Seq(Slots) /\ t \in Seq(Slots) /\ \A i \in 1..Len(s) : i <= Len(t) /\ t[i] = s[i]
    BY <2>1, <2>2
  <2> HIDE DEF s, t
  <2>4. IsPrefix(s, t)
    BY <2>3, PrefixIs
  <2> QED BY <2>4 DEF s, t
<1> QED BY <1>1, SpecIInv, PTL

-----------------------------------------------------------------------------
(* GraphMirror is implemented *)

LEMMA ReferencesAre ==
  ASSUME NEW s \in Seq(Slots)
  PROVE  /\ Range(Visited(s)) = {x \in Items : Has(s, x)}
         /\ Range(s) \ {NoItem} = {x \in Items : Has(s, x)}
<1>1. /\ Visited(s) \in Seq(Items)
      /\ \A x : Has(Visited(s), x) <=> x # NoItem /\ Has(s, x)
  BY VisitedProperties
<1>2. \A x : x \in Range(Visited(s)) <=> x # NoItem /\ Has(s, x)
  BY <1>1, RangeHas
<1>3. \A x : x \in Range(s) <=> Has(s, x)
  BY RangeHas
<1>4. \A x : Has(s, x) => x \in Items \/ x = NoItem
  BY DEF Has, Slots
<1> QED BY <1>2, <1>3, <1>4, Limits

(* What GraphMirror sees of a container. *)
MirrorOf(c) ==
  /\ refs[c] = {x \in Items : Has(items[c], x)}
  /\ known[c] = {x \in Items : Has(links[c].at, x)}
  /\ view[c] = IF ~explored[c] THEN "hidden" ELSE IF Settled(c) THEN "mirror" ELSE "stale"
  /\ view[c] = "mirror" => refs[c] \subseteq known[c]
  /\ view[c] = "hidden" => known[c] = {}

AllMirror == \A c \in Containers : MirrorOf(c)

LEMMA MirrorSees == IInv => AllMirror
<1> SUFFICES ASSUME IInv, NEW c \in Containers PROVE MirrorOf(c)
  BY DEF AllMirror
<1>1. /\ Sound(kind[c], items[c], explored[c], links[c], pending[c])
      /\ Aligned(kind[c], items[c], explored[c], links[c], told[c], pending[c])
      /\ items[c] \in Seq(Slots) /\ links[c].at \in Seq(Slots)
      /\ Len(links[c].at) \in Nat /\ Len(items[c]) \in Nat
  BY EachIs
<1>2. refs[c] = {x \in Items : Has(items[c], x)}
  BY <1>1, ReferencesAre DEF refs
<1>3. known[c] = {x \in Items : Has(links[c].at, x)}
  BY <1>1, ReferencesAre DEF known
<1>4. view[c] = IF ~explored[c] THEN "hidden" ELSE IF Settled(c) THEN "mirror" ELSE "stale"
  BY DEF view
<1>5. ASSUME view[c] = "mirror" PROVE refs[c] \subseteq known[c]
  <2>1. explored[c] /\ told[c] /\ pending[c] = NoWrite
    BY <1>4, <1>5 DEF Settled
  <2>2. ASSUME NEW x \in Items, Has(items[c], x) PROVE Has(links[c].at, x)
    <3>1. CASE kind[c] = "list"
      <4>1. PICK i \in 1..Len(items[c]) : items[c][i] = x
        BY <2>2 DEF Has
      <4>2. i <= Len(links[c].at) /\ links[c].at[i] = x
        BY <1>1, <2>1, <3>1, <4>1 DEF Aligned
      <4>3. i \in 1..Len(links[c].at)
        BY <1>1, <4>2
      <4> QED BY <4>2, <4>3 DEF Has
    <3>2. CASE kind[c] # "list"
      BY <1>1, <2>1, <2>2, <3>2, Limits DEF Aligned
    <3> QED BY <3>1, <3>2
  <2> QED BY <1>2, <1>3, <2>2
<1>6. ASSUME view[c] = "hidden" PROVE known[c] = {}
  <2>1. links[c] = NoLinks
    BY <1>1, <1>4, <1>6 DEF Sound
  <2>2. \A x : ~Has(links[c].at, x)
    BY <2>1 DEF NoLinks, Has
  <2> QED BY <1>3, <2>2
<1> QED BY <1>2, <1>3, <1>4, <1>5, <1>6 DEF MirrorOf

LEMMA MirrorSeesNext == IInv' => AllMirror'
<1> QED BY MirrorSees, PTL

LEMMA SameLook ==
  ASSUME NEW d \in Containers, Same(d), explored'[d] = explored[d]
  PROVE  refs'[d] = refs[d] /\ known'[d] = known[d] /\ view'[d] = view[d]
BY DEF refs, known, view, Same, Settled

LEMMA OthersLookSame ==
  ASSUME NEW c \in Containers, Others(c),
         \A d \in Containers \ {c} : explored'[d] = explored[d]
  PROVE  Mirror!Only(c)
<1>1. \A d \in Containers \ {c} : refs'[d] = refs[d] /\ known'[d] = known[d] /\ view'[d] = view[d]
  BY SameLook DEF Others
<1> QED BY <1>1 DEF Mirror!Only, Mirror!OthersSame

LEMMA NativeImplements ==
  ASSUME IInv, IInv', NEW c \in Containers, HeapStep(c), UNCHANGED cycle
  PROVE  Mirror!Native(c)
<1>1. MirrorOf(c) /\ MirrorOf(c)'
  BY MirrorSees, MirrorSeesNext DEF AllMirror
<1>2. Mirror!Only(c)
  BY OthersLookSame DEF HeapStep
<1>3. UNCHANGED Mirror!check
  BY DEF cycle, Mirror!check
<1>4. explored'[c] = explored[c]
  BY DEF HeapStep
<1>5. view'[c] = "hidden" <=> view[c] = "hidden"
  BY <1>1, <1>4 DEF MirrorOf
<1>6. ASSUME view'[c] = "mirror"
      PROVE  refs'[c] \subseteq known'[c] /\ known'[c] \subseteq known[c] \cup refs'[c]
  <2>1. told'[c] /\ pending'[c] = NoWrite
    BY <1>1, <1>6 DEF MirrorOf, Settled
  <2>2. Learns(links[c], links'[c], items'[c])
    BY <2>1 DEF HeapStep, Good
  <2> QED BY <1>1, <1>6, <2>2, Limits DEF MirrorOf, Learns
<1>7. view'[c] = "hidden" => known'[c] = known[c]
  BY <1>1, <1>5 DEF MirrorOf
<1> QED BY <1>2, <1>3, <1>5, <1>6, <1>7 DEF Mirror!Native

(* The cases in which items are taken for links *)
Outcome(c) ==
  \/ UNCHANGED Mirror!check
  \/ /\ c \in left /\ left' = left \ {c} /\ refs'[c] = refs[c]
     /\ delayFinalization => delayFinalization'
     /\ UNCHANGED <<busy, forced>>

LEMMA TakenImplements ==
  ASSUME IInv, IInv', NEW c \in Containers, ListTaken(c), Outcome(c)
  PROVE  \E x \in Containers : TakesItemsForLinks(c, x)
<1>1. PICK x \in TakenForLinks(links[c]) \cup TakenForLinks(links'[c]) :
        x \in Containers \ {c} /\ Touched(c, x)
  BY DEF ListTaken
<1>2. \A o \in Containers : MirrorOf(o) /\ MirrorOf(o)' /\ explored'[o] = explored[o]
  BY <1>1, MirrorSees, MirrorSeesNext DEF AllMirror, Touched
<1>3. \A o \in Containers \ {c, x} :
        refs'[o] = refs[o] /\ known'[o] = known[o] /\ view'[o] = view[o]
  BY <1>1, <1>2, SameLook DEF Touched
<1>4. ASSUME NEW o \in {c, x}
      PROVE  /\ view'[o] = "hidden" <=> view[o] = "hidden"
             /\ view'[o] = "mirror" => refs'[o] \subseteq known'[o]
             /\ known'[o] \subseteq known[o] \cup refs[o] \cup refs'[o]
  <2>1. o \in Containers
    BY <1>1, <1>4
  <2>2. MirrorOf(o) /\ MirrorOf(o)' /\ explored'[o] = explored[o]
    BY <1>2, <2>1
  <2>3. \A y \in Items : Has(links'[o].at, y) =>
          Has(links[o].at, y) \/ Has(items[o], y) \/ Has(items'[o], y)
    BY <1>1, <1>4, Limits DEF Touched
  <2> QED BY <2>2, <2>3 DEF MirrorOf
<1>5. refs'[x] \subseteq refs[x]
  <2>1. MirrorOf(x) /\ MirrorOf(x)'
    BY <1>1, <1>2
  <2> QED BY <1>1, <2>1 DEF MirrorOf, Touched
<1>6. TakesItemsForLinks(c, x)
  BY <1>1, <1>3, <1>4, <1>5 DEF TakesItemsForLinks, Outcome
<1> QED BY <1>1, <1>6

LEMMA NotReadableImplements ==
  ASSUME IInv, IInv', NEW c \in Containers, NotReadable(c)
  PROVE  \E x \in Containers : TakesItemsForLinks(c, x)
<1>1. /\ c \in left /\ left' = {} /\ busy' = FALSE /\ delayFinalization' = FALSE
      /\ UNCHANGED <<heap, forced>>
  BY DEF NotReadable
<1>2. PICK x \in TakenForLinks(links[c]) : TRUE
  BY DEF NotReadable, Readable
<1>3. x \in Containers
  BY <1>2 DEF TakenForLinks
<1>4. UNCHANGED <<refs, known, view>>
  BY <1>1 DEF heap, refs, known, view, Settled
<1>5. \A o \in Containers : MirrorOf(o)
  BY MirrorSees DEF AllMirror
<1>6. \A o \in {c, x} : view[o] = "mirror" => refs[o] \subseteq known[o]
  BY <1>3, <1>5 DEF MirrorOf
<1>7. /\ \A o \in Containers \ {c, x} :
           refs'[o] = refs[o] /\ known'[o] = known[o] /\ view'[o] = view[o]
      /\ \A o \in {c, x} :
           /\ view'[o] = "hidden" <=> view[o] = "hidden"
           /\ view'[o] = "mirror" => refs'[o] \subseteq known'[o]
           /\ known'[o] \subseteq known[o] \cup refs[o] \cup refs'[o]
      /\ refs'[x] \subseteq refs[x]
  BY <1>4, <1>6
<1>8. /\ c \in left /\ left' = {} /\ busy' = FALSE /\ delayFinalization' = FALSE
      /\ UNCHANGED <<refs, known, view, forced>>
  BY <1>1, <1>4
<1>9. TakesItemsForLinks(c, x)
  BY <1>2, <1>7, <1>8, Zenon DEF TakesItemsForLinks
<1> QED BY <1>3, <1>9

LEMMA ExploreImplements ==
  ASSUME IInv, IInv', NEW c \in Containers, Explore(c)
  PROVE  Mirror!Explore(c)
<1>1. MirrorOf(c) /\ MirrorOf(c)'
  BY MirrorSees, MirrorSeesNext DEF AllMirror
<1>2. /\ \A x : Has(links'[c].at, x) <=> x # NoItem /\ Has(items[c], x)
      /\ explored'[c] = TRUE /\ \A d \in Containers \ {c} : explored'[d] = explored[d]
      /\ Others(c) /\ UNCHANGED items /\ ~explored[c] /\ UNCHANGED cycle
  BY ExploreGood
<1>3. Mirror!Only(c)
  BY <1>2, OthersLookSame
<1>4. refs' = refs
  BY <1>2 DEF refs
<1>5. UNCHANGED Mirror!check
  BY <1>2 DEF cycle, Mirror!check
<1>6. view[c] = "hidden" /\ view'[c] # "hidden"
  BY <1>1, <1>2 DEF MirrorOf
<1>7. known'[c] = refs[c]
  BY <1>1, <1>2, <1>4, Limits DEF MirrorOf
<1> QED BY <1>3, <1>4, <1>5, <1>6, <1>7 DEF Mirror!Explore

(* What a validation does if the links are not taken from a list. *)
Repairs(c) ==
  /\ delayFinalization' <=> delayFinalization \/ ~(refs[c] \subseteq known[c])
  /\ explored[c] => refs[c] \subseteq known'[c]

LEMMA ValidateRepairs ==
  ASSUME IInv, IInv', NEW c \in Containers, JyGC_validateGCHead(c), TakenForLinks(links[c]) = {}
  PROVE  Repairs(c)
<1>1. MirrorOf(c) /\ MirrorOf(c)'
  BY MirrorSees, MirrorSeesNext DEF AllMirror
<1>2. /\ delayFinalization' <=> Missed(c) \/ delayFinalization
      /\ explored[c] => Covered(c)
  BY ValidateGood
<1>3. Missed(c) <=> ~(refs[c] \subseteq known[c])
  BY <1>1 DEF MirrorOf, Missed
<1>4. Covered(c) => refs[c] \subseteq known'[c]
  BY <1>1 DEF MirrorOf, Covered
<1> QED BY <1>2, <1>3, <1>4 DEF Repairs

LEMMA ValidateImplements ==
  ASSUME IInv, IInv', NEW c \in Containers, JyGC_validateGCHead(c)
  PROVE  Mirror!Check(c) \/ \E x \in Containers : TakesItemsForLinks(c, x)
<1>1. /\ HeapStep(c) \/ ListTaken(c)
      /\ UNCHANGED <<kind, explored, busy, forced>>
      /\ c \in left /\ left' = left \ {c} /\ items'[c] = items[c]
      /\ delayFinalization' \in BOOLEAN /\ (delayFinalization => delayFinalization')
      /\ Learns(links[c], links'[c], items[c])
      /\ TakenForLinks(links[c]) # {} => ListTaken(c)
  BY ValidateGood
<1>2. MirrorOf(c) /\ MirrorOf(c)'
  BY MirrorSees, MirrorSeesNext DEF AllMirror
<1>3. refs'[c] = refs[c]
  BY <1>1 DEF refs
<1>4. CASE ListTaken(c)
  <2>1. Outcome(c)
    BY <1>1, <1>3 DEF Outcome
  <2> QED BY <1>4, <2>1, TakenImplements
<1>5. CASE ~ListTaken(c)
  <2>1. HeapStep(c) /\ Repairs(c)
    BY <1>1, <1>5, ValidateRepairs
  <2>2. Mirror!Only(c)
    BY <2>1, OthersLookSame DEF HeapStep
  <2>3. refs' = refs
    <3>1. \A d \in Containers : refs'[d] = refs[d]
      BY <1>3, <2>2 DEF Mirror!Only, Mirror!OthersSame
    <3> QED BY <3>1 DEF refs
  <2>4. known'[c] \subseteq known[c] \cup refs[c]
    BY <1>1, <1>2, Limits DEF MirrorOf, Learns
  <2>5. view'[c] = "hidden" <=> view[c] = "hidden"
    BY <1>1, <1>2 DEF MirrorOf
  <2>6. view[c] = "hidden" => known'[c] = known[c]
    BY <1>2, <2>5 DEF MirrorOf
  <2>7. view[c] # "hidden" => explored[c]
    BY <1>2 DEF MirrorOf
  <2>8. delayFinalization' = (delayFinalization \/ ~(refs[c] \subseteq known[c]))
    <3>1. delayFinalization \in BOOLEAN
      BY DEF IInv, CycleTypes
    <3> QED BY <1>1, <2>1, <3>1 DEF Repairs
  <2>9. explored[c] => refs[c] \subseteq known'[c]
    BY <2>1 DEF Repairs
  <2> QED BY <1>1, <2>2, <2>3, <2>4, <2>5, <2>6, <2>7, <2>8, <2>9 DEF Mirror!Check
<1> QED BY <1>4, <1>5

LEMMA InitImplements == Init => Mirror!Init
<1> SUFFICES ASSUME Init PROVE Mirror!Init
  OBVIOUS
<1>1. IInv
  BY InitIInv
<1>2. ASSUME NEW c \in Containers
      PROVE  refs[c] \in SUBSET Items /\ known[c] = {} /\ view[c] = "hidden"
  <2>1. ~explored[c]
    BY DEF Init
  <2> QED BY <1>1, <2>1, MirrorSees DEF MirrorOf, AllMirror
<1>3. refs \in [Containers -> SUBSET Items]
  BY <1>2 DEF refs
<1>4. known = [c \in Containers |-> {}] /\ view = [c \in Containers |-> "hidden"]
  BY <1>2 DEF known, view
<1> QED BY <1>3, <1>4 DEF Mirror!Init, Init

LEMMA StepImplements ==
  ASSUME IInv, IInv', [Next]_vars
  PROVE  [Mirror!Next \/ \E c, x \in Containers : TakesItemsForLinks(c, x)]_Mirror!vars
<1> DEFINE MirrorStep == Mirror!Next \/ \E c, x \in Containers : TakesItemsForLinks(c, x)
<1>1. ASSUME NEW c \in Containers, NativeWork(c) PROVE MirrorStep
  <2>1. (HeapStep(c) \/ ListTaken(c)) /\ UNCHANGED cycle
    BY <1>1, NativeWorkGood
  <2>2. CASE HeapStep(c)
    <3>1. Mirror!Native(c)
      BY <2>1, <2>2, NativeImplements
    <3> QED BY <3>1 DEF Mirror!Next
  <2>3. CASE ListTaken(c)
    <3>1. Outcome(c)
      BY <2>1 DEF Outcome, cycle, Mirror!check
    <3>2. \E x \in Containers : TakesItemsForLinks(c, x)
      BY <2>3, <3>1, TakenImplements
    <3> QED BY <3>2
  <2> QED BY <2>1, <2>2, <2>3
<1>2. ASSUME NEW c \in Containers, Explore(c) \/ JyGC_validateGCHead(c) \/ NotReadable(c)
      PROVE  MirrorStep
  <2>1. \/ Mirror!Explore(c) \/ Mirror!Check(c)
        \/ \E x \in Containers : TakesItemsForLinks(c, x)
    BY <1>2, ExploreImplements, ValidateImplements, NotReadableImplements
  <2> QED BY <2>1 DEF Mirror!Next
<1>3. ASSUME NEW c \in Containers, WithoutHead(c) PROVE MirrorStep
  <2>1. /\ c \in left /\ left' = left \ {c} /\ ~explored[c]
        /\ UNCHANGED <<heap, busy, delayFinalization, forced>>
    BY <1>3 DEF WithoutHead
  <2>2. UNCHANGED <<refs, known, view>>
    BY <2>1 DEF heap, refs, known, view, Settled
  <2>3. view[c] = "hidden"
    BY <2>1 DEF view
  <2>4. Mirror!Skip(c)
    BY <2>1, <2>2, <2>3 DEF Mirror!Skip
  <2> QED BY <2>4 DEF Mirror!Next
<1>4. ASSUME BeginCycle PROVE MirrorStep
  <2>1. UNCHANGED <<refs, known, view>>
    BY <1>4 DEF BeginCycle, heap, refs, known, view, Settled
  <2>2. Mirror!BeginCheck
    BY <1>4, <2>1 DEF BeginCycle, Mirror!BeginCheck
  <2> QED BY <2>2 DEF Mirror!Next
<1>5. ASSUME EndCycle PROVE MirrorStep
  <2>1. UNCHANGED <<refs, known, view>>
    BY <1>5 DEF EndCycle, heap, refs, known, view, Settled
  <2>2. Mirror!EndCheck
    BY <1>5, <2>1 DEF EndCycle, Mirror!EndCheck
  <2> QED BY <2>2 DEF Mirror!Next
<1>6. CASE UNCHANGED vars
  <2>1. UNCHANGED <<refs, known, view>>
    BY <1>6 DEF vars, heap, refs, known, view, Settled
  <2> QED BY <1>6, <2>1 DEF Mirror!vars, vars, cycle
<1>7. CASE Next
  <2> HIDE DEF MirrorStep
  <2>1. \/ \E c \in Containers :
             \/ NativeWork(c) \/ Explore(c) \/ JyGC_validateGCHead(c) \/ NotReadable(c)
             \/ WithoutHead(c)
        \/ BeginCycle \/ EndCycle
    BY <1>7, Zenon DEF Next, NativeWork
  <2>2. MirrorStep
    BY <1>1, <1>2, <1>3, <1>4, <1>5, <2>1
  <2> QED BY <2>2 DEF MirrorStep
<1> QED BY <1>6, <1>7

(* "Here we care to repair the referenceGraph": the links do what          *)
(* GraphMirror asks for, except in the steps in which the items of a list  *)
(* are taken for links.  Java's collector knows every reference of a       *)
(* container that tells, after those steps, too; and a cycle               *)
(* (preProcessCStubGCCycle) finds every other reference, repairs the graph *)
(* and delays finalizations.                                               *)
THEOREM LinksImplementMirror == Spec => ImplementsMirror
<1>1. IInv /\ IInv' /\ [Next]_vars
        => [Mirror!Next \/ \E c, x \in Containers : TakesItemsForLinks(c, x)]_Mirror!vars
  BY StepImplements
<1> QED BY <1>1, InitImplements, SpecIInv, PTL DEF Spec, ImplementsMirror

(* What the repair is there for: the validation of a container whose only  *)
(* link is not the head of a list leaves no reference of it unknown, and   *)
(* asks for delay if and only if there was one (or there was reason for it *)
(* before), whatever updates missed or, after a destructor changed the     *)
(* list PyList_SetItem was at work on, put at wrong places.                *)
THEOREM CyclesRepair ==
  Spec => [][\A c \in Containers :
               JyGC_validateGCHead(c) /\ TakenForLinks(links[c]) = {} => Repairs(c)]_vars
<1>1. IInv /\ IInv' /\ [Next]_vars
        => [\A c \in Containers :
              JyGC_validateGCHead(c) /\ TakenForLinks(links[c]) = {} => Repairs(c)]_vars
  BY ValidateRepairs
<1> QED BY <1>1, SpecIInv, PTL DEF Spec
=============================================================================
