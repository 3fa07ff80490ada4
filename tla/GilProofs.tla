------------------------------- MODULE GilProofs -------------------------------
(***************************************************************************)
(* Mutual exclusion in native code for any number of threads, thread       *)
(* states and nested calls.  The unsynchronized tStateLookup may lose the  *)
(* entries of idle threads at any time; once it has lost that of a thread  *)
(* in native code only type correctness is left.                           *)
(***************************************************************************)
EXTENDS Gil, FiniteSetTheorems, SequenceTheorems, TLAPS

-----------------------------------------------------------------------------
(* The inductive invariant *)

(* Frames whose thread runs with its own state current *)
Carrying == {"entered", "reentered", "ensured", "ensuredLocked", "java"}
Counted  == {"ensured", "ensuredLocked"}

(* Only the lowest frame and one upon ALLOW_THREADS have taken the lock;   *)
(* the others lie upon one that carries it.  Upon a peer lies nothing.     *)
Under(t, i) == IF i = 1 THEN "none" ELSE nest[t][i - 1].kind

Fits(k, below) ==
  /\ k = "peer" => below = "none"
  /\ k \in {"entered", "ensured"} => below \in {"none", "allowed"}
  /\ k \in {"reentered", "ensuredLocked", "java", "allowed"} => below \in Carrying

FramesFit ==
  \A t \in Threads :
    /\ Len(nest[t]) <= MaxDepth
    /\ \A i \in 1..Len(nest[t]) :
         /\ Fits(nest[t][i].kind, Under(t, i))
         /\ nest[t][i].ts = IF nest[t][i].kind = "peer" THEN Null ELSE lookup[t]
         /\ nest[t][i].kind # "peer" => lookup[t] # Null

(* Where an operation can be, upon which frame. *)
Controlled ==
  \A t \in Threads :
    /\ pc[t] \in {"get", "put", "have"} =>
         /\ op[t] \in {"enter", "reenter", "ensure", "release"}
         /\ op[t] = "release" => Top(t) \in Counted
         /\ op[t] \in {"enter", "reenter"} => Top(t) \in {"none", "allowed", "java"}
         /\ op[t] = "ensure" => Top(t) \in Carrying \cup {"none", "allowed"}
    /\ pc[t] \in {"acquire", "got"} =>
         /\ op[t] \in {"enter", "ensure", "restore", "peer"}
         /\ op[t] = "restore" => Top(t) = "allowed"
         /\ op[t] = "peer" => Top(t) = "none"
    /\ pc[t] \in {"got", "unlock"} => Top(t) \in {"none", "allowed"}
    /\ pc[t] \in {"get", "put", "have", "acquire", "got"} /\ op[t] \notin {"release", "restore"} =>
         Len(nest[t]) < MaxDepth

(* Each thread state is the one of one thread and kept by its anchor.      *)
OwnLookups ==
  /\ live = anchored
  /\ \A t \in Threads :
       /\ lookup[t] # Null => lookup[t] \in anchored
       /\ pc[t] = "put" => Top(t) = "none" /\ lookup[t] = Null /\ hand[t] \in anchored
       /\ pc[t] \in {"have", "acquire", "got"} /\ op[t] \notin {"restore", "peer"} =>
            hand[t] = lookup[t] /\ lookup[t] # Null
  /\ \A t, u \in Threads :
       /\ lookup[t] # Null /\ lookup[t] = lookup[u] => t = u
       /\ pc[t] = "put" => lookup[u] # hand[t]
       /\ pc[t] = "put" /\ pc[u] = "put" /\ hand[t] = hand[u] => t = u

(* The current thread state is that of the thread that carries the lock.   *)
CurrentCarried ==
  /\ \A t \in Threads : Top(t) \in Carrying => current = lookup[t] /\ current # Null
  /\ current # Null => \E t \in Threads : Top(t) \in Carrying

IInv ==
  /\ TypeOK /\ FramesFit /\ Controlled /\ OwnLookups
  /\ OneHolder /\ CurrentCarried /\ CountersAgree /\ NoSwapError

(* It is kept as long as nothing is lost that is in use. *)
UnlessLost == lost \/ IInv

-----------------------------------------------------------------------------
(* Frames *)

(* A frame is put upon the others of its thread. *)
LEMMA PushFacts ==
  ASSUME TypeOK, NEW t \in Threads, NEW k \in Kinds, NEW s \in States \cup {Null}, Push(t, k, s)
  PROVE  /\ nest' \in [Threads -> Seq(Frames)]
         /\ Len(nest[t]) \in Nat /\ Len(nest'[t]) = Len(nest[t]) + 1
         /\ nest'[t][Len(nest[t]) + 1] = [kind |-> k, ts |-> s]
         /\ \A i \in 1..Len(nest[t]) : nest'[t][i] = nest[t][i]
         /\ \A u \in Threads \ {t} : nest'[u] = nest[u]
         /\ Top(t)' = k
         /\ \A u \in Threads \ {t} : Top(u)' = Top(u)
  <1> DEFINE f == [kind |-> k, ts |-> s]
  <1>1. nest \in [Threads -> Seq(Frames)] /\ nest[t] \in Seq(Frames) /\ f \in Frames
    BY DEF TypeOK, Frames
  <1>2. nest' = [nest EXCEPT ![t] = Append(nest[t], f)] BY DEF Push
  <1>3. nest'[t] = Append(nest[t], f) /\ \A u \in Threads \ {t} : nest'[u] = nest[u]
    BY <1>1, <1>2
  <1>4. /\ Append(nest[t], f) \in Seq(Frames)
        /\ Len(nest[t]) \in Nat /\ Len(Append(nest[t], f)) = Len(nest[t]) + 1
        /\ Append(nest[t], f)[Len(nest[t]) + 1] = f
        /\ \A i \in 1..Len(nest[t]) : Append(nest[t], f)[i] = nest[t][i]
    BY <1>1
  <1>5. nest' \in [Threads -> Seq(Frames)] BY <1>1, <1>2, <1>4
  <1>6. nest'[t] # <<>> BY <1>3, <1>4
  <1>7. Top(t)' = k BY <1>3, <1>4, <1>6 DEF Top
  <1>8. \A u \in Threads \ {t} : Top(u)' = Top(u) BY <1>3 DEF Top
  <1> QED BY <1>3, <1>4, <1>5, <1>7, <1>8

(* The top frame is taken off. *)
LEMMA PopFacts ==
  ASSUME TypeOK, NEW t \in Threads, Top(t) # "none", Pop(t)
  PROVE  /\ nest' \in [Threads -> Seq(Frames)]
         /\ Len(nest[t]) \in Nat \ {0} /\ Len(nest'[t]) = Len(nest[t]) - 1
         /\ Top(t) = nest[t][Len(nest[t])].kind
         /\ \A i \in 1..Len(nest[t]) - 1 : nest'[t][i] = nest[t][i]
         /\ \A u \in Threads \ {t} : nest'[u] = nest[u]
         /\ Top(t)' = Under(t, Len(nest[t]))
         /\ \A u \in Threads \ {t} : Top(u)' = Top(u)
  <1> DEFINE n == Len(nest[t])
             r == SubSeq(nest[t], 1, n - 1)
  <1>1. nest \in [Threads -> Seq(Frames)] /\ nest[t] \in Seq(Frames) BY DEF TypeOK
  <1>2. nest' = [nest EXCEPT ![t] = r] BY DEF Pop
  <1>3. nest'[t] = r /\ \A u \in Threads \ {t} : nest'[u] = nest[u] BY <1>1, <1>2
  <1>4. nest[t] # <<>> /\ n \in Nat \ {0} BY <1>1 DEF Top
  <1>5. r \in Seq(Frames) /\ Len(r) = n - 1 /\ \A i \in 1..n - 1 : r[i] = nest[t][i]
    <2>1. \A i \in 1..n - 1 : nest[t][i] \in Frames BY <1>1, <1>4
    <2>2. /\ r \in Seq(Frames)
          /\ Len(r) = IF 1 <= n - 1 THEN (n - 1) - 1 + 1 ELSE 0
          /\ \A i \in 1..(n - 1) - 1 + 1 : r[i] = nest[t][1 + i - 1]
      BY <1>4, <2>1, SubSeqProperties
    <2> HIDE DEF r
    <2>3. (n - 1) - 1 + 1 = n - 1 /\ (~(1 <= n - 1) => n - 1 = 0)
      <3> HIDE DEF n
      <3> QED BY <1>4
    <2>4. \A i \in 1..n - 1 : 1 + i - 1 = i OBVIOUS
    <2> QED BY <2>2, <2>3, <2>4
  <1>6. nest' \in [Threads -> Seq(Frames)] BY <1>1, <1>2, <1>5
  <1>7. Top(t) = nest[t][n].kind BY <1>4 DEF Top
  <1>8. Top(t)' = Under(t, n)
    <2>1. CASE n = 1
      BY <1>3, <1>5, <2>1 DEF Top, Under
    <2>2. CASE n # 1
      <3> HIDE DEF r
      <3>1. n - 1 \in 1..n - 1 /\ n - 1 # 0
        <4> HIDE DEF n
        <4> QED BY <1>4, <2>2
      <3>2. r # <<>> BY <1>5, <3>1
      <3> QED BY <1>3, <1>5, <2>2, <3>1, <3>2 DEF Top, Under
    <2> QED BY <2>1, <2>2
  <1>9. \A u \in Threads \ {t} : Top(u)' = Top(u) BY <1>3 DEF Top
  <1> QED BY <1>3, <1>4, <1>5, <1>6, <1>7, <1>8, <1>9

LEMMA SameFacts ==
  ASSUME UNCHANGED nest
  PROVE  \A u \in Threads : Top(u)' = Top(u)
  BY DEF Top

(* What the top frame says of the ones below and of the thread state. *)
LEMMA TopFacts ==
  ASSUME TypeOK, FramesFit, NEW t \in Threads
  PROVE  /\ Top(t) \in Kinds \cup {"none"}
         /\ Top(t) = "none" <=> nest[t] = <<>>
         /\ Top(t) = "none" <=> Len(nest[t]) = 0
         /\ Top(t) # "none" =>
              /\ Fits(Top(t), Under(t, Len(nest[t])))
              /\ nest[t][Len(nest[t])].kind = Top(t)
              /\ nest[t][Len(nest[t])].ts = IF Top(t) = "peer" THEN Null ELSE lookup[t]
              /\ Top(t) # "peer" => lookup[t] # Null
  <1>1. nest[t] \in Seq(Frames) BY DEF TypeOK
  <1>2. CASE nest[t] = <<>>
    BY <1>2 DEF Top, Kinds
  <1>3. CASE nest[t] # <<>>
    <2>1. Len(nest[t]) \in 1..Len(nest[t]) BY <1>1, <1>3
    <2>2. nest[t][Len(nest[t])] \in Frames BY <1>1, <2>1
    <2>3. Top(t) = nest[t][Len(nest[t])].kind BY <1>3 DEF Top
    <2>4. Top(t) \in Kinds BY <2>2, <2>3 DEF Frames
    <2>5. Len(nest[t]) # 0 BY <2>1
    <2> QED BY <1>3, <2>1, <2>3, <2>4, <2>5 DEF FramesFit, Kinds
  <1> QED BY <1>2, <1>3

LEMMA PushFits ==
  ASSUME TypeOK, FramesFit, NEW t \in Threads, NEW k \in Kinds, NEW s \in States \cup {Null},
         Push(t, k, s), UNCHANGED lookup,
         Len(nest[t]) < MaxDepth, Fits(k, Top(t)),
         s = IF k = "peer" THEN Null ELSE lookup[t], k # "peer" => lookup[t] # Null
  PROVE  FramesFit'
  <1> DEFINE n == Len(nest[t])
  <1>1. /\ n \in Nat /\ Len(nest'[t]) = n + 1
        /\ nest'[t][n + 1] = [kind |-> k, ts |-> s]
        /\ \A i \in 1..n : nest'[t][i] = nest[t][i]
        /\ \A u \in Threads \ {t} : nest'[u] = nest[u]
    BY PushFacts
  <1>2. MaxDepth \in Nat BY GilAssumption
  <1>3. Top(t) = IF n = 0 THEN "none" ELSE nest[t][n].kind BY TopFacts
  <1>4. SUFFICES ASSUME NEW u \in Threads
        PROVE  /\ Len(nest'[u]) <= MaxDepth
               /\ \A i \in 1..Len(nest'[u]) :
                    /\ Fits(nest'[u][i].kind, Under(u, i)')
                    /\ nest'[u][i].ts = IF nest'[u][i].kind = "peer" THEN Null ELSE lookup[u]
                    /\ nest'[u][i].kind # "peer" => lookup[u] # Null
    BY DEF FramesFit, Fits
  <1>5. CASE u # t
    BY <1>1, <1>5 DEF FramesFit, Under
  <1>6. CASE u = t
    <2>1. n + 1 <= MaxDepth BY <1>1, <1>2
    <2>2. SUFFICES ASSUME NEW i \in 1..n + 1
          PROVE  /\ Fits(nest'[t][i].kind, Under(t, i)')
                 /\ nest'[t][i].ts = IF nest'[t][i].kind = "peer" THEN Null ELSE lookup[t]
                 /\ nest'[t][i].kind # "peer" => lookup[t] # Null
      BY <1>1, <1>6, <2>1
    <2>3. CASE i \in 1..n
      <3>1. nest'[t][i] = nest[t][i] BY <1>1, <2>3
      <3>2. i = 1 \/ i - 1 \in 1..n BY <1>1, <2>3
      <3>3. Under(t, i)' = Under(t, i) BY <1>1, <3>2 DEF Under
      <3> QED BY <2>3, <3>1, <3>3 DEF FramesFit
    <2>4. CASE i = n + 1
      <3>1. Under(t, i)' = Top(t)
        <4>1. CASE n = 0 BY <1>3, <2>4, <4>1 DEF Under
        <4>2. CASE n # 0
          <5>1. n \in 1..n /\ i - 1 = n /\ i # 1 BY <1>1, <2>4, <4>2
          <5> QED BY <1>1, <1>3, <4>2, <5>1 DEF Under
        <4> QED BY <4>1, <4>2
      <3> QED BY <1>1, <2>4, <3>1
    <2> QED BY <1>1, <2>3, <2>4
  <1> QED BY <1>5, <1>6

LEMMA PopFits ==
  ASSUME TypeOK, FramesFit, NEW t \in Threads, Pop(t), UNCHANGED lookup, Top(t) # "none"
  PROVE  FramesFit'
  <1> DEFINE n == Len(nest[t])
  <1>1. /\ n \in Nat \ {0} /\ Len(nest'[t]) = n - 1
        /\ \A i \in 1..n - 1 : nest'[t][i] = nest[t][i]
        /\ \A u \in Threads \ {t} : nest'[u] = nest[u]
    BY PopFacts
  <1>2. MaxDepth \in Nat BY GilAssumption
  <1>3. SUFFICES ASSUME NEW u \in Threads
        PROVE  /\ Len(nest'[u]) <= MaxDepth
               /\ \A i \in 1..Len(nest'[u]) :
                    /\ Fits(nest'[u][i].kind, Under(u, i)')
                    /\ nest'[u][i].ts = IF nest'[u][i].kind = "peer" THEN Null ELSE lookup[u]
                    /\ nest'[u][i].kind # "peer" => lookup[u] # Null
    BY DEF FramesFit, Fits
  <1>4. CASE u # t
    BY <1>1, <1>4 DEF FramesFit, Under
  <1>5. CASE u = t
    <2>1. n - 1 <= MaxDepth BY <1>1, <1>2 DEF FramesFit
    <2>2. SUFFICES ASSUME NEW i \in 1..n - 1
          PROVE  /\ Fits(nest'[t][i].kind, Under(t, i)')
                 /\ nest'[t][i].ts = IF nest'[t][i].kind = "peer" THEN Null ELSE lookup[t]
                 /\ nest'[t][i].kind # "peer" => lookup[t] # Null
      BY <1>1, <1>5, <2>1
    <2>3. i \in 1..n /\ (i = 1 \/ i - 1 \in 1..n - 1) BY <1>1
    <2>4. nest'[t][i] = nest[t][i] /\ Under(t, i)' = Under(t, i) BY <1>1, <2>3 DEF Under
    <2> QED BY <2>3, <2>4 DEF FramesFit
  <1> QED BY <1>4, <1>5

LEMMA SameFits ==
  ASSUME FramesFit, UNCHANGED nest,
         \A u \in Threads : nest[u] # <<>> => lookup'[u] = lookup[u]
  PROVE  FramesFit'
  <1>1. SUFFICES ASSUME NEW u \in Threads
        PROVE  /\ Len(nest[u]) <= MaxDepth
               /\ \A i \in 1..Len(nest[u]) :
                    /\ Fits(nest[u][i].kind, Under(u, i))
                    /\ nest[u][i].ts = IF nest[u][i].kind = "peer" THEN Null ELSE lookup'[u]
                    /\ nest[u][i].kind # "peer" => lookup'[u] # Null
    BY DEF FramesFit, Fits, Under
  <1>2. CASE nest[u] = <<>>
    <2>1. Len(nest[u]) = 0 BY <1>2
    <2> QED BY <2>1 DEF FramesFit
  <1>3. CASE nest[u] # <<>> BY <1>3 DEF FramesFit
  <1> QED BY <1>2, <1>3

-----------------------------------------------------------------------------
(* Ensures that have not been released *)

LEMMA EnsuresFinite ==
  ASSUME NEW s
  PROVE  IsFiniteSet(Ensures(s))
  <1>1. IsFiniteSet(Threads) /\ MaxDepth \in Nat BY GilAssumption
  <1>2. IsFiniteSet(1..MaxDepth) BY <1>1, FS_Interval
  <1>3. IsFiniteSet(Threads \X (1..MaxDepth)) BY <1>1, <1>2, FS_Product
  <1>4. Ensures(s) \subseteq Threads \X (1..MaxDepth) BY DEF Ensures
  <1> QED BY <1>3, <1>4, FS_Subset

(* A frame of ensure is counted for its thread state. *)
LEMMA PushCounts ==
  ASSUME TypeOK, NEW t \in Threads, NEW k \in Kinds, NEW s \in States \cup {Null},
         Push(t, k, s), Len(nest[t]) < MaxDepth, NEW x
  PROVE  /\ <<t, Len(nest[t]) + 1>> \notin Ensures(x)
         /\ Ensures(x)' = IF k \in Counted /\ x = s
                          THEN Ensures(x) \cup {<<t, Len(nest[t]) + 1>>} ELSE Ensures(x)
  <1> DEFINE n == Len(nest[t])
             C(f) == f.kind \in Counted /\ f.ts = x
  <1>1. /\ n \in Nat /\ Len(nest'[t]) = n + 1
        /\ nest'[t][n + 1] = [kind |-> k, ts |-> s]
        /\ \A i \in 1..n : nest'[t][i] = nest[t][i]
        /\ \A u \in Threads \ {t} : nest'[u] = nest[u]
        /\ nest' \in [Threads -> Seq(Frames)] /\ nest \in [Threads -> Seq(Frames)]
    BY PushFacts DEF TypeOK
  <1>2. MaxDepth \in Nat BY GilAssumption
  <1>3. DOMAIN nest[t] = 1..n /\ DOMAIN nest'[t] = 1..n + 1 BY <1>1
  <1>4. \A u \in Threads, i \in 1..MaxDepth :
          /\ <<u, i>> \in Ensures(x) <=> i \in DOMAIN nest[u] /\ C(nest[u][i])
          /\ <<u, i>> \in Ensures(x)' <=> i \in DOMAIN nest'[u] /\ C(nest'[u][i])
    BY DEF Ensures, Counted
  <1>5. n + 1 \in 1..MaxDepth /\ n + 1 \notin 1..n BY <1>1, <1>2
  <1>6. <<t, n + 1>> \notin Ensures(x) BY <1>3, <1>4, <1>5
  <1>7. \A u \in Threads, i \in 1..MaxDepth :
          <<u, i>> \in Ensures(x)' <=>
            <<u, i>> \in Ensures(x) \/ (k \in Counted /\ x = s /\ u = t /\ i = n + 1)
    <2> TAKE u \in Threads, i \in 1..MaxDepth
    <2>1. CASE u # t BY <1>1, <1>4, <2>1
    <2>2. CASE u = t /\ i = n + 1
      <3>1. C(nest'[t][n + 1]) <=> k \in Counted /\ x = s BY <1>1
      <3>2. n + 1 \in DOMAIN nest'[t] BY <1>1, <1>3
      <3>3. <<t, n + 1>> \in Ensures(x)' <=> C(nest'[t][n + 1]) BY <1>4, <1>5, <3>2
      <3> QED BY <1>6, <2>2, <3>1, <3>3
    <2>3. CASE u = t /\ i # n + 1
      <3>1. i \in 1..n + 1 <=> i \in 1..n BY <1>1, <2>3
      <3> QED BY <1>1, <1>3, <1>4, <2>3, <3>1
    <2> QED BY <2>1, <2>2, <2>3
  <1>8. /\ Ensures(x) \subseteq Threads \X (1..MaxDepth)
        /\ Ensures(x)' \subseteq Threads \X (1..MaxDepth)
    BY DEF Ensures
  <1>9. <<t, n + 1>> \in Threads \X (1..MaxDepth) BY <1>5
  <1>10. ASSUME k \in Counted, x = s
         PROVE  Ensures(x)' = Ensures(x) \cup {<<t, n + 1>>}
    <2> HIDE DEF n
    <2> QED BY <1>7, <1>8, <1>9, <1>10
  <1>11. ASSUME ~(k \in Counted /\ x = s)
         PROVE  Ensures(x)' = Ensures(x)
    <2> HIDE DEF n
    <2> QED BY <1>7, <1>8, <1>11
  <1> QED BY <1>6, <1>10, <1>11

LEMMA PopCounts ==
  ASSUME TypeOK, FramesFit, NEW t \in Threads, Pop(t), Top(t) # "none", NEW x
  PROVE  /\ <<t, Len(nest[t])>> \in Ensures(x) <=>
               Top(t) \in Counted /\ x = nest[t][Len(nest[t])].ts
         /\ Ensures(x)' = Ensures(x) \ {<<t, Len(nest[t])>>}
  <1> DEFINE n == Len(nest[t])
             C(f) == f.kind \in Counted /\ f.ts = x
  <1>1. /\ n \in Nat \ {0} /\ Len(nest'[t]) = n - 1
        /\ Top(t) = nest[t][n].kind
        /\ \A i \in 1..n - 1 : nest'[t][i] = nest[t][i]
        /\ \A u \in Threads \ {t} : nest'[u] = nest[u]
        /\ nest' \in [Threads -> Seq(Frames)] /\ nest \in [Threads -> Seq(Frames)]
    BY PopFacts DEF TypeOK
  <1>2. MaxDepth \in Nat /\ n <= MaxDepth BY GilAssumption DEF FramesFit
  <1>3. DOMAIN nest[t] = 1..n /\ DOMAIN nest'[t] = 1..n - 1 BY <1>1
  <1>4. \A u \in Threads, i \in 1..MaxDepth :
          /\ <<u, i>> \in Ensures(x) <=> i \in DOMAIN nest[u] /\ C(nest[u][i])
          /\ <<u, i>> \in Ensures(x)' <=> i \in DOMAIN nest'[u] /\ C(nest'[u][i])
    BY DEF Ensures, Counted
  <1>5. n \in 1..MaxDepth /\ n \in 1..n /\ n \notin 1..n - 1 BY <1>1, <1>2
  <1>6. <<t, n>> \in Ensures(x) <=> Top(t) \in Counted /\ x = nest[t][n].ts
    BY <1>1, <1>3, <1>4, <1>5
  <1>7. \A u \in Threads, i \in 1..MaxDepth :
          <<u, i>> \in Ensures(x)' <=> <<u, i>> \in Ensures(x) /\ ~(u = t /\ i = n)
    <2> TAKE u \in Threads, i \in 1..MaxDepth
    <2>1. CASE u # t BY <1>1, <1>4, <2>1
    <2>2. CASE u = t /\ i = n BY <1>3, <1>4, <1>5, <2>2
    <2>3. CASE u = t /\ i # n
      <3>1. i \in 1..n - 1 <=> i \in 1..n BY <1>1, <2>3
      <3> QED BY <1>1, <1>3, <1>4, <2>3, <3>1
    <2> QED BY <2>1, <2>2, <2>3
  <1>8. /\ Ensures(x) \subseteq Threads \X (1..MaxDepth)
        /\ Ensures(x)' \subseteq Threads \X (1..MaxDepth)
    BY DEF Ensures
  <1> HIDE DEF n
  <1> QED BY <1>5, <1>6, <1>7, <1>8 DEF n

(* Only the thread whose state it is has ensured with it. *)
LEMMA NobodyEnsures ==
  ASSUME FramesFit, TypeOK, NEW x, \A u \in Threads : lookup[u] # x
  PROVE  Ensures(x) = {} /\ Cardinality(Ensures(x)) = 0
  <1>1. \A u \in Threads, i \in 1..MaxDepth : <<u, i>> \notin Ensures(x)
    <2>1. SUFFICES ASSUME NEW u \in Threads, NEW i \in 1..MaxDepth, <<u, i>> \in Ensures(x)
          PROVE  FALSE
      OBVIOUS
    <2>2. i \in DOMAIN nest[u] /\ nest[u][i].kind \in Counted /\ nest[u][i].ts = x
      BY <2>1 DEF Ensures, Counted
    <2>3. i \in 1..Len(nest[u]) BY <2>2 DEF TypeOK
    <2>4. nest[u][i].ts = lookup[u] BY <2>2, <2>3 DEF FramesFit, Counted
    <2> QED BY <2>2, <2>4
  <1>2. Ensures(x) \subseteq Threads \X (1..MaxDepth) BY DEF Ensures
  <1>3. Ensures(x) = {} BY <1>1, <1>2
  <1> QED BY <1>3, FS_EmptySet

LEMMA CountsPushed ==
  ASSUME TypeOK, CountersAgree, NEW t \in Threads, NEW k \in Kinds,
         NEW s \in States \cup {Null}, Push(t, k, s), Len(nest[t]) < MaxDepth,
         UNCHANGED <<live, anchored>>,
         counter' = IF k \in Counted THEN [counter EXCEPT ![s] = @ + 1] ELSE counter
  PROVE  CountersAgree'
  <1> SUFFICES ASSUME NEW x \in live
      PROVE  counter'[x] = Cardinality(Ensures(x)') + IF x \in anchored THEN 1 ELSE 0
    BY DEF CountersAgree
  <1>1. /\ <<t, Len(nest[t]) + 1>> \notin Ensures(x)
        /\ Ensures(x)' = IF k \in Counted /\ x = s
                         THEN Ensures(x) \cup {<<t, Len(nest[t]) + 1>>} ELSE Ensures(x)
    BY PushCounts
  <1>2. counter[x] = Cardinality(Ensures(x)) + IF x \in anchored THEN 1 ELSE 0
    BY DEF CountersAgree
  <1>3. x \in States /\ counter \in [States -> Nat] BY DEF TypeOK
  <1>4. IsFiniteSet(Ensures(x)) BY EnsuresFinite
  <1>5. Cardinality(Ensures(x)) \in Nat BY <1>4, FS_CardinalityType
  <1>6. CASE k \in Counted /\ x = s
    <2>1. Ensures(x)' = Ensures(x) \cup {<<t, Len(nest[t]) + 1>>} BY <1>1, <1>6
    <2>2. Cardinality(Ensures(x)') = Cardinality(Ensures(x)) + 1
      BY <1>1, <1>4, <2>1, FS_AddElement
    <2>3. counter'[x] = counter[x] + 1 BY <1>3, <1>6
    <2> QED BY <1>2, <1>5, <2>2, <2>3
  <1>7. CASE ~(k \in Counted /\ x = s)
    <2>1. Ensures(x)' = Ensures(x) BY <1>1, <1>7
    <2>2. counter'[x] = counter[x] BY <1>3, <1>7
    <2> QED BY <1>2, <2>1, <2>2
  <1> QED BY <1>6, <1>7

LEMMA CountsPopped ==
  ASSUME TypeOK, FramesFit, CountersAgree, NEW t \in Threads, Pop(t), Top(t) # "none",
         UNCHANGED <<live, anchored>>,
         counter' = IF Top(t) \in Counted THEN [counter EXCEPT ![lookup[t]] = @ - 1]
                    ELSE counter
  PROVE  CountersAgree'
  <1> SUFFICES ASSUME NEW x \in live
      PROVE  counter'[x] = Cardinality(Ensures(x)') + IF x \in anchored THEN 1 ELSE 0
    BY DEF CountersAgree
  <1> DEFINE f == <<t, Len(nest[t])>>
  <1>1. /\ f \in Ensures(x) <=> Top(t) \in Counted /\ x = nest[t][Len(nest[t])].ts
        /\ Ensures(x)' = Ensures(x) \ {f}
    BY PopCounts
  <1>2. counter[x] = Cardinality(Ensures(x)) + IF x \in anchored THEN 1 ELSE 0
    BY DEF CountersAgree
  <1>3. x \in States /\ counter \in [States -> Nat] BY DEF TypeOK
  <1>4. IsFiniteSet(Ensures(x)) BY EnsuresFinite
  <1>5. Cardinality(Ensures(x)) \in Nat BY <1>4, FS_CardinalityType
  <1>6. nest[t][Len(nest[t])].ts = IF Top(t) = "peer" THEN Null ELSE lookup[t] BY TopFacts
  <1>7. CASE f \in Ensures(x)
    <2>1. x = lookup[t] /\ Top(t) \in Counted BY <1>1, <1>6, <1>7 DEF Counted
    <2>2. Cardinality(Ensures(x)') = Cardinality(Ensures(x)) - 1
      BY <1>1, <1>4, <1>7, FS_RemoveElement
    <2>3. counter'[x] = counter[x] - 1 BY <1>3, <2>1
    <2> QED BY <1>2, <1>3, <1>5, <2>2, <2>3
  <1>8. CASE f \notin Ensures(x)
    <2>1. Ensures(x)' = Ensures(x) BY <1>1, <1>8
    <2>2. ~(Top(t) \in Counted /\ x = lookup[t]) BY <1>1, <1>6, <1>8 DEF Counted
    <2>3. counter'[x] = counter[x] BY <1>3, <2>2
    <2> QED BY <1>2, <2>1, <2>3
  <1> QED BY <1>7, <1>8

LEMMA CountsSame ==
  ASSUME CountersAgree, UNCHANGED <<nest, live, anchored, counter>>
  PROVE  CountersAgree'
  BY DEF CountersAgree, Ensures

(* What is ensured has been counted. *)
LEMMA EnsuredTwice ==
  ASSUME TypeOK, FramesFit, OwnLookups, CountersAgree, NEW t \in Threads, Top(t) \in Counted
  PROVE  counter[lookup[t]] \in Nat /\ counter[lookup[t]] >= 2 /\ lookup[t] \in live
  <1> DEFINE s == lookup[t]
             f == <<t, Len(nest[t])>>
  <1>1. Top(t) # "none" /\ Top(t) # "peer" BY DEF Counted
  <1>2. s # Null /\ nest[t][Len(nest[t])].ts = s /\ nest[t][Len(nest[t])].kind = Top(t)
    BY <1>1, TopFacts
  <1>3. s \in live /\ s \in anchored BY <1>2 DEF OwnLookups
  <1>4. s \in States /\ counter[s] \in Nat BY <1>3 DEF TypeOK
  <1>5. f \in Ensures(s)
    <2>1. nest[t] # <<>> /\ nest[t] \in Seq(Frames) BY <1>1, TopFacts DEF TypeOK
    <2>2. Len(nest[t]) \in DOMAIN nest[t] /\ Len(nest[t]) \in Nat \ {0} BY <2>1
    <2>3. Len(nest[t]) <= MaxDepth /\ MaxDepth \in Nat BY GilAssumption DEF FramesFit
    <2>4. Len(nest[t]) \in 1..MaxDepth BY <2>2, <2>3
    <2> QED BY <1>2, <2>2, <2>4 DEF Ensures, Counted
  <1>6. IsFiniteSet(Ensures(s)) BY EnsuresFinite
  <1>7. Cardinality(Ensures(s)) \in Nat /\ Cardinality(Ensures(s)) # 0
    BY <1>5, <1>6, FS_CardinalityType, FS_EmptySet
  <1>8. counter[s] = Cardinality(Ensures(s)) + 1 BY <1>3 DEF CountersAgree
  <1> QED BY <1>3, <1>4, <1>7, <1>8

-----------------------------------------------------------------------------
(* Operations that do not touch the frames *)

LEMMA FramesUntouched ==
  ASSUME IInv, UNCHANGED <<current, lookup, live, anchored, counter, nest, fatal>>
  PROVE  /\ \A u \in Threads : Top(u)' = Top(u)
         /\ FramesFit' /\ CurrentCarried' /\ CountersAgree' /\ NoSwapError'
  <1>1. \A u \in Threads : Top(u)' = Top(u) BY SameFacts
  <1>2. FramesFit' BY SameFits DEF IInv
  <1>3. CurrentCarried' BY <1>1 DEF IInv, CurrentCarried
  <1>4. CountersAgree' BY CountsSame DEF IInv
  <1>5. NoSwapError' BY DEF IInv, NoSwapError
  <1> QED BY <1>1, <1>2, <1>3, <1>4, <1>5

LEMMA CallNativeKeeps ==
  ASSUME IInv, NEW t \in Threads, NEW o, CallNative(t, o)
  PROVE  IInv'
  <1>1. /\ pc[t] = "run" /\ pc' = [pc EXCEPT ![t] = "get"]
        /\ o \in {"enter", "reenter"} /\ op' = [op EXCEPT ![t] = o]
        /\ Len(nest[t]) < MaxDepth /\ Top(t) \in {"none", "allowed", "java"}
        /\ UNCHANGED <<lock, detach, attached, hand, missed, lost>>
        /\ UNCHANGED <<current, lookup, live, anchored, counter, nest, fatal>>
    BY DEF CallNative, Running, Roomy, Begin, Goto, lookupVars, stateVars
  <1>2. /\ \A u \in Threads : Top(u)' = Top(u)
        /\ FramesFit' /\ CurrentCarried' /\ CountersAgree' /\ NoSwapError'
    BY <1>1, FramesUntouched
  <1>3. TypeOK' BY <1>1 DEF IInv, TypeOK
  <1>4. Controlled' BY <1>1, <1>2 DEF IInv, TypeOK, Controlled, Carrying, Counted
  <1>5. OwnLookups' BY <1>1, <1>2 DEF IInv, TypeOK, Controlled, OwnLookups
  <1>6. OneHolder' BY <1>1, <1>2 DEF IInv, TypeOK, OneHolder, Holds
  <1> QED BY <1>2, <1>3, <1>4, <1>5, <1>6 DEF IInv

LEMMA EnterKeeps ==
  ASSUME IInv, NEW t \in Threads, Enter(t)
  PROVE  IInv'
  <1>1. /\ pc[t] = "have" /\ pc' = [pc EXCEPT ![t] = "acquire"] /\ op[t] = "enter"
        /\ UNCHANGED <<lock, op, detach, attached, hand, missed, lost>>
        /\ UNCHANGED <<current, lookup, live, anchored, counter, nest, fatal>>
    BY DEF Enter, Goto, lookupVars, stateVars
  <1>2. /\ \A u \in Threads : Top(u)' = Top(u)
        /\ FramesFit' /\ CurrentCarried' /\ CountersAgree' /\ NoSwapError'
    BY <1>1, FramesUntouched
  <1>3. TypeOK' BY <1>1 DEF IInv, TypeOK
  <1>4. Controlled' BY <1>1, <1>2 DEF IInv, TypeOK, Controlled, Carrying, Counted
  <1>5. OwnLookups' BY <1>1, <1>2 DEF IInv, TypeOK, Controlled, OwnLookups
  <1>6. OneHolder' BY <1>1, <1>2 DEF IInv, TypeOK, OneHolder, Holds
  <1> QED BY <1>2, <1>3, <1>4, <1>5, <1>6 DEF IInv

LEMMA AcquireKeeps ==
  ASSUME IInv, NEW t \in Threads, Acquire(t)
  PROVE  IInv'
  <1>1. /\ pc[t] = "acquire" /\ pc' = [pc EXCEPT ![t] = "got"] /\ ~lock /\ lock' = TRUE
        /\ UNCHANGED <<op, detach, attached, hand, missed, lost>>
        /\ UNCHANGED <<current, lookup, live, anchored, counter, nest, fatal>>
    BY DEF Acquire, Goto, lookupVars, stateVars
  <1>2. /\ \A u \in Threads : Top(u)' = Top(u)
        /\ FramesFit' /\ CurrentCarried' /\ CountersAgree' /\ NoSwapError'
    BY <1>1, FramesUntouched
  <1>3. TypeOK' BY <1>1 DEF IInv, TypeOK
  <1>4. Controlled'
    <2>1. Top(t) \in {"none", "allowed"}
      BY <1>1, TopFacts DEF IInv, OneHolder, Holds, HasGil, Kinds
    <2> QED BY <1>1, <1>2, <2>1 DEF IInv, TypeOK, Controlled
  <1>5. OwnLookups' BY <1>1, <1>2 DEF IInv, TypeOK, Controlled, OwnLookups
  <1>6. OneHolder' BY <1>1, <1>2 DEF IInv, TypeOK, OneHolder, Holds
  <1> QED BY <1>2, <1>3, <1>4, <1>5, <1>6 DEF IInv

LEMMA UnlockKeeps ==
  ASSUME IInv, NEW t \in Threads, Unlock(t)
  PROVE  IInv'
  <1>1. /\ pc[t] = "unlock" /\ pc' = [pc EXCEPT ![t] = "run"] /\ lock' = FALSE
        /\ UNCHANGED <<op, detach, attached, hand, missed, lost>>
        /\ UNCHANGED <<current, lookup, live, anchored, counter, nest, fatal>>
    BY DEF Unlock, Goto, lookupVars, stateVars
  <1>2. /\ \A u \in Threads : Top(u)' = Top(u)
        /\ FramesFit' /\ CurrentCarried' /\ CountersAgree' /\ NoSwapError'
    BY <1>1, FramesUntouched
  <1>3. TypeOK' BY <1>1 DEF IInv, TypeOK
  <1>4. Controlled' BY <1>1, <1>2 DEF IInv, TypeOK, Controlled, Carrying, Counted
  <1>5. OwnLookups' BY <1>1, <1>2 DEF IInv, TypeOK, Controlled, OwnLookups
  <1>6. OneHolder'
    <2>1. Holds(t) /\ ~Holds(t)' BY <1>1, <1>2 DEF IInv, TypeOK, Controlled, Holds, HasGil
    <2>2. \A u \in Threads \ {t} : ~Holds(u) /\ ~Holds(u)'
      <3> TAKE u \in Threads \ {t}
      <3>1. ~Holds(u) BY <2>1 DEF IInv, OneHolder
      <3>2. pc'[u] = pc[u] BY <1>1 DEF IInv, TypeOK
      <3> QED BY <1>2, <3>1, <3>2 DEF Holds
    <2> QED BY <1>1, <2>1, <2>2 DEF OneHolder
  <1> QED BY <1>2, <1>3, <1>4, <1>5, <1>6 DEF IInv

LEMMA RestoreThreadKeeps ==
  ASSUME IInv, NEW t \in Threads, RestoreThread(t)
  PROVE  IInv'
  <1>1. /\ pc[t] = "run" /\ pc' = [pc EXCEPT ![t] = "acquire"]
        /\ op' = [op EXCEPT ![t] = "restore"] /\ Top(t) = "allowed"
        /\ UNCHANGED <<lock, detach, attached, hand, missed, lost>>
        /\ UNCHANGED <<current, lookup, live, anchored, counter, nest, fatal>>
    BY DEF RestoreThread, Running, Begin, Goto, lookupVars, stateVars
  <1>2. /\ \A u \in Threads : Top(u)' = Top(u)
        /\ FramesFit' /\ CurrentCarried' /\ CountersAgree' /\ NoSwapError'
    BY <1>1, FramesUntouched
  <1>3. TypeOK' BY <1>1 DEF IInv, TypeOK
  <1>4. Controlled' BY <1>1, <1>2 DEF IInv, TypeOK, Controlled, Carrying, Counted
  <1>5. OwnLookups' BY <1>1, <1>2 DEF IInv, TypeOK, Controlled, OwnLookups
  <1>6. OneHolder' BY <1>1, <1>2 DEF IInv, TypeOK, OneHolder, Holds
  <1> QED BY <1>2, <1>3, <1>4, <1>5, <1>6 DEF IInv

LEMMA EnsureKeeps ==
  ASSUME IInv, NEW t \in Threads, Ensure(t)
  PROVE  IInv'
  <1>1. /\ pc[t] = "run" /\ pc' = [pc EXCEPT ![t] = "get"]
        /\ op' = [op EXCEPT ![t] = "ensure"] /\ Len(nest[t]) < MaxDepth
        /\ Top(t) \in Carrying \cup {"none", "allowed"}
        /\ UNCHANGED <<lock, detach, attached, hand, missed, lost>>
        /\ UNCHANGED <<current, lookup, live, anchored, counter, nest, fatal>>
    BY DEF Ensure, Running, Roomy, InNative, Carrying, Begin, Goto, lookupVars, stateVars
  <1>2. /\ \A u \in Threads : Top(u)' = Top(u)
        /\ FramesFit' /\ CurrentCarried' /\ CountersAgree' /\ NoSwapError'
    BY <1>1, FramesUntouched
  <1>3. TypeOK' BY <1>1 DEF IInv, TypeOK
  <1>4. Controlled' BY <1>1, <1>2 DEF IInv, TypeOK, Controlled, Carrying, Counted
  <1>5. OwnLookups' BY <1>1, <1>2 DEF IInv, TypeOK, Controlled, OwnLookups
  <1>6. OneHolder' BY <1>1, <1>2 DEF IInv, TypeOK, OneHolder, Holds
  <1> QED BY <1>2, <1>3, <1>4, <1>5, <1>6 DEF IInv

LEMMA ReleaseKeeps ==
  ASSUME IInv, NEW t \in Threads, Release(t)
  PROVE  IInv'
  <1>1. /\ pc[t] = "run" /\ pc' = [pc EXCEPT ![t] = "get"]
        /\ op' = [op EXCEPT ![t] = "release"] /\ Top(t) \in Counted
        /\ UNCHANGED <<lock, detach, attached, hand, missed, lost>>
        /\ UNCHANGED <<current, lookup, live, anchored, counter, nest, fatal>>
    BY DEF Release, Running, Counted, Begin, Goto, lookupVars, stateVars
  <1>2. /\ \A u \in Threads : Top(u)' = Top(u)
        /\ FramesFit' /\ CurrentCarried' /\ CountersAgree' /\ NoSwapError'
    BY <1>1, FramesUntouched
  <1>3. TypeOK' BY <1>1 DEF IInv, TypeOK
  <1>4. Controlled' BY <1>1, <1>2 DEF IInv, TypeOK, Controlled, Carrying, Counted
  <1>5. OwnLookups' BY <1>1, <1>2 DEF IInv, TypeOK, Controlled, OwnLookups
  <1>6. OneHolder' BY <1>1, <1>2 DEF IInv, TypeOK, OneHolder, Holds
  <1> QED BY <1>2, <1>3, <1>4, <1>5, <1>6 DEF IInv

LEMMA ClearPyCPeerKeeps ==
  ASSUME IInv, NEW t \in Threads, ClearPyCPeer(t)
  PROVE  IInv'
  <1>1. /\ pc[t] = "run" /\ pc' = [pc EXCEPT ![t] = "acquire"]
        /\ op' = [op EXCEPT ![t] = "peer"]
        /\ Len(nest[t]) < MaxDepth /\ Top(t) = "none"
        /\ UNCHANGED <<lock, detach, attached, hand, missed, lost>>
        /\ UNCHANGED <<current, lookup, live, anchored, counter, nest, fatal>>
    BY DEF ClearPyCPeer, Running, Roomy, Top, Begin, Goto, lookupVars, stateVars
  <1>2. /\ \A u \in Threads : Top(u)' = Top(u)
        /\ FramesFit' /\ CurrentCarried' /\ CountersAgree' /\ NoSwapError'
    BY <1>1, FramesUntouched
  <1>3. TypeOK' BY <1>1 DEF IInv, TypeOK
  <1>4. Controlled' BY <1>1, <1>2 DEF IInv, TypeOK, Controlled, Carrying, Counted
  <1>5. OwnLookups' BY <1>1, <1>2 DEF IInv, TypeOK, Controlled, OwnLookups
  <1>6. OneHolder' BY <1>1, <1>2 DEF IInv, TypeOK, OneHolder, Holds
  <1> QED BY <1>2, <1>3, <1>4, <1>5, <1>6 DEF IInv

(* Who finds its own state current runs with the lock. *)
LEMMA CarriesOwn ==
  ASSUME IInv, NEW t \in Threads, lookup[t] # Null, current = lookup[t]
  PROVE  Top(t) \in Carrying
  <1>1. PICK u \in Threads : Top(u) \in Carrying BY DEF IInv, CurrentCarried
  <1>2. current = lookup[u] BY <1>1 DEF IInv, CurrentCarried
  <1>3. u = t BY <1>2 DEF IInv, OwnLookups
  <1> QED BY <1>1, <1>3

(* The others do not have what one thread has. *)
LEMMA OthersWait ==
  ASSUME IInv, NEW t \in Threads, Holds(t)
  PROVE  /\ lock = TRUE
         /\ \A u \in Threads \ {t} : ~Holds(u) /\ Top(u) \notin Carrying
         /\ Top(t) \notin Carrying => current = Null
  <1>1. \A u \in Threads \ {t} : ~Holds(u) BY DEF IInv, OneHolder
  <1>2. \A u \in Threads \ {t} : Top(u) \notin Carrying BY <1>1 DEF Holds, HasGil, Carrying
  <1>3. lock = TRUE BY DEF IInv, OneHolder, TypeOK
  <1> QED BY <1>1, <1>2, <1>3 DEF IInv, CurrentCarried

(* A thread that has the lock before and after changes the current state   *)
(* to its own or to none.                                                  *)
LEMMA HolderSwitches ==
  ASSUME IInv, NEW t \in Threads, Holds(t), Holds(t)', UNCHANGED lock,
         \A u \in Threads \ {t} : Top(u)' = Top(u) /\ pc'[u] = pc[u],
         Top(t)' \in Carrying => current' = lookup'[t] /\ lookup'[t] # Null,
         Top(t)' \notin Carrying => current' = Null
  PROVE  OneHolder' /\ CurrentCarried'
  <1>1. lock /\ \A u \in Threads \ {t} : ~Holds(u) /\ Top(u) \notin Carrying
    BY OthersWait
  <1>2. \A u \in Threads \ {t} : ~Holds(u)' /\ Top(u)' \notin Carrying
    BY <1>1 DEF Holds
  <1>3. OneHolder' BY <1>1, <1>2 DEF OneHolder
  <1>4. CurrentCarried' BY <1>2 DEF CurrentCarried
  <1> QED BY <1>3, <1>4

-----------------------------------------------------------------------------
(* Operations that put a frame upon the others *)

(* What a thread must have to put a frame, and what it then has.           *)
LEMMA PushKeeps ==
  ASSUME IInv, NEW t \in Threads, NEW k \in Kinds,
         Push(t, k, IF k = "peer" THEN Null ELSE lookup[t]),
         Len(nest[t]) < MaxDepth, Fits(k, Top(t)), k # "peer" => lookup[t] # Null,
         Holds(t), pc[t] \in {"run", "have", "got"},
         pc' = [pc EXCEPT ![t] = IF k = "allowed" THEN "unlock" ELSE "run"],
         current' = IF k \in Carrying THEN lookup[t] ELSE Null,
         counter' = IF k \in Counted THEN [counter EXCEPT ![lookup[t]] = @ + 1] ELSE counter,
         detach' \subseteq States, attached' \subseteq Natives,
         UNCHANGED <<lock, lookup, missed, lost, live, anchored, op, hand, fatal>>
  PROVE  IInv'
  <1> DEFINE s == IF k = "peer" THEN Null ELSE lookup[t]
  <1>1. Push(t, k, s) /\ s \in States \cup {Null} BY DEF IInv, TypeOK
  <1>2. /\ nest' \in [Threads -> Seq(Frames)]
        /\ \A u \in Threads \ {t} : nest'[u] = nest[u]
        /\ Top(t)' = k /\ \A u \in Threads \ {t} : Top(u)' = Top(u)
    BY <1>1, PushFacts DEF IInv
  <1>3. \A u \in Threads \ {t} : pc'[u] = pc[u] BY DEF IInv, TypeOK
  <1>4. TypeOK'
    <2>1. counter' \in [States -> Nat]
      <3>1. CASE k \in Counted
        <4>1. lookup[t] \in States /\ counter \in [States -> Nat]
          BY <3>1 DEF IInv, TypeOK, Counted
        <4> QED BY <3>1, <4>1
      <3>2. CASE k \notin Counted BY <3>2 DEF IInv, TypeOK
      <3> QED BY <3>1, <3>2
    <2>2. current' \in States \cup {Null} BY DEF IInv, TypeOK
    <2> QED BY <1>2, <2>1, <2>2 DEF IInv, TypeOK
  <1>5. FramesFit' BY <1>1, PushFits DEF IInv
  <1>6. Controlled' BY <1>2 DEF IInv, TypeOK, Controlled, Fits
  <1>7. OwnLookups' BY <1>2 DEF IInv, TypeOK, OwnLookups
  <1>8. OneHolder' /\ CurrentCarried'
    <2>1. Holds(t)' BY <1>2 DEF IInv, TypeOK, Holds, HasGil, Kinds
    <2>2. /\ Top(t)' \in Carrying => current' = lookup'[t] /\ lookup'[t] # Null
          /\ Top(t)' \notin Carrying => current' = Null
      BY <1>2 DEF Carrying
    <2> QED BY <1>2, <1>3, <2>1, <2>2, HolderSwitches
  <1>9. CountersAgree'
    <2>1. counter' = IF k \in Counted THEN [counter EXCEPT ![s] = @ + 1] ELSE counter
      BY DEF Counted
    <2> HIDE DEF s
    <2> QED BY <1>1, <2>1, CountsPushed DEF IInv
  <1>10. NoSwapError' BY DEF IInv, NoSwapError
  <1> QED BY <1>4, <1>5, <1>6, <1>7, <1>8, <1>9, <1>10 DEF IInv

LEMMA EnteredKeeps ==
  ASSUME IInv, NEW t \in Threads, Entered(t)
  PROVE  IInv'
  <1>1. /\ pc[t] = "got" /\ op[t] = "enter" /\ Holds(t) BY DEF Entered, Holds
  <1>2. /\ Top(t) \in {"none", "allowed"} /\ Len(nest[t]) < MaxDepth
        /\ hand[t] = lookup[t] /\ lookup[t] # Null
    BY <1>1 DEF IInv, Controlled, OwnLookups
  <1>3. current = Null BY <1>1, <1>2, OthersWait DEF Carrying
  <1>4. /\ Push(t, "entered", lookup[t]) /\ current' = lookup[t] /\ pc' = [pc EXCEPT ![t] = "run"]
        /\ UNCHANGED <<lock, lookup, missed, lost, live, anchored, counter, detach, attached>>
        /\ UNCHANGED <<op, hand, fatal>>
    BY <1>2, <1>3 DEF Entered, Goto, lookupVars, stateVars
  <1> QED BY <1>1, <1>2, <1>4, PushKeeps DEF IInv, TypeOK, Kinds, Carrying, Counted, Fits

LEMMA EnsuredUnlockedKeeps ==
  ASSUME IInv, NEW t \in Threads, EnsuredUnlocked(t)
  PROVE  IInv'
  <1>1. /\ pc[t] = "got" /\ op[t] = "ensure" /\ Holds(t) BY DEF EnsuredUnlocked, Holds
  <1>2. /\ Top(t) \in {"none", "allowed"} /\ Len(nest[t]) < MaxDepth
        /\ hand[t] = lookup[t] /\ lookup[t] # Null
    BY <1>1 DEF IInv, Controlled, OwnLookups
  <1>3. /\ Push(t, "ensured", lookup[t]) /\ current' = lookup[t] /\ pc' = [pc EXCEPT ![t] = "run"]
        /\ counter' = [counter EXCEPT ![lookup[t]] = @ + 1]
        /\ UNCHANGED <<lock, lookup, missed, lost, live, anchored>>
        /\ UNCHANGED <<detach, attached, op, hand, fatal>>
    BY <1>2 DEF EnsuredUnlocked, Goto, lookupVars
  <1> QED BY <1>1, <1>2, <1>3, PushKeeps DEF IInv, TypeOK, Kinds, Carrying, Counted, Fits

LEMMA CallJavaKeeps ==
  ASSUME IInv, NEW t \in Threads, CallJava(t)
  PROVE  IInv'
  <1>1. /\ pc[t] = "run" /\ Len(nest[t]) < MaxDepth /\ Top(t) \in Carrying /\ Holds(t)
    BY DEF CallJava, Running, Roomy, InNative, Carrying, Holds, HasGil
  <1>2. current = lookup[t] /\ lookup[t] # Null BY <1>1 DEF IInv, CurrentCarried
  <1>3. pc' = [pc EXCEPT ![t] = "run"] BY <1>1 DEF CallJava, IInv, TypeOK
  <1>4. /\ Push(t, "java", lookup[t]) /\ current' = lookup[t]
        /\ UNCHANGED <<lock, lookup, missed, lost, live, anchored, counter, detach, attached>>
        /\ UNCHANGED <<op, hand, fatal>>
    BY <1>2 DEF CallJava, lookupVars, stateVars
  <1> QED
    BY <1>1, <1>2, <1>3, <1>4, PushKeeps DEF IInv, TypeOK, Kinds, Carrying, Counted, Fits

LEMMA PeerDecrefKeeps ==
  ASSUME IInv, NEW t \in Threads, PeerDecref(t)
  PROVE  IInv'
  <1>1. /\ pc[t] = "got" /\ op[t] = "peer" /\ Holds(t) BY DEF PeerDecref, Holds
  <1>2. Top(t) = "none" /\ Len(nest[t]) < MaxDepth BY <1>1 DEF IInv, Controlled
  <1>3. current = Null BY <1>1, <1>2, OthersWait DEF Carrying
  <1>4. /\ Push(t, "peer", Null) /\ current' = Null /\ pc' = [pc EXCEPT ![t] = "run"]
        /\ UNCHANGED <<lock, lookup, missed, lost, live, anchored, counter, detach, attached>>
        /\ UNCHANGED <<op, hand, fatal>>
    BY <1>3 DEF PeerDecref, Goto, lookupVars, stateVars
  <1> QED BY <1>1, <1>2, <1>4, PushKeeps DEF IInv, TypeOK, Kinds, Carrying, Counted, Fits

LEMMA DieKeeps ==
  ASSUME IInv, Die("nullState")
  PROVE  IInv'
  <1>1. /\ UNCHANGED <<lock, current, lookup, missed, lost, live, anchored, counter, detach>>
        /\ UNCHANGED <<attached, nest, pc, op, hand>> /\ fatal' = "nullState"
    BY DEF Die, lookupVars, stateVars, threadVars
  <1>2. \A u \in Threads : Top(u)' = Top(u) BY <1>1, SameFacts
  <1>3. TypeOK' BY <1>1 DEF IInv, TypeOK
  <1>4. FramesFit' BY <1>1, SameFits DEF IInv
  <1>5. Controlled' BY <1>1, <1>2 DEF IInv, Controlled
  <1>6. OwnLookups' BY <1>1, <1>2 DEF IInv, OwnLookups
  <1>7. OneHolder' BY <1>1, <1>2 DEF IInv, OneHolder, Holds
  <1>8. CurrentCarried' BY <1>1, <1>2 DEF IInv, CurrentCarried
  <1>9. CountersAgree' BY <1>1, CountsSame DEF IInv
  <1>10. NoSwapError' BY <1>1 DEF NoSwapError
  <1> QED BY <1>3, <1>4, <1>5, <1>6, <1>7, <1>8, <1>9, <1>10 DEF IInv

(* In the peer's destructor no thread state is current: a fatal error.     *)
LEMMA SaveThreadKeeps ==
  ASSUME IInv, NEW t \in Threads, SaveThread(t)
  PROVE  IInv'
  <1>1. CASE Top(t) = "peer"
    <2>1. Holds(t) BY <1>1 DEF Holds, HasGil
    <2>2. current = Null BY <1>1, <2>1, OthersWait DEF Carrying
    <2>3. Die("nullState") BY <2>2 DEF SaveThread
    <2> QED BY <2>3, DieKeeps
  <1>2. CASE Top(t) # "peer"
    <2>1. /\ pc[t] = "run" /\ Len(nest[t]) < MaxDepth /\ Top(t) \in Carrying /\ Holds(t)
      BY <1>2 DEF SaveThread, Running, Roomy, InNative, Carrying, Holds, HasGil
    <2>2. current = lookup[t] /\ lookup[t] # Null BY <2>1 DEF IInv, CurrentCarried
    <2>3. /\ Push(t, "allowed", lookup[t]) /\ current' = Null /\ pc' = [pc EXCEPT ![t] = "unlock"]
          /\ UNCHANGED <<lock, lookup, missed, lost, live, anchored, counter, detach, attached>>
          /\ UNCHANGED <<op, hand, fatal>>
      BY <2>2 DEF SaveThread, Goto, lookupVars, stateVars
    <2> QED BY <2>1, <2>2, <2>3, PushKeeps DEF IInv, TypeOK, Kinds, Carrying, Counted, Fits
  <1> QED BY <1>1, <1>2

(* Another thread's state, read without the lock, is not mistaken.         *)
LEMMA ReEnterKeeps ==
  ASSUME IInv, NEW t \in Threads, ReEnter(t)
  PROVE  IInv'
  <1>1. /\ pc[t] = "have" /\ op[t] = "reenter"
        /\ UNCHANGED <<lock, current, lookup, missed, lost, live, anchored, counter, detach>>
        /\ UNCHANGED <<attached, hand, fatal>>
    BY DEF ReEnter, lookupVars, stateVars
  <1>2. /\ Top(t) \in {"none", "allowed", "java"} /\ Len(nest[t]) < MaxDepth
        /\ hand[t] = lookup[t] /\ lookup[t] # Null
    BY <1>1 DEF IInv, Controlled, OwnLookups
  <1>3. CASE current = hand[t]
    <2>1. Top(t) = "java" BY <1>2, <1>3, CarriesOwn DEF Carrying
    <2>2. Holds(t) BY <2>1 DEF Holds, HasGil
    <2>3. Push(t, "reentered", lookup[t]) /\ pc' = [pc EXCEPT ![t] = "run"] /\ UNCHANGED op
      BY <1>2, <1>3 DEF ReEnter, Goto
    <2>4. current' = lookup[t] BY <1>1, <1>2, <1>3
    <2> QED BY <1>1, <1>2, <2>1, <2>2, <2>3, <2>4, PushKeeps
      DEF IInv, TypeOK, Kinds, Carrying, Counted, Fits
  <1>4. CASE current # hand[t]
    <2>1. op' = [op EXCEPT ![t] = "enter"] /\ UNCHANGED <<nest, pc>>
      BY <1>4 DEF ReEnter, Begin
    <2>2. /\ \A u \in Threads : Top(u)' = Top(u)
          /\ FramesFit' /\ CurrentCarried' /\ CountersAgree' /\ NoSwapError'
      BY <1>1, <2>1, FramesUntouched
    <2>3. TypeOK' BY <1>1, <2>1 DEF IInv, TypeOK
    <2>4. Controlled' BY <1>1, <2>1, <2>2 DEF IInv, TypeOK, Controlled
    <2>5. OwnLookups' BY <1>1, <2>1, <2>2 DEF IInv, TypeOK, OwnLookups
    <2>6. OneHolder' BY <1>1, <2>1, <2>2 DEF IInv, OneHolder, Holds
    <2> QED BY <2>2, <2>3, <2>4, <2>5, <2>6 DEF IInv
  <1> QED BY <1>3, <1>4

LEMMA EnsuredKeeps ==
  ASSUME IInv, NEW t \in Threads, Ensured(t)
  PROVE  IInv'
  <1>1. /\ pc[t] = "have" /\ op[t] = "ensure"
        /\ UNCHANGED <<lock, current, lookup, missed, lost, live, anchored, op, hand, fatal>>
    BY DEF Ensured, lookupVars
  <1>2. /\ Top(t) \in Carrying \cup {"none", "allowed"} /\ Len(nest[t]) < MaxDepth
        /\ hand[t] = lookup[t] /\ lookup[t] # Null /\ lookup[t] \in States
    BY <1>1 DEF IInv, Controlled, OwnLookups, TypeOK
  <1>3. detach' \subseteq States /\ attached' \subseteq Natives
    BY <1>2 DEF Ensured, IInv, TypeOK
  <1>4. CASE current = hand[t]
    <2>1. Top(t) \in Carrying /\ Holds(t)
      BY <1>2, <1>4, CarriesOwn DEF Carrying, Holds, HasGil
    <2>2. /\ Push(t, "ensuredLocked", lookup[t]) /\ pc' = [pc EXCEPT ![t] = "run"]
          /\ counter' = [counter EXCEPT ![lookup[t]] = @ + 1]
      BY <1>2, <1>4 DEF Ensured, Goto
    <2>3. current' = lookup[t] BY <1>1, <1>2, <1>4
    <2> QED
      BY <1>1, <1>2, <1>3, <2>1, <2>2, <2>3, PushKeeps DEF Kinds, Carrying, Counted, Fits
  <1>5. CASE current # hand[t]
    <2>1. pc' = [pc EXCEPT ![t] = "acquire"] /\ UNCHANGED <<counter, nest>>
      BY <1>5 DEF Ensured, Goto
    <2>2. /\ \A u \in Threads : Top(u)' = Top(u)
          /\ FramesFit' /\ CurrentCarried' /\ CountersAgree' /\ NoSwapError'
      BY <1>1, <2>1, FramesUntouched
    <2>3. TypeOK' BY <1>1, <1>3, <2>1 DEF IInv, TypeOK
    <2>4. Controlled' BY <1>1, <2>1, <2>2 DEF IInv, TypeOK, Controlled
    <2>5. OwnLookups' BY <1>1, <2>1, <2>2 DEF IInv, TypeOK, OwnLookups
    <2>6. OneHolder' BY <1>1, <2>1, <2>2 DEF IInv, TypeOK, OneHolder, Holds
    <2> QED BY <2>2, <2>3, <2>4, <2>5, <2>6 DEF IInv
  <1> QED BY <1>4, <1>5

-----------------------------------------------------------------------------
(* Operations that take the top frame off *)

(* Frames upon one that carries the lock; upon others the lock was taken.  *)
Inner == {"reentered", "ensuredLocked", "java", "allowed"}

LEMMA PopKeeps ==
  ASSUME IInv, NEW t \in Threads, Pop(t), Top(t) # "none",
         Holds(t), pc[t] \in {"run", "have", "got"},
         pc' = [pc EXCEPT ![t] = IF Top(t) \in Inner THEN "run" ELSE "unlock"],
         current' = IF Top(t) \in Inner THEN lookup[t] ELSE Null,
         counter' = IF Top(t) \in Counted THEN [counter EXCEPT ![lookup[t]] = @ - 1] ELSE counter,
         attached' \subseteq Natives,
         UNCHANGED <<lock, lookup, missed, lost, live, anchored, detach, op, hand, fatal>>
  PROVE  IInv'
  <1>1. /\ Top(t) \in Kinds /\ Fits(Top(t), Under(t, Len(nest[t])))
        /\ Top(t) # "peer" => lookup[t] # Null
    BY TopFacts DEF IInv
  <1>2. /\ nest' \in [Threads -> Seq(Frames)]
        /\ \A u \in Threads \ {t} : nest'[u] = nest[u] /\ Top(u)' = Top(u)
        /\ Top(t) \in Inner => Top(t)' \in Carrying
        /\ Top(t) \notin Inner => Top(t)' \in {"none", "allowed"}
    BY <1>1, PopFacts DEF IInv, Fits, Inner, Kinds
  <1>3. \A u \in Threads \ {t} : pc'[u] = pc[u] BY DEF IInv, TypeOK
  <1>4. TypeOK'
    <2>1. counter' \in [States -> Nat]
      <3>1. CASE Top(t) \in Counted
        <4>1. lookup[t] \in live /\ counter[lookup[t]] \in Nat /\ counter[lookup[t]] >= 2
          BY <3>1, EnsuredTwice DEF IInv
        <4>2. counter \in [States -> Nat] /\ lookup[t] \in States BY <4>1 DEF IInv, TypeOK
        <4>3. counter[lookup[t]] - 1 \in Nat BY <4>1
        <4> QED BY <3>1, <4>2, <4>3
      <3>2. CASE Top(t) \notin Counted BY <3>2 DEF IInv, TypeOK
      <3> QED BY <3>1, <3>2
    <2>2. current' \in States \cup {Null} BY DEF IInv, TypeOK
    <2> QED BY <1>2, <2>1, <2>2 DEF IInv, TypeOK
  <1>5. FramesFit' BY PopFits DEF IInv
  <1>6. Controlled' BY <1>2 DEF IInv, TypeOK, Controlled
  <1>7. OwnLookups' BY <1>2 DEF IInv, TypeOK, OwnLookups
  <1>8. OneHolder' /\ CurrentCarried'
    <2>1. Holds(t)' BY <1>2 DEF IInv, TypeOK, Holds, HasGil, Carrying
    <2>2. /\ Top(t)' \in Carrying => current' = lookup'[t] /\ lookup'[t] # Null
          /\ Top(t)' \notin Carrying => current' = Null
      BY <1>1, <1>2 DEF Carrying, Inner
    <2> QED BY <1>2, <1>3, <2>1, <2>2, HolderSwitches
  <1>9. CountersAgree' BY CountsPopped DEF IInv
  <1>10. NoSwapError' BY DEF IInv, NoSwapError
  <1> QED BY <1>4, <1>5, <1>6, <1>7, <1>8, <1>9, <1>10 DEF IInv

LEMMA LeaveKeeps ==
  ASSUME IInv, NEW t \in Threads, Leave(t)
  PROVE  IInv'
  <1>1. /\ pc[t] = "run" /\ Top(t) \in {"entered", "reentered"} /\ Holds(t)
        /\ current = lookup[t]
    BY DEF Leave, Running, Holds, HasGil, Carrying, IInv, CurrentCarried
  <1>2. /\ Pop(t)
        /\ UNCHANGED <<lock, lookup, missed, lost, live, anchored, counter, detach, attached>>
        /\ UNCHANGED <<op, hand, fatal>>
        /\ Top(t) = "entered" => current' = Null /\ pc' = [pc EXCEPT ![t] = "unlock"]
        /\ Top(t) = "reentered" => current' = lookup[t] /\ pc' = [pc EXCEPT ![t] = "run"]
    BY <1>1 DEF Leave, Goto, lookupVars, stateVars
  <1> QED BY <1>1, <1>2, PopKeeps DEF Inner, Counted, IInv, TypeOK

LEMMA JavaReturnsKeeps ==
  ASSUME IInv, NEW t \in Threads, JavaReturns(t)
  PROVE  IInv'
  <1>1. /\ pc[t] = "run" /\ Top(t) = "java" /\ Holds(t) /\ current = lookup[t]
    BY DEF JavaReturns, Running, Holds, HasGil, Carrying, IInv, CurrentCarried
  <1>2. pc' = [pc EXCEPT ![t] = "run"] BY <1>1 DEF JavaReturns, IInv, TypeOK
  <1>3. /\ Pop(t) /\ current' = lookup[t]
        /\ UNCHANGED <<lock, lookup, missed, lost, live, anchored, counter, detach, attached>>
        /\ UNCHANGED <<op, hand, fatal>>
    BY <1>1 DEF JavaReturns, lookupVars, stateVars
  <1> QED BY <1>1, <1>2, <1>3, PopKeeps DEF Inner, Counted, IInv, TypeOK

(* ALLOW_THREADS saved the state that the thread still has. *)
LEMMA RestoredKeeps ==
  ASSUME IInv, NEW t \in Threads, Restored(t)
  PROVE  IInv'
  <1>1. /\ pc[t] = "got" /\ op[t] = "restore" /\ Top(t) = "allowed" /\ Holds(t)
    BY DEF Restored, Holds, IInv, Controlled
  <1>2. nest[t][Len(nest[t])].ts = lookup[t] BY <1>1, TopFacts DEF IInv
  <1>3. /\ Pop(t) /\ current' = lookup[t] /\ pc' = [pc EXCEPT ![t] = "run"]
        /\ UNCHANGED <<lock, lookup, missed, lost, live, anchored, counter, detach, attached>>
        /\ UNCHANGED <<op, hand, fatal>>
    BY <1>2 DEF Restored, Goto, lookupVars, stateVars
  <1> QED BY <1>1, <1>3, PopKeeps DEF Inner, Counted, IInv, TypeOK

LEMMA PeerClearedKeeps ==
  ASSUME IInv, NEW t \in Threads, PeerCleared(t)
  PROVE  IInv'
  <1>1. pc[t] = "run" /\ Top(t) = "peer" /\ Holds(t)
    BY DEF PeerCleared, Running, Holds, HasGil
  <1>2. current = Null BY <1>1, OthersWait DEF Carrying
  <1>3. /\ Pop(t) /\ current' = Null /\ pc' = [pc EXCEPT ![t] = "unlock"]
        /\ UNCHANGED <<lock, lookup, missed, lost, live, anchored, counter, detach, attached>>
        /\ UNCHANGED <<op, hand, fatal>>
    BY <1>2 DEF PeerCleared, Goto, lookupVars, stateVars
  <1> QED BY <1>1, <1>3, PopKeeps DEF Inner, Counted, IInv, TypeOK

(* A thread state that was ensured is not freed and was left current.      *)
LEMMA ReleasedKeeps ==
  ASSUME IInv, NEW t \in Threads, Released(t)
  PROVE  IInv'
  <1>1. /\ pc[t] = "have" /\ op[t] = "release" /\ Top(t) \in Counted /\ Holds(t)
        /\ hand[t] = lookup[t] /\ current = lookup[t]
    BY DEF Released, IInv, Controlled, OwnLookups, CurrentCarried, Counted, Carrying, Holds,
           HasGil
  <1>2. counter[lookup[t]] \in Nat /\ counter[lookup[t]] >= 2 BY <1>1, EnsuredTwice DEF IInv
  <1>3. counter[hand[t]] # 0 /\ counter[hand[t]] # 1 BY <1>1, <1>2
  <1>4. /\ Pop(t) /\ counter' = [counter EXCEPT ![lookup[t]] = @ - 1]
        /\ UNCHANGED <<lock, lookup, missed, lost, live, anchored>>
        /\ UNCHANGED <<detach, attached, op, hand, fatal>>
        /\ Top(t) = "ensured" => current' = Null /\ pc' = [pc EXCEPT ![t] = "unlock"]
        /\ Top(t) # "ensured" => current' = lookup[t] /\ pc' = [pc EXCEPT ![t] = "run"]
    BY <1>1, <1>3 DEF Released, Goto, lookupVars
  <1> QED BY <1>1, <1>4, PopKeeps DEF Inner, Counted, IInv, TypeOK

-----------------------------------------------------------------------------
(* The life of thread states *)

(* Whoever runs upon a frame finds its state; a new one has no frames.     *)
LEMMA GetStateKeeps ==
  ASSUME IInv, NEW t \in Threads, GetState(t)
  PROVE  IInv'
  <1>1. pc[t] = "get" /\ UNCHANGED <<lock, current, lookup, missed, lost, attached, nest, op, fatal>>
    BY DEF GetState, lookupVars
  <1>2. \A u \in Threads : Top(u)' = Top(u) BY <1>1, SameFacts
  <1>3. FramesFit' BY <1>1, SameFits DEF IInv
  <1>4. CurrentCarried' BY <1>1, <1>2 DEF IInv, CurrentCarried
  <1>5. NoSwapError' BY <1>1 DEF IInv, NoSwapError
  <1>6. CASE lookup[t] # Null
    <2>1. /\ hand' = [hand EXCEPT ![t] = lookup[t]] /\ pc' = [pc EXCEPT ![t] = "have"]
          /\ UNCHANGED <<live, anchored, counter, detach>>
      BY <1>6 DEF GetState, Goto, stateVars
    <2>2. TypeOK' BY <1>1, <2>1 DEF IInv, TypeOK
    <2>3. Controlled' BY <1>1, <1>2, <2>1 DEF IInv, TypeOK, Controlled
    <2>4. OwnLookups' BY <1>1, <1>2, <1>6, <2>1 DEF IInv, TypeOK, OwnLookups
    <2>5. OneHolder' BY <1>1, <1>2, <2>1 DEF IInv, TypeOK, OneHolder, Holds
    <2>6. CountersAgree' BY <1>1, <2>1, CountsSame DEF IInv
    <2> QED BY <1>3, <1>4, <1>5, <2>2, <2>3, <2>4, <2>5, <2>6 DEF IInv
  <1>7. CASE lookup[t] = Null
    <2>1. PICK s \in States \ live :
            /\ hand' = [hand EXCEPT ![t] = s]
            /\ live' = live \cup {s} /\ anchored' = anchored \cup {s}
            /\ counter' = [counter EXCEPT ![s] = 1]
            /\ detach' = detach \ {s}
      BY <1>7 DEF GetState
    <2>2. pc' = [pc EXCEPT ![t] = "put"]
      BY <1>7 DEF GetState, Goto
    <2>3. /\ s # Null /\ \A u \in Threads : lookup[u] # s
          /\ \A u \in Threads : pc[u] = "put" => hand[u] # s
      BY <2>1, GilAssumption DEF IInv, OwnLookups
    <2>4. Top(t) = "none"
      <3>1. Top(t) # "peer" BY <1>1 DEF IInv, Controlled, Carrying, Counted
      <3> QED BY <1>7, <3>1, TopFacts DEF IInv
    <2>5. TypeOK' BY <1>1, <2>1, <2>2 DEF IInv, TypeOK
    <2>6. Controlled' BY <1>1, <1>2, <2>2 DEF IInv, TypeOK, Controlled
    <2>7. OwnLookups'
      BY <1>1, <1>2, <1>7, <2>1, <2>2, <2>3, <2>4 DEF IInv, TypeOK, OwnLookups
    <2>8. OneHolder' BY <1>1, <1>2, <2>2 DEF IInv, TypeOK, OneHolder, Holds
    <2>9. CountersAgree'
      <3> SUFFICES ASSUME NEW x \in live'
          PROVE  counter'[x] = Cardinality(Ensures(x)') + IF x \in anchored' THEN 1 ELSE 0
        BY DEF CountersAgree
      <3>1. Ensures(x)' = Ensures(x) BY <1>1 DEF Ensures
      <3>2. CASE x = s
        <4>1. Cardinality(Ensures(x)) = 0 BY <2>3, <3>2, NobodyEnsures DEF IInv
        <4>2. counter'[x] = 1 /\ x \in anchored' BY <2>1, <3>2 DEF IInv, TypeOK
        <4> QED BY <3>1, <4>1, <4>2
      <3>3. CASE x # s
        <4>1. x \in live /\ x \in States /\ counter'[x] = counter[x]
          BY <2>1, <3>3 DEF IInv, TypeOK
        <4>2. x \in anchored' <=> x \in anchored BY <2>1, <3>3
        <4> QED BY <3>1, <4>1, <4>2 DEF IInv, CountersAgree
      <3> QED BY <3>2, <3>3
    <2> QED BY <1>3, <1>4, <1>5, <2>5, <2>6, <2>7, <2>8, <2>9 DEF IInv
  <1> QED BY <1>6, <1>7

(* Others may lose their entries, but only if nothing follows from it. *)
LEMMA PutStateKeeps ==
  ASSUME IInv, NEW t \in Threads, PutState(t), ~lost'
  PROVE  IInv'
  <1>1. /\ pc[t] = "put" /\ pc' = [pc EXCEPT ![t] = "have"]
        /\ UNCHANGED <<lock, current, live, anchored, counter, detach>>
        /\ UNCHANGED <<attached, nest, op, hand, fatal>>
    BY DEF PutState, Goto, stateVars
  <1>2. \A u \in Threads : Top(u)' = Top(u) BY <1>1, SameFacts
  <1>3. Top(t) = "none" /\ hand[t] \in States \cup {Null} /\ nest[t] = <<>>
    BY <1>1, TopFacts DEF IInv, OwnLookups, TypeOK
  <1>4. /\ lookup'[t] = hand[t]
        /\ \A u \in Threads \ {t} :
             \/ lookup'[u] = lookup[u]
             \/ lookup'[u] = Null /\ pc[u] = "run" /\ nest[u] = <<>>
    <2>1. PICK Lost \in SUBSET missed[t] :
            /\ lookup' = [u \in Threads |-> IF u = t THEN hand[t]
                                            ELSE IF u \in Lost THEN Null ELSE lookup[u]]
            /\ lost' = (lost \/ \E u \in Lost : lookup[u] # Null /\ InUse(u))
      BY DEF PutState
    <2>2. lookup'[t] = hand[t] BY <2>1
    <2>3. ASSUME NEW u \in Threads \ {t}, lookup'[u] # lookup[u]
          PROVE  lookup'[u] = Null /\ pc[u] = "run" /\ nest[u] = <<>>
      <3>1. u \in Lost /\ lookup'[u] = Null /\ lookup[u] # Null BY <2>1, <2>3
      <3>2. ~InUse(u) BY <2>1, <3>1
      <3> QED BY <3>1, <3>2 DEF InUse
    <2> QED BY <2>2, <2>3
  <1>5. \A u \in Threads \ {t} : nest[u] = <<>> => Top(u) = "none" BY DEF Top
  <1>6. TypeOK'
    <2>1. lookup' \in [Threads -> States \cup {Null}]
      BY DEF PutState, IInv, TypeOK
    <2>2. missed' \in [Threads -> SUBSET Threads] /\ lost' \in BOOLEAN
      BY DEF PutState, IInv, TypeOK
    <2> QED BY <1>1, <2>1, <2>2 DEF IInv, TypeOK
  <1>7. FramesFit' BY <1>1, <1>3, <1>4, SameFits DEF IInv
  <1>8. Controlled' BY <1>1, <1>2 DEF IInv, TypeOK, Controlled
  <1>9. OwnLookups'
    <2>1. hand[t] # Null BY <1>1, GilAssumption DEF IInv, OwnLookups, TypeOK
    <2> QED BY <1>1, <1>2, <1>4, <2>1 DEF IInv, TypeOK, OwnLookups
  <1>10. OneHolder' BY <1>1, <1>2 DEF IInv, TypeOK, OneHolder, Holds
  <1>11. CurrentCarried'
    <2>1. \A u \in Threads : Top(u) \in Carrying => lookup'[u] = lookup[u]
      BY <1>3, <1>4, <1>5 DEF Carrying
    <2> QED BY <1>1, <1>2, <2>1 DEF IInv, CurrentCarried
  <1>12. CountersAgree' BY <1>1, CountsSame DEF IInv
  <1>13. NoSwapError' BY <1>1 DEF IInv, NoSwapError
  <1> QED BY <1>6, <1>7, <1>8, <1>9, <1>10, <1>11, <1>12, <1>13 DEF IInv

LEMMA ThreadEndsKeeps ==
  ASSUME IInv, NEW t \in Threads, ThreadEnds(t)
  PROVE  IInv'
  <1>1. /\ pc[t] = "run" /\ nest[t] = <<>> /\ lookup' = [lookup EXCEPT ![t] = Null]
        /\ UNCHANGED <<lock, current, missed, lost, live, anchored, counter, detach>>
        /\ UNCHANGED <<attached, nest, pc, op, hand, fatal>>
    BY DEF ThreadEnds, Running, stateVars, threadVars
  <1>2. \A u \in Threads : Top(u)' = Top(u) BY <1>1, SameFacts
  <1>3. Top(t) = "none" BY <1>1 DEF Top
  <1>4. TypeOK' BY <1>1 DEF IInv, TypeOK
  <1>5. FramesFit' BY <1>1, SameFits DEF IInv, TypeOK
  <1>6. Controlled' BY <1>1, <1>2 DEF IInv, Controlled
  <1>7. OwnLookups' BY <1>1, <1>2, GilAssumption DEF IInv, TypeOK, OwnLookups
  <1>8. OneHolder' BY <1>1, <1>2 DEF IInv, OneHolder, Holds
  <1>9. CurrentCarried'
    <2>1. \A u \in Threads : Top(u) \in Carrying => lookup'[u] = lookup[u]
      BY <1>1, <1>3 DEF Carrying, IInv, TypeOK
    <2> QED BY <1>1, <1>2, <2>1 DEF IInv, CurrentCarried
  <1>10. CountersAgree' BY <1>1, CountsSame DEF IInv
  <1>11. NoSwapError' BY <1>1 DEF IInv, NoSwapError
  <1> QED BY <1>4, <1>5, <1>6, <1>7, <1>8, <1>9, <1>10, <1>11 DEF IInv

(* A thread state that no thread can find is freed with its anchor.        *)
LEMMA FinalizeKeeps ==
  ASSUME IInv, NEW s \in States, Finalize(s)
  PROVE  IInv'
  <1>1. /\ s \in anchored /\ \A u \in Threads : lookup[u] # s /\ ~(pc[u] = "put" /\ hand[u] = s)
        /\ anchored' = anchored \ {s} /\ counter' = [counter EXCEPT ![s] = @ - 1]
        /\ UNCHANGED <<lock, current, lookup, missed, lost, detach>>
        /\ UNCHANGED <<attached, nest, pc, op, hand, fatal>>
    BY DEF Finalize, lookupVars, threadVars
  <1>2. \A u \in Threads : Top(u)' = Top(u) BY <1>1, SameFacts
  <1>3. counter[s] = 1
    <2>1. Cardinality(Ensures(s)) = 0 BY <1>1, NobodyEnsures DEF IInv
    <2>2. s \in live BY <1>1 DEF IInv, OwnLookups
    <2> QED BY <1>1, <2>1, <2>2 DEF IInv, CountersAgree
  <1>4. live' = live \ {s} BY <1>3 DEF Finalize
  <1>5. TypeOK'
    <2>1. counter' \in [States -> Nat] BY <1>1, <1>3 DEF IInv, TypeOK
    <2> QED BY <1>1, <1>4, <2>1 DEF IInv, TypeOK
  <1>6. FramesFit' BY <1>1, SameFits DEF IInv
  <1>7. Controlled' BY <1>1, <1>2 DEF IInv, Controlled
  <1>8. OwnLookups' BY <1>1, <1>2, <1>4 DEF IInv, OwnLookups
  <1>9. OneHolder' BY <1>1, <1>2 DEF IInv, OneHolder, Holds
  <1>10. CurrentCarried' BY <1>1, <1>2 DEF IInv, CurrentCarried
  <1>11. CountersAgree'
    <2> SUFFICES ASSUME NEW x \in live'
        PROVE  counter'[x] = Cardinality(Ensures(x)') + IF x \in anchored' THEN 1 ELSE 0
      BY DEF CountersAgree
    <2>1. Ensures(x)' = Ensures(x) BY <1>1 DEF Ensures
    <2>2. x \in live /\ x # s /\ (x \in anchored' <=> x \in anchored) BY <1>1, <1>4
    <2>3. counter'[x] = counter[x] BY <1>1, <2>2 DEF IInv, TypeOK
    <2> QED BY <2>1, <2>2, <2>3 DEF IInv, CountersAgree
  <1>12. NoSwapError' BY <1>1 DEF IInv, NoSwapError
  <1> QED BY <1>5, <1>6, <1>7, <1>8, <1>9, <1>10, <1>11, <1>12 DEF IInv

-----------------------------------------------------------------------------
(* The theorems *)

(* The invariant holds at first and every step keeps it. *)
LEMMA InitIInv == Init => IInv
  <1> SUFFICES ASSUME Init PROVE IInv OBVIOUS
  <1>1. \A t \in Threads : nest[t] = <<>> /\ Top(t) = "none" BY DEF Init, Top
  <1>2. TypeOK
    <2>1. <<>> \in Seq(Frames) OBVIOUS
    <2>2. nest \in [Threads -> Seq(Frames)] BY <2>1 DEF Init
    <2>3. counter \in [States -> Nat] BY DEF Init
    <2> QED BY <2>2, <2>3 DEF Init, TypeOK
  <1>3. FramesFit
    <2>1. \A t \in Threads : Len(nest[t]) = 0 BY <1>1
    <2>2. MaxDepth \in Nat BY GilAssumption
    <2> QED BY <2>1, <2>2 DEF FramesFit
  <1>4. Controlled BY DEF Init, Controlled
  <1>5. OwnLookups BY DEF Init, OwnLookups
  <1>6. OneHolder BY <1>1 DEF Init, OneHolder, Holds, HasGil
  <1>7. CurrentCarried BY <1>1 DEF Init, CurrentCarried, Carrying
  <1>8. CountersAgree BY DEF Init, CountersAgree
  <1>9. NoSwapError BY DEF Init, NoSwapError
  <1> QED BY <1>2, <1>3, <1>4, <1>5, <1>6, <1>7, <1>8, <1>9 DEF IInv

LEMMA NextIInv ==
  ASSUME IInv, [Next]_vars, ~lost'
  PROVE  IInv'
  <1>1. ASSUME NEW t \in Threads, Step(t) PROVE IInv'
    <2>1. CASE GetState(t) BY <2>1, GetStateKeeps
    <2>2. CASE PutState(t) BY <2>2, PutStateKeeps
    <2>3. CASE ThreadEnds(t) BY <2>3, ThreadEndsKeeps
    <2>4. CASE ReEnter(t) BY <2>4, ReEnterKeeps
    <2>5. CASE Enter(t) BY <2>5, EnterKeeps
    <2>6. CASE Acquire(t) BY <2>6, AcquireKeeps
    <2>7. CASE Entered(t) BY <2>7, EnteredKeeps
    <2>8. CASE Leave(t) BY <2>8, LeaveKeeps
    <2>9. CASE Unlock(t) BY <2>9, UnlockKeeps
    <2>10. CASE CallJava(t) BY <2>10, CallJavaKeeps
    <2>11. CASE JavaReturns(t) BY <2>11, JavaReturnsKeeps
    <2>12. CASE SaveThread(t) BY <2>12, SaveThreadKeeps
    <2>13. CASE RestoreThread(t) BY <2>13, RestoreThreadKeeps
    <2>14. CASE Restored(t) BY <2>14, RestoredKeeps
    <2>15. CASE Ensure(t) BY <2>15, EnsureKeeps
    <2>16. CASE Ensured(t) BY <2>16, EnsuredKeeps
    <2>17. CASE EnsuredUnlocked(t) BY <2>17, EnsuredUnlockedKeeps
    <2>18. CASE Release(t) BY <2>18, ReleaseKeeps
    <2>19. CASE Released(t) BY <2>19, ReleasedKeeps
    <2>20. CASE ClearPyCPeer(t) BY <2>20, ClearPyCPeerKeeps
    <2>21. CASE PeerDecref(t) BY <2>21, PeerDecrefKeeps
    <2>22. CASE PeerCleared(t) BY <2>22, PeerClearedKeeps
    <2>23. CASE \E o \in {"enter", "reenter"} : CallNative(t, o)
      <3>1. PICK o \in {"enter", "reenter"} : CallNative(t, o) BY <2>23
      <3> QED BY <3>1, CallNativeKeeps
    <2> QED
      BY <1>1, <2>1, <2>2, <2>3, <2>4, <2>5, <2>6, <2>7, <2>8, <2>9, <2>10, <2>11,
         <2>12, <2>13, <2>14, <2>15, <2>16, <2>17, <2>18, <2>19, <2>20, <2>21, <2>22,
         <2>23 DEF Step
  <1>2. ASSUME NEW s \in States, Finalize(s) PROVE IInv'
    BY <1>2, FinalizeKeeps
  <1>3. CASE UNCHANGED vars
    <2>1. /\ UNCHANGED <<lock, current, lookup, missed, lost, live, anchored, counter, detach>>
          /\ UNCHANGED <<attached, nest, pc, op, hand, fatal>>
      BY <1>3 DEF vars, lookupVars, stateVars, threadVars
    <2>2. /\ \A u \in Threads : Top(u)' = Top(u)
          /\ FramesFit' /\ CurrentCarried' /\ CountersAgree' /\ NoSwapError'
      BY <2>1, FramesUntouched
    <2>3. TypeOK' BY <2>1 DEF IInv, TypeOK
    <2>4. Controlled' BY <2>1, <2>2 DEF IInv, Controlled
    <2>5. OwnLookups' BY <2>1, <2>2 DEF IInv, OwnLookups
    <2>6. OneHolder' BY <2>1, <2>2 DEF IInv, OneHolder, Holds
    <2> QED BY <2>2, <2>3, <2>4, <2>5, <2>6 DEF IInv
  <1> QED BY <1>1, <1>2, <1>3 DEF Next

(* What has been lost stays lost. *)
LEMMA LostStays ==
  ASSUME lost, [Next]_vars
  PROVE  lost'
  <1>1. ASSUME NEW t \in Threads, Step(t) PROVE lost'
    <2>1. CASE PutState(t) BY <2>1 DEF PutState
    <2>2. CASE GetState(t) \/ ThreadEnds(t) BY <2>2 DEF GetState, ThreadEnds, lookupVars
    <2>3. CASE \/ ReEnter(t) \/ Enter(t) \/ Acquire(t) \/ Entered(t) \/ Leave(t) \/ Unlock(t)
               \/ CallJava(t) \/ JavaReturns(t) \/ \E o \in {"enter", "reenter"} : CallNative(t, o)
      BY <2>3 DEF ReEnter, Enter, Acquire, Entered, Leave, Unlock, CallJava, JavaReturns,
                  CallNative, Die, lookupVars
    <2>4. CASE \/ SaveThread(t) \/ RestoreThread(t) \/ Restored(t)
               \/ Ensure(t) \/ Ensured(t) \/ EnsuredUnlocked(t) \/ Release(t) \/ Released(t)
               \/ ClearPyCPeer(t) \/ PeerDecref(t) \/ PeerCleared(t)
      BY <2>4 DEF SaveThread, RestoreThread, Restored, Ensure, Ensured, EnsuredUnlocked, Release,
                  Released, ClearPyCPeer, PeerDecref, PeerCleared, Die, lookupVars
    <2> QED BY <1>1, <2>1, <2>2, <2>3, <2>4 DEF Step
  <1>2. ASSUME NEW s \in States, Finalize(s) PROVE lost'
    BY <1>2 DEF Finalize, lookupVars
  <1>3. CASE UNCHANGED vars BY <1>3 DEF vars, lookupVars
  <1> QED BY <1>1, <1>2, <1>3 DEF Next

(* The strengthened invariant holds until a thread in native code loses    *)
(* its entry.                                                              *)
THEOREM GilInductive == Spec => []UnlessLost
  <1>1. Init => UnlessLost BY InitIInv DEF UnlessLost
  <1>2. UnlessLost /\ [Next]_vars => UnlessLost' BY NextIInv, LostStays DEF UnlessLost
  <1> QED BY <1>1, <1>2, PTL DEF Spec

(* Whatever is locked has one holder: for any threads and any nesting of   *)
(* calls, callbacks, ALLOW_THREADS and PyGILState_Ensure no two threads    *)
(* run native code, although JyLock has no owner.                          *)
THEOREM GilExclusive == Spec => []OneThreadInNative
  <1>1. UnlessLost => OneThreadInNative BY DEF UnlessLost, IInv, OneThreadInNative
  <1> QED BY GilInductive, <1>1, PTL

(* Native code always runs with its own thread's state current.            *)
THEOREM GilOwnStates == Spec => []OwnStateCurrent
  <1>1. UnlessLost => OwnStateCurrent
    <2> SUFFICES ASSUME IInv, NEW t \in Threads, Top(t) \in HasGil \ {"peer"}
        PROVE  current # Null /\ current = nest[t][Len(nest[t])].ts
      BY DEF OwnStateCurrent, UnlessLost
    <2>1. Top(t) \in Carrying /\ Top(t) # "none" /\ Top(t) # "peer" BY DEF HasGil, Carrying
    <2>2. nest[t][Len(nest[t])].ts = lookup[t] BY <2>1, TopFacts DEF IInv
    <2> QED BY <2>1, <2>2 DEF IInv, CurrentCarried
  <1> QED BY GilInductive, <1>1, PTL

(* ENTER_JyNI never overwrites a thread state and PyGILState_Release never *)
(* finds a foreign one or none.                                            *)
THEOREM GilNoFatalSwap == Spec => []NoFatalSwap
  <1>1. UnlessLost => NoFatalSwap BY DEF UnlessLost, IInv, NoFatalSwap
  <1> QED BY GilInductive, <1>1, PTL

(* A thread state's counter is what Java's anchor and the pending          *)
(* PyGILState_Ensure calls make it.                                        *)
THEOREM GilCountersExact == Spec => []CountersExact
  <1>1. UnlessLost => CountersExact BY DEF UnlessLost, IInv, CountersExact
  <1> QED BY GilInductive, <1>1, PTL

(* No thread keeps a thread state that has been freed.                     *)
THEOREM GilStatesLive == Spec => []StatesKeptAlive
  <1>1. UnlessLost => StatesKeptAlive
    <2> SUFFICES ASSUME IInv PROVE StatesKeptAlive BY DEF UnlessLost, StatesKeptAlive
    <2>1. \A t \in Threads : lookup[t] # Null => lookup[t] \in live BY DEF IInv, OwnLookups
    <2>2. current \in live \cup {Null}
      <3>1. CASE current # Null
        <4>1. PICK t \in Threads : Top(t) \in Carrying BY <3>1 DEF IInv, CurrentCarried
        <4> QED BY <2>1, <3>1, <4>1 DEF IInv, CurrentCarried
      <3> QED BY <3>1
    <2>3. ASSUME NEW t \in Threads,
                 pc[t] \in {"have", "acquire", "got"},
                 op[t] \in {"enter", "reenter", "ensure", "release"}
          PROVE  hand[t] \in live
      <3>1. hand[t] = lookup[t] /\ lookup[t] # Null
        <4>1. op[t] \notin {"restore", "peer"} BY <2>3
        <4> QED BY <2>3, <4>1 DEF IInv, OwnLookups
      <3> QED BY <2>1, <3>1
    <2>4. ASSUME NEW t \in Threads, NEW i \in DOMAIN nest[t]
          PROVE  nest[t][i].ts \in live \cup {Null}
      <3>1. i \in 1..Len(nest[t]) BY <2>4 DEF IInv, TypeOK
      <3> QED BY <2>1, <3>1 DEF IInv, FramesFit
    <2> QED BY <2>2, <2>3, <2>4 DEF StatesKeptAlive
  <1> QED BY GilInductive, <1>1, PTL

-----------------------------------------------------------------------------
(* A lock with an owner *)

(* OneHolder makes holder the thread that has the lock. *)
LEMMA HolderIs ==
  ASSUME IInv
  PROVE  /\ \A t \in Threads : Holds(t) => holder = t
         /\ (\A t \in Threads : ~Holds(t)) => holder = Null
  <1>1. ASSUME NEW t \in Threads, Holds(t) PROVE holder = t
    <2>1. holder = CHOOSE u \in Threads : Holds(u) BY <1>1 DEF holder
    <2>2. holder \in Threads /\ Holds(holder) BY <1>1, <2>1
    <2> QED BY <1>1, <2>2 DEF IInv, OneHolder
  <1> QED BY <1>1 DEF holder

(* The same after a step. *)
LEMMA HolderNext ==
  ASSUME IInv'
  PROVE  /\ \A t \in Threads : Holds(t)' => holder' = t
         /\ (\A t \in Threads : ~Holds(t)') => holder' = Null
  <1>1. ASSUME NEW t \in Threads, Holds(t)' PROVE holder' = t
    <2>1. holder' = CHOOSE u \in Threads : Holds(u)' BY <1>1 DEF holder
    <2>2. holder' \in Threads /\ \A u \in Threads : u = holder' => Holds(u)' BY <1>1, <2>1
    <2> QED BY <1>1, <2>2 DEF IInv, OneHolder
  <1> QED BY <1>1 DEF holder

(* Who leaves the lock as it is and does not have it changes nothing.      *)
LEMMA SwitchImplements ==
  ASSUME IInv, IInv', NEW t \in Threads, UNCHANGED lock,
         \A u \in Threads \ {t} : pc'[u] = pc[u] /\ nest'[u] = nest[u],
         current' = current \/ Holds(t)
  PROVE  [Owned!Next]_Owned!vars
  <1>1. \A u \in Threads \ {t} : Holds(u)' <=> Holds(u) BY DEF Holds, Top
  <1>2. /\ \A u \in Threads : Holds(u)' => holder' = u
        /\ (\A u \in Threads : ~Holds(u)') => holder' = Null
    BY HolderNext
  <1>3. /\ lock <=> \E u \in Threads : Holds(u)
        /\ lock <=> \E u \in Threads : Holds(u)'
        /\ \A u, v \in Threads : Holds(u) /\ Holds(v) => u = v
        /\ \A u, v \in Threads : Holds(u)' /\ Holds(v)' => u = v
    BY DEF IInv, OneHolder
  <1>4. \A u \in Threads : Holds(u)' <=> Holds(u) BY <1>1, <1>3
  <1>5. holder' = holder BY <1>2, <1>4, HolderIs
  <1>6. CASE Holds(t)
    <2>1. holder = t BY <1>6, HolderIs
    <2>2. current' \in States \cup {Null} BY DEF IInv, TypeOK
    <2> QED BY <1>5, <2>1, <2>2 DEF Owned!Next, Owned!Switch
  <1>7. CASE ~Holds(t)
    BY <1>5, <1>7 DEF Owned!vars
  <1> QED BY <1>6, <1>7

(* Every step of the program is one of the owned lock or none. *)
LEMMA NextImplements ==
  ASSUME IInv, IInv', [Next]_vars
  PROVE  [Owned!Next]_Owned!vars
  <1>1. ASSUME NEW t \in Threads, Step(t) PROVE [Owned!Next]_Owned!vars
    <2> DEFINE Keeps == /\ UNCHANGED lock
                        /\ \A u \in Threads \ {t} : pc'[u] = pc[u] /\ nest'[u] = nest[u]
                        /\ current' = current \/ Holds(t)
    <2>1. Keeps => [Owned!Next]_Owned!vars BY SwitchImplements
    (* These leave the lock and the current thread state alone. *)
    <2>2. GetState(t) => Keeps BY DEF IInv, TypeOK, GetState, Goto
    <2>3. PutState(t) => Keeps BY DEF IInv, TypeOK, PutState, Goto
    <2>4. ThreadEnds(t) => Keeps BY DEF IInv, TypeOK, ThreadEnds, threadVars
    <2>5. ReEnter(t) => Keeps BY DEF IInv, TypeOK, ReEnter, Push, Goto
    <2>6. Enter(t) => Keeps BY DEF IInv, TypeOK, Enter, Goto
    <2>7. CallJava(t) => Keeps BY DEF IInv, TypeOK, CallJava, Push
    <2>8. JavaReturns(t) => Keeps BY DEF IInv, TypeOK, JavaReturns, Pop
    <2>9. RestoreThread(t) => Keeps BY DEF IInv, TypeOK, RestoreThread, Goto
    <2>10. Ensure(t) => Keeps BY DEF IInv, TypeOK, Ensure, Goto
    <2>11. Ensured(t) => Keeps BY DEF IInv, TypeOK, Ensured, Push, Goto
    <2>12. Release(t) => Keeps BY DEF IInv, TypeOK, Release, Goto
    <2>13. ClearPyCPeer(t) => Keeps BY DEF IInv, TypeOK, ClearPyCPeer, Goto
    <2>14. PeerDecref(t) => Keeps BY DEF IInv, TypeOK, PeerDecref, Push, Goto
    <2>15. PeerCleared(t) => Keeps BY DEF IInv, TypeOK, PeerCleared, Pop, Goto
    <2>16. (\E o \in {"enter", "reenter"} : CallNative(t, o)) => Keeps
      BY DEF IInv, TypeOK, CallNative, Goto
    (* These switch the current thread state of a thread that has the lock. *)
    <2>17. Entered(t) => Keeps
      BY DEF IInv, TypeOK, Holds, Entered, Die, Push, Goto, threadVars
    <2>18. Leave(t) => Keeps BY DEF IInv, TypeOK, Holds, HasGil, Leave, Running, Pop, Goto
    <2>19. SaveThread(t) => Keeps
      BY DEF IInv, TypeOK, Holds, HasGil, SaveThread, InNative, Die, Push, Goto, threadVars
    <2>20. Restored(t) => Keeps BY DEF IInv, TypeOK, Holds, Restored, Pop, Goto
    <2>21. EnsuredUnlocked(t) => Keeps
      BY DEF IInv, TypeOK, Holds, EnsuredUnlocked, Push, Goto
    <2>22. Released(t) => Keeps
      BY DEF IInv, TypeOK, Controlled, Counted, Holds, HasGil, Released, Die, Pop, Goto,
             threadVars
    <2>23. CASE Acquire(t)
      <3>1. \A u \in Threads : ~Holds(u) BY <2>23 DEF IInv, OneHolder, Acquire
      <3>2. holder = Null BY <3>1, HolderIs
      <3>3. Holds(t)' BY <2>23 DEF IInv, TypeOK, Acquire, Goto, Holds
      <3>4. holder' = t BY <3>3, HolderNext
      <3>5. UNCHANGED current BY <2>23 DEF Acquire
      <3> QED BY <3>2, <3>4, <3>5 DEF Owned!Next, Owned!Take
    <2>24. CASE Unlock(t)
      <3>1. Holds(t) /\ Top(t) \notin Carrying
        BY <2>24 DEF IInv, Controlled, Unlock, Holds, Carrying
      <3>2. holder = t /\ current = Null BY <3>1, HolderIs, OthersWait
      <3>3. \A u \in Threads : ~Holds(u)'
        <4>1. lock' = FALSE BY <2>24 DEF Unlock
        <4> QED BY <4>1 DEF IInv, OneHolder
      <3>4. holder' = Null BY <3>3, HolderNext
      <3>5. UNCHANGED current BY <2>24 DEF Unlock
      <3> QED BY <3>2, <3>4, <3>5 DEF Owned!Next, Owned!Give
    <2>25. Keeps \/ Acquire(t) \/ Unlock(t)
      <3> HIDE DEF Keeps
      <3> QED
        BY <1>1, <2>2, <2>3, <2>4, <2>5, <2>6, <2>7, <2>8, <2>9, <2>10, <2>11, <2>12,
           <2>13, <2>14, <2>15, <2>16, <2>17, <2>18, <2>19, <2>20, <2>21, <2>22 DEF Step
    <2> QED BY <2>1, <2>23, <2>24, <2>25
  <1>2. ASSUME NEW s \in States, Finalize(s) PROVE [Owned!Next]_Owned!vars
    <2>1. UNCHANGED <<lock, current, nest, pc>> BY <1>2 DEF Finalize, threadVars
    <2>2. UNCHANGED holder BY <2>1 DEF holder, Holds, Top
    <2> QED BY <2>1, <2>2 DEF Owned!vars
  <1>3. CASE UNCHANGED vars
    <2>1. UNCHANGED <<lock, current, nest, pc>> BY <1>3 DEF vars, threadVars
    <2>2. UNCHANGED holder BY <2>1 DEF holder, Holds, Top
    <2> QED BY <2>1, <2>2 DEF Owned!vars
  <1> QED BY <1>1, <1>2, <1>3 DEF Next

(* The calls that take, give up and test the lock make it one that is      *)
(* owned: only the owner gives it back or switches thread states, and it   *)
(* leaves no thread state current behind.                                  *)
THEOREM GilImplementsOwnedLock == Spec => ImplementsOwnedLock
  <1>1. Init => Owned!Init
    <2>1. Init => \A t \in Threads : ~Holds(t) BY DEF Init, Holds, Top, HasGil
    <2> QED BY <2>1 DEF Init, Owned!Init, holder
  <1>2. UnlessLost /\ UnlessLost' /\ [Next]_vars => [lost' \/ Owned!Next]_Owned!vars
    BY NextImplements, LostStays DEF UnlessLost
  <1> QED BY <1>1, <1>2, GilInductive, PTL DEF Spec, ImplementsOwnedLock

-----------------------------------------------------------------------------
(* Types, whatever tStateLookup loses                                      *)

(* Java's anchor counts. *)
AnchorsCount == \A s \in anchored : counter[s] > 0

(* Who has passed tStateLookup has a thread state in hand, and what will   *)
(* be popped is there.                                                     *)
Handled(t) ==
  /\ pc[t] \in {"put", "have"} => hand[t] # Null
  /\ pc[t] \in {"acquire", "got"} /\ op[t] \in {"enter", "ensure"} => hand[t] # Null
  /\ pc[t] \in {"get", "put", "have"} /\ op[t] = "release" => Top(t) # "none"
  /\ pc[t] \in {"acquire", "got"} /\ op[t] = "restore" => Top(t) # "none"

Typed == TypeOK /\ AnchorsCount /\ \A t \in Threads : Handled(t)

(* What a step of t leaves alone. *)
Elsewhere(t) ==
  \A u \in Threads \ {t} :
    pc'[u] = pc[u] /\ op'[u] = op[u] /\ hand'[u] = hand[u] /\ Top(u)' = Top(u)

LEMMA HandledStep ==
  ASSUME Typed, NEW t \in Threads, Elsewhere(t), Handled(t)'
  PROVE  \A u \in Threads : Handled(u)'
  <1>1. ASSUME NEW u \in Threads \ {t} PROVE Handled(u)'
    <2>1. Handled(u) BY DEF Typed
    <2> QED BY <2>1 DEF Handled, Elsewhere
  <1> QED BY <1>1

(* A step that touches no frame. *)
LEMMA SameFrames ==
  ASSUME UNCHANGED nest
  PROVE  \A u \in Threads : Top(u)' = Top(u)
  BY DEF Top

(* Looking up, making and putting a thread state; the end of a thread. *)
LEMMA LookupTyped ==
  ASSUME Typed, NEW t \in Threads, GetState(t) \/ PutState(t) \/ ThreadEnds(t)
  PROVE  Typed'
  <1>1. TypeOK /\ AnchorsCount /\ Handled(t) BY DEF Typed
  <1>2. \A u \in Threads : Top(u)' = Top(u)
    BY SameFrames DEF GetState, PutState, ThreadEnds, threadVars
  <1>3. CASE GetState(t)
    <2>1. CASE UNCHANGED stateVars /\ lookup[t] # Null /\ Goto(t, "have")
               /\ hand' = [hand EXCEPT ![t] = lookup[t]]
      <3>1. TypeOK' BY <1>1, <1>3, <2>1 DEF GetState, TypeOK, Goto, stateVars, lookupVars
      <3>2. AnchorsCount' BY <1>1, <2>1 DEF AnchorsCount, stateVars
      <3>3. Elsewhere(t) /\ Handled(t)'
        BY <1>1, <1>2, <1>3, <2>1 DEF GetState, TypeOK, Goto, Elsewhere, Handled
      <3> QED BY <3>1, <3>2, <3>3, HandledStep DEF Typed
    <2>2. ASSUME NEW s \in States,
                 hand' = [hand EXCEPT ![t] = s], Goto(t, "put"),
                 live' = live \cup {s}, anchored' = anchored \cup {s},
                 counter' = [counter EXCEPT ![s] = 1], detach' = detach \ {s}
          PROVE  Typed'
      <3>1. TypeOK' BY <1>1, <1>3, <2>2 DEF GetState, TypeOK, Goto, lookupVars
      <3>2. AnchorsCount' BY <1>1, <2>2 DEF AnchorsCount, TypeOK
      <3>3. s # Null BY GilAssumption DEF GilAssumption
      <3>4. Elsewhere(t) /\ Handled(t)'
        BY <1>1, <1>2, <1>3, <2>2, <3>3 DEF GetState, TypeOK, Goto, Elsewhere, Handled
      <3> QED BY <3>1, <3>2, <3>4, HandledStep DEF Typed
    <2> QED BY <1>3, <2>1, <2>2 DEF GetState
  <1>4. CASE PutState(t)
    <2>1. PICK Lost \in SUBSET missed[t] :
            lookup' = [u \in Threads |-> IF u = t THEN hand[t]
                                         ELSE IF u \in Lost THEN Null ELSE lookup[u]]
      BY <1>4 DEF PutState
    <2>2. TypeOK' BY <1>1, <1>4, <2>1 DEF PutState, TypeOK, Goto, stateVars
    <2>3. AnchorsCount' BY <1>1, <1>4 DEF PutState, AnchorsCount, stateVars
    <2>4. Elsewhere(t) /\ Handled(t)'
      BY <1>1, <1>2, <1>4 DEF PutState, TypeOK, Goto, Elsewhere, Handled
    <2> QED BY <2>2, <2>3, <2>4, HandledStep DEF Typed
  <1>5. CASE ThreadEnds(t)
    <2>1. TypeOK' BY <1>1, <1>5 DEF ThreadEnds, TypeOK, stateVars, threadVars
    <2>2. AnchorsCount' BY <1>1, <1>5 DEF ThreadEnds, AnchorsCount, stateVars
    <2>3. Elsewhere(t) /\ Handled(t)'
      BY <1>1, <1>2, <1>5 DEF ThreadEnds, threadVars, Elsewhere, Handled
    <2> QED BY <2>1, <2>2, <2>3, HandledStep DEF Typed
  <1> QED BY <1>3, <1>4, <1>5

(* What begins an operation or takes the lock touches neither frames nor   *)
(* counters.                                                               *)
LEMMA MoveTyped ==
  ASSUME Typed, NEW t \in Threads,
         \/ Enter(t) \/ Acquire(t) \/ Unlock(t) \/ RestoreThread(t) \/ Ensure(t) \/ Release(t)
         \/ ClearPyCPeer(t) \/ \E o \in {"enter", "reenter"} : CallNative(t, o)
  PROVE  Typed'
  <1>1. TypeOK /\ AnchorsCount /\ Handled(t) BY DEF Typed
  <1>2. /\ UNCHANGED <<current, lookupVars, stateVars, attached, nest, hand, fatal>>
        /\ lock' \in BOOLEAN
        /\ \E p \in {"run", "get", "acquire", "got"} : pc' = [pc EXCEPT ![t] = p]
        /\ op' = op \/ \E o \in {"enter", "reenter", "ensure", "release", "restore", "peer"} :
                         op' = [op EXCEPT ![t] = o]
    BY <1>1 DEF TypeOK, Enter, Acquire, Unlock, RestoreThread, Ensure, Release, ClearPyCPeer,
      CallNative, Goto, Begin
  <1>3. \A u \in Threads : Top(u)' = Top(u) BY <1>2, SameFrames
  <1>4. TypeOK'
    <2>1. pc' \in [Threads -> {"run", "get", "put", "have", "acquire", "got", "unlock"}]
      BY <1>1, <1>2 DEF TypeOK
    <2>2. op' \in [Threads ->
                     {"none", "enter", "reenter", "ensure", "release", "restore", "peer"}]
      BY <1>1, <1>2 DEF TypeOK
    <2> QED BY <1>1, <1>2, <2>1, <2>2 DEF TypeOK, lookupVars, stateVars
  <1>5. AnchorsCount' BY <1>1, <1>2 DEF AnchorsCount, stateVars
  <1>6. Elsewhere(t) BY <1>1, <1>2, <1>3 DEF TypeOK, Elsewhere
  <1>7. Handled(t)'
    <2>1. CASE Enter(t) \/ Acquire(t) \/ Unlock(t)
      <3>1. UNCHANGED <<op, hand>> BY <2>1 DEF Enter, Acquire, Unlock
      <3>2. \/ pc[t] = "have" /\ op[t] = "enter" /\ pc'[t] = "acquire"
            \/ pc[t] = "acquire" /\ pc'[t] = "got"
            \/ pc'[t] = "run"
        BY <1>1, <2>1 DEF TypeOK, Enter, Acquire, Unlock, Goto
      <3> QED BY <1>1, <1>3, <3>1, <3>2 DEF Handled
    <2>2. CASE RestoreThread(t)
      <3>1. pc'[t] = "acquire" /\ op'[t] = "restore" /\ Top(t) # "none"
        BY <1>1, <2>2 DEF RestoreThread, TypeOK, Goto, Begin
      <3> QED BY <1>3, <3>1 DEF Handled
    <2>3. CASE Release(t)
      <3>1. pc'[t] = "get" /\ Top(t) # "none"
        BY <1>1, <2>3 DEF Release, TypeOK, Goto
      <3> QED BY <1>3, <3>1 DEF Handled
    <2>4. CASE Ensure(t) \/ ClearPyCPeer(t) \/ \E o \in {"enter", "reenter"} : CallNative(t, o)
      <3>1. \/ pc'[t] = "get" /\ op'[t] \in {"enter", "reenter", "ensure"}
            \/ pc'[t] = "acquire" /\ op'[t] = "peer"
        BY <1>1, <2>4 DEF Ensure, ClearPyCPeer, CallNative, TypeOK, Goto, Begin
      <3> QED BY <3>1 DEF Handled
    <2> QED BY <2>1, <2>2, <2>3, <2>4
  <1> QED BY <1>4, <1>5, <1>6, <1>7, HandledStep DEF Typed

LEMMA DieTyped ==
  ASSUME Typed, NEW reason \in {"overwriting", "nullState", "notCurrent", "noState"}, Die(reason)
  PROVE  Typed'
  <1>1. UNCHANGED <<lock, current, lookupVars, stateVars, attached, threadVars>> /\ fatal' = reason
    BY DEF Die
  <1>2. TypeOK' BY <1>1 DEF Typed, TypeOK, lookupVars, stateVars, threadVars
  <1>3. AnchorsCount' BY <1>1 DEF Typed, AnchorsCount, stateVars
  <1>4. ASSUME NEW u \in Threads PROVE Handled(u)'
    <2>1. Handled(u) /\ Top(u)' = Top(u) BY <1>1, SameFrames DEF Typed, threadVars
    <2> QED BY <1>1, <2>1 DEF Handled, threadVars
  <1> QED BY <1>2, <1>3, <1>4 DEF Typed

(* A thread that runs extension code or gives up the lock has nothing to   *)
(* handle; nor need anything else of the frames be known.                  *)
LEMMA FrameTyped ==
  ASSUME Typed, NEW t \in Threads, NEW p \in {"run", "unlock"},
         nest' \in [Threads -> Seq(Frames)], \A u \in Threads \ {t} : Top(u)' = Top(u),
         pc' = [pc EXCEPT ![t] = p], UNCHANGED <<op, hand>>,
         UNCHANGED <<lock, lookupVars, stateVars, attached, fatal>>,
         current' \in States \cup {Null}
  PROVE  Typed'
  <1>1. TypeOK /\ AnchorsCount BY DEF Typed
  <1>2. TypeOK' BY <1>1 DEF TypeOK, lookupVars, stateVars
  <1>3. AnchorsCount' BY <1>1 DEF AnchorsCount, stateVars
  <1>4. Elsewhere(t) BY <1>1 DEF TypeOK, Elsewhere
  <1>5. pc'[t] = p BY <1>1 DEF TypeOK
  <1>6. Handled(t)' BY <1>5 DEF Handled
  <1> QED BY <1>2, <1>3, <1>4, <1>6, HandledStep DEF Typed

LEMMA PushTyped ==
  ASSUME Typed, NEW t \in Threads, PeerDecref(t) \/ CallJava(t) \/ SaveThread(t) \/ Entered(t)
  PROVE  Typed'
  <1>1. TypeOK /\ Handled(t) BY DEF Typed
  <1>2. CASE \E reason \in {"overwriting", "nullState"} : Die(reason)
    BY <1>2, DieTyped
  <1>3. ASSUME NEW k \in Kinds, NEW s \in States \cup {Null}, Push(t, k, s),
               NEW p \in {"run", "unlock"}, pc' = [pc EXCEPT ![t] = p], UNCHANGED <<op, hand>>,
               UNCHANGED <<lock, lookupVars, stateVars, attached, fatal>>,
               current' \in States \cup {Null}
        PROVE  Typed'
    BY <1>1, <1>3, PushFacts, FrameTyped
  <1>4. CASE PeerDecref(t)
    <2>1. Push(t, "peer", Null) /\ "peer" \in Kinds BY <1>4 DEF PeerDecref, Kinds
    <2> QED BY <1>1, <1>3, <1>4, <2>1 DEF PeerDecref, Goto, TypeOK
  <1>5. CASE CallJava(t)
    <2>1. Push(t, "java", current) /\ "java" \in Kinds BY <1>5 DEF CallJava, Kinds
    <2>2. pc' = [pc EXCEPT ![t] = "run"] BY <1>1, <1>5 DEF CallJava, Running, TypeOK
    <2>3. /\ UNCHANGED <<op, hand>> /\ UNCHANGED <<lock, lookupVars, stateVars, attached, fatal>>
          /\ current \in States \cup {Null} /\ current' = current
      BY <1>1, <1>5 DEF CallJava, TypeOK
    <2> QED BY <1>3, <2>1, <2>2, <2>3
  <1>6. CASE SaveThread(t) /\ current # Null
    <2>1. Push(t, "allowed", current) /\ "allowed" \in Kinds BY <1>6 DEF SaveThread, Kinds
    <2> QED BY <1>1, <1>3, <1>6, <2>1 DEF SaveThread, Goto, TypeOK
  <1>7. CASE Entered(t) /\ current = Null
    <2>1. Push(t, "entered", hand[t]) /\ "entered" \in Kinds BY <1>7 DEF Entered, Kinds
    <2>2. hand[t] \in States \cup {Null} BY <1>1 DEF TypeOK
    <2> QED BY <1>3, <1>7, <2>1, <2>2 DEF Entered, Goto
  <1> QED BY <1>2, <1>4, <1>5, <1>6, <1>7 DEF SaveThread, Entered

LEMMA PopTyped ==
  ASSUME Typed, NEW t \in Threads,
         Leave(t) \/ JavaReturns(t) \/ Restored(t) \/ PeerCleared(t)
  PROVE  Typed'
  <1>1. TypeOK /\ Handled(t) BY DEF Typed
  <1>2. Top(t) # "none" /\ Pop(t)
    BY <1>1 DEF Leave, JavaReturns, Restored, PeerCleared, Handled
  <1>3. nest' \in [Threads -> Seq(Frames)] /\ \A u \in Threads \ {t} : Top(u)' = Top(u)
    BY <1>1, <1>2, PopFacts
  <1>4. \E p \in {"run", "unlock"} : pc' = [pc EXCEPT ![t] = p]
    <2>1. CASE JavaReturns(t)
      BY <1>1, <2>1 DEF JavaReturns, Running, TypeOK
    <2>2. CASE Leave(t) \/ Restored(t) \/ PeerCleared(t)
      BY <2>2 DEF Leave, Restored, PeerCleared, Goto
    <2> QED BY <2>1, <2>2
  <1>5. current' \in States \cup {Null}
    <2>1. CASE Restored(t)
      <3>1. Len(nest[t]) \in 1..Len(nest[t]) /\ nest[t] \in Seq(Frames)
        BY <1>1, <1>2, PopFacts DEF TypeOK
      <3>2. nest[t][Len(nest[t])] \in Frames BY <3>1
      <3> QED BY <2>1, <3>2 DEF Restored, Frames
    <2>2. CASE Leave(t) \/ JavaReturns(t) \/ PeerCleared(t)
      BY <1>1, <2>2 DEF Leave, JavaReturns, PeerCleared, TypeOK
    <2> QED BY <2>1, <2>2
  <1>6. UNCHANGED <<op, hand>> /\ UNCHANGED <<lock, lookupVars, stateVars, attached, fatal>>
    BY DEF Leave, JavaReturns, Restored, PeerCleared
  <1> QED BY <1>3, <1>4, <1>5, <1>6, FrameTyped

LEMMA ReEnterTyped ==
  ASSUME Typed, NEW t \in Threads, ReEnter(t)
  PROVE  Typed'
  <1>1. TypeOK /\ AnchorsCount /\ Handled(t) BY DEF Typed
  <1>2. CASE current = hand[t]
    <2>1. Push(t, "reentered", hand[t]) /\ "reentered" \in Kinds /\ hand[t] \in States \cup {Null}
      BY <1>1, <1>2 DEF ReEnter, Kinds, TypeOK
    <2>2. nest' \in [Threads -> Seq(Frames)] /\ \A u \in Threads \ {t} : Top(u)' = Top(u)
      BY <1>1, <2>1, PushFacts
    <2> QED BY <1>1, <1>2, <2>2, FrameTyped DEF ReEnter, Goto, TypeOK
  <1>3. CASE current # hand[t]
    <2>1. /\ op' = [op EXCEPT ![t] = "enter"] /\ pc[t] = "have"
          /\ UNCHANGED <<nest, pc, lock, current, lookupVars, stateVars, attached, hand, fatal>>
      BY <1>3 DEF ReEnter, Begin
    <2>2. TypeOK' BY <1>1, <2>1 DEF TypeOK, lookupVars, stateVars
    <2>3. AnchorsCount' BY <1>1, <2>1 DEF AnchorsCount, stateVars
    <2>4. Elsewhere(t) /\ Handled(t)'
      BY <1>1, <2>1, SameFrames DEF TypeOK, Elsewhere, Handled
    <2> QED BY <2>2, <2>3, <2>4, HandledStep DEF Typed
  <1> QED BY <1>2, <1>3

(* PyGILState_Ensure counts up what it has in hand. *)
LEMMA EnsureTyped ==
  ASSUME Typed, NEW t \in Threads, Ensured(t) \/ EnsuredUnlocked(t)
  PROVE  Typed'
  <1>1. TypeOK /\ AnchorsCount /\ Handled(t) BY DEF Typed
  <1>2. hand[t] \in States /\ detach' \subseteq States /\ attached' \subseteq Natives
    BY <1>1 DEF Ensured, EnsuredUnlocked, Handled, TypeOK
  <1>3. UNCHANGED <<lock, lookupVars, live, anchored, op, hand, fatal>>
    BY DEF Ensured, EnsuredUnlocked
  <1>4. ASSUME NEW k \in Kinds, Push(t, k, hand[t]), pc' = [pc EXCEPT ![t] = "run"],
               counter' = [counter EXCEPT ![hand[t]] = @ + 1], current' \in States \cup {Null}
        PROVE  Typed'
    <2>1. nest' \in [Threads -> Seq(Frames)] /\ \A u \in Threads \ {t} : Top(u)' = Top(u)
      BY <1>1, <1>2, <1>4, PushFacts
    <2>2. TypeOK'
      <3>1. counter' \in [States -> Nat] BY <1>1, <1>2, <1>4 DEF TypeOK
      <3>2. pc' \in [Threads -> {"run", "get", "put", "have", "acquire", "got", "unlock"}]
        BY <1>1, <1>4 DEF TypeOK
      <3> QED BY <1>1, <1>2, <1>3, <1>4, <2>1, <3>1, <3>2 DEF TypeOK, lookupVars
    <2>3. AnchorsCount' BY <1>1, <1>2, <1>3, <1>4 DEF AnchorsCount, TypeOK
    <2>4. Elsewhere(t) /\ Handled(t)'
      BY <1>1, <1>3, <1>4, <2>1 DEF TypeOK, Elsewhere, Handled
    <2> QED BY <2>2, <2>3, <2>4, HandledStep DEF Typed
  <1>5. CASE Ensured(t) /\ current = hand[t]
    <2>1. Push(t, "ensuredLocked", hand[t]) /\ "ensuredLocked" \in Kinds BY <1>5 DEF Ensured, Kinds
    <2> QED BY <1>1, <1>4, <1>5, <2>1 DEF Ensured, Goto, TypeOK
  <1>6. CASE EnsuredUnlocked(t)
    <2>1. Push(t, "ensured", hand[t]) /\ "ensured" \in Kinds BY <1>6 DEF EnsuredUnlocked, Kinds
    <2> QED BY <1>2, <1>4, <1>6, <2>1 DEF EnsuredUnlocked, Goto
  <1>7. CASE Ensured(t) /\ current # hand[t]
    <2>1. /\ pc' = [pc EXCEPT ![t] = "acquire"] /\ pc[t] = "have" /\ op[t] = "ensure"
          /\ UNCHANGED <<counter, nest, current>>
      BY <1>7 DEF Ensured, Goto
    <2>2. TypeOK' BY <1>1, <1>2, <1>3, <2>1 DEF TypeOK, lookupVars
    <2>3. AnchorsCount' BY <1>1, <1>3, <2>1 DEF AnchorsCount
    <2>4. Elsewhere(t) /\ Handled(t)'
      BY <1>1, <1>2, <1>3, <2>1, SameFrames DEF TypeOK, Elsewhere, Handled
    <2> QED BY <2>2, <2>3, <2>4, HandledStep DEF Typed
  <1> QED BY <1>5, <1>6, <1>7

(* PyGILState_Release counts down what it has looked up, having found that *)
(* it is not 0; with the last count the anchor is gone.                    *)
LEMMA ReleasedTyped ==
  ASSUME Typed, NEW t \in Threads, Released(t)
  PROVE  Typed'
  <1>1. TypeOK /\ AnchorsCount /\ Handled(t) BY DEF Typed
  <1> DEFINE s == hand[t]
             last == counter[s] = 1
  <1>2. s \in States /\ counter[s] \in Nat BY <1>1 DEF Released, Handled, TypeOK
  <1>3. CASE \E reason \in {"notCurrent", "noState"} : Die(reason)
    BY <1>3, DieTyped
  <1>4. ASSUME counter[s] # 0, current = s PROVE Typed'
    <2>1. /\ counter' = [counter EXCEPT ![s] = @ - 1]
          /\ live'     = IF last THEN live \ {s} ELSE live
          /\ anchored' = IF last THEN anchored \ {s} ELSE anchored
          /\ attached' = IF last /\ s \in detach THEN attached \ {t} ELSE attached
          /\ Pop(t) /\ UNCHANGED <<lock, lookupVars, detach, op, hand, fatal>>
      BY <1>4 DEF Released
    <2>2. /\ current' \in States \cup {Null}
          /\ \E p \in {"run", "unlock"} : pc' = [pc EXCEPT ![t] = p]
      BY <1>1, <1>4 DEF Released, Goto, TypeOK
    <2>3. Top(t) # "none" BY <1>1 DEF Released, Handled
    <2>4. nest' \in [Threads -> Seq(Frames)] /\ \A u \in Threads \ {t} : Top(u)' = Top(u)
      BY <1>1, <2>1, <2>3, PopFacts
    <2> HIDE DEF s
    <2>5. counter' \in [States -> Nat] BY <1>1, <1>2, <1>4, <2>1 DEF TypeOK
    <2>6. live' \subseteq States /\ anchored' \subseteq live' /\ attached' \subseteq Natives
      BY <1>1, <2>1 DEF TypeOK
    <2>7. TypeOK' BY <1>1, <2>1, <2>2, <2>4, <2>5, <2>6 DEF TypeOK, lookupVars
    <2>8. AnchorsCount' BY <1>1, <1>2, <1>4, <2>1 DEF AnchorsCount, TypeOK
    <2>9. Elsewhere(t) /\ Handled(t)' BY <1>1, <2>1, <2>2, <2>4 DEF TypeOK, Elsewhere, Handled
    <2> QED BY <2>7, <2>8, <2>9, HandledStep DEF Typed
  <1> QED BY <1>3, <1>4 DEF Released

LEMMA FinalizeTyped ==
  ASSUME Typed, NEW s \in States, Finalize(s)
  PROVE  Typed'
  <1>1. TypeOK /\ AnchorsCount BY DEF Typed
  <1>2. /\ counter[s] \in Nat \ {0} /\ anchored' = anchored \ {s}
        /\ counter' = [counter EXCEPT ![s] = @ - 1]
        /\ live' = IF counter[s] = 1 THEN live \ {s} ELSE live
        /\ UNCHANGED <<lock, current, lookupVars, detach, attached, threadVars, fatal>>
    BY <1>1 DEF Finalize, TypeOK, AnchorsCount
  <1>3. TypeOK' BY <1>1, <1>2 DEF TypeOK, lookupVars, threadVars
  <1>4. AnchorsCount' BY <1>1, <1>2 DEF AnchorsCount, TypeOK
  <1>5. ASSUME NEW u \in Threads PROVE Handled(u)'
    <2>1. Handled(u) /\ Top(u)' = Top(u) BY <1>2, SameFrames DEF Typed, threadVars
    <2> QED BY <1>2, <2>1 DEF Handled, threadVars
  <1> QED BY <1>3, <1>4, <1>5 DEF Typed

LEMMA InitTyped == Init => Typed
  <1> SUFFICES ASSUME Init PROVE Typed OBVIOUS
  <1>1. TypeOK BY InitIInv DEF IInv
  <1>2. AnchorsCount BY DEF Init, AnchorsCount
  <1>3. \A t \in Threads : Handled(t) BY DEF Init, Handled
  <1> QED BY <1>1, <1>2, <1>3 DEF Typed

LEMMA NextTyped == Typed /\ [Next]_vars => Typed'
  <1> SUFFICES ASSUME Typed, [Next]_vars PROVE Typed' OBVIOUS
  <1>1. ASSUME NEW t \in Threads, Step(t) PROVE Typed'
    <2>1. CASE GetState(t) \/ PutState(t) \/ ThreadEnds(t) BY <2>1, LookupTyped
    <2>2. CASE \/ Enter(t) \/ Acquire(t) \/ Unlock(t) \/ RestoreThread(t) \/ Ensure(t)
               \/ Release(t) \/ ClearPyCPeer(t) \/ \E o \in {"enter", "reenter"} : CallNative(t, o)
      BY <2>2, MoveTyped
    <2>3. CASE PeerDecref(t) \/ CallJava(t) \/ SaveThread(t) \/ Entered(t) BY <2>3, PushTyped
    <2>4. CASE Leave(t) \/ JavaReturns(t) \/ Restored(t) \/ PeerCleared(t) BY <2>4, PopTyped
    <2>5. CASE ReEnter(t) BY <2>5, ReEnterTyped
    <2>6. CASE Ensured(t) \/ EnsuredUnlocked(t) BY <2>6, EnsureTyped
    <2>7. CASE Released(t) BY <2>7, ReleasedTyped
    <2> QED BY <1>1, <2>1, <2>2, <2>3, <2>4, <2>5, <2>6, <2>7 DEF Step
  <1>2. CASE UNCHANGED vars
    <2>1. TypeOK' BY <1>2 DEF Typed, TypeOK, vars, lookupVars, stateVars, threadVars
    <2>2. AnchorsCount' BY <1>2 DEF Typed, AnchorsCount, vars, stateVars
    <2>3. ASSUME NEW u \in Threads PROVE Handled(u)'
      <3>1. Handled(u) /\ Top(u)' = Top(u) BY <1>2, SameFrames DEF Typed, vars, threadVars
      <3> QED BY <1>2, <3>1 DEF Handled, vars, threadVars
    <2> QED BY <2>1, <2>2, <2>3 DEF Typed
  <1> QED BY <1>1, <1>2, FinalizeTyped DEF Next

(* Types are correct in every interleaving: even when tStateLookup loses   *)
(* entries and two threads come to share a thread state, no counter gets   *)
(* negative, for PyGILState_Release looks at it first.                     *)
THEOREM GilTypeCorrect == Spec => []TypeOK
  <1>1. Typed => TypeOK BY DEF Typed
  <1> QED BY <1>1, InitTyped, NextTyped, PTL DEF Spec
=============================================================================
