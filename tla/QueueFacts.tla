----------------------------- MODULE QueueFacts -----------------------------
(***************************************************************************)
(* Facts about queues that the proofs about the locks, the scheduler and   *)
(* the channels share: what appending, prepending and removing elements do *)
(* to the members of a queue, and that they keep its elements distinct.    *)
(***************************************************************************)
EXTENDS Queues, Integers, SequencesExt, WellFoundedInduction, TLAPS

\* A set of numbers has a least member.
LEMMA Least ==
  ASSUME NEW T \in SUBSET Nat, T # {}
  PROVE  \E c \in T : \A d \in T : c <= d
  <1>1. IsWellFoundedOn(OpToRel(<, Nat), Nat)
    BY NatLessThanWellFounded
  <1>2. PICK x \in T : \A y \in T : ~ (<<y, x>> \in OpToRel(<, Nat))
    BY <1>1, WFMin
  <1>3. ASSUME NEW y \in T PROVE x <= y
    <2>1. ~ (<<y, x>> \in OpToRel(<, Nat))
      BY <1>2
    <2>. QED
      BY <2>1 DEF OpToRel
  <1>. QED
    BY <1>2, <1>3

\* Appending a new element to a queue of distinct elements.
LEMMA AppendIn ==
  ASSUME NEW S, NEW s \in Seq(S), NEW e \in S
  PROVE  /\ Append(s, e) \in Seq(S) /\ Append(s, e) # <<>>
         /\ \A x : In(x, Append(s, e)) <=> x = e \/ In(x, s)
         /\ Distinct(s) /\ ~In(e, s) => Distinct(Append(s, e))
  <1>1. Len(Append(s, e)) = Len(s) + 1 /\ Len(s) \in Nat
    OBVIOUS
  <1>2. \A i \in 1..Len(s) : Append(s, e)[i] = s[i]
    OBVIOUS
  <1>3. Append(s, e)[Len(s) + 1] = e
    OBVIOUS
  <1>4. Append(s, e) \in Seq(S) /\ Append(s, e) # <<>>
    <2>1. Append(s, e) \in Seq(S)
      OBVIOUS
    <2>2. Append(s, e) # <<>>
      <3>1. Len(<<>>) = 0
        OBVIOUS
      <3>. QED
        BY <1>1, <3>1
    <2>. QED
      BY <2>1, <2>2
  <1>5. \A x : In(x, Append(s, e)) <=> x = e \/ In(x, s)
    BY <1>1, <1>2, <1>3 DEF In
  <1>6. Distinct(s) /\ ~In(e, s) => Distinct(Append(s, e))
    BY <1>1, <1>2, <1>3 DEF In, Distinct
  <1>. QED
    BY <1>4, <1>5, <1>6

\* Removing the head of a queue of distinct elements.
LEMMA TailIn ==
  ASSUME NEW S, NEW s \in Seq(S), s # <<>>, Distinct(s)
  PROVE  /\ Tail(s) \in Seq(S) /\ Head(s) \in S
         /\ \A x : In(x, Tail(s)) <=> x # Head(s) /\ In(x, s)
         /\ In(Head(s), s)
         /\ Distinct(Tail(s))
  <1>1. Len(s) \in Nat /\ Len(s) >= 1 /\ Len(Tail(s)) = Len(s) - 1
    OBVIOUS
  <1>2. \A i \in 1..Len(Tail(s)) : Tail(s)[i] = s[i + 1]
    OBVIOUS
  <1>3. Head(s) = s[1] /\ Head(s) \in S /\ Tail(s) \in Seq(S)
    OBVIOUS
  <1>4. In(Head(s), s)
    BY <1>1, <1>3 DEF In
  <1>5. ASSUME NEW x, In(x, Tail(s)) PROVE x # Head(s) /\ In(x, s)
    BY <1>1, <1>2, <1>3, <1>5 DEF In, Distinct
  <1>6. ASSUME NEW x, x # Head(s), In(x, s) PROVE In(x, Tail(s))
    <2>1. PICK i \in 1..Len(s) : s[i] = x
      BY <1>6 DEF In
    <2>2. i # 1
      BY <2>1, <1>3, <1>6
    <2>3. i - 1 \in 1..Len(Tail(s)) /\ Tail(s)[i - 1] = x
      BY <2>1, <2>2, <1>1, <1>2
    <2>. QED
      BY <2>3 DEF In
  <1>7. Distinct(Tail(s))
    BY <1>1, <1>2 DEF Distinct
  <1>. QED
    BY <1>3, <1>4, <1>5, <1>6, <1>7

\* Putting a new element before a queue of distinct elements.
LEMMA ConsIn ==
  ASSUME NEW S, NEW s \in Seq(S), NEW e \in S
  PROVE  /\ <<e>> \o s \in Seq(S) /\ <<e>> \o s # <<>>
         /\ Head(<<e>> \o s) = e
         /\ \A x : In(x, <<e>> \o s) <=> x = e \/ In(x, s)
         /\ Distinct(s) /\ ~In(e, s) => Distinct(<<e>> \o s)
  <1>. DEFINE t == <<e>> \o s
  <1>1. t \in Seq(S) /\ Len(t) = Len(s) + 1 /\ Len(s) \in Nat
    OBVIOUS
  <1>2. t[1] = e
    OBVIOUS
  <1>3. \A i \in 1..Len(s) : t[i + 1] = s[i]
    OBVIOUS
  <1>4. \A i \in 1..Len(t) : i # 1 => i - 1 \in 1..Len(s) /\ t[i] = s[i - 1]
    <2>1. SUFFICES ASSUME NEW i \in 1..Len(t), i # 1
                   PROVE  i - 1 \in 1..Len(s) /\ t[i] = s[i - 1]
      OBVIOUS
    <2>2. i - 1 \in 1..Len(s) /\ (i - 1) + 1 = i
      BY <2>1, <1>1
    <2>. HIDE DEF t
    <2>. QED
      BY <2>2, <1>3
  <1>5. t # <<>>
    BY <1>1, Len(<<>>) = 0
  <1>. HIDE DEF t
  <1>6. Head(t) = e
    BY <1>1, <1>2, <1>5
  <1>7. ASSUME NEW x PROVE In(x, t) <=> x = e \/ In(x, s)
    <2>1. ASSUME In(x, t) PROVE x = e \/ In(x, s)
      BY <2>1, <1>2, <1>4 DEF In
    <2>2. ASSUME x = e PROVE In(x, t)
      <3>1. 1 \in 1..Len(t)
        BY <1>1
      <3>. QED
        BY <2>2, <3>1, <1>2 DEF In
    <2>3. ASSUME In(x, s) PROVE In(x, t)
      <3>1. PICK i \in 1..Len(s) : s[i] = x
        BY <2>3 DEF In
      <3>2. i + 1 \in 1..Len(t) /\ t[i + 1] = x
        BY <3>1, <1>1, <1>3
      <3>. QED
        BY <3>2 DEF In
    <2>. QED
      BY <2>1, <2>2, <2>3
  <1>8. ASSUME Distinct(s), ~In(e, s) PROVE Distinct(t)
    <2>1. SUFFICES ASSUME NEW i \in 1..Len(t), NEW j \in 1..Len(t), t[i] = t[j] PROVE i = j
      BY DEF Distinct
    <2>2. CASE i = 1 \/ j = 1
      BY <2>1, <2>2, <1>2, <1>4, <1>8 DEF In
    <2>3. CASE i # 1 /\ j # 1
      <3>1. s[i - 1] = s[j - 1] /\ i - 1 \in 1..Len(s) /\ j - 1 \in 1..Len(s)
        BY <2>1, <2>3, <1>4
      <3>2. i - 1 = j - 1
        BY <3>1, <1>8 DEF Distinct
      <3>. QED
        BY <3>2, <1>1
    <2>. QED
      BY <2>2, <2>3
  <1>. QED
    BY <1>1, <1>5, <1>6, <1>7, <1>8 DEF t

\* The elements of two queues joined.
LEMMA ConcatAt ==
  ASSUME NEW S, NEW s \in Seq(S), NEW t \in Seq(S)
  PROVE  /\ s \o t \in Seq(S) /\ Len(s \o t) = Len(s) + Len(t)
         /\ \A i \in 1..Len(s) : (s \o t)[i] = s[i]
         /\ \A i \in 1..Len(t) : (s \o t)[Len(s) + i] = t[i]
  <1>1. s \o t \in Seq(S) /\ Len(s \o t) = Len(s) + Len(t)
    OBVIOUS
  <1>2. ASSUME NEW i \in 1..Len(s) PROVE (s \o t)[i] = s[i]
    <2>1. i \in 1..(Len(s) + Len(t))
      OBVIOUS
    <2>. QED
      BY <2>1
  <1>3. ASSUME NEW i \in 1..Len(t) PROVE (s \o t)[Len(s) + i] = t[i]
    <2>1. Len(s) + i \in 1..(Len(s) + Len(t)) /\ ~(Len(s) + i <= Len(s)) /\ (Len(s) + i) - Len(s) = i
      OBVIOUS
    <2>. QED
      BY <2>1
  <1>. QED
    BY <1>1, <1>2, <1>3

\* Nothing is in the empty queue.
LEMMA EmptyIn == \A x : ~In(x, <<>>)
  BY DEF In

\* The head of a queue after an element is appended.
LEMMA AppendHead ==
  ASSUME NEW S, NEW s \in Seq(S), NEW e \in S
  PROVE  Head(Append(s, e)) = IF s = <<>> THEN e ELSE Head(s)
  OBVIOUS

\* In is membership of the set of a queue's elements.
LEMMA InToSet ==
  ASSUME NEW S, NEW s \in Seq(S), NEW x
  PROVE  x \in ToSet(s) <=> In(x, s)
  BY DEF ToSet, In

\* Removing the first element by its position is taking the tail.
LEMMA RemoveHead ==
  ASSUME NEW S, NEW s \in Seq(S), s # <<>>
  PROVE  RemoveAt(s, 1) = Tail(s)
  <1>1. SubSeq(s, 2, Len(s)) = Tail(s) /\ Tail(s) \in Seq(S)
    OBVIOUS
  <1>2. SubSeq(s, 1, 0) = <<>>
    OBVIOUS
  <1>3. ASSUME NEW t \in Seq(S) PROVE <<>> \o t = t
    OBVIOUS
  <1>4. 1 - 1 = 0 /\ 1 + 1 = 2
    OBVIOUS
  <1>5. RemoveAt(s, 1) = SubSeq(s, 1, 1 - 1) \o SubSeq(s, 1 + 1, Len(s))
    BY DEF RemoveAt
  <1>. QED
    BY <1>1, <1>2, <1>3, <1>4, <1>5

\* What Without has put together when it has seen n elements of s.
Partial(s, D, k, n) ==
  \A i \in 0..n : k[i] = IF i = 0 THEN <<>>
                         ELSE IF s[i] \in D THEN k[i - 1] ELSE Append(k[i - 1], s[i])

\* There is such a thing, for every n.
LEMMA PartialExists ==
  ASSUME NEW S, NEW s \in Seq(S), NEW D
  PROVE  \E k \in [0..Len(s) -> Seq(S)] : Partial(s, D, k, Len(s))
  <1>. DEFINE P(n) == \E k \in [0..n -> Seq(S)] : Partial(s, D, k, n)
              T == {n \in 0..Len(s) : ~P(n)}
  <1>1. SUFFICES ASSUME T # {} PROVE FALSE
    <2>1. Len(s) \in 0..Len(s)
      OBVIOUS
    <2>. QED
      BY <2>1
  <1>2. T \in SUBSET Nat
    OBVIOUS
  <1>3. PICK c \in T : \A d \in T : c <= d
    <2>. HIDE DEF T
    <2>. QED
      BY <1>1, <1>2, Least
  <1>4. CASE c = 0
    <2>. DEFINE k == [i \in 0..0 |-> <<>>]
    <2>1. k \in [0..0 -> Seq(S)] /\ Partial(s, D, k, 0)
      BY DEF Partial
    <2>2. P(0)
      BY <2>1
    <2>. QED
      BY <1>4, <2>2
  <1>5. CASE c # 0
    <2>1. c \in 1..Len(s) /\ c - 1 \in 0..Len(s) /\ c - 1 \notin T /\ s[c] \in S
      <3>1. c \in 0..Len(s) /\ (c - 1 \in T => c <= c - 1)
        <4>1. c \in 0..Len(s)
          OBVIOUS
        <4>. HIDE DEF T
        <4>. QED
          BY <4>1, <1>3
      <3>. HIDE DEF T
      <3>. QED
        BY <3>1, <1>5
    <2>2. PICK k \in [0..(c - 1) -> Seq(S)] : Partial(s, D, k, c - 1)
      BY <2>1
    <2>. DEFINE e == IF s[c] \in D THEN k[c - 1] ELSE Append(k[c - 1], s[c])
                j == [i \in 0..c |-> IF i = c THEN e ELSE k[i]]
    <2>3. e \in Seq(S)
      <3>1. k[c - 1] \in Seq(S)
        BY <2>1, <2>2
      <3>. QED
        BY <3>1, <2>1
    <2>4. j \in [0..c -> Seq(S)]
      <3>. HIDE DEF e
      <3>. QED
        BY <2>1, <2>2, <2>3
    <2>5. ASSUME NEW i \in 0..c
          PROVE  j[i] = IF i = 0 THEN <<>> ELSE IF s[i] \in D THEN j[i - 1] ELSE Append(j[i - 1], s[i])
      <3>1. CASE i = c
        <4>1. j[i] = e /\ j[i - 1] = k[i - 1] /\ i # 0
          BY <3>1, <2>1
        <4>. HIDE DEF j
        <4>. QED
          BY <3>1, <4>1
      <3>2. CASE i # c
        <4>1. i \in 0..(c - 1) /\ j[i] = k[i] /\ (i # 0 => j[i - 1] = k[i - 1])
          BY <3>2, <2>1
        <4>. HIDE DEF j
        <4>. QED
          BY <2>2, <4>1 DEF Partial
      <3>. QED
        BY <3>1, <3>2
    <2>6. Partial(s, D, j, c)
      <3>. HIDE DEF j
      <3>. QED
        BY <2>5 DEF Partial
    <2>7. P(c)
      <3>. HIDE DEF j
      <3>. QED
        BY <2>4, <2>6
    <2>. QED
      BY <1>3, <2>7
  <1>. QED
    BY <1>4, <1>5

\* So Without is its last value.
LEMMA WithoutPartial ==
  ASSUME NEW S, NEW s \in Seq(S), NEW D
  PROVE  \E k \in [0..Len(s) -> Seq(S)] : Partial(s, D, k, Len(s)) /\ Without(s, D) = k[Len(s)]
  <1>. DEFINE Def(k) == k = [n \in 0..Len(s) |-> IF n = 0 THEN <<>>
                               ELSE IF s[n] \in D THEN k[n - 1] ELSE Append(k[n - 1], s[n])]
              left == CHOOSE k : Def(k)
  <1>1. Without(s, D) = left[Len(s)]
    BY DEF Without
  <1>2. PICK k \in [0..Len(s) -> Seq(S)] : Partial(s, D, k, Len(s))
    BY PartialExists
  <1>3. Def(k)
    BY <1>2 DEF Partial
  <1>4. ASSUME NEW j, Def(j) PROVE j \in [0..Len(s) -> Seq(S)] /\ Partial(s, D, j, Len(s))
    <2>1. j = [n \in 0..Len(s) |-> j[n]]
      BY <1>4
    <2>2. Partial(s, D, j, Len(s))
      BY <1>4 DEF Partial
    <2>. DEFINE T == {n \in 0..Len(s) : j[n] \notin Seq(S)}
    <2>3. SUFFICES ASSUME T # {} PROVE FALSE
      BY <2>1, <2>2
    <2>4. PICK c \in T : \A d \in T : c <= d
      <3>1. T \in SUBSET Nat
        OBVIOUS
      <3>. HIDE DEF T
      <3>. QED
        BY <3>1, <2>3, Least
    <2>5. c # 0
      <3>1. j[0] = <<>>
        BY <2>2 DEF Partial
      <3>2. <<>> \in Seq(S)
        OBVIOUS
      <3>. QED
        BY <3>1, <3>2
    <2>6. c \in 1..Len(s) /\ c - 1 \in 0..Len(s) /\ c - 1 \notin T /\ s[c] \in S
      BY <2>4, <2>5
    <2>7. j[c - 1] \in Seq(S)
      BY <2>6
    <2>8. j[c] = IF s[c] \in D THEN j[c - 1] ELSE Append(j[c - 1], s[c])
      BY <2>2, <2>6 DEF Partial
    <2>9. j[c] \in Seq(S)
      BY <2>6, <2>7, <2>8
    <2>. QED
      BY <2>4, <2>9
  <1>5. Def(left)
    <2>. HIDE DEF Def
    <2>. QED
      BY <1>3
  <1>. HIDE DEF left
  <1>. QED
    BY <1>1, <1>4, <1>5

\* What is left by Without: its members are those of s that are not in D.
LEMMA WithoutIn ==
  ASSUME NEW S, NEW s \in Seq(S), NEW D
  PROVE  /\ Without(s, D) \in Seq(S)
         /\ \A x : In(x, Without(s, D)) <=> x \notin D /\ In(x, s)
         /\ Distinct(s) => Distinct(Without(s, D))
  <1>1. PICK k \in [0..Len(s) -> Seq(S)] : Partial(s, D, k, Len(s)) /\ Without(s, D) = k[Len(s)]
    BY WithoutPartial
  <1>. DEFINE Members(n) == \A x : In(x, k[n]) <=> x \notin D /\ \E i \in 1..n : s[i] = x
              Once(n) == Distinct(s) => Distinct(k[n])
              T == {n \in 0..Len(s) : ~(Members(n) /\ Once(n))}
  <1>2. ASSUME T # {} PROVE FALSE
    <2>1. PICK c \in T : \A d \in T : c <= d
      <3>1. T \in SUBSET Nat
        OBVIOUS
      <3>. HIDE DEF T
      <3>. QED
        BY <3>1, <1>2, Least
    <2>2. c \in 0..Len(s) /\ ~(Members(c) /\ Once(c))
      OBVIOUS
    <2>3. CASE c = 0
      <3>1. k[c] = <<>>
        BY <1>1, <2>3 DEF Partial
      <3>2. Members(c)
        BY <3>1, <2>3, EmptyIn
      <3>3. Once(c)
        BY <3>1 DEF Distinct
      <3>. QED
        BY <2>2, <3>2, <3>3
    <2>4. CASE c # 0
      <3>1. c \in 1..Len(s) /\ c - 1 \in 0..Len(s) /\ c - 1 \notin T
        <4>. HIDE DEF T
        <4>1. c - 1 \in T => c <= c - 1
          BY <2>1
        <4>. QED
          BY <4>1, <2>2, <2>4
      <3>2. Members(c - 1) /\ Once(c - 1) /\ k[c - 1] \in Seq(S) /\ s[c] \in S
        BY <3>1
      <3>3. k[c] = IF s[c] \in D THEN k[c - 1] ELSE Append(k[c - 1], s[c])
        BY <1>1, <3>1 DEF Partial
      <3>4. CASE s[c] \in D
        <4>1. k[c] = k[c - 1]
          BY <3>3, <3>4
        <4>2. Members(c)
          BY <4>1, <3>1, <3>2, <3>4
        <4>. QED
          BY <2>2, <3>2, <4>1, <4>2
      <3>5. CASE s[c] \notin D
        <4>1. k[c] = Append(k[c - 1], s[c])
          BY <3>3, <3>5
        <4>2. \A x : In(x, k[c]) <=> x = s[c] \/ In(x, k[c - 1])
          BY <4>1, <3>2, AppendIn
        <4>3. Members(c)
          BY <4>2, <3>1, <3>2, <3>5
        <4>4. ASSUME Distinct(s) PROVE Distinct(k[c])
          <5>1. ~In(s[c], k[c - 1])
            <6>1. \A i \in 1..(c - 1) : s[i] # s[c]
              BY <3>1, <4>4 DEF Distinct
            <6>. QED
              BY <3>2, <6>1
          <5>. QED
            BY <4>1, <4>4, <3>2, <5>1, AppendIn
        <4>. QED
          BY <2>2, <4>3, <4>4
      <3>. QED
        BY <3>4, <3>5
    <2>. QED
      BY <2>3, <2>4
  <1>3. Members(Len(s)) /\ Once(Len(s))
    <2>1. Len(s) \in 0..Len(s)
      OBVIOUS
    <2>. QED
      BY <2>1, <1>2
  <1>. QED
    BY <1>1, <1>3 DEF In

\* It is s if none of D is there.
LEMMA WithoutNone ==
  ASSUME NEW S, NEW s \in Seq(S), NEW D, \A i \in 1..Len(s) : s[i] \notin D
  PROVE  Without(s, D) = s
  <1>1. PICK k \in [0..Len(s) -> Seq(S)] : Partial(s, D, k, Len(s)) /\ Without(s, D) = k[Len(s)]
    BY WithoutPartial
  <1>. DEFINE Same(n) == k[n] = SubSeq(s, 1, n)
              T == {n \in 0..Len(s) : ~Same(n)}
  <1>2. ASSUME T # {} PROVE FALSE
    <2>1. PICK c \in T : \A d \in T : c <= d
      <3>1. T \in SUBSET Nat
        OBVIOUS
      <3>. HIDE DEF T
      <3>. QED
        BY <3>1, <1>2, Least
    <2>2. c \in 0..Len(s) /\ ~Same(c)
      OBVIOUS
    <2>3. CASE c = 0
      <3>1. k[c] = <<>> /\ SubSeq(s, 1, c) = <<>>
        BY <1>1, <2>3 DEF Partial
      <3>. QED
        BY <2>2, <3>1
    <2>4. CASE c # 0
      <3>1. c \in 1..Len(s) /\ c - 1 \in 0..Len(s) /\ c - 1 \notin T
        <4>. HIDE DEF T
        <4>1. c - 1 \in T => c <= c - 1
          BY <2>1
        <4>. QED
          BY <4>1, <2>2, <2>4
      <3>2. k[c - 1] = SubSeq(s, 1, c - 1)
        BY <3>1
      <3>3. k[c] = Append(k[c - 1], s[c])
        <4>1. s[c] \notin D
          BY <3>1
        <4>2. c \in 0..Len(s) /\ Partial(s, D, k, Len(s))
          BY <1>1, <3>1
        <4>3. k[c] = IF c = 0 THEN <<>> ELSE IF s[c] \in D THEN k[c - 1] ELSE Append(k[c - 1], s[c])
          BY <4>2, Zenon DEF Partial
        <4>. QED
          BY <2>4, <4>1, <4>3
      <3>4. Append(SubSeq(s, 1, c - 1), s[c]) = SubSeq(s, 1, c)
        BY <3>1
      <3>. QED
        BY <2>2, <3>2, <3>3, <3>4
    <2>. QED
      BY <2>3, <2>4
  <1>3. Same(Len(s))
    <2>1. Len(s) \in 0..Len(s)
      OBVIOUS
    <2>. QED
      BY <2>1, <1>2
  <1>. QED
    BY <1>1, <1>3
=============================================================================
