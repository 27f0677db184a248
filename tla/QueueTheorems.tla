---------------------------- MODULE QueueTheorems ----------------------------
(* What appending to a queue, taking its head and erasing from it do to    *)
(* its elements and to their order.                                        *)
EXTENDS Queues, SequenceTheorems, WellFoundedInduction, TLAPS

\* A set of natural numbers that is not empty has a least element.
LEMMA NatMin ==
  ASSUME NEW S \in SUBSET Nat, S # {}
  PROVE  \E x \in S : \A y \in S : x <= y
<1> DEFINE R == OpToRel(<, Nat)
<1>1. IsWellFoundedOn(R, Nat)
  BY NatLessThanWellFounded
<1>2. \A a, b \in Nat : a < b => <<a, b>> \in R
  BY DEF OpToRel
<1> HIDE DEF R
<1>3. PICK x \in S : \A y \in S : ~ (<<y, x>> \in R)
  BY <1>1, WFMin
<1>4. ASSUME NEW y \in S PROVE x <= y
  <2>1. x \in Nat /\ y \in Nat
    OBVIOUS
  <2>2. ~ (<<y, x>> \in R)
    BY <1>3
  <2>3. y < x => <<y, x>> \in R
    BY <1>2, <2>1
  <2> QED
    BY <2>1, <2>2, <2>3
<1> QED
  BY <1>4

\* The elements of an empty queue, of one with a thread more, and of one that
\* has lost its first thread.
LEMMA EmptyQueue ==
  ASSUME NEW S, NEW q \in Seq(S)
  PROVE  /\ <<>> \in Seq(S) /\ ToSet(<<>>) = {} /\ IsInjective(<<>>)
         /\ ToSet(q) \in SUBSET S
         /\ ToSet(q) = {} <=> q = <<>>
<1>1. q \in [1..Len(q) -> S] /\ Len(q) \in Nat
  BY LenProperties
<1>2. DOMAIN <<>> = {} /\ <<>> \in Seq(S)
  BY EmptySeq, LenProperties
<1>3. q # <<>> => 1 \in DOMAIN q
  BY <1>1, EmptySeq
<1> QED
  BY <1>1, <1>2, <1>3 DEF ToSet, IsInjective

LEMMA AppendQueue ==
  ASSUME NEW S, NEW q \in Seq(S), NEW x \in S
  PROVE  /\ Append(q, x) \in Seq(S) /\ Append(q, x) # <<>>
         /\ ToSet(Append(q, x)) = ToSet(q) \cup {x}
         /\ IsInjective(q) /\ x \notin ToSet(q) => IsInjective(Append(q, x))
<1> DEFINE r == Append(q, x)
<1>1. /\ r \in Seq(S) /\ Len(q) \in Nat /\ Len(r) = Len(q) + 1
      /\ \A i \in 1..Len(q) : r[i] = q[i]
      /\ r[Len(q) + 1] = x
      /\ DOMAIN q = 1..Len(q) /\ DOMAIN r = 1..Len(r)
  BY AppendProperties, LenProperties
<1> HIDE DEF r
<1>2. r # <<>>
  BY <1>1, EmptySeq
<1>3. ToSet(r) = ToSet(q) \cup {x}
  <2>1. \A i \in 1..Len(r) : r[i] \in ToSet(q) \cup {x}
    BY <1>1 DEF ToSet
  <2>2. \A i \in 1..Len(q) : q[i] \in ToSet(r)
    BY <1>1 DEF ToSet
  <2>3. x \in ToSet(r)
    BY <1>1 DEF ToSet
  <2> QED
    BY <1>1, <2>1, <2>2, <2>3 DEF ToSet
<1>4. ASSUME IsInjective(q), x \notin ToSet(q) PROVE IsInjective(r)
  <2>1. \A i \in 1..Len(q) : q[i] # x
    BY <1>1, <1>4 DEF ToSet
  <2>2. \A i, j \in 1..Len(q) : q[i] = q[j] => i = j
    BY <1>1, <1>4 DEF IsInjective
  <2> QED
    BY <1>1, <2>1, <2>2 DEF IsInjective
<1> QED
  BY <1>1, <1>2, <1>3, <1>4 DEF r

LEMMA TailQueue ==
  ASSUME NEW S, NEW q \in Seq(S), q # <<>>
  PROVE  /\ Tail(q) \in Seq(S) /\ Head(q) \in ToSet(q)
         /\ ToSet(q) = ToSet(Tail(q)) \cup {Head(q)}
         /\ IsInjective(q) => IsInjective(Tail(q)) /\ Head(q) \notin ToSet(Tail(q))
<1> DEFINE r == Tail(q)
<1>1. /\ r \in Seq(S) /\ Len(q) \in Nat \ {0} /\ Len(r) = Len(q) - 1
      /\ \A i \in 1..Len(r) : r[i] = q[i + 1]
      /\ Head(q) = q[1]
      /\ DOMAIN q = 1..Len(q) /\ DOMAIN r = 1..Len(r)
  BY HeadTailProperties, LenProperties, EmptySeq
<1> HIDE DEF r
<1>2. Head(q) \in ToSet(q)
  BY <1>1 DEF ToSet
<1>3. ToSet(q) = ToSet(r) \cup {Head(q)}
  <2>1. \A i \in 1..Len(r) : r[i] \in ToSet(q)
    BY <1>1 DEF ToSet
  <2>2. ASSUME NEW i \in 1..Len(q), i # 1 PROVE q[i] \in ToSet(r)
    <3>1. i - 1 \in 1..Len(r) /\ (i - 1) + 1 = i
      BY <1>1, <2>2
    <3>2. r[i - 1] = q[i]
      BY <1>1, <3>1
    <3> QED
      BY <1>1, <3>1, <3>2 DEF ToSet
  <2>3. ToSet(r) \subseteq ToSet(q)
    BY <1>1, <2>1 DEF ToSet
  <2>4. \A x \in ToSet(q) : x \in ToSet(r) \/ x = Head(q)
    <3> SUFFICES ASSUME NEW x \in ToSet(q) PROVE x \in ToSet(r) \/ x = Head(q)
      OBVIOUS
    <3>1. PICK i \in 1..Len(q) : x = q[i]
      BY <1>1 DEF ToSet
    <3>2. CASE i = 1
      BY <1>1, <3>1, <3>2
    <3>3. CASE i # 1
      BY <2>2, <3>1, <3>3
    <3> QED
      BY <3>2, <3>3
  <2> QED
    BY <1>2, <2>3, <2>4
<1>4. ASSUME IsInjective(q) PROVE IsInjective(r) /\ Head(q) \notin ToSet(r)
  <2>1. \A i, j \in 1..Len(q) : q[i] = q[j] => i = j
    BY <1>1, <1>4 DEF IsInjective
  <2>2. \A i \in 1..Len(r) : i + 1 \in 1..Len(q) /\ i + 1 # 1
    BY <1>1
  <2>3. IsInjective(r)
    BY <1>1, <2>1, <2>2 DEF IsInjective
  <2> QED
    BY <1>1, <2>1, <2>2, <2>3 DEF ToSet
<1> QED
  BY <1>1, <1>2, <1>3, <1>4 DEF r

(* x comes before y in q.                                                  *)
Precedes(q, x, y) == \E i, j \in DOMAIN q : i < j /\ q[i] = x /\ q[j] = y

\* Appending puts the new element after the others; the others, and those
\* that remain when the head leaves, keep their order.
LEMMA AppendOrder ==
  ASSUME NEW S, NEW q \in Seq(S), NEW z \in S, NEW x, NEW y,
         Precedes(Append(q, z), x, y)
  PROVE  Precedes(q, x, y) \/ (x \in ToSet(q) /\ y = z)
<1> DEFINE r == Append(q, z)
<1>1. /\ Len(q) \in Nat /\ Len(r) = Len(q) + 1
      /\ \A i \in 1..Len(q) : r[i] = q[i]
      /\ r[Len(q) + 1] = z
      /\ DOMAIN q = 1..Len(q) /\ DOMAIN r = 1..Len(r)
  BY AppendProperties, LenProperties
<1>2. PICK i, j \in DOMAIN r : i < j /\ r[i] = x /\ r[j] = y
  BY DEF Precedes
<1> HIDE DEF r
<1>3. i \in 1..Len(q) /\ q[i] = x
  BY <1>1, <1>2
<1>4. CASE j = Len(q) + 1
  BY <1>1, <1>2, <1>3, <1>4 DEF ToSet
<1>5. CASE j # Len(q) + 1
  <2>1. j \in 1..Len(q) /\ q[j] = y
    BY <1>1, <1>2, <1>5
  <2> QED
    BY <1>1, <1>2, <1>3, <2>1 DEF Precedes
<1> QED
  BY <1>4, <1>5

LEMMA TailOrder ==
  ASSUME NEW S, NEW q \in Seq(S), q # <<>>, NEW x, NEW y,
         Precedes(Tail(q), x, y)
  PROVE  Precedes(q, x, y)
<1> DEFINE r == Tail(q)
<1>1. /\ Len(q) \in Nat \ {0} /\ Len(r) = Len(q) - 1
      /\ \A i \in 1..Len(r) : r[i] = q[i + 1]
      /\ DOMAIN q = 1..Len(q) /\ DOMAIN r = 1..Len(r)
  BY HeadTailProperties, LenProperties, EmptySeq
<1>2. PICK i, j \in DOMAIN r : i < j /\ r[i] = x /\ r[j] = y
  BY DEF Precedes
<1> HIDE DEF r
<1>3. i + 1 \in DOMAIN q /\ j + 1 \in DOMAIN q /\ i + 1 < j + 1
  BY <1>1, <1>2
<1>4. q[i + 1] = x /\ q[j + 1] = y
  BY <1>1, <1>2
<1> QED
  BY <1>3, <1>4 DEF Precedes

(* What Erased has kept of the first i elements: the recursion defines a   *)
(* function on 0..Len(q).                                                  *)
Keeping(q, T, f, i) ==
    IF i = 0 THEN <<>>
    ELSE IF q[i] \in T THEN f[i - 1] ELSE Append(f[i - 1], q[i])
KeepsTo(q, T, n, f) == f = [i \in 0..n |-> Keeping(q, T, f, i)]

LEMMA KeepsExists ==
  ASSUME NEW q, NEW T, NEW n \in Nat
  PROVE  \E f : KeepsTo(q, T, n, f)
<1> DEFINE Bad == {k \in Nat : ~ \E f : KeepsTo(q, T, k, f)}
<1>1. SUFFICES ASSUME Bad # {} PROVE FALSE
  OBVIOUS
<1>2. PICK k \in Bad : \A j \in Bad : k <= j
  BY <1>1, NatMin
<1>3. CASE k = 0
  <2> DEFINE f == [i \in 0..0 |-> <<>>]
  <2>1. KeepsTo(q, T, 0, f)
    BY DEF KeepsTo, Keeping
  <2> QED
    BY <1>3, <2>1
<1>4. CASE k # 0
  <2>1. k - 1 \in Nat /\ k - 1 \notin Bad
    BY <1>2, <1>4
  <2>2. PICK f : KeepsTo(q, T, k - 1, f)
    BY <2>1
  <2> DEFINE g == [i \in 0..k |-> IF i = k THEN Keeping(q, T, f, k) ELSE f[i]]
  <2>3. ASSUME NEW i \in 0..k - 1 PROVE g[i] = f[i] /\ f[i] = Keeping(q, T, f, i)
    <3>1. i \in 0..k /\ i # k
      BY <2>1
    <3>2. f = [j \in 0..k - 1 |-> Keeping(q, T, f, j)]
      BY <2>2 DEF KeepsTo
    <3>3. f[i] = Keeping(q, T, f, i)
      BY <3>2
    <3> QED
      BY <3>1, <3>3
  <2>4. g[k] = Keeping(q, T, f, k)
    BY <2>1
  <2>5. ASSUME NEW i \in 0..k PROVE g[i] = Keeping(q, T, g, i)
    <3> HIDE DEF g
    <3>1. Keeping(q, T, g, i) = Keeping(q, T, f, i)
      <4>1. CASE i = 0
        BY <4>1 DEF Keeping
      <4>2. CASE i # 0
        <5>1. i - 1 \in 0..k - 1
          BY <2>1, <4>2
        <5>2. g[i - 1] = f[i - 1]
          BY <2>3, <5>1
        <5> QED
          BY <5>2 DEF Keeping
      <4> QED
        BY <4>1, <4>2
    <3>2. CASE i = k
      BY <2>4, <3>1, <3>2
    <3>3. CASE i # k
      BY <2>1, <2>3, <3>1, <3>3
    <3> QED
      BY <3>2, <3>3
  <2>6. KeepsTo(q, T, k, g)
    BY <2>5 DEF KeepsTo
  <2> QED
    BY <2>6
<1> QED
  BY <1>3, <1>4

\* Erased keeps the elements that are not in T, no element twice, and their
\* order.
LEMMA ErasedIs ==
  ASSUME NEW S, NEW q \in Seq(S), NEW T
  PROVE  /\ Erased(q, T) \in Seq(S)
         /\ ToSet(Erased(q, T)) = ToSet(q) \ T
         /\ IsInjective(q) => IsInjective(Erased(q, T))
         /\ \A x, y : Precedes(Erased(q, T), x, y) => Precedes(q, x, y)
<1> DEFINE f == CHOOSE g : KeepsTo(q, T, Len(q), g)
           First(i) == {q[j] : j \in 1..i}
           Within(i, x, y) == \E j, k \in 1..i : j < k /\ q[j] = x /\ q[k] = y
           Good(i) == /\ f[i] \in Seq(S)
                      /\ ToSet(f[i]) = First(i) \ T
                      /\ IsInjective(q) => IsInjective(f[i])
                      /\ \A x, y : Precedes(f[i], x, y) => Within(i, x, y)
<1>1. Len(q) \in Nat /\ q \in [1..Len(q) -> S]
  BY LenProperties
<1>2. Erased(q, T) = f[Len(q)]
  BY DEF Erased, KeepsTo, Keeping
<1>3. KeepsTo(q, T, Len(q), f)
  BY <1>1, KeepsExists
<1> HIDE DEF f
<1>4. \A i \in 0..Len(q) : f[i] = Keeping(q, T, f, i)
  BY <1>3 DEF KeepsTo
<1> DEFINE Bad == {i \in 0..Len(q) : ~ Good(i)}
<1>5. Bad = {}
  <2>1. SUFFICES ASSUME Bad # {} PROVE FALSE
    OBVIOUS
  <2>2. Bad \in SUBSET Nat
    BY <1>1
  <2>3. PICK i \in Bad : \A j \in Bad : i <= j
    BY <2>1, <2>2, NatMin
  <2>4. i \in 0..Len(q) /\ ~ Good(i)
    BY <2>3
  <2>5. CASE i = 0
    <3>1. f[0] = <<>> /\ First(0) = {}
      BY <1>4, <2>4, <2>5 DEF Keeping
    <3>2. \A x, y : ~ Precedes(<<>>, x, y)
      BY DEF Precedes
    <3> QED
      BY <2>4, <2>5, <3>1, <3>2, EmptyQueue
  <2>6. CASE i # 0
    <3>1. i - 1 \in 0..Len(q) /\ i \in 1..Len(q) /\ ~ (i <= i - 1)
      BY <1>1, <2>4, <2>6
    <3>2. Good(i - 1)
      <4> HIDE DEF Good
      <4>1. i - 1 \notin Bad
        BY <2>3, <3>1
      <4> QED
        BY <3>1, <4>1
    <3>3. First(i) = First(i - 1) \cup {q[i]}
      BY <1>1, <3>1
    <3>4. q[i] \in S /\ (IsInjective(q) => q[i] \notin First(i - 1))
      BY <1>1, <3>1 DEF IsInjective
    <3>5. f[i] = IF q[i] \in T THEN f[i - 1] ELSE Append(f[i - 1], q[i])
      BY <1>4, <2>4, <2>6 DEF Keeping
    <3>8. \A x, y : Within(i - 1, x, y) => Within(i, x, y)
      BY <1>1, <3>1
    <3>9. \A x : x \in First(i - 1) => Within(i, x, q[i])
      BY <1>1, <3>1
    <3> HIDE DEF First, Within
    <3>6. CASE q[i] \in T
      BY <2>4, <3>2, <3>3, <3>5, <3>6, <3>8
    <3>7. CASE q[i] \notin T
      <4>1. /\ Append(f[i - 1], q[i]) \in Seq(S)
            /\ ToSet(Append(f[i - 1], q[i])) = ToSet(f[i - 1]) \cup {q[i]}
            /\ IsInjective(f[i - 1]) /\ q[i] \notin ToSet(f[i - 1]) => IsInjective(Append(f[i - 1], q[i]))
        BY <3>2, <3>4, AppendQueue
      <4>2. ASSUME NEW x, NEW y, Precedes(f[i], x, y) PROVE Within(i, x, y)
        <5>1. Precedes(f[i - 1], x, y) \/ (x \in ToSet(f[i - 1]) /\ y = q[i])
          BY <3>2, <3>4, <3>5, <3>7, <4>2, AppendOrder
        <5> QED
          BY <3>2, <3>8, <3>9, <5>1
      <4>3. f[i] = Append(f[i - 1], q[i])
        BY <3>5, <3>7
      <4> QED
        BY <2>4, <3>2, <3>3, <3>4, <3>7, <4>1, <4>2, <4>3
    <3> QED
      BY <3>6, <3>7
  <2> QED
    BY <2>5, <2>6
<1>6. Good(Len(q))
  <2> HIDE DEF Good
  <2>1. Len(q) \in 0..Len(q)
    BY <1>1
  <2> QED
    BY <1>5, <2>1
<1>7. First(Len(q)) = ToSet(q)
  BY <1>1 DEF ToSet
<1>8. \A x, y : Within(Len(q), x, y) => Precedes(q, x, y)
  BY <1>1 DEF Precedes
<1> HIDE DEF First, Within
<1> QED
  BY <1>2, <1>6, <1>7, <1>8

=============================================================================
