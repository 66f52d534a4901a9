----------------------------- MODULE Data_proof -----------------------------
(***************************************************************************)
(* Lemmas about the data of the modules, for the proofs about them: queues *)
(* (sequences that grow at the end and shrink at the front) and sums.      *)
(*                                                                         *)
(* The fold FoldFunctionOnSet(+, 0, f, S) is a recursive function that     *)
(* takes the members of S in the order CHOOSE gives them.  It is shown to  *)
(* exist, to be unique, and to have the same value whatever member is      *)
(* taken out first.  Every induction is over the set of the numbers for    *)
(* which the claim holds.                                                  *)
(***************************************************************************)
EXTENDS Integers, Sequences, FiniteSets, Functions, FiniteSetTheorems, WellFoundedInduction, TLAPS

-----------------------------------------------------------------------------
(* Queues                                                                   *)

\* What there is in a sequence with one more, or without the first.
LEMMA AppendedElements ==
  ASSUME NEW S, NEW s \in Seq(S), NEW e \in S
  PROVE  /\ \A i \in DOMAIN s : i \in DOMAIN Append(s, e) /\ Append(s, e)[i] = s[i]
         /\ Len(s) + 1 \in DOMAIN Append(s, e) /\ Append(s, e)[Len(s) + 1] = e
         /\ \A i \in DOMAIN Append(s, e) : i \in DOMAIN s \/ i = Len(s) + 1
OBVIOUS

LEMMA TailElements ==
  ASSUME NEW S, NEW s \in Seq(S), s # <<>>
  PROVE  /\ 1 \in DOMAIN s /\ s[1] = Head(s)
         /\ \A i \in DOMAIN Tail(s) : i + 1 \in DOMAIN s /\ Tail(s)[i] = s[i + 1]
         /\ \A i \in DOMAIN s : i # 1 => i - 1 \in DOMAIN Tail(s) /\ Tail(s)[i - 1] = s[i]
OBVIOUS

Once(q)  == \A i, k \in DOMAIN q : q[i] = q[k] => i = k
In(x, q) == \E i \in DOMAIN q : q[i] = x

\* A queue that holds nobody twice, with one more who is not in it, ...
LEMMA Appended ==
  ASSUME NEW S, NEW q \in Seq(S), NEW x \in S
  PROVE  /\ Append(q, x) # <<>> /\ Append(q, x) \in Seq(S) /\ Len(Append(q, x)) = Len(q) + 1
         /\ \A y : In(y, Append(q, x)) <=> In(y, q) \/ y = x
         /\ Once(q) /\ ~In(x, q) => Once(Append(q, x))
         /\ q # <<>> => Head(Append(q, x)) = Head(q)
         /\ q = <<>> => Head(Append(q, x)) = x
<1>1. /\ DOMAIN Append(q, x) = DOMAIN q \cup {Len(q) + 1} /\ Len(q) + 1 \notin DOMAIN q
      /\ \A i \in DOMAIN q : Append(q, x)[i] = q[i]
      /\ Append(q, x)[Len(q) + 1] = x
  OBVIOUS
<1>2. \A y : In(y, Append(q, x)) <=> In(y, q) \/ y = x
  BY <1>1 DEF In
<1>3. Once(q) /\ ~In(x, q) => Once(Append(q, x))
  BY <1>1 DEF In, Once
<1>4. q # <<>> => Head(Append(q, x)) = Head(q)
  OBVIOUS
<1> QED
  BY <1>2, <1>3, <1>4

\* ... or without its head.
LEMMA Removed ==
  ASSUME NEW S, NEW q \in Seq(S), q # <<>>, Once(q)
  PROVE  /\ Head(q) \in S /\ In(Head(q), q)
         /\ Once(Tail(q))
         /\ \A y : In(y, Tail(q)) <=> In(y, q) /\ y # Head(q)
<1>1. /\ 1 \in DOMAIN q /\ Head(q) = q[1] /\ Head(q) \in S
      /\ \A i \in DOMAIN Tail(q) :
           i \in Int /\ i # 0 /\ i + 1 \in DOMAIN q /\ Tail(q)[i] = q[i + 1]
      /\ \A i \in DOMAIN q :
           i = 1 \/ (i \in Int /\ i - 1 \in DOMAIN Tail(q) /\ Tail(q)[i - 1] = q[i])
  OBVIOUS
<1>2. Once(Tail(q))
  BY <1>1 DEF Once
<1>3. ASSUME NEW y, In(y, Tail(q)) PROVE In(y, q) /\ y # Head(q)
  BY <1>1, <1>3 DEF In, Once
<1>4. ASSUME NEW y, In(y, q), y # Head(q) PROVE In(y, Tail(q))
  BY <1>1, <1>4 DEF In
<1> QED
  BY <1>1, <1>2, <1>3, <1>4 DEF In

\* What there is in two sequences, one after the other, ...
LEMMA Joined ==
  ASSUME NEW S, NEW s \in Seq(S), NEW t \in Seq(S)
  PROVE  /\ s \o t \in Seq(S) /\ Len(s \o t) = Len(s) + Len(t)
         /\ \A x : In(x, s \o t) <=> In(x, s) \/ In(x, t)
<1>1. s \o t \in Seq(S) /\ Len(s \o t) = Len(s) + Len(t)
  OBVIOUS
<1>2. \A i \in DOMAIN s : i \in DOMAIN (s \o t) /\ (s \o t)[i] = s[i]
  OBVIOUS
<1>3. \A i \in DOMAIN t : i + Len(s) \in DOMAIN (s \o t) /\ (s \o t)[i + Len(s)] = t[i]
  OBVIOUS
<1>4. \A i \in DOMAIN (s \o t) :
        i \in DOMAIN s \/ (i - Len(s) \in DOMAIN t /\ (s \o t)[i] = t[i - Len(s)])
  OBVIOUS
<1> QED
  BY <1>1, <1>2, <1>3, <1>4 DEF In

\* ... and in one without its head.
LEMMA Beheaded ==
  ASSUME NEW S, NEW s \in Seq(S), s # <<>>
  PROVE  /\ Head(s) \in S /\ Tail(s) \in Seq(S) /\ Len(s) = Len(Tail(s)) + 1
         /\ \A x : In(x, s) <=> x = Head(s) \/ In(x, Tail(s))
<1>1. /\ Head(s) \in S /\ Tail(s) \in Seq(S) /\ Len(s) = Len(Tail(s)) + 1
      /\ 1 \in DOMAIN s /\ s[1] = Head(s)
      /\ \A i \in DOMAIN Tail(s) : i + 1 \in DOMAIN s /\ Tail(s)[i] = s[i + 1]
      /\ \A i \in DOMAIN s :
           i = 1 \/ (i \in Int /\ i - 1 \in DOMAIN Tail(s) /\ Tail(s)[i - 1] = s[i])
  OBVIOUS
<1> QED
  BY <1>1 DEF In

\* What is passed from the head of one to the end of the one before it stays
\* where it is.
LEMMA PassedOn ==
  ASSUME NEW S, NEW s \in Seq(S), NEW t \in Seq(S), t # <<>>
  PROVE  Append(s, Head(t)) \o Tail(t) = s \o t
OBVIOUS

LEMMA JoinedAppend ==
  ASSUME NEW S, NEW s \in Seq(S), NEW t \in Seq(S), NEW x \in S
  PROVE  s \o Append(t, x) = Append(s \o t, x)
OBVIOUS

-----------------------------------------------------------------------------
(* Sums over sets                                                           *)

Sum(f, S) == FoldFunctionOnSet(+, 0, f, S)

\* The member that the fold takes out of s.
Pick(s) == CHOOSE x \in s : TRUE

\* g is the recursive function by which the fold is defined.
IsSumOn(f, S, g) ==
  g = [s \in SUBSET S |-> IF s = {} THEN 0 ELSE f[Pick(s)] + g[s \ {Pick(s)}]]

\* g is right for the sets of at most n members.
IsSumUpTo(f, S, n, g) ==
  /\ g \in [SUBSET S -> Nat]
  /\ \A s \in SUBSET S : Cardinality(s) <= n =>
       g[s] = IF s = {} THEN 0 ELSE f[Pick(s)] + g[s \ {Pick(s)}]

-----------------------------------------------------------------------------
\* Induction over the natural numbers, for a set of them: a number outside the
\* set would have a least one before it.
LEMMA InductionOnNat ==
  ASSUME NEW S, 0 \in S, \A n \in Nat : n \in S => n + 1 \in S
  PROVE  Nat \subseteq S
<1> DEFINE R == OpToRel(<, Nat)
           Bad == Nat \ S
<1>1. \A x, y \in Nat : x < y => <<x, y>> \in R
  BY DEF OpToRel
<1>2. IsWellFoundedOn(R, Nat)
  BY NatLessThanWellFounded
<1> HIDE DEF R
<1>3. CASE Bad = {}
  BY <1>3
<1>4. CASE Bad # {}
  <2>1. PICK x \in Bad : \A y \in Bad : ~(<<y, x>> \in R)
    BY <1>2, <1>4, WFMin
  <2>2. x \in Nat /\ x # 0 /\ x - 1 \in Nat /\ x - 1 < x
    OBVIOUS
  <2>3. <<x - 1, x>> \in R
    BY <1>1, <2>2
  <2>4. x - 1 \in Nat /\ x - 1 \in S
    BY <2>1, <2>2, <2>3
  <2>5. (x - 1) + 1 \in S
    BY <2>4
  <2>6. x = (x - 1) + 1
    BY <2>4
  <2> QED
    BY <2>1, <2>5, <2>6, Zenon
<1> QED
  BY <1>3, <1>4

\* The fold is the value of its recursive function at the whole set.
LEMMA SumDef == ASSUME NEW f, NEW S PROVE Sum(f, S) = (CHOOSE g : IsSumOn(f, S, g))[S]
BY DEF Sum, FoldFunctionOnSet, MapThenFoldSet, IsSumOn, Pick

\* The fold takes a member.
LEMMA PickIn == ASSUME NEW S, S # {} PROVE Pick(S) \in S
BY DEF Pick

\* What is left is one member smaller.
LEMMA PickLess ==
  ASSUME NEW S, IsFiniteSet(S), S # {}
  PROVE  /\ IsFiniteSet(S \ {Pick(S)}) /\ Cardinality(S) \in Nat
         /\ Cardinality(S \ {Pick(S)}) = Cardinality(S) - 1
BY PickIn, FS_RemoveElement, FS_CardinalityType

\* Such a function exists for every bound on the number of members: the next
\* one differs only at the sets that have just been admitted.
LEMMA SumUpToExists ==
  ASSUME NEW D, NEW f \in [D -> Nat], NEW S \in SUBSET D, IsFiniteSet(S)
  PROVE  \A n \in Nat : \E g : IsSumUpTo(f, S, n, g)
<1> DEFINE T == {n \in Nat : \E g : IsSumUpTo(f, S, n, g)}
<1>0. \A s \in SUBSET S : IsFiniteSet(s) /\ Cardinality(s) \in Nat
  BY FS_Subset, FS_CardinalityType
<1>1. 0 \in T
  <2> DEFINE g == [s \in SUBSET S |-> 0]
  <2>1. \A s \in SUBSET S : Cardinality(s) <= 0 => s = {}
    BY <1>0, FS_EmptySet
  <2>2. IsSumUpTo(f, S, 0, g)
    BY <2>1 DEF IsSumUpTo
  <2> QED
    BY <2>2
<1>2. ASSUME NEW n \in Nat, n \in T PROVE n + 1 \in T
  <2>1. PICK h : IsSumUpTo(f, S, n, h)
    BY <1>2
  <2> DEFINE g == [s \in SUBSET S |->
        IF Cardinality(s) = n + 1 THEN f[Pick(s)] + h[s \ {Pick(s)}] ELSE h[s]]
  <2>2. \A s \in SUBSET S : Cardinality(s) = n + 1 =>
            s # {} /\ Pick(s) \in s /\ Cardinality(s \ {Pick(s)}) = n
    BY <1>0, PickIn, PickLess, FS_EmptySet
  <2>3. g \in [SUBSET S -> Nat]
    BY <2>1, <2>2 DEF IsSumUpTo
  <2>4. ASSUME NEW s \in SUBSET S, Cardinality(s) <= n + 1
        PROVE  g[s] = IF s = {} THEN 0 ELSE f[Pick(s)] + g[s \ {Pick(s)}]
    <3>1. CASE Cardinality(s) = n + 1
      <4>1. s \ {Pick(s)} \in SUBSET S /\ Cardinality(s \ {Pick(s)}) = n
        BY <2>2, <3>1
      <4>2. g[s \ {Pick(s)}] = h[s \ {Pick(s)}]
        BY <4>1
      <4> QED
        BY <4>2, <3>1, <2>2
    <3>2. CASE s = {}
      <4>1. Cardinality(s) = 0
        BY <3>2, FS_EmptySet
      <4> QED
        BY <4>1, <3>2, <2>1 DEF IsSumUpTo
    <3>3. CASE Cardinality(s) # n + 1 /\ s # {}
      <4>1. Cardinality(s) <= n /\ Cardinality(s) \in Nat
        BY <3>3, <2>4, <1>0
      <4>2. s \ {Pick(s)} \in SUBSET S /\ Cardinality(s \ {Pick(s)}) = Cardinality(s) - 1
        BY <3>3, <1>0, PickLess
      <4>3. g[s \ {Pick(s)}] = h[s \ {Pick(s)}] /\ g[s] = h[s]
        BY <4>1, <4>2
      <4> QED
        BY <4>1, <4>3, <3>3, <2>1 DEF IsSumUpTo
    <3> QED
      BY <3>1, <3>2, <3>3
  <2>5. IsSumUpTo(f, S, n + 1, g)
    BY <2>3, <2>4 DEF IsSumUpTo
  <2> QED
    BY <2>5
<1> HIDE DEF T
<1>3. Nat \subseteq T
  BY <1>1, <1>2, InductionOnNat
<1> QED
  BY <1>3 DEF T

\* The recursive function of the fold exists.
LEMMA SumExists ==
  ASSUME NEW D, NEW f \in [D -> Nat], NEW S \in SUBSET D, IsFiniteSet(S)
  PROVE  \E g : IsSumOn(f, S, g)
<1>1. Cardinality(S) \in Nat /\ \A s \in SUBSET S : Cardinality(s) <= Cardinality(S)
  BY FS_Subset, FS_CardinalityType
<1>2. PICK g : IsSumUpTo(f, S, Cardinality(S), g)
  BY <1>1, SumUpToExists
<1>3. IsSumOn(f, S, g)
  BY <1>1, <1>2 DEF IsSumUpTo, IsSumOn
<1> QED
  BY <1>3

\* It is unique: those of a set and of a subset agree.
LEMMA SumIsUnique ==
  ASSUME NEW f, NEW S, IsFiniteSet(S), NEW T \in SUBSET S, NEW g, NEW h,
         IsSumOn(f, S, g), IsSumOn(f, T, h)
  PROVE  \A s \in SUBSET T : g[s] = h[s]
<1> DEFINE N == {n \in Nat : \A s \in SUBSET T : Cardinality(s) = n => g[s] = h[s]}
<1>0. \A s \in SUBSET T : IsFiniteSet(s) /\ Cardinality(s) \in Nat
  BY FS_Subset, FS_CardinalityType
<1>1. \A s \in SUBSET T : g[s] = IF s = {} THEN 0 ELSE f[Pick(s)] + g[s \ {Pick(s)}]
  BY DEF IsSumOn
<1>2. \A s \in SUBSET T : h[s] = IF s = {} THEN 0 ELSE f[Pick(s)] + h[s \ {Pick(s)}]
  BY DEF IsSumOn
<1>3. 0 \in N
  BY <1>0, <1>1, <1>2, FS_EmptySet
<1>4. ASSUME NEW n \in Nat, n \in N PROVE n + 1 \in N
  <2> SUFFICES ASSUME NEW s \in SUBSET T, Cardinality(s) = n + 1 PROVE g[s] = h[s]
    OBVIOUS
  <2>1. s # {}
    BY FS_EmptySet
  <2>2. s \ {Pick(s)} \in SUBSET T /\ Cardinality(s \ {Pick(s)}) = n
    BY <1>0, <2>1, PickLess
  <2>3. g[s \ {Pick(s)}] = h[s \ {Pick(s)}]
    BY <2>2, <1>4
  <2> QED
    BY <2>1, <2>3, <1>1, <1>2
<1> HIDE DEF N
<1>5. Nat \subseteq N
  BY <1>3, <1>4, InductionOnNat
<1> QED
  BY <1>0, <1>5 DEF N

\* Nothing adds up to 0.
LEMMA SumEmpty == ASSUME NEW D, NEW f \in [D -> Nat] PROVE Sum(f, {}) = 0
<1> DEFINE g == CHOOSE h : IsSumOn(f, {}, h)
<1>1. IsSumOn(f, {}, g)
  BY SumExists, FS_EmptySet
<1>2. Sum(f, {}) = g[{}]
  BY SumDef
<1> HIDE DEF g
<1> QED
  BY <1>1, <1>2 DEF IsSumOn

\* The function for S gives the sum over every subset of S.
LEMMA SumIs ==
  ASSUME NEW D, NEW f \in [D -> Nat], NEW S \in SUBSET D, IsFiniteSet(S),
         NEW g, IsSumOn(f, S, g), NEW T \in SUBSET S
  PROVE  Sum(f, T) = g[T]
<1> DEFINE h == CHOOSE k : IsSumOn(f, T, k)
<1>1. T \in SUBSET D /\ IsFiniteSet(T)
  BY FS_Subset
<1>2. \E k : IsSumOn(f, T, k)
  BY <1>1, SumExists
<1>3. IsSumOn(f, T, h) /\ Sum(f, T) = h[T]
  BY <1>2, SumDef
<1> HIDE DEF h
<1>4. \A s \in SUBSET T : g[s] = h[s]
  BY <1>3, SumIsUnique
<1> QED
  BY <1>3, <1>4

\* The step of the fold.
LEMMA SumPick ==
  ASSUME NEW D, NEW f \in [D -> Nat], NEW S \in SUBSET D, IsFiniteSet(S), S # {}
  PROVE  Sum(f, S) = f[Pick(S)] + Sum(f, S \ {Pick(S)})
<1>1. PICK g : IsSumOn(f, S, g)
  BY SumExists
<1>2. Sum(f, S) = g[S] /\ Sum(f, S \ {Pick(S)}) = g[S \ {Pick(S)}]
  BY <1>1, SumIs
<1>3. g[S] = f[Pick(S)] + g[S \ {Pick(S)}]
  BY <1>1 DEF IsSumOn
<1> QED
  BY <1>2, <1>3

\* The sum of natural numbers is one.
LEMMA SumType ==
  ASSUME NEW D, NEW f \in [D -> Nat], NEW S \in SUBSET D, IsFiniteSet(S)
  PROVE  Sum(f, S) \in Nat
<1> DEFINE N == {n \in Nat : \A s \in SUBSET S : Cardinality(s) = n => Sum(f, s) \in Nat}
<1>0. \A s \in SUBSET S : IsFiniteSet(s) /\ Cardinality(s) \in Nat
  BY FS_Subset, FS_CardinalityType
<1>1. 0 \in N
  BY <1>0, SumEmpty, FS_EmptySet
<1>2. ASSUME NEW n \in Nat, n \in N PROVE n + 1 \in N
  <2> SUFFICES ASSUME NEW s \in SUBSET S, Cardinality(s) = n + 1 PROVE Sum(f, s) \in Nat
    OBVIOUS
  <2>1. s # {} /\ s \in SUBSET D /\ IsFiniteSet(s)
    BY <1>0, FS_EmptySet
  <2>2. s \ {Pick(s)} \in SUBSET S /\ Cardinality(s \ {Pick(s)}) = n
    BY <2>1, PickLess
  <2>3. Sum(f, s \ {Pick(s)}) \in Nat
    BY <2>2, <1>2
  <2>4. f[Pick(s)] \in Nat
    BY <2>1, PickIn
  <2> QED
    BY <2>1, <2>3, <2>4, SumPick
<1> HIDE DEF N
<1>3. Nat \subseteq N
  BY <1>1, <1>2, InductionOnNat
<1> QED
  BY <1>0, <1>3 DEF N

\* The sum does not depend on the member that is taken out first.
LEMMA SumTakeOut ==
  ASSUME NEW D, NEW f \in [D -> Nat], NEW S \in SUBSET D, IsFiniteSet(S), NEW x \in S
  PROVE  Sum(f, S) = f[x] + Sum(f, S \ {x})
<1> DEFINE N == {n \in Nat : \A s \in SUBSET S : Cardinality(s) = n =>
                   \A y \in s : Sum(f, s) = f[y] + Sum(f, s \ {y})}
<1>0. \A s \in SUBSET S : IsFiniteSet(s) /\ Cardinality(s) \in Nat
  BY FS_Subset, FS_CardinalityType
<1>1. 0 \in N
  BY <1>0, FS_EmptySet
<1>2. ASSUME NEW n \in Nat, n \in N PROVE n + 1 \in N
  <2> SUFFICES ASSUME NEW s \in SUBSET S, Cardinality(s) = n + 1, NEW y \in s
               PROVE  Sum(f, s) = f[y] + Sum(f, s \ {y})
    OBVIOUS
  <2> DEFINE c == Pick(s)
  <2>1. c \in s /\ IsFiniteSet(s) /\ s \in SUBSET D
    BY <1>0, PickIn
  <2>2. Sum(f, s) = f[c] + Sum(f, s \ {c})
    BY <2>1, SumPick
  <2> HIDE DEF c
  <2>3. CASE y = c
    BY <2>2, <2>3
  <2>4. CASE y # c
    <3>0. Cardinality(s \ {c}) = n /\ Cardinality(s \ {y}) = n
      <4>1. Cardinality(s \ {c}) = Cardinality(s) - 1 /\ Cardinality(s \ {y}) = Cardinality(s) - 1
        BY <2>1, FS_RemoveElement
      <4> QED
        BY <4>1
    <3>1. /\ s \ {c} \in SUBSET S /\ y \in s \ {c}
          /\ s \ {y} \in SUBSET S /\ c \in s \ {y}
      BY <2>1, <2>4
    <3>2. /\ Sum(f, s \ {c}) = f[y] + Sum(f, (s \ {c}) \ {y})
          /\ Sum(f, s \ {y}) = f[c] + Sum(f, (s \ {y}) \ {c})
      BY <3>0, <3>1, <1>2
    <3>3. (s \ {c}) \ {y} = (s \ {y}) \ {c}
      OBVIOUS
    <3>4. Sum(f, (s \ {c}) \ {y}) \in Nat
      <4>1. (s \ {c}) \ {y} \in SUBSET D /\ IsFiniteSet((s \ {c}) \ {y})
        BY <2>1, FS_Difference
      <4> QED
        BY <4>1, SumType
    <3>5. f[c] \in Nat /\ f[y] \in Nat
      BY <2>1
    <3>6. \A a, b, r \in Nat : a + (b + r) = b + (a + r)
      OBVIOUS
    <3>7. Sum(f, s) = f[c] + (f[y] + Sum(f, (s \ {c}) \ {y}))
      BY <2>2, <3>2
    <3>8. Sum(f, s \ {y}) = f[c] + Sum(f, (s \ {c}) \ {y})
      BY <3>2, <3>3
    <3> QED
      BY <3>4, <3>5, <3>6, <3>7, <3>8
  <2> QED
    BY <2>3, <2>4
<1> HIDE DEF N
<1>3. Nat \subseteq N
  BY <1>1, <1>2, InductionOnNat
<1> QED
  BY <1>0, <1>3 DEF N

\* The sum over 0 .. k, as the loop that accumulates an offset computes it.
LEMMA SumInterval ==
  ASSUME NEW D, NEW f \in [D -> Nat], NEW k \in Nat, 0 .. k \in SUBSET D
  PROVE  Sum(f, 0 .. k) = f[k] + Sum(f, 0 .. (k - 1))
<1>1. k \in 0 .. k /\ (0 .. k) \ {k} = 0 .. (k - 1)
  OBVIOUS
<1>0. IsFiniteSet(0 .. k)
  BY FS_Interval
<1>2. Sum(f, 0 .. k) = f[k] + Sum(f, (0 .. k) \ {k})
  BY <1>0, <1>1, SumTakeOut
<1> QED
  BY <1>1, <1>2

\* Quotient and remainder.
LEMMA Division ==
  ASSUME NEW a \in Nat, NEW n \in Nat \ {0}
  PROVE  /\ a \div n \in Nat /\ a % n \in 0 .. (n - 1)
         /\ a = n * (a \div n) + (a % n)
OBVIOUS

\* One more time.
LEMMA MoreTimes == ASSUME NEW k \in Nat, NEW q \in Nat PROVE (k + 1) * q = k * q + q
OBVIOUS

-----------------------------------------------------------------------------
(* Sums over sequences                                                      *)

\* t gives every sequence the sum of p over its elements, from the front.
IsTotal(p, R, t) ==
  t = [s \in Seq(R) |-> IF s = <<>> THEN 0 ELSE p[Head(s)] + t[Tail(s)]]

\* t is right for the sequences of at most n elements.
IsTotalUpTo(p, R, n, t) ==
  /\ t \in [Seq(R) -> Nat]
  /\ \A s \in Seq(R) : Len(s) <= n =>
       t[s] = IF s = <<>> THEN 0 ELSE p[Head(s)] + t[Tail(s)]

\* What is left without the first is one element shorter.
LEMMA TailLess ==
  ASSUME NEW R, NEW s \in Seq(R), s # <<>>
  PROVE  /\ Head(s) \in R /\ Tail(s) \in Seq(R)
         /\ Len(s) \in Nat /\ Len(s) # 0 /\ Len(Tail(s)) = Len(s) - 1
OBVIOUS

\* There is one for every bound on the length: the next differs only at the
\* sequences that have just been admitted.
LEMMA TotalUpToExists ==
  ASSUME NEW R, NEW p \in [R -> Nat]
  PROVE  \A n \in Nat : \E t : IsTotalUpTo(p, R, n, t)
<1> DEFINE T == {n \in Nat : \E t : IsTotalUpTo(p, R, n, t)}
<1>0. \A s \in Seq(R) : Len(s) \in Nat /\ (Len(s) = 0 => s = <<>>)
  OBVIOUS
<1>1. 0 \in T
  <2> DEFINE t == [s \in Seq(R) |-> 0]
  <2>1. \A s \in Seq(R) : Len(s) <= 0 => s = <<>>
    BY <1>0
  <2>2. IsTotalUpTo(p, R, 0, t)
    BY <2>1 DEF IsTotalUpTo
  <2> QED
    BY <2>2
<1>2. ASSUME NEW n \in Nat, n \in T PROVE n + 1 \in T
  <2>1. PICK h : IsTotalUpTo(p, R, n, h)
    BY <1>2
  <2> DEFINE t == [s \in Seq(R) |->
                     IF Len(s) = n + 1 THEN p[Head(s)] + h[Tail(s)] ELSE h[s]]
  <2>2. \A s \in Seq(R) : Len(s) = n + 1 => s # <<>>
    OBVIOUS
  <2>3. \A s \in Seq(R) : Len(s) = n + 1 =>
          Head(s) \in R /\ Tail(s) \in Seq(R) /\ Len(Tail(s)) = n
    BY <2>2, TailLess
  <2>4. t \in [Seq(R) -> Nat]
    <3>1. \A s \in Seq(R) : h[s] \in Nat
      BY <2>1 DEF IsTotalUpTo
    <3>2. ASSUME NEW s \in Seq(R) PROVE t[s] \in Nat
      <4>1. CASE Len(s) = n + 1
        <5>1. p[Head(s)] \in Nat /\ h[Tail(s)] \in Nat
          BY <2>3, <3>1, <4>1
        <5> QED
          BY <5>1, <4>1
      <4>2. CASE Len(s) # n + 1
        BY <3>1, <4>2
      <4> QED
        BY <4>1, <4>2
    <3> QED
      BY <3>2
  <2>5. ASSUME NEW s \in Seq(R), Len(s) <= n + 1
        PROVE  t[s] = IF s = <<>> THEN 0 ELSE p[Head(s)] + t[Tail(s)]
    <3>1. CASE Len(s) = n + 1
      <4>1. Tail(s) \in Seq(R) /\ Len(Tail(s)) # n + 1
        BY <2>3, <3>1
      <4>2. t[Tail(s)] = h[Tail(s)] /\ t[s] = p[Head(s)] + h[Tail(s)]
        BY <4>1, <3>1
      <4> QED
        BY <4>2, <2>2, <3>1
    <3>2. CASE s = <<>>
      <4>1. Len(s) = 0 /\ Len(s) # n + 1 /\ Len(s) <= n
        BY <3>2
      <4>2. h[s] = 0
        BY <4>1, <3>2, <2>1 DEF IsTotalUpTo
      <4> QED
        BY <4>1, <4>2, <3>2
    <3>3. CASE Len(s) # n + 1 /\ s # <<>>
      <4>1. Len(s) <= n /\ Len(s) \in Nat
        BY <3>3, <2>5, <1>0
      <4>2. Tail(s) \in Seq(R) /\ Len(Tail(s)) # n + 1
        BY <3>3, <4>1, TailLess
      <4>3. t[Tail(s)] = h[Tail(s)] /\ t[s] = h[s]
        BY <4>2, <3>3
      <4> QED
        BY <4>1, <4>3, <3>3, <2>1 DEF IsTotalUpTo
    <3> QED
      BY <3>1, <3>2, <3>3
  <2>6. IsTotalUpTo(p, R, n + 1, t)
    BY <2>4, <2>5 DEF IsTotalUpTo
  <2> QED
    BY <2>6
<1> HIDE DEF T
<1>3. Nat \subseteq T
  BY <1>1, <1>2, InductionOnNat
<1> QED
  BY <1>3 DEF T

\* Where two are both right they agree.
LEMMA TotalIsUnique ==
  ASSUME NEW R, NEW p, NEW m \in Nat, NEW t, NEW h,
         IsTotalUpTo(p, R, m, t), IsTotalUpTo(p, R, m, h)
  PROVE  \A s \in Seq(R) : Len(s) <= m => t[s] = h[s]
<1> DEFINE N == {n \in Nat : \A s \in Seq(R) : Len(s) = n /\ n <= m => t[s] = h[s]}
<1>1. \A s \in Seq(R) : Len(s) \in Nat /\ (Len(s) = 0 => s = <<>>)
  OBVIOUS
<1>2. \A s \in Seq(R) : Len(s) <= m =>
        /\ t[s] = IF s = <<>> THEN 0 ELSE p[Head(s)] + t[Tail(s)]
        /\ h[s] = IF s = <<>> THEN 0 ELSE p[Head(s)] + h[Tail(s)]
  BY DEF IsTotalUpTo
<1>3. 0 \in N
  BY <1>1, <1>2
<1>4. ASSUME NEW n \in Nat, n \in N PROVE n + 1 \in N
  <2> SUFFICES ASSUME NEW s \in Seq(R), Len(s) = n + 1, n + 1 <= m PROVE t[s] = h[s]
    OBVIOUS
  <2>1. s # <<>> /\ n <= m
    OBVIOUS
  <2>2. Tail(s) \in Seq(R) /\ Len(Tail(s)) = n
    BY <2>1, TailLess
  <2>3. t[Tail(s)] = h[Tail(s)]
    BY <2>1, <2>2, <1>4
  <2> QED
    BY <2>1, <2>3, <1>2
<1> HIDE DEF N
<1>5. Nat \subseteq N
  BY <1>3, <1>4, InductionOnNat
<1> QED
  BY <1>1, <1>5 DEF N

\* The sum exists: each sequence takes its value from a function that is right
\* for its length.
LEMMA TotalExists ==
  ASSUME NEW R, NEW p \in [R -> Nat]
  PROVE  \E t : IsTotal(p, R, t)
<1> DEFINE h(n) == CHOOSE g : IsTotalUpTo(p, R, n, g)
           t    == [s \in Seq(R) |-> h(Len(s))[s]]
<1>1. \A n \in Nat : IsTotalUpTo(p, R, n, h(n))
  BY TotalUpToExists
<1> HIDE DEF h
<1>2. ASSUME NEW s \in Seq(R)
      PROVE  t[s] = IF s = <<>> THEN 0 ELSE p[Head(s)] + t[Tail(s)]
  <2>1. Len(s) \in Nat /\ Len(s) <= Len(s) /\ t[s] = h(Len(s))[s]
    OBVIOUS
  <2>2. IsTotalUpTo(p, R, Len(s), h(Len(s)))
    BY <2>1, <1>1
  <2>3. h(Len(s))[s] = IF s = <<>> THEN 0 ELSE p[Head(s)] + h(Len(s))[Tail(s)]
    BY <2>1, <2>2 DEF IsTotalUpTo
  <2>4. CASE s = <<>>
    BY <2>1, <2>3, <2>4
  <2>5. CASE s # <<>>
    <3>1. /\ Tail(s) \in Seq(R) /\ Len(Tail(s)) = Len(s) - 1
          /\ Len(s) - 1 \in Nat /\ Len(s) - 1 <= Len(s)
      BY <2>5, TailLess
    <3>2. IsTotalUpTo(p, R, Len(s) - 1, h(Len(s) - 1))
      BY <3>1, <1>1
    <3>3. IsTotalUpTo(p, R, Len(s) - 1, h(Len(s)))
      <4>1. \A k \in Seq(R) : Len(k) <= Len(s) - 1 => Len(k) <= Len(s)
        BY <3>1
      <4> QED
        BY <2>2, <4>1 DEF IsTotalUpTo
    <3>4. \A k \in Seq(R) : Len(k) <= Len(s) - 1 => h(Len(s))[k] = h(Len(s) - 1)[k]
      <4>1. PICK m \in Nat : m = Len(s) - 1
        BY <3>1
      <4>2. PICK a, b : a = h(Len(s)) /\ b = h(Len(s) - 1)
        OBVIOUS
      <4>3. IsTotalUpTo(p, R, m, a) /\ IsTotalUpTo(p, R, m, b)
        BY <3>2, <3>3, <4>1, <4>2, Zenon
      <4>4. \A k \in Seq(R) : Len(k) <= m => a[k] = b[k]
        BY <4>3, TotalIsUnique
      <4> QED
        BY <4>1, <4>2, <4>4
    <3>5. t[Tail(s)] = h(Len(s) - 1)[Tail(s)]
      BY <3>1
    <3>6. Len(Tail(s)) <= Len(s) - 1
      BY <3>1
    <3>7. h(Len(s))[Tail(s)] = h(Len(s) - 1)[Tail(s)]
      BY <3>1, <3>4, <3>6, Zenon
    <3> QED
      BY <2>1, <2>3, <2>5, <3>5, <3>7
  <2> QED
    BY <2>4, <2>5
<1>3. t = [s \in Seq(R) |-> IF s = <<>> THEN 0 ELSE p[Head(s)] + t[Tail(s)]]
  BY <1>2
<1> QED
  BY <1>3 DEF IsTotal

\* It is a natural number.
LEMMA TotalType ==
  ASSUME NEW R, NEW p \in [R -> Nat], NEW t, IsTotal(p, R, t)
  PROVE  \A s \in Seq(R) : t[s] \in Nat
<1> DEFINE N == {n \in Nat : \A s \in Seq(R) : Len(s) = n => t[s] \in Nat}
<1>1. \A s \in Seq(R) : t[s] = IF s = <<>> THEN 0 ELSE p[Head(s)] + t[Tail(s)]
  BY DEF IsTotal
<1>2. \A s \in Seq(R) : Len(s) \in Nat /\ (Len(s) = 0 => s = <<>>)
  OBVIOUS
<1>3. 0 \in N
  BY <1>1, <1>2
<1>4. ASSUME NEW n \in Nat, n \in N PROVE n + 1 \in N
  <2> SUFFICES ASSUME NEW s \in Seq(R), Len(s) = n + 1 PROVE t[s] \in Nat
    OBVIOUS
  <2>1. s # <<>>
    OBVIOUS
  <2>2. Head(s) \in R /\ Tail(s) \in Seq(R) /\ Len(Tail(s)) = n
    BY <2>1, TailLess
  <2>3. t[Tail(s)] \in Nat
    BY <2>2, <1>4
  <2> QED
    BY <2>1, <2>2, <2>3, <1>1
<1> HIDE DEF N
<1>5. Nat \subseteq N
  BY <1>3, <1>4, InductionOnNat
<1> QED
  BY <1>2, <1>5 DEF N

\* One more element at the end adds its value.
LEMMA TotalAppend ==
  ASSUME NEW R, NEW p \in [R -> Nat], NEW t, IsTotal(p, R, t), NEW e \in R
  PROVE  \A s \in Seq(R) : t[Append(s, e)] = t[s] + p[e]
<1> DEFINE N == {n \in Nat : \A s \in Seq(R) : Len(s) = n => t[Append(s, e)] = t[s] + p[e]}
<1>1. \A s \in Seq(R) : t[s] = IF s = <<>> THEN 0 ELSE p[Head(s)] + t[Tail(s)]
  BY DEF IsTotal
<1>2. \A s \in Seq(R) : Len(s) \in Nat /\ (Len(s) = 0 => s = <<>>)
  OBVIOUS
<1>3. 0 \in N
  <2> SUFFICES ASSUME NEW s \in Seq(R), s = <<>> PROVE t[Append(s, e)] = t[s] + p[e]
    BY <1>2
  <2>1. /\ Append(s, e) \in Seq(R) /\ Append(s, e) # <<>>
        /\ Head(Append(s, e)) = e /\ Tail(Append(s, e)) = <<>>
    OBVIOUS
  <2>2. t[Append(s, e)] = p[e] + t[<<>>] /\ t[<<>>] = 0 /\ t[s] = 0
    BY <2>1, <1>1
  <2> QED
    BY <2>2
<1>4. ASSUME NEW n \in Nat, n \in N PROVE n + 1 \in N
  <2> SUFFICES ASSUME NEW s \in Seq(R), Len(s) = n + 1
               PROVE  t[Append(s, e)] = t[s] + p[e]
    OBVIOUS
  <2>1. s # <<>>
    OBVIOUS
  <2>2. Head(s) \in R /\ Tail(s) \in Seq(R) /\ Len(Tail(s)) = n
    BY <2>1, TailLess
  <2>3. /\ Append(s, e) \in Seq(R) /\ Append(s, e) # <<>>
        /\ Head(Append(s, e)) = Head(s)
        /\ Tail(Append(s, e)) = Append(Tail(s), e)
    BY <2>1
  <2>4. t[Append(s, e)] = p[Head(s)] + t[Append(Tail(s), e)]
    BY <2>3, <1>1
  <2>5. t[Append(Tail(s), e)] = t[Tail(s)] + p[e]
    BY <2>2, <1>4
  <2>6. t[s] = p[Head(s)] + t[Tail(s)]
    BY <2>1, <1>1
  <2>7. t[Tail(s)] \in Nat /\ p[Head(s)] \in Nat /\ p[e] \in Nat
    BY <2>2, TotalType
  <2> QED
    BY <2>4, <2>5, <2>6, <2>7
<1> HIDE DEF N
<1>5. Nat \subseteq N
  BY <1>3, <1>4, InductionOnNat
<1> QED
  BY <1>2, <1>5 DEF N
=============================================================================
