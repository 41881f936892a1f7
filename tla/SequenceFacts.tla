---------------------------- MODULE SequenceFacts ----------------------------
(***************************************************************************)
(* What Head, Tail, Append, \o, SubSeq and RemoveFirst do to the elements  *)
(* of a sequence, by index: the form in which the proofs about the queues  *)
(* and listeners of this program use them.                                 *)
(***************************************************************************)
EXTENDS Observer, Lists, Naturals, Sequences, SequenceTheorems, FiniteSetTheorems,
        WellFoundedInduction, TLAPS

\* What Head and Tail of a nonempty sequence are.
LEMMA TailByIndex ==
    ASSUME NEW S, NEW s \in Seq(S), s # <<>>
    PROVE  /\ Len(s) \in Nat /\ Len(s) > 0
           /\ Head(s) = s[1] /\ Head(s) \in S
           /\ Tail(s) \in Seq(S)
           /\ Len(Tail(s)) = Len(s) - 1
           /\ \A i \in 1..Len(s) - 1 : Tail(s)[i] = s[i + 1]
  OBVIOUS

\* What Append does.
LEMMA AppendByIndex ==
    ASSUME NEW S, NEW s \in Seq(S), NEW x \in S
    PROVE  /\ Append(s, x) \in Seq(S)
           /\ Len(s) \in Nat
           /\ Len(Append(s, x)) = Len(s) + 1
           /\ \A i \in 1..Len(s) : Append(s, x)[i] = s[i]
           /\ Append(s, x)[Len(s) + 1] = x
           /\ Append(s, x) # <<>>
           /\ s # <<>> => Head(Append(s, x)) = Head(s)
           /\ s = <<>> => Head(Append(s, x)) = x
  <1>1. /\ Append(s, x) \in Seq(S)
        /\ Len(s) \in Nat
        /\ Len(Append(s, x)) = Len(s) + 1
        /\ \A i \in 1..Len(s) : Append(s, x)[i] = s[i]
        /\ Append(s, x)[Len(s) + 1] = x
    OBVIOUS
  <1>2. Append(s, x) # <<>>
    BY <1>1, EmptySeq
  <1>3. Head(Append(s, x)) = Append(s, x)[1]
    BY <1>1, <1>2
  <1>4. CASE s = <<>>
    BY <1>1, <1>2, <1>3, <1>4
  <1>5. CASE s # <<>>
    <2>1. Len(s) > 0 /\ Head(s) = s[1]
      BY <1>5
    <2> QED BY <1>1, <1>2, <1>3, <1>5, <2>1
  <1> QED BY <1>1, <1>2, <1>4, <1>5

\* What concatenation does.
LEMMA ConcatByIndex ==
    ASSUME NEW S, NEW s \in Seq(S), NEW t \in Seq(S)
    PROVE  /\ s \o t \in Seq(S)
           /\ Len(s) \in Nat /\ Len(t) \in Nat
           /\ Len(s \o t) = Len(s) + Len(t)
           /\ \A i \in 1..Len(s) : (s \o t)[i] = s[i]
           /\ \A i \in 1..Len(t) : (s \o t)[Len(s) + i] = t[i]
  OBVIOUS

\* A sequence of one element.
LEMMA SingletonByIndex ==
    ASSUME NEW S, NEW x \in S
    PROVE  Append(<<>>, x) = <<x>> /\ Head(<<x>>) = x /\ Tail(<<x>>) = <<>>
  <1>1. Append(<<>>, x) = <<x>> /\ Head(<<x>>) = x
    OBVIOUS
  <1>2. <<x>> \in Seq(S) /\ Len(<<x>>) = 1 /\ <<x>> # <<>>
    OBVIOUS
  <1>3. Tail(<<x>>) \in Seq(S) /\ Len(Tail(<<x>>)) = 0
    BY <1>2, TailByIndex
  <1> QED BY <1>1, <1>3, EmptySeq

\* A set of natural numbers that is not empty has a least element: the smallest
\* of the intervals up to its elements ends with it.
LEMMA LeastNatural ==
    ASSUME NEW I, I \subseteq Nat \ {0}, I # {}
    PROVE  \E n \in I : \A i \in I : n =< i
  <1> DEFINE R == StrictSubsetOrdering(Nat)
             T == {1..i : i \in I}
  <1>1. T \subseteq FiniteSubsetsOf(Nat) /\ T # {}
    <2>1. \A i \in I : IsFiniteSet(1..i) /\ 1..i \subseteq Nat
      BY FS_Interval
    <2> QED
      BY <2>1 DEF FiniteSubsetsOf
  <1>2. PICK u \in T : \A v \in T : ~ (<<v, u>> \in R)
    <2> HIDE DEF T, R
    <2>1. IsWellFoundedOn(R, FiniteSubsetsOf(Nat))
      BY FS_StrictSubsetOrderingWellFounded DEF R
    <2> QED
      BY <1>1, <2>1, WFMin
  <1>3. PICK x \in I : u = 1..x
    OBVIOUS
  <1>4. \A y \in I : x =< y
    <2> SUFFICES ASSUME NEW y \in I, y < x PROVE FALSE
      OBVIOUS
    <2>1. 1..y \subseteq 1..x /\ 1..y # 1..x
      <3>1. x \in 1..x /\ x \notin 1..y
        OBVIOUS
      <3> QED
        BY <3>1
    <2>2. 1..y \in T /\ 1..y \in SUBSET Nat /\ u \in SUBSET Nat
      BY <1>3
    <2>3. <<1..y, u>> \in R
      BY <1>3, <2>1, <2>2 DEF StrictSubsetOrdering
    <2> QED
      BY <1>2, <2>2, <2>3
  <1> QED
    BY <1>4

\* It is the one that Min chooses.
LEMMA LeastOfNaturals ==
    ASSUME NEW I, I \subseteq Nat \ {0}, I # {}
    PROVE  Min(I) \in I /\ \A i \in I : Min(I) =< i
  BY LeastNatural DEF Min

\* A set of natural numbers with a bound has a greatest one, which Max chooses:
\* it is at the least distance from the bound.
LEMMA GreatestOfNaturals ==
    ASSUME NEW n \in Nat, NEW I, I \subseteq 1..n, I # {}
    PROVE  Max(I) \in I /\ \A i \in I : i =< Max(I)
  <1> DEFINE J == {n + 1 - i : i \in I}
  <1>1. J \subseteq Nat \ {0} /\ J # {}
    <2>1. \A i \in I : n + 1 - i \in Nat \ {0}
      OBVIOUS
    <2> QED
      BY <2>1
  <1>2. PICK k \in J : \A j \in J : k =< j
    <2> HIDE DEF J
    <2> QED
      BY <1>1, LeastNatural
  <1>3. PICK m \in I : k = n + 1 - m
    OBVIOUS
  <1>4. \A i \in I : m >= i
    <2> SUFFICES ASSUME NEW i \in I PROVE m >= i
      OBVIOUS
    <2>1. k =< n + 1 - i
      BY <1>2
    <2> QED
      BY <1>3, <2>1
  <1>5. Max(I) \in I /\ \A i \in I : Max(I) >= i
    BY <1>4 DEF Max
  <1> QED
    BY <1>5

\* What is true of 0, and of each number if it is of the one before, is true up
\* to n.
LEMMA CountingUp ==
    ASSUME NEW n \in Nat, NEW I, 0 \in I, \A i \in 1..n : i - 1 \in I => i \in I
    PROVE  0..n \subseteq I
  <1> DEFINE J == {i \in 1..n : i \notin I}
  <1>1. J = {}
    <2> SUFFICES ASSUME J # {} PROVE FALSE
      OBVIOUS
    <2>1. PICK k \in J : \A i \in J : k =< i
      <3>1. J \subseteq Nat \ {0}
        OBVIOUS
      <3> HIDE DEF J
      <3> QED
        BY <3>1, LeastNatural
    <2>2. k \in 1..n /\ k \notin I
      OBVIOUS
    <2>3. k - 1 \notin I
      BY <2>2
    <2>4. k - 1 \in 1..n /\ ~ k =< k - 1
      BY <2>2, <2>3
    <2>5. k - 1 \notin J
      <3> HIDE DEF J
      <3> QED
        BY <2>1, <2>4
    <2> QED
      BY <2>3, <2>4, <2>5
  <1> QED
    BY <1>1

\* A loop over a sequence has a state before and after each of its elements.
IsLoop(f, S, step, base, xs) ==
    /\ f \in [0..Len(xs) -> S]
    /\ \A n \in 0..Len(xs) : f[n] = IF n = 0 THEN base ELSE step[<<f[n - 1], xs[n]>>]

LEMMA LoopRuns ==
    ASSUME NEW S, NEW X, NEW step \in [S \X X -> S], NEW base \in S, NEW xs \in Seq(X)
    PROVE  \E f : IsLoop(f, S, step, base, xs)
  <1> DEFINE Runs(f, m) ==
               /\ f \in [0..m -> S]
               /\ \A n \in 0..m : f[n] = IF n = 0 THEN base ELSE step[<<f[n - 1], xs[n]>>]
             I == {m \in 0..Len(xs) : \E f : Runs(f, m)}
  <1>1. Len(xs) \in Nat /\ \A n \in 1..Len(xs) : xs[n] \in X
    OBVIOUS
  <1>2. 0 \in I
    <2>1. Runs([n \in 0..0 |-> base], 0)
      OBVIOUS
    <2>2. 0 \in 0..Len(xs)
      BY <1>1
    <2> HIDE DEF Runs
    <2> QED
      BY <2>1, <2>2
  <1>3. ASSUME NEW m \in 1..Len(xs), m - 1 \in I
        PROVE  m \in I
    <2>1. PICK f : Runs(f, m - 1)
      BY <1>3
    <2> DEFINE g == [n \in 0..m |-> IF n = m THEN step[<<f[m - 1], xs[m]>>] ELSE f[n]]
    <2>2. m - 1 \in 0..m - 1 /\ f[m - 1] \in S /\ xs[m] \in X
      BY <1>1, <2>1
    <2>3. step[<<f[m - 1], xs[m]>>] \in S
      BY <2>2
    <2>4. \A n \in 0..m : n = m \/ n \in 0..m - 1
      OBVIOUS
    <2>5. g \in [0..m -> S]
      BY <2>1, <2>3, <2>4
    <2>6. ASSUME NEW n \in 0..m
          PROVE  g[n] = IF n = 0 THEN base ELSE step[<<g[n - 1], xs[n]>>]
      <3>1. CASE n = m
        <4>1. n # 0 /\ n - 1 \in 0..m /\ n - 1 # m
          BY <3>1
        <4> QED
          BY <3>1, <4>1
      <3>2. CASE n # m
        <4>1. n \in 0..m - 1 /\ (n # 0 => n - 1 \in 0..m /\ n - 1 # m)
          BY <3>2
        <4> QED
          BY <2>1, <3>2, <4>1
      <3> QED
        BY <3>1, <3>2
    <2> HIDE DEF g
    <2>7. Runs(g, m)
      BY <2>5, <2>6
    <2>8. m \in 0..Len(xs)
      OBVIOUS
    <2> HIDE DEF Runs
    <2> QED
      BY <2>7, <2>8
  <1>4. Len(xs) \in I
    <2> HIDE DEF I
    <2>1. 0..Len(xs) \subseteq I
      BY <1>1, <1>2, <1>3, CountingUp
    <2> QED
      BY <1>1, <2>1
  <1> QED
    BY <1>4 DEF IsLoop

\* A function on 1..n is a sequence of length n.
LEMMA SequenceOfLength ==
    ASSUME NEW S, NEW n \in Nat, NEW f \in [1..n -> S]
    PROVE  f \in Seq(S) /\ Len(f) = n
  OBVIOUS

\* Numbers can be added up one after the other.
LEMMA SumsRun ==
    ASSUME NEW n \in Nat, NEW base \in Nat, NEW term \in [1..n -> Nat]
    PROVE  \E f \in [0..n -> Nat] : \A k \in 0..n : f[k] = IF k = 0 THEN base ELSE f[k - 1] + term[k]
  <1> DEFINE step == [p \in Nat \X Nat |-> p[1] + p[2]]
  <1>1. step \in [Nat \X Nat -> Nat] /\ \A a, b \in Nat : step[<<a, b>>] = a + b
    OBVIOUS
  <1> HIDE DEF step
  <1>2. term \in Seq(Nat) /\ Len(term) = n
    BY SequenceOfLength
  <1>3. PICK f : IsLoop(f, Nat, step, base, term)
    BY <1>1, <1>2, LoopRuns
  <1>4. ASSUME NEW k \in 0..n
        PROVE  f[k] = IF k = 0 THEN base ELSE f[k - 1] + term[k]
    <2>1. f[k] = IF k = 0 THEN base ELSE step[<<f[k - 1], term[k]>>]
      BY <1>2, <1>3 DEF IsLoop
    <2>2. CASE k = 0
      BY <2>1, <2>2
    <2>3. CASE k # 0
      <3>1. k - 1 \in 0..n /\ k \in 1..n
        BY <2>3
      <3>2. f[k - 1] \in Nat /\ term[k] \in Nat
        BY <1>2, <1>3, <3>1 DEF IsLoop
      <3> QED
        BY <1>1, <2>1, <2>3, <3>2
    <2> QED
      BY <2>2, <2>3
  <1> QED
    BY <1>2, <1>3, <1>4 DEF IsLoop

\* FlattenSeq concatenates sequences: its recursive definition is one of a
\* function, whose values are sequences up to a smallest argument where one
\* would not be.
LEMMA FlattenSteps ==
    ASSUME NEW S, NEW list \in Seq(Seq(S)), Len(list) # 0
    PROVE  \E flatten :
             /\ FlattenSeq(list) = flatten[Len(list)]
             /\ \A i \in 1..Len(list) : flatten[i] = IF i = 1 THEN list[i] ELSE flatten[i - 1] \o list[i]
             /\ \A i \in 1..Len(list) : flatten[i] \in Seq(S)
  <1> DEFINE Flattens(f, n) == f = [i \in 1..n |-> IF i = 1 THEN list[i] ELSE f[i - 1] \o list[i]]
             flatten == CHOOSE f : Flattens(f, Len(list))
  <1>1. FlattenSeq(list) = flatten[Len(list)]
    BY DEF FlattenSeq
  <1>2. \E f : Flattens(f, Len(list))
    <2> DEFINE I == {n \in 1..Len(list) : ~ \E f : Flattens(f, n)}
    <2> SUFFICES ASSUME Len(list) \in I PROVE FALSE
      <3>1. Len(list) \in 1..Len(list)
        OBVIOUS
      <3> HIDE DEF Flattens
      <3> QED
        BY <3>1
    <2>0. I \subseteq Nat \ {0}
      <3> HIDE DEF Flattens
      <3> QED
        BY DEF I
    <2>1. PICK n \in I : \A i \in I : n =< i
      <3> HIDE DEF I
      <3> QED
        BY <2>0, LeastNatural
    <2>4. n \in 1..Len(list) /\ ~ \E f : Flattens(f, n)
      OBVIOUS
    <2>2. PICK f : Flattens(f, n - 1)
      <3>1. CASE n = 1
        <4>1. Flattens(<<>>, 0)
          OBVIOUS
        <4> QED
          BY <3>1, <4>1
      <3>2. CASE n # 1
        <4>1. n - 1 \in 1..Len(list) /\ ~ n =< n - 1
          BY <2>4, <3>2
        <4>2. n - 1 \notin I
          <5> HIDE DEF I
          <5> QED
            BY <2>1, <4>1
        <4> HIDE DEF Flattens
        <4> QED
          BY <4>1, <4>2 DEF I
      <3> QED
        BY <3>1, <3>2
    <2> DEFINE g == [i \in 1..n |-> IF i = n THEN (IF i = 1 THEN list[i] ELSE f[i - 1] \o list[i]) ELSE f[i]]
    <2>3. Flattens(g, n)
      <3>1. \A i \in 1..n-1 : g[i] = f[i]
        OBVIOUS
      <3>2. \A i \in 1..n-1 : f[i] = IF i = 1 THEN list[i] ELSE f[i - 1] \o list[i]
        BY <2>2
      <3>3. \A i \in 1..n : g[i] = IF i = 1 THEN list[i] ELSE g[i - 1] \o list[i]
        <4> SUFFICES ASSUME NEW i \in 1..n PROVE g[i] = IF i = 1 THEN list[i] ELSE g[i - 1] \o list[i]
          OBVIOUS
        <4>1. CASE i = n
          BY <4>1, <3>1
        <4>2. CASE i # n
          BY <4>2, <3>1, <3>2
        <4> QED
          BY <4>1, <4>2
      <3> HIDE DEF g
      <3>4. DOMAIN g = 1..n /\ g = [i \in 1..n |-> g[i]]
        BY DEF g
      <3> QED
        BY <3>3, <3>4
    <2> QED
      BY <2>3, <2>4
  <1>3. Flattens(flatten, Len(list))
    BY <1>2
  <1> HIDE DEF flatten
  <1>4. \A i \in 1..Len(list) : flatten[i] = IF i = 1 THEN list[i] ELSE flatten[i - 1] \o list[i]
    BY <1>3
  <1>5. \A i \in 1..Len(list) : flatten[i] \in Seq(S)
    <2> DEFINE I == {i \in 1..Len(list) : flatten[i] \notin Seq(S)}
    <2> SUFFICES ASSUME I # {} PROVE FALSE
      OBVIOUS
    <2>1. PICK n \in I : \A i \in I : n =< i
      <3>1. I \subseteq Nat \ {0}
        OBVIOUS
      <3> HIDE DEF I
      <3> QED
        BY <3>1, LeastNatural
    <2>4. n \in 1..Len(list) /\ flatten[n] \notin Seq(S)
      OBVIOUS
    <2>2. CASE n = 1
      BY <1>4, <2>2, <2>4
    <2>3. CASE n # 1
      <3>1. flatten[n - 1] \in Seq(S) /\ list[n] \in Seq(S)
        <4>1. n - 1 \in 1..Len(list) /\ ~ n =< n - 1
          BY <2>4, <2>3
        <4>2. n - 1 \notin I
          <5> HIDE DEF I
          <5> QED
            BY <2>1, <4>1
        <4> QED
          BY <2>4, <4>1, <4>2
      <3> QED
        BY <1>4, <2>3, <2>4, <3>1, ConcatProperties
    <2> QED
      BY <2>2, <2>3
  <1> QED
    BY <1>1, <1>4, <1>5

LEMMA FlattenInSeq ==
    ASSUME NEW S, NEW list \in Seq(Seq(S))
    PROVE  FlattenSeq(list) \in Seq(S)
  <1>1. CASE Len(list) = 0
    <2>1. FlattenSeq(list) = list /\ list = <<>>
      BY <1>1 DEF FlattenSeq
    <2> QED
      BY <2>1, EmptySeq
  <1>2. CASE Len(list) # 0
    <2>1. Len(list) \in 1..Len(list)
      BY <1>2
    <2> QED
      BY <1>2, <2>1, FlattenSteps
  <1> QED
    BY <1>1, <1>2

\* It has the elements of the sequences that it flattens, and no others.
LEMMA FlattenElements ==
    ASSUME NEW S, NEW list \in Seq(Seq(S)), NEW x
    PROVE  x \in ToSet(FlattenSeq(list)) <=> \E i \in 1..Len(list) : x \in ToSet(list[i])
  <1>1. CASE Len(list) = 0
    <2>1. FlattenSeq(list) = list /\ list = <<>>
      BY <1>1 DEF FlattenSeq
    <2> QED
      BY <1>1, <2>1 DEF ToSet
  <1>2. CASE Len(list) # 0
    <2>1. PICK flatten :
             /\ FlattenSeq(list) = flatten[Len(list)]
             /\ \A i \in 1..Len(list) : flatten[i] = IF i = 1 THEN list[i] ELSE flatten[i - 1] \o list[i]
             /\ \A i \in 1..Len(list) : flatten[i] \in Seq(S)
      BY <1>2, FlattenSteps
    <2> DEFINE Has(i) == x \in ToSet(flatten[i]) <=> \E j \in 1..i : x \in ToSet(list[j])
               I == {i \in 1..Len(list) : ~Has(i)}
    <2>2. ASSUME NEW s \in Seq(S), NEW t \in Seq(S)
          PROVE  x \in ToSet(s \o t) <=> x \in ToSet(s) \/ x \in ToSet(t)
      <3>1. /\ Len(s) \in Nat /\ Len(t) \in Nat
            /\ DOMAIN (s \o t) = 1..Len(s) + Len(t) /\ DOMAIN s = 1..Len(s) /\ DOMAIN t = 1..Len(t)
            /\ \A i \in 1..Len(s) : (s \o t)[i] = s[i]
            /\ \A i \in 1..Len(t) : (s \o t)[Len(s) + i] = t[i]
        OBVIOUS
      <3> DEFINE both == s \o t
      <3> HIDE DEF both
      <3>2. \A i \in DOMAIN both : i \in 1..Len(s) \/ (i - Len(s) \in 1..Len(t) /\ i = Len(s) + (i - Len(s)))
        BY <3>1 DEF both
      <3>3. x \in ToSet(both) => x \in ToSet(s) \/ x \in ToSet(t)
        BY <3>1, <3>2 DEF ToSet, both
      <3>4. x \in ToSet(s) => x \in ToSet(both)
        <4>1. \A i \in 1..Len(s) : i \in DOMAIN both /\ both[i] = s[i]
          BY <3>1 DEF both
        <4> QED
          BY <3>1, <4>1 DEF ToSet
      <3>5. x \in ToSet(t) => x \in ToSet(both)
        <4>1. \A i \in 1..Len(t) : Len(s) + i \in DOMAIN both /\ both[Len(s) + i] = t[i]
          BY <3>1 DEF both
        <4> QED
          BY <3>1, <4>1 DEF ToSet
      <3> QED
        BY <3>3, <3>4, <3>5 DEF both
    <2>3. I = {}
      <3> SUFFICES ASSUME I # {} PROVE FALSE
        OBVIOUS
      <3>1. PICK n \in I : \A i \in I : n =< i
        <4>1. I \subseteq Nat \ {0}
          <5> HIDE DEF Has
          <5> QED
            OBVIOUS
        <4> HIDE DEF I
        <4> QED
          BY <4>1, LeastNatural
      <3>2. n \in 1..Len(list) /\ ~Has(n)
        OBVIOUS
      <3>3. CASE n = 1
        <4>1. flatten[1] = list[1] /\ 1..n = {1}
          BY <2>1, <3>2, <3>3
        <4> QED
          BY <3>2, <3>3, <4>1
      <3>4. CASE n # 1
        <4>1. n - 1 \in 1..Len(list) /\ ~ n =< n - 1
          BY <3>2, <3>4
        <4>2. Has(n - 1)
          <5>1. n - 1 \notin I
            <6> HIDE DEF I
            <6> QED
              BY <3>1, <4>1
          <5> HIDE DEF Has
          <5> QED
            BY <4>1, <5>1
        <4>3. flatten[n] = flatten[n - 1] \o list[n] /\ flatten[n - 1] \in Seq(S) /\ list[n] \in Seq(S)
          <5>1. n \in 1..Len(list) /\ n - 1 \in 1..Len(list)
            BY <3>2, <4>1
          <5> HIDE DEF I
          <5>2. list[n] \in Seq(S)
            BY <5>1
          <5> QED
            BY <2>1, <3>4, <5>1, <5>2
        <4>4. x \in ToSet(flatten[n]) <=> x \in ToSet(flatten[n - 1]) \/ x \in ToSet(list[n])
          BY <2>2, <4>3
        <4>5. 1..n = 1..n-1 \cup {n}
          BY <3>2
        <4> QED
          BY <3>2, <4>2, <4>4, <4>5
      <3> QED
        BY <3>3, <3>4
    <2>4. Len(list) \in 1..Len(list)
      BY <1>2
    <2>5. Has(Len(list))
      <3> HIDE DEF Has
      <3> QED
        BY <2>3, <2>4
    <2> QED
      BY <2>1, <2>5
  <1> QED
    BY <1>1, <1>2

\* It grows with the sequences that it flattens.
LEMMA FlattenAppend ==
    ASSUME NEW S, NEW list \in Seq(Seq(S)), NEW x \in Seq(S)
    PROVE  FlattenSeq(Append(list, x)) = FlattenSeq(list) \o x
  <1> DEFINE more == Append(list, x)
             n == Len(list)
  <1>1. /\ more \in Seq(Seq(S)) /\ n \in Nat /\ Len(more) = n + 1
        /\ \A i \in 1..n : more[i] = list[i]
        /\ more[n + 1] = x
    BY AppendByIndex
  <1> HIDE DEF more
  <1>2. PICK g :
          /\ FlattenSeq(more) = g[Len(more)]
          /\ \A i \in 1..Len(more) : g[i] = IF i = 1 THEN more[i] ELSE g[i - 1] \o more[i]
    <2>1. Len(more) # 0
      BY <1>1
    <2>2. \E g :
            /\ FlattenSeq(more) = g[Len(more)]
            /\ \A i \in 1..Len(more) : g[i] = IF i = 1 THEN more[i] ELSE g[i - 1] \o more[i]
            /\ \A i \in 1..Len(more) : g[i] \in Seq(S)
      BY <1>1, <2>1, FlattenSteps
    <2> QED
      BY <2>2
  <1>3. FlattenSeq(more) = IF n = 0 THEN x ELSE g[n] \o x
    BY <1>1, <1>2
  <1>4. CASE n = 0
    <2>1. FlattenSeq(list) = list /\ list = <<>>
      BY <1>4 DEF FlattenSeq
    <2>2. <<>> \o x = x
      BY EmptySeq, ConcatEmptySeq
    <2> QED
      BY <1>3, <1>4, <2>1, <2>2 DEF more
  <1>5. CASE n # 0
    <2>1. PICK f :
            /\ FlattenSeq(list) = f[n]
            /\ \A i \in 1..n : f[i] = IF i = 1 THEN list[i] ELSE f[i - 1] \o list[i]
      BY <1>5, FlattenSteps
    <2> DEFINE I == {i \in 1..n : f[i] # g[i]}
    <2>2. I = {}
      <3> SUFFICES ASSUME I # {} PROVE FALSE
        OBVIOUS
      <3>1. PICK k \in I : \A i \in I : k =< i
        <4>1. I \subseteq Nat \ {0}
          OBVIOUS
        <4> HIDE DEF I
        <4> QED
          BY <4>1, LeastNatural
      <3>2. k \in 1..n /\ f[k] # g[k]
        OBVIOUS
      <3>3. k \in 1..Len(more) /\ more[k] = list[k]
        BY <1>1, <3>2
      <3>4. CASE k = 1
        BY <1>2, <2>1, <3>2, <3>3, <3>4
      <3>5. CASE k # 1
        <4>1. k - 1 \in 1..n /\ ~ k =< k - 1
          BY <1>1, <3>2, <3>5
        <4>2. k - 1 \notin I
          <5> HIDE DEF I
          <5> QED
            BY <3>1, <4>1
        <4>3. f[k - 1] = g[k - 1]
          BY <4>1, <4>2
        <4> HIDE DEF I
        <4> QED
          BY <1>2, <2>1, <3>2, <3>3, <3>5, <4>3
      <3> QED
        BY <3>4, <3>5
    <2>3. n \in 1..n
      BY <1>1, <1>5
    <2>4. f[n] = g[n]
      BY <2>2, <2>3
    <2> QED
      BY <1>3, <1>5, <2>1, <2>4 DEF more
  <1> QED
    BY <1>4, <1>5

\* The elements of a sequence that are in a set.
Kept(s, kept) == FlattenSeq([i \in DOMAIN s |-> IF s[i] \in kept THEN <<s[i]>> ELSE <<>>])

LEMMA KeptAppend ==
    ASSUME NEW S, NEW s \in Seq(S), NEW e \in S, NEW kept
    PROVE  /\ Kept(<<>>, kept) = <<>>
           /\ Kept(s, kept) \in Seq(S)
           /\ Kept(Append(s, e), kept) = IF e \in kept THEN Append(Kept(s, kept), e) ELSE Kept(s, kept)
  <1> DEFINE Piece(x) == IF x \in kept THEN <<x>> ELSE <<>>
             Pieces(t) == [i \in DOMAIN t |-> Piece(t[i])]
             more == Append(s, e)
  <1>1. \A x \in S : Piece(x) \in Seq(S)
    <2>1. <<>> \in Seq(S) /\ \A x \in S : <<x>> \in Seq(S)
      BY EmptySeq
    <2> QED
      BY <2>1
  <1>2. \A t : Kept(t, kept) = FlattenSeq(Pieces(t))
    BY DEF Kept
  <1>3. Kept(<<>>, kept) = <<>>
    <2>1. DOMAIN <<>> = {} /\ <<>> = [i \in {} |-> i]
      OBVIOUS
    <2>2. Pieces(<<>>) = <<>>
      BY <2>1
    <2>3. FlattenSeq(<<>>) = <<>>
      BY DEF FlattenSeq
    <2> QED
      BY <1>2, <2>2, <2>3
  <1> HIDE DEF Piece
  <1>4. /\ more \in Seq(S) /\ DOMAIN more = 1..Len(s) + 1 /\ DOMAIN s = 1..Len(s) /\ Len(s) \in Nat
        /\ \A i \in 1..Len(s) : more[i] = s[i] /\ s[i] \in S
        /\ more[Len(s) + 1] = e
    OBVIOUS
  <1> HIDE DEF more
  <1>5. Pieces(s) \in Seq(Seq(S)) /\ Len(Pieces(s)) = Len(s) /\ \A i \in 1..Len(s) : Pieces(s)[i] = Piece(s[i])
    <2>1. Pieces(s) \in [1..Len(s) -> Seq(S)]
      BY <1>1, <1>4
    <2> QED
      BY <1>4, <2>1, IsASeq
  <1>6. Pieces(more) = Append(Pieces(s), Piece(e))
    <2>1. Pieces(more) = [i \in 1..Len(s) + 1 |-> IF i \in 1..Len(s) THEN Pieces(s)[i] ELSE Piece(e)]
      BY <1>4, <1>5
    <2>2. Append(Pieces(s), Piece(e)) = [i \in 1..Len(s) + 1 |-> IF i \in 1..Len(s) THEN Pieces(s)[i] ELSE Piece(e)]
      <3>1. Piece(e) \in Seq(S)
        BY <1>1
      <3> HIDE DEF Pieces
      <3>2. /\ Append(Pieces(s), Piece(e)) \in Seq(Seq(S))
            /\ Len(Append(Pieces(s), Piece(e))) = Len(s) + 1
            /\ \A i \in 1..Len(s) : Append(Pieces(s), Piece(e))[i] = Pieces(s)[i]
            /\ Append(Pieces(s), Piece(e))[Len(s) + 1] = Piece(e)
        BY <1>5, <3>1, AppendByIndex
      <3>3. \A i \in 1..Len(s) + 1 : i \in 1..Len(s) \/ i = Len(s) + 1
        BY <1>4
      <3>4. ~ Len(s) + 1 \in 1..Len(s)
        BY <1>4
      <3> DEFINE longer == Append(Pieces(s), Piece(e))
      <3>5. longer = [i \in 1..Len(longer) |-> longer[i]]
        <4> HIDE DEF longer
        <4>1. longer \in Seq(Seq(S))
          BY <3>2 DEF longer
        <4> QED
          BY <4>1
      <3> QED
        BY <3>2, <3>3, <3>4, <3>5
    <2> QED
      BY <2>1, <2>2
  <1> HIDE DEF Pieces
  <1>7. FlattenSeq(Pieces(more)) = FlattenSeq(Pieces(s)) \o Piece(e)
    BY <1>1, <1>5, <1>6, FlattenAppend
  <1>8. Kept(s, kept) \in Seq(S)
    BY <1>2, <1>5, FlattenInSeq
  <1>9. Kept(s, kept) \o <<e>> = Append(Kept(s, kept), e) /\ Kept(s, kept) \o <<>> = Kept(s, kept)
    BY <1>8
  <1>10. Kept(more, kept) = IF e \in kept THEN Append(Kept(s, kept), e) ELSE Kept(s, kept)
    BY <1>2, <1>7, <1>9 DEF Piece
  <1> QED
    BY <1>3, <1>8, <1>10 DEF more

LEMMA KeptElements ==
    ASSUME NEW S, NEW s \in Seq(S), NEW kept, NEW e
    PROVE  e \in ToSet(Kept(s, kept)) <=> e \in ToSet(s) /\ e \in kept
  <1> DEFINE Piece(x) == IF x \in kept THEN <<x>> ELSE <<>>
             pieces == [i \in DOMAIN s |-> Piece(s[i])]
  <1>1. \A x \in S : Piece(x) \in Seq(S) /\ (e \in ToSet(Piece(x)) <=> e = x /\ x \in kept)
    <2>1. <<>> \in Seq(S) /\ \A x \in S : <<x>> \in Seq(S)
      BY EmptySeq
    <2>2. ToSet(<<>>) = {} /\ \A x \in S : ToSet(<<x>>) = {x}
      BY DEF ToSet
    <2> QED
      BY <2>1, <2>2
  <1> HIDE DEF Piece
  <1>2. DOMAIN s = 1..Len(s) /\ Len(s) \in Nat /\ \A i \in 1..Len(s) : s[i] \in S
    OBVIOUS
  <1>3. pieces \in Seq(Seq(S)) /\ Len(pieces) = Len(s) /\ \A i \in 1..Len(s) : pieces[i] = Piece(s[i])
    <2>1. pieces \in [1..Len(s) -> Seq(S)]
      BY <1>1, <1>2
    <2> QED
      BY <1>2, <2>1, IsASeq
  <1>4. Kept(s, kept) = FlattenSeq(pieces)
    BY DEF Kept, Piece
  <1> HIDE DEF pieces
  <1>5. e \in ToSet(FlattenSeq(pieces)) <=> \E i \in 1..Len(s) : e \in ToSet(Piece(s[i]))
    BY <1>3, FlattenElements
  <1>6. e \in ToSet(s) <=> \E i \in 1..Len(s) : e = s[i]
    BY <1>2 DEF ToSet
  <1> QED
    BY <1>1, <1>2, <1>4, <1>5, <1>6

\* They keep their order: an increasing function says where they were.
LEMMA KeptIncreasing ==
    ASSUME NEW S, NEW s \in Seq(S), NEW kept
    PROVE  /\ Kept(s, kept) \in Seq(S)
           /\ \E at \in [1..Len(Kept(s, kept)) -> 1..Len(s)] :
                /\ \A i \in 1..Len(Kept(s, kept)) : Kept(s, kept)[i] = s[at[i]] /\ s[at[i]] \in kept
                /\ \A i, j \in 1..Len(Kept(s, kept)) : i < j => at[i] < at[j]
  <1> DEFINE Increasing(t, at) ==
               /\ Kept(t, kept) \in Seq(S)
               /\ at \in [1..Len(Kept(t, kept)) -> 1..Len(t)]
               /\ \A i \in 1..Len(Kept(t, kept)) : Kept(t, kept)[i] = t[at[i]] /\ t[at[i]] \in kept
               /\ \A i, j \in 1..Len(Kept(t, kept)) : i < j => at[i] < at[j]
             part(n) == SubSeq(s, 1, n)
             I == {n \in 1..Len(s) + 1 : ~ \E at : Increasing(part(n - 1), at)}
  <1>1. Len(s) \in Nat /\ part(Len(s)) = s
    OBVIOUS
  <1>2. part(0) = <<>>
    OBVIOUS
  <1>3. ASSUME NEW n \in 1..Len(s)
        PROVE  /\ part(n - 1) \in Seq(S) /\ s[n] \in S /\ part(n) = Append(part(n - 1), s[n])
               /\ Len(part(n - 1)) = n - 1
    OBVIOUS
  <1> HIDE DEF part
  <1>4. \E at : Increasing(<<>>, at)
    <2>1. Kept(<<>>, kept) = <<>> /\ <<>> \in Seq(S)
      <3>1. <<>> \in Seq({<<>>})
        BY EmptySeq
      <3> QED
        BY <3>1, EmptySeq, KeptAppend
    <2>2. Len(<<>>) = 0 /\ <<>> \in [1..0 -> 1..0] /\ 1..0 = {}
      OBVIOUS
    <2>3. Increasing(<<>>, <<>>)
      BY <2>1, <2>2
    <2> HIDE DEF Increasing
    <2> QED
      BY <2>3
  <1>5. ASSUME NEW n \in 1..Len(s), NEW at, Increasing(part(n - 1), at)
        PROVE  \E to : Increasing(part(n), to)
    <2> DEFINE t == part(n - 1)
               k == Kept(t, kept)
    <2>1. t \in Seq(S) /\ s[n] \in S /\ part(n) = Append(t, s[n]) /\ Len(t) = n - 1
      BY <1>3
    <2> HIDE DEF t
    <2>2. Kept(part(n), kept) = IF s[n] \in kept THEN Append(k, s[n]) ELSE k
      <3>1. \A e \in S : Kept(Append(t, e), kept) = IF e \in kept THEN Append(k, e) ELSE k
        BY <2>1, KeptAppend
      <3> QED
        BY <2>1, <3>1
    <2>3. /\ Len(part(n)) = n /\ \A i \in 1..n - 1 : part(n)[i] = t[i]
          /\ part(n)[n] = s[n]
      BY <2>1
    <2>4. /\ k \in Seq(S) /\ Len(k) \in Nat
          /\ at \in [1..Len(k) -> 1..n - 1]
          /\ \A i \in 1..Len(k) : k[i] = t[at[i]] /\ t[at[i]] \in kept
          /\ \A i, j \in 1..Len(k) : i < j => at[i] < at[j]
      BY <1>5, <2>1 DEF t
    <2> HIDE DEF k
    <2>5. CASE s[n] \notin kept
      <3>1. at \in [1..Len(k) -> 1..n]
        BY <2>4
      <3>2. Increasing(part(n), at)
        BY <2>2, <2>3, <2>4, <2>5, <3>1
      <3> QED
        BY <3>2
    <2>6. CASE s[n] \in kept
      <3> DEFINE to == [i \in 1..Len(k) + 1 |-> IF i = Len(k) + 1 THEN n ELSE at[i]]
                 more == Append(k, s[n])
      <3>1. /\ more \in Seq(S) /\ Len(more) = Len(k) + 1
            /\ \A i \in 1..Len(k) : more[i] = k[i]
            /\ more[Len(k) + 1] = s[n]
        BY <2>1, <2>4
      <3> HIDE DEF more
      <3>2. /\ to \in [1..Len(k) + 1 -> 1..n]
            /\ to[Len(k) + 1] = n
            /\ \A i \in 1..Len(k) : to[i] = at[i] /\ at[i] \in 1..n - 1
        BY <2>4
      <3> HIDE DEF to
      <3>3. \A i \in 1..Len(k) + 1 : i \in 1..Len(k) \/ i = Len(k) + 1
        BY <2>4
      <3>4. \A i \in 1..Len(k) + 1 : more[i] = part(n)[to[i]] /\ part(n)[to[i]] \in kept
        BY <2>3, <2>4, <2>6, <3>1, <3>2, <3>3
      <3>5. \A i, j \in 1..Len(k) + 1 : i < j => to[i] < to[j]
        <4> SUFFICES ASSUME NEW i \in 1..Len(k) + 1, NEW j \in 1..Len(k) + 1, i < j
                     PROVE  to[i] < to[j]
          OBVIOUS
        <4>1. i \in 1..Len(k)
          BY <2>4
        <4>2. CASE j \in 1..Len(k)
          BY <2>4, <3>2, <4>1, <4>2
        <4>3. CASE j = Len(k) + 1
          <5>1. to[i] \in 1..n - 1 /\ to[j] = n
            BY <3>2, <4>1, <4>3
          <5> QED
            BY <5>1
        <4> QED
          BY <3>3, <4>2, <4>3
      <3>6. Kept(part(n), kept) = more
        BY <2>2, <2>6 DEF more
      <3>7. Increasing(part(n), to)
        BY <2>3, <3>1, <3>2, <3>4, <3>5, <3>6
      <3> QED
        BY <3>7
    <2> QED
      BY <2>5, <2>6
  <1> HIDE DEF Increasing
  <1>6. I = {}
    <2> SUFFICES ASSUME I # {} PROVE FALSE
      OBVIOUS
    <2>1. PICK n \in I : \A i \in I : n =< i
      <3>1. I \subseteq Nat \ {0}
        BY <1>1
      <3> HIDE DEF I
      <3> QED
        BY <3>1, LeastNatural
    <2>2. n \in 1..Len(s) + 1 /\ ~ \E at : Increasing(part(n - 1), at)
      OBVIOUS
    <2>3. n # 1
      BY <1>2, <1>4, <2>2
    <2>4. n - 1 \in 1..Len(s) /\ n - 1 \in 1..Len(s) + 1 /\ ~ n =< n - 1
      BY <1>1, <2>2, <2>3
    <2>5. n - 1 \notin I
      <3> HIDE DEF I
      <3> QED
        BY <2>1, <2>4
    <2>6. \E at : Increasing(part(n - 1 - 1), at)
      BY <2>4, <2>5
    <2>7. \E at : Increasing(part(n - 1), at)
      <3> HIDE DEF I
      <3> QED
        BY <1>5, <2>4, <2>6
    <2> QED
      BY <2>2, <2>7
  <1>7. \E at : Increasing(s, at)
    <2>1. Len(s) + 1 \in 1..Len(s) + 1 /\ Len(s) + 1 - 1 = Len(s)
      BY <1>1
    <2>2. Len(s) + 1 \notin I
      BY <1>6
    <2>3. \E at : Increasing(part(Len(s) + 1 - 1), at)
      BY <2>1, <2>2
    <2> QED
      BY <1>1, <2>1, <2>3
  <1> QED
    BY <1>7 DEF Increasing

\* What is true of <<>>, and of each sequence with one more element if it is of the
\* sequence, is true of all.
LEMMA OneByOne ==
    ASSUME NEW S, NEW I, <<>> \in I, \A t \in Seq(S), e \in S : t \in I => Append(t, e) \in I, NEW s \in Seq(S)
    PROVE  s \in I
  <1> DEFINE J == {n \in 0..Len(s) : SubSeq(s, 1, n) \in I}
  <1>1. Len(s) \in Nat /\ SubSeq(s, 1, 0) = <<>> /\ SubSeq(s, 1, Len(s)) = s
    OBVIOUS
  <1>2. 0 \in J
    <2>1. \A r : r = <<>> => r \in I
      OBVIOUS
    <2>2. SubSeq(s, 1, 0) \in I
      BY <1>1, <2>1
    <2>3. 0 \in 0..Len(s)
      BY <1>1
    <2> QED
      BY <2>2, <2>3
  <1>3. ASSUME NEW n \in 1..Len(s), n - 1 \in J
        PROVE  n \in J
    <2>1. /\ n \in 0..Len(s) /\ s[n] \in S /\ SubSeq(s, 1, n - 1) \in Seq(S)
          /\ SubSeq(s, 1, n) = Append(SubSeq(s, 1, n - 1), s[n])
      OBVIOUS
    <2>2. SubSeq(s, 1, n - 1) \in I
      BY <1>3
    <2> QED
      BY <2>1, <2>2
  <1>4. Len(s) \in J
    <2> HIDE DEF J
    <2>1. 0..Len(s) \subseteq J
      BY <1>1, <1>2, <1>3, CountingUp
    <2> QED
      BY <1>1, <2>1
  <1> QED
    BY <1>1, <1>4

\* Nothing is kept of an empty sequence.
LEMMA NothingKept ==
    ASSUME NEW kept
    PROVE  Kept(<<>>, kept) = <<>>
  <1>1. <<>> \in Seq({<<>>}) /\ <<>> \in {<<>>}
    OBVIOUS
  <1> QED
    BY <1>1, KeptAppend

\* What is kept of a sequence is a sequence of the same elements.
LEMMA KeptInSeq ==
    ASSUME NEW S, NEW s \in Seq(S), NEW kept
    PROVE  Kept(s, kept) \in Seq(S)
  <1>1. CASE s = <<>>
    BY <1>1, NothingKept
  <1>2. CASE s # <<>>
    <2>1. s[1] \in S
      BY <1>2
    <2> QED
      BY <2>1, KeptAppend
  <1> QED
    BY <1>1, <1>2

\* KeptAppend without what Kept is in.
LEMMA KeptGrows ==
    ASSUME NEW S, NEW s \in Seq(S), NEW e \in S, NEW kept
    PROVE  Kept(Append(s, e), kept) = IF e \in kept THEN Append(Kept(s, kept), e) ELSE Kept(s, kept)
  BY KeptAppend

\* What is kept of two sequences is kept of both.
LEMMA KeptConcat ==
    ASSUME NEW S, NEW s \in Seq(S), NEW u \in Seq(S), NEW kept
    PROVE  Kept(s \o u, kept) = Kept(s, kept) \o Kept(u, kept)
  <1> DEFINE I == {t \in Seq(S) : Kept(s \o t, kept) = Kept(s, kept) \o Kept(t, kept)}
  <1>1. \A t \in Seq(S) : Kept(t, kept) \in Seq(S)
    BY KeptInSeq
  <1>2. Kept(<<>>, kept) = <<>>
    BY NothingKept
  <1>3. <<>> \in I
    <2>1. s \o <<>> = s /\ Kept(s, kept) \o <<>> = Kept(s, kept) /\ <<>> \in Seq(S)
      BY <1>1, ConcatEmptySeq
    <2> QED
      BY <1>2, <2>1
  <1>4. ASSUME NEW t \in Seq(S), NEW e \in S, t \in I
        PROVE  Append(t, e) \in I
    <2>1. Append(t, e) \in Seq(S) /\ s \o t \in Seq(S) /\ s \o Append(t, e) = Append(s \o t, e)
      OBVIOUS
    <2>2. /\ Kept(Append(t, e), kept) = IF e \in kept THEN Append(Kept(t, kept), e) ELSE Kept(t, kept)
          /\ Kept(Append(s \o t, e), kept) =
               IF e \in kept THEN Append(Kept(s \o t, kept), e) ELSE Kept(s \o t, kept)
      <3>1. ASSUME NEW r \in Seq(S)
            PROVE  Kept(Append(r, e), kept) = IF e \in kept THEN Append(Kept(r, kept), e) ELSE Kept(r, kept)
        BY KeptGrows
      <3> QED
        BY <2>1, <3>1
    <2>3. Kept(s \o t, kept) = Kept(s, kept) \o Kept(t, kept)
      BY <1>4
    <2>4. Append(Kept(s, kept) \o Kept(t, kept), e) = Kept(s, kept) \o Append(Kept(t, kept), e)
      <3>1. Kept(s, kept) \in Seq(S) /\ Kept(t, kept) \in Seq(S)
        BY <1>1
      <3>2. ASSUME NEW a \in Seq(S), NEW b \in Seq(S)
            PROVE  Append(a \o b, e) = a \o Append(b, e)
        <4>1. a \o b \in Seq(S) /\ <<e>> \in Seq(S)
          OBVIOUS
        <4>2. Append(a \o b, e) = (a \o b) \o <<e>> /\ Append(b, e) = b \o <<e>>
          BY <4>1, AppendIsConcat
        <4> QED
          BY <4>1, <4>2, ConcatAssociative
      <3> QED
        BY <3>1, <3>2
    <2> QED
      BY <2>1, <2>2, <2>3, <2>4
  <1>5. u \in I
    <2> HIDE DEF I
    <2> QED
      BY <1>3, <1>4, OneByOne
  <1> QED
    BY <1>1, <1>5

\* All is kept of a sequence that has nothing else.
LEMMA AllKept ==
    ASSUME NEW S, NEW s \in Seq(S), NEW kept, S \subseteq kept
    PROVE  Kept(s, kept) = s
  <1> DEFINE I == {t \in Seq(S) : Kept(t, kept) = t}
  <1>1. <<>> \in I
    BY NothingKept
  <1>2. ASSUME NEW t \in Seq(S), NEW e \in S, t \in I
        PROVE  Append(t, e) \in I
    <2>1. Append(t, e) \in Seq(S) /\ e \in kept
      BY AppendProperties
    <2>2. Kept(Append(t, e), kept) = Append(t, e)
      BY <1>2, <2>1, KeptGrows
    <2> QED
      BY <2>1, <2>2
  <1> HIDE DEF I
  <1>3. s \in I
    BY <1>1, <1>2, OneByOne
  <1> QED
    BY <1>3 DEF I

\* Nothing is kept of a sequence without what is kept.
LEMMA NoneKept ==
    ASSUME NEW S, NEW s \in Seq(S), NEW kept, \A i \in DOMAIN s : s[i] \notin kept
    PROVE  Kept(s, kept) = <<>>
  <1> DEFINE I == {t \in Seq(S) : (\A i \in DOMAIN t : t[i] \notin kept) => Kept(t, kept) = <<>>}
  <1>1. <<>> \in I
    BY NothingKept
  <1>2. ASSUME NEW t \in Seq(S), NEW e \in S, t \in I
        PROVE  Append(t, e) \in I
    <2> DEFINE more == Append(t, e)
    <2>1. /\ more \in Seq(S) /\ Len(t) \in Nat /\ DOMAIN more = 1..Len(t) + 1 /\ DOMAIN t = 1..Len(t)
          /\ \A i \in 1..Len(t) : more[i] = t[i]
          /\ more[Len(t) + 1] = e
      OBVIOUS
    <2>2. Kept(more, kept) = IF e \in kept THEN Append(Kept(t, kept), e) ELSE Kept(t, kept)
      BY KeptAppend
    <2> HIDE DEF more
    <2>3. ASSUME \A i \in DOMAIN more : more[i] \notin kept
          PROVE  Kept(more, kept) = <<>>
      <3>1. e \notin kept /\ \A i \in DOMAIN t : t[i] \notin kept
        BY <2>1, <2>3
      <3> QED
        BY <1>2, <2>2, <3>1
    <2> QED
      BY <2>1, <2>3 DEF more
  <1>3. s \in I
    <2> HIDE DEF I
    <2> QED
      BY <1>1, <1>2, OneByOne
  <1> QED
    BY <1>3

\* Flattening lists one after the other.
LEMMA FlattenConcat ==
    ASSUME NEW S, NEW a \in Seq(Seq(S)), NEW b \in Seq(Seq(S))
    PROVE  /\ FlattenSeq(a \o b) = FlattenSeq(a) \o FlattenSeq(b)
           /\ FlattenSeq(a) \in Seq(S) /\ FlattenSeq(b) \in Seq(S)
  <1> DEFINE I == {t \in Seq(Seq(S)) : FlattenSeq(a \o t) = FlattenSeq(a) \o FlattenSeq(t)}
  <1>1. \A t \in Seq(Seq(S)) : FlattenSeq(t) \in Seq(S)
    BY FlattenInSeq
  <1>2. FlattenSeq(<<>>) = <<>>
    BY DEF FlattenSeq
  <1>3. <<>> \in I
    <2>1. a \o <<>> = a /\ FlattenSeq(a) \o <<>> = FlattenSeq(a) /\ <<>> \in Seq(Seq(S))
      BY <1>1, ConcatEmptySeq
    <2> QED
      BY <1>2, <2>1
  <1>4. ASSUME NEW t \in Seq(Seq(S)), NEW e \in Seq(S), t \in I
        PROVE  Append(t, e) \in I
    <2>1. Append(t, e) \in Seq(Seq(S)) /\ a \o t \in Seq(Seq(S)) /\ a \o Append(t, e) = Append(a \o t, e)
      OBVIOUS
    <2>2. FlattenSeq(Append(t, e)) = FlattenSeq(t) \o e /\ FlattenSeq(Append(a \o t, e)) = FlattenSeq(a \o t) \o e
      BY <2>1, FlattenAppend
    <2>3. FlattenSeq(a \o t) = FlattenSeq(a) \o FlattenSeq(t)
      BY <1>4
    <2>4. (FlattenSeq(a) \o FlattenSeq(t)) \o e = FlattenSeq(a) \o (FlattenSeq(t) \o e)
      BY <1>1, ConcatAssociative
    <2> QED
      BY <2>1, <2>2, <2>3, <2>4
  <1>5. b \in I
    <2> HIDE DEF I
    <2> QED
      BY <1>3, <1>4, OneByOne
  <1> QED
    BY <1>1, <1>5

\* What is kept of a flattened list is what is kept of its elements.
LEMMA KeptFlattens ==
    ASSUME NEW S, NEW texts \in Seq(Seq(S)), NEW kept
    PROVE  /\ Kept(FlattenSeq(texts), kept) = FlattenSeq([i \in DOMAIN texts |-> Kept(texts[i], kept)])
           /\ Kept(FlattenSeq(texts), kept) \in Seq(S)
  <1> DEFINE Of(t) == [i \in DOMAIN t |-> Kept(t[i], kept)]
             I == {t \in Seq(Seq(S)) : Kept(FlattenSeq(t), kept) = FlattenSeq(Of(t))}
  <1>1. \A t \in Seq(S) : Kept(t, kept) \in Seq(S)
    BY KeptInSeq
  <1>2. FlattenSeq(<<>>) = <<>>
    BY DEF FlattenSeq
  <1>3. <<>> \in I
    <2>1. DOMAIN <<>> = {} /\ <<>> = [i \in {} |-> Kept(<<>>[i], kept)]
      OBVIOUS
    <2>2. Of(<<>>) = <<>>
      BY <2>1
    <2> QED
      BY <1>2, <2>2, NothingKept
  <1>4. ASSUME NEW t \in Seq(Seq(S)), NEW e \in Seq(S), t \in I
        PROVE  Append(t, e) \in I
    <2> DEFINE more == Append(t, e)
    <2>1. /\ more \in Seq(Seq(S)) /\ Len(t) \in Nat /\ DOMAIN more = 1..Len(t) + 1 /\ DOMAIN t = 1..Len(t)
          /\ \A i \in 1..Len(t) : more[i] = t[i]
          /\ more[Len(t) + 1] = e
      OBVIOUS
    <2> HIDE DEF more
    <2>2. /\ Of(t) \in Seq(Seq(S)) /\ Of(more) \in Seq(Seq(S)) /\ Kept(e, kept) \in Seq(S)
          /\ Len(Of(t)) = Len(t) /\ Len(Of(more)) = Len(t) + 1
      <3>1. \A i \in DOMAIN t : Kept(t[i], kept) \in Seq(S)
        BY <1>1, <2>1
      <3>2. \A i \in DOMAIN more : Kept(more[i], kept) \in Seq(S)
        BY <1>1, <2>1
      <3>3. Of(t) \in [1..Len(t) -> Seq(S)] /\ Of(more) \in [1..Len(t) + 1 -> Seq(S)]
        BY <2>1, <3>1, <3>2
      <3> HIDE DEF Of
      <3>4. Len(t) + 1 \in Nat
        BY <2>1
      <3> QED
        BY <1>1, <2>1, <3>3, <3>4, SequenceOfLength
    <2>3. Of(more) = Append(Of(t), Kept(e, kept))
      <3>1. /\ \A i \in 1..Len(t) : Of(more)[i] = Of(t)[i]
            /\ Of(more)[Len(t) + 1] = Kept(e, kept)
        BY <2>1
      <3> HIDE DEF Of
      <3>2. /\ Append(Of(t), Kept(e, kept)) \in Seq(Seq(S))
            /\ Len(Append(Of(t), Kept(e, kept))) = Len(t) + 1
            /\ \A i \in 1..Len(t) : Append(Of(t), Kept(e, kept))[i] = Of(t)[i]
            /\ Append(Of(t), Kept(e, kept))[Len(t) + 1] = Kept(e, kept)
        BY <2>1, <2>2, AppendByIndex
      <3>3. \A i \in 1..Len(t) + 1 : i \in 1..Len(t) \/ i = Len(t) + 1
        BY <2>1
      <3>4. \A i \in 1..Len(t) + 1 : Of(more)[i] = Append(Of(t), Kept(e, kept))[i]
        BY <3>1, <3>2, <3>3
      <3> QED
        BY <2>1, <2>2, <3>2, <3>4, SeqEqual
    <2>4. FlattenSeq(Of(more)) = FlattenSeq(Of(t)) \o Kept(e, kept)
      <3> HIDE DEF Of
      <3> QED
        BY <2>2, <2>3, FlattenAppend
    <2>5. /\ FlattenSeq(more) = FlattenSeq(t) \o e
          /\ FlattenSeq(t) \in Seq(S)
      BY FlattenAppend, FlattenInSeq DEF more
    <2>6. Kept(FlattenSeq(more), kept) = Kept(FlattenSeq(t), kept) \o Kept(e, kept)
      <3> DEFINE flat == FlattenSeq(t)
      <3>1. flat \in Seq(S)
        BY <2>5
      <3> HIDE DEF flat
      <3>2. Kept(flat \o e, kept) = Kept(flat, kept) \o Kept(e, kept)
        BY <3>1, KeptConcat
      <3> QED
        BY <2>5, <3>2 DEF flat
    <2>7. Kept(FlattenSeq(t), kept) = FlattenSeq(Of(t))
      BY <1>4
    <2>8. Kept(FlattenSeq(more), kept) = FlattenSeq(Of(more))
      BY <2>4, <2>6, <2>7
    <2> HIDE DEF Of
    <2> QED
      BY <2>1, <2>8 DEF more
  <1>5. texts \in I
    <2> HIDE DEF I
    <2> QED
      BY <1>3, <1>4, OneByOne
  <1>6. Kept(FlattenSeq(texts), kept) = FlattenSeq(Of(texts))
    BY <1>5
  <1>7. FlattenSeq(texts) \in Seq(S)
    BY FlattenInSeq
  <1> QED
    BY <1>1, <1>6, <1>7

\* What SubSeq selects.
LEMMA SubSeqByIndex ==
    ASSUME NEW S, NEW s \in Seq(S), NEW m \in Nat \ {0}, NEW n \in Nat, n =< Len(s)
    PROVE  /\ SubSeq(s, m, n) \in Seq(S)
           /\ Len(SubSeq(s, m, n)) = IF m =< n THEN n - m + 1 ELSE 0
           /\ \A i \in 1..n - m + 1 : SubSeq(s, m, n)[i] = s[m + i - 1]
  OBVIOUS

\* Removing the first e from a sequence removes nothing that is not equal to e.
LEMMA RemoveFirstKeepsOthers ==
    ASSUME NEW S, NEW s \in Seq(S), NEW e
    PROVE  /\ RemoveFirst(s, e) \in Seq(S)
           /\ \A i \in 1..Len(s) : s[i] # e =>
                \E j \in 1..Len(RemoveFirst(s, e)) : RemoveFirst(s, e)[j] = s[i]
  <1>1. CASE ~ \E i \in 1..Len(s) : s[i] = e
    BY <1>1 DEF RemoveFirst
  <1>2. CASE \E i \in 1..Len(s) : s[i] = e
    <2> DEFINE I == {i \in 1..Len(s) : s[i] = e}
               k == Min(I)
               p == SubSeq(s, 1, k - 1)
               q == SubSeq(s, k + 1, Len(s))
               r == p \o q
    <2>1. k \in 1..Len(s) /\ s[k] = e
      <3>1. I # {} /\ I \subseteq Nat \ {0}
        BY <1>2
      <3> QED
        BY <3>1, LeastOfNaturals
    <2>2. RemoveFirst(s, e) = r
      <3>1. SelectInSeq(s, LAMBDA v : v = e) = k
        BY <1>2 DEF SelectInSeq
      <3> QED
        BY <1>2, <3>1 DEF RemoveFirst, RemoveAt
    <2> HIDE DEF I, k
    <2>3. Len(s) \in Nat /\ k - 1 \in Nat /\ k + 1 \in Nat \ {0} /\ k - 1 =< Len(s)
      BY <2>1
    <2>4. /\ p \in Seq(S) /\ Len(p) = k - 1
          /\ \A j \in 1..k - 1 : p[j] = s[j]
      BY <2>1, <2>3, SubSeqByIndex
    <2>5. /\ q \in Seq(S) /\ Len(q) = Len(s) - k
          /\ \A j \in 1..Len(s) - k : q[j] = s[k + j]
      BY <2>1, <2>3, SubSeqByIndex
    <2> HIDE DEF p, q
    <2>6. /\ r \in Seq(S)
          /\ Len(r) = Len(s) - 1
          /\ \A j \in 1..k - 1 : r[j] = p[j]
          /\ \A j \in 1..Len(s) - k : r[k - 1 + j] = q[j]
      <3>1. /\ r \in Seq(S)
            /\ Len(r) = Len(p) + Len(q)
            /\ \A j \in 1..Len(p) : r[j] = p[j]
            /\ \A j \in 1..Len(q) : r[Len(p) + j] = q[j]
        <4>1. p \in Seq(S) /\ q \in Seq(S)
          BY <2>4, <2>5
        <4> QED
          BY <4>1
      <3> QED
        BY <2>1, <2>3, <2>4, <2>5, <3>1
    <2> HIDE DEF r
    <2>7. \A i \in 1..Len(s) : s[i] # e => \E j \in 1..Len(r) : r[j] = s[i]
      <3> SUFFICES ASSUME NEW i \in 1..Len(s), s[i] # e
                   PROVE  \E j \in 1..Len(r) : r[j] = s[i]
        OBVIOUS
      <3>1. CASE i < k
        <4>1. i \in 1..Len(r) /\ r[i] = s[i]
          BY <2>1, <2>3, <2>4, <2>6, <3>1
        <4> QED
          BY <4>1
      <3>2. CASE i > k
        <4>1. i - k \in 1..Len(s) - k /\ i - 1 \in 1..Len(r)
          BY <2>1, <2>3, <2>6, <3>2
        <4>2. k - 1 + (i - k) = i - 1 /\ k + (i - k) = i
          BY <2>1
        <4>3. r[i - 1] = s[i]
          BY <2>5, <2>6, <4>1, <4>2
        <4> QED
          BY <4>1, <4>3
      <3> QED
        BY <2>1, <3>1, <3>2
    <2> QED
      BY <2>2, <2>6, <2>7
  <1> QED
    BY <1>1, <1>2

------------------------------------------------------------------------------
\* What the operations of an observer keep, for listeners from any set L.

\* A new observer, and a destroyed one, have no listeners.
LEMMA EmptyObservers ==
    ASSUME NEW L
    PROVE  /\ newObserver \in Observers(L) /\ destroyedObserver \in Observers(L)
           /\ newObserver.alive = TRUE /\ newObserver.listeners = <<>>
           /\ destroyedObserver.alive = FALSE /\ destroyedObserver.listeners = <<>>
  <1>1. <<>> \in Seq(L)
    BY EmptySeq
  <1> QED
    BY <1>1 DEF newObserver, destroyedObserver, Observers

\* Listening keeps the type of the observer and lets nobody destroy it.
LEMMA ListenKeeps ==
    ASSUME NEW L, NEW o \in Observers(L), NEW x \in L
    PROVE  /\ listenEvent(o, x) \in Observers(L)
           /\ listenEvent(o, x).alive = o.alive
           /\ listenEvent(o, x).listeners = Append(o.listeners, x)
  <1>1. o.listeners \in Seq(L) /\ o.alive \in BOOLEAN
    BY DEF Observers
  <1>2. Append(o.listeners, x) \in Seq(L)
    BY <1>1
  <1>3. listenEvent(o, x) = [o EXCEPT !.listeners = Append(o.listeners, x)]
    BY DEF listenEvent
  <1> QED
    BY <1>1, <1>2, <1>3 DEF Observers

\* Who was known before a listener is added, and the new one, are known after.
LEMMA ListenKnows ==
    ASSUME NEW L, NEW o \in Observers(L), NEW x \in L, NEW y,
           y = x \/ \E i \in 1..Len(o.listeners) : o.listeners[i] = y
    PROVE  \E j \in 1..Len(listenEvent(o, x).listeners) : listenEvent(o, x).listeners[j] = y
  <1> DEFINE s == o.listeners
             t == Append(s, x)
  <1>1. s \in Seq(L) /\ listenEvent(o, x).listeners = t
    <2>1. s \in Seq(L)
      BY DEF Observers
    <2>2. listenEvent(o, x).listeners = Append(o.listeners, x)
      BY ListenKeeps
    <2> QED
      BY <2>1, <2>2
  <1>2. y = x \/ \E i \in 1..Len(s) : s[i] = y
    OBVIOUS
  <1> HIDE DEF s
  <1>3. /\ Len(s) \in Nat /\ Len(t) = Len(s) + 1 /\ t[Len(s) + 1] = x
        /\ \A i \in 1..Len(s) : t[i] = s[i]
    BY <1>1, AppendByIndex
  <1> HIDE DEF t
  <1>4. Len(s) + 1 \in 1..Len(t) /\ \A i \in 1..Len(s) : i \in 1..Len(t)
    BY <1>3
  <1>5. \E j \in 1..Len(t) : t[j] = y
    BY <1>2, <1>3, <1>4
  <1> QED
    BY <1>1, <1>5

\* Removing keeps every listener that is not equal to the one removed.
LEMMA RemoveKeeps ==
    ASSUME NEW L, NEW o \in Observers(L), NEW x
    PROVE  /\ removeListener(o, x) \in Observers(L)
           /\ removeListener(o, x).alive = o.alive
           /\ o.listeners = <<>> => removeListener(o, x).listeners = <<>>
           /\ \A i \in 1..Len(o.listeners) : o.listeners[i] # x =>
                \E j \in 1..Len(removeListener(o, x).listeners) :
                    removeListener(o, x).listeners[j] = o.listeners[i]
  <1>1. o.listeners \in Seq(L)
    BY DEF Observers
  <1>2. RemoveFirst(o.listeners, x) \in Seq(L)
    BY <1>1, RemoveFirstKeepsOthers
  <1>3. /\ removeListener(o, x) \in Observers(L)
        /\ removeListener(o, x).alive = o.alive
        /\ removeListener(o, x).listeners = RemoveFirst(o.listeners, x)
    BY <1>2 DEF removeListener, Observers
  <1>4. o.listeners = <<>> => RemoveFirst(o.listeners, x) = <<>>
    BY DEF RemoveFirst
  <1>5. \A i \in 1..Len(o.listeners) : o.listeners[i] # x =>
            \E j \in 1..Len(RemoveFirst(o.listeners, x)) :
                RemoveFirst(o.listeners, x)[j] = o.listeners[i]
    BY <1>1, RemoveFirstKeepsOthers
  <1> QED
    BY <1>3, <1>4, <1>5

==============================================================================
