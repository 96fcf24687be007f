----------------------------- MODULE Induction -----------------------------
(***************************************************************************)
(* Facts about numbers and sequences that the proofs share: the largest and *)
(* the least of a set of numbers, induction on a set of numbers, and that a *)
(* fold over a sequence is defined.  An id one larger than all those in use *)
(* is a new one (SQLite's INSERT without a given id).                      *)
(***************************************************************************)
EXTENDS Integers, Sequences, FiniteSetsExt, WellFoundedInduction, TLAPS

\* Max of a non-empty set of numbers up to N is its largest element.
LEMMA MaxFacts ==
  ASSUME NEW N \in Nat, NEW S \in SUBSET (0..N), S # {}
  PROVE  Max(S) \in S /\ \A y \in S : Max(S) >= y
  <1> DEFINE R == {p \in Nat \X Nat : p[1] < p[2]}
             T == {N - x : x \in S}
  <1>1. IsWellFoundedOn(R, Nat)
    <2>1. IsWellFoundedOn(OpToRel(<, Nat), Nat)
      BY NatLessThanWellFounded
    <2>2. R \cap (Nat \X Nat) \subseteq OpToRel(<, Nat)
      BY DEF OpToRel
    <2> QED
      BY <2>1, <2>2, IsWellFoundedOnSubrelation
  <1>2. T \subseteq Nat /\ T # {}
    <2>1. \A x \in S : N - x \in Nat
      OBVIOUS
    <2>2. PICK x \in S : TRUE
      OBVIOUS
    <2>3. N - x \in T
      OBVIOUS
    <2> QED
      BY <2>1, <2>3
  <1>3. PICK t \in T : \A u \in T : ~(<<u, t>> \in R)
    BY <1>1, <1>2, WFMin
  <1>4. PICK x \in S : t = N - x
    OBVIOUS
  <1>5. \A y \in S : x >= y
    <2> SUFFICES ASSUME NEW y \in S PROVE x >= y
      OBVIOUS
    <2>1. N - y \in T /\ N - y \in Nat /\ N - x \in Nat
      BY <1>2, <1>4
    <2>2. ~(<<N - y, N - x>> \in R)
      BY <1>3, <1>4, <2>1
    <2>3. ~(N - y < N - x)
      BY <2>1, <2>2
    <2> QED
      BY <2>1, <2>3
  <1> QED
    BY <1>5 DEF Max

\* A non-empty set of numbers has a least one.
LEMMA LeastFacts ==
  ASSUME NEW S \in SUBSET Nat, S # {}
  PROVE  \E x \in S : \A y \in S : x <= y
  <1> DEFINE R == {p \in Nat \X Nat : p[1] < p[2]}
  <1>1. IsWellFoundedOn(R, Nat)
    <2>1. IsWellFoundedOn(OpToRel(<, Nat), Nat)
      BY NatLessThanWellFounded
    <2>2. R \cap (Nat \X Nat) \subseteq OpToRel(<, Nat)
      BY DEF OpToRel
    <2> QED
      BY <2>1, <2>2, IsWellFoundedOnSubrelation
  <1>2. PICK x \in S : \A y \in S : ~(<<y, x>> \in R)
    BY <1>1, WFMin
  <1>3. \A y \in S : ~(y < x)
    BY <1>2
  <1> QED
    BY <1>3

\* Which Min is.
LEMMA MinFacts ==
  ASSUME NEW S \in SUBSET Nat, S # {}
  PROVE  Min(S) \in S /\ \A y \in S : Min(S) <= y
  BY LeastFacts DEF Min

-----------------------------------------------------------------------------
(* Induction, on a set of numbers: the provers cannot use the library's    *)
(* theorems, whose parameter is an operator.                               *)

\* A set that has 0 and, with a number, the next one.
LEMMA NatSetInduction ==
  ASSUME NEW S, 0 \in S, \A n \in Nat : n \in S => n + 1 \in S
  PROVE  Nat \subseteq S
  <1> SUFFICES ASSUME ~(Nat \subseteq S) PROVE FALSE
    OBVIOUS
  <1>1. Nat \ S # {} /\ Nat \ S \in SUBSET Nat
    OBVIOUS
  <1>2. PICK x \in Nat \ S : \A y \in Nat \ S : x <= y
    BY <1>1, LeastFacts
  <1>3. x # 0 /\ x - 1 \in Nat /\ x - 1 \in S
    BY <1>2
  <1> QED
    BY <1>2, <1>3

\* The same up to a bound.
LEMMA RangeInduction ==
  ASSUME NEW S, NEW N \in Nat, 0 \in S,
         \A n \in 0..(N - 1) : n \in S => n + 1 \in S
  PROVE  0..N \subseteq S
  <1> DEFINE T == {n \in Nat : n <= N => n \in S}
  <1>1. 0 \in T
    OBVIOUS
  <1>2. \A n \in Nat : n \in T => n + 1 \in T
    OBVIOUS
  <1> HIDE DEF T
  <1>3. Nat \subseteq T
    BY <1>1, <1>2, NatSetInduction
  <1> USE DEF T
  <1> QED
    BY <1>3

-----------------------------------------------------------------------------
(* Folds over a sequence.  The definition of FoldLeft recurs on subsets of *)
(* the domain, taking the largest index off; that a function with this     *)
(* equation exists is what makes the definition mean something.  `step' is *)
(* the operator that is folded, as a function.                             *)

\* What the largest index of a prefix is, and of which prefix it is the next.
LEMMA PrefixFacts ==
  ASSUME NEW k \in Nat \ {0}
  PROVE  1..k # {} /\ Max(1..k) = k /\ (1..k) \ {k} = 1..(k - 1)
  <1>1. 1..k # {} /\ k \in 1..k /\ 1..k \in SUBSET (0..k)
    OBVIOUS
  <1>2. Max(1..k) \in 1..k /\ \A y \in 1..k : Max(1..k) >= y
    BY <1>1, MaxFacts
  <1>3. Max(1..k) = k
    BY <1>1, <1>2
  <1> QED
    BY <1>1, <1>3

\* The equation, for the first N indexes.
Unrolling(it, N, Values, base, step) ==
  /\ it \in [SUBSET (1..N) -> Values]
  /\ \A s \in SUBSET (1..N) :
       it[s] = IF s = {} THEN base ELSE step[<<Max(s), it[s \ {Max(s)}]>>]

\* Such a function exists.
LEMMA FoldDefined ==
  ASSUME NEW N \in Nat, NEW Values, NEW base \in Values,
         NEW step \in [(1..N) \X Values -> Values]
  PROVE  \E it : Unrolling(it, N, Values, base, step)
  <1> DEFINE Unrolls(it, n) ==
               /\ it \in [SUBSET (1..n) -> Values]
               /\ \A s \in SUBSET (1..n) :
                    it[s] = IF s = {} THEN base ELSE step[<<Max(s), it[s \ {Max(s)}]>>]
             Defined == {n \in 0..N : \E it : Unrolls(it, n)}
  <1>1. 0 \in Defined
    <2> DEFINE it == [s \in SUBSET (1..0) |-> base]
    <2>1. SUBSET (1..0) = {{}}
      OBVIOUS
    <2>2. Unrolls(it, 0)
      BY <2>1
    <2> HIDE DEF it, Unrolls
    <2> QED
      BY <2>2
  <1>2. ASSUME NEW n \in 0..(N - 1), n \in Defined PROVE n + 1 \in Defined
    <2> DEFINE m == n + 1
    <2>1. PICK it : Unrolls(it, n)
      BY <1>2
    <2> DEFINE more == [s \in SUBSET (1..m) |->
                          IF m \in s THEN step[<<m, it[s \ {m}]>>] ELSE it[s]]
    <2>2. m \in 1..N /\ \A s \in SUBSET (1..m) : s \ {m} \in SUBSET (1..n)
      OBVIOUS
    <2>3. \A s \in SUBSET (1..m) : m \notin s => s \in SUBSET (1..n)
      BY <2>2
    <2>4. \A s \in SUBSET (1..n) : it[s] \in Values
      BY <2>1
    <2>5. more \in [SUBSET (1..m) -> Values]
      <3> SUFFICES ASSUME NEW s \in SUBSET (1..m)
                   PROVE  (IF m \in s THEN step[<<m, it[s \ {m}]>>] ELSE it[s]) \in Values
        OBVIOUS
      <3>1. it[s \ {m}] \in Values /\ (m \notin s => it[s] \in Values)
        BY <2>2, <2>3, <2>4
      <3>2. <<m, it[s \ {m}]>> \in (1..N) \X Values
        BY <2>2, <3>1
      <3>3. step[<<m, it[s \ {m}]>>] \in Values
        BY <3>2
      <3> QED
        BY <3>1, <3>3
    <2>6. ASSUME NEW s \in SUBSET (1..m)
          PROVE  more[s] = IF s = {} THEN base ELSE step[<<Max(s), more[s \ {Max(s)}]>>]
      <3>1. CASE m \in s
        <4>1. Max(s) = m
          <5>1. m \in Nat /\ s \in SUBSET (0..m) /\ s # {}
            BY <3>1
          <5>2. Max(s) \in s /\ \A y \in s : Max(s) >= y
            BY <5>1, MaxFacts
          <5>3. Max(s) \in 1..m /\ Max(s) >= m
            BY <3>1, <5>2
          <5> QED
            BY <5>1, <5>3
        <4>2. s \ {m} \in SUBSET (1..m) /\ m \notin s \ {m}
          OBVIOUS
        <4>3. more[s \ {m}] = it[s \ {m}]
          BY <4>2
        <4>4. more[s] = step[<<m, it[s \ {m}]>>]
          BY <3>1
        <4> HIDE DEF more
        <4> QED
          BY <3>1, <4>1, <4>3, <4>4
      <3>2. CASE m \notin s
        <4>1. s \in SUBSET (1..n)
          BY <2>3, <3>2
        <4>2. s \ {Max(s)} \in SUBSET (1..n) /\ s \ {Max(s)} \in SUBSET (1..m) /\ m \notin s \ {Max(s)}
          BY <3>2, <4>1
        <4>3. more[s] = it[s] /\ more[s \ {Max(s)}] = it[s \ {Max(s)}]
          BY <3>2, <4>2
        <4>4. it[s] = IF s = {} THEN base ELSE step[<<Max(s), it[s \ {Max(s)}]>>]
          BY <2>1, <4>1
        <4> HIDE DEF more
        <4> QED
          BY <4>3, <4>4
      <3> QED
        BY <3>1, <3>2
    <2> HIDE DEF more
    <2>7. Unrolls(more, m)
      BY <2>5, <2>6
    <2> HIDE DEF Unrolls
    <2> QED
      BY <2>2, <2>7
  <1> HIDE DEF Defined
  <1>3. 0..N \subseteq Defined
    BY <1>1, <1>2, RangeInduction
  <1> USE DEF Defined
  <1>4. PICK it : Unrolls(it, N)
    <2> HIDE DEF Unrolls
    <2> QED
      BY <1>3
  <1> QED
    BY <1>4 DEF Unrolling

\* Two histories that go on alike, wherever they agree, agree at the end.
Alike(N, f, g) == \A k \in 1..N : f[k - 1] = g[k - 1] => f[k] = g[k]

\* Then they are the same.
LEMMA SameSteps ==
  ASSUME NEW N \in Nat, NEW f, NEW g, f[0] = g[0], Alike(N, f, g)
  PROVE  f[N] = g[N]
  <1> DEFINE S == {k \in 0..N : f[k] = g[k]}
  <1>1. 0 \in S
    OBVIOUS
  <1>2. \A k \in 0..(N - 1) : k \in S => k + 1 \in S
    <2> SUFFICES ASSUME NEW k \in 0..(N - 1), k \in S PROVE k + 1 \in S
      OBVIOUS
    <2>1. k + 1 \in 1..N /\ k + 1 \in 0..N /\ (k + 1) - 1 = k
      OBVIOUS
    <2> QED
      BY <2>1 DEF Alike
  <1> HIDE DEF S
  <1>3. 0..N \subseteq S
    BY <1>1, <1>2, RangeInduction
  <1> QED
    BY <1>3 DEF S

-----------------------------------------------------------------------------
(* Sequences.                                                              *)

\* Elements of a sequence.
LEMMA ElementTyped ==
  ASSUME NEW T, NEW s \in Seq(T)
  PROVE  DOMAIN s = 1..Len(s) /\ Len(s) \in Nat /\ \A i \in DOMAIN s : s[i] \in T
  OBVIOUS

\* A function of the numbers up to n is a sequence.
LEMMA FunctionIsSeq ==
  ASSUME NEW T, NEW n \in Nat, NEW f \in [1..n -> T]
  PROVE  f \in Seq(T) /\ Len(f) = n
  OBVIOUS

\* Parts of a sequence.
LEMMA HeadTailTyped ==
  ASSUME NEW T, NEW s \in Seq(T), s # <<>>
  PROVE  Head(s) \in T /\ Tail(s) \in Seq(T)
  OBVIOUS

\* A prefix of a sequence, and the next longer one.
LEMMA PrefixMore ==
  ASSUME NEW X, NEW lines \in Seq(X), NEW k \in 0..(Len(lines) - 1)
  PROVE  /\ SubSeq(lines, 1, k) \in Seq(X) /\ Len(SubSeq(lines, 1, k)) = k
         /\ lines[k + 1] \in X
         /\ SubSeq(lines, 1, k + 1) = Append(SubSeq(lines, 1, k), lines[k + 1])
  OBVIOUS

\* The empty prefix, and the whole sequence.
LEMMA PrefixEnds ==
  ASSUME NEW X, NEW lines \in Seq(X)
  PROVE  SubSeq(lines, 1, 0) = <<>> /\ SubSeq(lines, 1, Len(lines)) = lines /\ Len(lines) \in Nat
  OBVIOUS

=============================================================================
