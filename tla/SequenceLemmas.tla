--------------------------- MODULE SequenceLemmas ---------------------------
(* Facts about numbers, sequences and finite sets that the proofs of       *)
(* several components rest on.                                             *)
EXTENDS Integers, SequencesExt, SequenceTheorems, FiniteSetTheorems, TLAPS

(* The least-number principle, which stands in for induction: a set of     *)
(* counterexamples has a smallest one.                                     *)
LEMMA LeastNumber ==
    ASSUME NEW T \in SUBSET Nat, T # {}
    PROVE  \E n \in T : \A k \in T : n <= k
<1> DEFINE R == OpToRel(<, Nat)
<1>1. IsWellFoundedOn(R, Nat)
  BY NatLessThanWellFounded, Zenon
<1>2. \E x \in T : \A y \in T : ~(<<y, x>> \in R)
  <2> HIDE DEF R
  <2> QED BY <1>1, WFMin
<1>3. \A x, y \in T : ~(<<y, x>> \in R) => x <= y
  BY DEF OpToRel
<1> QED BY <1>2, <1>3

(* Induction up to n, about a set. *)
LEMMA UpTo ==
    ASSUME NEW n \in Nat, NEW G, 0 \in G, \A k \in 0..(n - 1) : k \in G => k + 1 \in G
    PROVE  \A k \in 0..n : k \in G
<1> DEFINE Bad == (0..n) \ G
<1>1. ASSUME Bad # {} PROVE FALSE
  <2>1. PICK k \in Bad : \A l \in Bad : k <= l
    <3>1. Bad \in SUBSET Nat
      OBVIOUS
    <3> HIDE DEF Bad
    <3> QED BY <1>1, <3>1, LeastNumber
  <2>2. k \in 1..n /\ k \notin G
    BY <2>1
  <2>3. k - 1 \in 0..(n - 1) /\ k - 1 \in 0..n /\ ~(k <= k - 1) /\ (k - 1) + 1 = k
    BY <2>2
  <2>4. k - 1 \in G
    BY <2>1, <2>3
  <2> QED BY <2>2, <2>3, <2>4
<1> QED BY <1>1

(* A linear recurrence has a solution, which is what the recursive         *)
(* functions of the models choose.                                         *)
LEMMA Recurrence ==
    ASSUME NEW n \in Nat, NEW z \in Int, NEW m \in Int, NEW c \in [1..n -> Int]
    PROVE  \E h \in [0..n -> Int] : h[0] = z /\ \A i \in 1..n : h[i] = h[i - 1] * m + c[i]
<1> DEFINE Good(k) == \E h \in [0..k -> Int] :
                         h[0] = z /\ \A i \in 1..k : h[i] = h[i - 1] * m + c[i]
<1>1. Good(0)
  <2> DEFINE h == [i \in 0..0 |-> z]
  <2>1. h \in [0..0 -> Int] /\ h[0] = z
    OBVIOUS
  <2>2. \A i \in 1..0 : h[i] = h[i - 1] * m + c[i]
    OBVIOUS
  <2> HIDE DEF h
  <2> QED BY <2>1, <2>2
<1>2. ASSUME NEW k \in 0..(n - 1), Good(k) PROVE Good(k + 1)
  <2>1. PICK g \in [0..k -> Int] : g[0] = z /\ \A i \in 1..k : g[i] = g[i - 1] * m + c[i]
    BY <1>2
  <2> DEFINE new == g[k] * m + c[k + 1]
             h == [i \in 0..(k + 1) |-> IF i = k + 1 THEN new ELSE g[i]]
  <2>2. new \in Int
    <3>1. g[k] \in Int /\ c[k + 1] \in Int
      BY <2>1
    <3> QED BY <3>1
  <2>3. h \in [0..(k + 1) -> Int] /\ h[k + 1] = new /\ \A i \in 0..k : h[i] = g[i]
    <3> HIDE DEF new
    <3> QED BY <2>1, <2>2
  <2>4. \A i \in 1..(k + 1) : h[i] = h[i - 1] * m + c[i]
    <3>1. h[k] = g[k] /\ (k + 1) - 1 = k
      BY <2>3
    <3>2. \A i \in 1..k : h[i] = g[i] /\ h[i - 1] = g[i - 1]
      BY <2>3
    <3>3. \A i \in 1..(k + 1) : i = k + 1 \/ i \in 1..k
      OBVIOUS
    <3> HIDE DEF h
    <3> QED BY <2>1, <2>3, <3>1, <3>2, <3>3
  <2>5. h[0] = z
    BY <2>1, <2>3
  <2> HIDE DEF h
  <2> QED BY <2>3, <2>4, <2>5
<1> HIDE DEF Good
<1> DEFINE G == {k \in 0..n : Good(k)}
<1>3. 0 \in G /\ \A k \in 0..(n - 1) : k \in G => k + 1 \in G
  BY <1>1, <1>2
<1>4. \A k \in 0..n : k \in G
  <2> HIDE DEF G
  <2> QED BY <1>3, UpTo
<1>5. Good(n)
  BY <1>4
<1> QED BY <1>5 DEF Good

(* What starts an integer and stays one from step to step is one. *)
LEMMA IntegersThroughout ==
    ASSUME NEW n \in Nat, NEW h, h = [i \in 0..n |-> h[i]], h[0] \in Int,
           \A i \in 1..n : h[i - 1] \in Int => h[i] \in Int
    PROVE  h \in [0..n -> Int]
<1> DEFINE G == {i \in 0..n : h[i] \in Int}
<1>1. 0 \in G /\ \A i \in 0..(n - 1) : i \in G => i + 1 \in G
  <2> SUFFICES ASSUME NEW i \in 0..(n - 1), h[i] \in Int PROVE h[i + 1] \in Int
    OBVIOUS
  <2>1. i + 1 \in 1..n /\ (i + 1) - 1 = i
    OBVIOUS
  <2> QED BY <2>1
<1>2. \A i \in 0..n : i \in G
  <2> HIDE DEF G
  <2> QED BY <1>1, UpTo
<1> QED BY <1>2

(* SetToSeq lists a finite set, each element once. *)
LEMMA SetToSeqEnumerates ==
    ASSUME NEW S, IsFiniteSet(S)
    PROVE  /\ SetToSeq(S) \in Seq(S)
           /\ Len(SetToSeq(S)) = Cardinality(S)
           /\ Cardinality(S) \in Nat
<1>1. Cardinality(S) \in Nat /\ ExistsBijection(1..Cardinality(S), S)
  BY FS_CardinalityType
<1>2. \E f \in [1..Cardinality(S) -> S] : IsInjective(f)
  BY <1>1 DEF ExistsBijection, Bijection, Injection
<1>3. SetToSeq(S) \in [1..Cardinality(S) -> S]
  BY <1>2 DEF SetToSeq
<1> QED BY <1>1, <1>3

(* A sequence without repetitions is as long as its range is large. *)
LEMMA InjectiveRange ==
    ASSUME NEW S, NEW s \in Seq(S), IsInjective(s)
    PROVE  IsFiniteSet(ToSet(s)) /\ Cardinality(ToSet(s)) = Len(s)
<1>1. Len(s) \in Nat /\ DOMAIN s = 1..Len(s)
  OBVIOUS
<1>2. s \in Bijection(1..Len(s), ToSet(s))
  BY <1>1 DEF Bijection, Injection, Surjection, ToSet
<1>3. ExistsBijection(1..Len(s), ToSet(s))
  BY <1>2 DEF ExistsBijection
<1> QED BY <1>1, <1>3, FS_NatBijection, FS_CountingElements

(* The range of a sequence, by its indices, and what Append adds to it. *)
LEMMA ToSetOfSeq ==
    ASSUME NEW S, NEW s \in Seq(S)
    PROVE  /\ ToSet(s) \subseteq S
           /\ s \in Seq(ToSet(s))
           /\ \A x : x \in ToSet(s) <=> \E i \in 1..Len(s) : s[i] = x
<1>1. DOMAIN s = 1..Len(s)
  OBVIOUS
<1>2. s \in [1..Len(s) -> ToSet(s)]
  BY <1>1 DEF ToSet
<1> QED BY <1>1, <1>2 DEF ToSet

LEMMA AppendFresh ==
    ASSUME NEW S, NEW s \in Seq(S), IsInjective(s), NEW x \in S, x \notin ToSet(s)
    PROVE  /\ Append(s, x) \in Seq(S)
           /\ IsInjective(Append(s, x))
           /\ ToSet(Append(s, x)) = ToSet(s) \cup {x}
           /\ Len(Append(s, x)) = Len(s) + 1
<1> DEFINE t == Append(s, x)
<1>1. /\ t \in Seq(S) /\ Len(t) = Len(s) + 1 /\ Len(s) \in Nat
      /\ DOMAIN t = 1..(Len(s) + 1) /\ DOMAIN s = 1..Len(s)
      /\ \A i \in 1..Len(s) : t[i] = s[i]
      /\ t[Len(s) + 1] = x
  OBVIOUS
<1> HIDE DEF t
<1>2. \A i \in 1..Len(s) : s[i] # x
  BY <1>1 DEF ToSet
<1>3. IsInjective(t)
  <2> SUFFICES ASSUME NEW i \in 1..(Len(s) + 1), NEW j \in 1..(Len(s) + 1), t[i] = t[j]
               PROVE  i = j
    BY <1>1 DEF IsInjective
  <2>1. CASE i \in 1..Len(s) /\ j \in 1..Len(s)
    BY <2>1, <1>1 DEF IsInjective
  <2>2. CASE i = Len(s) + 1 \/ j = Len(s) + 1
    BY <2>2, <1>1, <1>2
  <2> QED BY <2>1, <2>2, <1>1
<1>4. ToSet(t) = ToSet(s) \cup {x}
  <2>1. \A i \in DOMAIN t : i \in DOMAIN s \/ i = Len(s) + 1
    BY <1>1
  <2>2. \A i \in DOMAIN s : i \in DOMAIN t /\ t[i] = s[i]
    BY <1>1
  <2>3. Len(s) + 1 \in DOMAIN t
    BY <1>1
  <2> QED BY <2>1, <2>2, <2>3, <1>1 DEF ToSet
<1> QED BY <1>1, <1>3, <1>4 DEF t

=============================================================================
