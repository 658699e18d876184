---------------------------- MODULE DataInduction ---------------------------
(***************************************************************************)
(* Induction on numbers, on the length of a sequence and on finite sets,    *)
(* with sets in the place of predicates, and the existence of functions     *)
(* that are defined by recursion.  The proofs about what the models compute *)
(* from data rest on these lemmas.                                          *)
(***************************************************************************)
EXTENDS Naturals, Sequences, FiniteSetTheorems, TLAPS

(* A set of natural numbers that is not empty has a least element.          *)
LEMMA LeastNumber ==
  ASSUME NEW S \in SUBSET Nat, S # {}
  PROVE  \E m \in S : \A k \in S : m <= k
<1> DEFINE R == {ss \in Nat \X Nat : ss[1] < ss[2]}
<1>1. IsWellFoundedOn(R, Nat)
  BY NatLessThanWellFounded DEF OpToRel
<1>2. \E x \in S : \A y \in S : ~ (<<y, x>> \in R)
  <2> HIDE DEF R
  <2> QED
    BY <1>1, WFMin
<1>3. PICK m \in S : \A y \in S : ~ (<<y, m>> \in R)
  BY <1>2
<1>4. ASSUME NEW k \in S PROVE m <= k
  <2>1. m \in Nat /\ k \in Nat
    OBVIOUS
  <2>2. <<k, m>> \in Nat \X Nat /\ <<k, m>>[1] = k /\ <<k, m>>[2] = m
    BY <2>1
  <2>3. ~ (k < m)
    BY <1>3, <2>2
  <2> QED
    BY <2>1, <2>3
<1> QED
  BY <1>4

(* A set with 0 that has the successor of each of its numbers has them all. *)
LEMMA NumberInduction ==
  ASSUME NEW S, 0 \in S, \A n \in Nat : n \in S => n + 1 \in S
  PROVE  Nat \subseteq S
<1> SUFFICES ASSUME Nat \ S # {} PROVE FALSE
  OBVIOUS
<1>1. PICK m \in Nat \ S : \A k \in Nat \ S : m <= k
  BY LeastNumber
<1>2. m # 0
  OBVIOUS
<1>3. m - 1 \in Nat /\ m - 1 \in S
  BY <1>1, <1>2
<1> QED
  BY <1>3

(* A set with the empty sequence that has, with a sequence, all those that  *)
(* are longer by one element, has every sequence.                           *)
LEMMA SequenceInduction ==
  ASSUME NEW T, NEW S, <<>> \in S, \A s \in Seq(T) : \A e \in T : s \in S => Append(s, e) \in S
  PROVE  Seq(T) \subseteq S
<1> DEFINE N == {n \in Nat : \A s \in Seq(T) : Len(s) = n => s \in S}
<1>1. 0 \in N
  OBVIOUS
<1>2. ASSUME NEW n \in Nat, n \in N PROVE n + 1 \in N
  <2> SUFFICES ASSUME NEW s \in Seq(T), Len(s) = n + 1 PROVE s \in S
    OBVIOUS
  <2> DEFINE front == [i \in 1 .. n |-> s[i]]
  <2>1. front \in Seq(T) /\ Len(front) = n
    OBVIOUS
  <2>2. s[n + 1] \in T
    OBVIOUS
  <2>3. s = Append(front, s[n + 1])
    OBVIOUS
  <2> HIDE DEF front
  <2>4. front \in S
    BY <1>2, <2>1
  <2> QED
    BY <2>1, <2>2, <2>3, <2>4
<1> HIDE DEF N
<1>3. Nat \subseteq N
  BY <1>1, <1>2, NumberInduction
<1>4. ASSUME NEW s \in Seq(T) PROVE s \in S
  <2>1. Len(s) \in N
    BY <1>3
  <2> QED
    BY <2>1 DEF N
<1> QED
  BY <1>4

(* A family of subsets of a finite set that is not empty has a member that  *)
(* no other member contains.                                                *)
LEMMA MaximalSet ==
  ASSUME NEW U, IsFiniteSet(U), NEW F \in SUBSET (SUBSET U), F # {}
  PROVE  \E M \in F : \A V \in F : M \subseteq V => V = M
<1> DEFINE N == {Cardinality(U \ V) : V \in F}
<1>1. \A V \in F : Cardinality(U \ V) \in Nat
  BY FS_Difference, FS_CardinalityType
<1>2. N \in SUBSET Nat /\ N # {}
  BY <1>1
<1>3. PICK m \in N : \A k \in N : m <= k
  BY <1>2, LeastNumber
<1>4. PICK M \in F : m = Cardinality(U \ M)
  OBVIOUS
<1>5. ASSUME NEW V \in F, M \subseteq V PROVE V = M
  <2>1. U \ V \in SUBSET (U \ M) /\ IsFiniteSet(U \ M)
    BY <1>5, FS_Difference
  <2>2. /\ Cardinality(U \ V) <= Cardinality(U \ M)
        /\ Cardinality(U \ M) = Cardinality(U \ V) => U \ M = U \ V
    BY <2>1, FS_Subset
  <2>3. Cardinality(U \ M) <= Cardinality(U \ V)
    BY <1>3, <1>4
  <2>4. Cardinality(U \ V) = Cardinality(U \ M)
    BY <1>1, <2>2, <2>3
  <2>5. U \ M = U \ V
    BY <2>2, <2>4
  <2> QED
    BY <1>5, <2>5
<1> QED
  BY <1>5

(* The functions that are defined by recursion along 0 .. n.                *)
Follows(f, n, base, step) ==
  f = [i \in 0 .. n |-> IF i = 0 THEN base ELSE step[<<i, f[i - 1]>>]]

(* One exists, and stays in the set T if its step does.                     *)
LEMMA RecursionExists ==
  ASSUME NEW T, NEW n \in Nat, NEW base \in T, NEW step \in [(1 .. n) \X T -> T]
  PROVE  \E f \in [0 .. n -> T] : Follows(f, n, base, step)
<1> USE DEF Follows
<1> DEFINE Eq(f, k) == Follows(f, k, base, step)
           S == {k \in Nat : k <= n => \E f \in [0 .. k -> T] : Eq(f, k)}
<1>1. 0 \in S
  <2>1. [i \in 0 .. 0 |-> base] \in [0 .. 0 -> T] /\ Eq([i \in 0 .. 0 |-> base], 0)
    OBVIOUS
  <2> QED
    BY <2>1
<1>2. ASSUME NEW k \in Nat, k \in S PROVE k + 1 \in S
  <2> SUFFICES ASSUME k + 1 <= n PROVE \E f \in [0 .. k + 1 -> T] : Eq(f, k + 1)
    OBVIOUS
  <2>1. PICK f \in [0 .. k -> T] : Eq(f, k)
    BY <1>2
  <2> DEFINE g == [i \in 0 .. k + 1 |-> IF i = 0 THEN base ELSE step[<<i, f[i - 1]>>]]
  <2>2. \A i \in 0 .. k : f[i] = IF i = 0 THEN base ELSE step[<<i, f[i - 1]>>]
    BY <2>1
  <2>3. \A i \in 0 .. k : g[i] = f[i]
    BY <2>2
  <2>4. g \in [0 .. k + 1 -> T]
    <3>1. ASSUME NEW i \in 1 .. k + 1 PROVE step[<<i, f[i - 1]>>] \in T
      <4>1. i - 1 \in 0 .. k /\ i \in 1 .. n
        OBVIOUS
      <4>2. <<i, f[i - 1]>> \in (1 .. n) \X T
        BY <4>1
      <4> QED
        BY <4>2
    <3> QED
      BY <3>1
  <2>5. ASSUME NEW i \in 0 .. k + 1, i # 0 PROVE g[i - 1] = f[i - 1]
    <3> HIDE DEF g
    <3>1. i - 1 \in 0 .. k
      BY <2>5
    <3> QED
      BY <2>3, <3>1
  <2>6. Eq(g, k + 1)
    BY <2>5
  <2> QED
    BY <2>4, <2>6
<1> HIDE DEF S
<1>3. n \in S
  BY <1>1, <1>2, NumberInduction
<1> QED
  BY <1>3 DEF S
==============================================================================
