------------------------------ MODULE Counting -------------------------------
(***************************************************************************)
(* Induction on numbers, stated with sets.  The proofs need it for what    *)
(* the code does in a loop and the model in one step.                      *)
(***************************************************************************)
EXTENDS Integers, Sequences, SequencesExt, WellFoundedInduction, TLAPS

Below == {p \in Nat \X Nat : p[1] < p[2]}

(* A set of numbers that is not empty has a least one.                      *)
LEMMA Least ==
  ASSUME NEW T \in SUBSET Nat, T # {}
  PROVE  \E n \in T : \A m \in T : n <= m
<1>1. OpToRel(<, Nat) = Below
  BY DEF OpToRel, Below
<1>2. IsWellFoundedOn(Below, Nat)
  BY ZenonT(60), <1>1, NatLessThanWellFounded
<1>3. PICK n \in T : \A m \in T : ~(<<m, n>> \in Below)
  BY <1>2, WFMin
<1>4. ASSUME NEW m \in T PROVE n <= m
  <2>1. m \in Nat /\ n \in Nat
    OBVIOUS
  <2>2. <<m, n>>[1] = m /\ <<m, n>>[2] = n /\ <<m, n>> \in Nat \X Nat
    BY <2>1
  <2>3. ~(m < n)
    BY <1>3, <2>2, Zenon DEF Below
  <2>4. QED
    BY <2>1, <2>3
<1>5. QED
  BY <1>4

(* What holds of 0 and of the next number holds of every number up to n.    *)
LEMMA CountUp ==
  ASSUME NEW n \in Nat, NEW T, 0 \in T,
         \A i \in 0 .. n - 1 : i \in T => i + 1 \in T
  PROVE  0 .. n \subseteq T
<1> SUFFICES ASSUME (0 .. n) \ T # {} PROVE FALSE
  OBVIOUS
<1> DEFINE R == (0 .. n) \ T
<1>0. R \in SUBSET Nat /\ R # {}
  OBVIOUS
<1> HIDE DEF R
<1>1. PICK m \in R : \A k \in R : m <= k
  BY <1>0, Least
<1> USE DEF R
<1>2. m # 0 /\ m - 1 \in 0 .. n - 1 /\ m - 1 < m /\ (m - 1) + 1 = m
  BY <1>1
<1>3. m - 1 \in T
  BY <1>1, <1>2
<1>4. QED
  BY <1>1, <1>2, <1>3

(* Steps F[1], F[2], ..., taken one after the other from a.                 *)
Steps(n, S) == [1..n -> [S -> S]]
Iterates(g, a, F, n) == g[0] = a /\ \A i \in 1..n : g[i] = F[i][g[i - 1]]

(* A recursive function whose steps stay in S is a function into S.         *)
LEMMA Iterated ==
  ASSUME NEW n \in Nat, NEW S, NEW a \in S, NEW F \in Steps(n, S)
  PROVE  \E g \in [0..n -> S] : Iterates(g, a, F, n)
<1> DEFINE Upto(g, m) == g[0] = a /\ \A i \in 1..m : g[i] = F[i][g[i - 1]]
           T == {m \in 0..n : \E g \in [0..m -> S] : Upto(g, m)}
<1>1. 0 \in T
  <2>1. PICK g : g = [i \in 0..0 |-> a]
    OBVIOUS
  <2>2. g \in [0..0 -> S] /\ Upto(g, 0)
    BY <2>1
  <2>3. QED
    BY <2>2
<1>2. ASSUME NEW m \in 0..n - 1, m \in T PROVE m + 1 \in T
  <2>1. PICK g \in [0..m -> S] : Upto(g, m)
    BY <1>2
  <2>2. m \in 0..m /\ m + 1 \in 1..n /\ g[m] \in S /\ F[m + 1] \in [S -> S]
    BY <2>1 DEF Steps
  <2>3. PICK v \in S : v = F[m + 1][g[m]]
    BY <2>2
  <2>4. PICK h : h = [i \in 0..m + 1 |-> IF i = m + 1 THEN v ELSE g[i]]
    OBVIOUS
  <2>5. h \in [0..m + 1 -> S]
    BY <2>1, <2>3, <2>4
  <2>6. ASSUME NEW i \in 1..m + 1 PROVE h[i] = F[i][h[i - 1]]
    <3>1. CASE i = m + 1
      <4>1. h[i] = v /\ i - 1 = m /\ h[i - 1] = g[m]
        BY <2>4, <3>1
      <4>2. QED
        BY <2>3, <3>1, <4>1
    <3>2. CASE i # m + 1
      <4>1. i \in 1..m /\ h[i] = g[i] /\ h[i - 1] = g[i - 1]
        BY <2>4, <3>2
      <4>2. QED
        BY <2>1, <4>1
    <3>3. QED
      BY <3>1, <3>2
  <2>7. Upto(h, m + 1)
    <3>1. h[0] = a
      BY <2>1, <2>4
    <3>2. QED
      BY <2>6, <3>1
  <2>8. QED
    <3> HIDE DEF Upto
    <3>1. QED
      BY <2>2, <2>5, <2>7
<1>3. n \in T
  <2> HIDE DEF T
  <2>1. 0..n \subseteq T
    BY <1>1, <1>2, CountUp
  <2>2. QED
    BY <2>1
<1>4. QED
  BY <1>3 DEF Iterates

(* A concatenation of sequences is a sequence of what they are of.         *)
Joins(g, seqs, S, m) ==
  /\ g = [i \in 1..m |-> IF i = 1 THEN seqs[i] ELSE g[i - 1] \o seqs[i]]
  /\ \A i \in 1..m : g[i] \in Seq(S)

(* Sequences over S, flattened, are a sequence over S.                      *)
LEMMA FlattenSeqType ==
  ASSUME NEW S, NEW seqs \in Seq(Seq(S))
  PROVE  FlattenSeq(seqs) \in Seq(S)
<1> DEFINE n == Len(seqs)
           T == {m \in 0..n : \E g : Joins(g, seqs, S, m)}
<1>0. n \in Nat
  OBVIOUS
<1>1. 0 \in T
  <2> DEFINE g == [i \in 1..0 |-> << >>]
  <2>1. Joins(g, seqs, S, 0)
    BY DEF Joins
  <2> HIDE DEF g
  <2>2. QED
    BY <1>0, <2>1
<1>2. ASSUME NEW m \in 0..n - 1, m \in T PROVE m + 1 \in T
  <2>1. PICK g : Joins(g, seqs, S, m)
    BY <1>2
  <2> DEFINE h == [i \in 1..m + 1 |-> IF i = m + 1
                                        THEN IF i = 1 THEN seqs[i] ELSE g[m] \o seqs[i]
                                        ELSE g[i]]
  <2>2. ASSUME NEW i \in 1..m + 1
        PROVE  /\ h[i] = IF i = 1 THEN seqs[i] ELSE h[i - 1] \o seqs[i]
               /\ h[i] \in Seq(S)
    <3>0. seqs[i] \in Seq(S)
      BY <1>0
    <3>1. CASE i = m + 1 /\ i = 1
      BY <3>0, <3>1
    <3>2. CASE i = m + 1 /\ i # 1
      <4>0. m \in 1..m /\ i - 1 = m /\ m \in 1..m + 1 /\ m # m + 1
        BY <3>2
      <4>1. h[i] = g[m] \o seqs[i] /\ h[i - 1] = g[m]
        BY <3>2, <4>0
      <4>2. g[m] \in Seq(S)
        BY <2>1, <4>0 DEF Joins
      <4>3. g[m] \o seqs[i] \in Seq(S)
        BY <3>0, <4>2
      <4>4. QED
        BY <3>2, <4>1, <4>3
    <3>3. CASE i # m + 1
      <4>1. i \in 1..m /\ h[i] = g[i]
        BY <3>3
      <4>2. i # 1 => h[i - 1] = g[i - 1]
        BY <4>1
      <4>3. g[i] = IF i = 1 THEN seqs[i] ELSE g[i - 1] \o seqs[i]
        BY <2>1, <4>1 DEF Joins
      <4>4. g[i] \in Seq(S)
        BY <2>1, <4>1 DEF Joins
      <4>5. QED
        BY <4>1, <4>2, <4>3, <4>4
    <3>4. QED
      BY <3>1, <3>2, <3>3
  <2>3. h = [i \in 1..m + 1 |-> h[i]]
    OBVIOUS
  <2> HIDE DEF h
  <2>4. Joins(h, seqs, S, m + 1)
    BY <2>2, <2>3 DEF Joins
  <2>5. QED
    BY <1>0, <2>4
<1>3. n \in T
  <2> HIDE DEF T
  <2>1. 0..n \subseteq T
    BY <1>0, <1>1, <1>2, CountUp
  <2>2. QED
    BY <1>0, <2>1
<1>4. CASE n = 0
  BY <1>4 DEF FlattenSeq
<1>5. CASE n # 0
  <2> DEFINE Is(g) == g = [i \in 1..n |-> IF i = 1 THEN seqs[i] ELSE g[i - 1] \o seqs[i]]
             f == CHOOSE g : Is(g)
  <2>1. \E g : Is(g)
    BY <1>3 DEF Joins
  <2>2. Is(f)
    BY ZenonT(60), <2>1
  <2>3. FlattenSeq(seqs) = f[n]
    BY <1>5 DEF FlattenSeq
  <2>4. ASSUME NEW x, Is(x) PROVE x[n] \in Seq(S)
    <3> DEFINE U == {m \in 0..n : m = 0 \/ x[m] \in Seq(S)}
    <3>1. 0 \in U
      BY <1>0
    <3>2. ASSUME NEW m \in 0..n - 1, m \in U PROVE m + 1 \in U
      <4>1. m + 1 \in 1..n /\ m + 1 \in 0..n /\ seqs[m + 1] \in Seq(S) /\ (m + 1) - 1 = m
        BY <1>0
      <4>2. x[m + 1] = IF m = 0 THEN seqs[m + 1] ELSE x[m] \o seqs[m + 1]
        <5>1. \A i \in 1..n : x[i] = IF i = 1 THEN seqs[i] ELSE x[i - 1] \o seqs[i]
          BY <2>4
        <5>2. m + 1 = 1 <=> m = 0
          OBVIOUS
        <5>3. QED
          BY <4>1, <5>1, <5>2
      <4>a. m # 0 => x[m] \in Seq(S)
        BY <3>2
      <4>b. m # 0 => x[m] \o seqs[m + 1] \in Seq(S)
        BY <4>1, <4>a
      <4>3. x[m + 1] \in Seq(S)
        BY <4>1, <4>2, <4>b
      <4>4. QED
        BY <4>1, <4>3
    <3>3. n \in U
      <4> HIDE DEF U
      <4>1. 0..n \subseteq U
        BY <1>0, <3>1, <3>2, CountUp
      <4>2. QED
        BY <1>0, <4>1
    <3>4. QED
      BY <1>5, <3>3
  <2> HIDE DEF f
  <2>5. QED
    BY <2>2, <2>3, <2>4
<1>6. QED
  BY <1>4, <1>5
=============================================================================
