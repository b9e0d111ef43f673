---------------------------- MODULE LinkerProofs -----------------------------
(***************************************************************************)
(* Proofs about Linker: IInv of LinkerSafe is inductive and implies        *)
(* NumbersLand and ObjectsJust.                                            *)
(*                                                                         *)
(* In the order of a link: how a file grows while it is read, the object   *)
(* it leaves, the units a program reaches, the loops that patch, what they *)
(* write, and an object that is placed behind what there is.               *)
(***************************************************************************)
EXTENDS LinkerSafe, Counting, FiniteSetTheorems, SequenceTheorems, TLAPS

(* Positions in a sequence of length n. *)
Places(n) == SUBSET (1 .. n)

(* How many of some of 1 .. n come before i: one more behind each of them.  *)
LEMMA OrdinalNext ==
  ASSUME NEW n \in Nat, NEW I \in Places(n), NEW i \in Int
  PROVE  /\ Ordinal(I, i) \in Nat /\ Cardinality(I) \in Nat
         /\ Ordinal(I, i) <= Cardinality(I)
         /\ Ordinal(I, i + 1) = IF i \in I THEN Ordinal(I, i) + 1 ELSE Ordinal(I, i)
         /\ i > n => Ordinal(I, i) = Cardinality(I)
         /\ i <= 1 => Ordinal(I, i) = 0
<1>0. \A k \in I : k \in Nat /\ 1 <= k /\ k <= n
  BY DEF Places
<1>1. IsFiniteSet(1 .. n)
  BY FS_Interval
<1>2. IsFiniteSet(I) /\ Cardinality(I) \in Nat
  BY <1>1, FS_Subset, FS_CardinalityType DEF Places
<1> DEFINE P == {k \in I : k < i}
<1>3. IsFiniteSet(P) /\ Cardinality(P) \in Nat /\ Cardinality(P) <= Cardinality(I)
  BY <1>2, FS_Subset, FS_CardinalityType
<1>4. {k \in I : k < i + 1} = IF i \in I THEN P \cup {i} ELSE P
  <2>1. \A k \in I : k < i + 1 <=> k < i \/ k = i
    BY <1>0
  <2>2. QED
    BY <2>1
<1>5. i \notin P
  OBVIOUS
<1>6. Cardinality(P \cup {i}) = Cardinality(P) + 1
  BY <1>3, <1>5, FS_AddElement
<1>7. i > n => P = I
  <2>1. i > n => \A k \in I : k < i
    BY <1>0
  <2>2. QED
    BY <2>1
<1>8. i <= 1 => P = {}
  <2>1. i <= 1 => \A k \in I : ~(k < i)
    BY <1>0
  <2>2. QED
    BY <2>1
<1>9. Cardinality({}) = 0
  BY FS_EmptySet
<1>10. Ordinal(I, i) = Cardinality(P)
  BY DEF Ordinal
<1>11. Ordinal(I, i + 1) = IF i \in I THEN Cardinality(P) + 1 ELSE Cardinality(P)
  BY <1>4, <1>6 DEF Ordinal
<1> HIDE DEF P
<1>12. QED
  BY <1>2, <1>3, <1>7, <1>8, <1>9, <1>10, <1>11

(* The ordinals of a set of positions are 0, 1, ..., in their order.        *)
LEMMA OrdinalOrder ==
  ASSUME NEW n \in Nat, NEW I \in Places(n), NEW i \in I, NEW j \in Int, i < j
  PROVE  /\ Ordinal(I, i) < Ordinal(I, j) /\ Ordinal(I, i) < Cardinality(I)
         /\ Ordinal(I, i) \in Nat /\ Ordinal(I, j) \in Nat
<1>1. i \in Int /\ \A k \in I : k \in Nat
  BY DEF Places
<1>2. IsFiniteSet(I) /\ IsFiniteSet({k \in I : k < j})
  <2>1. IsFiniteSet(1 .. n)
    BY FS_Interval
  <2>2. QED
    BY <2>1, FS_Subset DEF Places
<1>3. {k \in I : k < i + 1} \subseteq {k \in I : k < j}
  <2>1. \A k \in I : k < i + 1 => k < j
    BY <1>1
  <2>2. QED
    BY <2>1
<1>4. Ordinal(I, i + 1) <= Ordinal(I, j)
  BY <1>2, <1>3, FS_Subset DEF Ordinal
<1>5. Ordinal(I, i + 1) = Ordinal(I, i) + 1 /\ Ordinal(I, i) \in Nat
  BY <1>1, OrdinalNext
<1>6. Ordinal(I, j) \in Nat /\ Cardinality(I) \in Nat /\ Ordinal(I, i + 1) <= Cardinality(I)
  BY <1>1, OrdinalNext
<1>7. QED
  BY <1>4, <1>5, <1>6

(* A member of I has fewer members before it than I has.                    *)
LEMMA OrdinalBelow ==
  ASSUME NEW n \in Nat, NEW I \in Places(n), NEW i \in I
  PROVE  Ordinal(I, i) < Cardinality(I) /\ Ordinal(I, i) \in Nat /\ Cardinality(I) \in Nat
<1>1. i \in Int /\ i < i + 1 /\ i + 1 \in Int
  BY DEF Places
<1>2. QED
  BY <1>1, OrdinalOrder, OrdinalNext

(* No two members of I have the same number.                                *)
LEMMA OrdinalsDiffer ==
  ASSUME NEW n \in Nat, NEW I \in Places(n), NEW i \in I, NEW j \in I,
         Ordinal(I, i) = Ordinal(I, j)
  PROVE  i = j
<1>1. i \in Int /\ j \in Int
  BY DEF Places
<1>2. ~(i < j)
  BY <1>1, OrdinalOrder
<1>3. ~(j < i)
  BY <1>1, OrdinalOrder
<1>4. QED
  BY <1>1, <1>2, <1>3

(* Pick gives what is at these positions, at their ordinals.                *)
LEMMA PickFacts ==
  ASSUME NEW S, NEW s \in Seq(S), NEW I \in SUBSET DOMAIN s
  PROVE  /\ Pick(s, I) \in Seq(S) /\ Len(Pick(s, I)) = Cardinality(I)
         /\ \A i \in I : /\ Ordinal(I, i) + 1 \in DOMAIN Pick(s, I)
                         /\ Pick(s, I)[Ordinal(I, i) + 1] = s[i]
         /\ \A k \in DOMAIN Pick(s, I) : \E i \in I : k = Ordinal(I, i) + 1
<1> DEFINE N == Len(s)
           Step(q, n) == IF n \in I THEN Append(q, s[n]) ELSE q
           F == [n \in 1 .. N |-> [q \in Seq(S) |-> Step(q, n)]]
           Is(f) == f = [n \in 0 .. N |-> IF n = 0 THEN <<>>
                                          ELSE IF n \in I THEN Append(f[n - 1], s[n])
                                          ELSE f[n - 1]]
           p == CHOOSE f : Is(f)
<1>0. N \in Nat /\ DOMAIN s = 1 .. N /\ \A n \in 1 .. N : s[n] \in S
  OBVIOUS
<1>a. I \in Places(N) /\ N + 1 \in Int /\ N + 1 > N
  BY <1>0 DEF Places
<1>1. F \in [1 .. N -> [Seq(S) -> Seq(S)]]
  OBVIOUS
<1>2. <<>> \in Seq(S)
  OBVIOUS
<1>3. PICK g \in [0 .. N -> Seq(S)] :
        g[0] = <<>> /\ \A n \in 1 .. N : g[n] = F[n][g[n - 1]]
  <2>1. PICK Q : Q = Seq(S)
    OBVIOUS
  <2>2. PICK G \in Steps(N, Q) : G = F
    BY <1>1, <2>1 DEF Steps
  <2> HIDE DEF F, N
  <2>3. N \in Nat /\ <<>> \in Q
    BY <1>0, <1>2, <2>1
  <2>4. \E g \in [0 .. N -> Q] : Iterates(g, <<>>, G, N)
    BY <2>3, Iterated
  <2>5. QED
    BY <2>1, <2>2, <2>4 DEF Iterates
<1>4. Is(g)
  <2>1. ASSUME NEW n \in 0 .. N, n # 0
        PROVE g[n] = IF n \in I THEN Append(g[n - 1], s[n]) ELSE g[n - 1]
    <3>1. n \in 1 .. N /\ n - 1 \in 0 .. N /\ g[n - 1] \in Seq(S)
      BY <1>0, <2>1
    <3>2. g[n] = F[n][g[n - 1]]
      BY <1>3, <3>1
    <3>3. F[n][g[n - 1]] = Step(g[n - 1], n)
      BY <3>1
    <3>4. QED
      BY <3>2, <3>3
  <2>2. g = [n \in 0 .. N |-> g[n]]
    BY <1>3
  <2> HIDE DEF N
  <2>3. QED
    BY <1>3, <2>1, <2>2
<1>5. Is(p)
  <2> HIDE DEF Is
  <2>1. QED
    BY <1>4
<1>6. Pick(s, I) = p[N]
  BY DEF Pick
<1>7. p[0] = <<>> /\ \A n \in 1 .. N : p[n] = Step(p[n - 1], n)
  <2> HIDE DEF p, N
  <2>1. p = [n \in 0 .. N |-> IF n = 0 THEN <<>> ELSE Step(p[n - 1], n)]
    BY <1>5
  <2>2. 0 \in 0 .. N /\ \A n \in 1 .. N : n \in 0 .. N /\ n # 0
    BY <1>0
  <2> HIDE DEF Step
  <2>3. QED
    BY <2>1, <2>2
<1> HIDE DEF p, Is, F
<1> DEFINE Good(q, m) ==
             /\ q \in Seq(S) /\ Len(q) = Ordinal(I, m + 1)
             /\ \A i \in I : i <= m => Ordinal(I, i) + 1 \in DOMAIN q
                                       /\ q[Ordinal(I, i) + 1] = s[i]
             /\ \A k \in DOMAIN q : \E i \in I : k = Ordinal(I, i) + 1
           T == {m \in 0 .. N : Good(p[m], m)}
<1>8. 0 \in T
  <2>1. Ordinal(I, 0 + 1) = 0
    BY <1>0, <1>a, OrdinalNext
  <2>2. Good(<<>>, 0)
    BY <1>0, <2>1
  <2>3. Good(p[0], 0)
    BY <1>7, <2>2
  <2>4. QED
    <3> HIDE DEF Good
    <3>1. QED
      BY <1>0, <2>3
<1>9. ASSUME NEW m \in 0 .. N - 1, m \in T PROVE m + 1 \in T
  <2>0. m + 1 \in 1 .. N /\ m + 1 \in 0 .. N /\ (m + 1) - 1 = m
    BY <1>0
  <2>1. Good(p[m], m)
    BY <1>9
  <2>2. PICK q : q = p[m]
    OBVIOUS
  <2>3. q \in Seq(S) /\ Len(q) = Ordinal(I, m + 1) /\ DOMAIN q = 1 .. Len(q)
    BY <2>1, <2>2
  <2>4. p[m + 1] = Step(q, m + 1)
    BY <1>7, <2>0, <2>2
  <2>5. CASE m + 1 \in I
    <3>1. PICK r : r = Append(q, s[m + 1])
      OBVIOUS
    <3>2. r \in Seq(S) /\ Len(r) = Len(q) + 1 /\ r[Len(q) + 1] = s[m + 1]
          /\ \A k \in DOMAIN q : k \in DOMAIN r /\ r[k] = q[k]
      BY <1>0, <2>0, <2>3, <3>1
    <3>3. Ordinal(I, (m + 1) + 1) = Ordinal(I, m + 1) + 1
      BY <1>0, <1>a, <2>0, <2>5, OrdinalNext
    <3>4. ASSUME NEW i \in I, i <= m + 1
          PROVE Ordinal(I, i) + 1 \in DOMAIN r /\ r[Ordinal(I, i) + 1] = s[i]
      <4>1. CASE i = m + 1
        BY <2>3, <3>2, <4>1
      <4>2. CASE i # m + 1
        <5>1. i <= m
          BY <1>0, <3>4, <4>2
        <5>2. QED
          BY <2>1, <2>2, <3>2, <5>1
      <4>3. QED
        BY <4>1, <4>2
    <3>5. ASSUME NEW k \in DOMAIN r PROVE \E i \in I : k = Ordinal(I, i) + 1
      <4>1. k \in DOMAIN q \/ k = Len(q) + 1
        BY <2>3, <3>2
      <4>2. QED
        BY <2>1, <2>2, <2>3, <2>5, <4>1
    <3>6. Good(r, m + 1)
      BY <2>3, <3>2, <3>3, <3>4, <3>5
    <3>7. p[m + 1] = r
      BY <2>4, <2>5, <3>1
    <3>8. QED
      BY <2>0, <3>6, <3>7
  <2>6. CASE m + 1 \notin I
    <3>1. Ordinal(I, (m + 1) + 1) = Ordinal(I, m + 1)
      BY <1>0, <1>a, <2>0, <2>6, OrdinalNext
    <3>2. ASSUME NEW i \in I, i <= m + 1 PROVE i <= m
      BY <1>0, <2>6, <3>2
    <3>3. Good(q, m + 1)
      BY <2>1, <2>2, <3>1, <3>2
    <3>4. QED
      BY <2>0, <2>4, <2>6, <3>3
  <2>7. QED
    BY <2>5, <2>6
<1>10. Good(p[N], N)
  <2> HIDE DEF Good
  <2>1. 0 .. N \subseteq T
    <3> HIDE DEF T
    <3>1. QED
      BY <1>0, <1>8, <1>9, CountUp
  <2>2. N \in T
    BY <1>0, <2>1
  <2>3. QED
    BY <2>2
<1>11. Ordinal(I, N + 1) = Cardinality(I)
  BY <1>0, <1>a, OrdinalNext
<1>12. \A i \in I : i <= N
  BY <1>0
<1>13. QED
  BY <1>6, <1>10, <1>11, <1>12

(* Positions added behind the others have the ordinals behind theirs.       *)
Extended(I, n, b) == I \cup (n + 1 .. n + b)

(* b more positions at the end leave the numbers before them alone and go   *)
(* on counting.                                                             *)
LEMMA OrdinalsBehind ==
  ASSUME NEW n \in Nat, NEW b \in Nat, NEW I \in Places(n)
  PROVE  LET J == Extended(I, n, b)
         IN  /\ J \in Places(n + b) /\ Cardinality(I) \in Nat
             /\ Cardinality(J) = Cardinality(I) + b
             /\ \A i \in Int : i <= n + 1 => Ordinal(J, i) = Ordinal(I, i)
             /\ \A j \in 1 .. b : Ordinal(J, n + j) = Cardinality(I) + j - 1
<1> DEFINE J == Extended(I, n, b)
<1>1. \A k \in I : k \in Nat /\ 1 <= k /\ k <= n
  BY DEF Places
<1>0. J = I \cup (n + 1 .. n + b)
  BY DEF Extended
<1>2. J \in Places(n + b)
  BY <1>0, <1>1 DEF Places
<1>3. ASSUME NEW i \in Int, i <= n + 1 PROVE Ordinal(J, i) = Ordinal(I, i)
  <2>1. {k \in J : k < i} = {k \in I : k < i}
    <3>1. \A k \in n + 1 .. n + b : ~(k < i)
      BY <1>3
    <3>2. QED
      BY <1>0, <3>1
  <2>2. QED
    BY <2>1 DEF Ordinal
<1>4. Cardinality(I) \in Nat /\ Ordinal(I, n + 1) = Cardinality(I)
  BY OrdinalNext
<1> DEFINE T == {j \in 0 .. b : Ordinal(J, n + 1 + j) = Cardinality(I) + j}
<1>5. 0 \in T
  <2>1. n + 1 + 0 = n + 1 /\ n + 1 \in Int
    OBVIOUS
  <2>2. Ordinal(J, n + 1 + 0) = Cardinality(I) + 0
    BY <1>3, <1>4, <2>1
  <2>3. QED
    BY <2>2
<1>6. ASSUME NEW j \in 0 .. b - 1, j \in T PROVE j + 1 \in T
  <2>1. PICK i \in Int : i = n + 1 + j
    OBVIOUS
  <2>2. Ordinal(J, i + 1) = Ordinal(J, i) + 1
    <3>1. i \in J /\ n + b \in Nat
      BY <1>0, <2>1
    <3>2. QED
      BY <1>2, <3>1, OrdinalNext
  <2>3. i + 1 = n + 1 + (j + 1) /\ j + 1 \in 0 .. b
    BY <2>1
  <2>4. Ordinal(J, n + 1 + (j + 1)) = Cardinality(I) + (j + 1)
    BY <1>4, <1>6, <2>1, <2>2, <2>3
  <2>5. QED
    BY <2>3, <2>4
<1> HIDE DEF J
<1>7. \A j \in 0 .. b : Ordinal(J, n + 1 + j) = Cardinality(I) + j
  <2> HIDE DEF T
  <2>1. 0 .. b \subseteq T
    BY <1>5, <1>6, CountUp
  <2>2. QED
    BY <2>1 DEF T
<1>8. Cardinality(J) = Cardinality(I) + b
  <2>1. n + b \in Nat /\ n + 1 + b \in Int /\ n + 1 + b > n + b
    OBVIOUS
  <2>2. Ordinal(J, n + 1 + b) = Cardinality(J)
    BY <1>2, <2>1, OrdinalNext
  <2>3. b \in 0 .. b
    OBVIOUS
  <2>4. Ordinal(J, n + 1 + b) = Cardinality(I) + b
    BY <1>7, <2>3
  <2>5. QED
    BY <2>2, <2>4
<1>9. ASSUME NEW j \in 1 .. b PROVE Ordinal(J, n + j) = Cardinality(I) + j - 1
  <2>1. j - 1 \in 0 .. b /\ n + 1 + (j - 1) = n + j
    OBVIOUS
  <2>2. QED
    BY <1>4, <1>7, <2>1
<1>10. QED
  BY <1>2, <1>3, <1>4, <1>8, <1>9 DEF J

(* A set of positions is finite.                                            *)
LEMMA PlacesFinite ==
  ASSUME NEW n \in Nat, NEW I \in Places(n)
  PROVE  IsFiniteSet(I) /\ Cardinality(I) \in Nat /\ Cardinality(I) <= n
<1>1. IsFiniteSet(1 .. n) /\ Cardinality(1 .. n) = n
  BY FS_Interval
<1>2. QED
  BY <1>1, FS_Subset, FS_CardinalityType DEF Places

-----------------------------------------------------------------------------
(* The routines of a file, and their numbers.                               *)
LEMMA Limits ==
  /\ HelperSlots \in Nat /\ HelperSlots > 0 /\ MaxFuncs \in Nat /\ ExternFuncBase \in Nat
  /\ ExternFuncBase > HelperSlots + 2 * MaxFuncs + 2
BY LinkerConstants

(* What is in a module, of routines fs. *)
LEMMA InModPlaces ==
  ASSUME NEW fs \in Seq(FuncSet)
  PROVE  /\ InMod(fs) \in Places(Len(fs)) /\ Len(fs) \in Nat
         /\ Cardinality(InMod(fs)) \in Nat /\ Cardinality(InMod(fs)) <= Len(fs)
<1>1. InMod(fs) \in Places(Len(fs)) /\ Len(fs) \in Nat
  BY DEF InMod, Places
<1>2. QED
  BY <1>1, PlacesFinite

(* Every index is between the helpers and the externs.                      *)
LEMMA IndicesBetween ==
  ASSUME NEW s \in FileSet, Numbered(s), WithinLimits(s)
  PROVE  /\ FirstUser(s) \in Nat /\ FirstUser(s) = Len(s.imports) + HelperSlots
         /\ s.slots \in Nat
         /\ Len(s.imports) \in Nat /\ Len(s.imports) + s.slots < ExternFuncBase
         /\ \A g \in InMod(s.funcs) : /\ s.funcs[g].index \in Nat
                                      /\ FirstUser(s) <= s.funcs[g].index
                                      /\ s.funcs[g].index < Len(s.imports) + s.slots
<1>1. s.funcs \in Seq(FuncSet) /\ Len(s.imports) \in Nat /\ s.slots \in Nat
  BY DEF FileSet
<1>2. InMod(s.funcs) \in Places(Len(s.funcs)) /\ Len(s.funcs) \in Nat
      /\ Cardinality(InMod(s.funcs)) \in Nat /\ Cardinality(InMod(s.funcs)) <= Len(s.funcs)
  BY <1>1, InModPlaces
<1>3. FirstUser(s) = Len(s.imports) + HelperSlots
  BY DEF FirstUser
<1>4. s.slots = HelperSlots + Cardinality(InMod(s.funcs))
  BY DEF Numbered
<1>5. Len(s.funcs) <= MaxFuncs /\ Len(s.imports) <= 2 + Len(s.funcs)
  BY DEF WithinLimits
<1>6. Len(s.imports) + s.slots < ExternFuncBase
  BY SMTT(30), <1>1, <1>2, <1>4, <1>5, Limits
<1>7. ASSUME NEW g \in InMod(s.funcs)
      PROVE  /\ s.funcs[g].index \in Nat /\ FirstUser(s) <= s.funcs[g].index
             /\ s.funcs[g].index < Len(s.imports) + s.slots
  <2>1. Ordinal(InMod(s.funcs), g) < Cardinality(InMod(s.funcs))
        /\ Ordinal(InMod(s.funcs), g) \in Nat
    BY <1>2, OrdinalBelow
  <2>2. s.funcs[g].index = FirstUser(s) + Ordinal(InMod(s.funcs), g)
    BY DEF Numbered
  <2>3. QED
    BY <1>1, <1>2, <1>3, <1>4, <2>1, <2>2, Limits
<1>8. QED
  BY <1>1, <1>3, <1>6, <1>7, Limits

(* Routines that are added go on where the numbers are.                     *)
LEMMA NumberedAppend ==
  ASSUME NEW s \in FileSet, NEW t \in FileSet, NEW more \in Seq(FuncSet), Numbered(s),
         \A j \in DOMAIN more :
           /\ more[j].mark \in {"forward", "body"}
           /\ more[j].index = FirstUser(s) + Cardinality(InMod(s.funcs)) + j - 1,
         t.funcs = s.funcs \o more, t.imports = s.imports, t.slots = s.slots + Len(more)
  PROVE  /\ Numbered(t)
         /\ InMod(t.funcs) = InMod(s.funcs) \cup (Len(s.funcs) + 1 .. Len(s.funcs) + Len(more))
<1> DEFINE n == Len(s.funcs)
           b == Len(more)
           I == InMod(s.funcs)
           J == InMod(t.funcs)
<1>1. s.funcs \in Seq(FuncSet) /\ t.funcs \in Seq(FuncSet) /\ s.slots \in Nat
      /\ Len(s.imports) \in Nat
  BY DEF FileSet
<1>2. n \in Nat /\ b \in Nat /\ I \in Places(n) /\ Cardinality(I) \in Nat
  BY <1>1, InModPlaces
<1>3. /\ Len(t.funcs) = n + b
      /\ \A i \in 1 .. n : t.funcs[i] = s.funcs[i]
      /\ \A j \in 1 .. b : t.funcs[n + j] = more[j]
  <2>1. Len(t.funcs) = n + b
        /\ \A i \in 1 .. n + b : t.funcs[i] = IF i <= n THEN s.funcs[i] ELSE more[i - n]
    BY <1>1, ConcatProperties
  <2>2. QED
    BY <1>1, <1>2, <2>1
<1>4. J = I \cup (n + 1 .. n + b)
  <2>1. \A i \in 1 .. n : i \in J <=> i \in I
    BY <1>1, <1>2, <1>3 DEF InMod
  <2>2. ASSUME NEW i \in n + 1 .. n + b PROVE i \in J
    <3>1. i - n \in 1 .. b /\ n + (i - n) = i /\ i \in 1 .. n + b
      BY <1>2
    <3>2. t.funcs[i] = more[i - n]
      BY <1>3, <3>1
    <3>3. more[i - n].mark \in {"forward", "body"} /\ i \in DOMAIN t.funcs
      BY SMTT(30), <1>1, <1>3, <3>1
    <3>4. QED
      BY <3>2, <3>3 DEF InMod
  <2>3. J \subseteq 1 .. n + b /\ I \subseteq 1 .. n
    BY <1>1, <1>3 DEF InMod
  <2> HIDE DEF I, J, n, b
  <2>4. QED
    <3>1. \A i : i \in J <=> i \in I \/ i \in n + 1 .. n + b
      <4>1. \A i \in 1 .. n + b : i \in 1 .. n \/ i \in n + 1 .. n + b
        BY <1>2
      <4>2. \A i \in 1 .. n : i \in 1 .. n + b
        BY <1>2
      <4>3. QED
        BY <2>1, <2>2, <2>3, <4>1, <4>2
    <3>2. QED
      BY <3>1
<1>5. /\ Cardinality(J) = Cardinality(I) + b
      /\ \A i \in Int : i <= n + 1 => Ordinal(J, i) = Ordinal(I, i)
      /\ \A j \in 1 .. b : Ordinal(J, n + j) = Cardinality(I) + j - 1
  <2> HIDE DEF I, J, n, b
  <2>1. J = Extended(I, n, b)
    BY <1>4 DEF Extended
  <2>2. QED
    BY ZenonT(60), <1>2, <2>1, OrdinalsBehind
<1>6. FirstUser(t) = FirstUser(s) /\ FirstUser(s) \in Nat
  BY <1>1, Limits DEF FirstUser
<1>7. s.slots = HelperSlots + Cardinality(I)
      /\ \A i \in I : s.funcs[i].index = FirstUser(s) + Ordinal(I, i)
  BY DEF Numbered
<1>8. \A j \in 1 .. b : more[j].index = FirstUser(s) + Cardinality(I) + j - 1
  OBVIOUS
<1>9. t.slots = s.slots + b
  OBVIOUS
<1>a. I \subseteq 1 .. n
  BY <1>2 DEF Places
<1> HIDE DEF I, n, b
<1>10. ASSUME NEW i \in J PROVE t.funcs[i].index = FirstUser(t) + Ordinal(J, i)
  <2> HIDE DEF J
  <2>1. CASE i \in I
    <3>1. i \in 1 .. n /\ i \in Int /\ i <= n + 1
      BY <1>2, <1>a, <2>1
    <3>2. t.funcs[i] = s.funcs[i] /\ Ordinal(J, i) = Ordinal(I, i)
      BY <1>3, <1>5, <3>1
    <3>3. QED
      BY <1>6, <1>7, <2>1, <3>2
  <2>2. CASE i \in n + 1 .. n + b
    <3>1. PICK j \in 1 .. b : i = n + j
      <4>1. i - n \in 1 .. b /\ i = n + (i - n)
        BY <1>2, <2>2
      <4>2. QED
        BY <4>1
    <3>2. t.funcs[i] = more[j] /\ Ordinal(J, i) = Cardinality(I) + j - 1
      BY <1>3, <1>5, <3>1
    <3>3. QED
      BY SMTT(30), <1>2, <1>6, <1>8, <3>2
  <2>3. QED
    BY <1>4, <1>10, <2>1, <2>2
<1>11. t.slots = HelperSlots + Cardinality(J)
  <2> HIDE DEF J
  <2>1. QED
    BY <1>1, <1>2, <1>5, <1>7, <1>9, Limits
<1>12. Numbered(t)
  BY <1>10, <1>11 DEF Numbered
<1>13. QED
  BY <1>4, <1>12 DEF I, J, n, b

-----------------------------------------------------------------------------
(* What lands goes on landing while there comes to be more to land in.      *)
Grows(s, t) ==
  /\ t.imports = s.imports
  /\ \A g \in InMod(s.funcs) : \E h \in InMod(t.funcs) :
       /\ t.funcs[h].index = s.funcs[g].index
       /\ t.funcs[h].unit = s.funcs[g].unit /\ t.funcs[h].name = s.funcs[g].name
  /\ \A k \in DOMAIN s.data : k \in DOMAIN t.data /\ t.data[k] = s.data[k]
  /\ \A k \in DOMAIN s.table : k \in DOMAIN t.table /\ t.table[k] = s.table[k]

(* A routine keeps its number while its file grows.                         *)
LEMMA RoutineGrows ==
  ASSUME NEW s, NEW t, Grows(s, t), NEW v, NEW m, Routine(s.funcs, v, m)
  PROVE  Routine(t.funcs, v, m)
<1>1. PICK g \in InMod(s.funcs) :
        s.funcs[g].index = v /\ m = <<s.funcs[g].unit, s.funcs[g].name>>
  BY DEF Routine
<1>2. PICK h \in InMod(t.funcs) :
        /\ t.funcs[h].index = s.funcs[g].index
        /\ t.funcs[h].unit = s.funcs[g].unit /\ t.funcs[h].name = s.funcs[g].name
  BY DEF Grows
<1>3. QED
  BY <1>1, <1>2 DEF Routine

(* A number that lands goes on landing while the file grows.                *)
LEMMA LandsGrows ==
  ASSUME NEW s, NEW t, Grows(s, t), NEW kind \in {"func", "data", "slot"}, NEW v, NEW m,
         Lands(s, kind, v, m)
  PROVE  Lands(t, kind, v, m)
<1>1. CASE kind = "func"
  <2>1. FuncLands(s, v, m)
    BY <1>1 DEF Lands
  <2>2. t.imports = s.imports
    BY DEF Grows
  <2>3. Routine(s.funcs, v, m) => Routine(t.funcs, v, m)
    BY RoutineGrows
  <2>4. FuncLands(t, v, m)
    BY <2>1, <2>2, <2>3 DEF FuncLands
  <2>5. QED
    BY <1>1, <2>4 DEF Lands
<1>2. CASE kind = "data"
  <2>1. DataLands(s, v, m)
    BY <1>2 DEF Lands
  <2>2. DataLands(t, v, m)
    BY <2>1 DEF DataLands, Grows
  <2>3. QED
    BY <1>2, <2>2 DEF Lands
<1>3. CASE kind = "slot"
  <2>1. v \in DOMAIN s.table /\ Routine(s.funcs, s.table[v], m)
    BY <1>3 DEF Lands, SlotLands
  <2>2. v \in DOMAIN t.table /\ t.table[v] = s.table[v]
    BY <2>1 DEF Grows
  <2>3. Routine(t.funcs, s.table[v], m)
    BY <2>1, RoutineGrows
  <2>4. QED
    BY <1>3, <2>2, <2>3 DEF Lands, SlotLands
<1>4. QED
  BY <1>1, <1>2, <1>3

(* So does one whose routine another file defines.                          *)
LEMMA SiteGrows ==
  ASSUME NEW s, NEW t, Grows(s, t), NEW es, NEW site, site.kind \in {"func", "data", "slot"},
         SiteRight(s, es, site)
  PROVE  SiteRight(t, es, site)
BY LandsGrows DEF SiteRight

(* What a step that writes no code and no relocation leaves as it is.       *)
SameFile(s, t) ==
  /\ t.unit = s.unit /\ t.uses = s.uses /\ t.externs = s.externs
  /\ t.relocatable = s.relocatable /\ t.start = s.start /\ t.relocs = s.relocs

SameCode(s, t) ==
  \A i \in Within(t) : \/ i \in Within(s) /\ CodeOf(t, i) = CodeOf(s, i)
                       \/ i \notin Within(s) /\ CodeOf(t, i) = <<>>

(* Code is a sequence of sites, whichever body it is of.                    *)
LEMMA CodeTyped ==
  ASSUME NEW s \in FileSet, NEW i \in Within(s)
  PROVE  /\ CodeOf(s, i) \in Seq(SiteSet)
         /\ \A p \in DOMAIN CodeOf(s, i) : /\ CodeOf(s, i)[p] \in SiteSet
                                           /\ CodeOf(s, i)[p].kind \in {"func", "data", "slot"}
<1>1. CodeOf(s, i) \in Seq(SiteSet)
  <2>1. CASE i = 0
    BY <2>1 DEF FileSet, CodeOf
  <2>2. CASE i # 0
    <3>1. i \in DOMAIN s.funcs /\ s.funcs \in Seq(FuncSet)
      BY <2>2 DEF FileSet, Within
    <3>2. s.funcs[i] \in FuncSet
      BY <3>1
    <3>3. QED
      BY <2>2, <3>2 DEF CodeOf, FuncSet
  <2>3. QED
    BY <2>1, <2>2
<1>2. PICK q : q = CodeOf(s, i)
  OBVIOUS
<1>3. \A p \in DOMAIN q : q[p] \in SiteSet
  BY <1>1, <1>2
<1>4. \A x \in SiteSet : x.kind \in {"func", "data", "slot"}
  BY DEF SiteSet
<1>5. QED
  BY <1>1, <1>2, <1>3, <1>4

(* A file that grows without new code is as right as it was.                *)
LEMMA FileGrows ==
  ASSUME NEW s, NEW t \in FileSet, FileOK(s), Grows(s, t), SameFile(s, t), SameCode(s, t),
         Within(s) \subseteq Within(t),
         Numbered(t), WithinLimits(t), TableFilled(t),
         \A i \in DOMAIN t.funcs : FuncRight(t, i),
         \A n \in DOMAIN t.open : t.open[n] \in Within(t) \ {0}
  PROVE  FileOK(t)
<1>1. s \in FileSet /\ SitesRight(s) /\ Recorded(s)
  BY DEF FileOK
<1>2. SitesRight(t)
  <2>1. ASSUME NEW i \in Within(t), NEW p \in DOMAIN CodeOf(t, i)
        PROVE  SiteRight(t, t.externs, CodeOf(t, i)[p])
    <3>1. i \in Within(s) /\ CodeOf(t, i) = CodeOf(s, i)
      BY DEF SameCode
    <3>2. SiteRight(s, s.externs, CodeOf(s, i)[p])
      BY <1>1, <3>1 DEF SitesRight
    <3>3. CodeOf(s, i)[p].kind \in {"func", "data", "slot"}
      BY <1>1, <3>1, CodeTyped
    <3>4. SiteRight(t, s.externs, CodeOf(s, i)[p])
      BY <3>2, <3>3, SiteGrows
    <3>5. QED
      BY <3>1, <3>4 DEF SameFile
  <2>2. QED
    BY <2>1 DEF SitesRight
<1>3. Recorded(t)
  <2>1. t.relocs = s.relocs /\ t.relocatable = s.relocatable
    BY DEF SameFile
  <2>2. \A i \in Within(s) : i \in Within(t) /\ CodeOf(t, i) = CodeOf(s, i)
    BY DEF SameCode
  <2>3. ASSUME NEW i \in Within(t), NEW p \in DOMAIN CodeOf(t, i)
        PROVE  i \in Within(s) /\ CodeOf(t, i) = CodeOf(s, i)
    BY DEF SameCode
  <2>4. ASSUME NEW k \in DOMAIN t.relocs
        PROVE  LET r == t.relocs[k]
               IN r.in \in Within(t) /\ r.at \in DOMAIN CodeOf(t, r.in)
                  /\ RelocFor(r, CodeOf(t, r.in)[r.at])
    BY <1>1, <2>1, <2>2 DEF Recorded
  <2>5. ASSUME NEW i \in Within(t), NEW p \in DOMAIN CodeOf(t, i),
               t.relocatable \/ Unresolved(CodeOf(t, i)[p])
        PROVE  \E k \in DOMAIN t.relocs : t.relocs[k].in = i /\ t.relocs[k].at = p
    <3>1. i \in Within(s) /\ CodeOf(t, i) = CodeOf(s, i)
      BY <2>3
    <3>2. p \in DOMAIN CodeOf(s, i) /\ (s.relocatable \/ Unresolved(CodeOf(s, i)[p]))
      BY <2>1, <2>5, <3>1
    <3>3. \E k \in DOMAIN s.relocs : s.relocs[k].in = i /\ s.relocs[k].at = p
      BY <1>1, <3>1, <3>2 DEF Recorded
    <3>4. QED
      BY <2>1, <3>3
  <2>6. QED
    BY <2>4, <2>5 DEF Recorded
<1>4. \A k \in DOMAIN t.externs : ExternRight(t, t.externs[k])
  BY DEF FileOK, SameFile, ExternRight
<1>5. t.relocatable \/ t.externs = <<>>
  BY DEF FileOK, SameFile
<1>6. t.unit \in Units => t.relocatable /\ t.start = <<>>
  BY SMTT(30) DEF FileOK, SameFile
<1>7. QED
  BY <1>2, <1>3, <1>4, <1>5, <1>6 DEF FileOK

-----------------------------------------------------------------------------
(* The externs of a file are exports of the units it uses.                  *)
ExternOf(us, e) ==
  /\ e.unit \in Range(us) /\ objects[e.unit] # NoObject
  /\ \E m \in DOMAIN objects[e.unit].exports :
       /\ objects[e.unit].exports[m].name = e.name
       /\ objects[e.unit].exports[m].body = e.body

(* What was compiled has left an object that is right.                      *)
LEMMA CompiledObject ==
  ASSUME ObjectsRight, NEW u \in Compiled
  PROVE  u \in Units /\ objects[u] # NoObject /\ ObjectOK(u, objects[u]) /\ objects[u] \in ObjectSet
BY DEF ObjectsRight, Compiled, ObjectOK

(* The externs of a file are exports of the objects of the units it uses.   *)
LEMMA ExternsAreExports ==
  ASSUME ObjectsRight, NEW us \in Seq(Units), Range(us) \subseteq Compiled
  PROVE  /\ ExternsOf(us) \in Seq(ExternSet)
         /\ \A k \in DOMAIN ExternsOf(us) : ExternOf(us, ExternsOf(us)[k])
         /\ us = <<>> => ExternsOf(us) = <<>>
<1> DEFINE ex(u, i) == [unit |-> u, name |-> objects[u].exports[i].name,
                        sig |-> objects[u].exports[i].sig,
                        body |-> objects[u].exports[i].body]
           seqs == [k \in DOMAIN us |->
                      [i \in DOMAIN objects[us[k]].exports |-> ex(us[k], i)]]
           E == {e \in ExternSet : ExternOf(us, e)}
<1>1. ExternsOf(us) = FlattenSeq(seqs)
  BY DEF ExternsOf
<1>2. ASSUME NEW k \in DOMAIN us
      PROVE  [i \in DOMAIN objects[us[k]].exports |-> ex(us[k], i)] \in Seq(E)
  <2>1. PICK u \in Units : u = us[k]
    OBVIOUS
  <2>2. u \in Range(us) /\ u \in Compiled
    BY <2>1 DEF Range
  <2>3. objects[u] \in ObjectSet /\ objects[u] # NoObject
    BY <2>2, CompiledObject
  <2>4. PICK xs \in Seq(ExportSet) : xs = objects[u].exports
    BY <2>3 DEF ObjectSet
  <2>5. ASSUME NEW i \in DOMAIN xs PROVE ex(u, i) \in E
    <3>1. xs[i] \in ExportSet
      OBVIOUS
    <3>2. PICK e : e = ex(u, i)
      OBVIOUS
    <3>3. e.unit = u /\ e.name = xs[i].name /\ e.sig = xs[i].sig /\ e.body = xs[i].body
      BY <2>4, <3>2
    <3>4. e = [unit |-> u, name |-> xs[i].name, sig |-> xs[i].sig, body |-> xs[i].body]
      BY <2>4, <3>2
    <3>5. e \in ExternSet
      BY <3>1, <3>4 DEF ExternSet, ExportSet
    <3>6. ExternOf(us, e)
      BY <2>2, <2>3, <2>4, <3>3 DEF ExternOf
    <3> HIDE DEF ex
    <3>7. QED
      BY <3>2, <3>5, <3>6
  <2> HIDE DEF ex, E
  <2>6. [i \in 1 .. Len(xs) |-> ex(u, i)] \in Seq(E)
    BY <2>5
  <2>7. QED
    BY <2>1, <2>4, <2>6
<1>3. seqs \in Seq(Seq(E))
  <2>1. us \in Seq(Units) /\ DOMAIN us = 1 .. Len(us) /\ Len(us) \in Nat
    OBVIOUS
  <2> HIDE DEF ex, E
  <2>2. QED
    BY <1>2, <2>1
<1>4. FlattenSeq(seqs) \in Seq(E)
  <2> HIDE DEF seqs, E
  <2>1. QED
    BY <1>3, FlattenSeqType
<1>5. ExternsOf(us) \in Seq(E)
  BY <1>1, <1>4
<1>6. ASSUME us = <<>> PROVE ExternsOf(us) = <<>>
  <2>1. DOMAIN us = {}
    BY <1>6
  <2>2. seqs = <<>>
    <3> HIDE DEF ex
    <3>1. QED
      BY <2>1
  <2>3. FlattenSeq(<<>>) = <<>>
    BY DEF FlattenSeq
  <2> HIDE DEF seqs
  <2>4. QED
    BY <1>1, <2>2, <2>3
<1>7. PICK es : es = ExternsOf(us)
  OBVIOUS
<1>8. es \in Seq(ExternSet) /\ \A k \in DOMAIN es : ExternOf(us, es[k])
  BY <1>5, <1>7
<1>9. QED
  BY <1>6, <1>7, <1>8

(* A file at its first heading.                                             *)
LEMMA NewFileOK ==
  ASSUME ObjectsRight, NEW f \in Files, NEW us \in Seq(Units), NEW files \in BOOLEAN,
         f \notin Range(us), Range(us) \subseteq Compiled, Len(ExternsOf(us)) <= MaxFuncs
  PROVE  FileOK(NewFile(f, us, files))
<1>1. PICK es \in Seq(ExternSet) : es = ExternsOf(us)
  BY ExternsAreExports
<1>2. /\ \A k \in DOMAIN es : ExternOf(us, es[k])
      /\ us = <<>> => es = <<>>
      /\ Len(es) <= MaxFuncs /\ Len(es) \in Nat
  BY <1>1, ExternsAreExports
<1>3. PICK fs : fs = DeclareImportedRoutines(es)
  OBVIOUS
<1>4. ASSUME NEW k \in DOMAIN es
      PROVE  /\ fs[k].unit = es[k].unit /\ fs[k].name = es[k].name
             /\ fs[k].mark = "extern" /\ fs[k].index = ExternFuncBase + k - 1
             /\ fs[k].iface = FALSE /\ fs[k].code = <<>> /\ fs[k] \in FuncSet
  <2>1. PICK g : g = fs[k]
    OBVIOUS
  <2>2. g = [unit |-> es[k].unit, name |-> es[k].name,
             sig |-> es[k].sig, mark |-> "extern",
             index |-> ExternFuncBase + k - 1, level |-> 0, iface |-> FALSE, code |-> <<>>]
    BY <1>3, <2>1 DEF DeclareImportedRoutines
  <2>3. es[k] \in ExternSet /\ k \in Nat /\ k >= 1
    OBVIOUS
  <2>4. ExternFuncBase + k - 1 \in Nat
    BY <2>3, Limits
  <2>5. es[k].unit \in Files /\ es[k].name \in Names /\ es[k].sig \in Headings
    BY <2>3 DEF ExternSet, Files
  <2>6. g \in FuncSet
    BY <2>2, <2>4, <2>5 DEF FuncSet, Marks
  <2>7. QED
    BY <2>1, <2>2, <2>6
<1>a. \A k \in DOMAIN es : fs[k].mark = "extern" /\ fs[k] \in FuncSet
  BY <1>4
<1>b. \A k \in DOMAIN es : fs[k].index = ExternFuncBase + k - 1
  BY <1>4
<1>5. /\ DOMAIN fs = DOMAIN es /\ fs \in Seq(FuncSet) /\ Len(fs) = Len(es)
      /\ InMod(fs) = {}
  <2>1. DOMAIN fs = 1 .. Len(es)
    BY <1>3 DEF DeclareImportedRoutines
  <2>2. fs = [k \in 1 .. Len(es) |-> fs[k]]
    BY <1>3 DEF DeclareImportedRoutines
  <2>3. fs \in Seq(FuncSet)
    <3>1. PICK n \in Nat : n = Len(es)
      BY <1>2
    <3>2. DOMAIN es = 1 .. n
      BY <3>1
    <3>3. \A k \in 1 .. n : fs[k] \in FuncSet
      BY <1>a, <3>2
    <3>4. fs \in [1 .. n -> FuncSet]
      BY <2>2, <3>1, <3>3
    <3>5. QED
      BY <3>4
  <2>4. InMod(fs) = {}
    BY <1>a, <2>1 DEF InMod
  <2>5. QED
    BY <1>2, <2>1, <2>2, <2>3, <2>4
<1>6. PICK s : s = NewFile(f, us, files)
  OBVIOUS
<1>7. PICK im : im = WasiImports \o IF files THEN FileImports ELSE <<>>
  OBVIOUS
<1>8. im \in Seq(Imported) /\ Len(im) \in Nat /\ Len(im) <= 2
  <2>1. PICK v : v = IF files THEN FileImports ELSE <<>>
    OBVIOUS
  <2>2. v \in Seq(Imported) /\ Len(v) \in Nat /\ Len(v) <= 1
    <3>1. CASE files
      BY <2>1, <3>1 DEF FileImports, Imported
    <3>2. CASE ~files
      BY <2>1, <3>2
    <3>3. QED
      BY <3>1, <3>2
  <2>3. WasiImports \in Seq(Imported) /\ Len(WasiImports) = 1
    BY DEF WasiImports, Imported
  <2>4. im = WasiImports \o v
    BY <1>7, <2>1
  <2>5. im \in Seq(Imported) /\ Len(im) = Len(WasiImports) + Len(v)
    BY <2>2, <2>3, <2>4, ConcatProperties
  <2>6. QED
    BY <2>2, <2>3, <2>5
<1>9. s = [unit |-> f, uses |-> us, imports |-> im, funcs |-> fs, externs |-> es,
           slots |-> HelperSlots, open |-> <<>>, start |-> <<>>,
           data |-> <<>>, table |-> <<>>, relocs |-> <<>>,
           relocatable |-> f \in Units \/ us # <<>>]
  BY <1>1, <1>3, <1>6, <1>7 DEF NewFile
<1>10. /\ s.unit = f /\ s.uses = us /\ s.imports = im /\ s.funcs = fs /\ s.externs = es
       /\ s.slots = HelperSlots /\ s.open = <<>> /\ s.start = <<>> /\ s.data = <<>>
       /\ s.table = <<>> /\ s.relocs = <<>>
  BY <1>9
<1>11. s.relocatable = (f \in Units \/ us # <<>>)
  BY <1>9
<1>12. s \in FileSet
  <2>1. HelperSlots \in Nat
    BY Limits
  <2>2. PICK b \in BOOLEAN : b = (f \in Units \/ us # <<>>)
    OBVIOUS
  <2>3. QED
    BY <1>5, <1>8, <1>9, <2>1, <2>2 DEF FileSet
<1>13. Within(s) = {0} /\ CodeOf(s, 0) = <<>>
  BY <1>4, <1>5, <1>10 DEF Within, CodeOf
<1>14. SitesRight(s) /\ Recorded(s)
  BY <1>10, <1>13 DEF SitesRight, Recorded
<1>15. Numbered(s) /\ WithinLimits(s) /\ TableFilled(s)
  <2>1. Cardinality({}) = 0
    BY FS_EmptySet
  <2>2. Numbered(s)
    <3>1. s.slots = HelperSlots /\ InMod(s.funcs) = {}
      BY <1>5, <1>10
    <3>2. QED
      BY <2>1, <3>1, Limits DEF Numbered
  <2>3. WithinLimits(s)
    BY <1>2, <1>5, <1>8, <1>10 DEF WithinLimits
  <2>4. QED
    BY <1>10, <2>2, <2>3 DEF TableFilled
<1>16. ASSUME NEW i \in DOMAIN s.funcs PROVE FuncRight(s, i)
  <2>1. i \in DOMAIN es /\ s.funcs[i] = fs[i] /\ i \in Nat /\ i >= 1
    BY <1>5, <1>10
  <2>2. fs[i].index >= ExternFuncBase /\ fs[i].index - ExternFuncBase + 1 = i
    BY <1>b, <2>1, Limits
  <2>3. ExternMeans(es, i, <<fs[i].unit, fs[i].name>>)
    BY <1>4, <2>1 DEF ExternMeans
  <2>4. i \notin InMod(s.funcs)
    BY <1>5, <1>10
  <2>5. QED
    BY <1>4, <1>10, <2>1, <2>2, <2>3, <2>4 DEF FuncRight
<1>17. ASSUME NEW k \in DOMAIN s.externs PROVE ExternRight(s, s.externs[k])
  BY <1>2, <1>10 DEF ExternOf, ExternRight
<1>18. s.relocatable \/ s.externs = <<>>
  BY <1>2, <1>10, <1>11
<1>19. s.unit \in Units => s.relocatable /\ s.start = <<>>
  BY <1>10, <1>11
<1>20. FileOK(s)
  BY <1>10, <1>12, <1>14, <1>15, <1>16, <1>17, <1>18, <1>19 DEF FileOK
<1>21. QED
  BY <1>6, <1>20

(* A file nobody wrote anything into is right.                              *)
LEMMA ExitedOK ==
  ASSUME ObjectsRight
  PROVE  FileOK(Exited) /\ Exited.unit = Program
<1>1. Program \in Files /\ <<>> \in Seq(Units) /\ Range(<<>>) = {}
  BY DEF Files, Range
<1>2. ExternsOf(<<>>) = <<>>
  BY <1>1, ExternsAreExports
<1>3. Len(ExternsOf(<<>>)) <= MaxFuncs
  BY <1>2, Limits
<1>4. FileOK(NewFile(Program, <<>>, FALSE))
  BY <1>1, <1>3, NewFileOK
<1>5. QED
  BY <1>4 DEF Exited, NewFile

-----------------------------------------------------------------------------
(* Reading a file keeps it right, and keeps what it is a file of.           *)
Follows(s, t) == FileOK(t) /\ t.unit = s.unit /\ t.uses = s.uses

(* The places of code: the statement part and every body.                   *)
LEMMA WithinFacts ==
  ASSUME NEW s
  PROVE  0 \in Within(s) /\ Within(s) \subseteq {0} \cup DOMAIN s.funcs
         /\ \A i \in DOMAIN s.funcs : s.funcs[i].mark = "body" => i \in Within(s)
BY DEF Within

(* Which bodies are open says nothing of the code.                          *)
LEMMA OpenOK ==
  ASSUME NEW s, FileOK(s), NEW o \in Seq(Nat), \A n \in DOMAIN o : o[n] \in Within(s) \ {0},
         NEW t, t = [s EXCEPT !.open = o]
  PROVE  Follows(s, t)
<1>1. s \in FileSet /\ Numbered(s) /\ WithinLimits(s) /\ TableFilled(s)
      /\ \A i \in DOMAIN s.funcs : FuncRight(s, i)
  BY DEF FileOK
<1>2. t \in FileSet
  BY <1>1 DEF FileSet
<1>3. /\ t.unit = s.unit /\ t.uses = s.uses /\ t.imports = s.imports /\ t.funcs = s.funcs
      /\ t.externs = s.externs /\ t.slots = s.slots /\ t.start = s.start /\ t.data = s.data
      /\ t.table = s.table /\ t.relocs = s.relocs /\ t.open = o
  BY <1>1 DEF FileSet
<1>4. t.relocatable = s.relocatable
  BY <1>1 DEF FileSet
<1>5. Grows(s, t)
  BY <1>3 DEF Grows
<1>6. SameFile(s, t)
  BY <1>3, <1>4 DEF SameFile
<1>7. Within(t) = Within(s) /\ \A i : CodeOf(t, i) = CodeOf(s, i)
  BY <1>3 DEF Within, CodeOf
<1>8. SameCode(s, t)
  BY <1>7 DEF SameCode
<1>9. Numbered(t) /\ WithinLimits(t) /\ TableFilled(t)
  BY <1>1, <1>3 DEF Numbered, WithinLimits, TableFilled, FirstUser
<1>10. \A i \in DOMAIN t.funcs : FuncRight(t, i)
  BY SMTT(30), <1>1, <1>3 DEF FuncRight
<1>11. FileOK(t)
  BY <1>2, <1>3, <1>5, <1>6, <1>7, <1>8, <1>9, <1>10, FileGrows
<1>12. QED
  BY <1>3, <1>11 DEF Follows

(* ParseProcDecl: a heading takes the next number.                          *)
LEMMA HeadingOK ==
  ASSUME FileOK(c), HasRoom, NEW r \in Routines, NEW sig \in Sigs,
         NEW mark \in {"forward", "body"}, NEW iface \in BOOLEAN
  PROVE  LET t == Heading(r, sig, mark, iface)
         IN  /\ Follows(c, t) /\ t.open = c.open /\ Len(t.funcs) = Len(c.funcs) + 1
             /\ Len(t.funcs) \in DOMAIN t.funcs /\ t.funcs[Len(t.funcs)].mark = mark
<1>1. PICK s : s = c
  OBVIOUS
<1>2. /\ s \in FileSet /\ Numbered(s) /\ WithinLimits(s) /\ TableFilled(s)
      /\ \A i \in DOMAIN s.funcs : FuncRight(s, i)
      /\ \A n \in DOMAIN s.open : s.open[n] \in Within(s) \ {0}
  BY <1>1 DEF FileOK
<1>3. s.funcs \in Seq(FuncSet) /\ s.unit \in Files /\ s.slots \in Nat
      /\ Len(s.imports) \in Nat /\ Len(s.open) \in Nat /\ Len(s.funcs) \in Nat
  BY <1>2 DEF FileSet
<1>4. PICK g : g = [unit |-> s.unit, name |-> r, sig |-> sig, mark |-> mark,
                    index |-> Len(s.imports) + s.slots, level |-> Len(s.open),
                    iface |-> iface, code |-> <<>>]
  OBVIOUS
<1>5. g \in FuncSet
  <2>1. r \in Names /\ sig \in Headings /\ mark \in Marks /\ <<>> \in Seq(SiteSet)
    BY DEF Names, Headings, Marks
  <2>2. Len(s.imports) + s.slots \in Nat
    BY <1>3
  <2>3. QED
    BY <1>3, <1>4, <2>1, <2>2 DEF FuncSet
<1>6. /\ g.unit = s.unit /\ g.mark = mark /\ g.index = Len(s.imports) + s.slots
      /\ g.code = <<>>
  BY <1>4
<1>7. PICK fs : fs = Append(s.funcs, g)
  OBVIOUS
<1>8. /\ fs \in Seq(FuncSet) /\ Len(fs) = Len(s.funcs) + 1 /\ DOMAIN fs = 1 .. Len(fs)
      /\ fs = s.funcs \o <<g>>
      /\ \A i \in DOMAIN s.funcs : i \in DOMAIN fs /\ fs[i] = s.funcs[i]
      /\ Len(fs) \in DOMAIN fs /\ fs[Len(fs)] = g
      /\ \A i \in DOMAIN fs : i \in DOMAIN s.funcs \/ i = Len(fs)
      /\ Len(fs) \notin DOMAIN s.funcs /\ Len(fs) # 0
  <2>1. fs \in Seq(FuncSet) /\ Len(fs) = Len(s.funcs) + 1 /\ fs = s.funcs \o <<g>>
    BY <1>3, <1>5, <1>7, AppendProperties, AppendIsConcat
  <2>2. QED
    BY SMTT(30), <1>3, <1>5, <1>7, <2>1
<1>9. PICK t : t = Heading(r, sig, mark, iface)
  OBVIOUS
<1>10. t = [s EXCEPT !.slots = s.slots + 1, !.funcs = fs]
  BY <1>1, <1>4, <1>7, <1>9 DEF Heading
<1>11. t \in FileSet
  <2>1. s.slots + 1 \in Nat
    BY <1>3
  <2>2. QED
    BY <1>2, <1>8, <1>10, <2>1 DEF FileSet
<1>12. /\ t.unit = s.unit /\ t.uses = s.uses /\ t.imports = s.imports /\ t.funcs = fs
       /\ t.externs = s.externs /\ t.slots = s.slots + 1 /\ t.start = s.start
       /\ t.data = s.data /\ t.table = s.table /\ t.relocs = s.relocs /\ t.open = s.open
  BY <1>2, <1>10 DEF FileSet
<1>13. t.relocatable = s.relocatable
  BY <1>2, <1>10 DEF FileSet
<1>14. Numbered(t)
  <2>1. PICK more : more = <<g>>
    OBVIOUS
  <2>2. more \in Seq(FuncSet) /\ Len(more) = 1 /\ DOMAIN more = {1} /\ more[1] = g
    BY <1>5, <2>1
  <2>3. s.slots = HelperSlots + Cardinality(InMod(s.funcs))
    BY <1>2 DEF Numbered
  <2>4. g.index = FirstUser(s) + Cardinality(InMod(s.funcs)) + 1 - 1
    <3>1. Cardinality(InMod(s.funcs)) \in Nat
      BY <1>3, InModPlaces
    <3>2. QED
      BY <1>3, <1>6, <2>3, <3>1, Limits DEF FirstUser
  <2>5. \A j \in DOMAIN more :
           /\ more[j].mark \in {"forward", "body"}
           /\ more[j].index = FirstUser(s) + Cardinality(InMod(s.funcs)) + j - 1
    BY <1>6, <2>2, <2>4
  <2>6. t.funcs = s.funcs \o more /\ t.slots = s.slots + Len(more)
    BY <1>8, <1>12, <2>1, <2>2
  <2>7. QED
    BY <1>2, <1>11, <1>12, <2>2, <2>5, <2>6, NumberedAppend
<1>15. InMod(s.funcs) \subseteq InMod(t.funcs) /\ Len(fs) \in InMod(t.funcs)
       /\ \A i \in DOMAIN s.funcs : i \in InMod(t.funcs) => i \in InMod(s.funcs)
  BY <1>6, <1>8, <1>12 DEF InMod
<1>16. Grows(s, t)
  <2>1. ASSUME NEW i \in InMod(s.funcs)
        PROVE  i \in InMod(t.funcs) /\ t.funcs[i] = s.funcs[i]
    BY <1>8, <1>12, <1>15 DEF InMod
  <2>2. QED
    BY <1>12, <2>1 DEF Grows
<1>17. SameFile(s, t)
  BY <1>12, <1>13 DEF SameFile
<1>18. Within(s) \subseteq Within(t) /\ SameCode(s, t)
  <2>1. Within(s) \subseteq Within(t)
    BY <1>8, <1>12 DEF Within
  <2>2. ASSUME NEW i \in Within(s) PROVE CodeOf(t, i) = CodeOf(s, i)
    BY <1>8, <1>12 DEF CodeOf, Within
  <2>3. ASSUME NEW i \in Within(t), i \notin Within(s) PROVE CodeOf(t, i) = <<>>
    <3>1. i # 0 /\ i \in DOMAIN fs /\ fs[i].mark = "body"
      BY <1>12, <2>3 DEF Within
    <3>2. i = Len(fs)
      BY <1>8, <2>3, <3>1 DEF Within
    <3>3. QED
      BY <1>6, <1>8, <1>12, <3>1, <3>2 DEF CodeOf
  <2>4. QED
    BY <2>1, <2>2, <2>3 DEF SameCode
<1>19. WithinLimits(t) /\ TableFilled(t)
  <2>1. WithinLimits(t)
    <3>1. Len(s.funcs) < MaxFuncs /\ Len(s.imports) <= 2 + Len(s.funcs)
      BY <1>1, <1>2 DEF HasRoom, WithinLimits
    <3>2. QED
      BY SMTT(30), <1>3, <1>8, <1>12, <3>1, Limits DEF WithinLimits
  <2>2. TableFilled(t)
    <3>1. \A i \in InMod(s.funcs) : i \in InMod(t.funcs) /\ t.funcs[i] = s.funcs[i]
      BY <1>8, <1>12, <1>15 DEF InMod
    <3>2. QED
      BY <1>2, <1>12, <3>1 DEF TableFilled
  <2>3. QED
    BY <2>1, <2>2
<1>20. ASSUME NEW i \in DOMAIN t.funcs PROVE FuncRight(t, i)
  <2>1. CASE i \in DOMAIN s.funcs
    <3>1. t.funcs[i] = s.funcs[i] /\ FuncRight(s, i)
      BY <1>2, <1>8, <1>12, <2>1
    <3>2. i \in InMod(s.funcs) <=> i \in InMod(t.funcs)
      BY <1>15, <2>1
    <3>3. QED
      BY <1>12, <3>1, <3>2 DEF FuncRight
  <2>2. CASE i = Len(fs)
    <3>1. t.funcs[i] = g /\ i \in InMod(t.funcs)
      BY <1>8, <1>12, <1>15, <2>2
    <3>2. QED
      BY <1>6, <1>12, <3>1 DEF FuncRight
  <2>3. QED
    BY <1>8, <1>12, <2>1, <2>2
<1>21. \A n \in DOMAIN t.open : t.open[n] \in Within(t) \ {0}
  BY <1>2, <1>12, <1>18
<1>22. FileOK(t)
  BY <1>1, <1>11, <1>14, <1>16, <1>17, <1>18, <1>19, <1>20, <1>21, FileGrows
<1>23. Follows(c, t) /\ t.open = c.open
  BY <1>1, <1>12, <1>22 DEF Follows
<1>24. QED
  BY <1>1, <1>6, <1>8, <1>9, <1>12, <1>23

(* Forward and interface headings keep a file right.                        *)
LEMMA DeclareFollows ==
  ASSUME FileOK(c), NEW r \in Routines, NEW sig \in Sigs, Declare(r, sig)
  PROVE  Follows(c, c')
<1>1. PICK b \in BOOLEAN : b = InInterface
  BY DEF InInterface
<1>2. c' = Heading(r, sig, "forward", b) /\ HasRoom
  BY <1>1 DEF Declare, Fresh
<1>3. QED
  BY <1>2, HeadingOK

(* So does a heading with its body behind it,                               *)
LEMMA DefineFollows ==
  ASSUME FileOK(c), NEW r \in Routines, NEW sig \in Sigs, Define(r, sig)
  PROVE  Follows(c, c')
<1>1. HasRoom
  BY DEF Define, Fresh
<1>2. PICK s : s = Heading(r, sig, "body", FALSE)
  OBVIOUS
<1>3. /\ Follows(c, s) /\ s.open = c.open
      /\ Len(s.funcs) \in DOMAIN s.funcs /\ s.funcs[Len(s.funcs)].mark = "body"
  BY <1>1, <1>2, HeadingOK
<1>4. FileOK(s) /\ s \in FileSet /\ s.open \in Seq(Nat)
  BY <1>3 DEF Follows, FileOK, FileSet
<1>5. PICK o : o = Append(s.open, Len(s.funcs))
  OBVIOUS
<1>6. Len(s.funcs) \in Nat /\ Len(s.funcs) # 0 /\ Len(s.funcs) \in Within(s)
  <2>1. s.funcs \in Seq(FuncSet)
    BY <1>4 DEF FileSet
  <2>2. QED
    BY <1>3, <2>1 DEF Within
<1>7. o \in Seq(Nat) /\ \A n \in DOMAIN o : o[n] \in Within(s) \ {0}
  <2>1. \A n \in DOMAIN s.open : s.open[n] \in Within(s) \ {0}
    BY <1>4 DEF FileOK
  <2>2. \A n \in DOMAIN o : (n \in DOMAIN s.open /\ o[n] = s.open[n]) \/ o[n] = Len(s.funcs)
    BY <1>4, <1>5, <1>6
  <2>3. QED
    BY <1>4, <1>5, <1>6, <2>1, <2>2
<1>8. c' = [s EXCEPT !.open = o]
  BY <1>2, <1>5 DEF Define
<1>9. Follows(s, c')
  BY <1>4, <1>7, <1>8, OpenOK
<1>10. QED
  BY <1>3, <1>9 DEF Follows

(* and the end of a body.                                                   *)
LEMMA EndBodyFollows ==
  ASSUME FileOK(c), EndBody
  PROVE  Follows(c, c')
<1>1. c.open \in Seq(Nat) /\ c.open # <<>>
  BY DEF EndBody, FileOK, FileSet
<1>2. PICK o : o = Front(c.open)
  OBVIOUS
<1>3. o \in Seq(Nat) /\ \A n \in DOMAIN o : n \in DOMAIN c.open /\ o[n] = c.open[n]
  <2>1. o = SubSeq(c.open, 1, Len(c.open) - 1)
    BY <1>2 DEF Front
  <2>2. QED
    BY SMTT(30), <1>1, <2>1, SubSeqProperties
<1>4. \A n \in DOMAIN o : o[n] \in Within(c) \ {0}
  BY <1>3 DEF FileOK
<1>5. c' = [c EXCEPT !.open = o]
  BY <1>2 DEF EndBody
<1>6. QED
  BY <1>3, <1>4, <1>5, OpenOK

(* A heading gets its body: its number stays.                               *)
LEMMA DefineForwardFollows ==
  ASSUME FileOK(c), NEW i \in DOMAIN c.funcs, DefineForward(i)
  PROVE  Follows(c, c')
<1>1. PICK s : s = c
  OBVIOUS
<1>2. /\ s \in FileSet /\ Numbered(s) /\ WithinLimits(s) /\ TableFilled(s)
      /\ \A j \in DOMAIN s.funcs : FuncRight(s, j)
  BY <1>1 DEF FileOK
<1>3. s.funcs \in Seq(FuncSet) /\ i \in DOMAIN s.funcs /\ i \in Nat /\ i # 0
      /\ s.funcs[i] \in FuncSet /\ s.funcs[i].mark = "forward"
  BY <1>1, <1>2 DEF FileSet, DefineForward
<1>4. PICK g : g = [s.funcs[i] EXCEPT !.mark = "body"]
  OBVIOUS
<1>5. g \in FuncSet
  BY <1>3, <1>4 DEF FuncSet, Marks
<1>6. /\ g.mark = "body" /\ g.unit = s.funcs[i].unit /\ g.name = s.funcs[i].name
      /\ g.index = s.funcs[i].index /\ g.code = s.funcs[i].code
  BY <1>3, <1>4 DEF FuncSet
<1>7. PICK fs : fs = [s.funcs EXCEPT ![i] = g]
  OBVIOUS
<1>8. /\ fs \in Seq(FuncSet) /\ DOMAIN fs = DOMAIN s.funcs /\ Len(fs) = Len(s.funcs)
      /\ fs[i] = g /\ \A j \in DOMAIN s.funcs : j # i => fs[j] = s.funcs[j]
  BY <1>3, <1>5, <1>7, ExceptSeq
<1>9. PICK t : t = [s EXCEPT !.funcs = fs]
  OBVIOUS
<1>10. /\ t \in FileSet /\ t.unit = s.unit /\ t.uses = s.uses /\ t.imports = s.imports
       /\ t.funcs = fs /\ t.externs = s.externs /\ t.slots = s.slots /\ t.start = s.start
       /\ t.data = s.data /\ t.table = s.table /\ t.relocs = s.relocs /\ t.open = s.open
  BY <1>2, <1>8, <1>9 DEF FileSet
<1>11. t.relocatable = s.relocatable
  BY <1>2, <1>9 DEF FileSet
<1>12. InMod(t.funcs) = InMod(s.funcs)
       /\ \A j \in DOMAIN s.funcs : /\ fs[j].index = s.funcs[j].index
                                    /\ fs[j].unit = s.funcs[j].unit
                                    /\ fs[j].name = s.funcs[j].name
                                    /\ fs[j].code = s.funcs[j].code
  <2>1. \A j \in DOMAIN s.funcs : /\ fs[j].index = s.funcs[j].index
                                  /\ fs[j].unit = s.funcs[j].unit
                                  /\ fs[j].name = s.funcs[j].name
                                  /\ fs[j].code = s.funcs[j].code
    BY <1>6, <1>8
  <2>2. \A j \in DOMAIN s.funcs : fs[j].mark \in {"forward", "body"}
                                    <=> s.funcs[j].mark \in {"forward", "body"}
    BY <1>3, <1>6, <1>8
  <2>3. QED
    BY <1>8, <1>10, <2>1, <2>2 DEF InMod
<1>13. InMod(s.funcs) \subseteq DOMAIN s.funcs
  BY DEF InMod
<1>14. Grows(s, t)
  BY <1>10, <1>12, <1>13 DEF Grows
<1>15. SameFile(s, t)
  BY <1>10, <1>11 DEF SameFile
<1>16. Within(s) \subseteq Within(t) /\ SameCode(s, t)
  <2>1. Within(s) \subseteq Within(t)
    BY <1>6, <1>8, <1>10 DEF Within
  <2>2. ASSUME NEW j \in Within(s) PROVE CodeOf(t, j) = CodeOf(s, j)
    BY <1>10, <1>12 DEF CodeOf, Within
  <2>3. ASSUME NEW j \in Within(t), j \notin Within(s) PROVE CodeOf(t, j) = <<>>
    <3>1. j \in DOMAIN fs /\ j # 0 /\ fs[j].mark = "body"
      BY <1>10, <2>3 DEF Within
    <3>2. j = i
      BY <1>8, <2>3, <3>1 DEF Within
    <3>3. s.funcs[i].code = <<>>
      BY <1>2, <1>3 DEF FuncRight
    <3>4. QED
      BY <1>6, <1>8, <1>10, <3>1, <3>2, <3>3 DEF CodeOf
  <2>4. QED
    BY <2>1, <2>2, <2>3 DEF SameCode
<1>17. Numbered(t) /\ WithinLimits(t) /\ TableFilled(t)
  <2>1. Numbered(t)
    BY <1>2, <1>10, <1>12, <1>13 DEF Numbered, FirstUser
  <2>2. WithinLimits(t)
    BY <1>2, <1>8, <1>10 DEF WithinLimits
  <2>3. TableFilled(t)
    BY <1>2, <1>10, <1>12, <1>13 DEF TableFilled
  <2>4. QED
    BY <2>1, <2>2, <2>3
<1>18. ASSUME NEW j \in DOMAIN t.funcs PROVE FuncRight(t, j)
  <2>1. j \in DOMAIN s.funcs /\ FuncRight(s, j)
    BY <1>2, <1>8, <1>10
  <2>2. CASE j = i
    <3>1. i \in InMod(t.funcs) /\ t.funcs[i] = g
      BY <1>3, <1>8, <1>10, <1>12 DEF InMod
    <3>2. g.unit = t.unit
      BY <1>3, <1>6, <1>10, <1>12, <2>1, <2>2, <3>1 DEF FuncRight
    <3>3. QED
      BY <1>6, <2>2, <3>1, <3>2 DEF FuncRight
  <2>3. CASE j # i
    <3>1. t.funcs[j] = s.funcs[j]
      BY <1>8, <1>10, <2>1, <2>3
    <3>2. QED
      BY <1>10, <1>12, <2>1, <3>1 DEF FuncRight
  <2>4. QED
    BY <2>2, <2>3
<1>19. \A n \in DOMAIN t.open : t.open[n] \in Within(t) \ {0}
  BY <1>1, <1>10, <1>16 DEF FileOK
<1>20. FileOK(t)
  BY <1>1, <1>10, <1>14, <1>15, <1>16, <1>17, <1>18, <1>19, FileGrows
<1>21. Follows(c, t)
  BY <1>1, <1>10, <1>20 DEF Follows
<1>22. i \in Within(t) \ {0}
  BY <1>3, <1>6, <1>8, <1>10 DEF Within
<1>23. PICK o : o = <<i>>
  OBVIOUS
<1>24. o \in Seq(Nat) /\ \A n \in DOMAIN o : o[n] \in Within(t) \ {0}
  BY <1>3, <1>22, <1>23
<1>25. c' = [t EXCEPT !.open = o]
  BY <1>1, <1>4, <1>7, <1>9, <1>23 DEF DefineForward
<1>26. Follows(t, c')
  BY <1>20, <1>24, <1>25, OpenOK
<1>27. QED
  BY <1>21, <1>26 DEF Follows

(* An import that comes before the first heading moves no number.           *)
LEMMA ExternalFollows ==
  ASSUME FileOK(c), Constructs = {}, NEW h \in Hosts, External(h)
  PROVE  Follows(c, c')
<1>1. PICK s : s = c
  OBVIOUS
<1>2. /\ s \in FileSet /\ Numbered(s) /\ WithinLimits(s) /\ TableFilled(s)
      /\ SitesRight(s) /\ Recorded(s)
      /\ \A j \in DOMAIN s.funcs : FuncRight(s, j)
  BY <1>1 DEF FileOK
<1>3. s.start = <<>> /\ s.open = <<>> /\ s.slots = HelperSlots /\ Len(s.funcs) < MaxFuncs
  BY <1>1 DEF External, Declaring, Settled, HasRoom
<1>4. s.funcs \in Seq(FuncSet) /\ s.imports \in Seq(Imported) /\ s.unit \in Files
      /\ Len(s.funcs) \in Nat /\ Len(s.imports) \in Nat
  BY <1>2 DEF FileSet
<1>5. InMod(s.funcs) = {}
  <2>1. InMod(s.funcs) \in Places(Len(s.funcs)) /\ Cardinality(InMod(s.funcs)) = 0
    <3>1. s.slots = HelperSlots + Cardinality(InMod(s.funcs))
      BY <1>2 DEF Numbered
    <3>2. QED
      BY SMTT(30), <1>3, <1>4, <3>1, InModPlaces, Limits
  <2>2. QED
    BY <1>4, <2>1, PlacesFinite, FS_EmptySet
<1>6. Within(s) = {0} /\ s.relocs = <<>> /\ s.table = <<>>
  <2>1. Within(s) = {0}
    BY <1>5 DEF Within, InMod
  <2>2. \A k \in DOMAIN s.relocs : s.relocs[k].at \in DOMAIN s.start
    BY <1>2, <2>1 DEF Recorded, CodeOf
  <2>3. \A k \in DOMAIN s.table : FALSE
    BY <1>2, <1>5 DEF TableFilled
  <2>4. s.relocs \in Seq(RelocSet) /\ s.table \in Seq(Nat)
    BY <1>2 DEF FileSet
  <2>5. DOMAIN s.start = {}
    BY <1>3
  <2>6. Len(s.relocs) = 0
    <3>1. Len(s.relocs) \in Nat /\ DOMAIN s.relocs = 1 .. Len(s.relocs)
      BY <2>4
    <3>2. 1 \notin DOMAIN s.relocs
      BY <2>2, <2>5
    <3>3. QED
      BY <3>1, <3>2
  <2>7. Len(s.table) = 0
    <3>1. Len(s.table) \in Nat /\ DOMAIN s.table = 1 .. Len(s.table)
      BY <2>4
    <3>2. 1 \notin DOMAIN s.table
      BY <2>3
    <3>3. QED
      BY <3>1, <3>2
  <2>8. QED
    BY <2>1, <2>4, <2>6, <2>7
<1>7. PICK im : im = AddImport(h)
  OBVIOUS
<1>8. /\ im \in Seq(Imported) /\ Len(im) \in Nat /\ Len(im) <= Len(s.imports) + 1
      /\ \A j \in DOMAIN s.imports : j \in DOMAIN im /\ im[j] = s.imports[j]
      /\ \E k \in 0 .. Len(im) - 1 : im[k + 1] = h
  <2>0. h \in Imported
    BY DEF Imported
  <2>1. CASE Contains(s.imports, h)
    <3>1. im = s.imports
      BY <1>1, <1>7, <2>1 DEF AddImport
    <3>2. PICK j \in 1 .. Len(s.imports) : s.imports[j] = h
      BY <2>1 DEF Contains
    <3>3. j - 1 \in 0 .. Len(s.imports) /\ (j - 1) + 1 = j /\ j - 1 < Len(s.imports)
      BY <1>4
    <3>4. QED
      BY SMTT(30), <1>4, <3>1, <3>2, <3>3
  <2>2. CASE ~Contains(s.imports, h)
    <3>1. im = Append(s.imports, h)
      BY <1>1, <1>7, <2>2 DEF AddImport
    <3>2. im[Len(s.imports) + 1] = h /\ Len(s.imports) \in 0 .. Len(s.imports)
          /\ Len(im) = Len(s.imports) + 1 /\ im \in Seq(Imported)
      BY <1>4, <2>0, <3>1
    <3>3. \A j \in DOMAIN s.imports : j \in DOMAIN im /\ im[j] = s.imports[j]
      BY <1>4, <2>0, <3>1
    <3>4. QED
      BY <1>4, <3>2, <3>3
  <2>3. QED
    BY <2>1, <2>2
<1>9. PICK n : n = CHOOSE k \in 0 .. Len(im) - 1 : im[k + 1] = h
  OBVIOUS
<1>10. n \in Nat /\ n < Len(im) /\ im[n + 1] = h
  <2>1. n \in 0 .. Len(im) - 1 /\ im[n + 1] = h
    BY <1>8, <1>9
  <2>2. QED
    BY <1>8, <2>1
<1>11. PICK g : g = [unit |-> s.unit, name |-> h, sig |-> "host", mark |-> "host",
                     index |-> n, level |-> 0, iface |-> FALSE, code |-> <<>>]
  OBVIOUS
<1>12. g \in FuncSet
  <2>1. h \in Names /\ "host" \in Headings /\ "host" \in Marks /\ <<>> \in Seq(SiteSet)
    BY DEF Names, Headings, Marks
  <2>2. QED
    BY <1>4, <1>10, <1>11, <2>1 DEF FuncSet
<1>13. g.unit = s.unit /\ g.mark = "host" /\ g.index = n /\ g.name = h /\ g.code = <<>>
  BY <1>11
<1>14. g.iface = FALSE
  BY <1>11
<1>15. PICK fs : fs = Append(s.funcs, g)
  OBVIOUS
<1>16. /\ fs \in Seq(FuncSet) /\ Len(fs) = Len(s.funcs) + 1 /\ DOMAIN fs = 1 .. Len(fs)
       /\ \A i \in DOMAIN s.funcs : i \in DOMAIN fs /\ fs[i] = s.funcs[i]
       /\ fs[Len(fs)] = g
       /\ \A i \in DOMAIN fs : i \in DOMAIN s.funcs \/ i = Len(fs)
  BY <1>4, <1>12, <1>15
<1>17. InMod(fs) = {}
  <2>1. ASSUME NEW i \in InMod(fs) PROVE FALSE
    <3>1. i \in DOMAIN fs /\ fs[i].mark \in {"forward", "body"}
      BY DEF InMod
    <3>2. i # Len(fs)
      BY <1>13, <1>16, <3>1
    <3>3. i \in DOMAIN s.funcs /\ fs[i] = s.funcs[i]
      BY <1>16, <3>1, <3>2
    <3>4. i \in InMod(s.funcs)
      BY <3>1, <3>3 DEF InMod
    <3>5. QED
      BY <1>5, <3>4
  <2>2. QED
    BY <2>1
<1>18. PICK t : t = [s EXCEPT !.imports = im, !.funcs = fs]
  OBVIOUS
<1>19. /\ t \in FileSet /\ t.unit = s.unit /\ t.uses = s.uses /\ t.imports = im
       /\ t.funcs = fs /\ t.externs = s.externs /\ t.slots = s.slots /\ t.start = s.start
       /\ t.data = s.data /\ t.table = s.table /\ t.relocs = s.relocs /\ t.open = s.open
  BY <1>2, <1>8, <1>16, <1>18 DEF FileSet
<1>20. t.relocatable = s.relocatable
  BY <1>2, <1>18 DEF FileSet
<1>21. Within(t) = {0} /\ CodeOf(t, 0) = <<>>
  BY <1>3, <1>17, <1>19 DEF Within, CodeOf, InMod
<1>22. SitesRight(t) /\ Recorded(t)
  BY <1>6, <1>19, <1>21 DEF SitesRight, Recorded
<1>23. Numbered(t) /\ TableFilled(t)
  <2>1. Cardinality({}) = 0
    BY FS_EmptySet
  <2>2. InMod(t.funcs) = {} /\ t.slots = HelperSlots
    BY <1>3, <1>17, <1>19
  <2>3. Numbered(t)
    BY <2>1, <2>2, Limits DEF Numbered
  <2>4. QED
    BY <1>6, <1>19, <2>3 DEF TableFilled
<1>24. WithinLimits(t)
  <2>1. Len(s.imports) <= 2 + Len(s.funcs)
    BY <1>2 DEF WithinLimits
  <2>2. QED
    BY SMTT(30), <1>3, <1>4, <1>8, <1>16, <1>19, <2>1, Limits DEF WithinLimits
<1>25. ASSUME NEW i \in DOMAIN t.funcs PROVE FuncRight(t, i)
  <2>1. i \notin InMod(t.funcs) /\ i \notin InMod(s.funcs)
    BY <1>5, <1>17, <1>19
  <2>2. CASE i \in DOMAIN s.funcs
    <3>1. t.funcs[i] = s.funcs[i] /\ FuncRight(s, i)
      BY <1>2, <1>16, <1>19, <2>2
    <3>2. s.funcs[i].mark = "host" => /\ s.funcs[i].index < Len(im)
                                      /\ im[s.funcs[i].index + 1] = s.funcs[i].name
      <4>1. s.funcs[i] \in FuncSet
        BY <1>4, <2>2
      <4>2. s.funcs[i].index \in Nat
        BY <4>1 DEF FuncSet
      <4>3. s.funcs[i].mark = "host" => /\ s.funcs[i].index < Len(s.imports)
                                        /\ s.imports[s.funcs[i].index + 1] = s.funcs[i].name
        BY <3>1 DEF FuncRight
      <4>4. s.funcs[i].mark = "host" => s.funcs[i].index + 1 \in DOMAIN s.imports
        BY <1>4, <4>2, <4>3
      <4>5. s.funcs[i].mark = "host" => s.funcs[i].index + 1 \in DOMAIN im
                          /\ im[s.funcs[i].index + 1] = s.imports[s.funcs[i].index + 1]
        BY <1>8, <4>4
      <4>6. QED
        BY <1>8, <4>2, <4>3, <4>5
    <3>3. QED
      BY <1>19, <2>1, <3>1, <3>2 DEF FuncRight
  <2>3. CASE i = Len(fs)
    <3>1. t.funcs[i] = g /\ t.imports = im /\ t.unit = s.unit
      BY <1>16, <1>19, <2>3
    <3>2. QED
      BY <1>10, <1>13, <1>14, <2>1, <3>1 DEF FuncRight
  <2>4. QED
    BY <1>16, <1>19, <2>2, <2>3
<1>26. \A n1 \in DOMAIN t.open : t.open[n1] \in Within(t) \ {0}
  BY <1>3, <1>19
<1>27. \A k \in DOMAIN t.externs : ExternRight(t, t.externs[k])
  BY <1>1, <1>19 DEF FileOK, ExternRight
<1>28. t.relocatable \/ t.externs = <<>>
  BY <1>1, <1>19, <1>20 DEF FileOK
<1>29. t.unit \in Units => t.relocatable /\ t.start = <<>>
  BY <1>1, <1>19, <1>20 DEF FileOK
<1>30. FileOK(t)
  BY <1>19, <1>22, <1>23, <1>24, <1>25, <1>26, <1>27, <1>28, <1>29 DEF FileOK
<1>31. c' = t
  BY <1>1, <1>7, <1>9, <1>11, <1>15, <1>18 DEF External
<1>32. QED
  BY <1>1, <1>19, <1>30, <1>31 DEF Follows

-----------------------------------------------------------------------------
(* Writing code.                                                            *)

(* What the relocation of a site says.                                      *)
Told(kind, symbol, site) ==
  /\ kind = IF Unresolved(site) THEN "extern"
            ELSE IF site.kind = "slot" THEN "table" ELSE site.kind
  /\ symbol = IF Unresolved(site) THEN site.value - ExternFuncBase ELSE site.value

(* One site more, at the end of the code of i.                              *)
Emitted(s, t, i, site) ==
  /\ t \in FileSet
  /\ t.unit = s.unit /\ t.uses = s.uses /\ t.imports = s.imports /\ t.externs = s.externs
  /\ t.slots = s.slots /\ t.data = s.data /\ t.table = s.table /\ t.open = s.open
  /\ t.relocatable = s.relocatable
  /\ (i # 0 => t.start = s.start)
  /\ DOMAIN t.funcs = DOMAIN s.funcs /\ Len(t.funcs) = Len(s.funcs)
  /\ \A j \in DOMAIN s.funcs :
       /\ t.funcs[j].index = s.funcs[j].index /\ t.funcs[j].unit = s.funcs[j].unit
       /\ t.funcs[j].name = s.funcs[j].name /\ t.funcs[j].mark = s.funcs[j].mark
       /\ t.funcs[j].iface = s.funcs[j].iface
       /\ (j # i => t.funcs[j].code = s.funcs[j].code)
  /\ CodeOf(t, i) = Append(CodeOf(s, i), site)
  /\ \A j \in Within(s) : j # i => CodeOf(t, j) = CodeOf(s, j)

WithSite(u, i, site) ==
  IF i = 0 THEN [u EXCEPT !.start = Append(u.start, site)]
           ELSE [u EXCEPT !.funcs[i].code = Append(u.funcs[i].code, site)]

(* What one more site changes.                                              *)
LEMMA EmitFacts ==
  ASSUME NEW s \in FileSet, NEW site \in SiteSet, NEW rel \in Seq(RelocSet),
         NEW i \in Within(s)
  PROVE  LET t == WithSite([s EXCEPT !.relocs = rel], i, site)
         IN  Emitted(s, t, i, site) /\ t.relocs = rel
<1> DEFINE u == [s EXCEPT !.relocs = rel]
           t == WithSite(u, i, site)
<1>0. t = IF i = 0 THEN [u EXCEPT !.start = Append(u.start, site)]
                   ELSE [u EXCEPT !.funcs[i].code = Append(u.funcs[i].code, site)]
  BY DEF WithSite
<1> HIDE DEF t
<1>1. u \in FileSet
  BY DEF FileSet
<1>2. /\ u.unit = s.unit /\ u.uses = s.uses /\ u.imports = s.imports /\ u.externs = s.externs
      /\ u.slots = s.slots /\ u.data = s.data /\ u.table = s.table /\ u.open = s.open
      /\ u.start = s.start /\ u.funcs = s.funcs /\ u.relocs = rel
  BY DEF FileSet
<1>3. u.relocatable = s.relocatable
  BY DEF FileSet
<1>4. s.funcs \in Seq(FuncSet) /\ s.start \in Seq(SiteSet)
  BY DEF FileSet
<1> HIDE DEF u
<1>5. CASE i = 0
  <2>1. PICK q : q = Append(s.start, site)
    OBVIOUS
  <2>2. q \in Seq(SiteSet)
    BY <1>4, <2>1
  <2>3. t = [u EXCEPT !.start = q]
    BY <1>0, <1>2, <1>5, <2>1
  <2>4. t \in FileSet
    BY <1>1, <2>2, <2>3 DEF FileSet
  <2>5. /\ t.unit = u.unit /\ t.uses = u.uses /\ t.imports = u.imports /\ t.externs = u.externs
        /\ t.slots = u.slots /\ t.data = u.data /\ t.table = u.table /\ t.open = u.open
        /\ t.start = q /\ t.funcs = u.funcs /\ t.relocs = u.relocs
    BY <1>1, <2>3 DEF FileSet
  <2>6. t.relocatable = u.relocatable
    BY <1>1, <2>3 DEF FileSet
  <2>7. CodeOf(t, i) = Append(CodeOf(s, i), site)
    BY <1>5, <2>1, <2>5 DEF CodeOf
  <2>8. \A j \in Within(s) : j # i => CodeOf(t, j) = CodeOf(s, j)
    BY <1>2, <1>5, <2>5 DEF CodeOf
  <2>9. Emitted(s, t, i, site) /\ t.relocs = rel
    BY <1>2, <1>3, <1>5, <2>4, <2>5, <2>6, <2>7, <2>8 DEF Emitted
  <2>10. QED
    BY <2>9 DEF t, u
<1>6. CASE i # 0
  <2>1. i \in DOMAIN s.funcs /\ s.funcs[i] \in FuncSet
    BY <1>4, <1>6 DEF Within
  <2>2. s.funcs[i].code \in Seq(SiteSet)
    BY <2>1 DEF FuncSet
  <2>3. PICK q : q = Append(s.funcs[i].code, site)
    OBVIOUS
  <2>4. q \in Seq(SiteSet)
    BY <2>2, <2>3
  <2>5. PICK g : g = [s.funcs[i] EXCEPT !.code = q]
    OBVIOUS
  <2>6. g \in FuncSet
    BY <2>1, <2>4, <2>5 DEF FuncSet
  <2>7. /\ g.code = q /\ g.unit = s.funcs[i].unit /\ g.name = s.funcs[i].name
        /\ g.index = s.funcs[i].index /\ g.mark = s.funcs[i].mark
    BY <2>1, <2>5 DEF FuncSet
  <2>8. g.iface = s.funcs[i].iface
    BY <2>1, <2>5 DEF FuncSet
  <2>9. PICK fs : fs = [s.funcs EXCEPT ![i] = g]
    OBVIOUS
  <2>10. /\ fs \in Seq(FuncSet) /\ DOMAIN fs = DOMAIN s.funcs /\ Len(fs) = Len(s.funcs)
         /\ fs[i] = g /\ \A j \in DOMAIN s.funcs : j # i => fs[j] = s.funcs[j]
    BY <1>4, <2>1, <2>6, <2>9, ExceptSeq
  <2>11. t = [u EXCEPT !.funcs = fs]
    BY <1>0, <1>1, <1>2, <1>6, <2>3, <2>5, <2>9 DEF FileSet
  <2>12. t \in FileSet
    BY <1>1, <2>10, <2>11 DEF FileSet
  <2>13. /\ t.unit = u.unit /\ t.uses = u.uses /\ t.imports = u.imports
         /\ t.externs = u.externs /\ t.slots = u.slots /\ t.data = u.data
         /\ t.table = u.table /\ t.open = u.open
         /\ t.start = u.start /\ t.funcs = fs /\ t.relocs = u.relocs
    BY <1>1, <2>11 DEF FileSet
  <2>14. t.relocatable = u.relocatable
    BY <1>1, <2>11 DEF FileSet
  <2>15. CodeOf(t, i) = Append(CodeOf(s, i), site)
    BY <1>6, <2>3, <2>7, <2>10, <2>13 DEF CodeOf
  <2>16. \A j \in Within(s) : j # i => CodeOf(t, j) = CodeOf(s, j)
    BY <1>2, <2>10, <2>13 DEF CodeOf, Within
  <2>17. ASSUME NEW j \in DOMAIN s.funcs
         PROVE  /\ t.funcs[j].index = s.funcs[j].index /\ t.funcs[j].unit = s.funcs[j].unit
                /\ t.funcs[j].name = s.funcs[j].name /\ t.funcs[j].mark = s.funcs[j].mark
                /\ (j # i => t.funcs[j].code = s.funcs[j].code)
    BY <2>7, <2>10, <2>13
  <2>18. \A j \in DOMAIN s.funcs : t.funcs[j].iface = s.funcs[j].iface
    BY <2>8, <2>10, <2>13
  <2>19. Emitted(s, t, i, site) /\ t.relocs = rel
    BY <1>2, <1>3, <2>10, <2>12, <2>13, <2>14, <2>15, <2>16, <2>17, <2>18 DEF Emitted
  <2>20. QED
    BY <2>19 DEF t, u
<1>7. QED
  BY <1>5, <1>6

(* A site that is right, with its relocation, keeps a file right.           *)
LEMMA EmitFollows ==
  ASSUME NEW s, FileOK(s), NEW site \in SiteSet,
         NEW kind \in {"func", "extern", "data", "table"}, NEW symbol \in Nat,
         Told(kind, symbol, site), SiteRight(s, s.externs, site),
         s.unit \notin Units \/ s.open # <<>>
  PROVE  Follows(s, Emit(s, kind, symbol, site))
<1>1. /\ s \in FileSet /\ Numbered(s) /\ WithinLimits(s) /\ TableFilled(s)
      /\ SitesRight(s) /\ Recorded(s)
      /\ \A j \in DOMAIN s.funcs : FuncRight(s, j)
      /\ \A n \in DOMAIN s.open : s.open[n] \in Within(s) \ {0}
  BY DEF FileOK
<1>2. PICK i : i = InBody(s)
  OBVIOUS
<1>3. i \in Within(s) /\ (s.unit \in Units => i # 0)
  <2>1. CASE s.open = <<>>
    BY <1>2, <2>1 DEF InBody, Within
  <2>2. CASE s.open # <<>>
    <3>1. s.open \in Seq(Nat)
      BY <1>1 DEF FileSet
    <3>2. i = s.open[Len(s.open)] /\ Len(s.open) \in DOMAIN s.open
      BY <1>2, <2>2, <3>1 DEF InBody, Last
    <3>3. QED
      BY <1>1, <3>2
  <2>3. QED
    BY <2>1, <2>2
<1>4. PICK code : code = CodeOf(s, i)
  OBVIOUS
<1>5. code \in Seq(SiteSet) /\ Len(code) \in Nat
  BY <1>1, <1>3, <1>4, CodeTyped
<1>6. i \in Int
  BY <1>1, <1>3 DEF Within, FileSet
<1>7. PICK r : r = [kind |-> kind, in |-> i, at |-> Len(code) + 1, symbol |-> symbol]
  OBVIOUS
<1>8. r \in RelocSet /\ r.in = i /\ r.at = Len(code) + 1 /\ RelocFor(r, site)
  <2>1. r \in RelocSet
    BY <1>5, <1>6, <1>7 DEF RelocSet
  <2>2. r.in = i /\ r.at = Len(code) + 1 /\ r.kind = kind /\ r.symbol = symbol
    BY <1>7
  <2>3. RelocFor(r, site)
    BY <2>2 DEF Told, RelocFor
  <2>4. QED
    BY <2>1, <2>2, <2>3
<1>9. PICK rel : rel = IF s.relocatable THEN Append(s.relocs, r) ELSE s.relocs
  OBVIOUS
<1>10. s.relocs \in Seq(RelocSet)
  BY <1>1 DEF FileSet
<1>11. /\ rel \in Seq(RelocSet)
       /\ \A k \in DOMAIN s.relocs : k \in DOMAIN rel /\ rel[k] = s.relocs[k]
       /\ \A k \in DOMAIN rel : k \in DOMAIN s.relocs \/ rel[k] = r
  <2>1. CASE s.relocatable
    <3>1. rel = Append(s.relocs, r)
      BY <1>9, <2>1
    <3>2. QED
      BY <1>8, <1>10, <3>1
  <2>2. CASE ~s.relocatable
    BY <1>9, <1>10, <2>2
  <2>3. QED
    BY <2>1, <2>2
<1>12. s.relocatable => \E k \in DOMAIN rel : rel[k] = r
  <2>1. ASSUME s.relocatable PROVE \E k \in DOMAIN rel : rel[k] = r
    <3>1. rel = Append(s.relocs, r)
      BY <1>9, <2>1
    <3>2. Len(s.relocs) + 1 \in DOMAIN rel /\ rel[Len(s.relocs) + 1] = r
      BY <1>8, <1>10, <3>1
    <3>3. QED
      BY <3>2
  <2>2. QED
    BY <2>1
<1>13. Unresolved(site) => s.relocatable
  <2>1. s.relocatable \/ s.externs = <<>>
    BY DEF FileOK
  <2>2. Unresolved(site) => s.externs # <<>>
    <3>1. DOMAIN <<>> = {}
      OBVIOUS
    <3>2. QED
      BY <3>1 DEF SiteRight, ExternMeans
  <2>3. QED
    BY <2>1, <2>2
<1>14. PICK t : t = Emit(s, kind, symbol, site)
  OBVIOUS
<1>15. Emitted(s, t, i, site) /\ t.relocs = rel
  <2>1. PICK u : u = [s EXCEPT !.relocs = rel]
    OBVIOUS
  <2>2. AddReloc(s, kind, symbol) = rel
    BY <1>2, <1>4, <1>7, <1>9 DEF AddReloc
  <2>3. t = WithSite(u, i, site)
    BY <1>2, <1>14, <2>1, <2>2 DEF Emit, WithSite
  <2>4. QED
    BY <1>1, <1>3, <1>11, <2>1, <2>3, EmitFacts
<1>16. /\ t.unit = s.unit /\ t.uses = s.uses /\ t.imports = s.imports /\ t.externs = s.externs
       /\ t.slots = s.slots /\ t.data = s.data /\ t.table = s.table /\ t.open = s.open
       /\ t.relocatable = s.relocatable /\ t \in FileSet
       /\ DOMAIN t.funcs = DOMAIN s.funcs /\ Len(t.funcs) = Len(s.funcs)
  BY <1>15 DEF Emitted
<1>17. InMod(t.funcs) = InMod(s.funcs) /\ Within(t) = Within(s)
  BY <1>15 DEF Emitted, InMod, Within
<1>18. InMod(s.funcs) \subseteq DOMAIN s.funcs
  BY DEF InMod
<1>19. Grows(s, t)
  BY <1>15, <1>17, <1>18 DEF Emitted, Grows
<1>20. Numbered(t)
  BY <1>1, <1>15, <1>17, <1>18 DEF Emitted, Numbered, FirstUser
<1>21. WithinLimits(t)
  BY <1>1, <1>16 DEF WithinLimits
<1>22. TableFilled(t)
  BY <1>1, <1>15, <1>17, <1>18 DEF Emitted, TableFilled
<1>23. ASSUME NEW j \in DOMAIN t.funcs PROVE FuncRight(t, j)
  <2>1. FuncRight(s, j) /\ j \in DOMAIN s.funcs
    BY <1>1, <1>16
  <2>2. /\ t.funcs[j].index = s.funcs[j].index /\ t.funcs[j].unit = s.funcs[j].unit
        /\ t.funcs[j].name = s.funcs[j].name /\ t.funcs[j].mark = s.funcs[j].mark
        /\ t.funcs[j].iface = s.funcs[j].iface
        /\ (j # i => t.funcs[j].code = s.funcs[j].code)
    BY <1>15, <2>1 DEF Emitted
  <2>3. j = i => s.funcs[j].mark = "body"
    <3>1. i # 0 \/ 0 \notin DOMAIN s.funcs
      BY <1>1 DEF FileSet
    <3>2. QED
      BY <1>3, <2>1, <3>1 DEF Within
  <2>4. QED
    BY <1>16, <1>17, <2>1, <2>2, <2>3 DEF FuncRight
<1>24. ASSUME NEW j \in Within(t), NEW p \in DOMAIN CodeOf(t, j)
       PROVE  \/ /\ p \in DOMAIN CodeOf(s, j) /\ CodeOf(t, j)[p] = CodeOf(s, j)[p]
              \/ j = i /\ p = Len(code) + 1 /\ CodeOf(t, j)[p] = site
  <2>1. CASE j = i
    <3>1. CodeOf(t, j) = Append(code, site)
      BY <1>4, <1>15, <2>1 DEF Emitted
    <3>2. QED
      BY <1>4, <1>5, <2>1, <3>1
  <2>2. CASE j # i
    BY <1>15, <1>17, <2>2 DEF Emitted
  <2>3. QED
    BY <2>1, <2>2
<1>25. ASSUME NEW j \in Within(s), NEW p \in DOMAIN CodeOf(s, j)
       PROVE  p \in DOMAIN CodeOf(t, j) /\ CodeOf(t, j)[p] = CodeOf(s, j)[p]
  <2>1. CASE j = i
    <3>1. CodeOf(t, j) = Append(code, site)
      BY <1>4, <1>15, <2>1 DEF Emitted
    <3>2. QED
      BY <1>4, <1>5, <2>1, <3>1
  <2>2. CASE j # i
    BY <1>15, <1>17, <2>2 DEF Emitted
  <2>3. QED
    BY <2>1, <2>2
<1>26. Len(code) + 1 \in DOMAIN CodeOf(t, i) /\ CodeOf(t, i)[Len(code) + 1] = site
  <2>1. CodeOf(t, i) = Append(code, site)
    BY <1>4, <1>15 DEF Emitted
  <2>2. QED
    BY <1>5, <2>1
<1>27. SitesRight(t)
  <2>1. ASSUME NEW j \in Within(t), NEW p \in DOMAIN CodeOf(t, j)
        PROVE  SiteRight(t, t.externs, CodeOf(t, j)[p])
    <3>1. PICK x : x = CodeOf(t, j)[p]
      OBVIOUS
    <3>2. x \in SiteSet /\ SiteRight(s, s.externs, x)
      <4>1. CASE p \in DOMAIN CodeOf(s, j) /\ x = CodeOf(s, j)[p]
        BY <1>1, <1>17, <4>1, CodeTyped DEF SitesRight
      <4>2. QED
        BY <1>24, <3>1, <4>1
    <3>3. x.kind \in {"func", "data", "slot"}
      BY <3>2 DEF SiteSet
    <3>4. SiteRight(t, s.externs, x)
      BY <1>19, <3>2, <3>3, SiteGrows
    <3>5. QED
      BY <1>16, <3>1, <3>4
  <2>2. QED
    BY <2>1 DEF SitesRight
<1>28. Recorded(t)
  <2>1. ASSUME NEW k \in DOMAIN t.relocs
        PROVE  LET q == t.relocs[k]
               IN q.in \in Within(t) /\ q.at \in DOMAIN CodeOf(t, q.in)
                  /\ RelocFor(q, CodeOf(t, q.in)[q.at])
    <3>1. CASE k \in DOMAIN s.relocs
      <4>1. PICK q : q = s.relocs[k]
        OBVIOUS
      <4>2. t.relocs[k] = q
        BY <1>11, <1>15, <3>1, <4>1
      <4>3. q.in \in Within(s) /\ q.at \in DOMAIN CodeOf(s, q.in)
            /\ RelocFor(q, CodeOf(s, q.in)[q.at])
        BY <1>1, <3>1, <4>1 DEF Recorded
      <4>4. q.at \in DOMAIN CodeOf(t, q.in) /\ CodeOf(t, q.in)[q.at] = CodeOf(s, q.in)[q.at]
        BY <1>25, <4>3
      <4>5. QED
        BY <1>17, <4>2, <4>3, <4>4
    <3>2. CASE t.relocs[k] = r
      BY <1>3, <1>8, <1>17, <1>26, <3>2
    <3>3. QED
      BY <1>11, <1>15, <3>1, <3>2
  <2>2. ASSUME NEW j \in Within(t), NEW p \in DOMAIN CodeOf(t, j),
               t.relocatable \/ Unresolved(CodeOf(t, j)[p])
        PROVE  \E k \in DOMAIN t.relocs : t.relocs[k].in = j /\ t.relocs[k].at = p
    <3>1. CASE p \in DOMAIN CodeOf(s, j) /\ CodeOf(t, j)[p] = CodeOf(s, j)[p]
      <4>1. \E k \in DOMAIN s.relocs : s.relocs[k].in = j /\ s.relocs[k].at = p
        BY <1>1, <1>16, <1>17, <2>2, <3>1 DEF Recorded
      <4>2. QED
        BY <1>11, <1>15, <4>1
    <3>2. CASE j = i /\ p = Len(code) + 1 /\ CodeOf(t, j)[p] = site
      <4>1. s.relocatable
        BY <1>13, <1>16, <2>2, <3>2
      <4>2. QED
        BY <1>8, <1>12, <1>15, <3>2, <4>1
    <3>3. QED
      BY <1>24, <3>1, <3>2
  <2>3. QED
    BY <2>1, <2>2 DEF Recorded
<1>29. \A n \in DOMAIN t.open : t.open[n] \in Within(t) \ {0}
  BY <1>1, <1>16, <1>17
<1>30. \A k \in DOMAIN t.externs : ExternRight(t, t.externs[k])
  BY <1>16 DEF FileOK, ExternRight
<1>31. t.relocatable \/ t.externs = <<>>
  BY <1>16 DEF FileOK
<1>32. t.unit \in Units => t.relocatable /\ t.start = <<>>
  <2>1. s.unit \in Units => s.relocatable /\ s.start = <<>>
    BY DEF FileOK
  <2>2. s.unit \in Units => t.start = s.start
    BY <1>3, <1>15 DEF Emitted
  <2>3. QED
    BY <1>16, <2>1, <2>2
<1>33. FileOK(t)
  BY <1>16, <1>20, <1>21, <1>22, <1>23, <1>27, <1>28, <1>29, <1>30, <1>31, <1>32 DEF FileOK
<1>34. QED
  BY <1>14, <1>16, <1>33 DEF Follows

(* EmitCall: a call of an index that names what is meant,                   *)
LEMMA CallsFollow ==
  ASSUME NEW s, FileOK(s), NEW index \in Nat, NEW means \in Meanings, NEW sig \in Headings,
         IF index >= ExternFuncBase
           THEN ExternMeans(s.externs, index - ExternFuncBase + 1, means)
           ELSE FuncLands(s, index, means),
         s.unit \notin Units \/ s.open # <<>>
  PROVE  Follows(s, EmitCall(s, index, means, sig))
<1>1. PICK site : site = [kind |-> "func", value |-> index, means |-> means, sig |-> sig]
  OBVIOUS
<1>2. site \in SiteSet
  BY <1>1 DEF SiteSet
<1>3. site.kind = "func" /\ site.value = index /\ site.means = means
  BY <1>1
<1>4. CASE index >= ExternFuncBase
  <2>1. EmitCall(s, index, means, sig) = Emit(s, "extern", index - ExternFuncBase, site)
    BY <1>1, <1>4 DEF EmitCall
  <2>2. index - ExternFuncBase \in Nat
    BY <1>4, Limits
  <2>3. Unresolved(site)
    BY <1>3, <1>4 DEF Unresolved
  <2>4. SiteRight(s, s.externs, site)
    BY <1>3, <1>4, <2>3 DEF SiteRight
  <2>5. Told("extern", index - ExternFuncBase, site)
    BY <1>3, <2>3 DEF Told
  <2>6. QED
    BY <1>2, <2>1, <2>2, <2>4, <2>5, EmitFollows
<1>5. CASE ~(index >= ExternFuncBase)
  <2>1. EmitCall(s, index, means, sig) = Emit(s, "func", index, site)
    BY <1>1, <1>5 DEF EmitCall
  <2>2. ~Unresolved(site)
    BY <1>3, <1>5 DEF Unresolved
  <2>3. SiteRight(s, s.externs, site)
    BY <1>3, <1>5, <2>2 DEF SiteRight, Lands
  <2>4. Told("func", index, site)
    BY <1>3, <2>2 DEF Told
  <2>5. QED
    BY <1>2, <2>1, <2>3, <2>4, EmitFollows
<1>6. QED
  BY <1>4, <1>5

(* which is what a call in the source emits,                                *)
LEMMA CallFollows ==
  ASSUME FileOK(c), NEW i \in DOMAIN c.funcs, Call(i)
  PROVE  Follows(c, c')
<1>1. /\ c \in FileSet /\ Numbered(c) /\ WithinLimits(c) /\ FuncRight(c, i)
  BY DEF FileOK
<1>2. PICK g : g = c.funcs[i]
  OBVIOUS
<1>3. g \in FuncSet /\ c.funcs \in Seq(FuncSet) /\ c.imports \in Seq(Imported)
  BY <1>1, <1>2 DEF FileSet
<1>4. g.index \in Nat /\ g.sig \in Headings /\ g.mark \in Marks /\ g.unit \in Files
      /\ g.name \in Names
  BY <1>3 DEF FuncSet
<1>5. PICK means : means = IF g.mark = "host" THEN <<"host", g.name>> ELSE <<g.unit, g.name>>
  OBVIOUS
<1>6. means \in Meanings
  <2>1. "host" \in Words /\ g.name \in Words /\ g.unit \in Words
    BY <1>4 DEF Words
  <2>2. QED
    BY <1>5, <2>1 DEF Meanings
<1>7. c' = EmitCall(c, g.index, means, g.sig) /\ (c.unit = Program \/ c.open # <<>>)
  BY <1>2, <1>5 DEF Call, Writing
<1>8. c.unit \notin Units \/ c.open # <<>>
  BY <1>7, LinkerConstants
<1>9. IF g.index >= ExternFuncBase
        THEN ExternMeans(c.externs, g.index - ExternFuncBase + 1, means)
        ELSE FuncLands(c, g.index, means)
  <2>1. CASE g.mark = "host"
    <3>1. g.index < Len(c.imports) /\ c.imports[g.index + 1] = g.name
      BY <1>1, <1>2, <2>1 DEF FuncRight
    <3>2. g.index < ExternFuncBase /\ ~(g.index >= ExternFuncBase)
      BY SMTT(30), <1>1, <1>4, <3>1, IndicesBetween, Limits
    <3>3. means = <<"host", c.imports[g.index + 1]>>
      BY <1>5, <2>1, <3>1
    <3>4. FuncLands(c, g.index, means)
      BY <3>1, <3>2, <3>3 DEF FuncLands
    <3>5. QED
      BY <3>2, <3>4
  <2>2. CASE g.mark = "extern"
    <3>1. /\ g.index >= ExternFuncBase
          /\ ExternMeans(c.externs, g.index - ExternFuncBase + 1, <<g.unit, g.name>>)
      BY <1>1, <1>2, <2>2 DEF FuncRight
    <3>2. QED
      BY <1>5, <2>2, <3>1
  <2>3. CASE g.mark \in {"forward", "body"}
    <3>1. i \in InMod(c.funcs)
      BY <1>2, <2>3 DEF InMod
    <3>2. g.index < ExternFuncBase /\ ~(g.index >= ExternFuncBase)
      <4>1. Len(c.imports) + c.slots < ExternFuncBase /\ Len(c.imports) \in Nat
            /\ c.slots \in Nat
        BY <1>1, IndicesBetween
      <4>2. g.index < Len(c.imports) + c.slots
        BY <1>1, <1>2, <3>1, IndicesBetween
      <4>3. QED
        BY <1>4, <4>1, <4>2, Limits
    <3>3. means = <<g.unit, g.name>>
      BY <1>5, <2>3
    <3>4. Routine(c.funcs, g.index, means)
      BY <1>2, <3>1, <3>3 DEF Routine
    <3>5. QED
      BY <3>2, <3>4 DEF FuncLands
  <2>4. QED
    BY <1>4, <2>1, <2>2, <2>3 DEF Marks
<1>10. QED
  BY <1>4, <1>6, <1>7, <1>8, <1>9, CallsFollow

(* and a call of a helper.                                                  *)
LEMMA CallHelperFollows ==
  ASSUME FileOK(c), NEW k \in 1 .. HelperSlots - 1, CallHelper(k)
  PROVE  Follows(c, c')
<1>1. /\ c \in FileSet /\ Numbered(c) /\ WithinLimits(c)
  BY DEF FileOK
<1>2. Len(c.imports) \in Nat /\ c.slots \in Nat /\ c.slots >= HelperSlots
  <2>1. c.slots = HelperSlots + Cardinality(InMod(c.funcs)) /\ c.funcs \in Seq(FuncSet)
    BY <1>1 DEF Numbered, FileSet
  <2>2. QED
    BY SMTT(30), <1>1, <2>1, InModPlaces, Limits DEF FileSet
<1>3. PICK v : v = Len(c.imports) + k
  OBVIOUS
<1>4. v \in Nat /\ v < ExternFuncBase /\ ~(v >= ExternFuncBase)
      /\ v - Len(c.imports) = k
  <2>1. Len(c.imports) + c.slots < ExternFuncBase
    BY <1>1, IndicesBetween
  <2>2. QED
    BY <1>2, <1>3, <2>1, Limits
<1>5. FuncLands(c, v, <<"helper", k>>)
  BY <1>4 DEF FuncLands
<1>6. <<"helper", k>> \in Meanings /\ "helper" \in Headings
  BY Limits DEF Meanings, Words, Headings
<1>7. c' = EmitCall(c, v, <<"helper", k>>, "helper") /\ (c.unit = Program \/ c.open # <<>>)
  BY <1>3 DEF CallHelper, Writing
<1>8. c.unit \notin Units \/ c.open # <<>>
  BY <1>7, LinkerConstants
<1>9. QED
  BY <1>4, <1>5, <1>6, <1>7, <1>8, CallsFollow

(* What a sequence has at a place stays there when another is put behind.   *)
Begins(a, b) == \A k \in DOMAIN a : k \in DOMAIN b /\ b[k] = a[k]

(* The elements of a sequence and of one behind it.                         *)
LEMMA JoinFacts ==
  ASSUME NEW S, NEW a \in Seq(S), NEW b \in Seq(S)
  PROVE  /\ a \o b \in Seq(S) /\ Len(a \o b) = Len(a) + Len(b) /\ Begins(a, a \o b)
         /\ \A k \in DOMAIN b : Len(a) + k \in DOMAIN (a \o b) /\ (a \o b)[Len(a) + k] = b[k]
         /\ \A k \in DOMAIN (a \o b) :
               k \in DOMAIN a \/ (k - Len(a) \in DOMAIN b /\ (a \o b)[k] = b[k - Len(a)])
<1>1. PICK d : d = a \o b
  OBVIOUS
<1>2. PICK m \in Nat : m = Len(a)
  OBVIOUS
<1>3. PICK n \in Nat : n = Len(b)
  OBVIOUS
<1>4. DOMAIN a = 1 .. m /\ DOMAIN b = 1 .. n
  BY <1>2, <1>3
<1>5. d \in Seq(S) /\ Len(d) = m + n
  BY <1>1, <1>2, <1>3, ConcatProperties
<1>6. DOMAIN d = 1 .. m + n
  BY <1>2, <1>3, <1>5
<1>7. \A k \in 1 .. m + n : d[k] = IF k <= m THEN a[k] ELSE b[k - m]
  BY <1>1, <1>2, <1>3, ConcatProperties
<1>8. Begins(a, d)
  BY <1>4, <1>6, <1>7 DEF Begins
<1>9. ASSUME NEW k \in 1 .. n PROVE m + k \in DOMAIN d /\ d[m + k] = b[k]
  <2>1. m + k \in 1 .. m + n /\ ~(m + k <= m) /\ (m + k) - m = k
    OBVIOUS
  <2>2. QED
    BY <1>6, <1>7, <2>1
<1>10. ASSUME NEW k \in 1 .. m + n, k \notin 1 .. m
       PROVE  k - m \in 1 .. n /\ d[k] = b[k - m]
  <2>1. ~(k <= m) /\ k - m \in 1 .. n
    BY <1>10
  <2>2. QED
    BY <1>7, <2>1
<1>11. QED
  BY <1>1, <1>2, <1>3, <1>4, <1>5, <1>6, <1>8, <1>9, <1>10

(* More of the table, or more data, takes nothing from what lands.          *)
WithRoom(s, tb, d) == [s EXCEPT !.table = tb, !.data = d]

(* More data and more slots of numbered routines keep a file right.         *)
LEMMA RoomOK ==
  ASSUME NEW s, FileOK(s), NEW tb \in Seq(Nat), NEW d \in Seq(Meanings),
         Begins(s.table, tb), Begins(s.data, d),
         \A k \in DOMAIN tb : k \in DOMAIN s.table
                              \/ \E g \in InMod(s.funcs) : s.funcs[g].index = tb[k],
         NEW t, t = WithRoom(s, tb, d)
  PROVE  Follows(s, t) /\ t.open = s.open
<1>0. t = [s EXCEPT !.table = tb, !.data = d]
  BY DEF WithRoom
<1>1. s \in FileSet /\ Numbered(s) /\ WithinLimits(s) /\ TableFilled(s)
      /\ (\A i \in DOMAIN s.funcs : FuncRight(s, i))
      /\ (\A n \in DOMAIN s.open : s.open[n] \in Within(s) \ {0})
  BY DEF FileOK
<1>2. t \in FileSet
  BY <1>0, <1>1 DEF FileSet
<1>3. /\ t.unit = s.unit /\ t.uses = s.uses /\ t.imports = s.imports /\ t.funcs = s.funcs
      /\ t.externs = s.externs /\ t.slots = s.slots /\ t.start = s.start /\ t.data = d
      /\ t.table = tb /\ t.relocs = s.relocs /\ t.open = s.open
  BY <1>0, <1>1 DEF FileSet
<1>4. t.relocatable = s.relocatable
  BY <1>0, <1>1 DEF FileSet
<1>5. Grows(s, t)
  BY <1>3 DEF Grows, Begins
<1>6. SameFile(s, t)
  BY <1>3, <1>4 DEF SameFile
<1>7. Within(t) = Within(s) /\ \A i : CodeOf(t, i) = CodeOf(s, i)
  BY <1>3 DEF Within, CodeOf
<1>8. SameCode(s, t)
  BY <1>7 DEF SameCode
<1>9. Numbered(t) /\ WithinLimits(t)
  BY <1>1, <1>3 DEF Numbered, WithinLimits, FirstUser
<1>10. TableFilled(t)
  <2>1. \A k \in DOMAIN s.table : \E g \in InMod(s.funcs) : s.funcs[g].index = s.table[k]
    BY <1>1 DEF TableFilled
  <2>2. \A k \in DOMAIN tb : \E g \in InMod(s.funcs) : s.funcs[g].index = tb[k]
    BY <2>1 DEF Begins
  <2>3. QED
    BY <1>3, <2>2 DEF TableFilled
<1>11. \A i \in DOMAIN t.funcs : FuncRight(t, i)
  BY ZenonT(60), <1>1, <1>3 DEF FuncRight
<1>12. FileOK(t)
  BY <1>1, <1>2, <1>3, <1>5, <1>6, <1>7, <1>8, <1>9, <1>10, <1>11, FileGrows
<1>13. QED
  BY <1>3, <1>12 DEF Follows

(* ProcRefIndex: a slot that holds the index, and the slots there were.     *)
LEMMA SlotOfIndex ==
  ASSUME NEW s, s.table \in Seq(Nat), NEW index \in Nat
  PROVE  LET ref == ProcRefIndex(s, index)
         IN  /\ ref.table \in Seq(Nat) /\ ref.slot \in DOMAIN ref.table /\ ref.slot \in Nat
             /\ ref.table[ref.slot] = index
             /\ Begins(s.table, ref.table)
             /\ \A k \in DOMAIN ref.table : k \in DOMAIN s.table \/ ref.table[k] = index
<1>1. PICK tb \in Seq(Nat) : tb = s.table
  OBVIOUS
<1>2. PICK ref : ref = ProcRefIndex(s, index)
  OBVIOUS
<1>3. CASE Contains(tb, index)
  <2>1. PICK I : I = {i \in 1 .. Len(tb) : tb[i] = index}
    OBVIOUS
  <2>2. I # {} /\ I \in SUBSET Nat
    BY <1>3, <2>1 DEF Contains
  <2>3. PICK m \in I : \A j \in I : m <= j
    BY <2>2, Least
  <2>4. Min(I) \in I
    BY <2>3 DEF Min
  <2>5. PICK n : n = Min(I)
    OBVIOUS
  <2>6. SelectInSeq(tb, LAMBDA v : v = index) = n
    BY <2>1, <2>2, <2>5 DEF SelectInSeq
  <2>7. n \in 1 .. Len(tb) /\ tb[n] = index
    BY <2>1, <2>4, <2>5
  <2>8. ref = [table |-> tb, slot |-> n]
    BY <1>1, <1>2, <1>3, <2>6 DEF ProcRefIndex
  <2>9. ref.table = tb /\ ref.slot = n
    BY <2>8
  <2>10. QED
    BY <1>1, <1>2, <2>7, <2>9 DEF Begins
<1>4. CASE ~Contains(tb, index)
  <2>1. PICK q : q = Append(tb, index)
    OBVIOUS
  <2>2. /\ q \in Seq(Nat) /\ Len(tb) + 1 \in DOMAIN q /\ Len(tb) + 1 \in Nat
        /\ q[Len(tb) + 1] = index
        /\ Begins(tb, q)
        /\ \A k \in DOMAIN q : k \in DOMAIN tb \/ q[k] = index
    BY <2>1 DEF Begins
  <2>3. ref = [table |-> q, slot |-> Len(tb) + 1]
    BY <1>1, <1>2, <1>4, <2>1 DEF ProcRefIndex
  <2>4. ref.table = q /\ ref.slot = Len(tb) + 1
    BY <2>3
  <2>5. QED
    BY <1>1, <1>2, <2>2, <2>4
<1>5. QED
  BY <1>3, <1>4

(* @R keeps a file right: the slot is R's.                                  *)
LEMMA TakeAddressFollows ==
  ASSUME FileOK(c), Constructs = {}, NEW i \in DOMAIN c.funcs, TakeAddress(i)
  PROVE  Follows(c, c')
<1>1. /\ c \in FileSet /\ Numbered(c) /\ WithinLimits(c)
  BY DEF FileOK
<1>2. c.funcs \in Seq(FuncSet) /\ c.table \in Seq(Nat) /\ c.data \in Seq(Meanings)
  BY <1>1 DEF FileSet
<1>3. PICK g : g = c.funcs[i]
  OBVIOUS
<1>4. g.index \in Nat /\ g.unit \in Files /\ g.name \in Names /\ g.sig \in Headings
  <2>1. g \in FuncSet
    BY <1>2, <1>3
  <2>2. QED
    BY <2>1 DEF FuncSet
<1>a. PICK index \in Nat : index = g.index
  BY <1>4
<1>5. i \in InMod(c.funcs)
  BY DEF TakeAddress, InMod
<1>6. PICK ref : ref = ProcRefIndex(c, g.index)
  OBVIOUS
<1>b. ref = ProcRefIndex(c, index)
  BY <1>a, <1>6
<1>7. PICK tb \in Seq(Nat) : tb = ref.table
  BY <1>2, <1>b, SlotOfIndex
<1>8. PICK n \in Nat : n = ref.slot
  BY <1>2, <1>b, SlotOfIndex
<1>9. /\ n \in DOMAIN tb /\ tb[n] = g.index /\ Begins(c.table, tb)
      /\ \A k \in DOMAIN tb : k \in DOMAIN c.table \/ tb[k] = g.index
  <2>1. /\ n \in DOMAIN tb /\ tb[n] = index /\ Begins(c.table, tb)
        /\ \A k \in DOMAIN tb : k \in DOMAIN c.table \/ tb[k] = index
    BY <1>2, <1>b, <1>7, <1>8, SlotOfIndex
  <2>2. QED
    BY <1>a, <2>1
<1>10. PICK s : s = [c EXCEPT !.table = tb]
  OBVIOUS
<1>11. s = WithRoom(c, tb, c.data)
  BY <1>1, <1>10 DEF FileSet, WithRoom
<1>12. Follows(c, s) /\ s.open = c.open
  <2>1. \A k \in DOMAIN tb : k \in DOMAIN c.table
                             \/ \E f \in InMod(c.funcs) : c.funcs[f].index = tb[k]
    BY <1>3, <1>5, <1>9
  <2>2. Begins(c.data, c.data)
    BY DEF Begins
  <2>3. QED
    BY <1>2, <1>9, <1>11, <2>1, <2>2, RoomOK
<1>13. FileOK(s) /\ s.unit = c.unit /\ s.table = tb /\ s.funcs = c.funcs
  BY <1>1, <1>10, <1>12 DEF Follows, FileSet
<1>14. PICK site : site = [kind |-> "slot", value |-> n, means |-> <<g.unit, g.name>>,
                           sig |-> g.sig]
  OBVIOUS
<1>15. site \in SiteSet
  <2>1. <<g.unit, g.name>> \in Meanings
    BY <1>4 DEF Meanings, Words
  <2>2. QED
    BY <1>4, <1>14, <2>1 DEF SiteSet
<1>16. site.kind = "slot" /\ site.value = n /\ site.means = <<g.unit, g.name>>
  BY <1>14
<1>17. ~Unresolved(site)
  BY <1>16 DEF Unresolved
<1>18. SiteRight(s, s.externs, site)
  <2>1. Routine(s.funcs, tb[n], <<g.unit, g.name>>)
    BY <1>3, <1>5, <1>9, <1>13 DEF Routine
  <2>2. SlotLands(s, n, <<g.unit, g.name>>)
    BY <1>9, <1>13, <2>1 DEF SlotLands
  <2>3. QED
    BY <1>16, <1>17, <2>2 DEF SiteRight, Lands
<1>19. Told("table", n, site)
  BY <1>16, <1>17 DEF Told
<1>20. c' = Emit(s, "table", n, site) /\ (c.unit = Program \/ c.open # <<>>)
  BY <1>3, <1>6, <1>7, <1>8, <1>10, <1>14 DEF TakeAddress, Writing
<1>21. s.unit \notin Units \/ s.open # <<>>
  BY <1>12, <1>13, <1>20, LinkerConstants
<1>22. Follows(s, c')
  BY <1>13, <1>15, <1>18, <1>19, <1>20, <1>21, EmitFollows
<1>23. QED
  BY <1>12, <1>22 DEF Follows

(* Zeros brings the end of the data to a multiple.                          *)
LEMMA ZerosFacts ==
  ASSUME NEW s, Len(s.data) \in Nat, NEW align \in {1, 4}
  PROVE  /\ Zeros(s, align) \in Nat /\ DataPos(s) = 4 + Len(s.data)
         /\ align = 4 => (DataPos(s) + Zeros(s, align)) % 4 = 0
<1>1. DataPos(s) = 4 + Len(s.data)
  BY DEF DataPos
<1>2. Zeros(s, align) = (0 - (4 + Len(s.data))) % align
  BY <1>1 DEF Zeros
<1>3. PICK n \in Nat : n = Len(s.data)
  OBVIOUS
<1>4. CASE align = 4
  <2>1. (0 - (4 + n)) % 4 \in Nat /\ (4 + n + ((0 - (4 + n)) % 4)) % 4 = 0
    OBVIOUS
  <2>2. QED
    BY <1>1, <1>2, <1>3, <1>4, <2>1
<1>5. CASE align = 1
  <2>1. (0 - (4 + n)) % 1 \in Nat
    OBVIOUS
  <2>2. QED
    BY <1>1, <1>2, <1>3, <1>5, <2>1, 4 # 1
<1>6. QED
  BY <1>4, <1>5

(* So does a literal: its bytes are where its address says, as aligned as   *)
(* asked.                                                                   *)
LEMMA LiteralFollows ==
  ASSUME FileOK(c), NEW n \in DataSizes, NEW align \in Aligns, Literal(n, align)
  PROVE  Follows(c, c')
<1>1. /\ c \in FileSet /\ Numbered(c) /\ WithinLimits(c)
  BY DEF FileOK
<1>2. c.table \in Seq(Nat) /\ c.data \in Seq(Meanings) /\ c.unit \in Files
      /\ Len(c.data) \in Nat
  BY <1>1 DEF FileSet
<1>3. n \in Nat /\ n > 0 /\ align \in {1, 4}
  BY LinkerConstants
<1>4. PICK z \in Nat : z = Zeros(c, align)
  BY <1>2, <1>3, ZerosFacts
<1>5. PICK pos \in Nat : pos = 4 + Len(c.data)
  BY <1>2
<1>6. DataPos(c) = pos
  BY <1>5 DEF DataPos
<1>a. PICK b \in Nat : b = z + n
  BY <1>3
<1>b. PICK y \in Nat : y = z + 1
  OBVIOUS
<1>c. PICK m \in Nat : m = Len(c.data)
  BY <1>2
<1>7. PICK bytes : bytes = [k \in 1 .. b |-> <<c.unit, pos + k - 1>>]
  OBVIOUS
<1>8. /\ bytes \in Seq(Meanings) /\ Len(bytes) = z + n
      /\ y \in DOMAIN bytes /\ bytes[y] = <<c.unit, pos + z>>
  <2>1. ASSUME NEW k \in 1 .. b PROVE <<c.unit, pos + k - 1>> \in Meanings
    <3>1. pos + k - 1 \in Nat
      BY <1>3
    <3>2. QED
      BY <1>2, <3>1 DEF Meanings, Words
  <2>2. bytes \in [1 .. b -> Meanings]
    BY <1>7, <2>1
  <2>3. bytes \in Seq(Meanings) /\ Len(bytes) = b
    BY <2>2
  <2>4. y \in 1 .. b /\ pos + y - 1 = pos + z
    BY <1>3, <1>a, <1>b
  <2>5. QED
    BY <1>a, <1>7, <2>3, <2>4
<1>9. PICK d : d = c.data \o bytes
  OBVIOUS
<1>10. /\ d \in Seq(Meanings) /\ Begins(c.data, d)
       /\ m + y \in DOMAIN d /\ d[m + y] = <<c.unit, pos + z>>
  BY <1>2, <1>c, <1>8, <1>9, JoinFacts
<1>11. PICK s : s = [c EXCEPT !.data = d]
  OBVIOUS
<1>12. s = WithRoom(c, c.table, d)
  BY <1>1, <1>11 DEF FileSet, WithRoom
<1>13. Follows(c, s) /\ s.open = c.open
  <2>1. Begins(c.table, c.table)
    BY DEF Begins
  <2>2. QED
    BY SMTT(30), <1>2, <1>10, <1>12, <2>1, RoomOK
<1>14. FileOK(s) /\ s.unit = c.unit /\ s.data = d
  BY <1>1, <1>11, <1>13 DEF Follows, FileSet
<1>15. PICK addr \in Nat : addr = pos + z
  BY <1>2
<1>16. PICK site : site = [kind |-> "data", value |-> addr, means |-> <<c.unit, addr>>,
                           sig |-> "data"]
  OBVIOUS
<1>17. site \in SiteSet
  <2>1. <<c.unit, addr>> \in Meanings /\ "data" \in Headings
    BY <1>2, <1>15 DEF Meanings, Words, Headings
  <2>2. QED
    BY <1>15, <1>16, <2>1 DEF SiteSet
<1>18. site.kind = "data" /\ site.value = addr /\ site.means = <<c.unit, addr>>
  BY <1>16
<1>19. ~Unresolved(site)
  BY <1>18 DEF Unresolved
<1>20. SiteRight(s, s.externs, site)
  <2>0. pos = 4 + m
    BY <1>c, <1>5
  <2>1. addr - 3 = m + y
    BY <2>0, <1>b, <1>15
  <2>2. addr - 3 \in DOMAIN s.data /\ s.data[addr - 3] = <<c.unit, addr>>
    BY <1>10, <1>14, <1>15, <2>1
  <2>3. <<c.unit, addr>>[2] = addr
    OBVIOUS
  <2>4. DataLands(s, addr, <<c.unit, addr>>)
    BY <2>2, <2>3 DEF DataLands
  <2>5. QED
    BY <1>18, <1>19, <2>4 DEF SiteRight, Lands
<1>21. Told("data", addr, site)
  BY <1>18, <1>19 DEF Told
<1>22. c' = Emit(s, "data", addr, site) /\ (c.unit = Program \/ c.open # <<>>)
  BY <1>4, <1>a, <1>6, <1>7, <1>9, <1>11, <1>15, <1>16 DEF Literal, Writing
<1>23. s.unit \notin Units \/ s.open # <<>>
  BY <1>13, <1>14, <1>22, LinkerConstants
<1>24. Follows(s, c')
  BY <1>14, <1>15, <1>17, <1>20, <1>21, <1>22, <1>23, EmitFollows
<1>25. QED
  BY <1>13, <1>24 DEF Follows

-----------------------------------------------------------------------------
(* The object of a unit: what it writes are the bodies, in their order.     *)
LEMMA BodiedFacts ==
  ASSUME FileOK(c), AllDefined
  PROVE  /\ Bodied = InMod(c.funcs) /\ Bodied = Within(c) \ {0}
         /\ \A i \in Bodied : c.funcs[i].unit = c.unit /\ c.funcs[i].mark = "body"
<1>1. \A i \in InMod(c.funcs) : c.funcs[i].unit = c.unit
  BY DEF FileOK, FuncRight, InMod
<1>2. \A i \in InMod(c.funcs) : c.funcs[i].mark = "body"
  BY <1>1 DEF AllDefined, Own, InMod
<1>3. Bodied = InMod(c.funcs)
  BY <1>2 DEF Bodied, HasBody, InMod
<1>4. c.funcs \in Seq(FuncSet)
  BY DEF FileOK, FileSet
<1>5. Bodied = Within(c) \ {0}
  BY <1>4 DEF Bodied, HasBody, Within
<1>6. QED
  BY <1>1, <1>2, <1>3, <1>5

(* What the object of the file c is made of. *)
Written ==
  [imports |-> c.imports,
   exports |-> [k \in DOMAIN Exported |->
                  [name |-> c.funcs[Exported[k]].name,
                   sig |-> c.funcs[Exported[k]].sig,
                   body |-> BodyOrd(Exported[k])]],
   bodies |-> Pick(c.funcs, Bodied),
   data |-> c.data, table |-> c.table,
   externs |-> [k \in DOMAIN c.externs |->
                  [unit |-> c.externs[k].unit, name |-> c.externs[k].name]],
   relocs |-> [k \in DOMAIN c.relocs |-> [c.relocs[k] EXCEPT !.in = BodyOrd(@)]]]

(* What a unit exports has a body when the unit is finished.                *)
LEMMA ExportedFacts ==
  ASSUME FileOK(c), AllDefined
  PROVE  /\ Exported \in Seq(Bodied)
         /\ \A k \in DOMAIN Exported : Exported[k] \in Bodied
<1>1. PICK s : s = [i \in DOMAIN c.funcs |-> i]
  OBVIOUS
<1>2. c.funcs \in Seq(FuncSet)
  BY DEF FileOK, FileSet
<1>3. s \in Seq(Nat) /\ DOMAIN s = DOMAIN c.funcs /\ \A i \in DOMAIN s : s[i] = i
  BY <1>1, <1>2
<1>4. PICK J : J = {i \in Own(c) : c.funcs[i].iface}
  OBVIOUS
<1>5. J \in SUBSET DOMAIN s
  BY <1>3, <1>4 DEF Own
<1>6. J \subseteq Bodied
  <2>1. \A i \in DOMAIN c.funcs : c.funcs[i].iface => i \in InMod(c.funcs)
    BY DEF FileOK, FuncRight
  <2>2. QED
    BY <1>4, <2>1, BodiedFacts DEF Own
<1>7. PICK x : x = Pick(s, J)
  OBVIOUS
<1>8. x \in Seq(Nat) /\ \A k \in DOMAIN x : x[k] \in Bodied
  <2>1. x \in Seq(Nat)
    BY <1>3, <1>5, <1>7, PickFacts
  <2>2. ASSUME NEW k \in DOMAIN x PROVE x[k] \in J
    <3>1. PICK i \in J : k = Ordinal(J, i) + 1
      BY <1>3, <1>5, <1>7, PickFacts
    <3>2. x[k] = s[i]
      BY <1>3, <1>5, <1>7, <3>1, PickFacts
    <3>3. QED
      BY <1>3, <1>5, <3>1, <3>2
  <2>3. QED
    BY <1>6, <2>1, <2>2
<1>9. x \in Seq(Bodied)
  BY <1>8
<1>10. Exported = x
  BY <1>1, <1>4, <1>7 DEF Exported
<1>11. QED
  BY <1>8, <1>9, <1>10

(* bodyOrd: the bodies of an object are those of the file, in the order of  *)
(* their numbers.                                                           *)
LEMMA BodyFacts ==
  ASSUME FileOK(c), AllDefined, NEW B, B = Pick(c.funcs, Bodied)
  PROVE  /\ B \in Seq(FuncSet)
         /\ \A i \in Bodied : /\ BodyOrd(i) \in Nat /\ BodyOrd(i) + 1 \in DOMAIN B
                              /\ B[BodyOrd(i) + 1] = c.funcs[i]
         /\ \A j \in DOMAIN B : \E i \in Bodied :
              /\ j = BodyOrd(i) + 1 /\ B[j] = c.funcs[i]
              /\ c.funcs[i].index = FirstUser(c) + j - 1
<1>1. c.funcs \in Seq(FuncSet) /\ Numbered(c) /\ c \in FileSet /\ WithinLimits(c)
  BY DEF FileOK, FileSet
<1>2. Bodied \in SUBSET DOMAIN c.funcs
  BY DEF Bodied
<1>3. Bodied = InMod(c.funcs)
  BY BodiedFacts
<1>4. \A i \in Bodied : BodyOrd(i) = Ordinal(Bodied, i)
  BY DEF BodyOrd
<1>5. B \in Seq(FuncSet)
  BY <1>1, <1>2, PickFacts
<1>6. \A i \in Bodied : Ordinal(Bodied, i) \in Nat
  BY <1>1, <1>3, InModPlaces, OrdinalBelow
<1>7. \A i \in Bodied : /\ BodyOrd(i) \in Nat /\ BodyOrd(i) + 1 \in DOMAIN B
                        /\ B[BodyOrd(i) + 1] = c.funcs[i]
  BY <1>1, <1>2, <1>4, <1>6, PickFacts
<1>8. \A j \in DOMAIN B : \E i \in Bodied : j = BodyOrd(i) + 1
  BY <1>1, <1>2, <1>4, PickFacts
<1>9. FirstUser(c) \in Nat
  BY <1>1, IndicesBetween
<1>10. ASSUME NEW j \in DOMAIN B
       PROVE  \E i \in Bodied : /\ j = BodyOrd(i) + 1 /\ B[j] = c.funcs[i]
                                /\ c.funcs[i].index = FirstUser(c) + j - 1
  <2>1. PICK i \in Bodied : j = BodyOrd(i) + 1
    BY <1>8
  <2>2. B[j] = c.funcs[i] /\ BodyOrd(i) \in Nat
    BY <1>7, <2>1
  <2>3. c.funcs[i].index = FirstUser(c) + BodyOrd(i)
    BY <1>1, <1>3, <1>4 DEF Numbered
  <2>4. PICK n \in Nat : n = BodyOrd(i)
    BY <2>2
  <2>5. FirstUser(c) + n = FirstUser(c) + j - 1
    BY <1>9, <2>1, <2>4
  <2>6. QED
    BY <2>1, <2>2, <2>3, <2>4, <2>5
<1>11. QED
  BY <1>5, <1>7, <1>10

(* An object is an object.                                                  *)
LEMMA WrittenTyped ==
  ASSUME FileOK(c), AllDefined
  PROVE  Written \in ObjectSet
<1>1. c \in FileSet
  BY DEF FileOK
<1>2. /\ c.funcs \in Seq(FuncSet) /\ c.imports \in Seq(Imported) /\ c.data \in Seq(Meanings)
      /\ c.table \in Seq(Nat) /\ c.externs \in Seq(ExternSet) /\ c.relocs \in Seq(RelocSet)
  BY <1>1 DEF FileSet
<1>3. PICK x \in Seq(Bodied) : x = Exported
  BY ExportedFacts
<1>4. PICK xs : xs = [k \in DOMAIN x |-> [name |-> c.funcs[x[k]].name,
                                          sig |-> c.funcs[x[k]].sig, body |-> BodyOrd(x[k])]]
  OBVIOUS
<1>5. xs \in Seq(ExportSet)
  <2>1. ASSUME NEW k \in DOMAIN x
        PROVE  [name |-> c.funcs[x[k]].name, sig |-> c.funcs[x[k]].sig,
                body |-> BodyOrd(x[k])] \in ExportSet
    <3>1. PICK i \in Bodied : i = x[k]
      OBVIOUS
    <3>2. c.funcs[i] \in FuncSet
      BY <1>2 DEF Bodied
    <3>3. c.funcs[i].name \in Names /\ c.funcs[i].sig \in Headings
      BY <3>2 DEF FuncSet
    <3>4. BodyOrd(i) \in Nat
      BY BodyFacts
    <3>5. QED
      BY <3>1, <3>3, <3>4 DEF ExportSet
  <2>2. QED
    BY <1>4, <2>1
<1>6. PICK es : es = [k \in DOMAIN c.externs |->
                        [unit |-> c.externs[k].unit, name |-> c.externs[k].name]]
  OBVIOUS
<1>7. es \in Seq(SymbolSet)
  <2>1. ASSUME NEW k \in DOMAIN c.externs
        PROVE  [unit |-> c.externs[k].unit, name |-> c.externs[k].name] \in SymbolSet
    <3>1. c.externs[k] \in ExternSet
      BY <1>2
    <3>2. QED
      BY <3>1 DEF ExternSet, SymbolSet
  <2>2. PICK n \in Nat : DOMAIN c.externs = 1 .. n
    BY <1>2
  <2>3. es \in [1 .. n -> SymbolSet]
    BY <1>6, <2>1, <2>2
  <2>4. QED
    BY <2>3
<1>8. PICK rs : rs = [k \in DOMAIN c.relocs |-> [c.relocs[k] EXCEPT !.in = BodyOrd(@)]]
  OBVIOUS
<1>9. rs \in Seq(RelocSet)
  <2>1. ASSUME NEW k \in DOMAIN c.relocs
        PROVE  [c.relocs[k] EXCEPT !.in = BodyOrd(@)] \in RelocSet
    <3>1. PICK r \in RelocSet : r = c.relocs[k]
      BY <1>2
    <3>2. BodyOrd(r.in) \in Int
      BY BodyFacts DEF BodyOrd
    <3>3. PICK n \in Int : n = BodyOrd(r.in)
      BY <3>2
    <3>4. [r EXCEPT !.in = n] \in RelocSet
      BY DEF RelocSet
    <3>5. QED
      BY <3>1, <3>3, <3>4
  <2>2. PICK n \in Nat : DOMAIN c.relocs = 1 .. n
    BY <1>2
  <2>3. rs \in [1 .. n -> RelocSet]
    BY <1>8, <2>1, <2>2
  <2>4. QED
    BY <2>3
<1>10. PICK B \in Seq(FuncSet) : B = Pick(c.funcs, Bodied)
  BY BodyFacts
<1>11. Written = [imports |-> c.imports, exports |-> xs, bodies |-> B, data |-> c.data,
                  table |-> c.table, externs |-> es, relocs |-> rs]
  BY <1>3, <1>4, <1>6, <1>8, <1>10 DEF Written
<1>12. QED
  BY <1>2, <1>5, <1>7, <1>9, <1>11 DEF ObjectSet

(* A number that lands in the file lands in what is written of it.          *)
LEMMA WrittenGrows ==
  ASSUME FileOK(c), AllDefined
  PROVE  /\ Grows(c, AsFile(Written)) /\ TableFilled(AsFile(Written))
         /\ \A es, site : /\ es = c.externs
                          /\ site.kind \in {"func", "data", "slot"} /\ SiteRight(c, es, site)
              => SiteRight(AsFile(Written), Written.externs, site)
<1>1. PICK B \in Seq(FuncSet) : B = Pick(c.funcs, Bodied)
  BY BodyFacts
<1>2. PICK t : t = AsFile(Written)
  OBVIOUS
<1>3. t.imports = c.imports /\ t.funcs = B /\ t.data = c.data /\ t.table = c.table
  BY <1>1, <1>2 DEF AsFile, Written
<1>4. \A j \in DOMAIN B : B[j].mark = "body"
  <2>1. \A j \in DOMAIN B : \E i \in Bodied : B[j] = c.funcs[i]
    BY <1>1, BodyFacts
  <2>2. QED
    BY <2>1, BodiedFacts
<1>5. InMod(t.funcs) = DOMAIN B
  BY <1>3, <1>4 DEF InMod
<1>6. ASSUME NEW g \in InMod(c.funcs)
      PROVE  \E h \in InMod(t.funcs) : t.funcs[h] = c.funcs[g]
  <2>1. g \in Bodied
    BY BodiedFacts
  <2>2. BodyOrd(g) + 1 \in DOMAIN B /\ B[BodyOrd(g) + 1] = c.funcs[g]
    BY <1>1, <2>1, BodyFacts
  <2>3. QED
    BY <1>3, <1>5, <2>2
<1>7. Grows(c, t)
  BY <1>3, <1>6 DEF Grows
<1>8. TableFilled(t)
  <2>1. TableFilled(c)
    BY DEF FileOK
  <2>2. QED
    BY <1>3, <1>6, <2>1 DEF TableFilled
<1>9. PICK es : es = Written.externs
  OBVIOUS
<1>10. es = [k \in DOMAIN c.externs |->
               [unit |-> c.externs[k].unit, name |-> c.externs[k].name]]
  BY <1>9 DEF Written
<1>11. \A v, m : ExternMeans(c.externs, v, m) => ExternMeans(es, v, m)
  BY <1>10 DEF ExternMeans
<1>12. ASSUME NEW site, site.kind \in {"func", "data", "slot"}, SiteRight(c, c.externs, site)
       PROVE  SiteRight(t, es, site)
  <2>1. CASE Unresolved(site)
    BY <1>11, <1>12, <2>1 DEF SiteRight
  <2>2. CASE ~Unresolved(site)
    <3>1. Lands(c, site.kind, site.value, site.means)
      BY <1>12, <2>2 DEF SiteRight
    <3>2. Lands(t, site.kind, site.value, site.means)
      BY <1>7, <1>12, <3>1, LandsGrows
    <3>3. QED
      BY <2>2, <3>2 DEF SiteRight
  <2>3. QED
    BY <2>1, <2>2
<1>13. QED
  BY <1>2, <1>7, <1>8, <1>9, <1>12

(* The object of a file that is right is right.                             *)
LEMMA WrittenOK ==
  ASSUME FileOK(c), AllDefined, c.unit \in Units
  PROVE  ObjectOK(c.unit, Written)
<1>1. PICK o : o = Written
  OBVIOUS
<1>2. o \in ObjectSet
  BY <1>1, WrittenTyped
<1>3. PICK B \in Seq(FuncSet) : B = Pick(c.funcs, Bodied)
  BY BodyFacts
<1>4. /\ o.imports = c.imports /\ o.bodies = B
      /\ o.exports = [k \in DOMAIN Exported |->
                        [name |-> c.funcs[Exported[k]].name, sig |-> c.funcs[Exported[k]].sig,
                         body |-> BodyOrd(Exported[k])]]
      /\ o.externs = [k \in DOMAIN c.externs |->
                        [unit |-> c.externs[k].unit, name |-> c.externs[k].name]]
      /\ o.relocs = [k \in DOMAIN c.relocs |-> [c.relocs[k] EXCEPT !.in = BodyOrd(@)]]
  BY <1>1, <1>3 DEF Written
<1>5. /\ c \in FileSet /\ SitesRight(c) /\ Recorded(c) /\ c.relocatable /\ c.start = <<>>
      /\ \A k \in DOMAIN c.externs : ExternRight(c, c.externs[k])
  BY DEF FileOK
<1>6. FirstUser(o) = FirstUser(c)
  BY <1>4 DEF FirstUser
<1>7. ASSUME NEW k \in DOMAIN c.relocs
      PROVE  LET r == o.relocs[k]
             IN /\ c.relocs[k].in \in Bodied
                /\ r.in = BodyOrd(c.relocs[k].in) /\ r.at = c.relocs[k].at
                /\ r.in + 1 \in DOMAIN B /\ r.at \in DOMAIN B[r.in + 1].code
                /\ RelocFor(r, B[r.in + 1].code[r.at])
  <2>1. PICK q \in RelocSet : q = c.relocs[k]
    BY <1>5 DEF FileSet
  <2>2. q.in \in Within(c) /\ q.at \in DOMAIN CodeOf(c, q.in)
        /\ RelocFor(q, CodeOf(c, q.in)[q.at])
    BY <1>5, <2>1 DEF Recorded
  <2>3. q.in # 0
    BY <1>5, <2>2 DEF CodeOf
  <2>4. q.in \in Bodied
    BY <2>2, <2>3, BodiedFacts
  <2>5. BodyOrd(q.in) + 1 \in DOMAIN B /\ B[BodyOrd(q.in) + 1] = c.funcs[q.in]
    BY <1>3, <2>4, BodyFacts
  <2>6. PICK r : r = o.relocs[k]
    OBVIOUS
  <2>7. r = [q EXCEPT !.in = BodyOrd(q.in)]
    BY <1>4, <2>1, <2>6
  <2>8. r.in = BodyOrd(q.in) /\ r.at = q.at /\ r.kind = q.kind /\ r.symbol = q.symbol
    BY <2>1, <2>7 DEF RelocSet
  <2>9. CodeOf(c, q.in) = c.funcs[q.in].code
    BY <2>3 DEF CodeOf
  <2>10. r.at \in DOMAIN B[r.in + 1].code
    BY <2>2, <2>5, <2>8, <2>9
  <2>11. RelocFor(q, B[r.in + 1].code[r.at])
    BY <2>2, <2>5, <2>8, <2>9
  <2>12. RelocFor(r, B[r.in + 1].code[r.at])
    BY <2>8, <2>11 DEF RelocFor
  <2>13. QED
    BY <2>1, <2>4, <2>5, <2>6, <2>8, <2>10, <2>12
<1>8. DOMAIN o.relocs = DOMAIN c.relocs
  BY <1>4
<1>9. ASSUME NEW j \in DOMAIN B
      PROVE  /\ B[j].unit = c.unit /\ B[j].mark = "body"
             /\ B[j].index = FirstUser(o) + j - 1
             /\ \A p \in DOMAIN B[j].code :
                  /\ SiteRight(AsFile(o), o.externs, B[j].code[p])
                  /\ \E k \in DOMAIN o.relocs : o.relocs[k].in = j - 1 /\ o.relocs[k].at = p
  <2>1. PICK i \in Bodied : /\ j = BodyOrd(i) + 1 /\ B[j] = c.funcs[i]
                            /\ c.funcs[i].index = FirstUser(c) + j - 1
    BY <1>3, BodyFacts
  <2>2. BodyOrd(i) \in Nat /\ j - 1 = BodyOrd(i)
    BY <2>1, BodyFacts
  <2>3. B[j].unit = c.unit /\ B[j].mark = "body"
    BY <2>1, BodiedFacts
  <2>4. i \in Within(c) /\ i # 0
    BY BodiedFacts
  <2>5. CodeOf(c, i) = B[j].code
    BY <2>1, <2>4 DEF CodeOf
  <2>6. ASSUME NEW p \in DOMAIN B[j].code
        PROVE  /\ SiteRight(AsFile(o), o.externs, B[j].code[p])
               /\ \E k \in DOMAIN o.relocs : o.relocs[k].in = j - 1 /\ o.relocs[k].at = p
    <3>1. PICK site : site = B[j].code[p]
      OBVIOUS
    <3>2. SiteRight(c, c.externs, site)
      BY <1>5, <2>4, <2>5, <3>1 DEF SitesRight
    <3>3. site.kind \in {"func", "data", "slot"}
      BY <1>5, <2>4, <2>5, <3>1, CodeTyped
    <3>4. SiteRight(AsFile(o), o.externs, site)
      BY <1>1, <3>2, <3>3, WrittenGrows
    <3>5. PICK k \in DOMAIN c.relocs : c.relocs[k].in = i /\ c.relocs[k].at = p
      BY <1>5, <2>4, <2>5 DEF Recorded
    <3>6. o.relocs[k].in = j - 1 /\ o.relocs[k].at = p
      BY <1>7, <2>2, <3>5
    <3>7. QED
      BY <1>8, <3>1, <3>4, <3>6
  <2>7. QED
    BY <1>6, <2>1, <2>3, <2>6
<1>10. TableFilled(AsFile(o))
  BY <1>1, WrittenGrows
<1>11. ASSUME NEW k \in DOMAIN o.exports
       PROVE  /\ o.exports[k].body + 1 \in DOMAIN B
              /\ B[o.exports[k].body + 1].name = o.exports[k].name
  <2>1. PICK i \in Bodied : i = Exported[k]
    BY <1>4, ExportedFacts
  <2>2. o.exports[k] = [name |-> c.funcs[i].name, sig |-> c.funcs[i].sig, body |-> BodyOrd(i)]
    BY <1>4, <2>1
  <2>3. o.exports[k].name = c.funcs[i].name /\ o.exports[k].body = BodyOrd(i)
    BY <2>2
  <2>4. BodyOrd(i) + 1 \in DOMAIN B /\ B[BodyOrd(i) + 1] = c.funcs[i]
    BY SMTT(30), <1>3, BodyFacts
  <2>5. QED
    BY <2>3, <2>4
<1>12. \A k \in DOMAIN o.externs : o.externs[k].unit # c.unit
  BY <1>4, <1>5 DEF ExternRight
<1>13. \A k \in DOMAIN o.relocs :
         LET r == o.relocs[k]
         IN /\ r.in + 1 \in DOMAIN B /\ r.at \in DOMAIN B[r.in + 1].code
            /\ RelocFor(r, B[r.in + 1].code[r.at])
  BY SMTT(30), <1>7, <1>8
<1>14. ObjectOK(c.unit, o)
  BY ZenonT(60), <1>2, <1>4, <1>9, <1>10, <1>11, <1>12, <1>13 DEF ObjectOK
<1>15. QED
  BY <1>1, <1>14

(* Writing it leaves all objects right.                                     *)
LEMMA WriteObjectRight ==
  ASSUME FileOK(c), Constructs = {}, ObjectsRight, WriteObject
  PROVE  ObjectsRight'
<1>1. AllDefined /\ c.unit \in Units
  BY DEF WriteObject, Finished
<1>2. objects' = [objects EXCEPT ![c.unit] = Written]
  BY DEF WriteObject, Written
<1>3. ObjectOK(c.unit, Written)
  BY <1>1, WrittenOK
<1>4. DOMAIN objects' = Units /\ objects'[c.unit] = Written
      /\ \A u \in Units : u # c.unit => objects'[u] = objects[u]
  BY <1>1, <1>2 DEF ObjectsRight
<1>5. \A u \in Units : objects'[u] = NoObject \/ ObjectOK(u, objects'[u])
  BY <1>3, <1>4 DEF ObjectsRight
<1>6. QED
  BY <1>4, <1>5 DEF ObjectsRight

-----------------------------------------------------------------------------
(* What a program reaches: Reached, as it depends on the files.             *)
UsesIn(as, os, us) == us \cup {u \in Range(as) :
                                 \E v \in us : \E e \in Range(os[v].externs) : e.unit = u}

Reach(as, os, us) ==
  LET reach[n \in 0 .. Cardinality(Units)] ==
        IF n = 0 THEN us ELSE UsesIn(as, os, reach[n - 1])
  IN reach

(* Reached, with what it is computed from as parameters,                    *)
LEMMA ReachedIsReach ==
  Reached = Reach(l.args, objects, Range(c.uses))
BY DEF Reached, Reach, UsesOf, UsesIn

(* does not change while these do not.                                      *)
LEMMA ReachedSame ==
  ASSUME l'.args = l.args, objects' = objects, c'.uses = c.uses
  PROVE  Reached' = Reached
<1>1. Reached' = Reach(l'.args, objects', Range(c'.uses))
  BY DEF Reached, Reach, UsesOf, UsesIn
<1>2. QED
  BY <1>1, ReachedIsReach

Walk(p, as, os, us) ==
  /\ p[0] = us
  /\ \A n \in 1 .. Cardinality(Units) : p[n] = UsesIn(as, os, p[n - 1])
  /\ \A n \in 0 .. Cardinality(Units) : p[n] \in SUBSET Units

(* Range, element by element.                                               *)
LEMMA RangeFacts ==
  ASSUME NEW S, NEW s \in Seq(S)
  PROVE  /\ Range(s) \subseteq S /\ \A k \in DOMAIN s : s[k] \in Range(s)
         /\ \A x \in Range(s) : \E k \in DOMAIN s : x = s[k]
<1>1. \A k \in DOMAIN s : s[k] \in S
  OBVIOUS
<1>2. QED
  BY <1>1 DEF Range

(* Units use units.                                                         *)
LEMMA UsesInUnits ==
  ASSUME NEW as \in Seq(Units), NEW os, NEW us \in SUBSET Units
  PROVE  UsesIn(as, os, us) \in SUBSET Units
<1>1. Range(as) \subseteq Units
  BY RangeFacts
<1>2. QED
  BY <1>1 DEF UsesIn

(* What Reach is computed by.                                               *)
LEMMA ReachSteps ==
  ASSUME NEW as \in Seq(Units), NEW os, NEW us \in SUBSET Units
  PROVE  /\ Cardinality(Units) \in Nat /\ IsFiniteSet(Units)
         /\ Walk(Reach(as, os, us), as, os, us)
<1>1. IsFiniteSet(Units) /\ Cardinality(Units) \in Nat
  BY LinkerConstants, FS_CardinalityType
<1>2. PICK N \in Nat : N = Cardinality(Units)
  BY <1>1
<1>3. PICK Q : Q = SUBSET Units
  OBVIOUS
<1>4. \A x \in Q : UsesIn(as, os, x) \in Q
  BY <1>3, UsesInUnits
<1> DEFINE F == [n \in 1 .. N |-> [x \in Q |-> UsesIn(as, os, x)]]
           Is(f) == f = [n \in 0 .. N |-> IF n = 0 THEN us ELSE UsesIn(as, os, f[n - 1])]
           p == CHOOSE f : Is(f)
<1>5. PICK g \in [0 .. N -> Q] : g[0] = us /\ \A n \in 1 .. N : g[n] = F[n][g[n - 1]]
  <2>1. F \in Steps(N, Q)
    BY <1>4 DEF Steps
  <2> HIDE DEF F
  <2>2. us \in Q
    BY <1>3
  <2>3. \E g \in [0 .. N -> Q] : Iterates(g, us, F, N)
    BY <2>1, <2>2, Iterated
  <2>4. QED
    BY <2>3 DEF Iterates
<1>6. Is(g)
  <2>1. ASSUME NEW n \in 0 .. N, n # 0 PROVE g[n] = UsesIn(as, os, g[n - 1])
    <3>1. n \in 1 .. N /\ n - 1 \in 0 .. N /\ g[n - 1] \in Q
      BY <2>1
    <3>2. QED
      BY <1>5, <3>1
  <2>2. g = [n \in 0 .. N |-> g[n]]
    OBVIOUS
  <2>3. QED
    BY <1>5, <2>1, <2>2
<1>7. Is(p)
  <2> HIDE DEF Is
  <2>1. QED
    BY <1>6
<1>8. Reach(as, os, us) = p
  BY <1>2 DEF Reach
<1> HIDE DEF p, F
<1>9. p[0] = us /\ \A n \in 1 .. N : p[n] = UsesIn(as, os, p[n - 1])
  <2>1. 0 \in 0 .. N /\ \A n \in 1 .. N : n \in 0 .. N /\ n # 0
    OBVIOUS
  <2>2. QED
    BY <1>7, <2>1
<1> HIDE DEF Is
<1> DEFINE T == {n \in 0 .. N : p[n] \in Q}
<1>10. N \in Nat /\ 0 \in T
  BY <1>3, <1>9
<1>11. ASSUME NEW n \in 0 .. N - 1, n \in T PROVE n + 1 \in T
  <2>1. n + 1 \in 1 .. N /\ (n + 1) - 1 = n
    OBVIOUS
  <2>2. p[n + 1] = UsesIn(as, os, p[n])
    BY <1>9, <2>1
  <2>3. QED
    BY <1>4, <1>11, <2>1, <2>2
<1>12. 0 .. N \subseteq T
  <2> HIDE DEF T
  <2>1. QED
    BY <1>10, <1>11, CountUp
<1>13. \A n \in 0 .. N : p[n] \in SUBSET Units
  BY <1>3, <1>12
<1>14. Walk(p, as, os, us)
  BY <1>2, <1>9, <1>13 DEF Walk
<1>15. QED
  BY <1>1, <1>8, <1>14

Closed(as, os, us) == UsesIn(as, os, us) \subseteq us

(* Each step reaches another unit or none, so as many steps as there are    *)
(* units reach all that can be reached.                                     *)
LEMMA ReachCloses ==
  ASSUME NEW as \in Seq(Units), NEW os, NEW us \in SUBSET Units
  PROVE  LET N == Cardinality(Units)
         IN  /\ us \subseteq Reach(as, os, us)[N] /\ Reach(as, os, us)[N] \in SUBSET Units
             /\ Closed(as, os, Reach(as, os, us)[N])
<1>1. PICK N \in Nat : N = Cardinality(Units)
  BY ReachSteps
<1>2. PICK p : p = Reach(as, os, us)
  OBVIOUS
<1>a. Walk(p, as, os, us)
  BY <1>2, ReachSteps
<1>3. p[0] = us /\ \A n \in 0 .. N : p[n] \in SUBSET Units
  BY <1>a, <1>1 DEF Walk
<1>4. \A n \in 1 .. N : p[n] = UsesIn(as, os, p[n - 1])
  BY <1>a, <1>1 DEF Walk
<1>5. IsFiniteSet(Units)
  BY LinkerConstants
<1>6. \A x : x \subseteq UsesIn(as, os, x)
  BY DEF UsesIn
<1> DEFINE T == {n \in 0 .. N : us \subseteq p[n] /\ (Closed(as, os, p[n]) \/ Cardinality(p[n]) >= n)}
<1>7. 0 \in T
  <2>1. Cardinality(us) \in Nat
    BY <1>5, FS_Subset, FS_CardinalityType
  <2>2. us \subseteq p[0] /\ Cardinality(p[0]) >= 0 /\ 0 \in 0 .. N
    BY <1>3, <2>1
  <2>3. QED
    BY <2>2
<1>8. ASSUME NEW n \in 0 .. N - 1, n \in T PROVE n + 1 \in T
  <2>1. n + 1 \in 1 .. N /\ (n + 1) - 1 = n /\ n + 1 \in 0 .. N
    OBVIOUS
  <2>2. p[n + 1] = UsesIn(as, os, p[n])
    BY <1>4, <2>1
  <2>0. us \subseteq p[n]
    BY <1>8
  <2>3. p[n] \subseteq p[n + 1] /\ us \subseteq p[n + 1]
    <3>1. p[n] \subseteq UsesIn(as, os, p[n])
      BY <1>6
    <3>a. p[n] \subseteq p[n + 1]
      BY <3>1, <2>2
    <3>2. QED
      BY <2>0, <3>a
  <2>4. CASE Closed(as, os, p[n])
    <3>1. p[n + 1] = p[n]
      BY <2>2, <2>3, <2>4 DEF Closed
    <3>2. QED
      BY <2>1, <2>3, <2>4, <3>1
  <2>5. CASE ~Closed(as, os, p[n])
    <3>1. p[n] # p[n + 1]
      BY <2>2, <2>5 DEF Closed
    <3>2. p[n + 1] \in SUBSET Units /\ IsFiniteSet(p[n + 1])
      BY <1>3, <1>5, <2>1, FS_Subset
    <3>3. /\ Cardinality(p[n]) \in Nat /\ Cardinality(p[n + 1]) \in Nat
          /\ Cardinality(p[n]) <= Cardinality(p[n + 1])
          /\ Cardinality(p[n]) # Cardinality(p[n + 1])
      BY <2>3, <3>1, <3>2, FS_Subset, FS_CardinalityType
    <3>4. Cardinality(p[n]) >= n
      BY <1>8, <2>5
    <3>5. Cardinality(p[n + 1]) >= n + 1
      BY <3>3, <3>4
    <3>6. QED
      BY <2>1, <2>3, <3>5
  <2>6. QED
    BY <2>4, <2>5
<1>9. N \in T
  <2> HIDE DEF T
  <2>1. 0 .. N \subseteq T
    BY <1>7, <1>8, CountUp
  <2>2. QED
    BY <2>1
<1>10. us \subseteq p[N] /\ p[N] \in SUBSET Units
  BY <1>3, <1>9
<1>11. Closed(as, os, p[N])
  <2>1. CASE Cardinality(p[N]) >= N
    <3>1. Cardinality(p[N]) \in Nat /\ Cardinality(p[N]) <= N
      BY <1>1, <1>5, <1>10, FS_Subset, FS_CardinalityType
    <3>2. Cardinality(p[N]) = Cardinality(Units)
      BY <1>1, <2>1, <3>1
    <3>3. p[N] = Units
      BY <1>5, <1>10, <3>2, FS_Subset
    <3>4. QED
      BY <1>10, <3>3, UsesInUnits DEF Closed
  <2>2. QED
    BY <1>9, <2>1
<1>12. QED
  BY <1>1, <1>2, <1>10, <1>11

(* Nothing is reached that need not be.                                     *)
LEMMA ReachLeast ==
  ASSUME NEW as \in Seq(Units), NEW os, NEW us \in SUBSET Units, NEW W,
         us \subseteq W, Closed(as, os, W)
  PROVE  Reach(as, os, us)[Cardinality(Units)] \subseteq W
<1>1. PICK N \in Nat : N = Cardinality(Units)
  BY ReachSteps
<1>2. PICK p : p = Reach(as, os, us)
  OBVIOUS
<1>a. Walk(p, as, os, us)
  BY <1>2, ReachSteps
<1>3. p[0] = us /\ \A n \in 1 .. N : p[n] = UsesIn(as, os, p[n - 1])
  BY <1>a, <1>1 DEF Walk
<1> DEFINE T == {n \in 0 .. N : p[n] \subseteq W}
<1>4. 0 \in T
  BY <1>3
<1>5. ASSUME NEW n \in 0 .. N - 1, n \in T PROVE n + 1 \in T
  <2>1. n + 1 \in 1 .. N /\ (n + 1) - 1 = n /\ n + 1 \in 0 .. N
    OBVIOUS
  <2>2. p[n + 1] = UsesIn(as, os, p[n])
    BY <1>3, <2>1
  <2>3. p[n] \subseteq W
    BY <1>5
  <2>4. UsesIn(as, os, p[n]) \subseteq UsesIn(as, os, W)
    BY <2>3 DEF UsesIn
  <2>5. QED
    BY <2>1, <2>2, <2>4 DEF Closed
<1>6. N \in T
  <2> HIDE DEF T
  <2>1. 0 .. N \subseteq T
    BY <1>4, <1>5, CountUp
  <2>2. QED
    BY <2>1
<1>7. QED
  BY <1>1, <1>2, <1>6

-----------------------------------------------------------------------------
(* Patching: the numbers in the code change, and nothing else does.         *)
Alike(s, t) ==
  /\ t \in FileSet
  /\ t.unit = s.unit /\ t.uses = s.uses /\ t.imports = s.imports /\ t.externs = s.externs
  /\ t.slots = s.slots /\ t.data = s.data /\ t.table = s.table /\ t.relocs = s.relocs
  /\ DOMAIN t.funcs = DOMAIN s.funcs /\ Len(t.funcs) = Len(s.funcs)
  /\ \A j \in DOMAIN s.funcs :
       /\ t.funcs[j].index = s.funcs[j].index /\ t.funcs[j].unit = s.funcs[j].unit
       /\ t.funcs[j].name = s.funcs[j].name /\ t.funcs[j].mark = s.funcs[j].mark
  /\ Within(t) = Within(s)
  /\ \A i \in Within(s) :
       /\ DOMAIN CodeOf(t, i) = DOMAIN CodeOf(s, i)
       /\ \A p \in DOMAIN CodeOf(s, i) :
            /\ CodeOf(t, i)[p].kind = CodeOf(s, i)[p].kind
            /\ CodeOf(t, i)[p].means = CodeOf(s, i)[p].means

(* Nothing patched is alike,                                                *)
LEMMA AlikeSelf ==
  ASSUME NEW s \in FileSet
  PROVE  Alike(s, s)
BY DEF Alike

(* and so is what is patched twice.                                         *)
LEMMA AlikeAgain ==
  ASSUME NEW s, NEW t, NEW u, Alike(s, t), Alike(t, u)
  PROVE  Alike(s, u)
<1>1. /\ u \in FileSet
      /\ u.unit = s.unit /\ u.uses = s.uses /\ u.imports = s.imports /\ u.externs = s.externs
      /\ u.slots = s.slots /\ u.data = s.data /\ u.table = s.table /\ u.relocs = s.relocs
      /\ DOMAIN u.funcs = DOMAIN s.funcs /\ Len(u.funcs) = Len(s.funcs)
      /\ Within(u) = Within(s)
  BY DEF Alike
<1>2. \A j \in DOMAIN s.funcs :
        /\ u.funcs[j].index = s.funcs[j].index /\ u.funcs[j].unit = s.funcs[j].unit
        /\ u.funcs[j].name = s.funcs[j].name /\ u.funcs[j].mark = s.funcs[j].mark
  BY DEF Alike
<1>3. ASSUME NEW i \in Within(s)
      PROVE  /\ DOMAIN CodeOf(u, i) = DOMAIN CodeOf(s, i)
             /\ \A p \in DOMAIN CodeOf(s, i) :
                  /\ CodeOf(u, i)[p].kind = CodeOf(s, i)[p].kind
                  /\ CodeOf(u, i)[p].means = CodeOf(s, i)[p].means
  BY DEF Alike
<1>4. QED
  BY <1>1, <1>2, <1>3 DEF Alike

(* The site at a place with another number.                                 *)
LEMMA SiteWithValue ==
  ASSUME NEW code \in Seq(SiteSet), NEW at \in DOMAIN code, NEW v \in Nat
  PROVE  LET q == [code EXCEPT ![at] = [code[at] EXCEPT !.value = v]]
         IN  /\ q \in Seq(SiteSet) /\ DOMAIN q = DOMAIN code /\ q[at].value = v
             /\ q[at].kind = code[at].kind /\ q[at].means = code[at].means
             /\ \A p \in DOMAIN code : p # at => q[p] = code[p]
<1>1. PICK x \in SiteSet : x = code[at]
  OBVIOUS
<1>2. PICK y : y = [x EXCEPT !.value = v]
  OBVIOUS
<1>3. y \in SiteSet /\ y.value = v /\ y.kind = x.kind /\ y.means = x.means
  BY <1>2 DEF SiteSet
<1>4. PICK q : q = [code EXCEPT ![at] = y]
  OBVIOUS
<1>5. /\ q \in Seq(SiteSet) /\ DOMAIN q = DOMAIN code /\ q[at] = y
      /\ \A p \in DOMAIN code : p # at => q[p] = code[p]
  BY <1>3, <1>4, ExceptSeq
<1>6. QED
  BY <1>1, <1>2, <1>3, <1>4, <1>5

(* What one patch does.                                                     *)
WrittenAt(s, t, i, at, v) ==
  /\ CodeOf(t, i)[at].value = v
  /\ \A j \in Within(s) : \A p \in DOMAIN CodeOf(s, j) :
       j # i \/ p # at => CodeOf(t, j)[p] = CodeOf(s, j)[p]

(* PatchPadded changes one value and nothing else.                          *)
LEMMA PatchOne ==
  ASSUME NEW s \in FileSet, NEW i \in Within(s), NEW at \in DOMAIN CodeOf(s, i), NEW v \in Nat
  PROVE  /\ Alike(s, PatchPadded(s, i, at, v))
         /\ WrittenAt(s, PatchPadded(s, i, at, v), i, at, v)
<1>1. PICK t : t = PatchPadded(s, i, at, v)
  OBVIOUS
<1>2. PICK code \in Seq(SiteSet) : code = CodeOf(s, i)
  BY CodeTyped
<1>3. at \in DOMAIN code
  BY <1>2
<1>4. PICK q : q = [code EXCEPT ![at] = [code[at] EXCEPT !.value = v]]
  OBVIOUS
<1>5. /\ q \in Seq(SiteSet) /\ DOMAIN q = DOMAIN code /\ q[at].value = v
      /\ q[at].kind = code[at].kind /\ q[at].means = code[at].means
      /\ \A p \in DOMAIN code : p # at => q[p] = code[p]
  BY <1>3, <1>4, SiteWithValue
<1>6. \A p \in DOMAIN code : q[p].kind = code[p].kind /\ q[p].means = code[p].means
  BY <1>5
<1>7. s.funcs \in Seq(FuncSet)
  BY DEF FileSet
<1>8. CASE i = 0
  <2>1. code = s.start
    BY <1>2, <1>8 DEF CodeOf
  <2>2. t = [s EXCEPT !.start = q]
    BY <1>1, <1>4, <1>8, <2>1 DEF PatchPadded, FileSet
  <2>3. t \in FileSet
    BY <1>5, <2>2 DEF FileSet
  <2>4. /\ t.unit = s.unit /\ t.uses = s.uses /\ t.imports = s.imports /\ t.externs = s.externs
        /\ t.slots = s.slots /\ t.data = s.data /\ t.table = s.table /\ t.relocs = s.relocs
        /\ t.start = q /\ t.funcs = s.funcs
    BY <2>2 DEF FileSet
  <2>5. CodeOf(t, i) = q /\ \A j \in Within(s) : j # i => CodeOf(t, j) = CodeOf(s, j)
    BY <1>8, <2>4 DEF CodeOf
  <2>6. Within(t) = Within(s)
    BY <2>4 DEF Within
  <2>7. Alike(s, t)
    BY <1>2, <1>5, <1>6, <2>3, <2>4, <2>5, <2>6 DEF Alike
  <2>8. WrittenAt(s, t, i, at, v)
    BY <1>2, <1>5, <2>5 DEF WrittenAt
  <2>9. QED
    BY <1>1, <2>7, <2>8
<1>9. CASE i # 0
  <2>1. i \in DOMAIN s.funcs /\ s.funcs[i] \in FuncSet
    BY <1>7, <1>9 DEF Within
  <2>2. code = s.funcs[i].code
    BY <1>2, <1>9 DEF CodeOf
  <2>3. PICK g : g = [s.funcs[i] EXCEPT !.code = q]
    OBVIOUS
  <2>4. g \in FuncSet
    BY <1>5, <2>1, <2>3 DEF FuncSet
  <2>5. /\ g.code = q /\ g.unit = s.funcs[i].unit /\ g.name = s.funcs[i].name
        /\ g.index = s.funcs[i].index /\ g.mark = s.funcs[i].mark
    BY <2>1, <2>3 DEF FuncSet
  <2>6. PICK fs : fs = [s.funcs EXCEPT ![i] = g]
    OBVIOUS
  <2>7. /\ fs \in Seq(FuncSet) /\ DOMAIN fs = DOMAIN s.funcs /\ Len(fs) = Len(s.funcs)
        /\ fs[i] = g /\ \A j \in DOMAIN s.funcs : j # i => fs[j] = s.funcs[j]
    BY <1>7, <2>1, <2>4, <2>6, ExceptSeq
  <2>8. t = [s EXCEPT !.funcs = fs]
    BY <1>1, <1>4, <1>9, <2>2, <2>3, <2>6 DEF PatchPadded, FileSet
  <2>9. t \in FileSet
    BY <2>7, <2>8 DEF FileSet
  <2>10. /\ t.unit = s.unit /\ t.uses = s.uses /\ t.imports = s.imports
         /\ t.externs = s.externs /\ t.slots = s.slots /\ t.data = s.data
         /\ t.table = s.table /\ t.relocs = s.relocs
         /\ t.start = s.start /\ t.funcs = fs
    BY <2>8 DEF FileSet
  <2>11. CodeOf(t, i) = q /\ \A j \in Within(s) : j # i => CodeOf(t, j) = CodeOf(s, j)
    BY <1>9, <2>5, <2>7, <2>10 DEF CodeOf, Within
  <2>12. \A j \in DOMAIN s.funcs :
           /\ fs[j].index = s.funcs[j].index /\ fs[j].unit = s.funcs[j].unit
           /\ fs[j].name = s.funcs[j].name /\ fs[j].mark = s.funcs[j].mark
    BY <2>5, <2>7
  <2>13. Within(t) = Within(s)
    BY <2>7, <2>10, <2>12 DEF Within
  <2>14. Alike(s, t)
    BY <1>2, <1>5, <1>6, <2>7, <2>9, <2>10, <2>11, <2>12, <2>13 DEF Alike
  <2>15. WrittenAt(s, t, i, at, v)
    BY <1>2, <1>5, <2>11 DEF WrittenAt
  <2>16. QED
    BY <1>1, <2>14, <2>15
<1>10. QED
  BY <1>8, <1>9

(* Patches W, of which those in On are made, one after the other.           *)
Sound(s, On, W) ==
  \A k \in On : W[k].in \in Within(s) /\ W[k].at \in DOMAIN CodeOf(s, W[k].in)
                /\ W[k].value \in Nat

Patching(p, s, n, On, W) ==
  /\ p[0] = s
  /\ \A k \in 1 .. n :
       p[k] = IF k \in On THEN PatchPadded(p[k - 1], W[k].in, W[k].at, W[k].value)
                          ELSE p[k - 1]

(* A number is what it was, or what one of the patches there wrote.         *)
PatchedBy(s, t, K, W) ==
  \A i \in Within(s) : \A p \in DOMAIN CodeOf(s, i) :
    \/ /\ CodeOf(t, i)[p].value = CodeOf(s, i)[p].value
       /\ \A k \in K : W[k].in # i \/ W[k].at # p
    \/ \E k \in K : W[k].in = i /\ W[k].at = p /\ CodeOf(t, i)[p].value = W[k].value

Likes(s) == {t \in FileSet : Alike(s, t)}

(* One more number written, in the order of the loop.                       *)
LEMMA PatchNext ==
  ASSUME NEW s, NEW t, Alike(s, t), NEW K, NEW W, PatchedBy(s, t, K, W),
         NEW k, Sound(s, {k}, W)
  PROVE  LET u == PatchPadded(t, W[k].in, W[k].at, W[k].value)
         IN  Alike(s, u) /\ PatchedBy(s, u, K \cup {k}, W)
<1>1. PICK i : i = W[k].in
  OBVIOUS
<1>2. PICK at : at = W[k].at
  OBVIOUS
<1>3. PICK v \in Nat : v = W[k].value
  BY DEF Sound
<1>4. PICK u : u = PatchPadded(t, i, at, v)
  OBVIOUS
<1>5. t \in FileSet /\ i \in Within(t) /\ at \in DOMAIN CodeOf(t, i) /\ Within(t) = Within(s)
      /\ \A j \in Within(s) : DOMAIN CodeOf(t, j) = DOMAIN CodeOf(s, j)
  BY <1>1, <1>2 DEF Sound, Alike
<1>6. Alike(t, u) /\ WrittenAt(t, u, i, at, v)
  BY <1>4, <1>5, PatchOne
<1>7. Alike(s, u)
  BY <1>6, AlikeAgain
<1>8. ASSUME NEW j \in Within(s), NEW p \in DOMAIN CodeOf(s, j)
      PROVE  \/ /\ CodeOf(u, j)[p].value = CodeOf(s, j)[p].value
                /\ \A m \in K \cup {k} : W[m].in # j \/ W[m].at # p
             \/ \E m \in K \cup {k} :
                  W[m].in = j /\ W[m].at = p /\ CodeOf(u, j)[p].value = W[m].value
  <2>1. CASE j = i /\ p = at
    BY <1>1, <1>2, <1>3, <1>6, <2>1 DEF WrittenAt
  <2>2. CASE j # i \/ p # at
    <3>1. CodeOf(u, j)[p] = CodeOf(t, j)[p]
      BY <1>5, <1>6, <2>2 DEF WrittenAt
    <3>2. \/ /\ CodeOf(t, j)[p].value = CodeOf(s, j)[p].value
             /\ \A m \in K : W[m].in # j \/ W[m].at # p
          \/ \E m \in K : W[m].in = j /\ W[m].at = p /\ CodeOf(t, j)[p].value = W[m].value
      BY DEF PatchedBy
    <3>3. W[k].in # j \/ W[k].at # p
      BY <1>1, <1>2, <2>2
    <3>4. QED
      BY <3>1, <3>2, <3>3
  <2>3. QED
    BY <2>1, <2>2
<1>9. PatchedBy(s, u, K \cup {k}, W)
  BY <1>8 DEF PatchedBy
<1>10. QED
  BY <1>1, <1>2, <1>3, <1>4, <1>7, <1>9

(* All of them.                                                             *)
LEMMA PatchFold ==
  ASSUME NEW s \in FileSet, NEW n \in Nat, NEW On \in Places(n), NEW W, Sound(s, On, W),
         NEW p, Patching(p, s, n, On, W)
  PROVE  Alike(s, p[n]) /\ PatchedBy(s, p[n], On, W)
<1> DEFINE Upto(m) == {k \in On : k <= m}
           T == {m \in 0 .. n : Alike(s, p[m]) /\ PatchedBy(s, p[m], Upto(m), W)}
<1>0. \A k \in On : k \in Nat /\ 1 <= k /\ k <= n
  BY DEF Places
<1>1. 0 \in T
  <2>1. Upto(0) = {}
    BY <1>0
  <2>2. p[0] = s
    BY DEF Patching
  <2>3. PatchedBy(s, s, {}, W)
    BY DEF PatchedBy
  <2>4. QED
    BY <2>1, <2>2, <2>3, AlikeSelf
<1>2. ASSUME NEW m \in 0 .. n - 1, m \in T PROVE m + 1 \in T
  <2>1. m + 1 \in 1 .. n /\ (m + 1) - 1 = m /\ m + 1 \in 0 .. n
    OBVIOUS
  <2>2. PICK k : k = m + 1
    OBVIOUS
  <2>3. p[k] = IF k \in On THEN PatchPadded(p[m], W[k].in, W[k].at, W[k].value) ELSE p[m]
    BY <2>1, <2>2 DEF Patching
  <2>4. Alike(s, p[m]) /\ PatchedBy(s, p[m], Upto(m), W)
    BY <1>2
  <2>5. Upto(k) = IF k \in On THEN Upto(m) \cup {k} ELSE Upto(m)
    <3>1. \A j \in On : j <= k <=> j <= m \/ j = k
      BY <1>0, <2>2
    <3>2. QED
      BY <3>1
  <2>6. Alike(s, p[k]) /\ PatchedBy(s, p[k], Upto(k), W)
    <3>1. CASE k \in On
      <4>1. Sound(s, {k}, W)
        BY <3>1 DEF Sound
      <4>2. PICK K : K = Upto(m)
        OBVIOUS
      <4>3. PICK t : t = p[m]
        OBVIOUS
      <4>4. Alike(s, t) /\ PatchedBy(s, t, K, W)
        BY <2>4, <4>2, <4>3
      <4>5. PICK u : u = PatchPadded(t, W[k].in, W[k].at, W[k].value)
        OBVIOUS
      <4>6. Alike(s, u) /\ PatchedBy(s, u, K \cup {k}, W)
        BY <4>1, <4>4, <4>5, PatchNext
      <4>7. p[k] = u /\ Upto(k) = K \cup {k}
        BY <2>3, <2>5, <3>1, <4>2, <4>3, <4>5
      <4>8. QED
        BY <4>6, <4>7
    <3>2. CASE k \notin On
      BY <2>3, <2>4, <2>5, <3>2
    <3>3. QED
      BY <3>1, <3>2
  <2>7. QED
    BY <2>1, <2>2, <2>6
<1>3. n \in T
  <2> HIDE DEF T
  <2>1. 0 .. n \subseteq T
    BY <1>1, <1>2, CountUp
  <2>2. QED
    BY <2>1
<1>4. Upto(n) = On
  BY <1>0
<1>5. QED
  BY <1>3, <1>4

(* The recursive functions of the loops are functions.                      *)
LEMMA PatchExists ==
  ASSUME NEW s \in FileSet, NEW n \in Nat, NEW On \in Places(n), NEW W, Sound(s, On, W)
  PROVE  \E g \in [0 .. n -> Likes(s)] : Patching(g, s, n, On, W)
<1>1. PICK Q : Q = Likes(s)
  OBVIOUS
<1> DEFINE Do(k, t) == IF k \in On THEN PatchPadded(t, W[k].in, W[k].at, W[k].value) ELSE t
           F == [k \in 1 .. n |-> [t \in Q |-> Do(k, t)]]
<1>2. ASSUME NEW k \in 1 .. n, NEW t \in Q PROVE Do(k, t) \in Q
  <2>1. Alike(s, t) /\ t \in FileSet
    BY <1>1 DEF Likes
  <2>2. CASE k \in On
    <3>1. /\ W[k].in \in Within(t) /\ W[k].at \in DOMAIN CodeOf(t, W[k].in)
          /\ W[k].value \in Nat
      BY <2>1, <2>2 DEF Sound, Alike
    <3>2. Alike(t, PatchPadded(t, W[k].in, W[k].at, W[k].value))
      BY <2>1, <3>1, PatchOne
    <3>3. Alike(s, Do(k, t))
      BY <2>1, <2>2, <3>2, AlikeAgain
    <3> HIDE DEF Do
    <3>4. QED
      BY <1>1, <3>3 DEF Likes, Alike
  <2>3. CASE k \notin On
    BY <2>3
  <2>4. QED
    BY <2>2, <2>3
<1> HIDE DEF Do
<1>3. F \in Steps(n, Q)
  BY <1>2 DEF Steps
<1>4. s \in Q
  BY <1>1, AlikeSelf DEF Likes
<1>5. PICK g \in [0 .. n -> Q] : g[0] = s /\ \A k \in 1 .. n : g[k] = F[k][g[k - 1]]
  <2> HIDE DEF F
  <2>1. \E g \in [0 .. n -> Q] : Iterates(g, s, F, n)
    BY <1>3, <1>4, Iterated
  <2>2. QED
    BY <2>1 DEF Iterates
<1>6. ASSUME NEW k \in 1 .. n PROVE g[k] = Do(k, g[k - 1])
  <2>1. k - 1 \in 0 .. n /\ g[k - 1] \in Q
    OBVIOUS
  <2>2. QED
    BY <1>5, <2>1
<1>7. Patching(g, s, n, On, W)
  BY <1>5, <1>6 DEF Patching, Do
<1>8. QED
  BY <1>1, <1>7

LinkWrites == [k \in DOMAIN l.relocs |->
                 [in |-> l.relocs[k].in, at |-> l.relocs[k].at,
                  value |-> FinalValue(l.relocs[k])]]
OwnWrites == [k \in DOMAIN c.relocs |->
                [in |-> c.relocs[k].in, at |-> c.relocs[k].at,
                 value |-> ImportedIndex(c.relocs[k])]]
OwnCalls == {k \in DOMAIN c.relocs : c.relocs[k].kind = "extern"}

(* ApplyLinkRelocations writes what every relocation says, and nothing      *)
(* else.                                                                    *)
LEMMA LinkPatched ==
  ASSUME NEW s \in FileSet, Len(l.relocs) \in Nat, DOMAIN l.relocs = 1 .. Len(l.relocs),
         Sound(s, DOMAIN l.relocs, LinkWrites)
  PROVE  LET t == ApplyLinkRelocations(s)
         IN  Alike(s, t) /\ PatchedBy(s, t, DOMAIN l.relocs, LinkWrites)
<1>1. PICK n \in Nat : n = Len(l.relocs)
  OBVIOUS
<1>2. PICK On \in Places(n) : On = DOMAIN l.relocs
  BY <1>1 DEF Places
<1>3. PICK W : W = LinkWrites
  OBVIOUS
<1>4. ASSUME NEW k \in 1 .. n
      PROVE  /\ k \in On /\ W[k].in = l.relocs[k].in /\ W[k].at = l.relocs[k].at
             /\ W[k].value = FinalValue(l.relocs[k])
  <2>1. k \in DOMAIN l.relocs
    BY <1>1
  <2>2. W[k] = [in |-> l.relocs[k].in, at |-> l.relocs[k].at, value |-> FinalValue(l.relocs[k])]
    BY <1>3, <2>1 DEF LinkWrites
  <2>3. QED
    BY <1>2, <2>1, <2>2
<1>5. Sound(s, On, W)
  BY <1>2, <1>3
<1> DEFINE Do(k, t) == PatchPadded(t, l.relocs[k].in, l.relocs[k].at, FinalValue(l.relocs[k]))
           Is(f) == f = [k \in 0 .. Len(l.relocs) |-> IF k = 0 THEN s ELSE Do(k, f[k - 1])]
           p == CHOOSE f : Is(f)
<1>6. ApplyLinkRelocations(s) = p[n]
  BY <1>1 DEF ApplyLinkRelocations
<1>7. PICK g \in [0 .. n -> Likes(s)] : Patching(g, s, n, On, W)
  BY <1>5, PatchExists
<1>8. Is(g)
  <2>1. g[0] = s
    BY <1>7 DEF Patching
  <2>2. ASSUME NEW k \in 1 .. n PROVE g[k] = Do(k, g[k - 1])
    BY <1>4, <1>7 DEF Patching
  <2> HIDE DEF Do
  <2>3. ASSUME NEW k \in 0 .. n, k # 0 PROVE g[k] = Do(k, g[k - 1])
    BY <2>2, <2>3
  <2>4. g = [k \in 0 .. n |-> g[k]]
    OBVIOUS
  <2>5. QED
    BY <1>1, <2>1, <2>3, <2>4
<1>9. Is(p)
  <2> HIDE DEF Is
  <2>1. QED
    BY <1>8
<1> HIDE DEF p
<1>10. Patching(p, s, n, On, W)
  <2>1. ASSUME NEW k \in 1 .. n PROVE p[k] = Do(k, p[k - 1])
    <3> HIDE DEF Do
    <3>1. QED
      BY SMTT(30), <1>1, <1>9
  <2>2. p[0] = s
    <3> HIDE DEF Do
    <3>1. QED
      BY <1>1, <1>9
  <2> HIDE DEF Is
  <2>3. QED
    BY <1>4, <2>1, <2>2 DEF Patching
<1> HIDE DEF Is
<1>11. Alike(s, p[n]) /\ PatchedBy(s, p[n], On, W)
  BY <1>5, <1>10, PatchFold
<1>12. QED
  BY <1>2, <1>3, <1>6, <1>11

(* So does the loop over the program's own calls.                           *)
LEMMA OwnPatched ==
  ASSUME NEW s \in FileSet, Len(c.relocs) \in Nat, DOMAIN c.relocs = 1 .. Len(c.relocs),
         Sound(s, OwnCalls, OwnWrites)
  PROVE  LET t == PatchProgram(s)
         IN  Alike(s, t) /\ PatchedBy(s, t, OwnCalls, OwnWrites)
<1>1. PICK n \in Nat : n = Len(c.relocs)
  OBVIOUS
<1>2. PICK On \in Places(n) : On = OwnCalls
  BY <1>1 DEF Places, OwnCalls
<1>3. PICK W : W = OwnWrites
  OBVIOUS
<1>4. ASSUME NEW k \in 1 .. n
      PROVE  /\ k \in On <=> c.relocs[k].kind = "extern"
             /\ W[k].in = c.relocs[k].in /\ W[k].at = c.relocs[k].at
             /\ W[k].value = ImportedIndex(c.relocs[k])
  <2>1. k \in DOMAIN c.relocs
    BY <1>1
  <2>2. W[k] = [in |-> c.relocs[k].in, at |-> c.relocs[k].at,
                value |-> ImportedIndex(c.relocs[k])]
    BY <1>3, <2>1 DEF OwnWrites
  <2>3. QED
    BY <1>2, <2>1, <2>2 DEF OwnCalls
<1>5. Sound(s, On, W)
  BY <1>2, <1>3
<1> DEFINE Do(k, t) ==
             IF c.relocs[k].kind = "extern"
             THEN PatchPadded(t, c.relocs[k].in, c.relocs[k].at, ImportedIndex(c.relocs[k]))
             ELSE t
           Is(f) == f = [k \in 0 .. Len(c.relocs) |-> IF k = 0 THEN s ELSE Do(k, f[k - 1])]
           p == CHOOSE f : Is(f)
<1>6. PatchProgram(s) = p[n]
  BY <1>1 DEF PatchProgram
<1>7. PICK g \in [0 .. n -> Likes(s)] : Patching(g, s, n, On, W)
  BY <1>5, PatchExists
<1>8. Is(g)
  <2>1. g[0] = s
    BY <1>7 DEF Patching
  <2>2. ASSUME NEW k \in 1 .. n PROVE g[k] = Do(k, g[k - 1])
    BY <1>4, <1>7 DEF Patching
  <2> HIDE DEF Do
  <2>3. ASSUME NEW k \in 0 .. n, k # 0 PROVE g[k] = Do(k, g[k - 1])
    BY <2>2, <2>3
  <2>4. g = [k \in 0 .. n |-> g[k]]
    OBVIOUS
  <2>5. QED
    BY <1>1, <2>1, <2>3, <2>4
<1>9. Is(p)
  <2> HIDE DEF Is
  <2>1. QED
    BY <1>8
<1> HIDE DEF p
<1>10. Patching(p, s, n, On, W)
  <2>1. ASSUME NEW k \in 1 .. n PROVE p[k] = Do(k, p[k - 1])
    <3> HIDE DEF Do
    <3>1. QED
      BY <1>1, <1>9
  <2>2. p[0] = s
    <3> HIDE DEF Do
    <3>1. QED
      BY <1>1, <1>9
  <2> HIDE DEF Is
  <2>3. QED
    BY <1>4, <2>1, <2>2 DEF Patching
<1> HIDE DEF Is
<1>11. Alike(s, p[n]) /\ PatchedBy(s, p[n], On, W)
  BY <1>5, <1>10, PatchFold
<1>12. QED
  BY <1>2, <1>3, <1>6, <1>11

-----------------------------------------------------------------------------
(* What the patches write lands.                                            *)
LEMMA RoutineLands ==
  ASSUME NEW s \in FileSet, Numbered(s), WithinLimits(s), NEW v, NEW m, Routine(s.funcs, v, m)
  PROVE  v \in Nat /\ FuncLands(s, v, m) /\ Lands(s, "func", v, m)
<1>1. PICK g \in InMod(s.funcs) : s.funcs[g].index = v
  BY DEF Routine
<1>2. s.funcs \in Seq(FuncSet) /\ g \in DOMAIN s.funcs
  BY DEF FileSet, InMod
<1>3. s.funcs[g] \in FuncSet
  BY <1>2
<1>4. v \in Nat
  BY <1>1, <1>3 DEF FuncSet
<1>5. v < ExternFuncBase
  BY SMTT(30), <1>1, IndicesBetween, Limits
<1>6. FuncLands(s, v, m)
  BY <1>5 DEF FuncLands
<1>7. QED
  BY <1>4, <1>6 DEF Lands

(* What ApplyLinkRelocations writes lands: an extern on the routine its     *)
(* symbol names.                                                            *)
LEMMA MovesLand ==
  ASSUME LinkOK(c, l), NEW k \in DOMAIN l.relocs, Resolves(l.relocs[k])
  PROVE  LET r == l.relocs[k]
             site == c.funcs[r.in].code[r.at]
         IN  /\ FinalValue(r) \in Nat /\ r.in \in PlacedFuncs(c) /\ r.at \in DOMAIN CodeOf(c, r.in)
             /\ site = CodeOf(c, r.in)[r.at]
             /\ Lands(c, site.kind, FinalValue(r), site.means)
<1>1. c \in FileSet /\ l \in LinkSet /\ Numbered(c) /\ WithinLimits(c) /\ PlacedRight(c, l)
      /\ UnitsRight(c, l)
  BY DEF LinkOK
<1>2. PICK r \in MoveSet : r = l.relocs[k]
  BY <1>1 DEF LinkSet
<1>3. PICK site : site = c.funcs[r.in].code[r.at]
  BY SMTT(30)
<1>4. /\ r.in \in PlacedFuncs(c) /\ r.at \in DOMAIN c.funcs[r.in].code
      /\ MoveRight(c, l, r, site)
  BY <1>1, <1>2, <1>3 DEF PlacedRight
<1>5. r.in # 0 /\ CodeOf(c, r.in) = c.funcs[r.in].code
  BY <1>4 DEF PlacedFuncs, CodeOf
<1>6. FinalValue(r) \in Nat /\ Lands(c, site.kind, FinalValue(r), site.means)
  <2>1. CASE r.kind = "extern"
    <3>1. site.kind = "func" /\ ExternMeans(l.externs[r.obj], r.value + 1, site.means)
      BY <1>4, <2>1 DEF MoveRight
    <3>2. PICK e : e = Extern(r)
      OBVIOUS
    <3>3. site.means = <<e.unit, e.name>>
      BY <3>1, <3>2 DEF ExternMeans, Extern
    <3>4. PICK I : I = SymsOf(r)
      OBVIOUS
    <3>5. I # {}
      BY <1>2, <2>1, <3>4 DEF Resolves
    <3>6. I = {x \in DOMAIN l.syms : l.syms[x].unit = e.unit /\ l.syms[x].name = e.name}
      BY <3>2, <3>4 DEF SymsOf
    <3>7. DOMAIN l.syms \subseteq Nat
      BY SMTT(30), <1>1 DEF LinkSet
    <3>8. I \in SUBSET Nat
      BY <3>6, <3>7
    <3>9. \E x \in I : \A j \in I : x <= j
      BY <3>5, <3>8, Least
    <3>10. PICK x : x = CHOOSE y \in I : \A j \in I : y <= j
      OBVIOUS
    <3>11. x \in I
      BY <3>9, <3>10
    <3>12. FinalValue(r) = l.syms[x].index
      BY <2>1, <3>4, <3>10 DEF FinalValue
    <3>13. Routine(c.funcs, l.syms[x].index, <<e.unit, e.name>>)
      <4>1. x \in DOMAIN l.syms /\ l.syms[x].unit = e.unit /\ l.syms[x].name = e.name
        BY <3>6, <3>11
      <4>2. Routine(c.funcs, l.syms[x].index, <<l.syms[x].unit, l.syms[x].name>>)
        BY <1>1, <4>1 DEF UnitsRight
      <4>3. QED
        BY <4>1, <4>2
    <3>14. QED
      BY <1>1, <3>1, <3>3, <3>12, <3>13, RoutineLands
  <2>2. CASE r.kind # "extern"
    <3>1. FinalValue(r) = r.value
      BY <2>2 DEF FinalValue
    <3>2. r.value \in Nat
      BY <1>2 DEF MoveSet
    <3>3. QED
      BY <1>4, <2>2, <3>1, <3>2 DEF MoveRight
  <2>3. QED
    BY <2>1, <2>2
<1>7. QED
  BY ZenonT(60), <1>2, <1>3, <1>4, <1>5, <1>6

(* Once nothing waits, all that is linked is placed. *)
LEMMA LinkedPlaced ==
  ASSUME LinkOK(c, l), Waiting = {}
  PROVE  Range(l.placed) = l.linked
<1>1. Range(l.placed) \subseteq l.linked /\ l.linked \subseteq Range(l.args)
  BY DEF LinkOK, UnitsRight
<1>2. ASSUME NEW u \in l.linked, u \notin Range(l.placed) PROVE FALSE
  <2>1. PICK k \in DOMAIN l.args : l.args[k] = u
    BY <1>1 DEF Range
  <2>2. k \in Waiting
    BY <1>2, <2>1 DEF Waiting
  <2>3. QED
    BY <2>2
<1>3. QED
  BY <1>1, <1>2

(* What is written into the program's own calls lands, when all of the      *)
(* program's units are placed.                                              *)
LEMMA ImportsLand ==
  ASSUME LinkOK(c, l), Waiting = {}, ObjectsRight, NEW k \in OwnCalls
  PROVE  LET r == c.relocs[k]
             site == CodeOf(c, r.in)[r.at]
         IN  /\ ImportedIndex(r) \in Nat /\ r.in \in OwnPlaces(c)
             /\ r.at \in DOMAIN CodeOf(c, r.in)
             /\ site.kind = "func" /\ Lands(c, "func", ImportedIndex(r), site.means)
<1>1. c \in FileSet /\ l \in LinkSet /\ Numbered(c) /\ WithinLimits(c) /\ OwnRight(c)
      /\ UnitsRight(c, l) /\ GivenRight(c, l)
      /\ \A x \in DOMAIN c.externs : ExternRight(c, c.externs[x])
  BY DEF LinkOK
<1>2. k \in DOMAIN c.relocs
  BY DEF OwnCalls
<1>3. PICK r \in RelocSet : r = c.relocs[k]
  BY <1>1, <1>2 DEF FileSet
<1>4. r.kind = "extern"
  BY <1>3 DEF OwnCalls
<1>5. PICK site : site = CodeOf(c, r.in)[r.at]
  OBVIOUS
<1>6. r.in \in OwnPlaces(c) /\ r.at \in DOMAIN CodeOf(c, r.in) /\ RelocFor(r, site)
  BY <1>1, <1>2, <1>3, <1>5 DEF OwnRight
<1>7. Unresolved(site)
  <2>1. r.in \in Within(c)
    BY <1>6 DEF OwnPlaces
  <2>2. site.kind \in {"func", "data", "slot"}
    BY <1>1, <1>5, <1>6, <2>1, CodeTyped
  <2>3. QED
    BY <1>4, <1>6, <2>2 DEF RelocFor
<1>8. site.kind = "func" /\ r.symbol = site.value - ExternFuncBase
  BY <1>6, <1>7 DEF Unresolved, RelocFor
<1>9. ExternMeans(c.externs, r.symbol + 1, site.means)
  <2>1. SiteRight(c, c.externs, site)
    BY <1>1, <1>5, <1>6 DEF OwnRight
  <2>2. QED
    BY <1>7, <1>8, <2>1 DEF SiteRight
<1>10. PICK e : e = c.externs[r.symbol + 1]
  OBVIOUS
<1>11. r.symbol + 1 \in DOMAIN c.externs /\ site.means = <<e.unit, e.name>>
  BY <1>9, <1>10 DEF ExternMeans
<1>12. e \in ExternSet /\ ExternRight(c, e)
  BY <1>1, <1>10, <1>11 DEF FileSet
<1>13. PICK u \in Units : u = e.unit
  BY <1>12 DEF ExternSet
<1>14. u \in Range(l.placed)
  BY <1>1, <1>12, <1>13, LinkedPlaced DEF ExternRight, GivenRight
<1>15. PICK o : o = objects[u]
  OBVIOUS
<1>16. ObjectOK(u, o)
  BY <1>12, <1>13, <1>15 DEF ExternRight, ObjectsRight
<1>17. PICK b \in Nat : b = e.body
  BY <1>12 DEF ExternSet
<1>18. b + 1 \in DOMAIN o.bodies /\ o.bodies[b + 1].name = e.name
  <2>1. PICK m \in DOMAIN o.exports : o.exports[m].name = e.name /\ o.exports[m].body = b
    BY <1>12, <1>13, <1>15, <1>17 DEF ExternRight
  <2>2. QED
    BY <1>16, <2>1 DEF ObjectOK
<1>19. Routine(c.funcs, l.base[u] + (b + 1) - 1, <<u, o.bodies[b + 1].name>>)
  BY <1>1, <1>14, <1>15, <1>18 DEF UnitsRight
<1>20. l.base[u] \in Nat
  BY <1>1 DEF LinkSet
<1>21. l.base[u] + (b + 1) - 1 = l.base[u] + b
  BY <1>20
<1>22. Routine(c.funcs, l.base[u] + b, site.means)
  BY <1>11, <1>13, <1>18, <1>19, <1>21
<1>23. ImportedIndex(r) = l.base[u] + b
  BY <1>10, <1>13, <1>17 DEF ImportedIndex
<1>24. QED
  BY <1>1, <1>3, <1>5, <1>6, <1>8, <1>22, <1>23, RoutineLands

(* After both rounds of patches every number of the program c lands.        *)
LEMMA PatchedLands ==
  ASSUME LinkOK(c, l), Waiting = {}, ObjectsRight,
         \A k \in DOMAIN l.relocs : Resolves(l.relocs[k]),
         NEW t, t = PatchProgram(ApplyLinkRelocations(c))
  PROVE  /\ Alike(c, t)
         /\ \A i \in Within(c) : \A p \in DOMAIN CodeOf(c, i) :
              Lands(c, CodeOf(c, i)[p].kind, CodeOf(t, i)[p].value, CodeOf(c, i)[p].means)
<1>1. c \in FileSet /\ l \in LinkSet /\ OwnRight(c) /\ PlacedRight(c, l)
  BY DEF LinkOK
<1>2. c.relocs \in Seq(RelocSet) /\ l.relocs \in Seq(MoveSet)
  BY <1>1 DEF FileSet, LinkSet
<1>3. PICK W : W = LinkWrites
  OBVIOUS
<1>4. \A k \in DOMAIN l.relocs :
        /\ W[k].in = l.relocs[k].in /\ W[k].at = l.relocs[k].at
        /\ W[k].value = FinalValue(l.relocs[k])
  BY <1>3 DEF LinkWrites
<1>5. PICK V : V = OwnWrites
  OBVIOUS
<1>6. \A k \in OwnCalls :
        /\ V[k].in = c.relocs[k].in /\ V[k].at = c.relocs[k].at
        /\ V[k].value = ImportedIndex(c.relocs[k])
  BY SMTT(30), <1>5 DEF OwnWrites, OwnCalls
<1>7. Sound(c, DOMAIN l.relocs, W)
  BY <1>4, MovesLand DEF Sound, PlacedFuncs
<1>8. PICK u : u = ApplyLinkRelocations(c)
  OBVIOUS
<1>9. Alike(c, u) /\ PatchedBy(c, u, DOMAIN l.relocs, W)
  BY <1>1, <1>2, <1>3, <1>7, <1>8, LinkPatched
<1>10. Sound(u, OwnCalls, V)
  <2>1. Sound(c, OwnCalls, V)
    BY <1>6, ImportsLand DEF Sound, OwnPlaces
  <2>2. QED
    BY <1>9, <2>1 DEF Sound, Alike
<1>11. Alike(u, t) /\ PatchedBy(u, t, OwnCalls, V)
  <2>1. u \in FileSet
    BY <1>9 DEF Alike
  <2>2. QED
    BY <1>2, <1>5, <1>8, <1>10, <2>1, OwnPatched
<1>12. Alike(c, t)
  BY <1>9, <1>11, AlikeAgain
<1>13. ASSUME NEW i \in Within(c), NEW p \in DOMAIN CodeOf(c, i)
       PROVE  Lands(c, CodeOf(c, i)[p].kind, CodeOf(t, i)[p].value, CodeOf(c, i)[p].means)
  <2>1. PICK site : site = CodeOf(c, i)[p]
    OBVIOUS
  <2>2. PICK v : v = CodeOf(t, i)[p].value
    OBVIOUS
  <2>3. PICK w : w = CodeOf(u, i)[p].value
    OBVIOUS
  <2>4. \/ w = site.value /\ \A k \in DOMAIN l.relocs : W[k].in # i \/ W[k].at # p
        \/ \E k \in DOMAIN l.relocs : W[k].in = i /\ W[k].at = p /\ w = W[k].value
    BY <1>9, <2>1, <2>3 DEF PatchedBy
  <2>5. \/ v = w /\ \A k \in OwnCalls : V[k].in # i \/ V[k].at # p
        \/ \E k \in OwnCalls : V[k].in = i /\ V[k].at = p /\ v = V[k].value
    <3>1. i \in Within(u) /\ p \in DOMAIN CodeOf(u, i)
      BY <1>9 DEF Alike
    <3>2. QED
      BY <1>11, <2>2, <2>3, <3>1 DEF PatchedBy
  <2>6. Lands(c, site.kind, v, site.means)
    <3>1. CASE \E k \in OwnCalls : V[k].in = i /\ V[k].at = p /\ v = V[k].value
      <4>1. PICK k \in OwnCalls : V[k].in = i /\ V[k].at = p /\ v = V[k].value
        BY <3>1
      <4>2. c.relocs[k].in = i /\ c.relocs[k].at = p /\ v = ImportedIndex(c.relocs[k])
        BY <1>6, <4>1
      <4>3. site.kind = "func" /\ Lands(c, "func", v, site.means)
        BY <2>1, <4>2, ImportsLand
      <4>4. QED
        BY <4>3
    <3>2. CASE v = w /\ \A k \in OwnCalls : V[k].in # i \/ V[k].at # p
      <4>1. CASE \E k \in DOMAIN l.relocs : W[k].in = i /\ W[k].at = p /\ w = W[k].value
        <5>1. PICK k \in DOMAIN l.relocs : W[k].in = i /\ W[k].at = p /\ w = W[k].value
          BY <4>1
        <5>2. PICK r : r = l.relocs[k]
          OBVIOUS
        <5>3. r.in = i /\ r.at = p /\ w = FinalValue(r)
          BY SMTT(30), <1>4, <5>1, <5>2
        <5>4. LET x == c.funcs[r.in].code[r.at]
              IN  x = CodeOf(c, r.in)[r.at] /\ Lands(c, x.kind, FinalValue(r), x.means)
          BY <5>2, MovesLand
        <5>5. QED
          BY <2>1, <3>2, <5>3, <5>4
      <4>2. CASE w = site.value /\ \A k \in DOMAIN l.relocs : W[k].in # i \/ W[k].at # p
        <5>1. v = site.value
          BY <3>2, <4>2
        <5>2. CASE i \in OwnPlaces(c)
          <6>1. /\ SiteRight(c, c.externs, site)
                /\ Unresolved(site) => \E k \in DOMAIN c.relocs :
                                         c.relocs[k].in = i /\ c.relocs[k].at = p
            BY <1>1, <2>1, <5>2 DEF OwnRight
          <6>2. ~Unresolved(site)
            <7>1. SUFFICES ASSUME Unresolved(site) PROVE FALSE
              OBVIOUS
            <7>2. PICK k \in DOMAIN c.relocs : c.relocs[k].in = i /\ c.relocs[k].at = p
              BY <6>1, <7>1
            <7>3. RelocFor(c.relocs[k], site)
              BY <1>1, <2>1, <7>2 DEF OwnRight
            <7>4. k \in OwnCalls
              BY <7>1, <7>2, <7>3 DEF RelocFor, OwnCalls
            <7>5. QED
              BY <1>6, <3>2, <7>2, <7>4
          <6>3. QED
            BY <5>1, <6>1, <6>2 DEF SiteRight
        <5>3. CASE i \notin OwnPlaces(c)
          <6>1. i # 0 /\ i \in DOMAIN c.funcs /\ c.funcs[i].unit # Program
            BY <5>3 DEF OwnPlaces, Within
          <6>2. c.funcs[i].unit \in Files
            <7>1. c.funcs \in Seq(FuncSet)
              BY <1>1 DEF FileSet
            <7>2. c.funcs[i] \in FuncSet
              BY <6>1, <7>1
            <7>3. QED
              BY <7>2 DEF FuncSet
          <6>3. i \in PlacedFuncs(c)
            BY <6>1, <6>2 DEF PlacedFuncs, Files
          <6>4. CodeOf(c, i) = c.funcs[i].code
            BY <6>1 DEF CodeOf
          <6>5. \/ \E k \in DOMAIN l.relocs : l.relocs[k].in = i /\ l.relocs[k].at = p
                \/ Lands(c, site.kind, site.value, site.means)
            BY <1>1, <2>1, <6>3, <6>4 DEF PlacedRight
          <6>6. QED
            BY <1>4, <4>2, <5>1, <6>5
        <5>4. QED
          BY <5>2, <5>3
      <4>3. QED
        BY <2>4, <4>1, <4>2
    <3>3. QED
      BY <2>5, <3>1, <3>2
  <2>7. QED
    BY <2>1, <2>2, <2>6
<1>14. QED
  BY <1>12, <1>13

-----------------------------------------------------------------------------
(* A finished module in which every number lands.                           *)
LEMMA TypeFacts ==
  ASSUME c \in FileSet, Numbered(c), WithinLimits(c), TableFilled(c)
  PROVE  /\ c.slots = HelperSlots + Len(InModule)
         /\ \A k \in DOMAIN c.table : IndexInUse(c.table[k])
<1>1. c.funcs \in Seq(FuncSet)
  BY DEF FileSet
<1>2. InModule = Pick(c.funcs, InMod(c.funcs)) /\ InMod(c.funcs) \in SUBSET DOMAIN c.funcs
  BY DEF InModule, InMod
<1>3. Len(InModule) = Cardinality(InMod(c.funcs))
  BY <1>1, <1>2, PickFacts
<1>4. ASSUME NEW k \in DOMAIN c.table PROVE IndexInUse(c.table[k])
  <2>1. PICK g \in InMod(c.funcs) : c.funcs[g].index = c.table[k]
    BY DEF TableFilled
  <2>2. PICK v \in Nat : v = c.table[k]
    BY <2>1, IndicesBetween
  <2>3. v < Len(c.imports) + c.slots /\ Len(c.imports) + c.slots < ExternFuncBase
    BY <2>1, <2>2, IndicesBetween
  <2>4. Len(c.imports) + c.slots \in Nat
    BY SMTT(30) DEF FileSet
  <2>5. QED
    BY <2>2, <2>3, <2>4, Limits DEF IndexInUse
<1>5. QED
  BY <1>3, <1>4 DEF Numbered

(* A number that lands is what FunctionAt finds.                            *)
LEMMA NamedByIndex ==
  ASSUME c \in FileSet, Numbered(c), WithinLimits(c), NEW v \in Nat, NEW m,
         FuncLands(c, v, m)
  PROVE  FunctionAt(v) = m
<1>1. Len(c.imports) \in Nat /\ FirstUser(c) = Len(c.imports) + HelperSlots
      /\ FirstUser(c) \in Nat
  BY IndicesBetween
<1>2. CASE v < Len(c.imports) /\ m = <<"host", c.imports[v + 1]>>
  BY <1>2 DEF FunctionAt
<1>3. CASE v - Len(c.imports) \in 1 .. HelperSlots - 1
           /\ m = <<"helper", v - Len(c.imports)>>
  <2>1. ~(v < Len(c.imports)) /\ v < FirstUser(c)
    BY <1>1, <1>3, Limits
  <2>2. QED
    BY <1>3, <2>1 DEF FunctionAt
<1>4. CASE Routine(c.funcs, v, m)
  <2>1. PICK g \in InMod(c.funcs) :
          c.funcs[g].index = v /\ m = <<c.funcs[g].unit, c.funcs[g].name>>
    BY <1>4 DEF Routine
  <2>2. FirstUser(c) <= v
    BY <2>1, IndicesBetween
  <2>3. ~(v < Len(c.imports)) /\ ~(v < FirstUser(c))
    BY <1>1, <2>2, Limits
  <2>4. PICK n : n = Ordinal(InMod(c.funcs), g)
    OBVIOUS
  <2>5. v = FirstUser(c) + n
    BY <2>1, <2>4 DEF Numbered
  <2>6. c.funcs \in Seq(FuncSet)
    BY DEF FileSet
  <2>7. n \in Nat
    BY <2>4, <2>6, InModPlaces, OrdinalBelow
  <2>8. v - FirstUser(c) + 1 = n + 1
    BY <1>1, <2>5, <2>7
  <2>9. InModule = Pick(c.funcs, InMod(c.funcs)) /\ InMod(c.funcs) \in SUBSET DOMAIN c.funcs
    BY DEF InModule, InMod
  <2>10. n + 1 \in DOMAIN InModule /\ InModule[n + 1] = c.funcs[g]
    BY <2>4, <2>6, <2>9, PickFacts
  <2>11. RoutineAt(v) = c.funcs[g]
    BY <2>8, <2>10 DEF RoutineAt
  <2>12. QED
    BY <2>1, <2>3, <2>11 DEF FunctionAt
<1>5. QED
  BY <1>2, <1>3, <1>4 DEF FuncLands

(* Every site is in a body or in the statement part. *)
LEMMA SiteIn ==
  ASSUME c \in FileSet, NEW kind, NEW s \in Sites(kind)
  PROVE  \E i \in Within(c) : \E p \in DOMAIN CodeOf(c, i) :
           s = CodeOf(c, i)[p] /\ s.kind = kind /\ s \in SiteSet
<1>1. Bodies = Within(c)
  BY DEF Bodies, Bodied, HasBody, Within
<1>2. PICK i \in Within(c) : s \in Range(CodeOf(c, i)) /\ s.kind = kind
  BY <1>1 DEF Sites
<1>3. PICK p \in DOMAIN CodeOf(c, i) : s = CodeOf(c, i)[p]
  BY <1>2 DEF Range
<1>4. QED
  BY <1>2, <1>3, CodeTyped

KindOf(r) == CASE r.kind \in {"func", "extern"} -> "func"
               [] r.kind = "data" -> "data"
               [] r.kind = "table" -> "slot"
MovesTyped ==
  \A r \in Range(l.relocs) : /\ r.at \in DOMAIN c.funcs[r.in].code
                             /\ c.funcs[r.in].code[r.at].kind = KindOf(r)

Landed ==
  /\ phase = "done"
  /\ c \in FileSet /\ Numbered(c) /\ WithinLimits(c) /\ TableFilled(c)
  /\ \A i \in Within(c) : \A p \in DOMAIN CodeOf(c, i) :
       Lands(c, CodeOf(c, i)[p].kind, CodeOf(c, i)[p].value, CodeOf(c, i)[p].means)
  /\ MovesTyped

(* So in a finished module all numbers are right.                           *)
LEMMA LandedNumbers == Landed => NumbersLand
<1> SUFFICES ASSUME Landed PROVE NumbersLand
  OBVIOUS
<1>1. c \in FileSet /\ Numbered(c) /\ WithinLimits(c) /\ TableFilled(c) /\ phase = "done"
      /\ MovesTyped
  BY DEF Landed
<1>2. ASSUME NEW kind, NEW s \in Sites(kind)
      PROVE  s \in SiteSet /\ s.kind = kind /\ Lands(c, kind, s.value, s.means)
  <2>0. PICK i \in Within(c) : \E p \in DOMAIN CodeOf(c, i) :
          s = CodeOf(c, i)[p] /\ s.kind = kind /\ s \in SiteSet
    BY <1>1, SiteIn
  <2>1. PICK p \in DOMAIN CodeOf(c, i) :
          s = CodeOf(c, i)[p] /\ s.kind = kind /\ s \in SiteSet
    BY <2>0
  <2>2. Lands(c, CodeOf(c, i)[p].kind, CodeOf(c, i)[p].value, CodeOf(c, i)[p].means)
    BY DEF Landed
  <2>3. QED
    BY <2>1, <2>2
<1>3. TypeOK
  BY <1>1, TypeFacts DEF TypeOK, MovesTyped, KindOf
<1>4. CallsLand
  <2>1. ASSUME NEW s \in Sites("func") PROVE FunctionAt(s.value) = s.means
    <3>1. s \in SiteSet /\ FuncLands(c, s.value, s.means)
      BY <1>2 DEF Lands
    <3>2. s.value \in Nat
      BY <3>1 DEF SiteSet
    <3>3. QED
      BY <1>1, <3>1, <3>2, NamedByIndex
  <2>2. QED
    BY <2>1 DEF CallsLand
<1>5. AddressesLand
  <2>1. ASSUME NEW s \in Sites("data") PROVE DataLands(c, s.value, s.means)
    BY <1>2 DEF Lands
  <2>2. QED
    BY <2>1 DEF AddressesLand, DataLands
<1>6. SlotsLand
  <2>1. ASSUME NEW s \in Sites("slot")
        PROVE  SlotInUse(s.value) /\ FunctionAt(c.table[s.value]) = s.means
    <3>1. s.value \in DOMAIN c.table /\ Routine(c.funcs, c.table[s.value], s.means)
      BY <1>2 DEF Lands, SlotLands
    <3>2. FunctionAt(c.table[s.value]) = s.means
      BY <1>1, <3>1, RoutineLands, NamedByIndex
    <3>3. c.table \in Seq(Nat)
      BY <1>1 DEF FileSet
    <3>4. SlotInUse(s.value)
      BY <3>1, <3>3 DEF SlotInUse
    <3>5. QED
      BY <3>2, <3>4
  <2>2. QED
    BY <2>1 DEF SlotsLand
<1>7. QED
  BY <1>3, <1>4, <1>5, <1>6 DEF NumbersLand

-----------------------------------------------------------------------------
(* The same file and the same objects are as right as before.               *)
LEMMA FileStays ==
  ASSUME objects' = objects, FileOK(c')
  PROVE  FileOK(c)'
<1>1. \A k \in DOMAIN c'.externs : ExternRight(c, c.externs[k])'
  BY SMTT(30) DEF FileOK, ExternRight
<1>2. QED
  BY <1>1 DEF FileOK

(* LinkOK looks at no more than this.                                       *)
LEMMA LinkStays ==
  ASSUME objects' = objects, LinkOK(c', l')
  PROVE  LinkOK(c, l)'
<1>1. PlacedRight(c, l)'
  BY Zenon DEF LinkOK, PlacedRight
<1>2. UnitsRight(c, l)' /\ GivenRight(c, l)'
  BY ZenonT(60) DEF LinkOK, UnitsRight, GivenRight
<1>3. \A k \in DOMAIN c'.externs : ExternRight(c, c.externs[k])'
  BY Zenon DEF LinkOK, ExternRight
<1>4. QED
  BY Zenon, <1>1, <1>2, <1>3 DEF LinkOK

-----------------------------------------------------------------------------
(* A sequence in which nothing occurs twice is as long as its range is large. *)
LEMMA LenOfRange ==
  ASSUME NEW S, NEW s \in Seq(S), \A j, k \in DOMAIN s : s[j] = s[k] => j = k
  PROVE  Len(s) = Cardinality(Range(s))
<1>1. PICK n \in Nat : n = Len(s)
  OBVIOUS
<1>2. PICK R : R = Range(s)
  OBVIOUS
<1>3. DOMAIN s = 1 .. n /\ s \in [1 .. n -> R] /\ \A x \in R : \E k \in 1 .. n : s[k] = x
  <2>1. DOMAIN s = 1 .. n
    BY <1>1
  <2>2. s = [k \in 1 .. n |-> s[k]]
    BY <2>1
  <2>3. \A k \in 1 .. n : s[k] \in R
    BY <1>2, <2>1 DEF Range
  <2>4. \A x \in R : \E k \in 1 .. n : s[k] = x
    BY <1>2, <2>1 DEF Range
  <2>5. QED
    BY <2>1, <2>2, <2>3, <2>4
<1>4. s \in Bijection(1 .. n, R)
  BY <1>3 DEF Bijection, Injection, Surjection, IsInjective
<1>5. ExistsBijection(1 .. n, R)
  BY <1>4 DEF ExistsBijection
<1>6. Cardinality(R) = n
  BY <1>5, FS_CountingElements
<1>7. QED
  BY <1>1, <1>2, <1>6

(* What is placed when linking ends is what the program reaches.            *)
LEMMA PlacedIsReached ==
  ASSUME LinkOK(c, l), OnlyNeeded, Waiting = {}, Needed = {}
  PROVE  /\ Range(l.placed) = Reached[Cardinality(Units)]
         /\ Len(l.placed) = Cardinality(Range(l.placed))
<1>1. c \in FileSet /\ l \in LinkSet /\ UnitsRight(c, l) /\ GivenRight(c, l)
  BY DEF LinkOK
<1>2. /\ l.args \in Seq(Units) /\ l.placed \in Seq(Units) /\ l.linked \in SUBSET Units
      /\ c.uses \in Seq(Units)
  BY <1>1 DEF LinkSet, FileSet
<1>3. Range(l.placed) = l.linked
  BY LinkedPlaced
<1>4. PICK us \in SUBSET Units : us = Range(c.uses)
  BY <1>2, RangeFacts
<1>5. PICK W : W = Range(l.placed)
  OBVIOUS
<1>6. us \subseteq W
  BY <1>1, <1>3, <1>4, <1>5 DEF GivenRight
<1>7. Closed(l.args, objects, W)
  <2>1. ASSUME NEW u \in Range(l.args), NEW v \in W, NEW e \in Range(objects[v].externs),
               e.unit = u
        PROVE  u \in W
    <3>1. l.externs[v] = objects[v].externs
      BY <1>1, <1>5 DEF UnitsRight
    <3>2. PICK k \in DOMAIN l.externs[v] : l.externs[v][k].unit = u
      BY <2>1, <3>1 DEF Range
    <3>3. u \notin Range(l.args) \ l.linked
      BY <1>5, <3>2 DEF Needed
    <3>4. QED
      BY <1>3, <1>5, <3>3
  <2>2. QED
    BY <2>1 DEF Closed, UsesIn
<1>8. Reach(l.args, objects, us)[Cardinality(Units)] \subseteq W
  BY <1>2, <1>6, <1>7, ReachLeast
<1>9. Reached[Cardinality(Units)] \subseteq W
  BY <1>4, <1>8, ReachedIsReach
<1>10. W \subseteq Reached[Cardinality(Units)]
  BY <1>3, <1>5 DEF OnlyNeeded
<1>11. Len(l.placed) = Cardinality(Range(l.placed))
  BY SMTT(30), <1>1, <1>2, LenOfRange DEF UnitsRight
<1>12. QED
  BY <1>5, <1>9, <1>10, <1>11

(* What is placed comes from an object.                                     *)
LEMMA PlacedFrom ==
  ASSUME LinkOK(c, l), ObjectsRight, NEW i \in PlacedFuncs(c)
  PROVE  LET u == c.funcs[i].unit
         IN  /\ u \in Units /\ u \in Range(l.placed) /\ ObjectOK(u, objects[u])
             /\ \E j \in DOMAIN objects[u].bodies :
                  c.funcs[i].code = objects[u].bodies[j].code
<1>1. PICK u : u = c.funcs[i].unit
  OBVIOUS
<1>2. PlacedRight(c, l) /\ UnitsRight(c, l) /\ GivenRight(c, l)
  BY DEF LinkOK
<1>3. u \in Units /\ u \in Range(l.placed)
      /\ \E j \in DOMAIN objects[u].bodies : c.funcs[i].code = objects[u].bodies[j].code
  BY <1>1, <1>2 DEF PlacedFuncs, PlacedRight
<1>4. u \in Range(l.args)
  BY <1>2, <1>3 DEF UnitsRight
<1>5. ObjectOK(u, objects[u])
  BY <1>2, <1>3, <1>4 DEF GivenRight, ObjectsRight
<1>6. QED
  BY <1>1, <1>3, <1>5

(* While files are linked, and when that fails.                             *)
Linking == phase \in {"link", "patch", "error"} /\ LinkOK(c, l) /\ ObjectsRight

(* Before it is finished, or when it is refused, only the types are asked   *)
(* of it.                                                                   *)
LEMMA LinkingNumbers == Linking => NumbersLand
<1> SUFFICES ASSUME Linking PROVE NumbersLand
  OBVIOUS
<1>1. /\ phase \in {"link", "patch", "error"} /\ LinkOK(c, l) /\ ObjectsRight
      /\ c \in FileSet /\ l \in LinkSet /\ Numbered(c) /\ WithinLimits(c) /\ TableFilled(c)
      /\ OwnRight(c) /\ PlacedRight(c, l)
  BY DEF Linking, LinkOK
<1>2. c.table \in Seq(Nat) /\ c.funcs \in Seq(FuncSet) /\ l.relocs \in Seq(MoveSet)
  BY <1>1 DEF FileSet, LinkSet
<1>3. ASSUME NEW s \in Sites("slot") PROVE s.value \in Nat \ {0}
  <2>1. PICK i \in Within(c) : \E p \in DOMAIN CodeOf(c, i) :
          s = CodeOf(c, i)[p] /\ s.kind = "slot" /\ s \in SiteSet
    BY <1>1, SiteIn
  <2>2. PICK p \in DOMAIN CodeOf(c, i) : s = CodeOf(c, i)[p] /\ s.kind = "slot"
    BY <2>1
  <2>3. ~Unresolved(s)
    BY <2>2 DEF Unresolved
  <2>4. CASE i \in OwnPlaces(c)
    <3>1. SiteRight(c, c.externs, s)
      BY <1>1, <2>2, <2>4 DEF OwnRight
    <3>2. s.value \in DOMAIN c.table
      BY <2>2, <2>3, <3>1 DEF SiteRight, Lands, SlotLands
    <3>3. QED
      BY <1>2, <3>2
  <2>5. CASE i \notin OwnPlaces(c)
    <3>1. i # 0 /\ i \in DOMAIN c.funcs /\ c.funcs[i].unit # Program
      BY <2>5 DEF OwnPlaces, Within
    <3>2. c.funcs[i] \in FuncSet
      BY <1>2, <3>1
    <3>3. i \in PlacedFuncs(c)
      BY <3>1, <3>2 DEF PlacedFuncs, FuncSet, Files
    <3>4. PICK u : u = c.funcs[i].unit
      OBVIOUS
    <3>5. PICK o : o = objects[u]
      OBVIOUS
    <3>6. ObjectOK(u, o) /\ \E j \in DOMAIN o.bodies : c.funcs[i].code = o.bodies[j].code
      BY <1>1, <3>3, <3>4, <3>5, PlacedFrom
    <3>7. PICK j \in DOMAIN o.bodies : c.funcs[i].code = o.bodies[j].code
      BY <3>6
    <3>8. p \in DOMAIN o.bodies[j].code /\ s = o.bodies[j].code[p]
      BY <2>2, <3>1, <3>7 DEF CodeOf
    <3>9. SiteRight(AsFile(o), o.externs, s)
      BY <3>6, <3>8 DEF ObjectOK
    <3>10. s.value \in DOMAIN AsFile(o).table
      BY <2>2, <2>3, <3>9 DEF SiteRight, Lands, SlotLands
    <3>11. AsFile(o).table = o.table /\ o.table \in Seq(Nat)
      BY <3>6 DEF AsFile, ObjectOK, ObjectSet
    <3>12. QED
      BY <3>10, <3>11
  <2>6. QED
    BY <2>4, <2>5
<1>4. \A r \in Range(c.relocs) : r.at \in DOMAIN CodeOf(c, r.in)
  BY <1>1 DEF OwnRight, Range
<1>5. MovesTyped
  <2>1. ASSUME NEW k \in DOMAIN l.relocs
        PROVE  LET r == l.relocs[k]
               IN /\ r.at \in DOMAIN c.funcs[r.in].code
                  /\ c.funcs[r.in].code[r.at].kind = KindOf(r)
    <3>1. PICK r \in MoveSet : r = l.relocs[k]
      BY <1>2
    <3>2. PICK site : site = c.funcs[r.in].code[r.at]
      OBVIOUS
    <3>3. r.at \in DOMAIN c.funcs[r.in].code /\ MoveRight(c, l, r, site)
      BY <1>1, <3>1, <3>2 DEF PlacedRight
    <3>4. r.kind \in {"func", "extern", "data", "table"}
      BY DEF MoveSet
    <3>5. site.kind = KindOf(r)
      BY <3>3, <3>4 DEF MoveRight, KindOf
    <3>6. QED
      BY ZenonT(60), <3>1, <3>2, <3>3, <3>5
  <2>2. QED
    BY SMTT(30), <2>1 DEF MovesTyped, Range
<1>6. TypeOK
  BY <1>1, <1>3, <1>4, <1>5, TypeFacts DEF TypeOK, MovesTyped, KindOf
<1>7. phase # "done"
  BY <1>1
<1>8. QED
  BY <1>6, <1>7 DEF NumbersLand, CallsLand, AddressesLand, SlotsLand

(* Patching moves no routine, byte or slot.                                 *)
LEMMA AlikeKeeps ==
  ASSUME NEW s \in FileSet, NEW t, Alike(s, t), Numbered(s), WithinLimits(s), TableFilled(s)
  PROVE  Grows(s, t) /\ Numbered(t) /\ WithinLimits(t) /\ TableFilled(t)
<1>1. /\ t.imports = s.imports /\ t.slots = s.slots /\ t.data = s.data /\ t.table = s.table
      /\ DOMAIN t.funcs = DOMAIN s.funcs /\ Len(t.funcs) = Len(s.funcs)
  BY DEF Alike
<1>2. \A j \in DOMAIN s.funcs :
        /\ t.funcs[j].index = s.funcs[j].index /\ t.funcs[j].unit = s.funcs[j].unit
        /\ t.funcs[j].name = s.funcs[j].name /\ t.funcs[j].mark = s.funcs[j].mark
  BY DEF Alike
<1>3. InMod(t.funcs) = InMod(s.funcs)
  BY <1>1, <1>2 DEF InMod
<1>4. \A j \in InMod(s.funcs) : j \in DOMAIN s.funcs
  BY DEF InMod
<1>5. Grows(s, t)
  BY <1>1, <1>2, <1>3, <1>4 DEF Grows
<1>6. Numbered(t)
  BY <1>1, <1>2, <1>3, <1>4 DEF Numbered, FirstUser
<1>7. WithinLimits(t)
  BY <1>1 DEF WithinLimits
<1>8. TableFilled(t)
  BY <1>1, <1>2, <1>3, <1>4 DEF TableFilled
<1>9. QED
  BY <1>5, <1>6, <1>7, <1>8

(* Patch: every number lands.                                               *)
LEMMA PatchLands ==
  ASSUME LinkOK(c, l), Waiting = {}, ObjectsRight,
         \A k \in DOMAIN l.relocs : Resolves(l.relocs[k]), Patch
  PROVE  Landed' /\ Alike(c, c')
<1>1. phase' = "done" /\ l' = l
  BY DEF Patch
<1>2. PICK t : t = PatchProgram(ApplyLinkRelocations(c))
  OBVIOUS
<1>3. c' = t
  BY <1>2 DEF Patch
<1>4. Alike(c, t)
  BY <1>2, PatchedLands
<1>5. \A i \in Within(c) : \A p \in DOMAIN CodeOf(c, i) :
        Lands(c, CodeOf(c, i)[p].kind, CodeOf(t, i)[p].value, CodeOf(c, i)[p].means)
  BY <1>2, PatchedLands
<1>6. c \in FileSet /\ l \in LinkSet /\ Numbered(c) /\ WithinLimits(c) /\ TableFilled(c)
      /\ PlacedRight(c, l)
  BY DEF LinkOK
<1>7. Grows(c, t) /\ Numbered(t) /\ WithinLimits(t) /\ TableFilled(t)
  BY <1>4, <1>6, AlikeKeeps
<1>8. t \in FileSet
  BY <1>4 DEF Alike
<1>9. ASSUME NEW i \in Within(t), NEW p \in DOMAIN CodeOf(t, i)
      PROVE  Lands(t, CodeOf(t, i)[p].kind, CodeOf(t, i)[p].value, CodeOf(t, i)[p].means)
  <2>1. i \in Within(c) /\ p \in DOMAIN CodeOf(c, i)
    BY <1>4 DEF Alike
  <2>2. CodeOf(t, i)[p].kind = CodeOf(c, i)[p].kind /\ CodeOf(t, i)[p].means = CodeOf(c, i)[p].means
    BY <1>4, <2>1 DEF Alike
  <2>3. CodeOf(c, i)[p].kind \in {"func", "data", "slot"}
    BY <1>6, <2>1, CodeTyped
  <2>4. Lands(c, CodeOf(c, i)[p].kind, CodeOf(t, i)[p].value, CodeOf(c, i)[p].means)
    BY <1>5, <2>1
  <2>5. Lands(t, CodeOf(c, i)[p].kind, CodeOf(t, i)[p].value, CodeOf(c, i)[p].means)
    BY <1>7, <2>3, <2>4, LandsGrows
  <2>6. QED
    BY <2>2, <2>5
<1>10. ASSUME NEW r \in Range(l.relocs)
       PROVE  /\ r.at \in DOMAIN t.funcs[r.in].code
              /\ t.funcs[r.in].code[r.at].kind = KindOf(r)
  <2>1. PICK k \in DOMAIN l.relocs : r = l.relocs[k]
    BY DEF Range
  <2>2. r \in MoveSet
    BY <1>6, <2>1 DEF LinkSet
  <2>3. r.in \in PlacedFuncs(c) /\ r.at \in DOMAIN c.funcs[r.in].code
        /\ MoveRight(c, l, r, c.funcs[r.in].code[r.at])
    BY <1>6, <2>1 DEF PlacedRight
  <2>4. r.in # 0 /\ r.in \in Within(c)
    BY <2>3 DEF PlacedFuncs
  <2>5. CodeOf(c, r.in) = c.funcs[r.in].code /\ CodeOf(t, r.in) = t.funcs[r.in].code
    BY <2>4 DEF CodeOf
  <2>6. r.at \in DOMAIN t.funcs[r.in].code
        /\ t.funcs[r.in].code[r.at].kind = c.funcs[r.in].code[r.at].kind
    BY <1>4, <2>3, <2>4, <2>5 DEF Alike
  <2>7. r.kind \in {"func", "extern", "data", "table"}
    BY <2>2 DEF MoveSet
  <2>8. c.funcs[r.in].code[r.at].kind = KindOf(r)
    BY <2>3, <2>7 DEF MoveRight, KindOf
  <2>9. QED
    BY <2>6, <2>8
<1>11. MovesTyped'
  BY <1>1, <1>3, <1>10 DEF MovesTyped
<1>12. QED
  BY <1>1, <1>3, <1>4, <1>7, <1>8, <1>9, <1>11 DEF Landed

(* A relocation that does not resolve is a call of a routine that no object *)
(* given exports.                                                           *)
LEMMA UnresolvedJust ==
  ASSUME LinkOK(c, l), Waiting = {}, Needed = {}, ObjectsRight,
         NEW k \in DOMAIN l.relocs, ~Resolves(l.relocs[k])
  PROVE  \E u \in Range(l.placed) :
           \E g \in Range(objects[u].bodies) : \E s \in Range(g.code) :
             /\ s.kind = "func" /\ s.means[1] \in Units \ {u}
             /\ \/ s.means[1] \notin Range(l.args)
                \/ \A e \in Range(objects[s.means[1]].exports) : e.name # s.means[2]
<1>1. l \in LinkSet /\ PlacedRight(c, l) /\ UnitsRight(c, l)
  BY DEF LinkOK
<1>2. PICK r \in MoveSet : r = l.relocs[k]
  BY <1>1 DEF LinkSet
<1>3. r.kind = "extern" /\ SymsOf(r) = {}
  BY <1>2 DEF Resolves
<1>4. PICK i : i = r.in
  OBVIOUS
<1>5. PICK site : site = c.funcs[i].code[r.at]
  OBVIOUS
<1>6. /\ i \in PlacedFuncs(c) /\ c.funcs[i].unit = r.obj /\ r.at \in DOMAIN c.funcs[i].code
      /\ MoveRight(c, l, r, site)
  BY <1>1, <1>2, <1>4, <1>5 DEF PlacedRight
<1>7. PICK u : u = r.obj
  OBVIOUS
<1>8. PICK o : o = objects[u]
  OBVIOUS
<1>9. u \in Units /\ u \in Range(l.placed) /\ ObjectOK(u, o)
      /\ \E j \in DOMAIN o.bodies : c.funcs[i].code = o.bodies[j].code
  BY <1>6, <1>7, <1>8, PlacedFrom
<1>10. PICK j \in DOMAIN o.bodies : c.funcs[i].code = o.bodies[j].code
  BY <1>9
<1>11. o.bodies[j] \in Range(o.bodies) /\ site \in Range(o.bodies[j].code)
  BY <1>5, <1>6, <1>10 DEF Range
<1>12. PICK e : e = Extern(r)
  OBVIOUS
<1>13. site.kind = "func" /\ ExternMeans(l.externs[u], r.value + 1, site.means)
  BY <1>3, <1>6, <1>7 DEF MoveRight
<1>14. site.means = <<e.unit, e.name>> /\ r.value + 1 \in DOMAIN l.externs[u]
       /\ e = l.externs[u][r.value + 1]
  BY <1>7, <1>12, <1>13 DEF ExternMeans, Extern
<1>15. site.means[1] = e.unit /\ site.means[2] = e.name
  BY <1>14
<1>16. l.externs[u] = o.externs
  BY <1>1, <1>8, <1>9 DEF UnitsRight
<1>17. e.unit # u
  BY <1>9, <1>14, <1>16 DEF ObjectOK
<1>18. e.unit \in Units
  <2>1. o.externs \in Seq(SymbolSet)
    BY <1>9 DEF ObjectOK, ObjectSet
  <2>2. e \in SymbolSet
    BY <1>14, <1>16, <2>1
  <2>3. QED
    BY <2>2 DEF SymbolSet
<1>19. ASSUME e.unit \in Range(l.args), NEW x \in Range(objects[e.unit].exports), x.name = e.name
       PROVE  FALSE
  <2>1. e.unit \in l.linked
    BY <1>9, <1>14, <1>19 DEF Needed
  <2>2. e.unit \in Range(l.placed)
    BY <2>1, LinkedPlaced
  <2>3. PICK n \in DOMAIN objects[e.unit].exports : x = objects[e.unit].exports[n]
    BY DEF Range
  <2>4. PICK y \in DOMAIN l.syms : l.syms[y].unit = e.unit /\ l.syms[y].name = e.name
    BY <1>1, <1>19, <2>2, <2>3 DEF UnitsRight
  <2>5. y \in SymsOf(r)
    BY <1>12, <2>4 DEF SymsOf
  <2>6. QED
    BY <1>3, <2>5
<1>20. \/ site.means[1] \notin Range(l.args)
       \/ \A x \in Range(objects[site.means[1]].exports) : x.name # site.means[2]
  BY <1>15, <1>19
<1>21. site.means[1] \in Units \ {u}
  BY <1>15, <1>17, <1>18
<1>22. QED
  BY <1>8, <1>9, <1>11, <1>13, <1>20, <1>21

(* ObjectsRight looks at the objects alone.                                 *)
LEMMA ObjectsStay ==
  ASSUME ObjectsRight, objects' = objects
  PROVE  ObjectsRight'
BY DEF ObjectsRight

(* A link that is refused for one of the reasons of ErrorsJust.             *)
LEMMA ErrorKeeps ==
  ASSUME LinkOK(c, l), ObjectsRight, phase' = "error", c' = c, l' = l, objects' = objects,
         NEW u \in Reached[Cardinality(Units)],
         \/ ~ IsPrefix(objects[u].imports, c.imports)
         \/ Len(c.funcs) + Len(objects[u].bodies) > MaxFuncs
         \/ \E g \in Range(objects[u].bodies) : \E s \in Range(g.code) :
              /\ s.kind = "func" /\ s.means[1] \in Units \ {u}
              /\ \/ s.means[1] \notin Range(l.args)
                 \/ \A e \in Range(objects[s.means[1]].exports) : e.name # s.means[2]
  PROVE  IInv'
<1>1. Linking'
  <2>1. LinkOK(c, l)'
    BY LinkStays
  <2>2. QED
    BY <2>1, ObjectsStay DEF Linking
<1>2. NumbersLand'
  BY <1>1, LinkingNumbers, PTL
<1>3. Reached' = Reached
  BY ReachedSame
<1>4. ErrorsJust'
  BY ZenonT(60), <1>3 DEF ErrorsJust
<1>5. PlacedAsNeeded'
  BY DEF PlacedAsNeeded
<1>6. QED
  BY <1>2, <1>4, <1>5, ObjectsStay DEF IInv, ObjectsJust

(* Patch keeps the invariant.                                               *)
LEMMA PatchKeeps ==
  ASSUME IInv, Patch
  PROVE  IInv'
<1>1. /\ phase = "patch" /\ ObjectsRight /\ LinkOK(c, l) /\ OnlyNeeded
      /\ Waiting = {} /\ Needed = {}
  BY DEF IInv, Patch
<1>2. l' = l /\ objects' = objects
  BY DEF Patch
<1>3. /\ Range(l.placed) = Reached[Cardinality(Units)]
      /\ Len(l.placed) = Cardinality(Range(l.placed))
  BY <1>1, PlacedIsReached
<1>4. CASE \A k \in DOMAIN l.relocs : Resolves(l.relocs[k])
  <2>1. Landed' /\ Alike(c, c')
    BY <1>1, <1>4, PatchLands
  <2>2. NumbersLand'
    BY <2>1, LandedNumbers, PTL
  <2>3. phase' = "done"
    BY <1>4 DEF Patch
  <2>4. Reached' = Reached
    BY <1>2, <2>1, ReachedSame DEF Alike
  <2>5. PlacedAsNeeded'
    BY <1>2, <1>3, <2>4 DEF PlacedAsNeeded
  <2>6. ErrorsJust'
    BY <2>3 DEF ErrorsJust
  <2>7. QED
    BY <1>1, <1>2, <2>2, <2>3, <2>5, <2>6, ObjectsStay DEF IInv, ObjectsJust
<1>5. CASE ~ \A k \in DOMAIN l.relocs : Resolves(l.relocs[k])
  <2>1. phase' = "error" /\ c' = c
    BY <1>5 DEF Patch
  <2>2. PICK k \in DOMAIN l.relocs : ~Resolves(l.relocs[k])
    BY <1>5
  <2>3. PICK u \in Range(l.placed) :
           \E g \in Range(objects[u].bodies) : \E s \in Range(g.code) :
             /\ s.kind = "func" /\ s.means[1] \in Units \ {u}
             /\ \/ s.means[1] \notin Range(l.args)
                \/ \A e \in Range(objects[s.means[1]].exports) : e.name # s.means[2]
    BY <1>1, <2>2, UnresolvedJust
  <2>4. QED
    BY <1>1, <1>2, <1>3, <2>1, <2>3, ErrorKeeps
<1>6. QED
  BY <1>4, <1>5

(* More objects to link.                                                    *)
LEMMA LinkNeededKeeps ==
  ASSUME IInv, LinkNeeded
  PROVE  IInv'
<1>1. /\ phase = "link" /\ ObjectsRight /\ LinkOK(c, l) /\ OnlyNeeded /\ Waiting = {}
      /\ c' = c /\ objects' = objects
  BY DEF IInv, LinkNeeded
<1>2. CASE Needed # {}
  <2>1. phase' = "link" /\ l' = [l EXCEPT !.linked = l.linked \cup Needed]
    BY <1>1, <1>2 DEF LinkNeeded
  <2>2. l \in LinkSet /\ UnitsRight(c, l) /\ GivenRight(c, l) /\ PlacedRight(c, l)
    BY <1>1 DEF LinkOK
  <2>3. Needed \subseteq Range(l.args) /\ l.args \in Seq(Units) /\ l.linked \in SUBSET Units
    BY <2>2 DEF Needed, LinkSet
  <2>4. Needed \in SUBSET Units
    BY <2>3, RangeFacts
  <2>5. l' \in LinkSet
    <3>1. PICK x \in SUBSET Units : x = l.linked \cup Needed
      BY <2>3, <2>4
    <3>2. QED
      BY <2>1, <2>2, <3>1 DEF LinkSet
  <2>6. /\ l'.args = l.args /\ l'.linked = l.linked \cup Needed /\ l'.placed = l.placed
        /\ l'.base = l.base /\ l'.externs = l.externs /\ l'.syms = l.syms
        /\ l'.relocs = l.relocs
    BY <2>1, <2>2 DEF LinkSet
  <2>7. UnitsRight(c, l')
    BY <2>2, <2>3, <2>6 DEF UnitsRight
  <2>8. GivenRight(c, l')
    BY SMTT(30), <2>2, <2>6 DEF GivenRight
  <2>9. PlacedRight(c, l')
    <3>1. \A r, site : MoveRight(c, l', r, site) <=> MoveRight(c, l, r, site)
      BY <2>6 DEF MoveRight
    <3>2. QED
      BY <2>2, <2>6, <3>1 DEF PlacedRight
  <2>10. LinkOK(c, l')
    BY <1>1, <2>5, <2>7, <2>8, <2>9 DEF LinkOK
  <2>11. LinkOK(c, l)'
    BY <1>1, <2>10, LinkStays
  <2>12. Needed \subseteq Reached[Cardinality(Units)]
    <3>1. PICK us \in SUBSET Units : us = Range(c.uses)
      <4>1. c.uses \in Seq(Units)
        BY <1>1 DEF LinkOK, FileSet
      <4>2. QED
        BY <4>1, RangeFacts
    <3>2. PICK W : W = Reached[Cardinality(Units)]
      OBVIOUS
    <3>3. W = Reach(l.args, objects, us)[Cardinality(Units)]
      BY <3>1, <3>2, ReachedIsReach
    <3>4. Closed(l.args, objects, W)
      BY <2>3, <3>3, ReachCloses
    <3>5. Range(l.placed) \subseteq W
      BY <1>1, <2>2, <3>2 DEF OnlyNeeded, UnitsRight
    <3>6. ASSUME NEW u \in Needed PROVE u \in W
      <4>1. PICK v \in Range(l.placed) : \E k \in DOMAIN l.externs[v] : l.externs[v][k].unit = u
        BY DEF Needed
      <4>2. l.externs[v] = objects[v].externs
        BY <2>2 DEF UnitsRight
      <4>3. \E e \in Range(objects[v].externs) : e.unit = u
        BY <4>1, <4>2 DEF Range
      <4>4. u \in UsesIn(l.args, objects, W)
        BY <2>3, <3>5, <4>3 DEF UsesIn
      <4>5. QED
        BY <3>4, <4>4 DEF Closed
    <3>7. QED
      BY <3>2, <3>6
  <2>13. Reached' = Reached
    BY <1>1, <2>6, ReachedSame
  <2>14. OnlyNeeded'
    BY <1>1, <2>6, <2>12, <2>13 DEF OnlyNeeded
  <2>15. QED
    BY <1>1, <2>1, <2>11, <2>14, ObjectsStay DEF IInv
<1>3. CASE Needed = {}
  <2>1. phase' = "patch" /\ l' = l
    BY <1>1, <1>3 DEF LinkNeeded
  <2>2. LinkOK(c, l)'
    BY <1>1, <2>1, LinkStays
  <2>3. Reached' = Reached
    BY <1>1, <2>1, ReachedSame
  <2>4. OnlyNeeded'
    BY <1>1, <2>1, <2>3 DEF OnlyNeeded
  <2>5. Waiting' = {} /\ Needed' = {}
    BY <1>1, <1>3, <2>1 DEF Waiting, Needed
  <2>6. QED
    BY <1>1, <2>1, <2>2, <2>4, <2>5, ObjectsStay DEF IInv
<1>4. QED
  BY <1>2, <1>3

-----------------------------------------------------------------------------
(* A program that is read is a program whose linking begins.                *)
LEMMA BeginLinkKeeps ==
  ASSUME Constructs = {}, IInv, BeginLink
  PROVE  IInv'
<1>1. /\ phase = "compile" /\ FileOK(c) /\ ObjectsRight /\ BeforeLink(c, l)
      /\ c.unit = Program /\ SameImports /\ AllDefined
      /\ phase' = "link" /\ c' = c /\ l' = l /\ objects' = objects
  BY DEF IInv, BeginLink, Finished
<1>2. PICK args \in Seq(Units) :
         /\ l = [NoLink EXCEPT !.args = args, !.linked = Range(c.uses)]
         /\ Range(c.uses) \subseteq Range(args) /\ Range(args) \subseteq Compiled
  BY ZenonT(60), <1>1 DEF BeforeLink
<1>3. c \in FileSet
  BY <1>1 DEF FileOK
<1>4. c.uses \in Seq(Units) /\ Range(c.uses) \in SUBSET Units
  BY <1>3, RangeFacts DEF FileSet
<1>5. l \in LinkSet
  <2>1. [u \in Units |-> 0] \in [Units -> Nat]
    OBVIOUS
  <2>2. [u \in Units |-> <<>>] \in [Units -> Seq(SymbolSet)]
    OBVIOUS
  <2>3. PICK us \in SUBSET Units : us = Range(c.uses)
    BY <1>4
  <2>4. l = [args |-> args, linked |-> us, placed |-> <<>>,
             base |-> [u \in Units |-> 0], externs |-> [u \in Units |-> <<>>],
             syms |-> <<>>, relocs |-> <<>>]
    BY <1>2, <2>3 DEF NoLink
  <2>5. QED
    BY <2>1, <2>2, <2>4 DEF LinkSet
<1>6. /\ l.args = args /\ l.linked = Range(c.uses) /\ l.placed = <<>>
      /\ l.syms = <<>> /\ l.relocs = <<>>
  BY <1>2 DEF NoLink
<1>7. /\ Bodied = InMod(c.funcs) /\ Bodied = Within(c) \ {0}
      /\ \A i \in Bodied : c.funcs[i].unit = Program /\ c.funcs[i].mark = "body"
  BY <1>1, BodiedFacts
<1>8. OwnPlaces(c) = Within(c)
  BY <1>7 DEF OwnPlaces
<1>9. OwnRight(c)
  <2>1. SitesRight(c) /\ Recorded(c)
    BY <1>1 DEF FileOK
  <2>2. QED
    BY <1>8, <2>1 DEF OwnRight, SitesRight, Recorded
<1>10. PlacedFuncs(c) = {}
  BY <1>7, LinkerConstants DEF PlacedFuncs
<1>11. PlacedRight(c, l)
  BY <1>6, <1>10 DEF PlacedRight
<1>12. Range(l.placed) = {}
  BY <1>6 DEF Range
<1>13. UnitsRight(c, l)
  BY <1>2, <1>6, <1>12 DEF UnitsRight
<1>14. GivenRight(c, l)
  BY <1>1, <1>2, <1>6 DEF GivenRight, SameImports, Compiled
<1>15. LinkOK(c, l)
  BY <1>1, <1>3, <1>5, <1>7, <1>9, <1>11, <1>13, <1>14 DEF LinkOK, FileOK
<1>16. LinkOK(c, l)'
  BY <1>1, <1>15, LinkStays
<1>17. Range(c.uses) \subseteq Reached[Cardinality(Units)]
  <2>1. PICK us \in SUBSET Units : us = Range(c.uses)
    BY <1>4
  <2>2. us \subseteq Reach(l.args, objects, us)[Cardinality(Units)]
    BY <1>6, ReachCloses
  <2>3. QED
    BY <2>1, <2>2, ReachedIsReach
<1>18. Reached' = Reached
  BY <1>1, ReachedSame
<1>19. OnlyNeeded'
  BY <1>1, <1>6, <1>17, <1>18 DEF OnlyNeeded
<1>20. QED
  BY <1>1, <1>16, <1>19, ObjectsStay DEF IInv

-----------------------------------------------------------------------------
(* The linker takes the objects in the order of the command line.           *)
LEMMA NextWaiting ==
  ASSUME LinkOK(c, l), ObjectsRight, Waiting # {}
  PROVE  LET u == l.args[Min(Waiting)]
         IN  /\ u \in Units /\ u \in l.linked /\ u \notin Range(l.placed)
             /\ ObjectOK(u, objects[u])
             /\ Len(objects[u].imports) >= Len(c.imports)
<1>1. l \in LinkSet /\ GivenRight(c, l)
  BY DEF LinkOK
<1>2. l.args \in Seq(Units)
  BY <1>1 DEF LinkSet
<1>3. Waiting \in SUBSET Nat
  BY <1>2 DEF Waiting
<1>4. \E x \in Waiting : \A y \in Waiting : x <= y
  BY <1>3, Least
<1>5. Min(Waiting) \in Waiting
  BY <1>4 DEF Min
<1>6. PICK k : k = Min(Waiting)
  OBVIOUS
<1>7. k \in DOMAIN l.args /\ l.args[k] \in l.linked /\ l.args[k] \notin Range(l.placed)
  BY <1>5, <1>6 DEF Waiting
<1>8. l.args[k] \in Units /\ l.args[k] \in Range(l.args)
  BY <1>2, <1>7, RangeFacts
<1>9. objects[l.args[k]] # NoObject /\ Len(objects[l.args[k]].imports) >= Len(c.imports)
  BY <1>1, <1>8 DEF GivenRight
<1>10. ObjectOK(l.args[k], objects[l.args[k]])
  BY <1>8, <1>9 DEF ObjectsRight
<1>11. QED
  BY <1>6, <1>7, <1>8, <1>9, <1>10

(* An object that has at least the imports of the program, and only those,  *)
(* has the same.                                                            *)
LEMMA ImportsSame ==
  ASSUME NEW S, NEW a \in Seq(S), NEW b \in Seq(S), IsPrefix(a, b), Len(a) >= Len(b)
  PROVE  a = b
<1>1. PICK n \in Nat : n = Len(a)
  OBVIOUS
<1>2. n = Len(b) /\ SubSeq(a, 1, n) = SubSeq(b, 1, n)
  BY <1>1 DEF IsPrefix
<1>3. SubSeq(a, 1, Len(a)) = a /\ SubSeq(b, 1, Len(b)) = b
  BY SubSeqFull
<1>4. QED
  BY <1>1, <1>2, <1>3

(* The program c' with the object o of the unit u behind it.                *)
Arrived(o) == [k \in DOMAIN o.bodies |-> [o.bodies[k] EXCEPT !.index = FuncBase + k - 1]]
Slots(o) == [k \in DOMAIN o.table |-> Rebased(o.table[k])]

Joined(u, o) ==
  /\ c' \in FileSet
  /\ c'.unit = c.unit /\ c'.uses = c.uses /\ c'.imports = c.imports /\ c'.externs = c.externs
  /\ c'.start = c.start /\ c'.relocs = c.relocs
  /\ c'.slots = c.slots + Len(o.bodies)
  /\ c'.funcs = c.funcs \o Arrived(o) /\ Arrived(o) \in Seq(FuncSet)
  /\ Len(c'.funcs) = Len(c.funcs) + Len(o.bodies) /\ Len(Arrived(o)) = Len(o.bodies)
  /\ Begins(c.funcs, c'.funcs) /\ Begins(c.data, c'.data) /\ Begins(c.table, c'.table)
  /\ (\A j \in DOMAIN o.bodies :
        /\ Arrived(o)[j].unit = u /\ Arrived(o)[j].name = o.bodies[j].name
        /\ Arrived(o)[j].mark = "body" /\ Arrived(o)[j].index = FuncBase + j - 1
        /\ Arrived(o)[j].code = o.bodies[j].code
        /\ Len(c.funcs) + j \in DOMAIN c'.funcs
        /\ c'.funcs[Len(c.funcs) + j] = Arrived(o)[j])
  /\ (\A i \in DOMAIN c'.funcs : i \in DOMAIN c.funcs \/ i - Len(c.funcs) \in DOMAIN o.bodies)
  /\ (\A k \in DOMAIN o.data :
        /\ Len(c.data) + Len(DataPadding) + k \in DOMAIN c'.data
        /\ c'.data[Len(c.data) + Len(DataPadding) + k] = o.data[k])
  /\ (\A k \in DOMAIN o.table :
        /\ Len(c.table) + k \in DOMAIN c'.table
        /\ c'.table[Len(c.table) + k] = Rebased(o.table[k]))
  /\ (\A k \in DOMAIN c'.table : k \in DOMAIN c.table \/ k - Len(c.table) \in DOMAIN o.table)

(* Where the routines of an object go.                                      *)
LEMMA Bases ==
  ASSUME c \in FileSet, Numbered(c)
  PROVE  /\ FuncBase \in Nat /\ FuncBase = FirstUser(c) + Cardinality(InMod(c.funcs))
         /\ FirstUser(c) \in Nat /\ FirstUser(c) = Len(c.imports) + HelperSlots
         /\ Len(c.imports) \in Nat /\ Len(c.funcs) \in Nat /\ Len(c.table) \in Nat
         /\ Len(c.data) \in Nat
<1>1. c.funcs \in Seq(FuncSet) /\ c.imports \in Seq(Imported) /\ c.slots \in Nat
      /\ c.table \in Seq(Nat) /\ c.data \in Seq(Meanings)
  BY DEF FileSet
<1>2. Cardinality(InMod(c.funcs)) \in Nat /\ Len(c.imports) \in Nat
  BY <1>1, InModPlaces
<1>3. c.slots = HelperSlots + Cardinality(InMod(c.funcs))
  BY DEF Numbered
<1>4. FuncBase = Len(c.imports) + c.slots /\ FirstUser(c) = Len(c.imports) + HelperSlots
  BY DEF FuncBase, FirstUser
<1>5. PICK n \in Nat, i \in Nat, h \in Nat :
         n = Cardinality(InMod(c.funcs)) /\ i = Len(c.imports) /\ h = HelperSlots
  BY <1>2, Limits
<1>6. FuncBase = i + (h + n) /\ FirstUser(c) = i + h
  BY <1>3, <1>4, <1>5
<1>7. FuncBase \in Nat /\ FirstUser(c) \in Nat /\ FuncBase = FirstUser(c) + n
  BY <1>6
<1>8. Len(c.funcs) \in Nat /\ Len(c.table) \in Nat /\ Len(c.data) \in Nat
  BY <1>1
<1>9. QED
  BY <1>2, <1>4, <1>5, <1>7, <1>8

(* The bytes between the data of two objects.                               *)
LEMMA PaddingFacts ==
  ASSUME Len(c.data) \in Nat
  PROVE  /\ DataPadding \in Seq(Meanings) /\ Len(DataPadding) = Zeros(c, 4)
         /\ Len(DataPadding) \in Nat
<1>1. PICK n \in Nat : n = Zeros(c, 4)
  BY ZerosFacts
<1>2. DataPadding = [k \in 1 .. n |-> <<"padding", 0>>]
  BY <1>1 DEF DataPadding
<1>3. <<"padding", 0>> \in Meanings
  BY DEF Meanings, Words
<1>4. PICK q : q = DataPadding
  OBVIOUS
<1>5. q \in [1 .. n -> Meanings]
  BY <1>2, <1>3, <1>4
<1>6. q \in Seq(Meanings) /\ Len(q) = n
  BY <1>5
<1>7. QED
  BY <1>1, <1>4, <1>6

(* An object that is right is an object.                                    *)
LEMMA ObjectTyped ==
  ASSUME NEW u, NEW o, ObjectOK(u, o)
  PROVE  o \in ObjectSet
BY DEF ObjectOK

(* The bodies of an object as they are placed,                              *)
LEMMA ArrivedFacts ==
  ASSUME c \in FileSet, Numbered(c), NEW u, NEW o, ObjectOK(u, o)
  PROVE  /\ Arrived(o) \in Seq(FuncSet) /\ Len(Arrived(o)) = Len(o.bodies)
         /\ DOMAIN Arrived(o) = DOMAIN o.bodies
         /\ \A j \in DOMAIN o.bodies :
              /\ Arrived(o)[j].unit = u /\ Arrived(o)[j].name = o.bodies[j].name
              /\ Arrived(o)[j].mark = "body" /\ Arrived(o)[j].index = FuncBase + j - 1
              /\ Arrived(o)[j].code = o.bodies[j].code
<1>1. o.bodies \in Seq(FuncSet)
  BY DEF ObjectOK, ObjectSet
<1>2. PICK n \in Nat : n = Len(o.bodies) /\ DOMAIN o.bodies = 1 .. n
  BY <1>1
<1>3. PICK q : q = Arrived(o)
  OBVIOUS
<1>4. q = [k \in 1 .. n |-> [o.bodies[k] EXCEPT !.index = FuncBase + k - 1]]
  BY <1>2, <1>3 DEF Arrived
<1>5. ASSUME NEW j \in 1 .. n
      PROVE  /\ q[j] \in FuncSet /\ q[j].name = o.bodies[j].name /\ q[j].index = FuncBase + j - 1
             /\ q[j].code = o.bodies[j].code /\ q[j].unit = u /\ q[j].mark = "body"
  <2>1. PICK z \in Nat : z = FuncBase + j - 1
    BY Bases
  <2>2. PICK g \in FuncSet : g = o.bodies[j]
    BY <1>1, <1>2
  <2>3. q[j] = [g EXCEPT !.index = z]
    BY <1>4, <2>1, <2>2
  <2>4. g.unit = u /\ g.mark = "body"
    BY <1>2, <2>2 DEF ObjectOK
  <2>5. [g EXCEPT !.index = z] \in FuncSet
    BY <2>1, <2>2 DEF FuncSet
  <2>6. /\ [g EXCEPT !.index = z].name = g.name /\ [g EXCEPT !.index = z].index = z
        /\ [g EXCEPT !.index = z].code = g.code /\ [g EXCEPT !.index = z].unit = g.unit
        /\ [g EXCEPT !.index = z].mark = g.mark
    BY <2>2 DEF FuncSet
  <2>7. QED
    BY <2>1, <2>2, <2>3, <2>4, <2>5, <2>6
<1>6. q \in [1 .. n -> FuncSet]
  BY <1>4, <1>5
<1>7. q \in Seq(FuncSet) /\ Len(q) = n /\ DOMAIN q = 1 .. n
  BY <1>4, <1>6
<1>8. QED
  BY <1>2, <1>3, <1>5, <1>7

(* What is behind a routine of the object, in the program.                  *)
LEMMA RebasedFacts ==
  ASSUME c \in FileSet, Numbered(c), NEW u, NEW o, ObjectOK(u, o), o.imports = c.imports,
         NEW g \in InMod(o.bodies)
  PROVE  /\ g \in DOMAIN o.bodies /\ g \in Nat /\ o.bodies[g].index \in Nat
         /\ FirstUser(c) <= o.bodies[g].index
         /\ Rebased(o.bodies[g].index) = FuncBase + g - 1
         /\ Rebased(o.bodies[g].index) \in Nat /\ o.bodies[g].unit = u
<1>1. o.bodies \in Seq(FuncSet)
  BY DEF ObjectOK, ObjectSet
<1>2. g \in DOMAIN o.bodies
  BY DEF InMod
<1>3. g \in Nat /\ g >= 1
  BY <1>1, <1>2
<1>4. o.bodies[g].index = FirstUser(o) + g - 1 /\ o.bodies[g].unit = u
  BY <1>2 DEF ObjectOK
<1>5. FirstUser(o) = FirstUser(c)
  BY DEF FirstUser
<1>6. PICK x \in Nat, y \in Nat : x = FirstUser(c) /\ y = FuncBase
  BY Bases
<1>7. PICK z : z = o.bodies[g].index
  OBVIOUS
<1>8. z = x + g - 1
  BY <1>4, <1>5, <1>6, <1>7
<1>9. Rebased(z) = y + (z - x)
  BY <1>6 DEF Rebased
<1>10. y + (z - x) = y + g - 1 /\ z \in Nat /\ x <= z /\ y + g - 1 \in Nat
  BY <1>3, <1>6, <1>8
<1>11. QED
  BY <1>2, <1>3, <1>4, <1>6, <1>7, <1>9, <1>10

(* and its table slots.                                                     *)
LEMMA SlotsFacts ==
  ASSUME c \in FileSet, Numbered(c), NEW u, NEW o, ObjectOK(u, o), o.imports = c.imports
  PROVE  /\ Slots(o) \in Seq(Nat) /\ Len(Slots(o)) = Len(o.table)
         /\ DOMAIN Slots(o) = DOMAIN o.table
         /\ \A k \in DOMAIN o.table :
              /\ Slots(o)[k] = Rebased(o.table[k])
              /\ \E g \in InMod(o.bodies) : o.bodies[g].index = o.table[k]
<1>1. o.table \in Seq(Nat)
  BY DEF ObjectOK, ObjectSet
<1>2. PICK n \in Nat : n = Len(o.table) /\ DOMAIN o.table = 1 .. n
  BY <1>1
<1>3. PICK q : q = Slots(o)
  OBVIOUS
<1>4. q = [k \in 1 .. n |-> Rebased(o.table[k])]
  BY <1>2, <1>3 DEF Slots
<1>5. AsFile(o).table = o.table /\ AsFile(o).funcs = o.bodies
  BY DEF AsFile
<1>6. \A k \in DOMAIN o.table : \E g \in InMod(o.bodies) : o.bodies[g].index = o.table[k]
  BY <1>5 DEF ObjectOK, TableFilled
<1>7. \A k \in 1 .. n : Rebased(o.table[k]) \in Nat
  BY <1>2, <1>6, RebasedFacts
<1>8. q \in [1 .. n -> Nat]
  BY <1>4, <1>7
<1>9. q \in Seq(Nat) /\ Len(q) = n /\ DOMAIN q = 1 .. n
  BY <1>8
<1>10. QED
  BY <1>2, <1>3, <1>4, <1>6, <1>9

(* t is b behind a.                                                         *)
Behind(a, b, t) ==
  /\ Len(t) = Len(a) + Len(b) /\ Begins(a, t)
  /\ \A k \in DOMAIN b : Len(a) + k \in DOMAIN t /\ t[Len(a) + k] = b[k]
  /\ \A k \in DOMAIN t : k \in DOMAIN a \/ k - Len(a) \in DOMAIN b

(* What is joined is behind.                                                *)
LEMMA JoinBehind ==
  ASSUME NEW S, NEW a, NEW b, a \in Seq(S), b \in Seq(S)
  PROVE  a \o b \in Seq(S) /\ Behind(a, b, a \o b)
<1>1. a \o b \in Seq(S) /\ Len(a \o b) = Len(a) + Len(b) /\ Begins(a, a \o b)
  BY JoinFacts
<1>2. \A k \in DOMAIN b : Len(a) + k \in DOMAIN (a \o b) /\ (a \o b)[Len(a) + k] = b[k]
  BY JoinFacts
<1>3. \A k \in DOMAIN (a \o b) : k \in DOMAIN a \/ k - Len(a) \in DOMAIN b
  BY JoinFacts
<1>4. QED
  BY <1>1, <1>2, <1>3 DEF Behind

(* Place puts everything of an object behind what there is.                 *)
LEMMA PlaceJoins ==
  ASSUME c \in FileSet, Numbered(c), NEW u \in Units, ObjectOK(u, objects[u]),
         objects[u].imports = c.imports, Place(u)
  PROVE  Joined(u, objects[u])
<1>1. PICK o : o = objects[u]
  BY SMTT(30)
<1>2. /\ ObjectOK(u, o) /\ o \in ObjectSet /\ o.imports = c.imports
      /\ o.bodies \in Seq(FuncSet) /\ o.data \in Seq(Meanings) /\ o.table \in Seq(Nat)
  <2>1. ObjectOK(u, o) /\ o.imports = c.imports
    BY <1>1
  <2>2. o \in ObjectSet
    BY <2>1, ObjectTyped
  <2>3. QED
    BY <2>1, <2>2 DEF ObjectSet
<1>3. /\ c.funcs \in Seq(FuncSet) /\ c.data \in Seq(Meanings) /\ c.table \in Seq(Nat)
      /\ c.slots \in Nat
  BY SMTT(30) DEF FileSet
<1>4. c' = [c EXCEPT !.funcs = c.funcs \o Arrived(o), !.slots = c.slots + Len(o.bodies),
                     !.data = c.data \o DataPadding \o o.data,
                     !.table = c.table \o Slots(o)]
  BY <1>1 DEF Place, Arrived, Slots
<1>5. /\ Arrived(o) \in Seq(FuncSet) /\ Len(Arrived(o)) = Len(o.bodies)
      /\ DOMAIN Arrived(o) = DOMAIN o.bodies
  BY <1>2, ArrivedFacts
<1>6. Slots(o) \in Seq(Nat) /\ Len(Slots(o)) = Len(o.table) /\ DOMAIN Slots(o) = DOMAIN o.table
  BY <1>2, SlotsFacts
<1>7. DataPadding \in Seq(Meanings) /\ Len(DataPadding) \in Nat
  BY <1>3, PaddingFacts
<1>8. PICK fs \in Seq(FuncSet) : fs = c.funcs \o Arrived(o) /\ Behind(c.funcs, Arrived(o), fs)
  BY <1>3, <1>5, JoinBehind
<1>9. PICK z \in Nat : z = c.slots + Len(o.bodies)
  BY <1>2, <1>3
<1>10. PICK p \in Seq(Meanings) : p = c.data \o DataPadding /\ Behind(c.data, DataPadding, p)
  BY <1>3, <1>7, JoinBehind
<1>11. PICK d \in Seq(Meanings) : d = p \o o.data /\ Behind(p, o.data, d)
  BY <1>2, <1>10, JoinBehind
<1>12. PICK tb \in Seq(Nat) : tb = c.table \o Slots(o) /\ Behind(c.table, Slots(o), tb)
  BY <1>3, <1>6, JoinBehind
<1>13. c' = [c EXCEPT !.funcs = fs, !.slots = z, !.data = d, !.table = tb]
  BY <1>4, <1>8, <1>9, <1>10, <1>11, <1>12
<1>14. c' \in FileSet
  BY <1>13 DEF FileSet
<1>15. c'.funcs = fs /\ c'.slots = z /\ c'.data = d /\ c'.table = tb
  BY <1>13 DEF FileSet
<1>16. /\ c'.unit = c.unit /\ c'.uses = c.uses /\ c'.imports = c.imports
       /\ c'.externs = c.externs /\ c'.start = c.start /\ c'.relocs = c.relocs
  BY <1>13 DEF FileSet
<1>17. /\ Len(fs) = Len(c.funcs) + Len(Arrived(o)) /\ Begins(c.funcs, fs)
       /\ (\A k \in DOMAIN Arrived(o) : /\ Len(c.funcs) + k \in DOMAIN fs
                                        /\ fs[Len(c.funcs) + k] = Arrived(o)[k])
       /\ \A k \in DOMAIN fs : k \in DOMAIN c.funcs \/ k - Len(c.funcs) \in DOMAIN Arrived(o)
  BY <1>8 DEF Behind
<1>18. /\ Begins(c.table, tb)
       /\ (\A k \in DOMAIN Slots(o) : /\ Len(c.table) + k \in DOMAIN tb
                                      /\ tb[Len(c.table) + k] = Slots(o)[k])
       /\ \A k \in DOMAIN tb : k \in DOMAIN c.table \/ k - Len(c.table) \in DOMAIN Slots(o)
  BY <1>12 DEF Behind
<1>19. Len(p) = Len(c.data) + Len(DataPadding) /\ Begins(c.data, p)
  BY <1>10 DEF Behind
<1>20. /\ Begins(p, d)
       /\ \A k \in DOMAIN o.data : Len(p) + k \in DOMAIN d /\ d[Len(p) + k] = o.data[k]
  BY <1>11 DEF Behind
<1>21. Begins(c.data, d)
  BY <1>19, <1>20 DEF Begins
<1>22. \A k \in DOMAIN o.table : Slots(o)[k] = Rebased(o.table[k])
  BY <1>2, SlotsFacts
<1>23. \A j \in DOMAIN o.bodies :
         /\ Arrived(o)[j].unit = u /\ Arrived(o)[j].name = o.bodies[j].name
         /\ Arrived(o)[j].mark = "body" /\ Arrived(o)[j].index = FuncBase + j - 1
         /\ Arrived(o)[j].code = o.bodies[j].code
  BY <1>2, ArrivedFacts
<1>24. Joined(u, o)
  <2>1. \A k \in DOMAIN o.data :
          /\ Len(c.data) + Len(DataPadding) + k \in DOMAIN c'.data
          /\ c'.data[Len(c.data) + Len(DataPadding) + k] = o.data[k]
    BY <1>15, <1>19, <1>20
  <2>2. \A k \in DOMAIN o.table :
          Len(c.table) + k \in DOMAIN c'.table /\ c'.table[Len(c.table) + k] = Rebased(o.table[k])
    BY <1>6, <1>15, <1>18, <1>22
  <2>3. \A k \in DOMAIN c'.table : k \in DOMAIN c.table \/ k - Len(c.table) \in DOMAIN o.table
    BY <1>6, <1>15, <1>18
  <2>4. \A j \in DOMAIN o.bodies : /\ Len(c.funcs) + j \in DOMAIN c'.funcs
                                   /\ c'.funcs[Len(c.funcs) + j] = Arrived(o)[j]
    BY <1>5, <1>15, <1>17
  <2>5. \A i \in DOMAIN c'.funcs : i \in DOMAIN c.funcs \/ i - Len(c.funcs) \in DOMAIN o.bodies
    BY <1>5, <1>15, <1>17
  <2>6. /\ Len(c'.funcs) = Len(c.funcs) + Len(o.bodies) /\ c'.funcs = c.funcs \o Arrived(o)
        /\ c'.slots = c.slots + Len(o.bodies)
    BY <1>5, <1>8, <1>9, <1>15, <1>17
  <2>7. Begins(c.funcs, c'.funcs) /\ Begins(c.data, c'.data) /\ Begins(c.table, c'.table)
    BY <1>15, <1>17, <1>18, <1>21
  <2>8. QED
    BY <1>5, <1>14, <1>16, <1>23, <2>1, <2>2, <2>3, <2>4, <2>5, <2>6, <2>7 DEF Joined
<1>25. QED
  BY <1>1, <1>24

(* What the program is known for, it keeps; and the routines of the object  *)
(* are found where the linker says they are.                                *)
LEMMA JoinedGrows ==
  ASSUME c \in FileSet, Numbered(c), WithinLimits(c), TableFilled(c),
         NEW u \in Units, NEW o, ObjectOK(u, o), o.imports = c.imports, Joined(u, o),
         Len(c.funcs) + Len(o.bodies) <= MaxFuncs
  PROVE  /\ Grows(c, c') /\ Numbered(c') /\ WithinLimits(c') /\ TableFilled(c')
         /\ \A i \in InMod(c'.funcs) : \/ i \in InMod(c.funcs)
                                       \/ i - Len(c.funcs) \in DOMAIN o.bodies
         /\ \A j \in DOMAIN o.bodies :
              Routine(c'.funcs, FuncBase + j - 1, <<u, o.bodies[j].name>>)
<1>1. /\ c.funcs \in Seq(FuncSet) /\ o.bodies \in Seq(FuncSet) /\ c.imports \in Seq(Imported)
      /\ Len(o.bodies) \in Nat /\ Len(c.funcs) \in Nat
  BY SMTT(30) DEF FileSet, ObjectOK, ObjectSet
<1>2. /\ c' \in FileSet /\ c'.imports = c.imports /\ c'.slots = c.slots + Len(o.bodies)
      /\ c'.funcs = c.funcs \o Arrived(o) /\ Arrived(o) \in Seq(FuncSet)
      /\ Len(c'.funcs) = Len(c.funcs) + Len(o.bodies) /\ Len(Arrived(o)) = Len(o.bodies)
      /\ Begins(c.funcs, c'.funcs) /\ Begins(c.data, c'.data) /\ Begins(c.table, c'.table)
  BY DEF Joined
<1>3. \A j \in DOMAIN o.bodies :
        /\ Arrived(o)[j].unit = u /\ Arrived(o)[j].name = o.bodies[j].name
        /\ Arrived(o)[j].mark = "body" /\ Arrived(o)[j].index = FuncBase + j - 1
        /\ Len(c.funcs) + j \in DOMAIN c'.funcs
        /\ c'.funcs[Len(c.funcs) + j] = Arrived(o)[j]
  BY DEF Joined
<1>4. \A i \in DOMAIN c'.funcs : i \in DOMAIN c.funcs \/ i - Len(c.funcs) \in DOMAIN o.bodies
  BY DEF Joined
<1>5. FuncBase = FirstUser(c) + Cardinality(InMod(c.funcs))
  BY Bases
<1>6. Numbered(c')
  <2>1. DOMAIN Arrived(o) = DOMAIN o.bodies
    BY <1>1, <1>2
  <2>2. \A j \in DOMAIN Arrived(o) :
          /\ Arrived(o)[j].mark \in {"forward", "body"}
          /\ Arrived(o)[j].index = FirstUser(c) + Cardinality(InMod(c.funcs)) + j - 1
    BY <1>3, <1>5, <2>1
  <2>3. QED
    BY <1>2, <2>2, NumberedAppend
<1>7. \A i \in InMod(c.funcs) : i \in InMod(c'.funcs) /\ c'.funcs[i] = c.funcs[i]
  BY <1>2 DEF InMod, Begins
<1>8. Grows(c, c')
  BY <1>2, <1>7 DEF Grows, Begins
<1>9. \A i \in InMod(c'.funcs) : i \in InMod(c.funcs) \/ i - Len(c.funcs) \in DOMAIN o.bodies
  <2>1. \A i \in DOMAIN c.funcs : c'.funcs[i] = c.funcs[i]
    BY <1>2 DEF Begins
  <2>2. QED
    BY <1>4, <2>1 DEF InMod
<1>10. \A j \in DOMAIN o.bodies : Routine(c'.funcs, FuncBase + j - 1, <<u, o.bodies[j].name>>)
  <2>1. TAKE j \in DOMAIN o.bodies
  <2>2. PICK i : i = Len(c.funcs) + j
    OBVIOUS
  <2>3. i \in DOMAIN c'.funcs /\ c'.funcs[i] = Arrived(o)[j]
    BY <1>3, <2>2
  <2>4. i \in InMod(c'.funcs)
    BY <1>3, <2>3 DEF InMod
  <2>5. QED
    BY <1>3, <2>3, <2>4 DEF Routine
<1>11. WithinLimits(c')
  <2>1. Len(c.imports) <= 2 + Len(c.funcs) /\ Len(c.imports) \in Nat
    BY <1>1 DEF WithinLimits
  <2>2. PICK i \in Nat, n \in Nat, b \in Nat :
           i = Len(c.imports) /\ n = Len(c.funcs) /\ b = Len(o.bodies)
    BY <1>1, <2>1
  <2>3. i <= 2 + n /\ n + b <= MaxFuncs
    BY <2>1, <2>2
  <2>4. i <= 2 + (n + b)
    BY <2>3
  <2>5. Len(c'.funcs) = n + b /\ Len(c'.imports) = i
    BY <1>2, <2>2
  <2>6. QED
    BY <2>3, <2>4, <2>5 DEF WithinLimits
<1>12. TableFilled(c')
  <2>1. SUFFICES ASSUME NEW k \in DOMAIN c'.table
                 PROVE  \E g \in InMod(c'.funcs) : c'.funcs[g].index = c'.table[k]
    BY DEF TableFilled
  <2>2. CASE k \in DOMAIN c.table
    <3>1. c'.table[k] = c.table[k]
      BY <1>2, <2>2 DEF Begins
    <3>2. \E g \in InMod(c.funcs) : c.funcs[g].index = c.table[k]
      BY <2>2 DEF TableFilled
    <3>3. QED
      BY <1>7, <3>1, <3>2
  <2>3. CASE k - Len(c.table) \in DOMAIN o.table
    <3>1. PICK j \in DOMAIN o.table : j = k - Len(c.table)
      BY <2>3
    <3>2. k \in Nat /\ j \in Nat /\ Len(c.table) \in Nat
      <4>1. o.table \in Seq(Nat) /\ c.table \in Seq(Nat) /\ c'.table \in Seq(Nat)
        BY <1>2 DEF FileSet, ObjectOK, ObjectSet
      <4>2. QED
        BY SMTT(30), <4>1
    <3>3. k = Len(c.table) + j
      BY <3>1, <3>2
    <3>4. c'.table[k] = Rebased(o.table[j])
      BY <3>3 DEF Joined
    <3>5. PICK g \in InMod(o.bodies) : o.bodies[g].index = o.table[j]
      BY SlotsFacts
    <3>6. g \in DOMAIN o.bodies /\ Rebased(o.bodies[g].index) = FuncBase + g - 1
      BY RebasedFacts
    <3>7. Routine(c'.funcs, c'.table[k], <<u, o.bodies[g].name>>)
      BY <1>10, <3>4, <3>5, <3>6
    <3>8. QED
      BY <3>7 DEF Routine
  <2>4. k \in DOMAIN c.table \/ k - Len(c.table) \in DOMAIN o.table
    BY DEF Joined
  <2>5. QED
    BY <2>2, <2>3, <2>4
<1>13. QED
  BY <1>6, <1>8, <1>9, <1>10, <1>11, <1>12

Placing(u, o) ==
  /\ c \in FileSet /\ Numbered(c) /\ WithinLimits(c) /\ TableFilled(c)
  /\ u \in Units /\ ObjectOK(u, o) /\ o.imports = c.imports
  /\ Joined(u, o) /\ Len(c.funcs) + Len(o.bodies) <= MaxFuncs

(* A routine of the object is in the program at the number rebased.         *)
LEMMA RoutineMoves ==
  ASSUME NEW u, NEW o, Placing(u, o), NEW v, NEW m, Routine(o.bodies, v, m)
  PROVE  /\ v \in Nat /\ FirstUser(c) <= v /\ Rebased(v) \in Nat
         /\ Routine(c'.funcs, Rebased(v), m) /\ FuncLands(c', Rebased(v), m)
<1>1. PICK g \in InMod(o.bodies) : o.bodies[g].index = v /\ m = <<o.bodies[g].unit, o.bodies[g].name>>
  BY DEF Routine
<1>2. /\ g \in DOMAIN o.bodies /\ v \in Nat /\ FirstUser(c) <= v
      /\ Rebased(v) = FuncBase + g - 1 /\ Rebased(v) \in Nat /\ o.bodies[g].unit = u
  BY <1>1, RebasedFacts DEF Placing
<1>3. Routine(c'.funcs, FuncBase + g - 1, <<u, o.bodies[g].name>>)
  BY <1>2, JoinedGrows DEF Placing
<1>4. Routine(c'.funcs, Rebased(v), m)
  BY <1>1, <1>2, <1>3
<1>5. c' \in FileSet /\ Numbered(c') /\ WithinLimits(c')
  BY JoinedGrows DEF Placing, Joined
<1>6. FuncLands(c', Rebased(v), m)
  BY <1>4, <1>5, RoutineLands
<1>7. QED
  BY <1>2, <1>4, <1>6

(* Bytes of the object are in the program behind what is there and padding. *)
LEMMA BytesMove ==
  ASSUME NEW u, NEW o, Placing(u, o), NEW v \in Nat, NEW m, DataLands(AsFile(o), v, m)
  PROVE  LET w == DataPos(c) + Len(DataPadding) + v - 4
         IN  w \in Nat /\ DataLands(c', w, m)
<1>1. AsFile(o).data = o.data
  BY DEF AsFile
<1>2. v - 3 \in DOMAIN o.data /\ o.data[v - 3] = m /\ v % 4 = m[2] % 4
  BY <1>1 DEF DataLands
<1>3. o.data \in Seq(Meanings) /\ Len(c.data) \in Nat
  BY DEF Placing, ObjectOK, ObjectSet, FileSet
<1>4. PICK j \in DOMAIN o.data : j = v - 3
  BY <1>2
<1>5. j \in Nat /\ v = j + 3 /\ 1 <= j
  BY <1>3, <1>4
<1>6. PICK a \in Nat, z \in Nat : a = Len(c.data) /\ z = Len(DataPadding)
  BY <1>3, PaddingFacts
<1>7. DataPos(c) = 4 + a /\ (4 + a + z) % 4 = 0
  BY <1>3, <1>6, PaddingFacts, ZerosFacts
<1>8. PICK w : w = DataPos(c) + Len(DataPadding) + v - 4
  OBVIOUS
<1>9. w = 4 + a + z + v - 4
  BY <1>6, <1>7, <1>8
<1>10. w = a + z + v /\ w \in Nat /\ w - 3 = a + z + j
  BY <1>5, <1>9
<1>11. w % 4 = v % 4
  <2>1. PICK y \in Nat : y = 4 + a + z
    OBVIOUS
  <2>2. y % 4 = 0 /\ w = y + v - 4
    BY <1>7, <1>9, <2>1
  <2>3. QED
    BY <2>2
<1>12. a + z + j \in DOMAIN c'.data /\ c'.data[a + z + j] = o.data[j]
  BY <1>6 DEF Placing, Joined
<1>13. DataLands(c', w, m)
  BY <1>2, <1>4, <1>10, <1>11, <1>12 DEF DataLands
<1>14. QED
  BY <1>8, <1>10, <1>13

(* A slot of the object lands behind the slots there were.                  *)
LEMMA SlotsMove ==
  ASSUME NEW u, NEW o, Placing(u, o), NEW v \in Nat, NEW m, SlotLands(AsFile(o), v, m)
  PROVE  Len(c.table) + v \in Nat /\ SlotLands(c', Len(c.table) + v, m)
<1>1. AsFile(o).table = o.table /\ AsFile(o).funcs = o.bodies
  BY DEF AsFile
<1>2. v \in DOMAIN o.table /\ Routine(o.bodies, o.table[v], m)
  BY <1>1 DEF SlotLands
<1>3. Len(c.table) \in Nat
  BY DEF Placing, FileSet
<1>4. PICK w \in Nat : w = Len(c.table) + v
  BY <1>3
<1>5. w \in DOMAIN c'.table /\ c'.table[w] = Rebased(o.table[v])
  BY <1>2, <1>4 DEF Placing, Joined
<1>6. Routine(c'.funcs, Rebased(o.table[v]), m)
  BY <1>2, RoutineMoves
<1>7. QED
  BY <1>4, <1>5, <1>6 DEF SlotLands

(* What a relocation of the object says is where its number goes; a number  *)
(* that is not relocated is that of a host function or a helper.            *)
MovesTo(kind, value, site, o) ==
  /\ value \in Nat
  /\ IF kind = "extern" THEN site.kind = "func" /\ ExternMeans(o.externs, value + 1, site.means)
     ELSE /\ site.kind = IF kind = "table" THEN "slot" ELSE kind
          /\ Lands(c', site.kind, value, site.means)

(* A number of the object lands in the program once it is relocated; one of *)
(* the shared helpers and imports lands as it is.                           *)
LEMMA RelocatedLands ==
  ASSUME NEW u, NEW o, Placing(u, o), NEW r \in RelocSet, NEW site \in SiteSet,
         SiteRight(AsFile(o), o.externs, site), RelocFor(r, site)
  PROVE  IF NotShared(r) THEN MovesTo(r.kind, Relocated(r.kind, r.symbol), site, o)
         ELSE Lands(c', site.kind, site.value, site.means)
<1>1. /\ AsFile(o).table = o.table /\ AsFile(o).funcs = o.bodies /\ AsFile(o).imports = c.imports
      /\ AsFile(o).data = o.data
  BY DEF AsFile, Placing
<1>2. site.kind \in {"func", "data", "slot"} /\ site.value \in Nat /\ r.symbol \in Nat
  BY DEF SiteSet, RelocSet
<1>3. c'.imports = c.imports
  BY DEF Placing, Joined
<1>4. CASE Unresolved(site)
  <2>1. r.kind = "extern" /\ r.symbol = site.value - ExternFuncBase /\ site.kind = "func"
    BY <1>4 DEF RelocFor, Unresolved
  <2>2. ExternMeans(o.externs, site.value - ExternFuncBase + 1, site.means)
    BY <1>4 DEF SiteRight
  <2>3. NotShared(r) /\ Relocated(r.kind, r.symbol) = r.symbol
    BY <2>1 DEF NotShared, Relocated
  <2>4. QED
    BY <1>2, <2>1, <2>2, <2>3 DEF MovesTo
<1>5. CASE ~Unresolved(site) /\ site.kind = "func"
  <2>1. r.kind = "func" /\ r.symbol = site.value
    BY <1>5 DEF RelocFor
  <2>2. FuncLands(AsFile(o), site.value, site.means)
    BY <1>5 DEF SiteRight, Lands
  <2>3. CASE Routine(o.bodies, site.value, site.means)
    <3>1. /\ FirstUser(c) <= site.value /\ Rebased(site.value) \in Nat
          /\ FuncLands(c', Rebased(site.value), site.means)
      BY <2>3, RoutineMoves
    <3>2. FirstUser(c) \in Nat
      BY Bases DEF Placing
    <3>3. NotShared(r)
      BY <1>2, <2>1, <3>1, <3>2 DEF NotShared
    <3>4. Relocated(r.kind, r.symbol) = Rebased(site.value)
      BY <2>1 DEF Relocated
    <3>5. QED
      BY <1>5, <2>1, <3>1, <3>3, <3>4 DEF MovesTo, Lands
  <2>4. CASE ~Routine(o.bodies, site.value, site.means)
    <3>1. PICK i \in Nat, h \in Nat, x \in Nat :
             i = Len(c.imports) /\ h = HelperSlots /\ x = site.value
      BY <1>2, Bases, Limits DEF Placing
    <3>2. h > 0 /\ FirstUser(c) = i + h
      BY <3>1, Bases, Limits DEF Placing
    <3>3. x < i \/ x - i \in 1 .. h - 1
      BY <1>1, <2>2, <2>4, <3>1 DEF FuncLands
    <3>4. x < FirstUser(c)
      BY <3>2, <3>3
    <3>5. ~NotShared(r)
      BY <2>1, <3>1, <3>4 DEF NotShared
    <3>6. FuncLands(c', site.value, site.means)
      BY <1>1, <1>3, <2>2, <2>4 DEF FuncLands
    <3>7. QED
      BY <1>5, <3>5, <3>6 DEF Lands
  <2>5. QED
    BY <2>3, <2>4
<1>6. CASE ~Unresolved(site) /\ site.kind = "data"
  <2>1. r.kind = "data" /\ r.symbol = site.value /\ NotShared(r)
    BY <1>6 DEF RelocFor, NotShared
  <2>2. DataLands(AsFile(o), site.value, site.means)
    BY <1>6 DEF SiteRight, Lands
  <2>3. Relocated(r.kind, r.symbol) = DataPos(c) + Len(DataPadding) + site.value - 4
    BY <2>1 DEF Relocated
  <2>4. /\ Relocated(r.kind, r.symbol) \in Nat
        /\ DataLands(c', Relocated(r.kind, r.symbol), site.means)
    BY <1>2, <2>2, <2>3, BytesMove
  <2>5. QED
    BY <1>6, <2>1, <2>4 DEF MovesTo, Lands
<1>7. CASE ~Unresolved(site) /\ site.kind = "slot"
  <2>1. r.kind = "table" /\ r.symbol = site.value /\ NotShared(r)
    BY <1>7 DEF RelocFor, NotShared
  <2>2. SlotLands(AsFile(o), site.value, site.means)
    BY <1>7 DEF SiteRight, Lands
  <2>3. Relocated(r.kind, r.symbol) = Len(c.table) + site.value
    BY <2>1 DEF Relocated
  <2>4. /\ Relocated(r.kind, r.symbol) \in Nat
        /\ SlotLands(c', Relocated(r.kind, r.symbol), site.means)
    BY <1>2, <2>2, <2>3, SlotsMove
  <2>5. QED
    BY <1>7, <2>1, <2>4 DEF MovesTo, Lands
<1>8. QED
  BY <1>2, <1>4, <1>5, <1>6, <1>7

(* What the linker keeps of the object.                                     *)
Moved(o) == Pick(o.relocs, {k \in DOMAIN o.relocs : NotShared(o.relocs[k])})
Moves(u, o) ==
  [k \in DOMAIN Moved(o) |->
     [kind |-> Moved(o)[k].kind, obj |-> u, in |-> Len(c.funcs) + Moved(o)[k].in + 1,
      at |-> Moved(o)[k].at, value |-> Relocated(Moved(o)[k].kind, Moved(o)[k].symbol)]]
Named(u, o) ==
  [k \in DOMAIN o.exports |->
     [unit |-> u, name |-> o.exports[k].name, index |-> FuncBase + o.exports[k].body]]

(* The relocations of what is not shared.                                   *)
LEMMA MovedFacts ==
  ASSUME NEW u, NEW o, ObjectOK(u, o)
  PROVE  /\ Moved(o) \in Seq(RelocSet)
         /\ \A k \in DOMAIN Moved(o) : \E n \in DOMAIN o.relocs :
              NotShared(o.relocs[n]) /\ Moved(o)[k] = o.relocs[n]
         /\ \A n \in DOMAIN o.relocs : NotShared(o.relocs[n]) =>
              \E k \in DOMAIN Moved(o) : Moved(o)[k] = o.relocs[n]
<1>1. o.relocs \in Seq(RelocSet)
  BY DEF ObjectOK, ObjectSet
<1>2. PICK q \in Seq(RelocSet) : q = o.relocs
  BY <1>1
<1>3. PICK I : I = {k \in DOMAIN q : NotShared(q[k])}
  OBVIOUS
<1>4. I \in SUBSET DOMAIN q /\ \A k \in DOMAIN q : k \in I <=> NotShared(q[k])
  BY <1>3
<1>5. Moved(o) = Pick(q, I)
  BY <1>2, <1>3 DEF Moved
<1>6. Pick(q, I) \in Seq(RelocSet)
  BY <1>4, PickFacts
<1>7. \A i \in I : Ordinal(I, i) + 1 \in DOMAIN Pick(q, I) /\ Pick(q, I)[Ordinal(I, i) + 1] = q[i]
  BY <1>4, PickFacts
<1>8. \A k \in DOMAIN Pick(q, I) : \E i \in I : k = Ordinal(I, i) + 1
  BY <1>4, PickFacts
<1>9. \A k \in DOMAIN Pick(q, I) : \E n \in DOMAIN q : NotShared(q[n]) /\ Pick(q, I)[k] = q[n]
  BY <1>4, <1>7, <1>8
<1>10. \A n \in DOMAIN q : NotShared(q[n]) => \E k \in DOMAIN Pick(q, I) : Pick(q, I)[k] = q[n]
  BY SMTT(30), <1>4, <1>7
<1>11. QED
  BY <1>2, <1>5, <1>6, <1>9, <1>10

(* Each relocation of the object is about a site of it.                     *)
LEMMA RelocRight ==
  ASSUME NEW u, NEW o, Placing(u, o), NEW n \in DOMAIN o.relocs
  PROVE  LET r == o.relocs[n]
             site == o.bodies[r.in + 1].code[r.at]
         IN  /\ r \in RelocSet /\ r.in + 1 \in DOMAIN o.bodies /\ r.in + 1 \in Nat
             /\ r.at \in DOMAIN o.bodies[r.in + 1].code /\ site \in SiteSet
             /\ IF NotShared(r) THEN MovesTo(r.kind, Relocated(r.kind, r.symbol), site, o)
                ELSE Lands(c', site.kind, site.value, site.means)
<1>1. ObjectOK(u, o)
  BY DEF Placing
<1>2. o.relocs \in Seq(RelocSet) /\ o.bodies \in Seq(FuncSet)
  BY <1>1 DEF ObjectOK, ObjectSet
<1>3. PICK r \in RelocSet : r = o.relocs[n]
  BY <1>2
<1>4. PICK j : j = r.in + 1
  OBVIOUS
<1>5. j \in DOMAIN o.bodies /\ r.at \in DOMAIN o.bodies[j].code
      /\ RelocFor(r, o.bodies[j].code[r.at])
  BY <1>1, <1>3, <1>4 DEF ObjectOK
<1>6. o.bodies[j].code \in Seq(SiteSet) /\ j \in Nat
  <2>1. o.bodies[j] \in FuncSet
    BY <1>2, <1>5
  <2>2. QED
    BY SMTT(30), <1>2, <1>5, <2>1 DEF FuncSet
<1>7. PICK site \in SiteSet : site = o.bodies[j].code[r.at]
  BY <1>5, <1>6
<1>8. SiteRight(AsFile(o), o.externs, site)
  BY <1>1, <1>5, <1>7 DEF ObjectOK
<1>9. IF NotShared(r) THEN MovesTo(r.kind, Relocated(r.kind, r.symbol), site, o)
      ELSE Lands(c', site.kind, site.value, site.means)
  BY <1>5, <1>7, <1>8, RelocatedLands
<1>10. QED
  BY ZenonT(60), <1>3, <1>4, <1>5, <1>6, <1>7, <1>9

(* The parts of it that the linker keeps.                                   *)
LEMMA RelocParts ==
  ASSUME NEW u, NEW o, Placing(u, o), NEW n \in DOMAIN o.relocs
  PROVE  /\ o.relocs[n] \in RelocSet /\ o.relocs[n].in + 1 \in Nat
         /\ NotShared(o.relocs[n]) => Relocated(o.relocs[n].kind, o.relocs[n].symbol) \in Nat
<1>1. o.relocs[n] \in RelocSet
  BY ZenonT(60), RelocRight
<1>2. o.relocs[n].in + 1 \in Nat
  BY ZenonT(60), RelocRight
<1>3. NotShared(o.relocs[n]) => Relocated(o.relocs[n].kind, o.relocs[n].symbol) \in Nat
  BY ZenonT(60), RelocRight DEF MovesTo
<1>4. QED
  BY ZenonT(60), <1>1, <1>2, <1>3

MoveOf(q, r, u) ==
  /\ q.kind = r.kind /\ q.obj = u /\ q.at = r.at
  /\ q.in = Len(c.funcs) + (r.in + 1) /\ q.value = Relocated(r.kind, r.symbol)

(* What the linker keeps of them,                                           *)
LEMMA MovesFacts ==
  ASSUME NEW u, NEW o, Placing(u, o)
  PROVE  /\ Moves(u, o) \in Seq(MoveSet)
         /\ \A k \in DOMAIN Moves(u, o) : \E n \in DOMAIN o.relocs :
              NotShared(o.relocs[n]) /\ MoveOf(Moves(u, o)[k], o.relocs[n], u)
         /\ \A n \in DOMAIN o.relocs : NotShared(o.relocs[n]) =>
              \E k \in DOMAIN Moves(u, o) : /\ Moves(u, o)[k].in = Len(c.funcs) + (o.relocs[n].in + 1)
                                            /\ Moves(u, o)[k].at = o.relocs[n].at
<1>1. ObjectOK(u, o) /\ u \in Units
  BY DEF Placing
<1>2. PICK d \in Seq(RelocSet) : d = Moved(o)
  BY <1>1, MovedFacts
<1>3. PICK m \in Nat : m = Len(d) /\ DOMAIN d = 1 .. m
  OBVIOUS
<1>4. PICK q : q = Moves(u, o)
  OBVIOUS
<1>5. q = [k \in 1 .. m |->
             [kind |-> d[k].kind, obj |-> u, in |-> Len(c.funcs) + d[k].in + 1,
              at |-> d[k].at, value |-> Relocated(d[k].kind, d[k].symbol)]]
  BY <1>2, <1>3, <1>4 DEF Moves
<1>6. PICK x \in Nat : x = Len(c.funcs)
  BY Bases DEF Placing
<1>7. ASSUME NEW k \in 1 .. m, NEW n \in DOMAIN o.relocs, d[k] = o.relocs[n],
             NotShared(o.relocs[n])
      PROVE  /\ q[k] \in MoveSet
             /\ q[k].kind = o.relocs[n].kind /\ q[k].obj = u /\ q[k].at = o.relocs[n].at
             /\ q[k].in = x + (o.relocs[n].in + 1)
             /\ q[k].value = Relocated(o.relocs[n].kind, o.relocs[n].symbol)
  <2>1. PICK r \in RelocSet : r = o.relocs[n]
    BY ZenonT(60), RelocParts
  <2>2. r.in + 1 \in Nat /\ NotShared(r) /\ d[k] = r
    BY ZenonT(60), <1>7, <2>1, RelocParts
  <2>3. Relocated(r.kind, r.symbol) \in Nat
    BY ZenonT(60), <2>1, <2>2, RelocParts
  <2>4. r.in \in Int /\ r.at \in Nat /\ r.kind \in {"func", "extern", "data", "table"}
    BY DEF RelocSet
  <2>5. PICK y \in Nat : y = r.in + 1
    BY <2>2
  <2>6. x + r.in + 1 = x + y /\ x + y \in Nat
    BY <2>4, <2>5
  <2>7. q[k] = [kind |-> r.kind, obj |-> u, in |-> x + y, at |-> r.at,
                value |-> Relocated(r.kind, r.symbol)]
    BY <1>5, <1>6, <2>2, <2>6
  <2>8. q[k] \in MoveSet
    BY <1>1, <2>3, <2>4, <2>6, <2>7 DEF MoveSet
  <2>9. QED
    BY SMTT(30), <2>1, <2>5, <2>7, <2>8
<1>8. \A k \in 1 .. m : \E n \in DOMAIN o.relocs : NotShared(o.relocs[n]) /\ d[k] = o.relocs[n]
  BY <1>1, <1>2, <1>3, MovedFacts
<1>9. \A n \in DOMAIN o.relocs : NotShared(o.relocs[n]) => \E k \in 1 .. m : d[k] = o.relocs[n]
  BY <1>1, <1>2, <1>3, MovedFacts
<1>10. q \in [1 .. m -> MoveSet]
  BY <1>5, <1>7, <1>8
<1>11. q \in Seq(MoveSet) /\ DOMAIN q = 1 .. m
  BY <1>10
<1>12. \A k \in DOMAIN q : \E n \in DOMAIN o.relocs :
         NotShared(o.relocs[n]) /\ MoveOf(q[k], o.relocs[n], u)
  BY <1>6, <1>7, <1>8, <1>11 DEF MoveOf
<1>13. \A n \in DOMAIN o.relocs : NotShared(o.relocs[n]) =>
         \E k \in DOMAIN q : q[k].in = x + (o.relocs[n].in + 1) /\ q[k].at = o.relocs[n].at
  BY <1>7, <1>9, <1>11
<1>14. QED
  BY <1>4, <1>6, <1>11, <1>12, <1>13

SymSet == [unit : Units, name : Names, index : Nat]

(* and of the exports.                                                      *)
LEMMA NamedFacts ==
  ASSUME NEW u, NEW o, Placing(u, o)
  PROVE  /\ Named(u, o) \in Seq(SymSet) /\ DOMAIN Named(u, o) = DOMAIN o.exports
         /\ \A k \in DOMAIN o.exports :
              /\ Named(u, o)[k].unit = u /\ Named(u, o)[k].name = o.exports[k].name
              /\ Routine(c'.funcs, Named(u, o)[k].index, <<u, o.exports[k].name>>)
<1>1. ObjectOK(u, o) /\ u \in Units
  BY DEF Placing
<1>2. o.exports \in Seq(ExportSet)
  BY <1>1 DEF ObjectOK, ObjectSet
<1>3. PICK n \in Nat : n = Len(o.exports) /\ DOMAIN o.exports = 1 .. n
  BY <1>2
<1>4. PICK q : q = Named(u, o)
  OBVIOUS
<1>5. q = [k \in 1 .. n |-> [unit |-> u, name |-> o.exports[k].name,
                             index |-> FuncBase + o.exports[k].body]]
  BY <1>3, <1>4 DEF Named
<1>6. PICK x \in Nat : x = FuncBase
  BY Bases DEF Placing
<1>7. ASSUME NEW k \in 1 .. n
      PROVE  /\ q[k] \in SymSet /\ q[k].unit = u /\ q[k].name = o.exports[k].name
             /\ Routine(c'.funcs, q[k].index, <<u, o.exports[k].name>>)
  <2>1. PICK e \in ExportSet : e = o.exports[k]
    BY <1>2, <1>3
  <2>2. e.body \in Nat /\ e.name \in Names
    BY DEF ExportSet
  <2>3. PICK j \in Nat : j = e.body + 1
    BY <2>2
  <2>4. j \in DOMAIN o.bodies /\ o.bodies[j].name = e.name
    BY <1>1, <1>3, <2>1, <2>3 DEF ObjectOK
  <2>5. Routine(c'.funcs, FuncBase + j - 1, <<u, o.bodies[j].name>>)
    BY <2>4, JoinedGrows DEF Placing
  <2>6. x + e.body = x + j - 1 /\ x + e.body \in Nat
    BY <2>2, <2>3
  <2>7. q[k] = [unit |-> u, name |-> e.name, index |-> x + e.body]
    BY <1>5, <1>6, <2>1
  <2>8. q[k] \in SymSet
    BY <1>1, <2>2, <2>6, <2>7 DEF SymSet
  <2>9. QED
    BY <1>6, <2>1, <2>4, <2>5, <2>6, <2>7, <2>8
<1>8. q \in [1 .. n -> SymSet]
  BY <1>5, <1>7
<1>9. q \in Seq(SymSet) /\ DOMAIN q = 1 .. n
  BY <1>8
<1>10. QED
  BY <1>3, <1>4, <1>7, <1>9

Kept(u, o) ==
  /\ l' \in LinkSet /\ l'.args = l.args /\ l'.linked = l.linked
  /\ l'.placed = Append(l.placed, u)
  /\ l'.base[u] = FuncBase /\ l'.externs[u] = o.externs
  /\ \A v \in Units : v # u => l'.base[v] = l.base[v] /\ l'.externs[v] = l.externs[v]
  /\ Behind(l.syms, Named(u, o), l'.syms) /\ l'.syms = l.syms \o Named(u, o)
  /\ Behind(l.relocs, Moves(u, o), l'.relocs) /\ l'.relocs = l.relocs \o Moves(u, o)

(* Place appends these and changes nothing else the linker keeps.           *)
LEMMA PlaceKept ==
  ASSUME l \in LinkSet, NEW u \in Units, Placing(u, objects[u]), Place(u)
  PROVE  Kept(u, objects[u])
<1>1. PICK o : o = objects[u]
  OBVIOUS
<1>2. Placing(u, o) /\ ObjectOK(u, o)
  BY ZenonT(60), <1>1 DEF Placing
<1>3. /\ l.placed \in Seq(Units) /\ l.base \in [Units -> Nat]
      /\ l.externs \in [Units -> Seq(SymbolSet)]
      /\ l.syms \in Seq(SymSet) /\ l.relocs \in Seq(MoveSet)
  BY SMTT(30) DEF LinkSet, SymSet
<1>4. o.externs \in Seq(SymbolSet) /\ FuncBase \in Nat
  BY <1>2, Bases DEF Placing, ObjectOK, ObjectSet
<1>5. Named(u, o) \in Seq(SymSet) /\ Moves(u, o) \in Seq(MoveSet)
  BY <1>2, NamedFacts, MovesFacts
<1>6. PICK y \in Seq(SymSet) : y = l.syms \o Named(u, o) /\ Behind(l.syms, Named(u, o), y)
  BY <1>3, <1>5, JoinBehind
<1>7. PICK r \in Seq(MoveSet) : r = l.relocs \o Moves(u, o) /\ Behind(l.relocs, Moves(u, o), r)
  BY <1>3, <1>5, JoinBehind
<1>8. PICK p \in Seq(Units) : p = Append(l.placed, u)
  BY <1>3, AppendProperties
<1>9. PICK b \in [Units -> Nat] : b = [l.base EXCEPT ![u] = FuncBase]
  BY <1>3, <1>4
<1>10. PICK es \in [Units -> Seq(SymbolSet)] : es = [l.externs EXCEPT ![u] = o.externs]
  BY <1>3, <1>4
<1>11. l' = [l EXCEPT !.placed = p, !.base = b, !.externs = es, !.syms = y, !.relocs = r]
  <2>1. l' = [l EXCEPT !.placed = Append(l.placed, u), !.base[u] = FuncBase,
                       !.externs[u] = o.externs, !.syms = l.syms \o Named(u, o),
                       !.relocs = l.relocs \o Moves(u, o)]
    BY <1>1 DEF Place, Named, Moves, Moved
  <2>2. QED
    BY <1>6, <1>7, <1>8, <1>9, <1>10, <2>1 DEF LinkSet
<1>12. l' \in LinkSet
  BY <1>11 DEF LinkSet, SymSet
<1>13. /\ l'.args = l.args /\ l'.linked = l.linked /\ l'.placed = p /\ l'.base = b
       /\ l'.externs = es /\ l'.syms = y /\ l'.relocs = r
  BY <1>11 DEF LinkSet
<1>14. /\ b[u] = FuncBase /\ es[u] = o.externs
       /\ \A v \in Units : v # u => b[v] = l.base[v] /\ es[v] = l.externs[v]
  BY <1>3, <1>9, <1>10
<1>15. Kept(u, o)
  BY <1>6, <1>7, <1>8, <1>12, <1>13, <1>14 DEF Kept
<1>16. QED
  BY <1>1, <1>15

(* Which bodies the program has then, and their code.                       *)
LEMMA BodiesJoined ==
  ASSUME NEW u, NEW o, Placing(u, o)
  PROVE  /\ \A i \in DOMAIN c.funcs : i \in DOMAIN c'.funcs /\ c'.funcs[i] = c.funcs[i]
         /\ \A i \in Within(c) : i \in Within(c') /\ CodeOf(c', i) = CodeOf(c, i)
         /\ OwnPlaces(c') = OwnPlaces(c)
         /\ \A i \in PlacedFuncs(c) : i \in PlacedFuncs(c') /\ c'.funcs[i] = c.funcs[i]
         /\ \A j \in DOMAIN o.bodies :
              /\ Len(c.funcs) + j \in PlacedFuncs(c')
              /\ c'.funcs[Len(c.funcs) + j].unit = u
              /\ c'.funcs[Len(c.funcs) + j].code = o.bodies[j].code
         /\ \A i \in PlacedFuncs(c') : \/ i \in PlacedFuncs(c)
                                       \/ \E j \in DOMAIN o.bodies : i = Len(c.funcs) + j
         /\ \A i \in InMod(c'.funcs) : i \in InMod(c.funcs) \/ c'.funcs[i].mark = "body"
<1>1. Joined(u, o) /\ u \in Units /\ c \in FileSet
  BY DEF Placing
<1>2. \A i \in DOMAIN c.funcs : i \in DOMAIN c'.funcs /\ c'.funcs[i] = c.funcs[i]
  BY SMTT(30), <1>1 DEF Joined, Begins
<1>3. c.funcs \in Seq(FuncSet) /\ c'.funcs \in Seq(FuncSet) /\ o.bodies \in Seq(FuncSet)
  BY <1>1 DEF Joined, FileSet, Placing, ObjectOK, ObjectSet
<1>4. PICK n \in Nat, b \in Nat :
         /\ n = Len(c.funcs) /\ b = Len(o.bodies) /\ DOMAIN o.bodies = 1 .. b
         /\ DOMAIN c.funcs = 1 .. n
  BY <1>3
<1>5. \A j \in DOMAIN o.bodies :
        /\ n + j \in DOMAIN c'.funcs /\ c'.funcs[n + j] = Arrived(o)[j]
        /\ Arrived(o)[j].unit = u /\ Arrived(o)[j].mark = "body"
        /\ Arrived(o)[j].code = o.bodies[j].code
  BY <1>1, <1>4 DEF Joined
<1>6. \A i \in DOMAIN c'.funcs : i \in DOMAIN c.funcs \/ \E j \in DOMAIN o.bodies : i = n + j
  <2>1. TAKE i \in DOMAIN c'.funcs
  <2>2. i \in DOMAIN c.funcs \/ i - n \in DOMAIN o.bodies
    BY <1>1, <1>4 DEF Joined
  <2>3. i \in Nat
    BY <1>3
  <2>4. i = n + (i - n)
    BY <2>3
  <2>5. QED
    BY <2>2, <2>4
<1>7. \A i \in Within(c) : i \in Within(c') /\ CodeOf(c', i) = CodeOf(c, i)
  <2>1. c'.start = c.start
    BY <1>1 DEF Joined
  <2>2. QED
    BY <1>2, <2>1 DEF Within, CodeOf
<1>8. \A j \in DOMAIN o.bodies :
        /\ n + j \in Within(c') \ {0} /\ c'.funcs[n + j].unit = u
        /\ c'.funcs[n + j].code = o.bodies[j].code /\ c'.funcs[n + j].mark = "body"
  <2>1. \A j \in DOMAIN o.bodies : n + j # 0
    BY <1>4
  <2>2. QED
    BY <1>5, <2>1 DEF Within
<1>9. \A i \in Within(c') : \/ i \in Within(c) /\ (i # 0 => c'.funcs[i] = c.funcs[i])
                            \/ \E j \in DOMAIN o.bodies : i = n + j
  BY <1>2, <1>6 DEF Within
<1>10. Program # u
  BY <1>1, LinkerConstants
<1>11. \A i \in Within(c) \ {0} : c'.funcs[i] = c.funcs[i] /\ i \in DOMAIN c.funcs
  BY <1>2 DEF Within
<1>12. OwnPlaces(c') = OwnPlaces(c)
  <2>1. \A i \in OwnPlaces(c) : i \in OwnPlaces(c')
    BY <1>7, <1>11 DEF OwnPlaces
  <2>2. \A i \in OwnPlaces(c') : i \in OwnPlaces(c)
    BY <1>8, <1>9, <1>10 DEF OwnPlaces
  <2>3. QED
    BY <2>1, <2>2 DEF OwnPlaces
<1>13. \A i \in PlacedFuncs(c) : i \in PlacedFuncs(c') /\ c'.funcs[i] = c.funcs[i]
  BY <1>7, <1>11 DEF PlacedFuncs
<1>14. \A j \in DOMAIN o.bodies : n + j \in PlacedFuncs(c')
  BY <1>1, <1>8 DEF PlacedFuncs
<1>15. \A i \in PlacedFuncs(c') : i \in PlacedFuncs(c) \/ \E j \in DOMAIN o.bodies : i = n + j
  BY <1>9 DEF PlacedFuncs
<1>16. \A i \in InMod(c'.funcs) : i \in InMod(c.funcs) \/ c'.funcs[i].mark = "body"
  BY <1>2, <1>6, <1>8 DEF InMod
<1>17. QED
  BY <1>2, <1>4, <1>7, <1>8, <1>12, <1>13, <1>14, <1>15, <1>16

(* The program's own code is untouched by it.                               *)
LEMMA OwnStaysRight ==
  ASSUME NEW u, NEW o, Placing(u, o), OwnRight(c)
  PROVE  OwnRight(c')
<1>1. c'.externs = c.externs /\ c'.relocs = c.relocs
  BY DEF Placing, Joined
<1>2. /\ OwnPlaces(c') = OwnPlaces(c)
      /\ \A i \in OwnPlaces(c) : CodeOf(c', i) = CodeOf(c, i)
  BY BodiesJoined DEF OwnPlaces
<1>3. ASSUME NEW i \in OwnPlaces(c), NEW p \in DOMAIN CodeOf(c, i)
      PROVE  SiteRight(c', c.externs, CodeOf(c, i)[p])
  <2>1. Grows(c, c')
    BY JoinedGrows DEF Placing
  <2>2. c \in FileSet /\ i \in Within(c)
    BY DEF Placing, OwnPlaces
  <2>3. CodeOf(c, i)[p].kind \in {"func", "data", "slot"}
    BY <2>2, CodeTyped
  <2>4. SiteRight(c, c.externs, CodeOf(c, i)[p])
    BY DEF OwnRight
  <2>5. QED
    BY <2>1, <2>3, <2>4, SiteGrows
<1>4. QED
  BY <1>1, <1>2, <1>3 DEF OwnRight

(* Elements of a sequence that was extended.                                *)
LEMMA BehindFacts ==
  ASSUME NEW S, NEW a \in Seq(S), NEW b, NEW t \in Seq(S), Behind(a, b, t)
  PROVE  /\ \A k \in DOMAIN a : k \in DOMAIN t /\ t[k] = a[k]
         /\ \A k \in DOMAIN b : Len(a) + k \in DOMAIN t /\ t[Len(a) + k] = b[k]
         /\ \A k \in DOMAIN t : \/ k \in DOMAIN a /\ t[k] = a[k]
                                \/ \E j \in DOMAIN b : t[k] = b[j]
<1>1. \A k \in DOMAIN a : k \in DOMAIN t /\ t[k] = a[k]
  BY DEF Behind, Begins
<1>2. \A k \in DOMAIN b : Len(a) + k \in DOMAIN t /\ t[Len(a) + k] = b[k]
  BY DEF Behind
<1>3. ASSUME NEW k \in DOMAIN t, k \notin DOMAIN a PROVE \E j \in DOMAIN b : t[k] = b[j]
  <2>1. PICK j \in DOMAIN b : j = k - Len(a)
    BY <1>3 DEF Behind
  <2>2. k \in Nat /\ Len(a) \in Nat
    OBVIOUS
  <2>3. k = Len(a) + j
    BY <2>1, <2>2
  <2>4. QED
    BY <1>2, <2>3
<1>4. QED
  BY <1>1, <1>2, <1>3

(* The units placed, and one more.                                          *)
LEMMA PlacedBehind ==
  ASSUME l.placed \in Seq(Units), NEW u \in Units, l'.placed = Append(l.placed, u)
  PROVE  /\ u \in Range(l'.placed) /\ Range(l.placed) \subseteq Range(l'.placed)
         /\ \A i \in DOMAIN l'.placed : \/ i \in DOMAIN l.placed /\ l'.placed[i] = l.placed[i]
                                        \/ i = Len(l'.placed) /\ l'.placed[i] = u
<1>1. PICK p \in Seq(Units) : p = l.placed
  OBVIOUS
<1>2. PICK t \in Seq(Units) : t = Append(p, u)
  BY <1>1, AppendProperties
<1>3. t[Len(p) + 1] = u /\ Len(t) = Len(p) + 1 /\ \A i \in 1 .. Len(p) : t[i] = p[i]
  BY <1>1, <1>2, AppendProperties
<1>4. Len(p) + 1 \in DOMAIN t /\ \A i \in DOMAIN p : i \in DOMAIN t /\ t[i] = p[i]
  BY SMTT(30), <1>3
<1>5. u \in Range(t) /\ Range(p) \subseteq Range(t)
  BY <1>3, <1>4 DEF Range
<1>6. \A i \in DOMAIN t : i \in DOMAIN p \/ i = Len(t)
  BY <1>3
<1>7. QED
  BY <1>1, <1>2, <1>3, <1>4, <1>5, <1>6

(* One more object: the sites of all objects are right or have a move that  *)
(* is.                                                                      *)
LEMMA PlacedStaysRight ==
  ASSUME l \in LinkSet, NEW u, u \notin Range(l.placed), NEW o, o = objects[u],
         Placing(u, o), Kept(u, o), PlacedRight(c, l)
  PROVE  PlacedRight(c', l')
<1>1. /\ l.relocs \in Seq(MoveSet) /\ l'.relocs \in Seq(MoveSet) /\ l.placed \in Seq(Units)
      /\ l'.placed = Append(l.placed, u) /\ u \in Units /\ l'.externs[u] = o.externs
      /\ \A v \in Units : v # u => l'.externs[v] = l.externs[v]
  BY DEF LinkSet, Kept, Placing
<1>2. Behind(l.relocs, Moves(u, o), l'.relocs)
  BY DEF Kept
<1>3. /\ \A k \in DOMAIN l.relocs : k \in DOMAIN l'.relocs /\ l'.relocs[k] = l.relocs[k]
      /\ \A k \in DOMAIN Moves(u, o) : /\ Len(l.relocs) + k \in DOMAIN l'.relocs
                                       /\ l'.relocs[Len(l.relocs) + k] = Moves(u, o)[k]
      /\ \A k \in DOMAIN l'.relocs : \/ k \in DOMAIN l.relocs /\ l'.relocs[k] = l.relocs[k]
                                     \/ \E j \in DOMAIN Moves(u, o) : l'.relocs[k] = Moves(u, o)[j]
  BY <1>1, <1>2, BehindFacts
<1>4. u \in Range(l'.placed) /\ Range(l.placed) \subseteq Range(l'.placed)
  BY <1>1, PlacedBehind
<1>5. Grows(c, c') /\ c \in FileSet /\ c' \in FileSet
  <2>1. Grows(c, c')
    BY JoinedGrows DEF Placing
  <2>2. QED
    BY <2>1 DEF Placing, Joined
<1>6. PICK n \in Nat : n = Len(c.funcs)
  BY Bases DEF Placing
<1>7. /\ \A i \in PlacedFuncs(c) : i \in PlacedFuncs(c') /\ c'.funcs[i] = c.funcs[i]
      /\ \A j \in DOMAIN o.bodies : /\ n + j \in PlacedFuncs(c') /\ c'.funcs[n + j].unit = u
                                    /\ c'.funcs[n + j].code = o.bodies[j].code
      /\ \A i \in PlacedFuncs(c') : \/ i \in PlacedFuncs(c)
                                    \/ \E j \in DOMAIN o.bodies : i = n + j
  BY <1>6, BodiesJoined
<1>8. ASSUME NEW i \in PlacedFuncs(c), NEW p \in DOMAIN c.funcs[i].code
      PROVE  c.funcs[i].code[p].kind \in {"func", "data", "slot"}
  <2>1. i \in Within(c) /\ i # 0
    BY DEF PlacedFuncs
  <2>2. CodeOf(c, i) = c.funcs[i].code
    BY <2>1 DEF CodeOf
  <2>3. QED
    BY <1>5, <2>1, <2>2, CodeTyped
<1>9. ASSUME NEW i \in PlacedFuncs(c')
      PROVE  /\ c'.funcs[i].unit \in Range(l'.placed)
             /\ (\E j \in DOMAIN objects[c'.funcs[i].unit].bodies :
                   c'.funcs[i].code = objects[c'.funcs[i].unit].bodies[j].code)
             /\ \A p \in DOMAIN c'.funcs[i].code :
                  \/ \E k \in DOMAIN l'.relocs : l'.relocs[k].in = i /\ l'.relocs[k].at = p
                  \/ Lands(c', c'.funcs[i].code[p].kind, c'.funcs[i].code[p].value,
                           c'.funcs[i].code[p].means)
  <2>1. CASE i \in PlacedFuncs(c)
    <3>1. c'.funcs[i] = c.funcs[i]
      BY <1>7, <2>1
    <3>2. /\ c.funcs[i].unit \in Range(l.placed)
          /\ (\E j \in DOMAIN objects[c.funcs[i].unit].bodies :
                c.funcs[i].code = objects[c.funcs[i].unit].bodies[j].code)
          /\ \A p \in DOMAIN c.funcs[i].code :
               \/ \E k \in DOMAIN l.relocs : l.relocs[k].in = i /\ l.relocs[k].at = p
               \/ Lands(c, c.funcs[i].code[p].kind, c.funcs[i].code[p].value,
                        c.funcs[i].code[p].means)
      BY SMTT(30), <2>1 DEF PlacedRight
    <3>3. ASSUME NEW p \in DOMAIN c.funcs[i].code
          PROVE  \/ \E k \in DOMAIN l'.relocs : l'.relocs[k].in = i /\ l'.relocs[k].at = p
                 \/ Lands(c', c.funcs[i].code[p].kind, c.funcs[i].code[p].value,
                          c.funcs[i].code[p].means)
      <4>1. CASE \E k \in DOMAIN l.relocs : l.relocs[k].in = i /\ l.relocs[k].at = p
        BY <1>3, <4>1
      <4>2. CASE Lands(c, c.funcs[i].code[p].kind, c.funcs[i].code[p].value,
                       c.funcs[i].code[p].means)
        BY <1>5, <1>8, <2>1, <4>2, LandsGrows
      <4>3. QED
        BY ZenonT(60), <3>2, <4>1, <4>2
    <3>4. QED
      BY ZenonT(60), <1>4, <3>1, <3>2, <3>3
  <2>2. ASSUME NEW j \in DOMAIN o.bodies, i = n + j
        PROVE  <1>9!2
    <3>1. c'.funcs[i].unit = u /\ c'.funcs[i].code = o.bodies[j].code
      BY <1>7, <2>2
    <3>2. ObjectOK(u, o) /\ j \in Nat
      <4>1. ObjectOK(u, o)
        BY SMTT(30) DEF Placing
      <4>2. o.bodies \in Seq(FuncSet)
        BY <4>1 DEF ObjectOK, ObjectSet
      <4>3. QED
        BY <4>1, <4>2
    <3>3. ASSUME NEW p \in DOMAIN o.bodies[j].code
          PROVE  \/ \E k \in DOMAIN l'.relocs : l'.relocs[k].in = i /\ l'.relocs[k].at = p
                 \/ Lands(c', o.bodies[j].code[p].kind, o.bodies[j].code[p].value,
                          o.bodies[j].code[p].means)
      <4>1. PICK m \in DOMAIN o.relocs : o.relocs[m].in = j - 1 /\ o.relocs[m].at = p
        BY <3>2 DEF ObjectOK
      <4>2. o.relocs[m].in + 1 = j
        BY <3>2, <4>1
      <4>3. CASE NotShared(o.relocs[m])
        <5>1. PICK k \in DOMAIN Moves(u, o) :
                 Moves(u, o)[k].in = n + j /\ Moves(u, o)[k].at = p
          BY SMTT(30), <1>6, <4>1, <4>2, <4>3, MovesFacts
        <5>2. QED
          BY <1>3, <2>2, <5>1
      <4>4. CASE ~NotShared(o.relocs[m])
        BY ZenonT(60), <4>1, <4>2, <4>4, RelocRight
      <4>5. QED
        BY SMTT(30), <4>3, <4>4
    <3>4. QED
      BY <1>4, <3>1, <3>3
  <2>3. QED
    BY SMTT(30), <1>7, <2>1, <2>2
<1>10. ASSUME NEW k \in DOMAIN l'.relocs
       PROVE  LET r == l'.relocs[k]
              IN  /\ r.in \in PlacedFuncs(c') /\ c'.funcs[r.in].unit = r.obj
                  /\ r.at \in DOMAIN c'.funcs[r.in].code
                  /\ MoveRight(c', l', r, c'.funcs[r.in].code[r.at])
  <2>1. CASE k \in DOMAIN l.relocs /\ l'.relocs[k] = l.relocs[k]
    <3>1. PICK r \in MoveSet : r = l.relocs[k]
      BY <1>1, <2>1
    <3>2. /\ r.in \in PlacedFuncs(c) /\ c.funcs[r.in].unit = r.obj
          /\ r.at \in DOMAIN c.funcs[r.in].code
          /\ MoveRight(c, l, r, c.funcs[r.in].code[r.at])
      BY <2>1, <3>1 DEF PlacedRight
    <3>3. c'.funcs[r.in] = c.funcs[r.in] /\ r.in \in PlacedFuncs(c')
      BY <1>7, <3>2
    <3>4. PICK site : site = c.funcs[r.in].code[r.at]
      OBVIOUS
    <3>5. site.kind \in {"func", "data", "slot"}
      BY <1>8, <3>2, <3>4
    <3>6. MoveRight(c', l', r, site)
      <4>1. CASE r.kind = "extern"
        <5>1. r.obj \in Range(l.placed) /\ r.obj \in Units
          BY <3>2 DEF PlacedRight, PlacedFuncs
        <5>2. l'.externs[r.obj] = l.externs[r.obj]
          BY SMTT(30), <1>1, <5>1
        <5>3. QED
          BY SMTT(30), <3>2, <3>4, <4>1, <5>2 DEF MoveRight
      <4>2. CASE r.kind # "extern"
        <5>1. Lands(c, site.kind, r.value, site.means)
          BY <3>2, <3>4, <4>2 DEF MoveRight
        <5>2. Lands(c', site.kind, r.value, site.means)
          BY SMTT(30), <1>5, <3>5, <5>1, LandsGrows
        <5>3. QED
          BY ZenonT(60), <3>2, <3>4, <4>2, <5>2 DEF MoveRight
      <4>3. QED
        BY SMTT(30), <4>1, <4>2
    <3>7. QED
      BY ZenonT(60), <2>1, <3>1, <3>2, <3>3, <3>4, <3>6
  <2>2. ASSUME NEW q \in DOMAIN Moves(u, o), l'.relocs[k] = Moves(u, o)[q]
        PROVE  <1>10!2
    <3>1. PICK m \in DOMAIN o.relocs :
             NotShared(o.relocs[m]) /\ MoveOf(Moves(u, o)[q], o.relocs[m], u)
      BY MovesFacts
    <3>2. PICK r, d, j : r = o.relocs[m] /\ d = Moves(u, o)[q] /\ j = r.in + 1
      OBVIOUS
    <3>3. /\ NotShared(r) /\ d.kind = r.kind /\ d.obj = u /\ d.at = r.at
          /\ d.in = n + j /\ d.value = Relocated(r.kind, r.symbol)
      BY <1>6, <3>1, <3>2 DEF MoveOf
    <3>4. /\ j \in DOMAIN o.bodies /\ r.at \in DOMAIN o.bodies[j].code
          /\ MovesTo(r.kind, Relocated(r.kind, r.symbol), o.bodies[j].code[r.at], o)
      BY ZenonT(60), <3>2, <3>3, RelocRight
    <3>5. /\ d.in \in PlacedFuncs(c') /\ c'.funcs[d.in].unit = u
          /\ c'.funcs[d.in].code = o.bodies[j].code
      BY <1>7, <3>3, <3>4
    <3>6. MoveRight(c', l', d, o.bodies[j].code[r.at])
      BY <1>1, <3>3, <3>4 DEF MoveRight, MovesTo
    <3>7. QED
      BY ZenonT(60), <2>2, <3>2, <3>3, <3>4, <3>5, <3>6
  <2>3. QED
    BY SMTT(30), <1>3, <2>1, <2>2
<1>11. QED
  BY <1>9, <1>10 DEF PlacedRight

(* One more object: its symbols and its base name its routines.             *)
LEMMA UnitsStayRight ==
  ASSUME l \in LinkSet, NEW u \in l.linked, u \notin Range(l.placed), NEW o, o = objects[u],
         Placing(u, o), Kept(u, o), UnitsRight(c, l)
  PROVE  UnitsRight(c', l')
<1>1. /\ l.syms \in Seq(SymSet) /\ l'.syms \in Seq(SymSet) /\ l.placed \in Seq(Units)
      /\ l'.placed = Append(l.placed, u) /\ u \in Units /\ l'.args = l.args
      /\ l'.linked = l.linked /\ l'.externs[u] = o.externs /\ l'.base[u] = FuncBase
      /\ \A v \in Units : v # u => l'.externs[v] = l.externs[v] /\ l'.base[v] = l.base[v]
  BY DEF LinkSet, Kept, Placing, SymSet
<1>2. Behind(l.syms, Named(u, o), l'.syms)
  BY DEF Kept
<1>3. /\ \A x \in DOMAIN l.syms : x \in DOMAIN l'.syms /\ l'.syms[x] = l.syms[x]
      /\ \A k \in DOMAIN Named(u, o) : /\ Len(l.syms) + k \in DOMAIN l'.syms
                                       /\ l'.syms[Len(l.syms) + k] = Named(u, o)[k]
      /\ \A x \in DOMAIN l'.syms : \/ x \in DOMAIN l.syms /\ l'.syms[x] = l.syms[x]
                                   \/ \E k \in DOMAIN Named(u, o) : l'.syms[x] = Named(u, o)[k]
  BY <1>1, <1>2, BehindFacts
<1>4. /\ DOMAIN Named(u, o) = DOMAIN o.exports
      /\ \A k \in DOMAIN o.exports :
           /\ Named(u, o)[k].unit = u /\ Named(u, o)[k].name = o.exports[k].name
           /\ Routine(c'.funcs, Named(u, o)[k].index, <<u, o.exports[k].name>>)
  BY NamedFacts
<1>5. /\ u \in Range(l'.placed) /\ Range(l.placed) \subseteq Range(l'.placed)
      /\ \A i \in DOMAIN l'.placed : \/ i \in DOMAIN l.placed /\ l'.placed[i] = l.placed[i]
                                     \/ i = Len(l'.placed) /\ l'.placed[i] = u
  BY <1>1, PlacedBehind
<1>6. \A v \in Range(l'.placed) : v = u \/ v \in Range(l.placed)
  BY <1>5 DEF Range
<1>7. Grows(c, c')
  BY JoinedGrows DEF Placing
<1>8. ASSUME NEW v \in Range(l'.placed)
      PROVE  /\ l'.externs[v] = objects[v].externs
             /\ \A j \in DOMAIN objects[v].bodies :
                  Routine(c'.funcs, l'.base[v] + j - 1, <<v, objects[v].bodies[j].name>>)
             /\ \A k \in DOMAIN objects[v].exports :
                  \E x \in DOMAIN l'.syms :
                    l'.syms[x].unit = v /\ l'.syms[x].name = objects[v].exports[k].name
  <2>1. CASE v = u
    <3>1. \A j \in DOMAIN o.bodies : Routine(c'.funcs, FuncBase + j - 1, <<u, o.bodies[j].name>>)
      BY JoinedGrows DEF Placing
    <3>2. ASSUME NEW k \in DOMAIN o.exports
          PROVE  \E x \in DOMAIN l'.syms : l'.syms[x].unit = u /\ l'.syms[x].name = o.exports[k].name
      <4>1. k \in DOMAIN Named(u, o)
        BY <1>4
      <4>2. PICK x : x = Len(l.syms) + k
        OBVIOUS
      <4>3. x \in DOMAIN l'.syms /\ l'.syms[x] = Named(u, o)[k]
        BY <1>3, <4>1, <4>2
      <4>4. QED
        BY <1>4, <4>3
    <3>3. QED
      BY <1>1, <2>1, <3>1, <3>2
  <2>2. CASE v # u
    <3>1. v \in Range(l.placed) /\ v \in Units
      BY <1>1, <1>6, <2>2, RangeFacts
    <3>2. l'.externs[v] = l.externs[v] /\ l'.base[v] = l.base[v]
      BY <1>1, <2>2, <3>1
    <3>3. /\ l.externs[v] = objects[v].externs
          /\ \A j \in DOMAIN objects[v].bodies :
               Routine(c.funcs, l.base[v] + j - 1, <<v, objects[v].bodies[j].name>>)
          /\ \A k \in DOMAIN objects[v].exports :
               \E x \in DOMAIN l.syms :
                 l.syms[x].unit = v /\ l.syms[x].name = objects[v].exports[k].name
      BY <3>1 DEF UnitsRight
    <3>4. \A j \in DOMAIN objects[v].bodies :
            Routine(c'.funcs, l.base[v] + j - 1, <<v, objects[v].bodies[j].name>>)
      BY <1>7, <3>3, RoutineGrows
    <3>5. QED
      BY <1>3, <3>2, <3>3, <3>4
  <2>3. QED
    BY <2>1, <2>2
<1>9. ASSUME NEW x \in DOMAIN l'.syms
      PROVE  Routine(c'.funcs, l'.syms[x].index, <<l'.syms[x].unit, l'.syms[x].name>>)
  <2>1. CASE x \in DOMAIN l.syms /\ l'.syms[x] = l.syms[x]
    <3>1. Routine(c.funcs, l.syms[x].index, <<l.syms[x].unit, l.syms[x].name>>)
      BY <2>1 DEF UnitsRight
    <3>2. QED
      BY <1>7, <2>1, <3>1, RoutineGrows
  <2>2. CASE \E k \in DOMAIN Named(u, o) : l'.syms[x] = Named(u, o)[k]
    BY <1>4, <2>2
  <2>3. QED
    BY <1>3, <2>1, <2>2
<1>10. Range(l'.placed) \subseteq l'.linked /\ l'.linked \subseteq Range(l'.args)
  BY <1>1, <1>6 DEF UnitsRight
<1>11. ASSUME NEW j \in DOMAIN l'.placed, NEW k \in DOMAIN l'.placed, l'.placed[j] = l'.placed[k]
       PROVE  j = k
  <2>1. \A i \in DOMAIN l.placed : l.placed[i] # u
    BY DEF Range
  <2>2. CASE j \in DOMAIN l.placed /\ l'.placed[j] = l.placed[j]
    <3>1. k \in DOMAIN l.placed /\ l'.placed[k] = l.placed[k]
      BY <1>5, <1>11, <2>1, <2>2
    <3>2. QED
      BY <1>11, <2>2, <3>1 DEF UnitsRight
  <2>3. CASE j = Len(l'.placed) /\ l'.placed[j] = u
    BY <1>5, <1>11, <2>1, <2>3
  <2>4. QED
    BY <1>5, <2>2, <2>3
<1>12. QED
  BY <1>8, <1>9, <1>10, <1>11 DEF UnitsRight

(* LinkObject keeps what is known of a program that is linked.              *)
LEMMA PlaceKeepsLink ==
  ASSUME LinkOK(c, l), ObjectsRight, NEW u \in l.linked, u \notin Range(l.placed),
         ObjectOK(u, objects[u]), Len(objects[u].imports) >= Len(c.imports),
         IsPrefix(objects[u].imports, c.imports),
         Len(c.funcs) + Len(objects[u].bodies) <= MaxFuncs, Place(u), u \in Units
  PROVE  LinkOK(c', l') /\ l'.linked = l.linked /\ l'.args = l.args /\ c'.uses = c.uses
<1>1. PICK o : o = objects[u]
  OBVIOUS
<1>2. /\ c \in FileSet /\ l \in LinkSet /\ Numbered(c) /\ WithinLimits(c) /\ TableFilled(c)
      /\ c.unit = Program /\ OwnRight(c) /\ PlacedRight(c, l) /\ UnitsRight(c, l)
      /\ GivenRight(c, l) /\ (\A i \in InMod(c.funcs) : c.funcs[i].mark = "body")
      /\ \A k \in DOMAIN c.externs : ExternRight(c, c.externs[k])
  BY DEF LinkOK
<1>3. o.imports = c.imports
  <2>1. o.imports \in Seq(Imported) /\ c.imports \in Seq(Imported)
    BY <1>1, <1>2 DEF ObjectOK, ObjectSet, FileSet
  <2>2. QED
    BY SMTT(30), <1>1, <2>1, ImportsSame
<1>4. Joined(u, o)
  BY <1>1, <1>2, <1>3, PlaceJoins
<1>5. Placing(u, o)
  BY <1>1, <1>2, <1>3, <1>4 DEF Placing
<1>6. Kept(u, o)
  BY <1>1, <1>2, <1>5, PlaceKept
<1>7. Numbered(c') /\ WithinLimits(c') /\ TableFilled(c')
  BY <1>1, <1>2, <1>3, <1>4, JoinedGrows
<1>8. OwnRight(c')
  BY <1>2, <1>5, OwnStaysRight
<1>9. PlacedRight(c', l')
  BY <1>1, <1>2, <1>5, <1>6, PlacedStaysRight
<1>10. UnitsRight(c', l')
  BY <1>1, <1>2, <1>5, <1>6, UnitsStayRight
<1>11. /\ c' \in FileSet /\ c'.unit = Program /\ c'.uses = c.uses /\ c'.imports = c.imports
       /\ c'.externs = c.externs
  BY <1>2, <1>4 DEF Joined
<1>12. l' \in LinkSet /\ l'.args = l.args /\ l'.linked = l.linked
  BY <1>6 DEF Kept
<1>13. GivenRight(c', l')
  BY <1>2, <1>11, <1>12 DEF GivenRight
<1>14. \A i \in InMod(c'.funcs) : c'.funcs[i].mark = "body"
  <2>1. \A i \in InMod(c'.funcs) : i \in InMod(c.funcs) \/ c'.funcs[i].mark = "body"
    BY <1>5, BodiesJoined
  <2>2. \A i \in DOMAIN c.funcs : c'.funcs[i] = c.funcs[i]
    BY <1>5, BodiesJoined
  <2>3. QED
    BY <1>2, <2>1, <2>2 DEF InMod
<1>15. \A k \in DOMAIN c'.externs : ExternRight(c', c'.externs[k])
  BY <1>2, <1>11 DEF ExternRight
<1>16. LinkOK(c', l')
  BY <1>7, <1>8, <1>9, <1>10, <1>11, <1>12, <1>13, <1>14, <1>15 DEF LinkOK
<1>17. QED
  BY <1>11, <1>12, <1>16

(* One more object, or the reason why not.                                  *)
LEMMA LinkObjectKeeps ==
  ASSUME IInv, LinkObject
  PROVE  IInv'
<1>1. /\ phase = "link" /\ LinkOK(c, l) /\ ObjectsRight /\ OnlyNeeded /\ Waiting # {}
      /\ objects' = objects
  BY DEF IInv, LinkObject
<1>2. PICK u : u = l.args[Min(Waiting)]
  OBVIOUS
<1>3. /\ u \in Units /\ u \in l.linked /\ u \notin Range(l.placed) /\ ObjectOK(u, objects[u])
      /\ Len(objects[u].imports) >= Len(c.imports)
  BY <1>1, <1>2, NextWaiting
<1>4. CASE /\ IsPrefix(objects[u].imports, c.imports)
           /\ Len(c.funcs) + Len(objects[u].bodies) <= MaxFuncs
  <2>1. Place(u) /\ phase' = "link"
    BY <1>1, <1>2, <1>4 DEF LinkObject
  <2>2. LinkOK(c', l') /\ l'.linked = l.linked /\ l'.args = l.args /\ c'.uses = c.uses
    BY <1>1, <1>3, <1>4, <2>1, PlaceKeepsLink
  <2>3. LinkOK(c, l)'
    BY <1>1, <2>2, LinkStays
  <2>4. Reached' = Reached
    BY <1>1, <2>2, ReachedSame
  <2>5. OnlyNeeded'
    BY <1>1, <2>2, <2>4 DEF OnlyNeeded
  <2>6. QED
    BY <1>1, <2>1, <2>3, <2>5, ObjectsStay DEF IInv
<1>5. CASE ~(/\ IsPrefix(objects[u].imports, c.imports)
             /\ Len(c.funcs) + Len(objects[u].bodies) <= MaxFuncs)
  <2>1. phase' = "error" /\ c' = c /\ l' = l
    BY <1>1, <1>2, <1>5 DEF LinkObject
  <2>2. \/ ~ IsPrefix(objects[u].imports, c.imports)
        \/ Len(c.funcs) + Len(objects[u].bodies) > MaxFuncs
    <3>1. PICK x \in Nat, y \in Nat : x = Len(c.funcs) /\ y = Len(objects[u].bodies)
      <4>1. c.funcs \in Seq(FuncSet) /\ objects[u].bodies \in Seq(FuncSet)
        BY <1>1, <1>3 DEF LinkOK, FileSet, ObjectOK, ObjectSet
      <4>2. QED
        BY <4>1
    <3>2. x + y <= MaxFuncs \/ x + y > MaxFuncs
      BY Limits
    <3>3. QED
      BY <1>5, <3>1, <3>2
  <2>3. u \in Reached[Cardinality(Units)]
    BY <1>1, <1>3 DEF OnlyNeeded
  <2>4. QED
    BY <1>1, <2>1, <2>2, <2>3, ErrorKeeps
<1>6. QED
  BY <1>4, <1>5

-----------------------------------------------------------------------------
(* Every other step, and the start.                                         *)
LEMMA PermutationSeq ==
  ASSUME NEW T, IsFiniteSet(T), NEW q \in SetToAllKPermutations(T), NEW U, T \subseteq U
  PROVE  q \in Seq(T) /\ q \in Seq(U)
<1>1. PICK S \in SUBSET T : q \in SetToSeqs(S)
  BY DEF SetToAllKPermutations
<1>2. PICK n \in Nat : n = Cardinality(S)
  BY <1>1, FS_Subset, FS_CardinalityType
<1>3. q \in [1 .. n -> S]
  BY <1>1, <1>2 DEF SetToSeqs
<1>4. q \in Seq(S)
  BY <1>3
<1>5. QED
  BY <1>1, <1>4

(* Exited looks at no variable that steps change.                           *)
LEMMA ExitedStays == Exited' = Exited
<1>1. [k \in DOMAIN <<>> |-> [i \in DOMAIN objects[<<>>[k]].exports |->
         [unit |-> <<>>[k], name |-> objects[<<>>[k]].exports[i].name,
          sig |-> objects[<<>>[k]].exports[i].sig,
          body |-> objects[<<>>[k]].exports[i].body]]] = <<>>
  OBVIOUS
<1>2. [k \in DOMAIN <<>> |-> [i \in DOMAIN objects'[<<>>[k]].exports |->
         [unit |-> <<>>[k], name |-> objects'[<<>>[k]].exports[i].name,
          sig |-> objects'[<<>>[k]].exports[i].sig,
          body |-> objects'[<<>>[k]].exports[i].body]]] = <<>>
  OBVIOUS
<1>3. ExternsOf(<<>>) = FlattenSeq(<<>>)
  BY <1>1 DEF ExternsOf
<1>4. ExternsOf(<<>>)' = FlattenSeq(<<>>)
  BY <1>2 DEF ExternsOf
<1>5. QED
  BY <1>3, <1>4 DEF Exited, NewFile

(* A step that keeps the file right keeps the invariant,                    *)
LEMMA ReadingKeeps ==
  ASSUME IInv, phase = "compile", phase' = "compile", l' = l, objects' = objects,
         Follows(c, c')
  PROVE  IInv'
<1>1. ObjectsRight /\ BeforeLink(c, l)
  BY DEF IInv
<1>2. FileOK(c') /\ c'.unit = c.unit /\ c'.uses = c.uses
  BY DEF Follows
<1>3. FileOK(c)'
  BY <1>2, FileStays
<1>4. BeforeLink(c, l)'
  BY ZenonT(60), <1>1, <1>2 DEF BeforeLink, Compiled
<1>5. QED
  BY <1>1, <1>3, <1>4, ObjectsStay DEF IInv

(* so every step of reading a file does.                                    *)
LEMMA CompileKeeps ==
  ASSUME Constructs = {}, IInv, Compile
  PROVE  IInv'
<1>1. phase = "compile" => FileOK(c) /\ BeforeLink(c, l) /\ ObjectsRight
  BY DEF IInv
<1>2. ASSUME Reading, Follows(c, c') PROVE IInv'
  BY SMTT(30), <1>2, ReadingKeeps DEF Reading
<1>3. ASSUME NEW h \in Hosts, External(h) PROVE IInv'
  BY ZenonT(60), <1>1, <1>2, <1>3, ExternalFollows DEF External, Declaring, Reading
<1>4. ASSUME NEW r \in Routines, NEW sig \in Sigs, Declare(r, sig) PROVE IInv'
  BY <1>1, <1>2, <1>4, DeclareFollows DEF Declare, Declaring, Reading
<1>5. ASSUME NEW r \in Routines, NEW sig \in Sigs, Define(r, sig) PROVE IInv'
  BY <1>1, <1>2, <1>5, DefineFollows DEF Define, Declaring, Reading
<1>6. ASSUME NEW i \in DOMAIN c.funcs, DefineForward(i) PROVE IInv'
  BY ZenonT(60), <1>1, <1>2, <1>6, DefineForwardFollows DEF DefineForward, Declaring, Reading
<1>7. ASSUME EndBody PROVE IInv'
  BY <1>1, <1>2, <1>7, EndBodyFollows DEF EndBody, Declaring, Reading
<1>8. ASSUME NEW i \in DOMAIN c.funcs, Call(i) PROVE IInv'
  BY <1>1, <1>2, <1>8, CallFollows DEF Call, Writing, Reading
<1>9. ASSUME NEW k \in 1 .. HelperSlots - 1, CallHelper(k) PROVE IInv'
  BY <1>1, <1>2, <1>9, CallHelperFollows DEF CallHelper, Writing, Reading
<1>10. ASSUME NEW i \in DOMAIN c.funcs, TakeAddress(i) PROVE IInv'
  BY <1>1, <1>2, <1>10, TakeAddressFollows DEF TakeAddress, Writing, Reading
<1>11. ASSUME NEW n \in DataSizes, NEW align \in Aligns, Literal(n, align) PROVE IInv'
  BY <1>1, <1>2, <1>11, LiteralFollows DEF Literal, Writing, Reading
<1>12. ASSUME WriteObject PROVE IInv'
  <2>1. /\ phase = "compile" /\ c.unit \in Units /\ phase' = "idle" /\ c' = Exited /\ l' = l
    BY <1>12 DEF WriteObject, Finished
  <2>2. FileOK(c) /\ BeforeLink(c, l) /\ ObjectsRight
    BY <1>1, <2>1
  <2>3. ObjectsRight'
    BY <1>12, <2>2, WriteObjectRight
  <2>4. c.unit # Program
    BY <2>1, LinkerConstants
  <2>5. l = NoLink
    BY <2>2, <2>4 DEF BeforeLink
  <2>6. c' = Exited' /\ l' = NoLink'
    BY <2>1, <2>5, ExitedStays DEF NoLink
  <2>7. QED
    BY <2>1, <2>3, <2>6 DEF IInv
<1>13. QED
  BY <1>3, <1>4, <1>5, <1>6, <1>7, <1>8, <1>9, <1>10, <1>11, <1>12 DEF Compile

(* A header, with what it uses; and a command line.                         *)
LEMMA StartedOK ==
  ASSUME ObjectsRight, NEW f \in Files, NEW us \in Seq(Units), NEW files \in BOOLEAN,
         f \notin Range(us), Range(us) \subseteq Compiled, Len(ExternsOf(us)) <= MaxFuncs,
         phase' = "compile", c' = NewFile(f, us, files), objects' = objects,
         BeforeLink(c', l')
  PROVE  IInv'
<1>1. FileOK(c')
  BY NewFileOK
<1>2. FileOK(c)'
  BY <1>1, FileStays
<1>3. BeforeLink(c, l)'
  BY ZenonT(60) DEF BeforeLink, Compiled
<1>4. QED
  BY <1>2, <1>3, ObjectsStay DEF IInv

(* A file is begun.                                                         *)
LEMMA BeginKeeps ==
  ASSUME IInv, Begin
  PROVE  IInv'
<1>1. phase = "idle" /\ ObjectsRight /\ l = NoLink
  BY DEF IInv, Begin
<1>2. Compiled \subseteq Units /\ IsFiniteSet(Compiled)
  BY LinkerConstants, FS_Subset DEF Compiled
<1>3. PICK files \in BOOLEAN :
        \/ \E f \in Units, us \in SetToAllKPermutations(Compiled) : Start(f, us, files)
        \/ \E as \in SetToAllKPermutations(Compiled) :
             \E us \in SetToAllKPermutations(Range(as)) : StartProgram(as, us, files)
  BY DEF Begin
<1>4. ASSUME NEW f \in Units, NEW us \in SetToAllKPermutations(Compiled), Start(f, us, files)
      PROVE  IInv'
  <2>1. us \in Seq(Units)
    BY <1>2, PermutationSeq
  <2>2. /\ f \notin Range(us) /\ Range(us) \subseteq Compiled /\ Len(ExternsOf(us)) <= MaxFuncs
        /\ phase' = "compile" /\ c' = NewFile(f, us, files) /\ objects' = objects /\ l' = l
    BY <1>4 DEF Start
  <2>3. f \in Files /\ f # Program
    BY LinkerConstants DEF Files
  <2>4. c'.unit = f
    BY <2>2 DEF NewFile
  <2>5. BeforeLink(c', l')
    BY <1>1, <2>2, <2>3, <2>4 DEF BeforeLink
  <2>6. QED
    BY <1>1, <2>1, <2>2, <2>3, <2>5, StartedOK
<1>5. ASSUME NEW as \in SetToAllKPermutations(Compiled),
             NEW us \in SetToAllKPermutations(Range(as)), StartProgram(as, us, files)
      PROVE  IInv'
  <2>1. as \in Seq(Units)
    BY <1>2, PermutationSeq
  <2>2. Range(as) \subseteq Compiled
    BY <1>5 DEF StartProgram
  <2>3. IsFiniteSet(Range(as))
    BY <1>2, <2>2, FS_Subset
  <2>4. Range(as) \subseteq Units
    BY <1>2, <2>2
  <2>5. us \in Seq(Units) /\ Range(us) \subseteq Range(as)
    <3>1. us \in Seq(Units)
      BY <2>3, <2>4, PermutationSeq
    <3>2. Range(us) \subseteq Range(as)
      BY <1>5 DEF StartProgram
    <3>3. QED
      BY <3>1, <3>2
  <2>6. /\ Len(ExternsOf(us)) <= MaxFuncs /\ phase' = "compile" /\ objects' = objects
        /\ c' = NewFile(Program, us, files)
        /\ l' = [NoLink EXCEPT !.args = as, !.linked = Range(us)]
    BY <1>5 DEF StartProgram
  <2>7. Program \in Files /\ Program \notin Range(us)
    BY <2>4, <2>5, LinkerConstants DEF Files
  <2>8. c'.unit = Program /\ c'.uses = us
    BY <2>6 DEF NewFile
  <2>9. BeforeLink(c', l')
    BY ZenonT(60), <2>1, <2>2, <2>5, <2>6, <2>8 DEF BeforeLink
  <2>10. QED
    BY <1>1, <2>2, <2>5, <2>6, <2>7, <2>9, StartedOK
<1>6. QED
  BY <1>3, <1>4, <1>5

(* NumbersLand looks at no more than this.                                  *)
LEMMA NumbersStay ==
  ASSUME NumbersLand, phase' = phase, c' = c, l' = l
  PROVE  NumbersLand'
<1>1. InModule' = InModule /\ FirstUser(c') = FirstUser(c)
  BY DEF InModule
<1>2. \A i : RoutineAt(i)' = RoutineAt(i)
  BY <1>1 DEF RoutineAt, FirstUser
<1>3. \A i : FunctionAt(i)' = FunctionAt(i)
  BY <1>2 DEF FunctionAt, FirstUser
<1>4. Bodies' = Bodies
  BY DEF Bodies, Bodied
<1>5. \A kind : Sites(kind)' = Sites(kind)
  BY <1>4 DEF Sites, CodeOf
<1>6. TypeOK'
  BY <1>1, <1>5 DEF NumbersLand, TypeOK, IndexInUse
<1>7. CallsLand' /\ AddressesLand' /\ SlotsLand'
  BY <1>3, <1>5 DEF NumbersLand, CallsLand, AddressesLand, SlotsLand, SlotInUse
<1>8. QED
  BY <1>6, <1>7 DEF NumbersLand

(* Steps of others.                                                         *)
LEMMA StutterKeeps ==
  ASSUME IInv, UNCHANGED vars
  PROVE  IInv'
<1>1. phase' = phase /\ c' = c /\ l' = l /\ objects' = objects
  BY DEF vars
<1>2. phase \in {"idle", "compile", "link", "patch", "done", "error"} /\ ObjectsRight
  BY DEF IInv
<1>3. ObjectsRight' /\ Reached' = Reached
  BY <1>1, <1>2, ObjectsStay, ReachedSame
<1>4. CASE phase = "idle"
  <2>1. c = Exited /\ l = NoLink
    BY <1>4 DEF IInv
  <2>2. c' = Exited' /\ l' = NoLink'
    BY <1>1, <2>1, ExitedStays DEF NoLink
  <2>3. QED
    BY <1>1, <1>3, <1>4, <2>2 DEF IInv
<1>5. CASE phase = "compile"
  <2>1. FileOK(c) /\ BeforeLink(c, l)
    BY <1>5 DEF IInv
  <2>2. Follows(c, c')
    BY <1>1, <2>1 DEF Follows
  <2>3. QED
    BY <1>1, <1>5, <2>2, ReadingKeeps
<1>6. CASE phase \in {"link", "patch"}
  <2>1. LinkOK(c, l) /\ OnlyNeeded /\ (phase = "patch" => Waiting = {} /\ Needed = {})
    BY <1>6 DEF IInv
  <2>2. LinkOK(c, l)'
    BY <1>1, <2>1, LinkStays
  <2>3. OnlyNeeded'
    BY <1>1, <1>3, <2>1 DEF OnlyNeeded
  <2>4. Waiting' = Waiting /\ Needed' = Needed
    BY <1>1 DEF Waiting, Needed
  <2>5. QED
    BY <1>1, <1>3, <1>6, <2>1, <2>2, <2>3, <2>4 DEF IInv
<1>7. CASE phase \in {"done", "error"}
  <2>1. NumbersLand /\ ObjectsJust
    BY <1>7 DEF IInv
  <2>2. NumbersLand'
    BY <1>1, <2>1, NumbersStay
  <2>3. PlacedAsNeeded'
    BY <1>1, <1>3, <2>1 DEF ObjectsJust, PlacedAsNeeded
  <2>4. ErrorsJust'
    BY ZenonT(60), <1>1, <1>3, <2>1 DEF ObjectsJust, ErrorsJust
  <2>5. QED
    BY <1>1, <1>3, <1>7, <2>2, <2>3, <2>4 DEF IInv, ObjectsJust
<1>8. QED
  BY <1>2, <1>4, <1>5, <1>6, <1>7

(* The invariant holds of the empty directory,                              *)
LEMMA InitIInv ==
  ASSUME Init
  PROVE  IInv
<1>1. ObjectsRight
  BY DEF Init, ObjectsRight
<1>2. QED
  BY <1>1 DEF Init, IInv

(* every step keeps it,                                                     *)
LEMMA NextIInv ==
  ASSUME Constructs = {}, IInv, [Next]_vars
  PROVE  IInv'
BY BeginKeeps, CompileKeeps, BeginLinkKeeps, LinkObjectKeeps, LinkNeededKeeps, PatchKeeps,
   StutterKeeps DEF Next, Link

(* While a file is read its numbers are of the kinds they should be.        *)
LEMMA FileNumbers ==
  ASSUME FileOK(c), l.relocs = <<>>, phase \in {"idle", "compile"}
  PROVE  NumbersLand
<1>1. /\ c \in FileSet /\ Numbered(c) /\ WithinLimits(c) /\ TableFilled(c)
      /\ SitesRight(c) /\ Recorded(c)
  BY DEF FileOK
<1>2. c.table \in Seq(Nat)
  BY <1>1 DEF FileSet
<1>3. ASSUME NEW s \in Sites("slot") PROVE s.value \in Nat \ {0}
  <2>1. PICK i \in Within(c) : \E p \in DOMAIN CodeOf(c, i) :
          s = CodeOf(c, i)[p] /\ s.kind = "slot" /\ s \in SiteSet
    BY <1>1, SiteIn
  <2>2. PICK p \in DOMAIN CodeOf(c, i) : s = CodeOf(c, i)[p] /\ s.kind = "slot"
    BY <2>1
  <2>3. ~Unresolved(s)
    BY <2>2 DEF Unresolved
  <2>4. SiteRight(c, c.externs, s)
    BY <1>1, <2>2 DEF SitesRight
  <2>5. s.value \in DOMAIN c.table
    BY <2>2, <2>3, <2>4 DEF SiteRight, Lands, SlotLands
  <2>6. QED
    BY <1>2, <2>5
<1>4. \A r \in Range(c.relocs) : r.at \in DOMAIN CodeOf(c, r.in)
  BY <1>1 DEF Recorded, Range
<1>5. Range(l.relocs) = {}
  BY DEF Range
<1>6. TypeOK
  BY <1>1, <1>3, <1>4, <1>5, TypeFacts DEF TypeOK
<1>7. phase # "done"
  OBVIOUS
<1>8. QED
  BY <1>6, <1>7 DEF NumbersLand, CallsLand, AddressesLand, SlotsLand

(* and it implies what the runs check.                                      *)
LEMMA IInvImplies ==
  ASSUME IInv
  PROVE  NumbersLand /\ ObjectsJust
<1>1. phase \in {"idle", "compile", "link", "patch", "done", "error"} /\ ObjectsRight
  BY DEF IInv
<1>2. CASE phase \in {"idle", "compile"}
  <2>1. FileOK(c) /\ l.relocs = <<>>
    <3>1. CASE phase = "idle"
      <4>1. c = Exited /\ l = NoLink
        BY <3>1 DEF IInv
      <4>2. QED
        BY <1>1, <4>1, ExitedOK DEF NoLink
    <3>2. CASE phase = "compile"
      <4>1. FileOK(c) /\ BeforeLink(c, l)
        BY <3>2 DEF IInv
      <4>2. l.relocs = <<>>
        <5>1. CASE c.unit = Program
          <6>1. PICK args \in Seq(Units) : l = [NoLink EXCEPT !.args = args, !.linked = Range(c.uses)]
            BY ZenonT(60), <4>1, <5>1 DEF BeforeLink
          <6>2. QED
            BY <6>1 DEF NoLink
        <5>2. CASE c.unit # Program
          BY <4>1, <5>2 DEF BeforeLink, NoLink
        <5>3. QED
          BY <5>1, <5>2
      <4>3. QED
        BY <4>1, <4>2
    <3>3. QED
      BY <1>2, <3>1, <3>2
  <2>2. NumbersLand
    BY <1>2, <2>1, FileNumbers
  <2>3. QED
    BY <1>2, <2>2 DEF ObjectsJust, PlacedAsNeeded, ErrorsJust
<1>3. CASE phase \in {"link", "patch"}
  <2>1. LinkOK(c, l) /\ OnlyNeeded /\ (phase = "patch" => Waiting = {} /\ Needed = {})
    BY <1>3 DEF IInv
  <2>2. NumbersLand
    BY <1>1, <1>3, <2>1, LinkingNumbers DEF Linking
  <2>3. PlacedAsNeeded
    BY <1>3, <2>1, PlacedIsReached DEF PlacedAsNeeded
  <2>4. QED
    BY <1>3, <2>2, <2>3 DEF ObjectsJust, ErrorsJust
<1>4. CASE phase \in {"done", "error"}
  BY <1>4 DEF IInv
<1>5. QED
  BY <1>1, <1>2, <1>3, <1>4

-----------------------------------------------------------------------------
(* Every number of a file compiled without the Constructs is what it has to *)
(* be: in a finished module each call reaches what the source names, each   *)
(* address the bytes meant, each procedural value its routine, for every    *)
(* number of units, compiled in any order and again, and any command line.  *)
THEOREM NumbersAlwaysLand ==
  ASSUME Constructs = {}
  PROVE  Spec => []NumbersLand
<1>1. Init => IInv
  BY InitIInv
<1>2. IInv /\ [Next]_vars => IInv'
  BY NextIInv
<1>3. IInv => NumbersLand
  BY IInvImplies
<1>4. QED
  BY <1>1, <1>2, <1>3, PTL DEF Spec

(* The objects in a module are those the program needs, each once, and a    *)
(* link is refused only for a reason the files give.                        *)
THEOREM ObjectsAlwaysJust ==
  ASSUME Constructs = {}
  PROVE  Spec => []ObjectsJust
<1>1. Init => IInv
  BY InitIInv
<1>2. IInv /\ [Next]_vars => IInv'
  BY NextIInv
<1>3. IInv => ObjectsJust
  BY IInvImplies
<1>4. QED
  BY <1>1, <1>2, <1>3, PTL DEF Spec
=============================================================================
