------------------------------ MODULE Induction ------------------------------
(***************************************************************************)
(* Induction without operator parameters: over a set of numbers, or of     *)
(* sequences, and with it what FlattenSeq computes for every sequence of   *)
(* sequences.                                                              *)
(***************************************************************************)
EXTENDS SequencesExt, SequenceTheorems, FiniteSetTheorems, WellFoundedInduction, TLAPS

-----------------------------------------------------------------------------
(***************************************************************************)
(* Numbers and sequences.                                                  *)
(***************************************************************************)
LEMMA LeastNat ==
    ASSUME NEW T \in SUBSET Nat, T # {}
    PROVE  \E n \in T : \A m \in T : n <= m
<1> DEFINE R == OpToRel(<, Nat)
<1>1. IsWellFoundedOn(R, Nat)
  BY NatLessThanWellFounded
<1>2. \A m, n \in Nat : m < n => <<m, n>> \in R
  BY DEF OpToRel
<1> HIDE DEF R
<1>3. PICK n \in T : \A m \in T : <<m, n>> \notin R
  BY <1>1, WFMin
<1>4. ASSUME NEW m \in T PROVE n <= m
  <2>1. ~(m < n) /\ m \in Nat /\ n \in Nat
    BY <1>2, <1>3
  <2> QED
    BY <2>1
<1> QED
  BY <1>4

LEMMA SetInduction ==
    ASSUME NEW T, 0 \in T, \A n \in Nat : n \in T => n + 1 \in T
    PROVE  Nat \subseteq T
<1> SUFFICES ASSUME Nat \ T # {} PROVE FALSE
  OBVIOUS
<1>1. PICK n \in Nat \ T : \A m \in Nat \ T : n <= m
  BY LeastNat
<1>2. n # 0
  OBVIOUS
<1>3. n - 1 \in Nat /\ n - 1 + 1 = n /\ ~(n <= n - 1)
  BY <1>2
<1> QED
  BY <1>1, <1>3

LEMMA SnocInduction ==
    ASSUME NEW S, NEW T, <<>> \in T,
           \A s \in Seq(S) : s \in T => \A x \in S : Append(s, x) \in T
    PROVE  Seq(S) \subseteq T
<1> DEFINE N == {n \in Nat : \A s \in Seq(S) : Len(s) = n => s \in T}
<1>1. 0 \in N
  BY EmptySeq
<1>2. ASSUME NEW n \in Nat, n \in N, NEW s \in Seq(S), Len(s) = n + 1
      PROVE  s \in T
  <2> DEFINE front == [i \in 1 .. n |-> s[i]]
  <2>0. \A i \in 1 .. n + 1 : s[i] \in S
    BY <1>2
  <2>1. front \in Seq(S) /\ Len(front) = n /\ s[n + 1] \in S
    BY <2>0
  <2>2. \A i \in 1 .. n : front[i] = s[i]
    OBVIOUS
  <2> HIDE DEF front
  <2>3. Append(front, s[n + 1]) \in Seq(S) /\ Len(Append(front, s[n + 1])) = n + 1
    BY <2>1
  <2>4. \A i \in 1 .. n + 1 : Append(front, s[n + 1])[i] = s[i]
    BY <2>1, <2>2
  <2>5. s = Append(front, s[n + 1])
    BY <1>2, <2>3, <2>4, SeqEqual
  <2>6. front \in T
    BY <1>2, <2>1
  <2> QED
    BY <2>1, <2>5, <2>6
<1>3. Nat \subseteq N
  <2>1. \A n \in Nat : n \in N => n + 1 \in N
    BY <1>2
  <2> HIDE DEF N
  <2> QED
    BY <1>1, <2>1, SetInduction
<1>4. \A s \in Seq(S) : Len(s) \in N
  BY <1>3
<1> QED
  BY <1>4

-----------------------------------------------------------------------------
(***************************************************************************)
(* FlattenSeq.                                                             *)
(***************************************************************************)
\* flat[i] is the concatenation of the first i members of s.
IsFlat(flat, s, n) ==
    flat = [i \in 1 .. n |-> IF i = 1 THEN s[i] ELSE flat[i - 1] \o s[i]]

LEMMA FlatAt ==
    ASSUME NEW flat, NEW s, NEW n, IsFlat(flat, s, n), NEW i \in 1 .. n
    PROVE  flat[i] = IF i = 1 THEN s[i] ELSE flat[i - 1] \o s[i]
<1> DEFINE f == [j \in 1 .. n |-> IF j = 1 THEN s[j] ELSE flat[j - 1] \o s[j]]
<1>1. flat = f
  BY DEF IsFlat
<1>2. f[i] = IF i = 1 THEN s[i] ELSE flat[i - 1] \o s[i]
  OBVIOUS
<1> HIDE DEF f
<1> QED
  BY <1>1, <1>2

LEMMA FlatExists ==
    ASSUME NEW s, NEW n \in Nat
    PROVE  \E flat : IsFlat(flat, s, n)
<1> DEFINE N == {m \in Nat : \E flat : IsFlat(flat, s, m)}
<1>1. 0 \in N
  <2> DEFINE empty == [i \in 1 .. 0 |-> 0]
  <2>1. IsFlat(empty, s, 0)
    BY DEF IsFlat
  <2> QED
    BY <2>1
<1>2. ASSUME NEW m \in Nat, m \in N PROVE m + 1 \in N
  <2>1. PICK flat : IsFlat(flat, s, m)
    BY <1>2
  <2> DEFINE next == IF m = 0 THEN s[m + 1] ELSE flat[m] \o s[m + 1]
             longer == [i \in 1 .. m + 1 |-> IF i = m + 1 THEN next ELSE flat[i]]
  <2>2. \A i \in 1 .. m : longer[i] = flat[i]
    OBVIOUS
  <2>3. longer[m + 1] = next
    OBVIOUS
  <2>4. ASSUME NEW i \in 1 .. m + 1
        PROVE  longer[i] = IF i = 1 THEN s[i] ELSE longer[i - 1] \o s[i]
    <3>1. CASE i = m + 1
      <4>1. m # 0 => longer[m] = flat[m]
        BY <2>2
      <4>2. i = 1 <=> m = 0
        BY <3>1
      <4>3. i - 1 = m
        BY <3>1
      <4> HIDE DEF longer
      <4> QED
        BY <2>3, <3>1, <4>1, <4>2, <4>3
    <3>2. CASE i \in 1 .. m
      <4>1. flat[i] = IF i = 1 THEN s[i] ELSE flat[i - 1] \o s[i]
        BY <2>1, <3>2 DEF IsFlat
      <4>2. i # 1 => i - 1 \in 1 .. m
        BY <3>2
      <4> HIDE DEF longer
      <4> QED
        BY <2>2, <3>2, <4>1, <4>2
    <3> QED
      BY <3>1, <3>2
  <2>5. DOMAIN longer = 1 .. m + 1 /\ longer = [i \in 1 .. m + 1 |-> longer[i]]
    OBVIOUS
  <2> HIDE DEF longer
  <2>6. IsFlat(longer, s, m + 1)
    BY <2>4, <2>5 DEF IsFlat
  <2> QED
    BY <2>6
<1>3. Nat \subseteq N
  <2>1. \A m \in Nat : m \in N => m + 1 \in N
    BY <1>2
  <2> HIDE DEF N
  <2> QED
    BY <1>1, <2>1, SetInduction
<1> QED
  BY <1>3

LEMMA FlattenIs ==
    ASSUME NEW s, Len(s) \in Nat, Len(s) # 0
    PROVE  \E flat : IsFlat(flat, s, Len(s)) /\ FlattenSeq(s) = flat[Len(s)]
<1> DEFINE F == CHOOSE flat : IsFlat(flat, s, Len(s))
<1>1. IsFlat(F, s, Len(s))
  <2>1. \E flat : IsFlat(flat, s, Len(s))
    BY FlatExists
  <2> QED
    BY <2>1
<1>2. FlattenSeq(s) = F[Len(s)]
  BY DEF FlattenSeq, IsFlat
<1> QED
  BY <1>1, <1>2

LEMMA FlattenEmpty == FlattenSeq(<<>>) = <<>>
BY DEF FlattenSeq

LEMMA FlattenAppend ==
    ASSUME NEW S, NEW s \in Seq(Seq(S)), NEW x \in Seq(S)
    PROVE  FlattenSeq(Append(s, x)) = FlattenSeq(s) \o x
<1> DEFINE t == Append(s, x)
           n == Len(s)
<1>1. /\ n \in Nat /\ Len(t) = n + 1 /\ t[n + 1] = x
      /\ \A i \in 1 .. n : t[i] = s[i]
  OBVIOUS
<1> HIDE DEF t, n
<1>2. PICK G : IsFlat(G, t, n + 1) /\ FlattenSeq(t) = G[n + 1]
  <2>1. Len(t) \in Nat /\ Len(t) # 0
    BY <1>1
  <2> QED
    BY <1>1, <2>1, FlattenIs
<1>3. CASE n = 0
  <2>1. G[1] = x
    BY <1>1, <1>2, <1>3 DEF IsFlat
  <2>2. s = <<>>
    BY <1>3, EmptySeq DEF n
  <2>3. <<>> \o x = x
    OBVIOUS
  <2> QED
    BY <1>2, <1>3, <2>1, <2>2, <2>3, FlattenEmpty DEF t
<1>4. CASE n # 0
  <2>1. PICK F : IsFlat(F, s, n) /\ FlattenSeq(s) = F[n]
    BY <1>1, <1>4, FlattenIs DEF n
  <2> DEFINE N == {i \in Nat : i \in 1 .. n => G[i] = F[i]}
  <2>2. 0 \in N
    OBVIOUS
  <2>3. ASSUME NEW i \in Nat, i \in N PROVE i + 1 \in N
    <3> SUFFICES ASSUME i + 1 \in 1 .. n PROVE G[i + 1] = F[i + 1]
      OBVIOUS
    <3>1. i + 1 \in 1 .. n + 1 /\ i + 1 - 1 = i /\ t[i + 1] = s[i + 1]
      BY <1>1
    <3>2. G[i + 1] = IF i + 1 = 1 THEN t[i + 1] ELSE G[i + 1 - 1] \o t[i + 1]
      BY <1>2, <3>1, FlatAt
    <3>3. F[i + 1] = IF i + 1 = 1 THEN s[i + 1] ELSE F[i + 1 - 1] \o s[i + 1]
      BY <2>1, FlatAt
    <3>4. i + 1 # 1 => G[i] = F[i]
      BY <1>1, <2>3
    <3> QED
      BY <3>1, <3>2, <3>3, <3>4
  <2>4. Nat \subseteq N
    <3>1. \A i \in Nat : i \in N => i + 1 \in N
      BY <2>3
    <3> HIDE DEF N
    <3> QED
      BY <2>2, <3>1, SetInduction
  <2>5. n \in N /\ n \in 1 .. n
    BY <1>1, <1>4, <2>4
  <2>6. G[n] = F[n]
    BY <2>5
  <2>7. PICK m : m = n + 1
    OBVIOUS
  <2>8. m \in 1 .. n + 1 /\ m # 1 /\ m - 1 = n
    BY <1>1, <1>4, <2>7
  <2>9. \A i \in 1 .. n + 1 : G[i] = IF i = 1 THEN t[i] ELSE G[i - 1] \o t[i]
    BY <1>2, FlatAt
  <2>10. G[m] = G[m - 1] \o t[m]
    BY <2>8, <2>9
  <2>11. G[m - 1] = F[n] /\ t[m] = x
    BY <1>1, <2>6, <2>7, <2>8
  <2> HIDE DEF N
  <2> QED
    BY <1>2, <2>1, <2>7, <2>10, <2>11 DEF t
<1> QED
  BY <1>3, <1>4

LEMMA FlattenType ==
    ASSUME NEW S, NEW s \in Seq(Seq(S))
    PROVE  FlattenSeq(s) \in Seq(S)
<1> DEFINE T == {t \in Seq(Seq(S)) : FlattenSeq(t) \in Seq(S)}
<1>1. <<>> \in T
  <2>1. <<>> \in Seq(S) /\ <<>> \in Seq(Seq(S))
    OBVIOUS
  <2> QED
    BY <2>1, FlattenEmpty
<1>2. ASSUME NEW t \in Seq(Seq(S)), t \in T, NEW x \in Seq(S) PROVE Append(t, x) \in T
  <2>1. FlattenSeq(t) \o x \in Seq(S)
    BY <1>2
  <2>2. FlattenSeq(Append(t, x)) = FlattenSeq(t) \o x
    BY FlattenAppend
  <2>3. Append(t, x) \in Seq(Seq(S))
    OBVIOUS
  <2> QED
    BY <2>1, <2>2, <2>3
<1>3. Seq(Seq(S)) \subseteq T
  <2>1. \A t \in Seq(Seq(S)) : t \in T => \A x \in Seq(S) : Append(t, x) \in T
    BY <1>2
  <2> HIDE DEF T
  <2> QED
    BY <1>1, <2>1, SnocInduction
<1> QED
  BY <1>3

LEMMA RangeConcat ==
    ASSUME NEW S, NEW s \in Seq(S), NEW t \in Seq(S)
    PROVE  Range(s \o t) = Range(s) \union Range(t)
<1>1. /\ Len(s) \in Nat /\ Len(t) \in Nat /\ Len(s \o t) = Len(s) + Len(t)
      /\ DOMAIN s = 1 .. Len(s) /\ DOMAIN t = 1 .. Len(t)
      /\ DOMAIN (s \o t) = 1 .. Len(s) + Len(t)
      /\ \A i \in 1 .. Len(s) + Len(t) :
            (s \o t)[i] = IF i <= Len(s) THEN s[i] ELSE t[i - Len(s)]
  OBVIOUS
<1>2. ASSUME NEW i \in DOMAIN (s \o t) PROVE (s \o t)[i] \in Range(s) \union Range(t)
  <2>1. CASE i <= Len(s)
    BY <1>1, <1>2, <2>1 DEF Range
  <2>2. CASE ~(i <= Len(s))
    <3>1. i - Len(s) \in DOMAIN t
      BY <1>1, <1>2, <2>2
    <3> QED
      BY <1>1, <1>2, <2>2, <3>1 DEF Range
  <2> QED
    BY <2>1, <2>2
<1>3. ASSUME NEW i \in DOMAIN s PROVE s[i] \in Range(s \o t)
  <2>1. i \in DOMAIN (s \o t) /\ (s \o t)[i] = s[i]
    BY <1>1
  <2> QED
    BY <2>1 DEF Range
<1>4. ASSUME NEW i \in DOMAIN t PROVE t[i] \in Range(s \o t)
  <2>1. Len(s) + i \in DOMAIN (s \o t) /\ (s \o t)[Len(s) + i] = t[i]
    BY <1>1
  <2> QED
    BY <2>1 DEF Range
<1> QED
  BY <1>2, <1>3, <1>4 DEF Range

LEMMA FlattenRange ==
    ASSUME NEW S, NEW s \in Seq(Seq(S))
    PROVE  Range(FlattenSeq(s)) = UNION {Range(s[i]) : i \in DOMAIN s}
<1> DEFINE All(t) == UNION {Range(t[i]) : i \in DOMAIN t}
           T == {t \in Seq(Seq(S)) : Range(FlattenSeq(t)) = All(t)}
<1>1. <<>> \in T
  BY FlattenEmpty DEF Range
<1>2. ASSUME NEW t \in Seq(Seq(S)), t \in T, NEW x \in Seq(S) PROVE Append(t, x) \in T
  <2>1. Range(FlattenSeq(Append(t, x))) = Range(FlattenSeq(t)) \union Range(x)
    <3>1. FlattenSeq(Append(t, x)) = FlattenSeq(t) \o x
      BY FlattenAppend
    <3>2. FlattenSeq(t) \in Seq(S)
      BY FlattenType
    <3> QED
      BY <3>1, <3>2, RangeConcat
  <2>2. /\ DOMAIN Append(t, x) = DOMAIN t \union {Len(t) + 1}
        /\ \A i \in DOMAIN t : Append(t, x)[i] = t[i]
        /\ Append(t, x)[Len(t) + 1] = x
    OBVIOUS
  <2>3. All(Append(t, x)) = All(t) \union Range(x)
    BY <2>2
  <2>4. Append(t, x) \in Seq(Seq(S))
    OBVIOUS
  <2> QED
    BY <1>2, <2>1, <2>3, <2>4
<1>3. Seq(Seq(S)) \subseteq T
  <2>1. \A t \in Seq(Seq(S)) : t \in T => \A x \in Seq(S) : Append(t, x) \in T
    BY <1>2
  <2> HIDE DEF T
  <2> QED
    BY <1>1, <2>1, SnocInduction
<1> QED
  BY <1>3

-----------------------------------------------------------------------------
(***************************************************************************)
(* The largest member of a set of numbers that is bounded, and the least.  *)
(***************************************************************************)
LEMMA MaxFacts ==
    ASSUME NEW n \in Nat, NEW S \in SUBSET (0 .. n), S # {}
    PROVE  /\ Max(S) \in S
           /\ \A x \in S : x <= Max(S)
           /\ \A m \in S : (\A x \in S : x <= m) => Max(S) = m
<1> DEFINE T == {n - x : x \in S}
<1>0. \A x \in S : x \in Nat /\ n - x \in Nat
  OBVIOUS
<1>1. T \in SUBSET Nat /\ T # {}
  <2>1. T \in SUBSET Nat
    BY <1>0
  <2>2. PICK x \in S : TRUE
    OBVIOUS
  <2>3. n - x \in T
    OBVIOUS
  <2> QED
    BY <2>1, <2>3
<1>2. PICK t \in T : \A u \in T : t <= u
  BY <1>1, LeastNat
<1>3. PICK m \in S : t = n - m
  BY <1>2
<1>4. ASSUME NEW x \in S PROVE x <= m
  <2>1. n - x \in T
    OBVIOUS
  <2>2. n - m <= n - x
    BY <1>2, <1>3, <2>1
  <2> QED
    BY <1>0, <2>2
<1>5. \A y \in S : (\A x \in S : x <= y) => y = m
  <2>1. ASSUME NEW y \in S, \A x \in S : x <= y PROVE y = m
    <3>1. y <= m /\ m <= y
      BY <1>4, <2>1
    <3> QED
      BY <1>0, <3>1
  <2> QED
    BY <2>1
<1>6. Max(S) \in S /\ \A x \in S : x <= Max(S)
  BY <1>4 DEF Max
<1> QED
  BY <1>5, <1>6

LEMMA MinFacts ==
    ASSUME NEW S \in SUBSET Nat, S # {}
    PROVE  /\ Min(S) \in S
           /\ \A x \in S : Min(S) <= x
<1>1. PICK m \in S : \A x \in S : m <= x
  BY LeastNat
<1> QED
  BY <1>1 DEF Min

-----------------------------------------------------------------------------
(***************************************************************************)
(* SumFunctionOnSet, for a finite set and natural numbers.                 *)
(***************************************************************************)
Chosen(s) == CHOOSE x \in s : TRUE

\* The sum of f over the members of s, from the sum over all but one.
SumStep(f, g, s) == IF s = {} THEN 0 ELSE f[Chosen(s)] + g[s \ {Chosen(s)}]

\* g[s] is the sum of f over s, for every subset s of S.
IsSums(g, f, S) == g = [s \in SUBSET S |-> SumStep(f, g, s)]

LEMMA SumIs ==
    ASSUME NEW f, NEW S
    PROVE  SumFunctionOnSet(f, S) = (CHOOSE g : IsSums(g, f, S))[S]
BY DEF SumFunctionOnSet, FoldFunctionOnSet, MapThenFoldSet, IsSums, SumStep, Chosen

LEMMA ChosenIn ==
    ASSUME NEW s, s # {}
    PROVE  Chosen(s) \in s
BY DEF Chosen

LEMMA SumsAt ==
    ASSUME NEW f, NEW g, NEW S, IsSums(g, f, S), NEW s \in SUBSET S
    PROVE  g[s] = SumStep(f, g, s)
<1> DEFINE h == [t \in SUBSET S |-> SumStep(f, g, t)]
<1>1. g = h
  BY DEF IsSums
<1>2. h[s] = SumStep(f, g, s)
  OBVIOUS
<1> HIDE DEF h
<1> QED
  BY <1>1, <1>2

LEMMA SubsetFacts ==
    ASSUME NEW S, IsFiniteSet(S), NEW s \in SUBSET S, s # {}
    PROVE  /\ Chosen(s) \in s /\ s \ {Chosen(s)} \in SUBSET S
           /\ Cardinality(s) \in Nat \ {0}
           /\ Cardinality(s \ {Chosen(s)}) = Cardinality(s) - 1
<1>1. IsFiniteSet(s)
  BY FS_Subset
<1>2. Chosen(s) \in s
  BY ChosenIn
<1>3. Cardinality(s) \in Nat /\ Cardinality(s) # 0
  BY <1>1, FS_CardinalityType, FS_EmptySet
<1>4. Cardinality(s \ {Chosen(s)}) = Cardinality(s) - 1
  BY <1>1, <1>2, FS_RemoveElement
<1> QED
  BY <1>2, <1>3, <1>4

LEMMA SumsExist ==
    ASSUME NEW U, NEW f \in [U -> Nat], NEW S \in SUBSET U, IsFiniteSet(S)
    PROVE  \E g : IsSums(g, f, S) /\ g \in [SUBSET S -> Nat]
<1> DEFINE Upto(g, n) == \A s \in SUBSET S : Cardinality(s) <= n => g[s] = SumStep(f, g, s)
           N == {n \in Nat : \E g \in [SUBSET S -> Nat] : Upto(g, n)}
<1>0. \A s \in SUBSET S : IsFiniteSet(s) /\ Cardinality(s) \in Nat
  BY FS_Subset, FS_CardinalityType
<1>1. 0 \in N
  <2> DEFINE g == [s \in SUBSET S |-> 0]
  <2>1. g \in [SUBSET S -> Nat]
    OBVIOUS
  <2>2. ASSUME NEW s \in SUBSET S, Cardinality(s) <= 0 PROVE g[s] = SumStep(f, g, s)
    <3>1. s = {}
      BY <1>0, <2>2, FS_EmptySet
    <3>2. g[s] = 0
      OBVIOUS
    <3> QED
      BY <3>1, <3>2 DEF SumStep
  <2> HIDE DEF g
  <2> QED
    BY <2>1, <2>2
<1>2. ASSUME NEW n \in Nat, n \in N PROVE n + 1 \in N
  <2>1. PICK g \in [SUBSET S -> Nat] : Upto(g, n)
    BY <1>2
  <2> DEFINE h == [s \in SUBSET S |-> IF Cardinality(s) <= n THEN g[s] ELSE SumStep(f, g, s)]
  <2>2. \A s \in SUBSET S : h[s] = SumStep(f, g, s) \/ h[s] = g[s]
    OBVIOUS
  <2>3. ASSUME NEW s \in SUBSET S PROVE SumStep(f, g, s) \in Nat
    <3>1. CASE s = {}
      BY <3>1 DEF SumStep
    <3>2. CASE s # {}
      <4>1. Chosen(s) \in U /\ s \ {Chosen(s)} \in SUBSET S
        BY <3>2, SubsetFacts
      <4>2. f[Chosen(s)] \in Nat /\ g[s \ {Chosen(s)}] \in Nat
        BY <4>1
      <4> QED
        BY <3>2, <4>2 DEF SumStep
    <3> QED
      BY <3>1, <3>2
  <2>4. h \in [SUBSET S -> Nat]
    BY <2>3
  <2>5. ASSUME NEW s \in SUBSET S, Cardinality(s) <= n + 1 PROVE h[s] = SumStep(f, h, s)
    <3>1. h[s] = SumStep(f, g, s)
      BY <2>1
    <3>2. CASE s = {}
      BY <3>1, <3>2 DEF SumStep
    <3>3. CASE s # {}
      <4> DEFINE r == s \ {Chosen(s)}
      <4>1. r \in SUBSET S /\ Cardinality(r) = Cardinality(s) - 1 /\ Cardinality(s) \in Nat
        BY <3>3, SubsetFacts
      <4>2. Cardinality(r) <= n
        BY <2>5, <4>1
      <4>3. h[r] = g[r]
        BY <4>1, <4>2
      <4> HIDE DEF h
      <4> QED
        BY <3>1, <3>3, <4>3 DEF SumStep
    <3> QED
      BY <3>2, <3>3
  <2>6. Upto(h, n + 1)
    BY <2>5
  <2> HIDE DEF h
  <2> QED
    BY <2>4, <2>6
<1>3. Cardinality(S) \in N
  <2>1. \A n \in Nat : n \in N => n + 1 \in N
    BY <1>2
  <2> HIDE DEF N
  <2>2. Nat \subseteq N
    BY <1>1, <2>1, SetInduction
  <2> QED
    BY <1>0, <2>2
<1>4. PICK g \in [SUBSET S -> Nat] : Upto(g, Cardinality(S))
  BY <1>3
<1>5. \A s \in SUBSET S : g[s] = SumStep(f, g, s)
  BY <1>4, FS_Subset
<1>6. g = [s \in SUBSET S |-> SumStep(f, g, s)]
  BY <1>5
<1> QED
  BY <1>6 DEF IsSums

\* Where the sums over two sets are both defined, they are the same.
LEMMA SumsAgree ==
    ASSUME NEW f, NEW S, IsFiniteSet(S), NEW T, IsFiniteSet(T),
           NEW g, IsSums(g, f, S), NEW h, IsSums(h, f, T),
           NEW s \in SUBSET S, s \in SUBSET T
    PROVE  g[s] = h[s]
<1> DEFINE N == {n \in Nat : \A r \in SUBSET S : r \in SUBSET T /\ Cardinality(r) = n
                                                   => g[r] = h[r]}
<1>1. 0 \in N
  <2>1. ASSUME NEW r \in SUBSET S, r \in SUBSET T, Cardinality(r) = 0 PROVE g[r] = h[r]
    <3>1. r = {}
      BY <2>1, FS_Subset, FS_EmptySet
    <3>2. g[r] = SumStep(f, g, r) /\ h[r] = SumStep(f, h, r)
      BY <2>1, SumsAt
    <3> QED
      BY <3>1, <3>2 DEF SumStep
  <2> QED
    BY <2>1
<1>2. ASSUME NEW n \in Nat, n \in N PROVE n + 1 \in N
  <2>1. ASSUME NEW r \in SUBSET S, r \in SUBSET T, Cardinality(r) = n + 1 PROVE g[r] = h[r]
    <3>1. g[r] = SumStep(f, g, r) /\ h[r] = SumStep(f, h, r)
      BY <2>1, SumsAt
    <3>2. CASE r = {}
      BY <3>1, <3>2 DEF SumStep
    <3>3. CASE r # {}
      <4> DEFINE q == r \ {Chosen(r)}
      <4>1. q \in SUBSET S /\ q \in SUBSET T /\ Cardinality(q) = Cardinality(r) - 1
        BY <2>1, <3>3, SubsetFacts
      <4>2. Cardinality(q) = n
        BY <2>1, <4>1
      <4>3. g[q] = h[q]
        BY <1>2, <4>1, <4>2
      <4> QED
        BY <3>1, <3>3, <4>3 DEF SumStep
    <3> QED
      BY <3>2, <3>3
  <2> QED
    BY <2>1
<1>3. Cardinality(s) \in N
  <2>1. \A n \in Nat : n \in N => n + 1 \in N
    BY <1>2
  <2>2. Cardinality(s) \in Nat
    BY FS_Subset, FS_CardinalityType
  <2> HIDE DEF N
  <2>3. Nat \subseteq N
    BY <1>1, <2>1, SetInduction
  <2> QED
    BY <2>2, <2>3
<1> QED
  BY <1>3

LEMMA SumUnfold ==
    ASSUME NEW U, NEW f \in [U -> Nat], NEW S \in SUBSET U, IsFiniteSet(S)
    PROVE  /\ SumFunctionOnSet(f, S) \in Nat
           /\ SumFunctionOnSet(f, S) =
                 IF S = {} THEN 0
                 ELSE f[Chosen(S)] + SumFunctionOnSet(f, S \ {Chosen(S)})
<1> DEFINE sums(T) == CHOOSE g : IsSums(g, f, T)
<1>1. ASSUME NEW T \in SUBSET S PROVE IsSums(sums(T), f, T) /\ SumFunctionOnSet(f, T) = sums(T)[T]
  <2>1. \E g : IsSums(g, f, T)
    BY FS_Subset, SumsExist
  <2> QED
    BY <2>1, SumIs
<1>2. PICK g : IsSums(g, f, S) /\ g \in [SUBSET S -> Nat]
  BY SumsExist
<1>3. ASSUME NEW T \in SUBSET S PROVE SumFunctionOnSet(f, T) = g[T]
  <2>1. IsFiniteSet(T)
    BY FS_Subset
  <2>2. PICK h : h = sums(T)
    OBVIOUS
  <2>3. IsSums(h, f, T) /\ SumFunctionOnSet(f, T) = h[T]
    BY <1>1, <2>2
  <2>4. g[T] = h[T]
    BY <1>2, <2>1, <2>3, SumsAgree
  <2> QED
    BY <2>3, <2>4
<1> HIDE DEF sums
<1>4. g[S] = SumStep(f, g, S) /\ g[S] \in Nat
  BY <1>2, SumsAt
<1>5. CASE S = {}
  BY <1>3, <1>4, <1>5 DEF SumStep
<1>6. CASE S # {}
  BY <1>3, <1>4, <1>6 DEF SumStep
<1> QED
  BY <1>5, <1>6

LEMMA SumEmpty ==
    ASSUME NEW U, NEW f \in [U -> Nat]
    PROVE  SumFunctionOnSet(f, {}) = 0
BY SumUnfold, FS_EmptySet

LEMMA SumType ==
    ASSUME NEW U, NEW f \in [U -> Nat], NEW S \in SUBSET U, IsFiniteSet(S)
    PROVE  SumFunctionOnSet(f, S) \in Nat
BY SumUnfold

\* Whichever member CHOOSE takes first.
LEMMA SumAdd ==
    ASSUME NEW U, NEW f \in [U -> Nat], NEW S \in SUBSET U, IsFiniteSet(S),
           NEW x \in U \ S
    PROVE  SumFunctionOnSet(f, S \union {x}) = f[x] + SumFunctionOnSet(f, S)
<1> DEFINE sum(T) == SumFunctionOnSet(f, T)
           N == {n \in Nat : \A T \in SUBSET U : IsFiniteSet(T) /\ Cardinality(T) = n =>
                                \A y \in U \ T : sum(T \union {y}) = f[y] + sum(T)}
<1>0. ASSUME NEW T \in SUBSET U, IsFiniteSet(T), T # {}
      PROVE  /\ Chosen(T) \in T /\ f[Chosen(T)] \in Nat /\ sum(T \ {Chosen(T)}) \in Nat
             /\ sum(T) = f[Chosen(T)] + sum(T \ {Chosen(T)})
  <2>1. Chosen(T) \in T
    BY <1>0, ChosenIn
  <2>2. IsFiniteSet(T \ {Chosen(T)})
    BY <1>0, FS_RemoveElement
  <2>3. sum(T \ {Chosen(T)}) \in Nat
    BY <2>2, SumType
  <2> QED
    BY <1>0, <2>1, <2>3, SumUnfold
<1>1. 0 \in N
  <2>1. ASSUME NEW T \in SUBSET U, IsFiniteSet(T), Cardinality(T) = 0, NEW y \in U \ T
        PROVE  sum(T \union {y}) = f[y] + sum(T)
    <3>1. T = {}
      BY <2>1, FS_EmptySet
    <3>2. IsFiniteSet({y})
      BY <3>1, FS_EmptySet, FS_AddElement
    <3>3. Chosen({y}) = y
      BY ChosenIn
    <3>4. sum({y}) = f[y] + sum({y} \ {y})
      <4>1. {y} \in SUBSET U /\ {y} # {}
        OBVIOUS
      <4>2. sum({y}) = f[Chosen({y})] + sum({y} \ {Chosen({y})})
        BY <1>0, <3>2, <4>1
      <4> QED
        BY <3>3, <4>2
    <3>5. {y} \ {y} = T /\ T \union {y} = {y}
      BY <3>1
    <3> QED
      BY <3>4, <3>5
  <2> QED
    BY <2>1
<1>2. ASSUME NEW n \in Nat, n \in N PROVE n + 1 \in N
  <2>1. ASSUME NEW T \in SUBSET U, IsFiniteSet(T), Cardinality(T) = n + 1, NEW y \in U \ T
        PROVE  sum(T \union {y}) = f[y] + sum(T)
    <3>0. T # {}
      BY <2>1, FS_EmptySet
    <3> DEFINE A == T \union {y}
               c == Chosen(A)
    <3>1. IsFiniteSet(A) /\ A \in SUBSET U /\ A # {}
      BY <2>1, FS_AddElement
    <3>2. c \in A /\ sum(A) = f[c] + sum(A \ {c})
      <4> HIDE DEF A
      <4> QED
        BY <1>0, <3>1
    <3> HIDE DEF c
    <3>3. CASE c = y
      <4>1. A \ {c} = T
        BY <3>3
      <4> QED
        BY <3>2, <3>3, <4>1
    <3>4. CASE c # y
      <4> DEFINE R == T \ {c}
      <4>1. c \in T
        BY <3>2, <3>4
      <4>2. IsFiniteSet(R) /\ Cardinality(R) = n /\ R \in SUBSET U
        <5>1. IsFiniteSet(R) /\ Cardinality(R) = Cardinality(T) - 1
          BY <2>1, <4>1, FS_RemoveElement
        <5>2. R \in SUBSET U
          OBVIOUS
        <5> HIDE DEF R
        <5> QED
          BY <2>1, <5>1, <5>2
      <4>3. A \ {c} = R \union {y} /\ T = R \union {c}
        BY <3>4, <4>1
      <4>4. c \in U \ R /\ y \in U \ R
        BY <4>1
      <4> HIDE DEF R, A
      <4>5. sum(R \union {y}) = f[y] + sum(R) /\ sum(R \union {c}) = f[c] + sum(R)
        BY <1>2, <4>2, <4>4
      <4>6. sum(R) \in Nat
        BY <4>2, SumType
      <4>7. f[c] \in Nat /\ f[y] \in Nat
        BY <4>4
      <4>8. \A a, b, d \in Nat : a + (b + d) = b + (a + d)
        OBVIOUS
      <4>9. sum(A) = f[c] + (f[y] + sum(R))
        BY <3>2, <4>3, <4>5
      <4>10. sum(T) = f[c] + sum(R)
        BY <4>3, <4>5
      <4> HIDE DEF sum
      <4>11. sum(A) = f[y] + sum(T)
        BY <4>6, <4>7, <4>8, <4>9, <4>10
      <4> QED
        BY <4>11 DEF A
    <3> QED
      BY <3>3, <3>4
  <2> QED
    BY <2>1
<1>3. Cardinality(S) \in N
  <2>1. \A n \in Nat : n \in N => n + 1 \in N
    BY <1>2
  <2>2. Cardinality(S) \in Nat
    BY FS_CardinalityType
  <2> HIDE DEF N
  <2>3. Nat \subseteq N
    BY <1>1, <2>1, SetInduction
  <2> QED
    BY <2>2, <2>3
<1> QED
  BY <1>3

LEMMA SumMonotone ==
    ASSUME NEW U, NEW f \in [U -> Nat], NEW g \in [U -> Nat],
           NEW S \in SUBSET U, IsFiniteSet(S), \A x \in S : f[x] <= g[x]
    PROVE  SumFunctionOnSet(f, S) <= SumFunctionOnSet(g, S)
<1> DEFINE N == {n \in Nat : \A T \in SUBSET S : Cardinality(T) = n =>
                                SumFunctionOnSet(f, T) <= SumFunctionOnSet(g, T)}
<1>1. 0 \in N
  <2>1. ASSUME NEW T \in SUBSET S, Cardinality(T) = 0
        PROVE  SumFunctionOnSet(f, T) <= SumFunctionOnSet(g, T)
    <3>1. T = {}
      BY <2>1, FS_Subset, FS_EmptySet
    <3> QED
      BY <3>1, SumEmpty
  <2> QED
    BY <2>1
<1>2. ASSUME NEW n \in Nat, n \in N PROVE n + 1 \in N
  <2>1. ASSUME NEW T \in SUBSET S, Cardinality(T) = n + 1
        PROVE  SumFunctionOnSet(f, T) <= SumFunctionOnSet(g, T)
    <3>1. IsFiniteSet(T) /\ T # {}
      BY <2>1, FS_Subset, FS_EmptySet
    <3>2. PICK x \in T : TRUE
      BY <3>1
    <3> DEFINE R == T \ {x}
    <3>3. IsFiniteSet(R) /\ Cardinality(R) = n /\ R \in SUBSET S /\ R \in SUBSET U
      <4>1. IsFiniteSet(R) /\ Cardinality(R) = Cardinality(T) - 1
        BY <3>1, <3>2, FS_RemoveElement
      <4>2. R \in SUBSET S /\ R \in SUBSET U
        OBVIOUS
      <4> HIDE DEF R
      <4> QED
        BY <2>1, <4>1, <4>2
    <3>4. T = R \union {x} /\ x \in U \ R
      OBVIOUS
    <3> HIDE DEF R
    <3>5. /\ SumFunctionOnSet(f, R \union {x}) = f[x] + SumFunctionOnSet(f, R)
          /\ SumFunctionOnSet(g, R \union {x}) = g[x] + SumFunctionOnSet(g, R)
      BY <3>3, <3>4, SumAdd
    <3>6. SumFunctionOnSet(f, R) <= SumFunctionOnSet(g, R)
      BY <1>2, <3>3
    <3>7. SumFunctionOnSet(f, R) \in Nat /\ SumFunctionOnSet(g, R) \in Nat
      BY <3>3, SumType
    <3>8. f[x] \in Nat /\ g[x] \in Nat /\ f[x] <= g[x]
      BY <3>4
    <3>9. \A a, b, d, e \in Nat : a <= b /\ d <= e => a + d <= b + e
      OBVIOUS
    <3> QED
      BY <3>4, <3>5, <3>6, <3>7, <3>8, <3>9
  <2> QED
    BY <2>1
<1>3. Cardinality(S) \in N
  <2>1. \A n \in Nat : n \in N => n + 1 \in N
    BY <1>2
  <2>2. Cardinality(S) \in Nat
    BY FS_CardinalityType
  <2> HIDE DEF N
  <2>3. Nat \subseteq N
    BY <1>1, <2>1, SetInduction
  <2> QED
    BY <2>2, <2>3
<1> QED
  BY <1>3

-----------------------------------------------------------------------------
(***************************************************************************)
(* Sums over the first numbers.                                            *)
(***************************************************************************)
UpTo(a, k) == SumFunctionOnSet(a, 1 .. k)
LEMMA UpToNext ==
    ASSUME NEW n \in Nat, NEW a \in [1 .. n -> Nat], NEW k \in Nat, k < n
    PROVE  UpTo(a, k) \in Nat /\ UpTo(a, k + 1) = UpTo(a, k) + a[k + 1]
<1>1. 1 .. k \in SUBSET (1 .. n) /\ IsFiniteSet(1 .. k)
  BY FS_Interval
<1>2. k + 1 \in (1 .. n) \ (1 .. k) /\ 1 .. k + 1 = (1 .. k) \union {k + 1}
  OBVIOUS
<1>3. SumFunctionOnSet(a, 1 .. k) \in Nat
  BY <1>1, SumType
<1>4. SumFunctionOnSet(a, (1 .. k) \union {k + 1}) = a[k + 1] + SumFunctionOnSet(a, 1 .. k)
  <2>1. PICK U : U = 1 .. n
    OBVIOUS
  <2>2. PICK S : S = 1 .. k
    OBVIOUS
  <2>3. PICK x : x = k + 1
    OBVIOUS
  <2>4. PICK b : b = a
    OBVIOUS
  <2>5. b \in [U -> Nat] /\ S \in SUBSET U /\ IsFiniteSet(S) /\ x \in U \ S
    BY <1>1, <1>2, <2>1, <2>2, <2>3, <2>4
  <2>6. SumFunctionOnSet(b, S \union {x}) = b[x] + SumFunctionOnSet(b, S)
    BY <2>5, SumAdd
  <2> QED
    BY <2>1, <2>2, <2>3, <2>4, <2>6
<1>5. a[k + 1] \in Nat
  BY <1>2
<1>6. \A x, y \in Nat : x + y = y + x
  OBVIOUS
<1> QED
  BY <1>2, <1>3, <1>4, <1>5, <1>6 DEF UpTo

LEMMA UpToGrows ==
    ASSUME NEW n \in Nat, NEW a \in [1 .. n -> Nat], NEW k \in 0 .. n
    PROVE  UpTo(a, k) \in Nat /\ \A j \in 0 .. k : UpTo(a, j) <= UpTo(a, k)
<1> DEFINE N == {i \in Nat : i <= n => UpTo(a, i) \in Nat /\ \A j \in 0 .. i : UpTo(a, j) <= UpTo(a, i)}
<1>1. 0 \in N
  <2>1. 1 .. 0 = {}
    OBVIOUS
  <2>2. UpTo(a, 0) = 0
    BY <2>1, SumEmpty DEF UpTo
  <2>3. \A j \in 0 .. 0 : j = 0
    OBVIOUS
  <2> QED
    BY <2>2, <2>3
<1>2. ASSUME NEW i \in Nat, i \in N PROVE i + 1 \in N
  <2> SUFFICES ASSUME i + 1 <= n
               PROVE  UpTo(a, i + 1) \in Nat /\ \A j \in 0 .. i + 1 : UpTo(a, j) <= UpTo(a, i + 1)
    OBVIOUS
  <2>1. i < n /\ i <= n /\ i + 1 \in 1 .. n
    OBVIOUS
  <2>2. UpTo(a, i) \in Nat /\ UpTo(a, i + 1) = UpTo(a, i) + a[i + 1] /\ a[i + 1] \in Nat
    BY <2>1, UpToNext
  <2>3. \A j \in 0 .. i : UpTo(a, j) <= UpTo(a, i) /\ UpTo(a, j) \in Nat
    <3>1. ASSUME NEW j \in 0 .. i PROVE UpTo(a, j) \in Nat
      <4>1. j \in Nat /\ j < n
        BY <2>1
      <4> QED
        BY <4>1, UpToNext
    <3> QED
      BY <1>2, <2>1, <3>1
  <2>4. PICK s \in Nat : s = UpTo(a, i)
    BY <2>2
  <2>5. PICK x \in Nat : x = a[i + 1]
    BY <2>2
  <2>6. UpTo(a, i + 1) = s + x
    BY <2>2, <2>4, <2>5
  <2>7. \A y \in Nat : y <= s => y <= s + x
    OBVIOUS
  <2>8. s + x \in Nat /\ s + x <= s + x
    OBVIOUS
  <2>9. \A j \in 0 .. i + 1 : j \in 0 .. i \/ j = i + 1
    OBVIOUS
  <2> QED
    BY <2>3, <2>4, <2>6, <2>7, <2>8, <2>9
<1>3. k \in N
  <2>1. \A i \in Nat : i \in N => i + 1 \in N
    BY <1>2
  <2> HIDE DEF N
  <2>2. Nat \subseteq N
    BY <1>1, <2>1, SetInduction
  <2> QED
    BY <2>2
<1> QED
  BY <1>3

LEMMA UpToZero ==
    ASSUME NEW n \in Nat, NEW a \in [1 .. n -> Nat]
    PROVE  UpTo(a, 0) = 0
<1>1. 1 .. 0 = {}
  OBVIOUS
<1> QED
  BY <1>1, SumEmpty DEF UpTo

\* The sum depends on what is summed up only.
LEMMA UpToSame ==
    ASSUME NEW n \in Nat, NEW a \in [1 .. n -> Nat], NEW m \in Nat, NEW b \in [1 .. m -> Nat],
           NEW k \in Nat, k <= n, k <= m, \A i \in 1 .. k : a[i] = b[i]
    PROVE  UpTo(a, k) = UpTo(b, k)
<1> DEFINE N == {i \in Nat : i <= k => UpTo(a, i) = UpTo(b, i)}
<1>1. 0 \in N
  BY UpToZero
<1>2. ASSUME NEW i \in Nat, i \in N PROVE i + 1 \in N
  <2> SUFFICES ASSUME i + 1 <= k PROVE UpTo(a, i + 1) = UpTo(b, i + 1)
    OBVIOUS
  <2>1. i < n /\ i < m /\ i <= k /\ i + 1 \in 1 .. k
    OBVIOUS
  <2>2. UpTo(a, i + 1) = UpTo(a, i) + a[i + 1] /\ UpTo(b, i + 1) = UpTo(b, i) + b[i + 1]
    BY <2>1, UpToNext
  <2>3. UpTo(a, i) = UpTo(b, i) /\ a[i + 1] = b[i + 1]
    BY <1>2, <2>1
  <2> QED
    BY <2>2, <2>3
<1>3. k \in N
  <2>1. \A i \in Nat : i \in N => i + 1 \in N
    BY <1>2
  <2> HIDE DEF N
  <2>2. Nat \subseteq N
    BY <1>1, <2>1, SetInduction
  <2> QED
    BY <2>2
<1> QED
  BY <1>3

=============================================================================
