----------------------------- MODULE FoldProofs -----------------------------
(***************************************************************************)
(* What the folds of the community modules return.  A lemma with an        *)
(* operator as parameter cannot be instantiated, so induction is stated of *)
(* a set of numbers, a fold by the values it passes through, and what is   *)
(* folded is given: a sum, a concatenation.                                *)
(***************************************************************************)
EXTENDS Integers, SequencesExt, FiniteSetTheorems, SequenceTheorems, WellFoundedInduction, TLAPS

-----------------------------------------------------------------------------
(* Numbers                                                                 *)

\* There is a least place, and a greatest one up to a bound.
LEMMA LeastNat == ASSUME NEW S \in SUBSET Nat, S # {} PROVE \E x \in S : \A y \in S : x <= y
<1>1. \E x \in S : \A y \in S : ~(<<y, x>> \in OpToRel(<, Nat))
  BY NatLessThanWellFounded, WFMin
<1>2. PICK x \in S : \A y \in S : ~(<<y, x>> \in OpToRel(<, Nat))
  BY <1>1
<1>3. \A y \in S : x <= y
  <2>1. \A y \in S : ~(y < x)
    BY <1>2 DEF OpToRel
  <2>2. QED BY <2>1
<1>4. QED BY <1>3

\* What holds of 0, and of a number if of the one before, holds up to the bound.
LEMMA Inductively ==
    ASSUME NEW n \in Nat, NEW P, 0 \in P, \A k \in 1..n : k - 1 \in P => k \in P
    PROVE  \A k \in 0..n : k \in P
<1> DEFINE Bad == {k \in 0..n : k \notin P}
<1> SUFFICES ASSUME Bad # {} PROVE FALSE
  OBVIOUS
<1>1. PICK k \in Bad : \A i \in Bad : k <= i
  <2>1. Bad \in SUBSET Nat
    OBVIOUS
  <2>. HIDE DEF Bad
  <2>2. QED BY <2>1, LeastNat
<1>2. k \in 1..n /\ k \notin P
  BY <1>1
<1>3. k - 1 \in P
  <2>1. k - 1 \in 0..n /\ ~(k <= k - 1)
    BY <1>2
  <2>2. QED BY <1>1, <2>1
<1>4. QED BY <1>2, <1>3

\* The same without a bound.
LEMMA InductivelyNat ==
    ASSUME NEW P, 0 \in P, \A k \in Nat \ {0} : k - 1 \in P => k \in P
    PROVE  \A k \in Nat : k \in P
<1>1. ASSUME NEW n \in Nat PROVE n \in P
  <2>1. n \in 0..n /\ \A k \in 1..n : k \in Nat \ {0}
    OBVIOUS
  <2>2. QED BY <2>1, Inductively
<1>2. QED BY <1>1

LEMMA MinFacts ==
    ASSUME NEW S \in SUBSET Nat, S # {}
    PROVE  Min(S) \in S /\ \A y \in S : Min(S) <= y
BY LeastNat DEF Min

LEMMA MinIs ==
    ASSUME NEW S \in SUBSET Nat, NEW x \in S, \A y \in S : x <= y
    PROVE  Min(S) = x
<1>1. Min(S) \in S /\ \A y \in S : Min(S) <= y
  BY MinFacts
<1>2. Min(S) <= x /\ x <= Min(S) /\ Min(S) \in Nat
  BY <1>1
<1>3. QED BY <1>2

LEMMA MaxIs ==
    ASSUME NEW S \in SUBSET Nat, NEW x \in S, \A y \in S : y <= x
    PROVE  Max(S) = x
<1>1. Max(S) \in S /\ \A y \in S : Max(S) >= y
  BY DEF Max
<1>2. Max(S) <= x /\ x <= Max(S) /\ Max(S) \in Nat
  BY <1>1
<1>3. QED BY <1>2

LEMMA MaxFacts ==
    ASSUME NEW n \in Nat, NEW S \in SUBSET (0..n), S # {}
    PROVE  Max(S) \in S /\ \A y \in S : y <= Max(S)
<1> DEFINE T == {n - y : y \in S}
<1>1. T \in SUBSET Nat /\ T # {}
  <2>1. \A y \in S : n - y \in Nat
    OBVIOUS
  <2>2. QED BY <2>1
<1>2. PICK t \in T : \A u \in T : t <= u
  BY <1>1, LeastNat
<1>3. PICK x \in S : t = n - x
  OBVIOUS
<1>4. \A y \in S : y <= x
  <2>1. \A y \in S : n - x <= n - y
    BY <1>2, <1>3
  <2>2. QED BY <2>1
<1>. HIDE DEF T
<1>5. Max(S) = x
  BY <1>4, MaxIs
<1>6. QED BY <1>4, <1>5

\* The numbers up to k, without the last one.
LEMMA UpTo ==
    ASSUME NEW k \in Nat \ {0}
    PROVE  1..k # {} /\ Max(1..k) = k /\ (1..k) \ {k} = 1..k - 1
<1>1. 1..k \in SUBSET Nat /\ k \in 1..k /\ \A y \in 1..k : y <= k
  OBVIOUS
<1>2. Max(1..k) = k
  BY <1>1, MaxIs
<1>3. \A y : y \in (1..k) \ {k} <=> y \in 1..k - 1
  OBVIOUS
<1>4. QED BY <1>1, <1>2, <1>3

-----------------------------------------------------------------------------
(* Folds                                                                   *)

\* The function that MapThenFoldSet asks for, from the greatest element down, whatever the
\* step does with an element and a value.
IsFold(f, n, base, step) ==
    \A s \in SUBSET (1..n) : f[s] = IF s = {} THEN base ELSE step[<<Max(s), f[s \ {Max(s)}]>>]

LEMMA FoldExists ==
    ASSUME NEW n \in Nat, NEW V, NEW base \in V, NEW step \in [(1..n) \X V -> V]
    PROVE  \E f \in [SUBSET (1..n) -> V] : IsFold(f, n, base, step)
<1> DEFINE Value(f, s) == IF s = {} THEN base ELSE step[<<Max(s), f[s \ {Max(s)}]>>]
           Is(f, k) == f \in [SUBSET (1..k) -> V] /\ \A s \in SUBSET (1..k) : f[s] = Value(f, s)
           P == {k \in 0..n : \E f : Is(f, k)}
<1>1. 0 \in P
  <2> DEFINE f == [s \in SUBSET (1..0) |-> base]
  <2>1. \A s \in SUBSET (1..0) : s = {}
    OBVIOUS
  <2>2. Is(f, 0)
    BY <2>1
  <2>. HIDE DEF Is
  <2>3. QED BY <2>2
<1>2. ASSUME NEW k \in 1..n, k - 1 \in P PROVE k \in P
  <2>1. PICK f : Is(f, k - 1)
    BY <1>2
  <2> DEFINE g == [s \in SUBSET (1..k) |-> IF k \in s THEN step[<<k, f[s \ {k}]>>] ELSE f[s]]
  <2>2. ASSUME NEW s \in SUBSET (1..k)
        PROVE  /\ k \notin s => s \in SUBSET (1..k - 1)
               /\ k \in s => Max(s) = k
               /\ s \ {k} \in SUBSET (1..k - 1)
    <3>1. \A y \in s : y \in Nat /\ y <= k /\ (y # k => y \in 1..k - 1)
      OBVIOUS
    <3>2. k \in s => Max(s) = k
      BY <3>1, MaxIs
    <3>3. QED BY <3>1, <3>2
  <2>3. \A s \in SUBSET (1..k - 1) : f[s] \in V /\ f[s] = Value(f, s)
    BY <2>1
  <2>4. ASSUME NEW s \in SUBSET (1..k) PROVE g[s] \in V
    <3>1. k \in s => <<k, f[s \ {k}]>> \in (1..n) \X V
      BY <2>2, <2>3
    <3>. HIDE DEF Value
    <3>2. QED BY <2>2, <2>3, <3>1
  <2>5. ASSUME NEW s \in SUBSET (1..k - 1) PROVE s \in SUBSET (1..k) /\ g[s] = f[s]
    <3>1. k \notin s /\ s \in SUBSET (1..k)
      OBVIOUS
    <3>2. QED BY <3>1
  <2>6. ASSUME NEW s \in SUBSET (1..k) PROVE g[s] = Value(g, s)
    <3>1. CASE k \in s
      <4>1. s # {} /\ Max(s) = k /\ g[s \ {k}] = f[s \ {k}]
        BY <2>2, <2>5, <3>1
      <4>2. g[s] = step[<<k, f[s \ {k}]>>]
        BY <3>1
      <4>. HIDE DEF g
      <4>3. QED BY <4>1, <4>2
    <3>2. CASE k \notin s
      <4>1. s \in SUBSET (1..k - 1) /\ g[s] = f[s] /\ f[s] = Value(f, s)
        BY <2>2, <2>3, <3>2
      <4>2. s # {} => s \ {Max(s)} \in SUBSET (1..k - 1)
        BY <4>1
      <4>3. s # {} => g[s \ {Max(s)}] = f[s \ {Max(s)}]
        BY <2>5, <4>2
      <4>. HIDE DEF g
      <4>4. QED BY <4>1, <4>3
    <3>3. QED BY <3>1, <3>2
  <2>7. Is(g, k)
    BY <2>4, <2>6
  <2>. HIDE DEF Is
  <2>8. QED BY <2>7
<1>3. n \in P
  <2>. HIDE DEF P
  <2>1. QED BY <1>1, <1>2, Inductively
<1>4. QED BY <1>3 DEF IsFold

\* The places that a fold over a sequence goes through.
LEMMA UptoFacts ==
    ASSUME NEW n \in Nat
    PROVE  /\ 1..0 = {} /\ \A k \in 0..n : 1..k \in SUBSET (1..n)
           /\ \A k \in 1..n : 1..k # {} /\ Max(1..k) = k /\ (1..k) \ {k} = 1..k - 1
<1>1. \A k \in 0..n : 1..k \in SUBSET (1..n)
  OBVIOUS
<1>2. ASSUME NEW k \in 1..n PROVE 1..k # {} /\ Max(1..k) = k /\ (1..k) \ {k} = 1..k - 1
  <2>1. k \in Nat \ {0}
    OBVIOUS
  <2>2. QED BY <2>1, UpTo
<1>3. 1..0 = {}
  OBVIOUS
<1>4. QED BY <1>1, <1>2, <1>3

SumOf(widths) == FoldLeft(LAMBDA sum, w : sum + w, 0, widths)

SumStep(f, widths, s) == IF s = {} THEN 0 ELSE f[s \ {Max(s)}] + widths[Max(s)]

Sums(f, widths) == f = [s \in SUBSET DOMAIN widths |-> SumStep(f, widths, s)]

LEMMA SumIs == ASSUME NEW widths PROVE SumOf(widths) = (CHOOSE f : Sums(f, widths))[DOMAIN widths]
BY DEF SumOf, Sums, SumStep, FoldLeft, MapThenFoldSet

LEMMA SumExists ==
    ASSUME NEW n \in Nat, NEW widths, DOMAIN widths = 1..n, \A i \in 1..n : widths[i] \in Nat
    PROVE  \E f : Sums(f, widths)
<1> DEFINE step == [p \in (1..n) \X Nat |-> p[2] + widths[p[1]]]
<1>1. step \in [(1..n) \X Nat -> Nat]
  <2>1. \A p \in (1..n) \X Nat : p[2] + widths[p[1]] \in Nat
    OBVIOUS
  <2>2. QED BY <2>1
<1>2. PICK f \in [SUBSET (1..n) -> Nat] : IsFold(f, n, 0, step)
  <2>1. 0 \in Nat
    OBVIOUS
  <2>. HIDE DEF step
  <2>2. QED BY <1>1, <2>1, FoldExists
<1>3. ASSUME NEW s \in SUBSET (1..n) PROVE f[s] = SumStep(f, widths, s)
  <2>1. CASE s = {}
    BY <1>2, <2>1 DEF SumStep, IsFold
  <2>2. CASE s # {}
    <3>1. Max(s) \in 1..n
      <4>1. s \in SUBSET (0..n)
        OBVIOUS
      <4>2. QED BY <2>2, <4>1, MaxFacts
    <3>2. s \ {Max(s)} \in SUBSET (1..n)
      OBVIOUS
    <3>3. <<Max(s), f[s \ {Max(s)}]>> \in (1..n) \X Nat
      BY <1>2, <3>1, <3>2
    <3>4. step[<<Max(s), f[s \ {Max(s)}]>>] = f[s \ {Max(s)}] + widths[Max(s)]
      BY <3>3
    <3>. HIDE DEF step
    <3>5. QED BY <1>2, <2>2, <3>4 DEF SumStep, IsFold
  <2>3. QED BY <2>1, <2>2
<1>4. f = [s \in SUBSET (1..n) |-> SumStep(f, widths, s)]
  BY <1>2, <1>3
<1>5. QED BY <1>4 DEF Sums

\* A sum is what its partial sums come to.
PartialSums(sum, n, widths) ==
    /\ sum \in [0..n -> Nat]
    /\ sum[0] = 0
    /\ \A k \in 1..n : sum[k] = sum[k - 1] + widths[k]

LEMMA SumValues ==
    ASSUME NEW n \in Nat, NEW widths, DOMAIN widths = 1..n, \A i \in 1..n : widths[i] \in Nat
    PROVE  \E sum : PartialSums(sum, n, widths) /\ SumOf(widths) = sum[n]
<1>1. PICK f : Sums(f, widths) /\ SumOf(widths) = f[1..n]
  <2>1. \E f : Sums(f, widths)
    BY SumExists
  <2>2. QED BY <2>1, SumIs
<1>2. /\ 1..0 = {} /\ \A k \in 0..n : 1..k \in SUBSET (1..n)
      /\ \A k \in 1..n : 1..k # {} /\ Max(1..k) = k /\ (1..k) \ {k} = 1..k - 1
  BY UptoFacts
<1>3. 0 \in 0..n /\ n \in 0..n /\ \A k \in 1..n : k \in 0..n /\ k - 1 \in 0..n
  OBVIOUS
<1>4. \A s \in SUBSET (1..n) : f[s] = SumStep(f, widths, s)
  BY <1>1 DEF Sums
<1>5. f[1..0] = 0
  BY <1>2, <1>3, <1>4 DEF SumStep
<1>6. ASSUME NEW k \in 1..n PROVE f[1..k] = f[1..k - 1] + widths[k]
  <2>1. 1..k \in SUBSET (1..n) /\ 1..k # {} /\ Max(1..k) = k /\ (1..k) \ {k} = 1..k - 1
    BY <1>2, <1>3
  <2>2. f[1..k] = SumStep(f, widths, 1..k)
    BY <1>4, <2>1
  <2>3. SumStep(f, widths, 1..k) = f[(1..k) \ {Max(1..k)}] + widths[Max(1..k)]
    BY <2>1 DEF SumStep
  <2>4. QED BY <2>1, <2>2, <2>3
<1> DEFINE P == {k \in 0..n : f[1..k] \in Nat}
<1>7. 0 \in P /\ \A k \in 1..n : k - 1 \in P => k \in P
  BY <1>3, <1>5, <1>6
<1>8. \A k \in 0..n : k \in P
  <2>. HIDE DEF P
  <2>1. QED BY <1>7, Inductively
<1> DEFINE sum == [k \in 0..n |-> f[1..k]]
<1>9. sum \in [0..n -> Nat]
  BY <1>8
<1>10. sum[0] = 0 /\ SumOf(widths) = sum[n] /\ \A k \in 1..n : sum[k] = sum[k - 1] + widths[k]
  BY <1>1, <1>3, <1>5, <1>6
<1>. HIDE DEF sum
<1>11. QED BY <1>9, <1>10 DEF PartialSums

-----------------------------------------------------------------------------
(* Concatenations                                                          *)

FlatStep(f, seqs, i) == IF i = 1 THEN seqs[i] ELSE f[i - 1] \o seqs[i]

Flattens(f, n, seqs) == f = [i \in 1..n |-> FlatStep(f, seqs, i)]

LEMMA FlattenIs ==
    ASSUME NEW seqs, Len(seqs) # 0
    PROVE  FlattenSeq(seqs) = (CHOOSE f : Flattens(f, Len(seqs), seqs))[Len(seqs)]
BY DEF FlattenSeq, Flattens, FlatStep

LEMMA FlattenExists ==
    ASSUME NEW n \in Nat, NEW seqs
    PROVE  \E f : Flattens(f, n, seqs)
<1> DEFINE P == {k \in 0..n : \E f : Flattens(f, k, seqs)}
<1>1. 0 \in P
  <2>1. [i \in 1..0 |-> 0] = [i \in 1..0 |-> FlatStep([j \in 1..0 |-> 0], seqs, i)]
    OBVIOUS
  <2>2. Flattens([i \in 1..0 |-> 0], 0, seqs)
    BY <2>1 DEF Flattens
  <2>3. QED BY <2>2
<1>2. ASSUME NEW k \in 1..n, k - 1 \in P PROVE k \in P
  <2>1. PICK f : Flattens(f, k - 1, seqs)
    BY <1>2
  <2> DEFINE g == [i \in 1..k |-> IF i = k THEN FlatStep(f, seqs, k) ELSE f[i]]
  <2>2. \A i \in 1..k - 1 : f[i] = FlatStep(f, seqs, i)
    BY <2>1 DEF Flattens
  <2>3. \A i \in 1..k - 1 : i \in 1..k /\ g[i] = f[i]
    OBVIOUS
  <2>4. \A i \in 1..k : i # k => i \in 1..k - 1
    OBVIOUS
  <2>5. \A i \in 1..k : i # 1 => i - 1 \in 1..k - 1
    OBVIOUS
  <2>6. ASSUME NEW i \in 1..k PROVE g[i] = FlatStep(g, seqs, i)
    <3>1. FlatStep(g, seqs, i) = FlatStep(f, seqs, i)
      BY <2>3, <2>5 DEF FlatStep
    <3>2. g[i] = FlatStep(f, seqs, i)
      BY <2>2, <2>4
    <3>3. QED BY <3>1, <3>2
  <2>7. Flattens(g, k, seqs)
    BY <2>6 DEF Flattens
  <2>8. QED BY <2>7
<1>3. n \in P
  <2>1. n \in 0..n
    OBVIOUS
  <2>. HIDE DEF P
  <2>2. QED BY <1>1, <1>2, <2>1, Inductively
<1>4. QED BY <1>3

\* A concatenation grows by one sequence after the other.
PartialSeqs(flat, S, n, seqs) ==
    /\ flat \in [0..n -> Seq(S)]
    /\ flat[0] = <<>>
    /\ \A k \in 1..n : flat[k] = flat[k - 1] \o seqs[k]

LEMMA FlattenValues ==
    ASSUME NEW S, NEW n \in Nat, NEW seqs, seqs \in [1..n -> Seq(S)]
    PROVE  \E flat : PartialSeqs(flat, S, n, seqs) /\ FlattenSeq(seqs) = flat[n]
<1>1. Len(seqs) = n /\ seqs \in Seq(Seq(S))
  BY LenProperties, IsASeq
<1>2. CASE n = 0
  <2>1. seqs = <<>> /\ FlattenSeq(seqs) = seqs
    BY <1>1, <1>2, EmptySeq DEF FlattenSeq
  <2> DEFINE flat == [k \in 0..n |-> <<>>]
  <2>2. flat \in [0..n -> Seq(S)] /\ flat[0] = <<>> /\ flat[n] = <<>>
    OBVIOUS
  <2>3. \A k \in 1..n : FALSE
    BY <1>2
  <2>. HIDE DEF flat
  <2>4. PartialSeqs(flat, S, n, seqs)
    BY <2>2, <2>3 DEF PartialSeqs
  <2>5. QED BY <2>1, <2>2, <2>4
<1>3. CASE n # 0
  <2>1. PICK f : Flattens(f, n, seqs) /\ FlattenSeq(seqs) = f[n]
    <3>1. \E f : Flattens(f, n, seqs)
      BY FlattenExists
    <3>2. QED BY <1>1, <1>3, <3>1, FlattenIs
  <2> DEFINE flat == [k \in 0..n |-> IF k = 0 THEN <<>> ELSE f[k]]
             P == {k \in 0..n : flat[k] \in Seq(S)}
  <2>2. flat[0] = <<>> /\ FlattenSeq(seqs) = flat[n] /\ \A k \in 1..n : flat[k] = f[k]
    BY <1>3, <2>1
  <2>. HIDE DEF flat
  <2>3. ASSUME NEW k \in 1..n PROVE flat[k] = flat[k - 1] \o seqs[k]
    <3>1. f[k] = FlatStep(f, seqs, k)
      BY <2>1 DEF Flattens
    <3>2. CASE k = 1
      <4>1. <<>> \o seqs[k] = seqs[k]
        <5>1. seqs[k] \in Seq(S)
          OBVIOUS
        <5>2. QED BY <5>1, ConcatEmptySeq
      <4>2. f[k] = seqs[k] /\ flat[k - 1] = <<>>
        BY <2>2, <3>1, <3>2 DEF FlatStep
      <4>3. QED BY <2>2, <4>1, <4>2
    <3>3. CASE k # 1
      <4>1. k - 1 \in 1..n
        BY <3>3
      <4>2. QED BY <2>2, <3>1, <3>3, <4>1 DEF FlatStep
    <3>4. QED BY <3>2, <3>3
  <2>4. 0 \in P /\ \A k \in 1..n : k - 1 \in P => k \in P
    <3>1. 0 \in P
      <4>1. <<>> \in Seq(S) /\ 0 \in 0..n
        OBVIOUS
      <4>2. flat[0] \in Seq(S)
        BY <2>2, <4>1, Zenon
      <4>3. QED BY <4>1, <4>2
    <3>2. ASSUME NEW k \in 1..n, k - 1 \in P PROVE k \in P
      <4>1. flat[k - 1] \in Seq(S) /\ seqs[k] \in Seq(S)
        BY <3>2
      <4>2. flat[k - 1] \o seqs[k] \in Seq(S)
        BY <4>1, ConcatProperties
      <4>3. flat[k] = flat[k - 1] \o seqs[k]
        BY <2>3
      <4>4. flat[k] \in Seq(S)
        BY <4>2, <4>3, Zenon
      <4>5. k \in 0..n
        OBVIOUS
      <4>6. QED BY <4>4, <4>5
    <3>3. QED BY <3>1, <3>2
  <2>5. \A k \in 0..n : k \in P
    <3>. HIDE DEF P
    <3>1. QED BY <2>4, Inductively
  <2>6. flat \in [0..n -> Seq(S)]
    <3>1. \A k \in 0..n : flat[k] \in Seq(S)
      BY <2>5
    <3>2. flat = [k \in 0..n |-> flat[k]]
      BY DEF flat
    <3>3. QED BY <3>1, <3>2
  <2>7. PartialSeqs(flat, S, n, seqs)
    BY <2>2, <2>3, <2>6 DEF PartialSeqs
  <2>8. QED BY <2>2, <2>7
<1>4. QED BY <1>2, <1>3

\* It is as long as its parts together.
LEMMA FlattenLen ==
    ASSUME NEW S, NEW n \in Nat, NEW seqs, seqs \in [1..n -> Seq(S)]
    PROVE  /\ FlattenSeq(seqs) \in Seq(S)
           /\ Len(FlattenSeq(seqs)) = SumOf([i \in 1..n |-> Len(seqs[i])])
<1> DEFINE lens == [i \in 1..n |-> Len(seqs[i])]
<1>1. PICK flat : PartialSeqs(flat, S, n, seqs) /\ FlattenSeq(seqs) = flat[n]
  BY FlattenValues
<1>2. \A i \in 1..n : lens[i] = Len(seqs[i]) /\ lens[i] \in Nat /\ seqs[i] \in Seq(S)
  OBVIOUS
<1>3. PICK sum : PartialSums(sum, n, lens) /\ SumOf(lens) = sum[n]
  <2>1. DOMAIN lens = 1..n
    OBVIOUS
  <2>. HIDE DEF lens
  <2>2. QED BY <1>2, <2>1, SumValues
<1>. HIDE DEF lens
<1> DEFINE P == {k \in 0..n : Len(flat[k]) = sum[k]}
<1>4. 0 \in P
  BY <1>1, <1>3 DEF PartialSeqs, PartialSums
<1>5. ASSUME NEW k \in 1..n, k - 1 \in P PROVE k \in P
  <2>1. k \in 0..n /\ k - 1 \in 0..n
    OBVIOUS
  <2>2. Len(flat[k - 1] \o seqs[k]) = Len(flat[k - 1]) + Len(seqs[k])
    <3>1. flat[k - 1] \in Seq(S) /\ seqs[k] \in Seq(S)
      BY <1>1, <1>2, <2>1 DEF PartialSeqs
    <3>2. QED BY <3>1, ConcatProperties
  <2>3. Len(flat[k - 1]) = sum[k - 1]
    BY <1>5
  <2>4. Len(flat[k]) = sum[k]
    BY <1>1, <1>2, <1>3, <2>2, <2>3 DEF PartialSeqs, PartialSums
  <2>5. QED BY <2>1, <2>4
<1>6. n \in P
  <2>1. n \in 0..n
    OBVIOUS
  <2>. HIDE DEF P
  <2>2. QED BY <1>4, <1>5, <2>1, Inductively
<1>7. n \in 0..n
  OBVIOUS
<1>8. QED BY <1>1, <1>3, <1>6, <1>7 DEF PartialSeqs, lens

\* One sequence more goes behind the others.
LEMMA FlattenMore ==
    ASSUME NEW S, NEW n \in Nat, NEW front \in [1..n -> Seq(S)], NEW seqs \in [1..n + 1 -> Seq(S)],
           \A i \in 1..n : seqs[i] = front[i]
    PROVE  FlattenSeq(seqs) = FlattenSeq(front) \o seqs[n + 1]
<1>0. n + 1 \in Nat
  OBVIOUS
<1>1. PICK all : PartialSeqs(all, S, n + 1, seqs) /\ FlattenSeq(seqs) = all[n + 1]
  BY <1>0, FlattenValues
<1>2. PICK flat : PartialSeqs(flat, S, n, front) /\ FlattenSeq(front) = flat[n]
  BY FlattenValues
<1> DEFINE P == {k \in 0..n : all[k] = flat[k]}
<1>3. 0 \in P
  BY <1>1, <1>2 DEF PartialSeqs
<1>4. ASSUME NEW k \in 1..n, k - 1 \in P PROVE k \in P
  <2>1. all[k] = all[k - 1] \o seqs[k]
    <3>1. k \in 1..n + 1
      OBVIOUS
    <3>2. QED BY <1>1, <3>1 DEF PartialSeqs
  <2>2. flat[k] = flat[k - 1] \o front[k]
    BY <1>2 DEF PartialSeqs
  <2>3. all[k - 1] = flat[k - 1] /\ k \in 0..n
    BY <1>4
  <2>4. all[k] = flat[k]
    BY <2>1, <2>2, <2>3
  <2>5. QED BY <2>3, <2>4
<1>5. n \in P
  <2>1. n \in 0..n
    OBVIOUS
  <2>. HIDE DEF P
  <2>2. QED BY <1>3, <1>4, <2>1, Inductively
<1>6. all[n + 1] = all[n] \o seqs[n + 1]
  <2>1. n + 1 \in 1..n + 1 /\ (n + 1) - 1 = n
    OBVIOUS
  <2>2. all[n + 1] = all[(n + 1) - 1] \o seqs[n + 1]
    BY <1>1, <2>1 DEF PartialSeqs
  <2>3. QED BY <2>1, <2>2
<1>7. QED BY <1>1, <1>2, <1>5, <1>6

LEMMA FlattenNone == ASSUME NEW seqs, DOMAIN seqs = {} PROVE FlattenSeq(seqs) = <<>>
<1>1. seqs \in [1..0 -> Seq({})]
  OBVIOUS
<1>2. seqs = <<>>
  BY <1>1, IsASeq, EmptySeq, LenProperties
<1>3. QED BY <1>2, EmptySeq DEF FlattenSeq

=============================================================================
