------------------------- MODULE ConsulAnswerProofs -------------------------
(***************************************************************************)
(* Theorems about the answers of the Consul module: what is written never  *)
(* goes behind what the length pass counted, and what is written is the    *)
(* catalogue as RFC 8259 has it.                                           *)
(***************************************************************************)
EXTENDS ConsulAnswer, ConsulProofs

-----------------------------------------------------------------------------
(* The two passes over a text, a number and a list                         *)

LEMMA TotalIsSum == ASSUME NEW lengths PROVE Total(lengths) = SumOf(lengths)
BY DEF Total, SumOf, FoldLeft, MapThenFoldSet

LEMMA TotalNat ==
    ASSUME NEW n \in Nat, NEW lengths \in [1..n -> Nat]
    PROVE  Total(lengths) \in Nat
<1>1. DOMAIN lengths = 1..n /\ \A i \in 1..n : lengths[i] \in Nat
  OBVIOUS
<1>2. PICK sum : PartialSums(sum, n, lengths) /\ SumOf(lengths) = sum[n]
  BY <1>1, SumValues
<1>3. sum[n] \in Nat
  BY <1>2 DEF PartialSums
<1>4. QED BY <1>2, <1>3, TotalIsSum

LEMMA TextJoins ==
    ASSUME NEW a \in Text, NEW b \in Text
    PROVE  /\ a \o b \in Text /\ Len(a) \in Nat /\ Len(b) \in Nat
           /\ Len(a \o b) = Len(a) + Len(b)
<1>1. ASSUME NEW S, a \in Seq(S), b \in Seq(S)
      PROVE  /\ a \o b \in Seq(S) /\ Len(a) \in Nat /\ Len(b) \in Nat
             /\ Len(a \o b) = Len(a) + Len(b)
  BY <1>1, ConcatProperties
<1>2. QED BY <1>1, Zenon DEF Text

LEMMA OneIn == ASSUME NEW S, NEW c \in S PROVE <<c>> \in Seq(S) /\ Len(<<c>>) = 1
OBVIOUS

LEMMA TextOne == ASSUME NEW c \in STRING PROVE <<c>> \in Text /\ Len(<<c>>) = 1
BY OneIn, Zenon DEF Text

\* What the length pass counts for a text is what the writing pass makes of it.
LEMMA EscapeRight ==
    ASSUME NEW s \in Text
    PROVE  Escape(s) \in Text /\ Len(Escape(s)) = EscapeLen(s) /\ EscapeLen(s) \in Nat
<1> DEFINE n == Len(s)
           written == [i \in 1..n |->
              IF s[i] \in DOMAIN Quoting THEN <<"\\", Quoting[s[i]]>>
              ELSE IF s[i] \in Control THEN <<"\\", "u", "0", "0", "0", "c">>
              ELSE <<s[i]>>]
           counted == [i \in 1..n |->
              IF s[i] \in DOMAIN Quoting THEN 2 ELSE IF s[i] \in Control THEN 6 ELSE 1]
<1>1. n \in Nat /\ \A i \in 1..n : s[i] \in STRING
  BY DEF Text
<1>2. (\A c \in DOMAIN Quoting : Quoting[c] \in STRING) /\ {"\\", "u", "0", "c"} \subseteq STRING
  BY CharacterAssumption
<1>3. ASSUME NEW i \in 1..n
      PROVE  written[i] \in Seq(STRING) /\ Len(written[i]) = counted[i] /\ counted[i] \in Nat
  <2>1. CASE s[i] \in DOMAIN Quoting
    <3>1. PICK c : c = Quoting[s[i]]
      OBVIOUS
    <3>2. <<"\\", c>> \in Seq(STRING) /\ Len(<<"\\", c>>) = 2
      BY <1>2, <2>1, <3>1
    <3>3. written[i] = <<"\\", c>> /\ counted[i] = 2
      BY <2>1, <3>1
    <3>. HIDE DEF written, counted
    <3>4. QED BY <3>2, <3>3
  <2>2. CASE s[i] \notin DOMAIN Quoting /\ s[i] \in Control
    <3>1. written[i] = <<"\\", "u", "0", "0", "0", "c">> /\ counted[i] = 6
      BY <2>2
    <3>2. /\ <<"\\", "u", "0", "0", "0", "c">> \in Seq(STRING)
          /\ Len(<<"\\", "u", "0", "0", "0", "c">>) = 6
      BY <1>2
    <3>. HIDE DEF written, counted
    <3>3. QED BY <3>1, <3>2
  <2>3. CASE s[i] \notin DOMAIN Quoting /\ s[i] \notin Control
    <3>1. written[i] = <<s[i]>> /\ counted[i] = 1
      BY <2>3
    <3>2. <<s[i]>> \in Seq(STRING) /\ Len(<<s[i]>>) = 1
      BY <1>1
    <3>. HIDE DEF written, counted
    <3>3. QED BY <3>1, <3>2
  <2>4. QED BY <2>1, <2>2, <2>3
<1>4. Escape(s) = FlattenSeq(written) /\ EscapeLen(s) = Total(counted)
  BY DEF Escape, EscapeLen, Each
<1>5. written \in [1..n -> Seq(STRING)] /\ counted \in [1..n -> Nat] /\ counted = [i \in 1..n |-> Len(written[i])]
  BY <1>3
<1>. HIDE DEF written, counted
<1>6. FlattenSeq(written) \in Seq(STRING) /\ Len(FlattenSeq(written)) = SumOf(counted)
  BY <1>1, <1>5, FlattenLen
<1>7. QED BY <1>1, <1>4, <1>5, <1>6, TotalIsSum, TotalNat DEF Text

LEMMA JStrRight ==
    ASSUME NEW s \in Text
    PROVE  JStr(s) \in Text /\ Len(JStr(s)) = JStrLen(s) /\ JStrLen(s) \in Nat
<1>1. Escape(s) \in Text /\ Len(Escape(s)) = EscapeLen(s) /\ EscapeLen(s) \in Nat
  BY EscapeRight
<1>2. PICK q : q = <<"\"">> /\ q \in Text /\ Len(q) = 1
  <2>1. "\"" \in STRING
    BY CharacterAssumption
  <2>2. QED BY <2>1, TextOne, Zenon
<1>3. q \o Escape(s) \in Text /\ Len(q \o Escape(s)) = 1 + EscapeLen(s)
  BY <1>1, <1>2, TextJoins
<1>4. (q \o Escape(s)) \o q \in Text /\ Len((q \o Escape(s)) \o q) = 1 + EscapeLen(s) + 1
  BY <1>1, <1>2, <1>3, TextJoins
<1>5. JStr(s) = (q \o Escape(s)) \o q
  BY <1>2 DEF JStr
<1>6. QED BY <1>1, <1>4, <1>5 DEF JStrLen

\* A number is worked off digit by digit.
WorkedOff(f, n, V, base, step) ==
    /\ f \in [0..n -> V]
    /\ \A k \in 0..n : f[k] = IF k < 10 THEN base[k] ELSE step[<<k, f[k \div 10]>>]

LEMMA DigitsExist ==
    ASSUME NEW n \in Nat, NEW V, NEW base \in [0..n -> V], NEW step \in [(0..n) \X V -> V]
    PROVE  \E f : WorkedOff(f, n, V, base, step)
<1> DEFINE Value(f, k) == IF k < 10 THEN base[k] ELSE step[<<k, f[k \div 10]>>]
           Is(f, m) == f \in [0..m -> V] /\ \A k \in 0..m : f[k] = Value(f, k)
           P == {m \in 0..n : \E f : Is(f, m)}
<1>1. \A k \in 0..n : k >= 10 => k \div 10 \in 0..k - 1
  OBVIOUS
<1>2. 0 \in P
  <2> DEFINE f == [k \in 0..0 |-> base[0]]
  <2>1. f \in [0..0 -> V] /\ \A k \in 0..0 : f[k] = Value(f, k)
    OBVIOUS
  <2>2. Is(f, 0)
    BY <2>1
  <2>. HIDE DEF Is
  <2>3. QED BY <2>2
<1>3. ASSUME NEW m \in 1..n, m - 1 \in P PROVE m \in P
  <2>1. PICK f : Is(f, m - 1)
    BY <1>3
  <2>2. f \in [0..m - 1 -> V] /\ \A k \in 0..m - 1 : f[k] = Value(f, k)
    BY <2>1
  <2> DEFINE g == [k \in 0..m |-> IF k = m THEN Value(f, m) ELSE f[k]]
  <2>3. Value(f, m) \in V
    <3>1. CASE m < 10
      BY <3>1
    <3>2. CASE m >= 10
      <4>1. m \div 10 \in 0..m - 1
        BY <1>1, <3>2
      <4>2. <<m, f[m \div 10]>> \in (0..n) \X V
        BY <2>2, <4>1
      <4>3. step[<<m, f[m \div 10]>>] \in V
        BY <4>2
      <4>4. QED BY <3>2, <4>3
    <3>3. QED BY <3>1, <3>2
  <2>4. \A k \in 0..m : k # m => k \in 0..m - 1
    OBVIOUS
  <2>5. g \in [0..m -> V]
    <3>. HIDE DEF Value
    <3>1. QED BY <2>2, <2>3, <2>4
  <2>6. ASSUME NEW k \in 0..m PROVE g[k] = Value(g, k)
    <3>1. Value(g, k) = Value(f, k)
      <4>1. CASE k < 10
        BY <4>1
      <4>2. CASE k >= 10
        <5>1. k \div 10 \in 0..k - 1
          BY <1>1, <4>2
        <5>2. k \div 10 \in 0..m /\ k \div 10 # m
          BY <5>1
        <5>3. g[k \div 10] = f[k \div 10]
          BY <5>2
        <5>. HIDE DEF g
        <5>4. QED BY <4>2, <5>3
      <4>3. QED BY <4>1, <4>2
    <3>2. g[k] = IF k = m THEN Value(f, k) ELSE f[k]
      OBVIOUS
    <3>. HIDE DEF g, Value
    <3>3. QED BY <2>2, <2>4, <3>1, <3>2
  <2>7. Is(g, m)
    BY <2>5, <2>6
  <2>. HIDE DEF Is
  <2>8. QED BY <2>7
<1>4. n \in P
  <2>1. n \in 0..n
    OBVIOUS
  <2>. HIDE DEF P
  <2>2. QED BY <1>2, <1>3, <2>1, Inductively
<1>5. PICK f : Is(f, n)
  BY <1>4
<1>6. WorkedOff(f, n, V, base, step)
  BY <1>5, Zenon DEF WorkedOff
<1>7. QED BY <1>6

Digit == <<"0", "1", "2", "3", "4", "5", "6", "7", "8", "9">>

TextStep(f, k) == IF k < 10 THEN <<Digit[k + 1]>> ELSE f[k \div 10] \o <<Digit[(k % 10) + 1]>>
LenStep(f, k)  == IF k < 10 THEN 1 ELSE 1 + f[k \div 10]

LEMMA PrintedIs ==
    ASSUME NEW n \in Nat
    PROVE  /\ Printed(n) = (CHOOSE f : f = [k \in 0..n |-> TextStep(f, k)])[n]
           /\ IntLen(n) = 0 + (CHOOSE f : f = [k \in 0..n |-> LenStep(f, k)])[n]
<1>1. Printed(n) = (CHOOSE f : f = [k \in 0..n |-> TextStep(f, k)])[n]
  BY DEF Printed, TextStep, Digit
<1>2. n = (IF n < 0 THEN -n ELSE n) /\ ~(n < 0)
  OBVIOUS
<1> DEFINE size == IF n < 0 THEN -n ELSE n
<1>3. IntLen(n) = (IF n < 0 THEN 1 ELSE 0) + (CHOOSE f : f = [k \in 0..size |-> LenStep(f, k)])[size]
  BY DEF IntLen, LenStep
<1>4. size = n
  OBVIOUS
<1>. HIDE DEF size
<1>5. IntLen(n) = 0 + (CHOOSE f : f = [k \in 0..n |-> LenStep(f, k)])[n]
  BY <1>2, <1>3, <1>4, Zenon
<1>6. QED BY <1>1, <1>5

LEMMA PrintedRight ==
    ASSUME NEW n \in Nat
    PROVE  Printed(n) \in Text /\ Len(Printed(n)) = IntLen(n) /\ IntLen(n) \in Nat
<1>1. ASSUME NEW k \in 0..n
      PROVE  /\ k < 10 => <<Digit[k + 1]>> \in Text
             /\ <<Digit[(k % 10) + 1]>> \in Text /\ Len(<<Digit[(k % 10) + 1]>>) = 1
  <2>1. \A i \in 1..10 : Digit[i] \in STRING
    <3>1. ASSUME NEW i \in 1..10
          PROVE  i = 1 \/ i = 2 \/ i = 3 \/ i = 4 \/ i = 5 \/ i = 6 \/ i = 7 \/ i = 8 \/ i = 9 \/ i = 10
      OBVIOUS
    <3>2. {"0", "1", "2", "3", "4", "5", "6", "7", "8", "9"} \subseteq STRING
      BY CharacterAssumption
    <3>3. QED BY <3>1, <3>2 DEF Digit
  <2>2. (k < 10 => k + 1 \in 1..10) /\ (k % 10) + 1 \in 1..10
    OBVIOUS
  <2>3. QED BY <2>1, <2>2, TextOne
<1>2. PICK text : text = [k \in 0..n |-> TextStep(text, k)] /\ Printed(n) = text[n]
  <2> DEFINE base == [k \in 0..n |-> IF k < 10 THEN <<Digit[k + 1]>> ELSE <<>>]
             step == [p \in (0..n) \X Text |-> p[2] \o <<Digit[(p[1] % 10) + 1]>>]
  <2>1. base \in [0..n -> Text]
    <3>1. <<>> \in Text
      BY DEF Text
    <3>2. QED BY <1>1, <3>1
  <2>2. step \in [(0..n) \X Text -> Text]
    BY <1>1, TextJoins
  <2>3. PICK f : WorkedOff(f, n, Text, base, step)
    <3>. HIDE DEF base, step
    <3>1. QED BY <2>1, <2>2, DigitsExist
  <2>4. \A k \in 0..n : f[k] = TextStep(f, k)
    <3>1. ASSUME NEW k \in 0..n, k >= 10 PROVE <<k, f[k \div 10]>> \in (0..n) \X Text
      <4>1. k \div 10 \in 0..n
        BY <3>1
      <4>2. QED BY <2>3, <4>1 DEF WorkedOff
    <3>2. \A k \in 0..n : k >= 10 => step[<<k, f[k \div 10]>>] = f[k \div 10] \o <<Digit[(k % 10) + 1]>>
      BY <3>1
    <3>3. \A k \in 0..n : k < 10 => base[k] = <<Digit[k + 1]>>
      OBVIOUS
    <3>. HIDE DEF base, step
    <3>4. ASSUME NEW k \in 0..n PROVE f[k] = TextStep(f, k)
      <4>1. f[k] = IF k < 10 THEN base[k] ELSE step[<<k, f[k \div 10]>>]
        BY <2>3, Zenon DEF WorkedOff
      <4>2. CASE k < 10
        BY <3>3, <4>1, <4>2 DEF TextStep
      <4>3. CASE ~(k < 10)
        <5>1. k >= 10
          BY <4>3
        <5>2. step[<<k, f[k \div 10]>>] = f[k \div 10] \o <<Digit[(k % 10) + 1]>>
          BY <3>2, <5>1
        <5>3. QED BY <4>1, <4>3, <5>2, Zenon DEF TextStep
      <4>4. QED BY <4>2, <4>3
    <3>5. QED BY <3>4
  <2>5. f = [k \in 0..n |-> TextStep(f, k)]
    BY <2>3, <2>4 DEF WorkedOff
  <2>. HIDE DEF base, step
  <2>6. QED BY <2>5, PrintedIs
<1>3. PICK digits : digits = [k \in 0..n |-> LenStep(digits, k)] /\ IntLen(n) = 0 + digits[n]
  <2> DEFINE base == [k \in 0..n |-> 1]
             step == [p \in (0..n) \X Nat |-> 1 + p[2]]
  <2>1. base \in [0..n -> Nat] /\ step \in [(0..n) \X Nat -> Nat]
    OBVIOUS
  <2>2. PICK f : WorkedOff(f, n, Nat, base, step)
    <3>. HIDE DEF base, step
    <3>1. QED BY <2>1, DigitsExist
  <2>3. \A k \in 0..n : f[k] = LenStep(f, k)
    <3>1. ASSUME NEW k \in 0..n, k >= 10 PROVE <<k, f[k \div 10]>> \in (0..n) \X Nat
      <4>1. k \div 10 \in 0..n
        BY <3>1
      <4>2. QED BY <2>2, <4>1 DEF WorkedOff
    <3>2. \A k \in 0..n : k >= 10 => step[<<k, f[k \div 10]>>] = 1 + f[k \div 10]
      BY <3>1
    <3>3. \A k \in 0..n : base[k] = 1
      OBVIOUS
    <3>. HIDE DEF base, step
    <3>4. ASSUME NEW k \in 0..n PROVE f[k] = LenStep(f, k)
      <4>1. f[k] = IF k < 10 THEN base[k] ELSE step[<<k, f[k \div 10]>>]
        BY <2>2, Zenon DEF WorkedOff
      <4>2. CASE k < 10
        BY <3>3, <4>1, <4>2, Zenon DEF LenStep
      <4>3. CASE ~(k < 10)
        <5>1. k >= 10
          BY <4>3
        <5>2. step[<<k, f[k \div 10]>>] = 1 + f[k \div 10]
          BY <3>2, <5>1
        <5>3. QED BY <4>1, <4>3, <5>2, Zenon DEF LenStep
      <4>4. QED BY <4>2, <4>3
    <3>5. QED BY <3>4
  <2>4. f = [k \in 0..n |-> LenStep(f, k)]
    BY <2>2, <2>3 DEF WorkedOff
  <2>. HIDE DEF base, step
  <2>5. QED BY <2>4, PrintedIs
<1> DEFINE Good(k) == text[k] \in Text /\ digits[k] \in Nat /\ Len(text[k]) = digits[k]
           P == {m \in 0..n : \A k \in 0..m : Good(k)}
<1>4. ASSUME NEW k \in 0..n, k < 10 PROVE Good(k)
  <2>1. text[k] = <<Digit[k + 1]>> /\ digits[k] = 1
    BY <1>2, <1>3, <1>4 DEF TextStep, LenStep
  <2>2. <<Digit[k + 1]>> \in Text /\ Len(<<Digit[k + 1]>>) = 1
    BY <1>1, <1>4
  <2>3. QED BY <2>1, <2>2
<1>5. ASSUME NEW k \in 0..n, k >= 10, Good(k \div 10) PROVE Good(k)
  <2>0. ~(k < 10)
    BY <1>5
  <2>1. text[k] = text[k \div 10] \o <<Digit[(k % 10) + 1]>> /\ digits[k] = 1 + digits[k \div 10]
    <3>1. text[k] = TextStep(text, k) /\ digits[k] = LenStep(digits, k)
      BY <1>2, <1>3, Zenon
    <3>2. QED BY <2>0, <3>1, Zenon DEF TextStep, LenStep
  <2>2. PICK last : last = <<Digit[(k % 10) + 1]>> /\ last \in Text /\ Len(last) = 1
    BY <1>1
  <2>3. /\ text[k \div 10] \o last \in Text
        /\ Len(text[k \div 10] \o last) = digits[k \div 10] + 1
    BY <1>5, <2>2, TextJoins
  <2>4. QED BY <1>5, <2>1, <2>2, <2>3
<1>. HIDE DEF Good
<1>6. 0 \in P
  BY <1>4
<1>7. ASSUME NEW m \in 1..n, m - 1 \in P PROVE m \in P
  <2>1. \A k \in 0..m : k # m => k \in 0..m - 1
    OBVIOUS
  <2>2. Good(m)
    <3>1. m \in 0..n /\ (m >= 10 => m \div 10 \in 0..m - 1)
      OBVIOUS
    <3>2. QED BY <1>4, <1>5, <1>7, <3>1
  <2>3. m \in 0..n
    OBVIOUS
  <2>4. QED BY <1>7, <2>1, <2>2, <2>3
<1>8. n \in P
  <2>1. n \in 0..n
    OBVIOUS
  <2>. HIDE DEF P
  <2>2. QED BY <1>6, <1>7, <2>1, Inductively
<1>9. Good(n)
  BY <1>8
<1>10. QED BY <1>2, <1>3, <1>9 DEF Good

\* One sequence is the sum of two, and of as many commas as there are elements but one.
LEMMA CommasBetween ==
    ASSUME NEW n \in Nat, NEW lens \in [1..n -> Nat], NEW more,
           more = [i \in 1..n |-> (IF i > 1 THEN 1 ELSE 0) + lens[i]]
    PROVE  /\ Total(lens) \in Nat
           /\ Total(more) = (IF n = 0 THEN 0 ELSE n - 1) + Total(lens)
<1>1. more \in [1..n -> Nat] /\ \A i \in 1..n : more[i] = (IF i > 1 THEN 1 ELSE 0) + lens[i]
  OBVIOUS
<1>2. PICK sum : PartialSums(sum, n, lens) /\ Total(lens) = sum[n]
  BY SumValues, TotalIsSum
<1>3. PICK all : PartialSums(all, n, more) /\ Total(more) = all[n]
  BY <1>1, SumValues, TotalIsSum
<1> DEFINE P == {k \in 0..n : all[k] = (IF k = 0 THEN 0 ELSE k - 1) + sum[k]}
<1>4. 0 \in P
  BY <1>2, <1>3 DEF PartialSums
<1>5. ASSUME NEW k \in 1..n, k - 1 \in P PROVE k \in P
  <2>1. k \in 0..n /\ k - 1 \in 0..n
    OBVIOUS
  <2>2. all[k] = all[k - 1] + more[k] /\ sum[k] = sum[k - 1] + lens[k]
    BY <1>2, <1>3 DEF PartialSums
  <2>3. all[k - 1] = (IF k - 1 = 0 THEN 0 ELSE k - 1 - 1) + sum[k - 1]
    BY <1>5
  <2>4. more[k] = (IF k > 1 THEN 1 ELSE 0) + lens[k]
    BY <1>1
  <2>5. sum[k - 1] \in Nat /\ lens[k] \in Nat
    BY <1>2, <2>1 DEF PartialSums
  <2>6. all[k] = (IF k = 0 THEN 0 ELSE k - 1) + sum[k]
    <3>1. CASE k = 1
      BY <2>2, <2>3, <2>4, <2>5, <3>1
    <3>2. CASE k > 1
      <4>1. all[k - 1] = k - 2 + sum[k - 1]
        <5>1. k - 1 # 0 /\ k - 1 - 1 = k - 2
          BY <3>2
        <5>2. QED BY <2>3, <5>1
      <4>2. more[k] = 1 + lens[k]
        BY <2>4, <3>2
      <4>3. all[k] = (k - 2 + sum[k - 1]) + (1 + lens[k])
        BY <2>2, <4>1, <4>2
      <4>4. sum[k] = sum[k - 1] + lens[k]
        BY <2>2
      <4>5. all[k] = (k - 1) + sum[k]
        BY <2>5, <4>3, <4>4
      <4>6. QED BY <3>2, <4>5
    <3>3. QED BY <3>1, <3>2
  <2>7. QED BY <2>1, <2>6
<1>6. n \in P
  <2>1. n \in 0..n
    OBVIOUS
  <2>. HIDE DEF P
  <2>2. QED BY <1>4, <1>5, <2>1, Inductively
<1>7. sum[n] \in Nat
  BY <1>2 DEF PartialSums
<1>8. all[n] = (IF n = 0 THEN 0 ELSE n - 1) + sum[n]
  BY <1>6
<1>9. QED BY <1>2, <1>3, <1>7, <1>8

\* A list is as long as its elements and the commas between them.
LEMMA ListedLen ==
    ASSUME NEW n \in Nat, NEW es \in [1..n -> Text], NEW lens, lens = [i \in 1..n |-> Len(es[i])]
    PROVE  /\ Listed(es) \in Text /\ Total(lens) \in Nat
           /\ Len(Listed(es)) = (IF n = 0 THEN 0 ELSE n - 1) + Total(lens)
<1> DEFINE parts == [i \in 1..n |-> (IF i > 1 THEN <<",">> ELSE <<>>) \o es[i]]
           more == [i \in 1..n |-> (IF i > 1 THEN 1 ELSE 0) + lens[i]]
<1>1. Len(es) = n
  BY LenProperties, IsASeq
<1>2. <<",">> \in Text /\ Len(<<",">>) = 1 /\ <<>> \in Text /\ Len(<<>>) = 0
  <2>1. "," \in STRING
    BY CharacterAssumption
  <2>2. <<>> \in Text /\ Len(<<>>) = 0
    BY DEF Text
  <2>3. QED BY <2>1, <2>2, TextOne, Zenon
<1>3. ASSUME NEW i \in 1..n PROVE parts[i] \in Text /\ Len(parts[i]) = more[i]
  <2>1. PICK comma : comma = IF i > 1 THEN <<",">> ELSE <<>>
    OBVIOUS
  <2>2. comma \in Text /\ Len(comma) = IF i > 1 THEN 1 ELSE 0
    <3>1. CASE i > 1
      <4>1. comma = <<",">>
        BY <2>1, <3>1, Zenon
      <4>2. comma \in Text /\ Len(comma) = 1
        BY <1>2, <4>1, Zenon
      <4>3. QED BY <3>1, <4>2
    <3>2. CASE ~(i > 1)
      <4>1. comma = <<>>
        BY <2>1, <3>2, Zenon
      <4>2. comma \in Text /\ Len(comma) = 0
        BY <1>2, <4>1, Zenon
      <4>3. QED BY <3>2, <4>2
    <3>3. QED BY <3>1, <3>2
  <2>3. es[i] \in Text /\ lens[i] = Len(es[i])
    OBVIOUS
  <2>4. comma \o es[i] \in Text /\ Len(comma \o es[i]) = Len(comma) + Len(es[i])
    BY <2>2, <2>3, TextJoins
  <2>5. parts[i] = comma \o es[i] /\ more[i] = Len(comma) + Len(es[i])
    BY <2>1, <2>2, <2>3
  <2>. HIDE DEF parts, more
  <2>6. QED BY <2>4, <2>5
<1>4. Listed(es) = FlattenSeq(parts)
  BY <1>1 DEF Listed
<1>5. lens \in [1..n -> Nat]
  <2>1. \A i \in 1..n : Len(es[i]) \in Nat
    BY TextJoins
  <2>2. QED BY <2>1
<1>6. parts \in [1..n -> Seq(STRING)] /\ more = [i \in 1..n |-> Len(parts[i])]
  <2>1. \A i \in 1..n : parts[i] \in Seq(STRING)
    BY <1>3, Zenon DEF Text
  <2>2. \A i \in 1..n : more[i] = Len(parts[i])
    BY <1>3, Zenon
  <2>3. QED BY <2>1, <2>2, Zenon
<1>7. Total(more) = (IF n = 0 THEN 0 ELSE n - 1) + Total(lens) /\ Total(lens) \in Nat
  BY <1>5, CommasBetween
<1>. HIDE DEF parts, more
<1>8. FlattenSeq(parts) \in Seq(STRING) /\ Len(FlattenSeq(parts)) = SumOf(more)
  <2>1. SumOf(more) = SumOf([i \in 1..n |-> Len(parts[i])])
    BY <1>6, Zenon
  <2>2. parts \in [1..n -> Seq(STRING)]
    BY <1>6, Zenon
  <2>3. QED BY <2>1, <2>2, FlattenLen, Zenon
<1>9. Listed(es) \in Text
  BY <1>4, <1>8, Zenon DEF Text
<1>10. QED BY <1>4, <1>7, <1>8, <1>9, TotalIsSum

\* A literal is as long as it says, and is itself the name of a member in quotes.
LEMMA KeyRight == ASSUME NEW t, Chars(t) \in Text PROVE Key(t) \in Text
<1>1. JStr(Chars(t)) \in Text
  BY JStrRight
<1>2. <<":">> \in Text
  <2>1. ":" \in STRING
    BY CharacterAssumption
  <2>2. QED BY <2>1, TextOne, Zenon
<1>3. QED BY <1>1, <1>2, TextJoins DEF Key

LEMMA CopyLen == ASSUME NEW t, NEW n \in Nat PROVE Len(Copy(t, n)) = n
<1>1. Copy(t, n) \in [1..n -> {SubSeq(t, i, i) : i \in 1..n}]
  BY DEF Copy
<1>2. QED BY <1>1, LenProperties, IsASeq

Keys == {"id", "name", "address", "port", "tags", "meta", "checks", "interval", "timeout", "services"}

LEMMA Keyed ==
    /\ \A t \in Keys : Chars(t) \in Text /\ Key(t) \in Text
    /\ {<<",">>, <<":">>, <<"{">>, <<"}">>, <<"[">>, <<"]">>, <<>>} \subseteq Text
    /\ Len(<<",">>) = 1 /\ Len(<<":">>) = 1 /\ Len(<<"{">>) = 1 /\ Len(<<"}">>) = 1
    /\ Len(<<"[">>) = 1 /\ Len(<<"]">>) = 1
<1>1. ASSUME NEW t \in Keys PROVE Chars(t) \in Text /\ Key(t) \in Text
  <2>1. Chars(t) \in Seq(STRING)
    BY KeyAssumption, Zenon DEF Keys
  <2>2. Chars(t) \in Text
    BY <2>1, Zenon DEF Text
  <2>3. QED BY <2>2, KeyRight
<1>2. \A c \in {",", ":", "{", "}", "[", "]"} : <<c>> \in Text /\ Len(<<c>>) = 1
  <2>1. {",", ":", "{", "}", "[", "]"} \subseteq STRING
    BY CharacterAssumption, Zenon
  <2>2. QED BY <2>1, TextOne, Zenon
<1>3. <<>> \in Text
  BY DEF Text
<1>4. QED BY <1>1, <1>2, <1>3, Zenon

\* Concatenation of texts, under a name that the provers leave alone.
Join(a, b) == a \o b

LEMMA JoinRight ==
    ASSUME NEW a \in Text, NEW b \in Text
    PROVE  /\ Join(a, b) \in Text /\ Len(a) \in Nat /\ Len(b) \in Nat
           /\ Len(Join(a, b)) = Len(a) + Len(b)
BY TextJoins DEF Join

LEMMA JoinAssociates ==
    ASSUME NEW a \in Text, NEW b \in Text, NEW c \in Text
    PROVE  Join(Join(a, b), c) = Join(a, Join(b, c))
<1>1. ASSUME NEW S, a \in Seq(S), b \in Seq(S), c \in Seq(S) PROVE (a \o b) \o c = a \o (b \o c)
  BY <1>1, ConcatAssociative
<1>2. QED BY <1>1, Zenon DEF Text, Join

LEMMA TextEmpty == ASSUME NEW a \in Text PROVE <<>> \o a = a /\ a \o <<>> = a /\ <<>> \in Text
<1>1. ASSUME NEW S, a \in Seq(S) PROVE <<>> \o a = a /\ a \o <<>> = a
  BY <1>1, ConcatEmptySeq
<1>2. <<>> \in Text
  BY DEF Text
<1>3. QED BY <1>1, <1>2, Zenon DEF Text

LEMMA ListedNone == Listed(<<>>) = <<>>
<1>1. DOMAIN [i \in 1..Len(<<>>) |-> (IF i > 1 THEN <<",">> ELSE <<>>) \o <<>>[i]] = {}
  BY EmptySeq
<1>2. QED BY <1>1, FlattenNone, Zenon DEF Listed

\* One element more goes behind a comma, unless it is the first one.
LEMMA ListedAppend ==
    ASSUME NEW es \in Seq(Text), NEW m \in Text
    PROVE  /\ Listed(es) \in Text
           /\ es = <<>> => Listed(Append(es, m)) = m
           /\ es # <<>> => Listed(Append(es, m)) = Listed(es) \o (<<",">> \o m)
<1>1. PICK n \in Nat : n = Len(es)
  BY LenProperties
<1>2. PICK comma : comma = <<",">> /\ comma \in Text
  BY Keyed, Zenon
<1>3. PICK more : more = Append(es, m)
  OBVIOUS
<1>4. /\ more \in Seq(Text) /\ Len(more) = n + 1 /\ more[n + 1] = m
      /\ \A i \in 1..n : more[i] = es[i]
  BY <1>1, <1>3, AppendProperties
<1> DEFINE Part(i, e) == (IF i > 1 THEN comma ELSE <<>>) \o e
           front == [i \in 1..n |-> Part(i, es[i])]
           seqs == [i \in 1..n + 1 |-> Part(i, more[i])]
<1>5. ASSUME NEW i, NEW e \in Text PROVE Part(i, e) \in Text
  <2>1. comma \o e \in Text /\ <<>> \o e \in Text
    BY <1>2, TextJoins, TextEmpty
  <2>2. CASE i > 1
    BY <2>1, <2>2, Zenon
  <2>3. CASE ~(i > 1)
    BY <2>1, <2>3, Zenon
  <2>4. QED BY <2>2, <2>3
<1>6. (\A i \in 1..n : es[i] \in Text) /\ \A i \in 1..n + 1 : more[i] \in Text
  BY <1>1, <1>4
<1>7. Listed(es) = FlattenSeq(front) /\ Listed(more) = FlattenSeq(seqs)
  BY <1>1, <1>2, <1>4, Zenon DEF Listed
<1>8. front \in [1..n -> Text] /\ seqs \in [1..n + 1 -> Text] /\ \A i \in 1..n : seqs[i] = front[i]
  <2>. HIDE DEF Part
  <2>1. \A i \in 1..n : i \in 1..n + 1
    OBVIOUS
  <2>2. QED BY <1>4, <1>5, <1>6, <2>1
<1>9. n + 1 \in 1..n + 1
  OBVIOUS
<1>10. seqs[n + 1] = Part(n + 1, m)
  BY <1>4, <1>9, Zenon
<1>11. n = 0 <=> es = <<>>
  BY <1>1, EmptySeq
<1>12. Part(n + 1, m) = IF n = 0 THEN m ELSE comma \o m
  <2>1. CASE n = 0
    <3>1. ~(n + 1 > 1)
      BY <2>1
    <3>2. <<>> \o m = m
      BY TextEmpty
    <3>3. QED BY <2>1, <3>1, <3>2, Zenon
  <2>2. CASE n # 0
    <3>1. n + 1 > 1
      BY <2>2
    <3>2. QED BY <2>2, <3>1, Zenon
  <2>3. QED BY <2>1, <2>2
<1>. HIDE DEF Part, front, seqs
<1>13. /\ FlattenSeq(front) \in Text
       /\ FlattenSeq(seqs) = FlattenSeq(front) \o seqs[n + 1]
  <2>1. front \in [1..n -> Seq(STRING)] /\ seqs \in [1..n + 1 -> Seq(STRING)]
    BY <1>8, Zenon DEF Text
  <2>2. FlattenSeq(front) \in Seq(STRING)
    BY <2>1, FlattenLen, Zenon
  <2>3. FlattenSeq(seqs) = FlattenSeq(front) \o seqs[n + 1]
    BY <1>8, <2>1, FlattenMore, Zenon
  <2>4. QED BY <2>2, <2>3, Zenon DEF Text
<1>14. n = 0 => FlattenSeq(front) = <<>>
  <2>1. n = 0 => DOMAIN front = {}
    BY <1>8
  <2>2. QED BY <2>1, FlattenNone
<1>15. n = 0 => Listed(more) = m
  BY <1>7, <1>10, <1>12, <1>13, <1>14, TextEmpty, Zenon
<1>16. n # 0 => Listed(more) = Listed(es) \o (comma \o m)
  BY <1>7, <1>10, <1>12, <1>13, Zenon
<1>17. Listed(es) \in Text
  BY <1>7, <1>13, Zenon
<1>18. QED BY <1>2, <1>3, <1>11, <1>15, <1>16, <1>17, Zenon

\* How what is written piece by piece comes apart into members.
LEMMA MemberAdded ==
    ASSUME NEW p \in Text, NEW l \in Text, NEW c \in Text, NEW k \in Text, NEW v \in Text
    PROVE  Join(p, Join(l, Join(c, Join(k, v)))) = Join(Join(Join(Join(p, l), c), k), v)
<1>1. PICK x, y : x = Join(k, v) /\ y = Join(p, l) /\ x \in Text /\ y \in Text
  BY JoinRight
<1>2. Join(c, x) \in Text /\ Join(y, c) \in Text
  BY <1>1, JoinRight
<1>3. Join(p, Join(l, Join(c, x))) = Join(y, Join(c, x))
  BY <1>1, <1>2, JoinAssociates
<1>4. Join(y, Join(c, x)) = Join(Join(y, c), x)
  BY <1>1, <1>2, JoinAssociates
<1>5. Join(Join(y, c), x) = Join(Join(Join(y, c), k), v)
  BY <1>1, <1>2, JoinAssociates
<1>6. QED BY <1>1, <1>3, <1>4, <1>5, Zenon

LEMMA BracketAdded ==
    ASSUME NEW p \in Text, NEW k \in Text, NEW o \in Text, NEW l \in Text, NEW c \in Text
    PROVE  Join(Join(Join(p, Join(k, o)), l), c) = Join(Join(p, k), Join(Join(o, l), c))
<1>1. PICK x, y : x = Join(p, k) /\ y = Join(o, l) /\ x \in Text /\ y \in Text
  BY JoinRight
<1>2. Join(p, Join(k, o)) = Join(x, o)
  BY <1>1, JoinAssociates
<1>3. Join(Join(x, o), l) = Join(x, y)
  BY <1>1, JoinAssociates
<1>4. Join(Join(x, y), c) = Join(x, Join(y, c))
  BY <1>1, JoinAssociates
<1>5. QED BY <1>1, <1>2, <1>3, <1>4, Zenon

\* The characters between texts, under a name as well.
Comma == <<",">>
Colon == <<":">>
OpenBrace == <<"{">>
CloseBrace == <<"}">>
OpenBracket == <<"[">>
CloseBracket == <<"]">>

LEMMA Marks ==
    /\ Comma \in Text /\ Colon \in Text /\ OpenBrace \in Text /\ CloseBrace \in Text
    /\ OpenBracket \in Text /\ CloseBracket \in Text
    /\ Len(Comma) = 1 /\ Len(Colon) = 1 /\ Len(OpenBrace) = 1 /\ Len(CloseBrace) = 1
    /\ Len(OpenBracket) = 1 /\ Len(CloseBracket) = 1
BY Keyed, Zenon DEF Comma, Colon, OpenBrace, CloseBrace, OpenBracket, CloseBracket

\* An object that is still open, and one member more.
Open(ms) == Join(OpenBrace, Listed(ms))

LEMMA OpenFirst ==
    ASSUME NEW k \in Text, NEW v \in Text
    PROVE  /\ Open(<<Join(k, v)>>) = Join(Join(OpenBrace, k), v) /\ Open(<<Join(k, v)>>) \in Text
           /\ <<Join(k, v)>> \in Seq(Text) /\ <<Join(k, v)>> # <<>>
<1>1. PICK m : m = Join(k, v) /\ m \in Text
  BY JoinRight
<1>2. PICK o : o = OpenBrace /\ o \in Text
  BY Marks
<1>3. <<>> \in Seq(Text) /\ Append(<<>>, m) = <<m>> /\ <<m>> \in Seq(Text) /\ <<m>> # <<>>
  <2>1. <<>> \in Seq(Text)
    OBVIOUS
  <2>2. <<m>> \in Seq(Text) /\ <<m>> # <<>>
    BY <1>1
  <2>3. Append(<<>>, m) = <<>> \o <<m>> /\ <<>> \o <<m>> = <<m>>
    BY <1>1, <2>1, <2>2, AppendIsConcat, ConcatEmptySeq, Zenon
  <2>4. QED BY <2>1, <2>2, <2>3, Zenon
<1>4. Listed(<<m>>) = m
  BY <1>1, <1>3, ListedAppend, Zenon
<1>5. Join(o, Join(k, v)) = Join(Join(o, k), v) /\ Join(o, m) \in Text
  BY <1>1, <1>2, JoinAssociates, JoinRight
<1>6. QED BY <1>1, <1>2, <1>3, <1>4, <1>5, Zenon DEF Open

LEMMA OpenMore ==
    ASSUME NEW ms \in Seq(Text), ms # <<>>, NEW k \in Text, NEW v \in Text
    PROVE  /\ Open(Append(ms, Join(k, v))) = Join(Join(Join(Open(ms), Comma), k), v)
           /\ Open(Append(ms, Join(k, v))) \in Text
           /\ Append(ms, Join(k, v)) \in Seq(Text) /\ Append(ms, Join(k, v)) # <<>>
<1>1. PICK m : m = Join(k, v) /\ m \in Text
  BY JoinRight
<1>2. PICK o, c : o = OpenBrace /\ o \in Text /\ c = Comma /\ c \in Text
  BY Marks
<1>3. PICK l : l = Listed(ms) /\ l \in Text /\ Listed(Append(ms, m)) = Join(l, Join(c, m))
  BY <1>1, <1>2, ListedAppend, Zenon DEF Join, Comma, Colon, OpenBrace, CloseBrace, OpenBracket, CloseBracket
<1>4. Join(o, Join(l, Join(c, Join(k, v)))) = Join(Join(Join(Join(o, l), c), k), v)
  <2>1. o \in Text /\ c \in Text /\ l \in Text
    BY <1>2, <1>3, Zenon
  <2>2. QED BY <2>1, MemberAdded
<1>5. Append(ms, m) \in Seq(Text) /\ Append(ms, m) # <<>>
  BY <1>1, AppendProperties
<1>6. Join(o, Join(l, Join(c, m))) \in Text
  BY <1>1, <1>3, <1>2, JoinRight
<1>7. QED BY <1>1, <1>2, <1>3, <1>4, <1>5, <1>6, Zenon DEF Open

-----------------------------------------------------------------------------
(* What is written of a catalogue                                          *)

\* The name of a member with a comma before it, and one that is only there if it has a value.
LEMMA OptionRight ==
    ASSUME NEW key, NEW n \in Nat, Len(key) = n, NEW k \in Text, NEW c \in Text, Copy(key, n) = Join(c, k),
           NEW s \in Text, NEW p \in Text
    PROVE  /\ Option(key, n, s) \in Text
           /\ Len(Option(key, n, s)) = OptionLen(key, s) /\ OptionLen(key, s) \in Nat
           /\ Join(p, Option(key, n, s)) = IF s = <<>> THEN p ELSE Join(Join(Join(p, c), k), JStr(s))
<1>1. JStr(s) \in Text /\ Len(JStr(s)) = JStrLen(s) /\ JStrLen(s) \in Nat
  BY JStrRight
<1>2. PICK ck : ck = Join(c, k) /\ ck \in Text /\ Len(ck) = n /\ ck = Copy(key, n)
  BY CopyLen, JoinRight
<1>3. CASE s = <<>>
  <2>1. Option(key, n, s) = <<>> /\ OptionLen(key, s) = 0
    BY <1>3 DEF Option, OptionLen
  <2>2. Join(p, <<>>) = p /\ <<>> \in Text
    BY TextEmpty DEF Join
  <2>3. Len(<<>>) = 0 /\ 0 \in Nat
    OBVIOUS
  <2>4. QED BY <1>3, <2>1, <2>2, <2>3, Zenon
<1>4. CASE s # <<>>
  <2>1. Option(key, n, s) = Join(ck, JStr(s)) /\ OptionLen(key, s) = n + JStrLen(s)
    BY <1>2, <1>4, Zenon DEF Option, OptionLen, Join
  <2>2. Join(ck, JStr(s)) \in Text /\ Len(Join(ck, JStr(s))) = n + JStrLen(s)
    BY <1>1, <1>2, JoinRight
  <2>3. Join(p, Join(ck, JStr(s))) = Join(Join(p, ck), JStr(s))
    BY <1>1, <1>2, JoinAssociates
  <2>4. Join(p, ck) = Join(Join(p, c), k)
    BY <1>2, JoinAssociates
  <2>5. n + JStrLen(s) \in Nat
    BY <1>1
  <2>6. QED BY <1>4, <2>1, <2>2, <2>3, <2>4, <2>5, Zenon
<1>5. QED BY <1>3, <1>4

\* One member in front of an object's end, in the two ways it is written.
LEMMA ChainLen ==
    ASSUME NEW p \in Text, NEW k \in Text, NEW v \in Text
    PROVE  /\ Join(Join(p, k), v) \in Text
           /\ Len(Join(Join(p, k), v)) = Len(p) + Len(k) + Len(v)
           /\ Len(p) \in Nat /\ Len(k) \in Nat /\ Len(v) \in Nat
<1>1. Join(p, k) \in Text /\ Len(Join(p, k)) = Len(p) + Len(k) /\ Len(p) \in Nat /\ Len(k) \in Nat
  BY JoinRight
<1>2. Join(Join(p, k), v) \in Text /\ Len(Join(Join(p, k), v)) = Len(Join(p, k)) + Len(v) /\ Len(v) \in Nat
  BY <1>1, JoinRight
<1>3. QED BY <1>1, <1>2

LEMMA MemberIs == ASSUME NEW t, NEW v PROVE Member(Chars(t), v) = Join(Key(t), v)
BY Zenon DEF Member, Key, Join

Longer(ms, s, k, v) == ms \o When(s # <<>>, <<Join(k, v)>>)

\* A member that is only there when there is something to say.
LEMMA WhenRight ==
    ASSUME NEW ms \in Seq(Text), ms # <<>>, NEW k \in Text, NEW v \in Text, NEW s
    PROVE  /\ Longer(ms, s, k, v) \in Seq(Text) /\ Longer(ms, s, k, v) # <<>>
           /\ Open(Longer(ms, s, k, v)) \in Text
           /\ Open(Longer(ms, s, k, v))
                = IF s # <<>> THEN Join(Join(Join(Open(ms), Comma), k), v) ELSE Open(ms)
<1>1. PICK m : m = Join(k, v) /\ m \in Text
  BY JoinRight
<1>2. ms \o <<m>> = Append(ms, m) /\ ms \o <<>> = ms
  BY <1>1, AppendIsConcat, ConcatEmptySeq, Zenon
<1>3. CASE s # <<>>
  <2>1. Longer(ms, s, k, v) = Append(ms, Join(k, v))
    BY <1>1, <1>2, <1>3, Zenon DEF When, Longer
  <2>2. /\ Open(Append(ms, Join(k, v))) = Join(Join(Join(Open(ms), Comma), k), v)
        /\ Open(Append(ms, Join(k, v))) \in Text
        /\ Append(ms, Join(k, v)) \in Seq(Text) /\ Append(ms, Join(k, v)) # <<>>
    BY OpenMore
  <2>3. QED BY <1>3, <2>1, <2>2, Zenon
<1>4. CASE s = <<>>
  <2>1. Longer(ms, s, k, v) = ms
    BY <1>2, <1>4, Zenon DEF When, Longer
  <2>2. Open(ms) \in Text
    <3>1. PICK o, l : o = OpenBrace /\ o \in Text /\ l = Listed(ms) /\ l \in Text
      BY <1>1, Marks, ListedAppend, Zenon
    <3>2. Join(o, l) \in Text
      BY <3>1, JoinRight, Zenon
    <3>3. QED BY <3>1, <3>2, Zenon DEF Open
  <2>3. QED BY <1>4, <2>1, <2>2, Zenon
<1>5. QED BY <1>3, <1>4

LEMMA TwoOf == ASSUME NEW S, NEW a \in S, NEW b \in S PROVE Append(<<a>>, b) = <<a, b>>
<1>1. PICK s : s = <<a>> /\ s \in Seq(S) /\ Len(s) = 1 /\ s[1] = a
  <2>1. <<a>> \in Seq(S) /\ Len(<<a>>) = 1 /\ <<a>>[1] = a
    OBVIOUS
  <2>2. QED BY <2>1, Zenon
<1>2. PICK t : t = Append(s, b) /\ t \in Seq(S) /\ Len(t) = 2 /\ t[1] = a /\ t[2] = b
  <2>1. PICK t : t = Append(s, b)
    OBVIOUS
  <2>2. t \in Seq(S) /\ Len(t) = 1 + 1 /\ t[1 + 1] = b /\ \A i \in 1..1 : t[i] = a
    BY <1>1, <2>1, AppendProperties
  <2>3. 1 \in 1..1 /\ 1 + 1 = 2
    OBVIOUS
  <2>4. QED BY <2>1, <2>2, <2>3, Zenon
<1>3. PICK u : u = <<a, b>> /\ u \in Seq(S) /\ Len(u) = 2 /\ u[1] = a /\ u[2] = b
  <2>1. <<a, b>> \in Seq(S) /\ Len(<<a, b>>) = 2 /\ <<a, b>>[1] = a /\ <<a, b>>[2] = b
    OBVIOUS
  <2>2. QED BY <2>1, Zenon
<1>4. \A i \in 1..2 : i = 1 \/ i = 2
  OBVIOUS
<1>5. \A i \in 1..Len(t) : t[i] = u[i]
  BY <1>2, <1>3, <1>4, Zenon
<1>6. t = u
  BY <1>2, <1>3, <1>5, SeqEqual, Zenon
<1>7. QED BY <1>1, <1>2, <1>3, <1>6, Zenon

\* What the keys are that are written from literals.
LEMMA Literals ==
    /\ Copy("\"id\":", 5) = Key("id") /\ Copy("\"name\":", 7) = Key("name")
    /\ Copy("\"address\":", 10) = Key("address") /\ Copy("\"port\":", 7) = Key("port")
    /\ Copy("\"tags\":[", 8) = Join(Key("tags"), OpenBracket)
    /\ Copy(",\"meta\":{", 9) = Join(Join(Comma, Key("meta")), OpenBrace)
    /\ Copy(",\"checks\":[", 11) = Join(Join(Comma, Key("checks")), OpenBracket)
    /\ Copy(",\"interval\":", 12) = Join(Comma, Key("interval"))
    /\ Copy(",\"timeout\":", 11) = Join(Comma, Key("timeout"))
    /\ Copy("{\"services\":[", 13) = Join(Join(OpenBrace, Key("services")), OpenBracket)
BY KeyAssumption, Zenon DEF Join, Comma, Colon, OpenBrace, CloseBrace, OpenBracket, CloseBracket

LEMMA KeyTexts == \A t \in Keys : Key(t) \in Text
BY Keyed

LEMMA CheckRight ==
    ASSUME NEW ck \in [CheckFields -> Text]
    PROVE  /\ Check(ck) \in Text /\ Check(ck) = CheckValue(ck)
           /\ Len(Check(ck)) <= CheckLen(ck) /\ CheckLen(ck) \in Nat
<1> DEFINE name == JStr(ck.name)
           type == JStr(ck.type)
           target == JStr(ck.target)
           interval == Option(",\"interval\":", 12, ck.interval)
           timeout == Option(",\"timeout\":", 11, ck.timeout)
           intervalLen == OptionLen(",\"interval\":", ck.interval)
           timeoutLen == OptionLen(",\"timeout\":", ck.timeout)
<1>1. /\ ck.name \in Text /\ ck.type \in Text /\ ck.target \in Text
      /\ ck.interval \in Text /\ ck.timeout \in Text
  BY DEF CheckFields
<1>2. /\ name \in Text /\ Len(name) = JStrLen(ck.name) /\ JStrLen(ck.name) \in Nat
      /\ type \in Text /\ Len(type) = JStrLen(ck.type) /\ JStrLen(ck.type) \in Nat
      /\ target \in Text /\ Len(target) = JStrLen(ck.target) /\ JStrLen(ck.target) \in Nat
  BY <1>1, JStrRight
<1>. HIDE DEF name, type, target, interval, timeout, intervalLen, timeoutLen
<1>3. PICK ki, kt, kn : /\ ki = Key("interval") /\ kt = Key("timeout") /\ kn = Key("name")
                        /\ ki \in Text /\ kt \in Text /\ kn \in Text
  BY KeyTexts DEF Keys
<1>4. PICK comma, colon, open, close :
        /\ comma = Comma /\ colon = Colon /\ open = OpenBrace /\ close = CloseBrace
        /\ comma \in Text /\ colon \in Text /\ open \in Text /\ close \in Text
        /\ Len(comma) = 1 /\ Len(colon) = 1 /\ Len(open) = 1 /\ Len(close) = 1
  BY Marks
<1>5. PICK first : first = Join(Join(open, kn), name) /\ first \in Text /\ Len(first) = 8 + JStrLen(ck.name)
  <2>1. Len(kn) = 7
    BY <1>3, CopyLen, Literals
  <2>2. /\ Join(Join(open, kn), name) \in Text
        /\ Len(Join(Join(open, kn), name)) = Len(open) + Len(kn) + Len(name)
    <3>1. open \in Text /\ kn \in Text /\ name \in Text
      BY <1>2, <1>3, <1>4, Zenon
    <3>2. QED BY <3>1, ChainLen
  <2>3. Len(open) + Len(kn) + Len(name) = 1 + 7 + JStrLen(ck.name)
    BY <1>2, <1>4, <2>1, Zenon
  <2>4. 1 + 7 + JStrLen(ck.name) = 8 + JStrLen(ck.name)
    BY <1>2
  <2>5. QED BY <2>2, <2>3, <2>4, Zenon
<1>6. PICK tk : tk = Join(type, colon) /\ tk \in Text /\ Len(tk) = JStrLen(ck.type) + 1
  <2>1. Join(type, colon) \in Text /\ Len(Join(type, colon)) = Len(type) + Len(colon)
    BY <1>2, <1>4, JoinRight
  <2>2. QED BY <1>2, <1>4, <2>1, Zenon
<1>7. PICK second : /\ second = Join(Join(Join(first, comma), tk), target) /\ second \in Text
                    /\ Len(second) = 8 + JStrLen(ck.name) + 1 + (JStrLen(ck.type) + 1) + JStrLen(ck.target)
                    /\ second = Join(Join(Join(Join(first, comma), type), colon), target)
  <2>1. PICK p : p = Join(first, comma) /\ p \in Text /\ Len(p) = 8 + JStrLen(ck.name) + 1
    <3>1. Join(first, comma) \in Text /\ Len(Join(first, comma)) = Len(first) + Len(comma)
      BY <1>4, <1>5, JoinRight
    <3>2. QED BY <1>4, <1>5, <3>1, Zenon
  <2>2. /\ Join(Join(p, tk), target) \in Text
        /\ Len(Join(Join(p, tk), target)) = Len(p) + Len(tk) + Len(target)
    BY <1>2, <1>6, <2>1, ChainLen
  <2>3. Join(p, tk) = Join(Join(p, type), colon)
    BY <1>2, <1>4, <1>6, <2>1, JoinAssociates
  <2>4. Len(p) + Len(tk) + Len(target)
          = 8 + JStrLen(ck.name) + 1 + (JStrLen(ck.type) + 1) + JStrLen(ck.target)
    BY <1>2, <1>6, <2>1
  <2>5. QED BY <2>1, <2>2, <2>3, <2>4, Zenon
<1>8. PICK third : /\ third = Join(second, interval) /\ third \in Text
                   /\ Len(third) = Len(second) + intervalLen /\ intervalLen \in Nat
                   /\ third = IF ck.interval = <<>> THEN second
                              ELSE Join(Join(Join(second, comma), ki), JStr(ck.interval))
  <2>1. PICK key, n : key = ",\"interval\":" /\ n = 12
    OBVIOUS
  <2>2. n \in Nat /\ Len(key) = n /\ Copy(key, n) = Join(comma, ki)
    <3>1. 12 \in Nat
      OBVIOUS
    <3>2. QED BY <1>3, <1>4, <2>1, <3>1, SizeAssumption, Literals, Zenon
  <2>3. interval = Option(key, n, ck.interval) /\ intervalLen = OptionLen(key, ck.interval)
    BY <2>1, Zenon DEF interval, intervalLen
  <2>4. /\ interval \in Text /\ Len(interval) = intervalLen /\ intervalLen \in Nat
        /\ Join(second, interval) = IF ck.interval = <<>> THEN second
                                ELSE Join(Join(Join(second, comma), ki), JStr(ck.interval))
    <3>1. ck.interval \in Text /\ comma \in Text /\ ki \in Text /\ second \in Text
      BY <1>1, <1>3, <1>4, <1>7
    <3>2. QED BY <2>2, <2>3, <3>1, OptionRight
  <2>5. Join(second, interval) \in Text /\ Len(Join(second, interval)) = Len(second) + Len(interval)
    BY <1>7, <2>4, JoinRight
  <2>6. QED BY <2>4, <2>5, Zenon
<1>9. PICK fourth : /\ fourth = Join(third, timeout) /\ fourth \in Text
                   /\ Len(fourth) = Len(third) + timeoutLen /\ timeoutLen \in Nat
                   /\ fourth = IF ck.timeout = <<>> THEN third
                              ELSE Join(Join(Join(third, comma), kt), JStr(ck.timeout))
  <2>1. PICK key, n : key = ",\"timeout\":" /\ n = 11
    OBVIOUS
  <2>2. n \in Nat /\ Len(key) = n /\ Copy(key, n) = Join(comma, kt)
    <3>1. 11 \in Nat
      OBVIOUS
    <3>2. QED BY <1>3, <1>4, <2>1, <3>1, SizeAssumption, Literals, Zenon
  <2>3. timeout = Option(key, n, ck.timeout) /\ timeoutLen = OptionLen(key, ck.timeout)
    BY <2>1, Zenon DEF timeout, timeoutLen
  <2>4. /\ timeout \in Text /\ Len(timeout) = timeoutLen /\ timeoutLen \in Nat
        /\ Join(third, timeout) = IF ck.timeout = <<>> THEN third
                                ELSE Join(Join(Join(third, comma), kt), JStr(ck.timeout))
    <3>1. ck.timeout \in Text /\ comma \in Text /\ kt \in Text /\ third \in Text
      BY <1>1, <1>3, <1>4, <1>8
    <3>2. QED BY <2>2, <2>3, <3>1, OptionRight
  <2>5. Join(third, timeout) \in Text /\ Len(Join(third, timeout)) = Len(third) + Len(timeout)
    BY <1>8, <2>4, JoinRight
  <2>6. QED BY <2>4, <2>5, Zenon
<1>10. Check(ck) = Join(fourth, close)
  <2>1. Check(ck) = Join(Join(Join(Join(Join(Join(Join(Join(Join(OpenBrace, Copy("\"name\":", 7)), name),
                      Comma), type), Colon), target), interval), timeout), CloseBrace)
    BY Zenon DEF Check, Join, Comma, Colon, OpenBrace, CloseBrace, name, type, target, interval, timeout
  <2>2. Copy("\"name\":", 7) = kn
    BY <1>3, Literals, Zenon
  <2>3. QED BY <1>4, <1>5, <1>7, <1>8, <1>9, <2>1, <2>2, Zenon
<1>11. Check(ck) \in Text /\ Len(Check(ck)) = Len(fourth) + 1
  <2>1. Join(fourth, close) \in Text /\ Len(Join(fourth, close)) = Len(fourth) + Len(close)
    BY <1>4, <1>9, JoinRight
  <2>2. QED BY <1>4, <1>10, <2>1, Zenon
<1>12. Len(Check(ck)) <= CheckLen(ck) /\ CheckLen(ck) \in Nat
  <2>1. CheckLen(ck) = 1 + 7 + JStrLen(ck.name) + 2 + JStrLen(ck.type) + 1 + JStrLen(ck.target)
                       + intervalLen + timeoutLen + 1
    BY SizeAssumption, Zenon DEF CheckLen, intervalLen, timeoutLen
  <2>2. Len(Check(ck))
          = 8 + JStrLen(ck.name) + 1 + (JStrLen(ck.type) + 1) + JStrLen(ck.target) + intervalLen + timeoutLen + 1
    BY <1>7, <1>8, <1>9, <1>11, Zenon
  <2>3. ASSUME NEW a \in Nat, NEW b \in Nat, NEW c \in Nat, NEW d \in Nat, NEW e \in Nat
        PROVE  /\ 8 + a + 1 + (b + 1) + c + d + e + 1 <= 1 + 7 + a + 2 + b + 1 + c + d + e + 1
               /\ 1 + 7 + a + 2 + b + 1 + c + d + e + 1 \in Nat
    OBVIOUS
  <2>4. PICK a, b, c, d, e \in Nat : /\ a = JStrLen(ck.name) /\ b = JStrLen(ck.type) /\ c = JStrLen(ck.target)
                                     /\ d = intervalLen /\ e = timeoutLen
    BY <1>2, <1>8, <1>9, Zenon
  <2>5. /\ 8 + a + 1 + (b + 1) + c + d + e + 1 <= 1 + 7 + a + 2 + b + 1 + c + d + e + 1
        /\ 1 + 7 + a + 2 + b + 1 + c + d + e + 1 \in Nat
    BY <2>3, <2>4, Zenon
  <2>6. /\ Len(Check(ck)) = 8 + a + 1 + (b + 1) + c + d + e + 1
        /\ CheckLen(ck) = 1 + 7 + a + 2 + b + 1 + c + d + e + 1
    BY <2>1, <2>2, <2>4, Zenon
  <2>7. QED BY <2>5, <2>6, Zenon
<1>13. Check(ck) = CheckValue(ck)
  <2> DEFINE one == <<Join(kn, name)>>
             two == Append(one, Join(tk, target))
             three == Longer(two, ck.interval, ki, JStr(ck.interval))
             four == Longer(three, ck.timeout, kt, JStr(ck.timeout))
  <2>1. JStr(ck.interval) \in Text /\ JStr(ck.timeout) \in Text
    BY <1>1, JStrRight
  <2>2. Open(one) = first /\ one \in Seq(Text) /\ one # <<>>
    BY <1>2, <1>3, <1>4, <1>5, OpenFirst, Zenon
  <2>. HIDE DEF one
  <2>3. Open(two) = second /\ two \in Seq(Text) /\ two # <<>>
    <3>1. /\ Open(Append(one, Join(tk, target))) = Join(Join(Join(Open(one), Comma), tk), target)
          /\ Append(one, Join(tk, target)) \in Seq(Text) /\ Append(one, Join(tk, target)) # <<>>
      BY <1>2, <1>6, <2>2, OpenMore
    <3>2. QED BY <1>4, <1>7, <2>2, <3>1, Zenon
  <2>4. two = <<Member(Chars("name"), TextOf(ck.name)), Member(ck.type, TextOf(ck.target))>>
    <3>1. Member(Chars("name"), TextOf(ck.name)) = Join(kn, name)
      BY <1>3, MemberIs, Zenon DEF TextOf, name
    <3>2. Member(ck.type, TextOf(ck.target)) = Join(tk, target)
      BY <1>4, <1>6, Zenon DEF Member, TextOf, Join, Comma, Colon, OpenBrace, CloseBrace, OpenBracket, CloseBracket, type, target
    <3>3. Join(kn, name) \in Text /\ Join(tk, target) \in Text
      BY <1>2, <1>3, <1>6, JoinRight
    <3>4. Append(<<Join(kn, name)>>, Join(tk, target)) = <<Join(kn, name), Join(tk, target)>>
      BY <3>3, TwoOf, Zenon
    <3>5. QED BY <3>1, <3>2, <3>4, Zenon DEF one
  <2>. HIDE DEF two
  <2>5. /\ three \in Seq(Text) /\ three # <<>>
        /\ Open(three) = IF ck.interval # <<>> THEN Join(Join(Join(Open(two), Comma), ki), JStr(ck.interval))
                         ELSE Open(two)
    <3>1. ki \in Text
      BY <1>3, Zenon
    <3>2. QED BY <2>1, <2>3, <3>1, WhenRight
  <2>6. Open(three) = third
    BY <1>4, <1>8, <2>3, <2>5, Zenon
  <2>7. three = two \o When(ck.interval # <<>>, <<Member(Chars("interval"), TextOf(ck.interval))>>)
    BY <1>3, MemberIs, Zenon DEF TextOf, Longer
  <2>. HIDE DEF three
  <2>8. Open(four) = IF ck.timeout # <<>> THEN Join(Join(Join(Open(three), Comma), kt), JStr(ck.timeout))
                     ELSE Open(three)
    <3>1. kt \in Text
      BY <1>3, Zenon
    <3>2. QED BY <2>1, <2>5, <3>1, WhenRight
  <2>9. Open(four) = fourth
    BY <1>4, <1>9, <2>6, <2>8, Zenon
  <2>10. four = three \o When(ck.timeout # <<>>, <<Member(Chars("timeout"), TextOf(ck.timeout))>>)
    BY <1>3, MemberIs, Zenon DEF TextOf, Longer
  <2>. HIDE DEF four
  <2>11. CheckValue(ck) = Join(Open(four), CloseBrace)
    BY <2>4, <2>7, <2>10, Zenon DEF CheckValue, Object, Open, Join, Comma, Colon, OpenBrace, CloseBrace, OpenBracket, CloseBracket
  <2>12. QED BY <1>4, <1>10, <2>9, <2>11, Zenon
<1>14. QED BY <1>11, <1>12, <1>13

\* A sum grows with its parts.
LEMMA TotalGrows ==
    ASSUME NEW n \in Nat, NEW lens \in [1..n -> Nat], NEW most \in [1..n -> Nat],
           \A i \in 1..n : lens[i] <= most[i]
    PROVE  Total(lens) <= Total(most) /\ Total(lens) \in Nat /\ Total(most) \in Nat
<1>1. PICK sum : PartialSums(sum, n, lens) /\ Total(lens) = sum[n]
  BY SumValues, TotalIsSum
<1>2. PICK all : PartialSums(all, n, most) /\ Total(most) = all[n]
  BY SumValues, TotalIsSum
<1> DEFINE P == {k \in 0..n : sum[k] <= all[k]}
<1>3. 0 \in P
  BY <1>1, <1>2 DEF PartialSums
<1>4. ASSUME NEW k \in 1..n, k - 1 \in P PROVE k \in P
  <2>1. k \in 0..n /\ k - 1 \in 0..n
    OBVIOUS
  <2>2. sum[k] = sum[k - 1] + lens[k] /\ all[k] = all[k - 1] + most[k]
    BY <1>1, <1>2 DEF PartialSums
  <2>3. sum[k - 1] \in Nat /\ all[k - 1] \in Nat /\ sum[k - 1] <= all[k - 1]
    BY <1>1, <1>2, <1>4, <2>1 DEF PartialSums
  <2>4. lens[k] \in Nat /\ most[k] \in Nat /\ lens[k] <= most[k]
    OBVIOUS
  <2>5. sum[k] <= all[k]
    BY <2>2, <2>3, <2>4
  <2>6. QED BY <2>1, <2>5
<1>5. n \in P
  <2>1. n \in 0..n
    OBVIOUS
  <2>. HIDE DEF P
  <2>2. QED BY <1>3, <1>4, <2>1, Inductively
<1>6. sum[n] \in Nat /\ all[n] \in Nat
  BY <1>1, <1>2 DEF PartialSums
<1>7. QED BY <1>1, <1>2, <1>5, <1>6

\* A list is no longer than what is counted for its elements and the commas between them.
LEMMA ListedFits ==
    ASSUME NEW n \in Nat, NEW es \in [1..n -> Text], NEW most \in [1..n -> Nat],
           \A i \in 1..n : Len(es[i]) <= most[i]
    PROVE  /\ Listed(es) \in Text /\ Total(most) \in Nat
           /\ Len(Listed(es)) <= (IF n = 0 THEN 0 ELSE n - 1) + Total(most)
<1> DEFINE lens == [i \in 1..n |-> Len(es[i])]
<1>1. lens \in [1..n -> Nat] /\ \A i \in 1..n : lens[i] <= most[i]
  <2>1. \A i \in 1..n : Len(es[i]) \in Nat
    BY TextJoins
  <2>2. QED BY <2>1
<1>2. /\ Listed(es) \in Text /\ Total(lens) \in Nat
      /\ Len(Listed(es)) = (IF n = 0 THEN 0 ELSE n - 1) + Total(lens)
  BY ListedLen
<1>. HIDE DEF lens
<1>3. Total(lens) <= Total(most) /\ Total(most) \in Nat
  BY <1>1, TotalGrows
<1>4. ASSUME NEW a \in Nat, NEW b \in Nat, a <= b
      PROVE  (IF n = 0 THEN 0 ELSE n - 1) + a <= (IF n = 0 THEN 0 ELSE n - 1) + b
  BY <1>4
<1>5. QED BY <1>2, <1>3, <1>4

\* One as long as a sequence is.
LEMMA CommasIs == ASSUME NEW S, NEW s \in Seq(S) PROVE Commas(s) = IF Len(s) = 0 THEN 0 ELSE Len(s) - 1
BY EmptySeq DEF Commas

TagsValue(tags)     == Array(Each(TextOf, tags))
MetaValue(meta)     == Object(Each(LAMBDA kv : Member(kv[1], TextOf(kv[2])), meta))
ChecksValue(checks) == Array(Each(CheckValue, checks))

\* What stands between the brackets of the tags.
LEMMA TagsRight ==
    ASSUME NEW tags \in Seq(Text)
    PROVE  \E inner \in Text :
             /\ inner = Listed(Each(JStr, tags)) /\ TagsValue(tags) = Join(Join(OpenBracket, inner), CloseBracket)
             /\ Len(inner) <= Commas(tags) + Total(Each(JStrLen, tags))
             /\ Len(inner) \in Nat /\ Commas(tags) + Total(Each(JStrLen, tags)) \in Nat
<1> DEFINE es == [i \in 1..Len(tags) |-> JStr(tags[i])]
           most == [i \in 1..Len(tags) |-> JStrLen(tags[i])]
<1>1. PICK n \in Nat : n = Len(tags) /\ \A i \in 1..n : tags[i] \in Text
  BY LenProperties
<1>2. \A i \in 1..n : JStr(tags[i]) \in Text /\ JStrLen(tags[i]) \in Nat /\ Len(JStr(tags[i])) = JStrLen(tags[i])
  BY <1>1, JStrRight
<1>3. es \in [1..n -> Text] /\ most \in [1..n -> Nat] /\ \A i \in 1..n : Len(es[i]) <= most[i]
  BY <1>1, <1>2
<1>4. Each(JStr, tags) = es /\ Each(JStrLen, tags) = most /\ Each(TextOf, tags) = es
  BY DEF Each, TextOf
<1>. HIDE DEF es, most
<1>5. /\ Listed(es) \in Text /\ Total(most) \in Nat
      /\ Len(Listed(es)) <= (IF n = 0 THEN 0 ELSE n - 1) + Total(most)
  BY <1>3, ListedFits
<1>6. Commas(tags) = IF n = 0 THEN 0 ELSE n - 1
  BY <1>1, CommasIs
<1>7. Len(Listed(es)) \in Nat /\ Commas(tags) + Total(most) \in Nat
  BY <1>5, <1>6, TextJoins
<1>8. TagsValue(tags) = Join(Join(OpenBracket, Listed(es)), CloseBracket)
  BY <1>4, Zenon DEF TagsValue, Array, Join, OpenBracket, CloseBracket
<1>9. QED BY <1>4, <1>5, <1>6, <1>7, <1>8, Zenon

\* Where a key and the bracket after it are written at once.
LEMMA LeadJoins ==
    ASSUME NEW p \in Text, NEW co \in Text, NEW k \in Text, NEW o \in Text, NEW inner \in Text, NEW cl \in Text
    PROVE  Join(p, Join(Join(Join(Join(co, k), o), inner), cl)) = Join(Join(Join(p, co), k), Join(Join(o, inner), cl))
<1>1. PICK q : q = Join(co, k) /\ q \in Text
  BY JoinRight
<1>2. PICK v : v = Join(Join(o, inner), cl) /\ v \in Text
  BY ChainLen
<1>3. Join(Join(q, o), inner) = Join(q, Join(o, inner)) /\ Join(o, inner) \in Text
  BY <1>1, JoinAssociates, JoinRight
<1>4. Join(Join(q, Join(o, inner)), cl) = Join(q, Join(Join(o, inner), cl))
  BY <1>1, <1>3, JoinAssociates
<1>5. Join(p, Join(q, v)) = Join(Join(p, q), v)
  BY <1>1, <1>2, JoinAssociates
<1>6. Join(p, q) = Join(Join(p, co), k)
  BY <1>1, JoinAssociates
<1>7. QED BY <1>1, <1>2, <1>3, <1>4, <1>5, <1>6, Zenon

\* The metadata of a service, written and counted.
LEMMA MetaFits ==
    ASSUME NEW meta \in Seq(Text \X Text), NEW p \in Text
    PROVE  /\ Meta(meta) \in Text /\ MetaLen(meta) \in Nat /\ Len(Meta(meta)) <= MetaLen(meta)
           /\ MetaValue(meta) \in Text
           /\ Join(p, Meta(meta)) = IF meta = <<>> THEN p
                                    ELSE Join(Join(Join(p, Comma), Key("meta")), MetaValue(meta))
<1> DEFINE es == [i \in 1..Len(meta) |-> Pair(meta[i])]
           most == [i \in 1..Len(meta) |-> PairLen(meta[i])]
           inner == Listed(es)
<1>1. PICK n \in Nat : n = Len(meta) /\ \A i \in 1..n : meta[i] \in Text \X Text
  BY LenProperties
<1>2. ASSUME NEW i \in 1..n
      PROVE  /\ Pair(meta[i]) \in Text /\ PairLen(meta[i]) \in Nat /\ Len(Pair(meta[i])) = PairLen(meta[i])
  <2>1. PICK a, b : a = meta[i][1] /\ b = meta[i][2] /\ a \in Text /\ b \in Text
    BY <1>1
  <2>2. PICK ta, tb, la, lb : /\ ta = JStr(a) /\ tb = JStr(b) /\ ta \in Text /\ tb \in Text
                              /\ Len(ta) = la /\ Len(tb) = lb /\ la = JStrLen(a) /\ lb = JStrLen(b)
                              /\ la \in Nat /\ lb \in Nat
    BY <2>1, JStrRight
  <2>3. PICK c : c = Colon /\ c \in Text /\ Len(c) = 1
    BY Marks
  <2>4. Pair(meta[i]) = Join(Join(ta, c), tb)
    BY <2>1, <2>2, <2>3, Zenon DEF Pair, Join, Colon
  <2>5. /\ Join(Join(ta, c), tb) \in Text /\ Len(Join(Join(ta, c), tb)) = Len(ta) + Len(c) + Len(tb)
    BY <2>2, <2>3, ChainLen
  <2>6. PairLen(meta[i]) = la + 1 + lb
    BY <2>1, <2>2, Zenon DEF PairLen
  <2>7. la + 1 + lb \in Nat
    BY <2>2
  <2>8. Len(Join(Join(ta, c), tb)) = la + 1 + lb
    BY <2>2, <2>3, <2>5, Zenon
  <2>9. QED BY <2>4, <2>5, <2>6, <2>7, <2>8, Zenon
<1>3. es \in [1..n -> Text] /\ most \in [1..n -> Nat] /\ \A i \in 1..n : Len(es[i]) <= most[i]
  <2>1. \A i \in 1..n : PairLen(meta[i]) <= PairLen(meta[i])
    BY <1>2
  <2>2. QED BY <1>1, <1>2, <2>1
<1>4. /\ Each(Pair, meta) = es /\ Each(PairLen, meta) = most
      /\ Each(LAMBDA kv : Member(kv[1], TextOf(kv[2])), meta) = es
  BY Zenon DEF Each, Pair, Member, TextOf
<1>. HIDE DEF es, most
<1>5. /\ inner \in Text /\ Total(most) \in Nat
      /\ Len(inner) <= (IF n = 0 THEN 0 ELSE n - 1) + Total(most)
  BY <1>3, ListedFits
<1>6. Commas(meta) = IF n = 0 THEN 0 ELSE n - 1
  BY <1>1, CommasIs
<1>. HIDE DEF inner
<1>7. PICK km, o, cl, co : /\ km = Key("meta") /\ km \in Text /\ o = OpenBrace /\ cl = CloseBrace /\ co = Comma
                           /\ o \in Text /\ cl \in Text /\ co \in Text /\ Len(o) = 1 /\ Len(cl) = 1 /\ Len(co) = 1
  BY KeyTexts, Marks DEF Keys
<1>8. PICK v : v = Join(Join(o, inner), cl) /\ v \in Text
  BY <1>5, <1>7, ChainLen
<1>9. MetaValue(meta) = v
  BY <1>4, <1>7, <1>8, Zenon DEF MetaValue, Object, Join, OpenBrace, CloseBrace, inner
<1>10. CASE meta = <<>>
  <2>1. Meta(meta) = <<>> /\ MetaLen(meta) = 0
    BY <1>10, Zenon DEF Meta, MetaLen
  <2>2. Join(p, <<>>) = p /\ <<>> \in Text /\ Len(<<>>) <= 0 /\ 0 \in Nat
    BY TextEmpty DEF Join
  <2>3. QED BY <1>8, <1>9, <1>10, <2>1, <2>2, Zenon
<1>11. CASE meta # <<>>
  <2>1. PICK lead : lead = Join(Join(co, km), o) /\ lead \in Text /\ lead = Copy(",\"meta\":{", 9) /\ Len(lead) = 9
    <3>1. Join(Join(co, km), o) \in Text
      BY <1>7, ChainLen
    <3>2. Copy(",\"meta\":{", 9) = Join(Join(co, km), o)
      BY <1>7, Literals, Zenon
    <3>3. Len(Copy(",\"meta\":{", 9)) = 9
      BY CopyLen
    <3>4. QED BY <3>1, <3>2, <3>3, Zenon
  <2>2. Meta(meta) = Join(Join(lead, inner), cl)
    BY <1>4, <1>7, <1>11, <2>1, Zenon DEF Meta, Join, CloseBrace, inner
  <2>3. /\ Join(Join(lead, inner), cl) \in Text
        /\ Len(Join(Join(lead, inner), cl)) = Len(lead) + Len(inner) + Len(cl)
    BY <1>5, <1>7, <2>1, ChainLen
  <2>4. MetaLen(meta) = 9 + Commas(meta) + Total(most) + 1
    BY <1>4, <1>11, SizeAssumption, Zenon DEF MetaLen
  <2>5. Len(inner) \in Nat
    BY <1>5, TextJoins
  <2>6. PICK li, c, t \in Nat : li = Len(inner) /\ c = Commas(meta) /\ t = Total(most) /\ li <= c + t
    <3>1. Commas(meta) \in Nat
      BY <1>6
    <3>2. Len(inner) <= Commas(meta) + Total(most)
      BY <1>5, <1>6, Zenon
    <3>3. QED BY <1>5, <2>5, <3>1, <3>2, Zenon
  <2>7. 9 + li + 1 <= 9 + c + t + 1 /\ 9 + c + t + 1 \in Nat
    BY <2>6
  <2>8. Len(Meta(meta)) = 9 + li + 1 /\ MetaLen(meta) = 9 + c + t + 1
    BY <1>7, <2>1, <2>2, <2>3, <2>4, <2>6, Zenon
  <2>9. Join(p, Join(Join(Join(Join(co, km), o), inner), cl)) = Join(Join(Join(p, co), km), Join(Join(o, inner), cl))
    <3>1. p \in Text /\ co \in Text /\ km \in Text /\ o \in Text /\ inner \in Text /\ cl \in Text
      BY <1>5, <1>7
    <3>2. QED BY <3>1, LeadJoins
  <2>10. Join(p, Meta(meta)) = Join(Join(Join(p, Comma), Key("meta")), MetaValue(meta))
    BY <1>7, <1>8, <1>9, <2>1, <2>2, <2>9, Zenon
  <2>11. QED BY <1>8, <1>9, <1>11, <2>2, <2>3, <2>7, <2>8, <2>10, Zenon
<1>12. QED BY <1>10, <1>11

\* The checks of a service, written and counted.
LEMMA ChecksFits ==
    ASSUME NEW checks \in Seq([CheckFields -> Text]), NEW p \in Text
    PROVE  /\ Checks(checks) \in Text /\ ChecksLen(checks) \in Nat /\ Len(Checks(checks)) <= ChecksLen(checks)
           /\ ChecksValue(checks) \in Text
           /\ Join(p, Checks(checks)) = IF checks = <<>> THEN p
                                    ELSE Join(Join(Join(p, Comma), Key("checks")), ChecksValue(checks))
<1> DEFINE es == [i \in 1..Len(checks) |-> Check(checks[i])]
           most == [i \in 1..Len(checks) |-> CheckLen(checks[i])]
           inner == Listed(es)
<1>1. PICK n \in Nat : n = Len(checks) /\ \A i \in 1..n : checks[i] \in [CheckFields -> Text]
  BY LenProperties
<1>2. ASSUME NEW i \in 1..n
      PROVE  /\ Check(checks[i]) \in Text /\ CheckLen(checks[i]) \in Nat /\ Len(Check(checks[i])) <= CheckLen(checks[i])
             /\ Check(checks[i]) = CheckValue(checks[i])
  BY <1>1, CheckRight
<1>3. es \in [1..n -> Text] /\ most \in [1..n -> Nat] /\ \A i \in 1..n : Len(es[i]) <= most[i]
  BY <1>1, <1>2
<1>4. /\ Each(Check, checks) = es /\ Each(CheckLen, checks) = most
      /\ Each(CheckValue, checks) = es
  BY <1>1, <1>2 DEF Each
<1>. HIDE DEF es, most
<1>5. /\ inner \in Text /\ Total(most) \in Nat
      /\ Len(inner) <= (IF n = 0 THEN 0 ELSE n - 1) + Total(most)
  BY <1>3, ListedFits
<1>6. Commas(checks) = IF n = 0 THEN 0 ELSE n - 1
  BY <1>1, CommasIs
<1>. HIDE DEF inner
<1>7. PICK kc, o, cl, co : /\ kc = Key("checks") /\ kc \in Text /\ o = OpenBracket /\ cl = CloseBracket /\ co = Comma
                           /\ o \in Text /\ cl \in Text /\ co \in Text /\ Len(o) = 1 /\ Len(cl) = 1 /\ Len(co) = 1
  BY KeyTexts, Marks DEF Keys
<1>8. PICK v : v = Join(Join(o, inner), cl) /\ v \in Text
  BY <1>5, <1>7, ChainLen
<1>9. ChecksValue(checks) = v
  BY <1>4, <1>7, <1>8, Zenon DEF ChecksValue, Array, Join, OpenBracket, CloseBracket, inner
<1>10. CASE checks = <<>>
  <2>1. Checks(checks) = <<>> /\ ChecksLen(checks) = 0
    BY <1>10, Zenon DEF Checks, ChecksLen
  <2>2. Join(p, <<>>) = p /\ <<>> \in Text /\ Len(<<>>) <= 0 /\ 0 \in Nat
    BY TextEmpty DEF Join
  <2>3. QED BY <1>8, <1>9, <1>10, <2>1, <2>2, Zenon
<1>11. CASE checks # <<>>
  <2>1. PICK lead : lead = Join(Join(co, kc), o) /\ lead \in Text /\ lead = Copy(",\"checks\":[", 11) /\ Len(lead) = 11
    <3>1. Join(Join(co, kc), o) \in Text
      BY <1>7, ChainLen
    <3>2. Copy(",\"checks\":[", 11) = Join(Join(co, kc), o)
      BY <1>7, Literals, Zenon
    <3>3. Len(Copy(",\"checks\":[", 11)) = 11
      BY CopyLen
    <3>4. QED BY <3>1, <3>2, <3>3, Zenon
  <2>2. Checks(checks) = Join(Join(lead, inner), cl)
    BY <1>4, <1>7, <1>11, <2>1, Zenon DEF Checks, Join, CloseBracket, inner
  <2>3. /\ Join(Join(lead, inner), cl) \in Text
        /\ Len(Join(Join(lead, inner), cl)) = Len(lead) + Len(inner) + Len(cl)
    BY <1>5, <1>7, <2>1, ChainLen
  <2>4. ChecksLen(checks) = 11 + Commas(checks) + Total(most) + 1
    BY <1>4, <1>11, SizeAssumption, Zenon DEF ChecksLen
  <2>5. Len(inner) \in Nat
    BY <1>5, TextJoins
  <2>6. PICK li, c, t \in Nat : li = Len(inner) /\ c = Commas(checks) /\ t = Total(most) /\ li <= c + t
    <3>1. Commas(checks) \in Nat
      BY <1>6
    <3>2. Len(inner) <= Commas(checks) + Total(most)
      BY <1>5, <1>6, Zenon
    <3>3. QED BY <1>5, <2>5, <3>1, <3>2, Zenon
  <2>7. 11 + li + 1 <= 11 + c + t + 1 /\ 11 + c + t + 1 \in Nat
    BY <2>6
  <2>8. Len(Checks(checks)) = 11 + li + 1 /\ ChecksLen(checks) = 11 + c + t + 1
    BY <1>7, <2>1, <2>2, <2>3, <2>4, <2>6, Zenon
  <2>9. Join(p, Join(Join(Join(Join(co, kc), o), inner), cl)) = Join(Join(Join(p, co), kc), Join(Join(o, inner), cl))
    <3>1. p \in Text /\ co \in Text /\ kc \in Text /\ o \in Text /\ inner \in Text /\ cl \in Text
      BY <1>5, <1>7
    <3>2. QED BY <3>1, LeadJoins
  <2>10. Join(p, Checks(checks)) = Join(Join(Join(p, Comma), Key("checks")), ChecksValue(checks))
    BY <1>7, <1>8, <1>9, <2>1, <2>2, <2>9, Zenon
  <2>11. QED BY <1>8, <1>9, <1>11, <2>2, <2>3, <2>7, <2>8, <2>10, Zenon
<1>12. QED BY <1>10, <1>11

LEMMA TagJoins ==
    ASSUME NEW p \in Text, NEW k \in Text, NEW o \in Text, NEW inner \in Text, NEW cl \in Text
    PROVE  Join(Join(Join(p, Join(k, o)), inner), cl) = Join(Join(p, k), Join(Join(o, inner), cl))
<1>1. PICK q : q = Join(p, k) /\ q \in Text
  BY JoinRight
<1>2. Join(p, Join(k, o)) = Join(q, o)
  BY <1>1, JoinAssociates
<1>3. Join(Join(q, o), inner) = Join(q, Join(o, inner)) /\ Join(o, inner) \in Text
  BY <1>1, JoinAssociates, JoinRight
<1>4. Join(Join(q, Join(o, inner)), cl) = Join(q, Join(Join(o, inner), cl))
  BY <1>1, <1>3, JoinAssociates
<1>5. QED BY <1>1, <1>2, <1>3, <1>4, Zenon

\* A member more, and how much longer the object is for it.
MoreThan(ms, p, k, v) ==
    /\ Append(ms, Join(k, v)) \in Seq(Text) /\ Append(ms, Join(k, v)) # <<>>
    /\ Join(Join(Join(p, Comma), k), v) \in Text
    /\ Open(Append(ms, Join(k, v))) = Join(Join(Join(p, Comma), k), v)
    /\ Len(Join(Join(Join(p, Comma), k), v)) = Len(p) + 1 + Len(k) + Len(v)

LEMMA MemberMore ==
    ASSUME NEW ms \in Seq(Text), ms # <<>>, NEW p \in Text, Open(ms) = p, NEW k \in Text, NEW v \in Text
    PROVE  MoreThan(ms, p, k, v)
<1>1. PICK c : c = Comma /\ c \in Text /\ Len(c) = 1
  BY Marks
<1>2. PICK pc : pc = Join(p, c) /\ pc \in Text /\ Len(pc) = Len(p) + Len(c) /\ Len(p) \in Nat
  <2>1. c \in Text
    BY <1>1, Zenon
  <2>2. QED BY <2>1, JoinRight
<1>3. /\ Join(Join(pc, k), v) \in Text /\ Len(Join(Join(pc, k), v)) = Len(pc) + Len(k) + Len(v)
      /\ Len(k) \in Nat /\ Len(v) \in Nat
  BY <1>2, ChainLen
<1>4. /\ Open(Append(ms, Join(k, v))) = Join(Join(Join(p, c), k), v)
      /\ Append(ms, Join(k, v)) \in Seq(Text) /\ Append(ms, Join(k, v)) # <<>>
  BY <1>1, OpenMore, Zenon
<1>5. Len(Join(Join(pc, k), v)) = Len(p) + 1 + Len(k) + Len(v)
  BY <1>1, <1>2, <1>3, Zenon
<1>6. QED BY <1>1, <1>2, <1>3, <1>4, <1>5, Zenon DEF MoreThan

LEMMA MoreOf ==
    ASSUME NEW S, NEW n \in Nat, NEW s \in Seq(S), Len(s) = n, NEW e \in S
    PROVE  /\ Append(s, e) \in Seq(S) /\ Len(Append(s, e)) = n + 1 /\ Append(s, e)[n + 1] = e
           /\ \A i \in 1..n : Append(s, e)[i] = s[i]
BY AppendProperties

\* Five members one after the other.
LEMMA FiveOf ==
    ASSUME NEW S, NEW a \in S, NEW b \in S, NEW c \in S, NEW d \in S, NEW e \in S
    PROVE  Append(Append(Append(Append(<<a>>, b), c), d), e) = <<a, b, c, d, e>>
<1>1. PICK s : s = Append(<<a>>, b) /\ s \in Seq(S) /\ Len(s) = 2 /\ s[1] = a /\ s[2] = b
  <2>1. <<a, b>> \in Seq(S) /\ Len(<<a, b>>) = 2 /\ <<a, b>>[1] = a /\ <<a, b>>[2] = b
    OBVIOUS
  <2>2. QED BY <2>1, TwoOf, Zenon
<1>2. PICK t : t = Append(s, c) /\ t \in Seq(S) /\ Len(t) = 3 /\ t[1] = a /\ t[2] = b /\ t[3] = c
  <2>1. PICK t : t = Append(s, c)
    OBVIOUS
  <2>2. t \in Seq(S) /\ Len(t) = 2 + 1 /\ t[2 + 1] = c /\ \A i \in 1..2 : t[i] = s[i]
    BY <1>1, <2>1, MoreOf, 2 \in Nat
  <2>3. 1 \in 1..2 /\ 2 \in 1..2 /\ 2 + 1 = 3
    OBVIOUS
  <2>4. QED BY <1>1, <2>1, <2>2, <2>3, Zenon
<1>3. PICK u : u = Append(t, d) /\ u \in Seq(S) /\ Len(u) = 4 /\ u[1] = a /\ u[2] = b /\ u[3] = c /\ u[4] = d
  <2>1. PICK u : u = Append(t, d)
    OBVIOUS
  <2>2. u \in Seq(S) /\ Len(u) = 3 + 1 /\ u[3 + 1] = d /\ \A i \in 1..3 : u[i] = t[i]
    BY <1>2, <2>1, MoreOf, 3 \in Nat
  <2>3. 1 \in 1..3 /\ 2 \in 1..3 /\ 3 \in 1..3 /\ 3 + 1 = 4
    OBVIOUS
  <2>4. QED BY <1>2, <2>1, <2>2, <2>3, Zenon
<1>4. PICK v : v = Append(u, e) /\ v \in Seq(S) /\ Len(v) = 5 /\ v[1] = a /\ v[2] = b /\ v[3] = c /\ v[4] = d /\ v[5] = e
  <2>1. PICK v : v = Append(u, e)
    OBVIOUS
  <2>2. v \in Seq(S) /\ Len(v) = 4 + 1 /\ v[4 + 1] = e /\ \A i \in 1..4 : v[i] = u[i]
    BY <1>3, <2>1, MoreOf, 4 \in Nat
  <2>3. 1 \in 1..4 /\ 2 \in 1..4 /\ 3 \in 1..4 /\ 4 \in 1..4 /\ 4 + 1 = 5
    OBVIOUS
  <2>4. QED BY <1>3, <2>1, <2>2, <2>3, Zenon
<1>5. PICK w : w = <<a, b, c, d, e>> /\ w \in Seq(S) /\ Len(w) = 5 /\ w[1] = a /\ w[2] = b /\ w[3] = c /\ w[4] = d /\ w[5] = e
  <2>1. /\ <<a, b, c, d, e>> \in Seq(S) /\ Len(<<a, b, c, d, e>>) = 5
        /\ <<a, b, c, d, e>>[1] = a /\ <<a, b, c, d, e>>[2] = b /\ <<a, b, c, d, e>>[3] = c
        /\ <<a, b, c, d, e>>[4] = d /\ <<a, b, c, d, e>>[5] = e
    OBVIOUS
  <2>2. QED BY <2>1, Zenon
<1>6. \A i \in 1..5 : i = 1 \/ i = 2 \/ i = 3 \/ i = 4 \/ i = 5
  OBVIOUS
<1>7. \A i \in 1..Len(v) : v[i] = w[i]
  BY <1>4, <1>5, <1>6, Zenon
<1>8. v = w
  BY <1>4, <1>5, <1>7, SeqEqual, Zenon
<1>9. QED BY <1>1, <1>2, <1>3, <1>4, <1>5, <1>8, Zenon

Named(sv) == sv.id \in Text /\ sv.name \in Text /\ sv.address \in Text /\ sv.port \in Nat

LEMMA TagCounts ==
    ASSUME NEW tags \in Seq(Text)
    PROVE  Commas(tags) \in Nat /\ Total(Each(JStrLen, tags)) \in Nat
<1>1. PICK n \in Nat : n = Len(tags) /\ \A i \in 1..n : tags[i] \in Text
  BY LenProperties
<1>2. \A i \in 1..n : JStrLen(tags[i]) \in Nat
  BY <1>1, JStrRight
<1>3. PICK most : most = Each(JStrLen, tags) /\ most \in [1..n -> Nat]
  <2>1. [i \in 1..n |-> JStrLen(tags[i])] \in [1..n -> Nat]
    BY <1>2
  <2>2. Each(JStrLen, tags) = [i \in 1..n |-> JStrLen(tags[i])]
    BY <1>1, Zenon DEF Each
  <2>3. QED BY <2>1, <2>2, Zenon
<1>4. Total(most) \in Nat
  BY <1>3, TotalNat
<1>5. Commas(tags) \in Nat
  BY <1>1, CommasIs
<1>6. QED BY <1>3, <1>4, <1>5

LEMMA ServiceFits ==
    ASSUME NEW sv, Named(sv), Worded(sv)
    PROVE  /\ Service(sv) \in Text /\ Service(sv) = ServiceValue(sv)
           /\ ServiceLen(sv) \in Nat /\ Len(Service(sv)) <= ServiceLen(sv)
<1>1. PICK id, name, address, port, li, ln, la, lp :
        /\ id = JStr(sv.id) /\ name = JStr(sv.name) /\ address = JStr(sv.address) /\ port = Printed(sv.port)
        /\ li = JStrLen(sv.id) /\ ln = JStrLen(sv.name) /\ la = JStrLen(sv.address) /\ lp = IntLen(sv.port)
        /\ id \in Text /\ name \in Text /\ address \in Text /\ port \in Text
        /\ Len(id) = li /\ Len(name) = ln /\ Len(address) = la /\ Len(port) = lp
        /\ li \in Nat /\ ln \in Nat /\ la \in Nat /\ lp \in Nat
  <2>1. sv.id \in Text /\ sv.name \in Text /\ sv.address \in Text /\ sv.port \in Nat
    BY DEF Named
  <2>2. /\ JStr(sv.id) \in Text /\ Len(JStr(sv.id)) = JStrLen(sv.id) /\ JStrLen(sv.id) \in Nat
        /\ JStr(sv.name) \in Text /\ Len(JStr(sv.name)) = JStrLen(sv.name) /\ JStrLen(sv.name) \in Nat
        /\ JStr(sv.address) \in Text /\ Len(JStr(sv.address)) = JStrLen(sv.address) /\ JStrLen(sv.address) \in Nat
    BY <2>1, JStrRight
  <2>3. Printed(sv.port) \in Text /\ Len(Printed(sv.port)) = IntLen(sv.port) /\ IntLen(sv.port) \in Nat
    BY <2>1, PrintedRight
  <2>4. QED BY <2>2, <2>3, Zenon
<1>2. PICK ki, kn, ka, kp, kt :
        /\ ki = Key("id") /\ kn = Key("name") /\ ka = Key("address") /\ kp = Key("port") /\ kt = Key("tags")
        /\ ki \in Text /\ kn \in Text /\ ka \in Text /\ kp \in Text /\ kt \in Text
        /\ Len(ki) = 5 /\ Len(kn) = 7 /\ Len(ka) = 10 /\ Len(kp) = 7
  <2>1. /\ Key("id") \in Text /\ Key("name") \in Text /\ Key("address") \in Text /\ Key("port") \in Text
        /\ Key("tags") \in Text
    BY KeyTexts DEF Keys
  <2>2. Len(Key("id")) = 5 /\ Len(Key("name")) = 7 /\ Len(Key("address")) = 10 /\ Len(Key("port")) = 7
    <3>1. Len(Copy("\"id\":", 5)) = 5
      BY CopyLen
    <3>2. Len(Copy("\"name\":", 7)) = 7
      BY CopyLen
    <3>3. Len(Copy("\"address\":", 10)) = 10
      BY CopyLen
    <3>4. Len(Copy("\"port\":", 7)) = 7
      BY CopyLen
    <3>5. QED BY <3>1, <3>2, <3>3, <3>4, Literals, Zenon
  <2>3. QED BY <2>1, <2>2, Zenon
<1>3. PICK open, close, comma, ob, cb :
        /\ open = OpenBrace /\ close = CloseBrace /\ comma = Comma /\ ob = OpenBracket /\ cb = CloseBracket
        /\ open \in Text /\ close \in Text /\ comma \in Text /\ ob \in Text /\ cb \in Text
        /\ Len(open) = 1 /\ Len(close) = 1 /\ Len(comma) = 1 /\ Len(ob) = 1 /\ Len(cb) = 1
  BY Marks
<1>4. PICK inner \in Text, lt \in Nat :
        /\ inner = Listed(Each(JStr, sv.tags)) /\ TagsValue(sv.tags) = Join(Join(ob, inner), cb)
        /\ lt = Commas(sv.tags) + Total(Each(JStrLen, sv.tags)) /\ Len(inner) <= lt /\ Len(inner) \in Nat
  <2>1. sv.tags \in Seq(Text)
    BY DEF Worded
  <2>2. PICK inner \in Text :
             /\ inner = Listed(Each(JStr, sv.tags)) /\ TagsValue(sv.tags) = Join(Join(OpenBracket, inner), CloseBracket)
             /\ Len(inner) <= Commas(sv.tags) + Total(Each(JStrLen, sv.tags))
             /\ Len(inner) \in Nat /\ Commas(sv.tags) + Total(Each(JStrLen, sv.tags)) \in Nat
    BY <2>1, TagsRight
  <2>3. QED BY <1>3, <2>2, Zenon
<1>5. PICK tv : tv = TagsValue(sv.tags) /\ tv \in Text /\ Len(tv) = Len(inner) + 2
  <2>1. PICK w : w = Join(Join(ob, inner), cb) /\ w \in Text /\ Len(w) = Len(ob) + Len(inner) + Len(cb)
    <3>1. ob \in Text /\ inner \in Text /\ cb \in Text
      BY <1>3, <1>4, Zenon
    <3>2. QED BY <3>1, ChainLen
  <2>2. Len(w) = 1 + Len(inner) + 1
    BY <1>3, <2>1, Zenon
  <2>3. 1 + Len(inner) + 1 = Len(inner) + 2
    BY <1>4
  <2>4. QED BY <1>4, <2>1, <2>2, <2>3, Zenon
<1>6. PICK p1 : /\ p1 = Join(Join(open, ki), id) /\ p1 \in Text /\ Len(p1) = 6 + li
                /\ Open(<<Join(ki, id)>>) = p1
                /\ <<Join(ki, id)>> \in Seq(Text) /\ <<Join(ki, id)>> # <<>>
  <2>1. ki \in Text /\ id \in Text /\ open \in Text
    BY <1>1, <1>2, <1>3, Zenon
  <2>2. /\ Open(<<Join(ki, id)>>) = Join(Join(open, ki), id)
        /\ <<Join(ki, id)>> \in Seq(Text) /\ <<Join(ki, id)>> # <<>>
    BY <1>3, <2>1, OpenFirst, Zenon
  <2>3. Join(Join(open, ki), id) \in Text /\ Len(Join(Join(open, ki), id)) = Len(open) + Len(ki) + Len(id)
    BY <2>1, ChainLen
  <2>4. Len(Join(Join(open, ki), id)) = 1 + 5 + li
    BY <1>1, <1>2, <1>3, <2>3, Zenon
  <2>5. 1 + 5 + li = 6 + li
    BY <1>1
  <2>6. QED BY <2>2, <2>3, <2>4, <2>5, Zenon
<1>7. PICK p2 \in Text, m2 \in Seq(Text) :
        /\ m2 = Append(<<Join(ki, id)>>, Join(kn, name)) /\ m2 # <<>>
        /\ p2 = Join(Join(Join(p1, comma), kn), name) /\ Open(m2) = p2
        /\ Len(p2) = Len(p1) + 1 + Len(kn) + Len(name)
  <2>1. PICK m1 : m1 = <<Join(ki, id)>>
    OBVIOUS
  <2>2. m1 \in Seq(Text) /\ m1 # <<>> /\ p1 \in Text /\ Open(m1) = p1 /\ kn \in Text /\ name \in Text
    BY <1>1, <1>2, <1>6, <2>1, Zenon
  <2>3. MoreThan(m1, p1, kn, name)
    BY <2>2, MemberMore
  <2>4. QED BY <1>3, <2>1, <2>3, Zenon DEF MoreThan
<1>8. PICK p3 \in Text, m3 \in Seq(Text) :
        /\ m3 = Append(m2, Join(ka, address)) /\ m3 # <<>>
        /\ p3 = Join(Join(Join(p2, comma), ka), address) /\ Open(m3) = p3
        /\ Len(p3) = Len(p2) + 1 + Len(ka) + Len(address)
  <2>2. m2 \in Seq(Text) /\ m2 # <<>> /\ p2 \in Text /\ Open(m2) = p2 /\ ka \in Text /\ address \in Text
    BY <1>1, <1>2, <1>7, Zenon
  <2>3. MoreThan(m2, p2, ka, address)
    BY <2>2, MemberMore
  <2>4. QED BY <1>3, <2>3, Zenon DEF MoreThan
<1>9. PICK p4 \in Text, m4 \in Seq(Text) :
        /\ m4 = Append(m3, Join(kp, port)) /\ m4 # <<>>
        /\ p4 = Join(Join(Join(p3, comma), kp), port) /\ Open(m4) = p4
        /\ Len(p4) = Len(p3) + 1 + Len(kp) + Len(port)
  <2>2. m3 \in Seq(Text) /\ m3 # <<>> /\ p3 \in Text /\ Open(m3) = p3 /\ kp \in Text /\ port \in Text
    BY <1>1, <1>2, <1>8, Zenon
  <2>3. MoreThan(m3, p3, kp, port)
    BY <2>2, MemberMore
  <2>4. QED BY <1>3, <2>3, Zenon DEF MoreThan
<1>10. PICK p5 \in Text, m5 \in Seq(Text) :
        /\ m5 = Append(m4, Join(kt, tv)) /\ m5 # <<>>
        /\ p5 = Join(Join(Join(p4, comma), kt), tv) /\ Open(m5) = p5
  <2>2. m4 \in Seq(Text) /\ m4 # <<>> /\ p4 \in Text /\ Open(m4) = p4 /\ kt \in Text /\ tv \in Text
    BY <1>2, <1>5, <1>9, Zenon
  <2>3. MoreThan(m4, p4, kt, tv)
    BY <2>2, MemberMore
  <2>4. QED BY <1>3, <2>3, Zenon DEF MoreThan
<1>11. PICK w4 : w4 = Join(p4, comma) /\ w4 \in Text /\ Len(w4) = Len(p4) + 1
  <2>1. p4 \in Text /\ comma \in Text
    BY <1>3, <1>9, Zenon
  <2>2. Join(p4, comma) \in Text /\ Len(Join(p4, comma)) = Len(p4) + Len(comma)
    BY <2>1, JoinRight
  <2>3. QED BY <1>3, <2>2, Zenon
<1>12. PICK kb : kb = Join(kt, ob) /\ kb \in Text /\ Len(kb) = 8 /\ kb = Copy("\"tags\":[", 8)
  <2>1. Join(kt, ob) \in Text
    BY <1>2, <1>3, JoinRight
  <2>2. Len(Copy("\"tags\":[", 8)) = 8
    BY CopyLen
  <2>3. Copy("\"tags\":[", 8) = Join(kt, ob)
    BY <1>2, <1>3, Literals, Zenon
  <2>4. QED BY <2>1, <2>2, <2>3, Zenon
<1>13. p5 = Join(Join(Join(w4, kb), inner), cb) /\ Len(p5) = Len(p4) + 1 + 8 + Len(inner) + 1
  <2>1. w4 \in Text /\ kt \in Text /\ ob \in Text /\ inner \in Text /\ cb \in Text /\ kb \in Text
    BY <1>2, <1>3, <1>4, <1>11, <1>12, Zenon
  <2>2. Join(Join(Join(w4, Join(kt, ob)), inner), cb) = Join(Join(w4, kt), Join(Join(ob, inner), cb))
    BY <2>1, TagJoins
  <2>3. p5 = Join(Join(Join(w4, kb), inner), cb)
    BY <1>4, <1>5, <1>10, <1>11, <1>12, <2>2, Zenon
  <2>4. PICK x : x = Join(Join(w4, kb), inner) /\ x \in Text /\ Len(x) = Len(w4) + Len(kb) + Len(inner)
    BY <2>1, ChainLen
  <2>5. Len(Join(x, cb)) = Len(x) + Len(cb)
    BY <2>1, <2>4, JoinRight
  <2>6. Len(p5) = (Len(p4) + 1) + 8 + Len(inner) + 1
    BY <1>3, <1>11, <1>12, <2>3, <2>4, <2>5, Zenon
  <2>7. QED BY <2>3, <2>6, Zenon
<1>14. PICK km, kc : km = Key("meta") /\ kc = Key("checks") /\ km \in Text /\ kc \in Text
  BY KeyTexts DEF Keys
<1>15. PICK mv, mt, lm :
         /\ mt = Meta(sv.meta) /\ mv = MetaValue(sv.meta) /\ lm = MetaLen(sv.meta)
         /\ mt \in Text /\ mv \in Text /\ lm \in Nat /\ Len(mt) <= lm
         /\ Join(p5, mt) = IF sv.meta = <<>> THEN p5 ELSE Join(Join(Join(p5, comma), km), mv)
  <2>1. sv.meta \in Seq(Text \X Text) /\ p5 \in Text
    BY <1>10 DEF Worded
  <2>2. /\ Meta(sv.meta) \in Text /\ MetaLen(sv.meta) \in Nat /\ Len(Meta(sv.meta)) <= MetaLen(sv.meta)
        /\ MetaValue(sv.meta) \in Text
        /\ Join(p5, Meta(sv.meta)) = IF sv.meta = <<>> THEN p5
                                    ELSE Join(Join(Join(p5, Comma), Key("meta")), MetaValue(sv.meta))
    BY <2>1, MetaFits, Zenon
  <2>3. QED BY <1>3, <1>14, <2>2, Zenon
<1>16. PICK p6 : p6 = Join(p5, mt) /\ p6 \in Text /\ Len(p6) = Len(p5) + Len(mt)
  <2>1. p5 \in Text /\ mt \in Text
    BY <1>10, <1>15, Zenon
  <2>2. QED BY <2>1, JoinRight
<1>17. PICK cv, ct, lc :
         /\ ct = Checks(sv.checks) /\ cv = ChecksValue(sv.checks) /\ lc = ChecksLen(sv.checks)
         /\ ct \in Text /\ cv \in Text /\ lc \in Nat /\ Len(ct) <= lc
         /\ Join(p6, ct) = IF sv.checks = <<>> THEN p6 ELSE Join(Join(Join(p6, comma), kc), cv)
  <2>1. sv.checks \in Seq([CheckFields -> Text]) /\ p6 \in Text
    BY <1>16 DEF Worded
  <2>2. /\ Checks(sv.checks) \in Text /\ ChecksLen(sv.checks) \in Nat /\ Len(Checks(sv.checks)) <= ChecksLen(sv.checks)
        /\ ChecksValue(sv.checks) \in Text
        /\ Join(p6, Checks(sv.checks)) = IF sv.checks = <<>> THEN p6
                                    ELSE Join(Join(Join(p6, Comma), Key("checks")), ChecksValue(sv.checks))
    BY <2>1, ChecksFits, Zenon
  <2>3. QED BY <1>3, <1>14, <2>2, Zenon
<1>18. PICK p7 : p7 = Join(p6, ct) /\ p7 \in Text /\ Len(p7) = Len(p6) + Len(ct)
  <2>1. p6 \in Text /\ ct \in Text
    BY <1>16, <1>17, Zenon
  <2>2. QED BY <2>1, JoinRight
<1>19. Service(sv) = Join(p7, close) /\ Join(p7, close) \in Text /\ Len(Join(p7, close)) = Len(p7) + 1
  <2>1. Service(sv)
          = Join(Join(Join(Join(Join(Join(Join(Join(Join(Join(Join(Join(Join(Join(Join(Join(Join(Join(
              OpenBrace, Copy("\"id\":", 5)), id), Comma), Copy("\"name\":", 7)), name), Comma),
              Copy("\"address\":", 10)), address), Comma), Copy("\"port\":", 7)), port), Comma),
              Copy("\"tags\":[", 8)), inner), CloseBracket), mt), ct), CloseBrace)
    BY <1>1, <1>4, <1>15, <1>17, Zenon DEF Service, Join, Comma, OpenBrace, CloseBrace, CloseBracket
  <2>2. /\ Copy("\"id\":", 5) = ki /\ Copy("\"name\":", 7) = kn /\ Copy("\"address\":", 10) = ka
        /\ Copy("\"port\":", 7) = kp
    BY <1>2, Literals, Zenon
  <2>3. Service(sv)
          = Join(Join(Join(Join(Join(Join(Join(Join(Join(Join(Join(Join(Join(Join(Join(Join(Join(Join(
              open, ki), id), comma), kn), name), comma), ka), address), comma), kp), port), comma),
              kb), inner), cb), mt), ct), close)
    BY <1>3, <1>12, <2>1, <2>2, Zenon
  <2>4. Service(sv) = Join(p7, close)
    BY <1>6, <1>7, <1>8, <1>9, <1>11, <1>13, <1>16, <1>18, <2>3, Zenon
  <2>5. p7 \in Text /\ close \in Text
    BY <1>3, <1>18, Zenon
  <2>6. Join(p7, close) \in Text /\ Len(Join(p7, close)) = Len(p7) + Len(close)
    BY <2>5, JoinRight
  <2>7. QED BY <1>3, <2>4, <2>6, Zenon
<1>20. Len(Service(sv)) <= ServiceLen(sv) /\ ServiceLen(sv) \in Nat
  <2>1. ServiceLen(sv) = 1 + 5 + li + 1 + 7 + ln + 1 + 10 + la + 1 + 7 + lp + 1
                         + 8 + Commas(sv.tags) + Total(Each(JStrLen, sv.tags)) + 1 + lm + lc + 1
    BY <1>1, <1>15, <1>17, SizeAssumption, Zenon DEF ServiceLen
  <2>2. PICK ti, tm, tc \in Nat : ti = Len(inner) /\ tm = Len(mt) /\ tc = Len(ct) /\ ti <= lt /\ tm <= lm /\ tc <= lc
    <3>1. Len(mt) \in Nat /\ Len(ct) \in Nat
      BY <1>15, <1>17, TextJoins
    <3>2. QED BY <1>4, <1>15, <1>17, <3>1, Zenon
  <2>3. Len(Service(sv)) = ((((((6 + li) + 1 + 7 + ln) + 1 + 10 + la) + 1 + 7 + lp) + 1 + 8 + ti + 1) + tm) + tc + 1
    BY <1>1, <1>2, <1>6, <1>7, <1>8, <1>9, <1>13, <1>16, <1>18, <1>19, <2>2, Zenon
  <2>4. PICK c, t \in Int : c = Commas(sv.tags) /\ t = Total(Each(JStrLen, sv.tags)) /\ c + t = lt
    <3>1. Commas(sv.tags) \in Nat /\ Total(Each(JStrLen, sv.tags)) \in Nat
      BY TagCounts DEF Worded
    <3>2. QED BY <1>4, <3>1
  <2>5. /\ ((((((6 + li) + 1 + 7 + ln) + 1 + 10 + la) + 1 + 7 + lp) + 1 + 8 + ti + 1) + tm) + tc + 1
             <= 1 + 5 + li + 1 + 7 + ln + 1 + 10 + la + 1 + 7 + lp + 1 + 8 + c + t + 1 + lm + lc + 1
        /\ 1 + 5 + li + 1 + 7 + ln + 1 + 10 + la + 1 + 7 + lp + 1 + 8 + c + t + 1 + lm + lc + 1 \in Nat
    <3>1. /\ li \in Nat /\ ln \in Nat /\ la \in Nat /\ lp \in Nat /\ lm \in Nat /\ lc \in Nat
          /\ ti \in Nat /\ tm \in Nat /\ tc \in Nat /\ c \in Int /\ t \in Int
          /\ ti <= c + t /\ tm <= lm /\ tc <= lc
      BY <1>1, <1>15, <1>17, <2>2, <2>4, Zenon
    <3>2. QED BY <3>1
  <2>6. QED BY <2>1, <2>3, <2>4, <2>5, Zenon
<1>21. Service(sv) = ServiceValue(sv)
  <2> DEFINE six == Longer(m5, sv.meta, km, mv)
             seven == Longer(six, sv.checks, kc, cv)
  <2>1. m5 = <<Member(Chars("id"), TextOf(sv.id)), Member(Chars("name"), TextOf(sv.name)),
              Member(Chars("address"), TextOf(sv.address)), Member(Chars("port"), Number(sv.port)),
              Member(Chars("tags"), Array(Each(TextOf, sv.tags)))>>
    <3>1. /\ Member(Chars("id"), TextOf(sv.id)) = Join(ki, id)
          /\ Member(Chars("name"), TextOf(sv.name)) = Join(kn, name)
          /\ Member(Chars("address"), TextOf(sv.address)) = Join(ka, address)
          /\ Member(Chars("port"), Number(sv.port)) = Join(kp, port)
          /\ Member(Chars("tags"), Array(Each(TextOf, sv.tags))) = Join(kt, tv)
      BY <1>1, <1>2, <1>5, MemberIs, Zenon DEF TextOf, Number, TagsValue
    <3>2. /\ Join(ki, id) \in Text /\ Join(kn, name) \in Text /\ Join(ka, address) \in Text
          /\ Join(kp, port) \in Text /\ Join(kt, tv) \in Text
      <4>1. /\ ki \in Text /\ id \in Text /\ kn \in Text /\ name \in Text /\ ka \in Text /\ address \in Text
            /\ kp \in Text /\ port \in Text /\ kt \in Text /\ tv \in Text
        BY <1>1, <1>2, <1>5, Zenon
      <4>2. QED BY <4>1, JoinRight
    <3>3. Append(Append(Append(Append(<<Join(ki, id)>>, Join(kn, name)), Join(ka, address)), Join(kp, port)), Join(kt, tv))
            = <<Join(ki, id), Join(kn, name), Join(ka, address), Join(kp, port), Join(kt, tv)>>
      <4>1. PICK a, b, c, d, e : /\ a = Join(ki, id) /\ b = Join(kn, name) /\ c = Join(ka, address)
                                 /\ d = Join(kp, port) /\ e = Join(kt, tv)
        OBVIOUS
      <4>2. a \in Text /\ b \in Text /\ c \in Text /\ d \in Text /\ e \in Text
        BY <3>2, <4>1, Zenon
      <4>3. Append(Append(Append(Append(<<a>>, b), c), d), e) = <<a, b, c, d, e>>
        BY <4>2, FiveOf
      <4>4. QED BY <4>1, <4>3, Zenon
    <3>4. QED BY <1>7, <1>8, <1>9, <1>10, <3>1, <3>3, Zenon
  <2>2. /\ six \in Seq(Text) /\ six # <<>>
        /\ Open(six) = IF sv.meta # <<>> THEN Join(Join(Join(Open(m5), Comma), km), mv) ELSE Open(m5)
    <3>1. m5 \in Seq(Text) /\ m5 # <<>> /\ km \in Text /\ mv \in Text
      BY <1>10, <1>14, <1>15, Zenon
    <3>2. QED BY <3>1, WhenRight
  <2>3. Open(six) = p6
    BY <1>3, <1>10, <1>15, <1>16, <2>2, Zenon
  <2>4. six = m5 \o When(sv.meta # <<>>,
                   <<Member(Chars("meta"), Object(Each(LAMBDA kv : Member(kv[1], TextOf(kv[2])), sv.meta)))>>)
    BY <1>14, <1>15, MemberIs, Zenon DEF Longer, MetaValue
  <2>. HIDE DEF six
  <2>5. Open(seven) = IF sv.checks # <<>> THEN Join(Join(Join(Open(six), Comma), kc), cv) ELSE Open(six)
    <3>1. six \in Seq(Text) /\ six # <<>> /\ kc \in Text /\ cv \in Text
      BY <1>14, <1>17, <2>2, Zenon
    <3>2. QED BY <3>1, WhenRight
  <2>6. Open(seven) = p7
    BY <1>3, <1>17, <1>18, <2>3, <2>5, Zenon
  <2>7. seven = six \o When(sv.checks # <<>>, <<Member(Chars("checks"), Array(Each(CheckValue, sv.checks)))>>)
    BY <1>14, <1>17, MemberIs, Zenon DEF Longer, ChecksValue
  <2>. HIDE DEF seven
  <2>8. ServiceValue(sv) = Join(Open(seven), CloseBrace)
    BY <2>1, <2>4, <2>7, Zenon DEF ServiceValue, Object, Open, Join, OpenBrace, CloseBrace
  <2>9. QED BY <1>3, <1>19, <2>6, <2>8, Zenon
<1>22. QED BY <1>19, <1>20, <1>21, Zenon

LEMMA Ends ==
    /\ Copy("]}", 2) = Join(CloseBracket, CloseBrace)
    /\ Empty = Join(Join(OpenBrace, Key("services")), Join(Join(OpenBracket, CloseBracket), CloseBrace))
<1>1. ASSUME NEW S, NEW a \in S, NEW b \in S PROVE <<a>> \o <<b>> = <<a, b>>
  <2>1. <<a>> \in Seq(S)
    OBVIOUS
  <2>2. Append(<<a>>, b) = <<a>> \o <<b>>
    BY <2>1, AppendIsConcat, Zenon
  <2>3. QED BY <2>2, TwoOf, Zenon
<1>2. ASSUME NEW S, NEW a \in S, NEW b \in S, NEW c \in S PROVE (<<a>> \o <<b>>) \o <<c>> = <<a, b, c>>
  <2>1. PICK s : s = <<a, b>> /\ s \in Seq(S) /\ Len(s) = 2 /\ s[1] = a /\ s[2] = b
    <3>1. <<a, b>> \in Seq(S) /\ Len(<<a, b>>) = 2 /\ <<a, b>>[1] = a /\ <<a, b>>[2] = b
      OBVIOUS
    <3>2. QED BY <3>1, Zenon
  <2>2. PICK t : t = Append(s, c) /\ t \in Seq(S) /\ Len(t) = 3 /\ t[1] = a /\ t[2] = b /\ t[3] = c
    <3>1. PICK t : t = Append(s, c)
      OBVIOUS
    <3>2. t \in Seq(S) /\ Len(t) = 2 + 1 /\ t[2 + 1] = c /\ \A i \in 1..2 : t[i] = s[i]
      BY <2>1, <3>1, MoreOf, 2 \in Nat
    <3>3. 1 \in 1..2 /\ 2 \in 1..2 /\ 2 + 1 = 3
      OBVIOUS
    <3>4. QED BY <2>1, <3>1, <3>2, <3>3, Zenon
  <2>3. PICK w : w = <<a, b, c>> /\ w \in Seq(S) /\ Len(w) = 3 /\ w[1] = a /\ w[2] = b /\ w[3] = c
    <3>1. /\ <<a, b, c>> \in Seq(S) /\ Len(<<a, b, c>>) = 3
          /\ <<a, b, c>>[1] = a /\ <<a, b, c>>[2] = b /\ <<a, b, c>>[3] = c
      OBVIOUS
    <3>2. QED BY <3>1, Zenon
  <2>4. \A i \in 1..3 : i = 1 \/ i = 2 \/ i = 3
    OBVIOUS
  <2>5. \A i \in 1..Len(t) : t[i] = w[i]
    BY <2>2, <2>3, <2>4, Zenon
  <2>6. t = w
    BY <2>2, <2>3, <2>5, SeqEqual, Zenon
  <2>7. s \o <<c>> = Append(s, c)
    BY <2>1, AppendIsConcat, Zenon
  <2>8. QED BY <1>1, <2>1, <2>2, <2>3, <2>6, <2>7, Zenon
<1>3. "[" \in STRING /\ "]" \in STRING /\ "}" \in STRING
  BY CharacterAssumption, Zenon
<1>4. PICK a, b, c : /\ a = "[" /\ b = "]" /\ c = "}" /\ a \in STRING /\ b \in STRING /\ c \in STRING
  BY <1>3, Zenon
<1>5. <<b>> \o <<c>> = <<b, c>> /\ (<<a>> \o <<b>>) \o <<c>> = <<a, b, c>>
  BY <1>1, <1>2, <1>4, Zenon
<1>6. <<"]", "}">> = Join(CloseBracket, CloseBrace)
  BY <1>4, <1>5, Zenon DEF Join, CloseBracket, CloseBrace
<1>7. <<"[", "]", "}">> = Join(Join(OpenBracket, CloseBracket), CloseBrace)
  BY <1>4, <1>5, Zenon DEF Join, CloseBracket, CloseBrace, OpenBracket
<1>8. Copy("]}", 2) = <<"]", "}">>
  BY KeyAssumption, Zenon
<1>9. Empty = Join(Join(OpenBrace, Key("services")), <<"[", "]", "}">>)
  BY KeyAssumption, Zenon DEF Join, OpenBrace
<1>10. QED BY <1>6, <1>7, <1>8, <1>9, Zenon

\* How an array and the object around it end at once.
LEMMA EndJoins ==
    ASSUME NEW w \in Text, NEW o \in Text, NEW inner \in Text, NEW cb \in Text, NEW close \in Text
    PROVE  Join(Join(Join(w, o), inner), Join(cb, close)) = Join(Join(w, Join(Join(o, inner), cb)), close)
<1>1. Join(Join(w, o), inner) = Join(w, Join(o, inner)) /\ Join(o, inner) \in Text
  BY JoinAssociates, JoinRight
<1>2. PICK i : i = Join(o, inner) /\ i \in Text
  BY <1>1
<1>3. PICK v : v = Join(w, i) /\ v \in Text
  BY <1>2, JoinRight
<1>4. Join(v, Join(cb, close)) = Join(Join(v, cb), close)
  BY <1>3, JoinAssociates
<1>5. Join(v, cb) = Join(w, Join(i, cb))
  BY <1>2, <1>3, JoinAssociates
<1>6. QED BY <1>1, <1>2, <1>3, <1>4, <1>5, Zenon

\* The whole answer: what is written, what is counted, and what the catalogue is as JSON.
LEMMA JsonFits ==
    ASSUME NEW list, NEW n \in Nat, Len(list) = n, \A i \in 1..n : Named(list[i]) /\ Worded(list[i]),
           list = [i \in 1..n |-> list[i]]
    PROVE  /\ JsonFill(list) \in Text /\ JsonFill(list) = CatalogueValue(list)
           /\ JsonLen(list) \in Nat /\ Len(JsonFill(list)) <= JsonLen(list)
<1> DEFINE es == [i \in 1..Len(list) |-> Service(list[i])]
           most == [i \in 1..Len(list) |-> ServiceLen(list[i])]
           inner == Listed(es)
<1>1. ASSUME NEW i \in 1..n
      PROVE  /\ Service(list[i]) \in Text /\ ServiceLen(list[i]) \in Nat
             /\ Len(Service(list[i])) <= ServiceLen(list[i]) /\ Service(list[i]) = ServiceValue(list[i])
  BY ServiceFits, Zenon
<1>2. es \in [1..n -> Text] /\ most \in [1..n -> Nat] /\ \A i \in 1..n : Len(es[i]) <= most[i]
  BY <1>1
<1>3. /\ Each(Service, list) = es /\ Each(ServiceLen, list) = most
      /\ Each(ServiceValue, list) = es
  BY <1>1 DEF Each
<1>. HIDE DEF es, most
<1>4. /\ inner \in Text /\ Total(most) \in Nat
      /\ Len(inner) <= (IF n = 0 THEN 0 ELSE n - 1) + Total(most)
  BY <1>2, ListedFits
<1>. HIDE DEF inner
<1>5. Commas(list) = IF n = 0 THEN 0 ELSE n - 1
  <2>1. PICK S : S = {list[i] : i \in 1..n}
    OBVIOUS
  <2>2. list \in Seq(S)
    <3>1. \A i \in 1..n : list[i] \in S
      BY <2>1
    <3>2. [i \in 1..n |-> list[i]] \in Seq(S)
      BY <3>1
    <3>3. QED BY <3>2, Zenon
  <2>3. QED BY <2>2, CommasIs, Zenon
<1>6. PICK ks, open, close, ob, cb :
        /\ ks = Key("services") /\ open = OpenBrace /\ close = CloseBrace /\ ob = OpenBracket /\ cb = CloseBracket
        /\ ks \in Text /\ open \in Text /\ close \in Text /\ ob \in Text /\ cb \in Text
        /\ Len(close) = 1 /\ Len(cb) = 1
  BY KeyTexts, Marks DEF Keys
<1>7. PICK w : w = Join(open, ks) /\ w \in Text
  BY <1>6, JoinRight
<1>8. PICK lead : lead = Join(w, ob) /\ lead \in Text /\ Len(lead) = 13 /\ lead = Copy("{\"services\":[", 13)
  <2>1. Join(w, ob) \in Text
    BY <1>6, <1>7, JoinRight
  <2>2. Copy("{\"services\":[", 13) = Join(w, ob)
    BY <1>6, <1>7, Literals, Zenon
  <2>3. Len(Copy("{\"services\":[", 13)) = 13
    BY CopyLen
  <2>4. QED BY <2>1, <2>2, <2>3, Zenon
<1>9. PICK end : end = Join(cb, close) /\ end \in Text /\ Len(end) = 2 /\ end = Copy("]}", 2)
  <2>1. Join(cb, close) \in Text
    BY <1>6, JoinRight
  <2>2. Copy("]}", 2) = Join(cb, close)
    BY <1>6, Ends, Zenon
  <2>3. Len(Copy("]}", 2)) = 2
    BY CopyLen
  <2>4. QED BY <2>1, <2>2, <2>3, Zenon
<1>10. JsonFill(list) = Join(Join(lead, inner), end)
  BY <1>3, <1>8, <1>9, Zenon DEF JsonFill, Join, inner
<1>11. Join(Join(lead, inner), end) \in Text /\ Len(Join(Join(lead, inner), end)) = Len(lead) + Len(inner) + Len(end)
  BY <1>4, <1>8, <1>9, ChainLen
<1>12. JsonLen(list) = 15 + Commas(list) + Total(most)
  BY <1>3, SizeAssumption, Zenon DEF JsonLen
<1>13. Len(JsonFill(list)) <= JsonLen(list) /\ JsonLen(list) \in Nat
  <2>1. PICK li, c, t \in Nat : li = Len(inner) /\ c = Commas(list) /\ t = Total(most) /\ li <= c + t
    <3>1. Commas(list) \in Nat
      BY <1>5
    <3>2. Len(inner) <= Commas(list) + Total(most)
      BY <1>4, <1>5, Zenon
    <3>3. Len(inner) \in Nat
      BY <1>4, TextJoins
    <3>4. QED BY <1>4, <3>1, <3>2, <3>3, Zenon
  <2>2. 13 + li + 2 <= 15 + c + t /\ 15 + c + t \in Nat
    BY <2>1
  <2>3. Len(JsonFill(list)) = 13 + li + 2 /\ JsonLen(list) = 15 + c + t
    BY <1>8, <1>9, <1>10, <1>11, <1>12, <2>1, Zenon
  <2>4. QED BY <2>2, <2>3, Zenon
<1>14. JsonFill(list) = CatalogueValue(list)
  <2>1. PICK v : v = Join(Join(ob, inner), cb) /\ v \in Text
    BY <1>4, <1>6, ChainLen
  <2>2. Array(Each(ServiceValue, list)) = v
    BY <1>3, <1>6, <2>1, Zenon DEF Array, Join, OpenBracket, CloseBracket, inner
  <2>3. Open(<<Join(ks, v)>>) = Join(Join(open, ks), v)
    BY <1>6, <2>1, OpenFirst, Zenon
  <2>4. CatalogueValue(list) = Join(Join(w, v), close)
    <3>1. CatalogueValue(list) = Join(Open(<<Member(Chars("services"), v)>>), close)
      BY <1>6, <2>2, Zenon DEF CatalogueValue, Object, Open, Join, OpenBrace, CloseBrace
    <3>2. QED BY <1>6, <1>7, <2>3, <3>1, MemberIs, Zenon
  <2>5. Join(Join(Join(w, ob), inner), Join(cb, close)) = Join(Join(w, Join(Join(ob, inner), cb)), close)
    BY <1>4, <1>6, <1>7, EndJoins
  <2>6. QED BY <1>8, <1>9, <1>10, <2>1, <2>4, <2>5, Zenon
<1>15. QED BY <1>10, <1>11, <1>13, <1>14, Zenon

LEMMA EmptyFits == Empty = CatalogueValue(<<>>) /\ Empty \in Text
<1>1. PICK ks, open, close, ob, cb, none :
        /\ ks = Key("services") /\ open = OpenBrace /\ close = CloseBrace /\ ob = OpenBracket /\ cb = CloseBracket
        /\ ks \in Text /\ open \in Text /\ close \in Text /\ ob \in Text /\ cb \in Text
        /\ none = <<>> /\ none \in Text
  BY KeyTexts, Marks, TextEmpty DEF Keys
<1>2. PICK w : w = Join(open, ks) /\ w \in Text
  BY <1>1, JoinRight
<1>3. Join(ob, none) = ob
  BY <1>1, TextEmpty DEF Join
<1>4. PICK v : v = Join(Join(ob, none), cb) /\ v \in Text /\ v = Join(ob, cb)
  <2>1. Join(ob, cb) \in Text
    BY <1>1, JoinRight
  <2>2. QED BY <1>3, <2>1, Zenon
<1>5. Array(Each(ServiceValue, <<>>)) = v
  <2>1. Each(ServiceValue, <<>>) = <<>>
    BY DEF Each
  <2>2. QED BY <1>1, <1>4, <2>1, ListedNone, Zenon DEF Array, Join, OpenBracket, CloseBracket
<1>6. Open(<<Join(ks, v)>>) = Join(Join(open, ks), v)
  BY <1>1, <1>4, OpenFirst, Zenon
<1>7. CatalogueValue(<<>>) = Join(Join(w, v), close)
  <2>1. CatalogueValue(<<>>) = Join(Open(<<Member(Chars("services"), v)>>), close)
    BY <1>1, <1>5, Zenon DEF CatalogueValue, Object, Open, Join, OpenBrace, CloseBrace
  <2>2. QED BY <1>1, <1>2, <1>6, <2>1, MemberIs, Zenon
<1>8. Empty = Join(w, Join(v, close))
  BY <1>1, <1>2, <1>4, Ends, Zenon
<1>9. Join(w, Join(v, close)) = Join(Join(w, v), close) /\ Join(Join(w, v), close) \in Text
  <2>1. Join(w, Join(v, close)) = Join(Join(w, v), close)
    BY <1>1, <1>2, <1>4, JoinAssociates
  <2>2. Join(Join(w, v), close) \in Text
    BY <1>1, <1>2, <1>4, ChainLen
  <2>3. QED BY <2>1, <2>2, Zenon
<1>10. QED BY <1>7, <1>8, <1>9, Zenon

-----------------------------------------------------------------------------
(* The answers                                                             *)

\* The catalogue of a configuration that is right can be written.
LEMMA CycleFits ==
    ASSUME NEW cycle, CycleRight(cycle)
    PROVE  /\ Body(cycle) = CatalogueValue(cycle.services)
           /\ cycle.services # <<>> => Len(Body(cycle)) <= JsonLen(cycle.services)
<1>1. PICK list : list = cycle.services
  OBVIOUS
<1>2. IsSequence(list) /\ \A i \in DOMAIN list : IsService(list[i]) /\ Worded(list[i])
  BY <1>1 DEF CycleRight, CatalogueTo
<1>3. PICK n \in Nat : n = Len(list) /\ DOMAIN list = 1..n /\ list = [i \in 1..n |-> list[i]]
  BY <1>2, SequenceFacts DEF IsSequence
<1>4. \A i \in 1..n : Named(list[i]) /\ Worded(list[i])
  BY <1>2, <1>3 DEF IsService, Named
<1>5. JsonFill(list) = CatalogueValue(list) /\ Len(JsonFill(list)) <= JsonLen(list)
  BY <1>3, <1>4, JsonFits
<1>6. CASE list = <<>>
  <2>1. Body(cycle) = Empty
    BY <1>1, <1>6, Zenon DEF Body
  <2>2. QED BY <1>1, <1>6, <2>1, EmptyFits, Zenon
<1>7. CASE list # <<>>
  <2>1. Body(cycle) = JsonFill(list)
    BY <1>1, <1>7, Zenon DEF Body
  <2>2. QED BY <1>1, <1>5, <2>1, Zenon
<1>8. QED BY <1>6, <1>7

\* Nothing is written behind what is reserved: the length pass covers the writing pass on
\* every catalogue that a file can make, whatever its texts are
\* (ngx_http_consul_service_discovery_module.c:538-782, :825).
THEOREM NoAnswerOverruns == Spec => []NoOverrun
<1>1. CInv => NoOverrun
  <2> SUFFICES ASSUME CInv PROVE NoOverrun
    OBVIOUS
  <2>1. \A i \in DOMAIN live : CycleRight(live[i])
    BY DEF CInv, LiveRight
  <2>2. QED BY <2>1, CycleFits DEF NoOverrun
<1>2. QED BY <1>1, CInvInvariant, PTL

\* The last answer came from a configuration that had workers, which may be gone.
ReplyRight ==
    reply = Unset \/ ( /\ CycleRight(reply.from)
                      /\ \/ reply.answer.status = 500
                         \/ \E m : reply.answer = Answer(reply.from, m))

LEMMA InitReply == Init => ReplyRight
BY DEF Init, CatalogInit, ReplyRight

LEMMA NextReply == ReplyRight /\ CInv /\ [Next]_vars => ReplyRight'
<1> SUFFICES ASSUME ReplyRight, CInv, [Next]_vars PROVE ReplyRight'
  OBVIOUS
<1>1. DOMAIN live = 1..Len(live) /\ \A i \in DOMAIN live : CycleRight(live[i])
  BY SequenceFacts DEF CInv, LiveRight
<1>2. ASSUME UNCHANGED reply PROVE ReplyRight'
  BY <1>2 DEF ReplyRight
<1>3. CASE Request
  <2>1. PICK i \in 1..Len(live), m \in Method : reply' = [from |-> live[i], answer |-> Answer(live[i], m)]
    BY <1>3 DEF Request
  <2>2. PICK r, c, a : r = reply' /\ c = live[i] /\ a = Answer(c, m) /\ CycleRight(c)
    BY <1>1
  <2>3. r = [from |-> c, answer |-> a]
    BY <2>1, <2>2, Zenon
  <2>4. r.from = c /\ r.answer = a
    BY <2>3
  <2>5. QED BY <2>2, <2>4, Zenon DEF ReplyRight
<1>4. CASE RequestFails
  <2>1. PICK i \in 1..Len(live) :
          reply' = [from |-> live[i], answer |-> [status |-> 500, length |-> 0, body |-> <<>>]]
    BY <1>4 DEF RequestFails
  <2>2. CycleRight(live[i])
    BY <1>1
  <2>3. reply'.from = live[i] /\ reply'.answer.status = 500
    BY <2>1
  <2>4. QED BY <2>2, <2>3, Zenon DEF ReplyRight
<1>5. CASE CatalogNext
  <2>1. ASSUME LoadStep \/ NoMemory \/ OldWorkersExit PROVE UNCHANGED reply
    BY <2>1 DEF LoadStep, Load, ServerBegins, Discoverable, TextDirective, PortOverride, MetaDirective,
                CheckDirective, Discovery, ServerName, Listen, ServerEnds, Refuse, Merge, Publish, Start,
                NoMemory, OldWorkersExit, Set, Same, GiveUp
  <2>2. QED BY <1>2, <1>3, <1>4, <1>5, <2>1 DEF CatalogNext
<1>6. ASSUME NEW s \in Sidecar, RunStep(s) \/ FetchFails(s) \/ ListFails(s) \/ CallFails(s) \/ Killed(s)
      PROVE  UNCHANGED reply
  BY <1>6 DEF RunStep, Fetch, ListRegistered, Deregister, Swept, Register, RunEnds,
              FetchFails, ListFails, CallFails, Killed, vars, catalogVars, draftVars
<1>7. ASSUME AllQuiet \/ UNCHANGED vars PROVE UNCHANGED reply
  BY <1>7 DEF AllQuiet, vars, catalogVars
<1>8. QED BY <1>2, <1>5, <1>6, <1>7 DEF Next

\* Every answer with 200, to GET and to HEAD, is the catalogue of the configuration it came
\* from as RFC 8259 has it written, and says that length (AnswerRight): the writing pass of
\* ngx_http_consul_service_discovery_module.c:557-782 and the handler of :786-853, for every
\* text that a file can hold.
THEOREM AnswersAreRight == Spec => []AnswerRight
<1>1. Init => ReplyRight
  BY InitReply
<1>2. ReplyRight /\ CInv /\ [Next]_vars => ReplyRight'
  BY NextReply
<1>3. ReplyRight => AnswerRight
  <2> SUFFICES ASSUME ReplyRight, reply # Unset, reply.answer.status = 200
               PROVE  LET text == CatalogueValue(reply.from.services)
                      IN  reply.answer.length = Len(text) /\ reply.answer.body \in {text, <<>>}
    BY DEF AnswerRight
  <2>1. CycleRight(reply.from) /\ \E m : reply.answer = Answer(reply.from, m)
    BY DEF ReplyRight
  <2>2. PICK m : reply.answer = Answer(reply.from, m)
    BY <2>1
  <2>3. PICK body, answer : /\ body = Body(reply.from) /\ answer = reply.answer
                            /\ body = CatalogueValue(reply.from.services)
    BY <2>1, CycleFits, Zenon
  <2>4. answer = IF m \notin {"GET", "HEAD"} THEN [status |-> 405, length |-> 0, body |-> <<>>]
                 ELSE [status |-> 200, length |-> Len(body), body |-> IF m = "HEAD" THEN <<>> ELSE body]
    BY <2>2, <2>3, Zenon DEF Answer
  <2>5. answer.status = 200
    BY <2>3, Zenon
  <2>6. answer.length = Len(body) /\ answer.body \in {body, <<>>}
    BY <2>4, <2>5
  <2>7. QED BY <2>3, <2>6, Zenon
<1>4. QED BY <1>1, <1>2, <1>3, CInvInvariant, PTL DEF Spec

=============================================================================
