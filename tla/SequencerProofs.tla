-------------------------- MODULE SequencerProofs --------------------------
(***************************************************************************)
(* Sequencer's comparison is a strict weak order on all texts, and so the  *)
(* saved sequencer is the newest one, whatever texts arrive; and it is the *)
(* order of the numbers that the texts stand for.                          *)
(***************************************************************************)
EXTENDS Sequencer, FiniteSetTheorems, SequenceTheorems, WellFoundedInduction, TLAPS

(* A set of positions has a first one. *)
LEMMA FirstPosition ==
  ASSUME NEW T \in SUBSET Nat, T # {}
  PROVE  \E x \in T : \A y \in T : x <= y
<1>1. \E x \in T : \A y \in T : <<y, x>> \notin OpToRel(<, Nat)
  <2> HIDE DEF OpToRel
  <2> QED BY NatLessThanWellFounded, WFMin
<1>2. PICK x \in T : \A y \in T : <<y, x>> \notin OpToRel(<, Nat)
  BY <1>1
<1>3. ASSUME NEW y \in T PROVE x <= y
  <2>1. <<y, x>> \notin OpToRel(<, Nat)  BY <1>2
  <2>2. ~ y < x  BY <2>1 DEF OpToRel
  <2> QED BY <2>2
<1> QED BY <1>3

LEMMA UpperIsCode ==
  ASSUME NEW code \in Nat
  PROVE  ToUpper(code) \in Nat
BY DEF ToUpper

LEMMA UpperIsFunction ==
  ASSUME NEW text \in Seq(Nat)
  PROVE  Upper(text) \in [1 .. Len(text) -> Nat]
<1>1. text \in [1 .. Len(text) -> Nat]  BY LenProperties
<1>2. \A i \in 1 .. Len(text) : ToUpper(text[i]) \in Nat
  BY <1>1, UpperIsCode
<1> QED BY <1>2 DEF Upper

(* Trimming leaves a text. *)
LEMMA NormalizedIsText ==
  ASSUME NEW text \in Seq(Nat)
  PROVE  Normalized(text) \in Seq(Nat)
<1> DEFINE zeros == {n \in DOMAIN text : \A i \in 1 .. n : text[i] = Code0}
<1>1. LeadingZeros(text) \in Nat
  <2>1. IsFiniteSet(1 .. Len(text))  BY FS_Interval
  <2>2. zeros \in SUBSET (1 .. Len(text))  OBVIOUS
  <2>3. IsFiniteSet(zeros)  BY <2>1, <2>2, FS_Subset
  <2> HIDE DEF zeros
  <2>4. Cardinality(zeros) \in Nat  BY <2>3, FS_CardinalityType
  <2> QED BY <2>4 DEF LeadingZeros, zeros
<1>2. TrimStart(text) \in Seq(Nat)
  <2>1. \A i \in LeadingZeros(text) + 1 .. Len(text) : text[i] \in Nat  BY <1>1
  <2>2. LeadingZeros(text) + 1 \in Int /\ Len(text) \in Int  BY <1>1
  <2> QED BY <2>1, <2>2, SubSeqProperties DEF TrimStart
<1>3. <<Code0>> \in Seq(Nat)  BY DEF Code0
<1> QED BY <1>2, <1>3 DEF Normalized

(* Ordinal order, for words of one length n. *)
LEMMA OrdinalIsAsymmetric ==
  ASSUME NEW n \in Nat, NEW left \in [1 .. n -> Nat], NEW right \in [1 .. n -> Nat],
         OrdinalBefore(left, right), OrdinalBefore(right, left)
  PROVE  FALSE
<1>1. PICK i \in 1 .. n :
        /\ left[i] < right[i]
        /\ \A j \in 1 .. i - 1 : left[j] = right[j]
  BY DEF OrdinalBefore
<1>2. PICK k \in 1 .. n :
        /\ right[k] < left[k]
        /\ \A j \in 1 .. k - 1 : right[j] = left[j]
  BY DEF OrdinalBefore
<1>3. CASE i < k
  <2>1. i \in 1 .. k - 1  BY <1>3
  <2> QED BY <2>1, <1>1, <1>2
<1>4. CASE k < i
  <2>1. k \in 1 .. i - 1  BY <1>4
  <2> QED BY <2>1, <1>1, <1>2
<1>5. CASE i = k  BY <1>1, <1>2, <1>5
<1> QED BY <1>3, <1>4, <1>5

(* Negative transitivity in ordinal order: what is not above base is below *)
(* all that is above base.  At the first position where old differs from   *)
(* base or base from new, old or base is the smaller one.                  *)
LEMMA OrdinalBelowBase ==
  ASSUME NEW n \in Nat, NEW base \in [1 .. n -> Nat],
         NEW old \in [1 .. n -> Nat], NEW new \in [1 .. n -> Nat],
         ~ OrdinalBefore(base, old), OrdinalBefore(base, new)
  PROVE  OrdinalBefore(old, new)
<1>1. PICK i \in 1 .. n :
        /\ base[i] < new[i]
        /\ \A j \in 1 .. i - 1 : base[j] = new[j]
  BY DEF OrdinalBefore
<1> DEFINE differ == {k \in 1 .. n : base[k] # old[k]}
<1>2. CASE \A k \in 1 .. i : base[k] = old[k]
  <2>1. old[i] < new[i]  BY <1>1, <1>2
  <2>2. \A j \in 1 .. i - 1 : old[j] = new[j]  BY <1>1, <1>2
  <2> QED BY <2>1, <2>2 DEF OrdinalBefore
<1>3. CASE ~ \A k \in 1 .. i : base[k] = old[k]
  <2>1. PICK d \in 1 .. i : base[d] # old[d]  BY <1>3
  <2>2. d \in differ /\ differ \in SUBSET Nat  BY <2>1
  <2>3. PICK k \in differ : \A y \in differ : k <= y
    BY <2>2, FirstPosition
  <2>4. k \in 1 .. n /\ k <= i /\ base[k] # old[k]
    BY <2>1, <2>2, <2>3
  <2>5. \A j \in 1 .. k - 1 : base[j] = old[j]
    <3> TAKE j \in 1 .. k - 1
    <3>1. j \in 1 .. n /\ ~ k <= j  BY <2>4
    <3> QED BY <3>1, <2>3
  <2>6. old[k] < base[k]
    <3>1. k \in DOMAIN base  BY <2>4
    <3>2. ~ base[k] < old[k]  BY <3>1, <2>5 DEF OrdinalBefore
    <3>3. base[k] \in Nat /\ old[k] \in Nat  BY <2>4
    <3> QED BY <3>2, <3>3, <2>4
  <2>7. base[k] <= new[k]
    <3>1. CASE k = i  BY <3>1, <1>1
    <3>2. CASE k # i
      <4>1. k \in 1 .. i - 1  BY <3>2, <2>4
      <4> QED BY <4>1, <1>1
    <3> QED BY <3>1, <3>2
  <2>8. old[k] < new[k]  BY <2>4, <2>6, <2>7
  <2>9. \A j \in 1 .. k - 1 : old[j] = new[j]
    <3> TAKE j \in 1 .. k - 1
    <3>1. j \in 1 .. i - 1  BY <2>4
    <3> QED BY <3>1, <2>5, <1>1
  <2> QED BY <2>4, <2>8, <2>9 DEF OrdinalBefore
<1> QED BY <1>2, <1>3

LEMMA BeforeIsAsymmetric ==
  ASSUME NEW left \in Seq(Nat), NEW right \in Seq(Nat), Before(left, right)
  PROVE  ~ Before(right, left)
<1>1. Len(left) \in Nat /\ Len(right) \in Nat  BY LenProperties
<1>2. /\ Upper(left) \in [1 .. Len(left) -> Nat]
      /\ Upper(right) \in [1 .. Len(right) -> Nat]
  BY UpperIsFunction
<1> SUFFICES ASSUME Before(right, left) PROVE FALSE  OBVIOUS
<1>3. /\ Len(left) = Len(right)
      /\ OrdinalBefore(Upper(left), Upper(right))
      /\ OrdinalBefore(Upper(right), Upper(left))
  BY <1>1 DEF Before
<1>4. Upper(right) \in [1 .. Len(left) -> Nat]  BY <1>2, <1>3
<1> QED BY <1>1, <1>2, <1>3, <1>4, OrdinalIsAsymmetric

LEMMA BelowBase ==
  ASSUME NEW base \in Seq(Nat), NEW old \in Seq(Nat), NEW new \in Seq(Nat),
         ~ Before(base, old), Before(base, new)
  PROVE  Before(old, new)
<1>1. Len(base) \in Nat /\ Len(old) \in Nat /\ Len(new) \in Nat
  BY LenProperties
<1>2. Len(old) <= Len(base) /\ Len(base) <= Len(new)  BY <1>1 DEF Before
<1>3. CASE Len(old) < Len(new)  BY <1>3 DEF Before
<1>4. CASE Len(old) = Len(new)
  <2>1. Len(base) = Len(old) /\ Len(base) = Len(new)  BY <1>1, <1>2, <1>4
  <2>2. /\ ~ OrdinalBefore(Upper(base), Upper(old))
        /\ OrdinalBefore(Upper(base), Upper(new))
    BY <2>1, <1>1 DEF Before
  <2>3. /\ Upper(base) \in [1 .. Len(base) -> Nat]
        /\ Upper(old) \in [1 .. Len(base) -> Nat]
        /\ Upper(new) \in [1 .. Len(base) -> Nat]
    BY <2>1, UpperIsFunction
  <2>4. OrdinalBefore(Upper(old), Upper(new))
    BY <2>2, <2>3, <1>1, OrdinalBelowBase
  <2> QED BY <2>4, <1>4 DEF Before
<1> QED BY <1>1, <1>2, <1>3, <1>4

-----------------------------------------------------------------------------
(* What CompareSequencers answers, in terms of Before. *)
LEMMA ComparisonMeaning ==
  ASSUME NEW left \in Seq(Nat), NEW right \in Seq(Nat)
  PROVE  /\ CompareSequencers(left, right) > 0
              <=> Before(Normalized(right), Normalized(left))
         /\ CompareSequencers(left, right) <= 0
              <=> ~ Before(Normalized(right), Normalized(left))
<1>1. Normalized(left) \in Seq(Nat) /\ Normalized(right) \in Seq(Nat)
  BY NormalizedIsText
<1>2. Before(Normalized(left), Normalized(right))
        => ~ Before(Normalized(right), Normalized(left))
  BY <1>1, BeforeIsAsymmetric
<1> QED BY <1>2 DEF CompareSequencers

(* The comparison never says of two texts that each is the greater one. *)
LEMMA NotBothGreater ==
  ASSUME NEW left \in Seq(Nat), NEW right \in Seq(Nat),
         CompareSequencers(left, right) > 0
  PROVE  CompareSequencers(right, left) <= 0
<1>1. Normalized(left) \in Seq(Nat) /\ Normalized(right) \in Seq(Nat)
  BY NormalizedIsText
<1> QED BY <1>1, ComparisonMeaning, BeforeIsAsymmetric

(* No text is greater than itself. *)
LEMMA NotGreaterThanItself ==
  ASSUME NEW text \in Seq(Nat)
  PROVE  CompareSequencers(text, text) <= 0
<1>1. Normalized(text) \in Seq(Nat)  BY NormalizedIsText
<1> QED BY <1>1, ComparisonMeaning, BeforeIsAsymmetric

(* What is greater than a text is greater than all that is not. *)
LEMMA GreaterThanAllBelow ==
  ASSUME NEW base \in Seq(Nat), NEW old \in Seq(Nat), NEW new \in Seq(Nat),
         CompareSequencers(old, base) <= 0, CompareSequencers(new, base) > 0
  PROVE  CompareSequencers(new, old) > 0
<1>1. /\ Normalized(base) \in Seq(Nat)
      /\ Normalized(old) \in Seq(Nat)
      /\ Normalized(new) \in Seq(Nat)
  BY NormalizedIsText
<1>2. /\ ~ Before(Normalized(base), Normalized(old))
      /\ Before(Normalized(base), Normalized(new))
  BY ComparisonMeaning
<1> QED BY <1>1, <1>2, BelowBase, ComparisonMeaning

LEMMA HexadecimalIsText ==
  ASSUME NEW text \in Hexadecimal
  PROVE  text \in Seq(Nat)
BY DEF Hexadecimal, HexDigit

LEMMA AcceptedIsHexadecimal ==
  ASSUME NEW text \in Accepted
  PROVE  text \in Hexadecimal /\ text # None
<1>1. text \in Seq(Nat) /\ text # <<>> /\ \A i \in DOMAIN text : text[i] \in HexDigit
  BY TextAssumption DEF Accepted, IsHex
<1>2. text \in Seq(HexDigit)  BY <1>1
<1> QED BY <1>1, <1>2, NoneAssumption DEF Hexadecimal

-----------------------------------------------------------------------------
(***************************************************************************)
(* The order of the numbers.  The value of a text is built digit by digit; *)
(* what is said of it is shown by induction over its digits, in the form   *)
(* of a set of naturals that has 0 and, with each of its members below n,  *)
(* the next.                                                               *)
(***************************************************************************)
LEMMA Upwards ==
  ASSUME NEW n \in Nat, NEW S, 0 \in S,
         \A k \in 0 .. n - 1 : k \in S => k + 1 \in S
  PROVE  n \in S
<1> SUFFICES ASSUME n \notin S PROVE FALSE  OBVIOUS
<1> DEFINE T == {k \in 0 .. n : k \notin S}
<1>1. T \in SUBSET Nat /\ n \in T  OBVIOUS
<1>2. PICK x \in T : \A y \in T : x <= y  BY <1>1, FirstPosition
<1>3. x \in 0 .. n /\ x # 0 /\ x \notin S  OBVIOUS
<1>4. x - 1 \in 0 .. n - 1 /\ x - 1 + 1 = x  BY <1>3
<1>5. x - 1 \notin T  BY <1>2, <1>3
<1>6. x - 1 \in S  BY <1>4, <1>5
<1> QED BY <1>3, <1>4, <1>6

(* value[n] is the value of the first n digits of text. *)
IsValue(value, text) ==
  /\ value \in [0 .. Len(text) -> Nat]
  /\ value[0] = 0
  /\ \A n \in 1 .. Len(text) : value[n] = 16 * value[n - 1] + Digit(text[n])

LEMMA DigitOrder ==
  ASSUME NEW c \in HexDigit, NEW d \in HexDigit
  PROVE  /\ Digit(c) \in 0 .. 15
         /\ c # Code0 => Digit(c) > 0
         /\ ToUpper(c) < ToUpper(d) => Digit(c) < Digit(d)
         /\ ToUpper(c) = ToUpper(d) => Digit(c) = Digit(d)
BY DEF HexDigit, Digit, ToUpper, Code0

LEMMA NumberIsValue ==
  ASSUME NEW text \in Hexadecimal
  PROVE  \E value : IsValue(value, text) /\ Number(text) = value[Len(text)]
<1> DEFINE L == Len(text)
           Step(f, n) == IF n = 0 THEN 0 ELSE 16 * f[n - 1] + Digit(text[n])
           S == {m \in Nat : \E f : f = [n \in 0 .. m |-> Step(f, n)]}
<1>1. L \in Nat /\ \A n \in 1 .. L : text[n] \in HexDigit
  BY DEF Hexadecimal
<1>2. ASSUME NEW n \in 1 .. L PROVE Digit(text[n]) \in Nat
  <2>1. text[n] \in HexDigit  BY <1>1
  <2>2. Digit(text[n]) \in 0 .. 15  BY <2>1, DigitOrder
  <2> QED BY <2>2
<1> HIDE DEF L
<1>3. 0 \in S
  <2> DEFINE f == [n \in 0 .. 0 |-> 0]
  <2>1. f = [n \in 0 .. 0 |-> Step(f, n)]  OBVIOUS
  <2> QED BY <2>1
<1>4. ASSUME NEW k \in 0 .. L - 1, k \in S PROVE k + 1 \in S
  <2>1. PICK f : f = [n \in 0 .. k |-> Step(f, n)]  BY <1>4
  <2> DEFINE g == [n \in 0 .. k + 1 |-> IF n = k + 1 THEN 16 * f[k] + Digit(text[k + 1]) ELSE f[n]]
  <2>2. k \in Nat /\ k + 1 \in 1 .. L  BY <1>1
  <2>5. ASSUME NEW n \in 0 .. k + 1 PROVE g[n] = Step(g, n)
    <3>1. CASE n = k + 1
      <4>1. g[n - 1] = f[k] /\ n # 0  BY <2>2, <3>1
      <4> QED BY <3>1, <4>1
    <3>2. CASE n = 0
      <4>1. g[0] = f[0] /\ 0 \in 0 .. k  BY <2>2
      <4>2. f[0] = 0  BY <2>1, <4>1
      <4> QED BY <3>2, <4>1, <4>2
    <3>3. CASE n # 0 /\ n # k + 1
      <4>1. n \in 0 .. k /\ n - 1 \in 0 .. k  BY <2>2, <3>3
      <4>2. g[n] = f[n] /\ g[n - 1] = f[n - 1]  BY <2>2, <4>1
      <4>3. f[n] = Step(f, n)  BY <2>1, <4>1
      <4> QED BY <3>3, <4>2, <4>3
    <3> QED BY <3>1, <3>2, <3>3
  <2>6. g = [n \in 0 .. k + 1 |-> Step(g, n)]
    <3>1. g = [n \in 0 .. k + 1 |-> g[n]]  OBVIOUS
    <3> HIDE DEF g
    <3> QED BY <2>5, <3>1
  <2> HIDE DEF g, Step
  <2>7. \E h : h = [n \in 0 .. k + 1 |-> Step(h, n)]
    BY <2>6
  <2> QED BY <2>2, <2>7
<1>5. L \in S
  <2> HIDE DEF S
  <2> QED BY <1>1, <1>3, <1>4, Upwards
<1> DEFINE value == CHOOSE f : f = [n \in 0 .. L |-> Step(f, n)]
<1>6. value = [n \in 0 .. L |-> Step(value, n)]
  BY <1>5
<1>7. Number(text) = value[L]
  BY DEF Number, L
<1> HIDE DEF value
<1>8. value[0] = 0 /\ DOMAIN value = 0 .. L /\ value = [n \in 0 .. L |-> value[n]]
  BY <1>1, <1>6
<1>9. \A n \in 1 .. L : value[n] = 16 * value[n - 1] + Digit(text[n])
  BY <1>1, <1>6
<1>10. ASSUME NEW n \in 0 .. L PROVE value[n] \in Nat
  <2> DEFINE V == {k \in Nat : value[k] \in Nat}
  <2>1. 0 \in V  BY <1>8
  <2>2. ASSUME NEW k \in 0 .. n - 1, k \in V PROVE k + 1 \in V
    <3>1. k + 1 \in 1 .. L /\ k + 1 - 1 = k /\ k \in Nat  BY <1>1, <2>2
    <3>2. value[k + 1] = 16 * value[k] + Digit(text[k + 1])  BY <1>9, <3>1
    <3>3. Digit(text[k + 1]) \in Nat  BY <1>2, <3>1
    <3>4. value[k] \in Nat  BY <2>2
    <3>5. value[k + 1] \in Nat  BY <3>2, <3>3, <3>4
    <3> QED BY <3>1, <3>5
  <2>3. n \in Nat  BY <1>1
  <2>4. n \in V
    <3> HIDE DEF V
    <3> QED BY <2>1, <2>2, <2>3, Upwards
  <2> QED BY <2>4
<1>11. value \in [0 .. L -> Nat]
  BY <1>8, <1>10
<1> QED BY <1>7, <1>8, <1>9, <1>11 DEF IsValue, L

(* Where one value is below, or equal to, another, it stays so over equal  *)
(* digits, and over any digits when it is below.                           *)
SameDigits(s, a, t, b, n) ==
  /\ a + n <= Len(s) /\ b + n <= Len(t)
  /\ \A k \in 1 .. n : Digit(s[a + k]) = Digit(t[b + k])

LEMMA SameDigitsKeepValue ==
  ASSUME NEW s \in Hexadecimal, NEW f, IsValue(f, s),
         NEW t \in Hexadecimal, NEW g, IsValue(g, t),
         NEW a \in Nat, NEW b \in Nat, NEW n \in Nat,
         f[a] = g[b], SameDigits(s, a, t, b, n)
  PROVE  f[a + n] = g[b + n]
<1> DEFINE E == {k \in Nat : f[a + k] = g[b + k]}
<1>0. Len(s) \in Nat /\ Len(t) \in Nat  BY DEF Hexadecimal
<1>1. 0 \in E  OBVIOUS
<1>2. ASSUME NEW k \in 0 .. n - 1, k \in E PROVE k + 1 \in E
  <2>1. /\ a + (k + 1) \in 1 .. Len(s) /\ a + (k + 1) - 1 = a + k
        /\ b + (k + 1) \in 1 .. Len(t) /\ b + (k + 1) - 1 = b + k
        /\ k + 1 \in 1 .. n /\ k + 1 \in Nat
    BY <1>0 DEF SameDigits
  <2>2. /\ f[a + (k + 1)] = 16 * f[a + k] + Digit(s[a + (k + 1)])
        /\ g[b + (k + 1)] = 16 * g[b + k] + Digit(t[b + (k + 1)])
    BY <2>1 DEF IsValue
  <2>3. Digit(s[a + (k + 1)]) = Digit(t[b + (k + 1)])  BY <2>1 DEF SameDigits
  <2> QED BY <1>2, <2>1, <2>2, <2>3
<1> HIDE DEF E
<1>3. n \in E  BY <1>1, <1>2, Upwards
<1> QED BY <1>3 DEF E

LEMMA NextDigitKeepsOrder ==
  ASSUME NEW p \in Nat, NEW q \in Nat, p < q, NEW d \in 0 .. 15, NEW e \in 0 .. 15
  PROVE  16 * p + d < 16 * q + e
OBVIOUS

LEMMA DigitsKeepOrder ==
  ASSUME NEW s \in Hexadecimal, NEW f, IsValue(f, s),
         NEW t \in Hexadecimal, NEW g, IsValue(g, t),
         NEW a \in Nat, NEW b \in Nat, NEW n \in Nat, a + n <= Len(s), b + n <= Len(t),
         f[a] < g[b]
  PROVE  f[a + n] < g[b + n]
<1> DEFINE E == {k \in Nat : f[a + k] < g[b + k]}
<1>0. /\ Len(s) \in Nat /\ \A i \in 1 .. Len(s) : s[i] \in HexDigit
      /\ Len(t) \in Nat /\ \A i \in 1 .. Len(t) : t[i] \in HexDigit
  BY DEF Hexadecimal
<1>1. 0 \in E  OBVIOUS
<1>2. ASSUME NEW k \in 0 .. n - 1, k \in E PROVE k + 1 \in E
  <2>1. /\ a + (k + 1) \in 1 .. Len(s) /\ a + (k + 1) - 1 = a + k
        /\ b + (k + 1) \in 1 .. Len(t) /\ b + (k + 1) - 1 = b + k
        /\ a + k \in 0 .. Len(s) /\ b + k \in 0 .. Len(t) /\ k + 1 \in Nat
    BY <1>0
  <2>2. /\ f[a + (k + 1)] = 16 * f[a + k] + Digit(s[a + (k + 1)])
        /\ g[b + (k + 1)] = 16 * g[b + k] + Digit(t[b + (k + 1)])
    BY <2>1 DEF IsValue
  <2>3. s[a + (k + 1)] \in HexDigit /\ t[b + (k + 1)] \in HexDigit  BY <1>0, <2>1
  <2>4. Digit(s[a + (k + 1)]) \in 0 .. 15 /\ Digit(t[b + (k + 1)]) \in 0 .. 15
    BY <2>3, DigitOrder
  <2>5. f[a + k] < g[b + k]  BY <1>2
  <2>6. f[a + k] \in Nat /\ g[b + k] \in Nat
    <3>1. f \in [0 .. Len(s) -> Nat] /\ g \in [0 .. Len(t) -> Nat]  BY DEF IsValue
    <3> QED BY <2>1, <3>1
  <2>7. f[a + (k + 1)] < g[b + (k + 1)]
    BY <2>2, <2>4, <2>5, <2>6, NextDigitKeepsOrder
  <2> QED BY <2>1, <2>7
<1> HIDE DEF E
<1>3. n \in E  BY <1>1, <1>2, Upwards
<1> QED BY <1>3 DEF E

(* Zeros at the head of a text leave its value at 0.                       *)
LEMMA ZerosHaveNoValue ==
  ASSUME NEW s \in Hexadecimal, NEW f, IsValue(f, s),
         NEW n \in 0 .. Len(s), \A i \in 1 .. n : s[i] = Code0
  PROVE  f[n] = 0
<1> DEFINE E == {k \in Nat : f[k] = 0}
<1>0. Len(s) \in Nat /\ n \in Nat  BY DEF Hexadecimal
<1>1. 0 \in E  BY DEF IsValue
<1>2. ASSUME NEW k \in 0 .. n - 1, k \in E PROVE k + 1 \in E
  <2>1. k + 1 \in 1 .. n /\ k + 1 \in 1 .. Len(s) /\ k + 1 - 1 = k /\ k + 1 \in Nat
    BY <1>0
  <2>2. f[k + 1] = 16 * f[k] + Digit(s[k + 1])  BY <2>1 DEF IsValue
  <2>3. Digit(s[k + 1]) = 0
    <3>1. s[k + 1] = 48  BY <2>1 DEF Code0
    <3> QED BY <3>1 DEF Digit
  <2> QED BY <1>2, <2>1, <2>2, <2>3
<1> HIDE DEF E
<1>3. n \in E  BY <1>0, <1>1, <1>2, Upwards
<1> QED BY <1>3 DEF E

(* Trimming removes all zeros at the head, and keeps the number.           *)
LEMMA LeadingZerosAreAll ==
  ASSUME NEW text \in Hexadecimal
  PROVE  /\ LeadingZeros(text) \in 0 .. Len(text)
         /\ \A i \in 1 .. LeadingZeros(text) : text[i] = Code0
         /\ LeadingZeros(text) < Len(text) => text[LeadingZeros(text) + 1] # Code0
<1> DEFINE L == Len(text)
           zeros == {n \in DOMAIN text : \A i \in 1 .. n : text[i] = Code0}
           others == {n \in 1 .. L : text[n] # Code0}
<1>1. L \in Nat /\ DOMAIN text = 1 .. L  BY DEF Hexadecimal
<1>2. PICK z \in 0 .. L :
        /\ \A i \in 1 .. z : text[i] = Code0
        /\ z < L => text[z + 1] # Code0
  <2>1. CASE others = {}
    BY <1>1, <2>1
  <2>2. CASE others # {}
    <3>1. PICK x \in others : \A y \in others : x <= y
      <4>1. others \in SUBSET Nat  OBVIOUS
      <4> HIDE DEF others
      <4> QED BY <2>2, <4>1, FirstPosition
    <3>2. x - 1 \in 0 .. L /\ x - 1 + 1 = x /\ text[x] # Code0  BY <1>1
    <3>3. \A i \in 1 .. x - 1 : text[i] = Code0
      <4> TAKE i \in 1 .. x - 1
      <4>1. i \in 1 .. L /\ ~ (x <= i)  BY <1>1, <3>2
      <4> QED BY <3>1, <4>1
    <3> QED BY <3>2, <3>3
  <2> QED BY <2>1, <2>2
<1>3. zeros = 1 .. z
  <2>1. ASSUME NEW n \in zeros PROVE n \in 1 .. z
    <3> SUFFICES ASSUME n \notin 1 .. z PROVE FALSE  OBVIOUS
    <3>1. z < L /\ z + 1 \in 1 .. n  BY <1>1
    <3> QED BY <1>2, <3>1
  <2>2. ASSUME NEW n \in 1 .. z PROVE n \in zeros
    <3>1. \A i \in 1 .. n : i \in 1 .. z  OBVIOUS
    <3>2. n \in 1 .. L  BY <1>1
    <3> QED BY <1>1, <1>2, <3>1, <3>2
  <2> QED BY <2>1, <2>2
<1>4. Cardinality(1 .. z) = z  BY <1>1, FS_Interval
<1>5. LeadingZeros(text) = z  BY <1>3, <1>4 DEF LeadingZeros
<1> QED BY <1>2, <1>5

LEMMA NormalizedKeepsNumber ==
  ASSUME NEW text \in Hexadecimal
  PROVE  /\ Normalized(text) \in Hexadecimal
         /\ Number(Normalized(text)) = Number(text)
         /\ Len(Normalized(text)) > 1 => Normalized(text)[1] # Code0
<1> DEFINE z == LeadingZeros(text)
           L == Len(text)
           trimmed == TrimStart(text)
<1>1. /\ z \in 0 .. L /\ \A i \in 1 .. z : text[i] = Code0
      /\ z < L => text[z + 1] # Code0
  BY LeadingZerosAreAll
<1>2. L \in Nat /\ L # 0 /\ text \in Seq(HexDigit) /\ \A i \in 1 .. L : text[i] \in HexDigit
  BY DEF Hexadecimal
<1>3. PICK f : IsValue(f, text) /\ Number(text) = f[L]  BY NumberIsValue
<1>4. f[z] = 0  BY <1>1, <1>3, ZerosHaveNoValue
<1> HIDE DEF z, L
<1>5. /\ trimmed \in Seq(HexDigit) /\ Len(trimmed) = L - z
      /\ \A k \in 1 .. L - z : trimmed[k] = text[z + k]
  <2>1. trimmed = SubSeq(text, z + 1, L)  BY DEF TrimStart, z, L
  <2>2. \A i \in z + 1 .. L : text[i] \in HexDigit  BY <1>1, <1>2
  <2>3. z + 1 \in Int /\ L \in Int /\ z \in Nat  BY <1>1, <1>2
  <2>4. /\ trimmed \in Seq(HexDigit)
        /\ Len(trimmed) = IF z + 1 <= L THEN L - (z + 1) + 1 ELSE 0
        /\ \A k \in 1 .. L - (z + 1) + 1 : trimmed[k] = text[z + 1 + k - 1]
    <3> HIDE DEF trimmed
    <3> QED BY <2>1, <2>2, <2>3, SubSeqProperties
  <2> HIDE DEF trimmed
  <2> QED BY <1>1, <1>2, <2>3, <2>4
<1> HIDE DEF trimmed
<1>6. CASE z = L
  <2>1. trimmed = <<>>  BY <1>2, <1>5, <1>6
  <2>2. Normalized(text) = <<Code0>>  BY <2>1 DEF Normalized, trimmed
  <2>3. <<Code0>> \in Hexadecimal  BY DEF Hexadecimal, HexDigit, Code0
  <2>4. PICK g : IsValue(g, <<Code0>>) /\ Number(<<Code0>>) = g[Len(<<Code0>>)]
    BY <2>3, NumberIsValue
  <2>5. g[1] = 0
    <3>1. 1 \in 0 .. Len(<<Code0>>) /\ \A i \in 1 .. 1 : <<Code0>>[i] = Code0  OBVIOUS
    <3> QED BY <2>3, <2>4, <3>1, ZerosHaveNoValue
  <2>6. Len(<<Code0>>) = 1  OBVIOUS
  <2> QED BY <1>3, <1>4, <1>6, <2>2, <2>3, <2>4, <2>5, <2>6
<1>7. CASE z # L
  <2>1. z < L /\ L - z \in Nat /\ L - z > 0 /\ z \in Nat  BY <1>1, <1>2, <1>7
  <2>2. trimmed # <<>>  BY <1>5, <2>1
  <2>3. Normalized(text) = trimmed  BY <2>2 DEF Normalized, trimmed
  <2>4. trimmed \in Hexadecimal  BY <1>5, <2>2 DEF Hexadecimal
  <2>5. PICK g : IsValue(g, trimmed) /\ Number(trimmed) = g[Len(trimmed)]
    BY <2>4, NumberIsValue
  <2>6. g[0] = f[z]  BY <1>4, <2>5 DEF IsValue
  <2>7. g[0 + (L - z)] = f[z + (L - z)]
    <3>1. SameDigits(trimmed, 0, text, z, L - z)
      BY <1>2, <1>5, <2>1 DEF SameDigits, L
    <3>2. 0 \in Nat /\ z \in Nat /\ L - z \in Nat  BY <2>1
    <3> QED BY <1>3, <2>4, <2>5, <2>6, <3>1, <3>2, SameDigitsKeepValue
  <2>8. 0 + (L - z) = Len(trimmed) /\ z + (L - z) = L
    <3>1. 0 + (L - z) = L - z /\ z + (L - z) = L  BY <1>2, <2>1
    <3> QED BY <1>5, <3>1
  <2>9. Number(trimmed) = Number(text)  BY <1>3, <2>5, <2>7, <2>8
  <2>10. trimmed[1] # Code0
    <3>1. 1 \in 1 .. L - z /\ z + 1 = z + 1  BY <2>1
    <3>2. trimmed[1] = text[z + 1]  BY <1>5, <3>1
    <3> QED BY <1>1, <2>1, <3>2
  <2> QED BY <2>3, <2>4, <2>9, <2>10
<1> QED BY <1>6, <1>7

LEMMA NumberIsNatural ==
  ASSUME NEW text \in Hexadecimal
  PROVE  Number(text) \in Nat
<1>1. PICK f : IsValue(f, text) /\ Number(text) = f[Len(text)]  BY NumberIsValue
<1>2. f \in [0 .. Len(text) -> Nat]  BY <1>1 DEF IsValue
<1>3. Len(text) \in 0 .. Len(text)  BY DEF Hexadecimal
<1> QED BY <1>1, <1>2, <1>3

(* What is shorter, or comes first in ordinal order, stands for a smaller  *)
(* number: the longer text starts with a digit above 0, the first          *)
(* different digit decides, and the digits after it do not matter.         *)
LEMMA ShorterIsLess ==
  ASSUME NEW s \in Hexadecimal, NEW t \in Hexadecimal, Len(s) < Len(t), t[1] # Code0
  PROVE  Number(s) < Number(t)
<1>1. PICK f : IsValue(f, s) /\ Number(s) = f[Len(s)]  BY NumberIsValue
<1>2. PICK g : IsValue(g, t) /\ Number(t) = g[Len(t)]  BY NumberIsValue
<1>3. /\ Len(s) \in Nat /\ Len(t) \in Nat
      /\ \A i \in 1 .. Len(t) : t[i] \in HexDigit
  BY DEF Hexadecimal
<1> DEFINE d == Len(t) - Len(s)
           E == {k \in Nat : g[1 + k] > 0}
<1>4. d \in Nat /\ d - 1 \in Nat  BY <1>3
<1>5. ASSUME NEW i \in 1 .. Len(t)
      PROVE  g[i] = 16 * g[i - 1] + Digit(t[i]) /\ g[i - 1] \in Nat /\ Digit(t[i]) \in Nat
  <2>1. g \in [0 .. Len(t) -> Nat]  BY <1>2 DEF IsValue
  <2>2. g[i] = 16 * g[i - 1] + Digit(t[i])  BY <1>2 DEF IsValue
  <2>3. i - 1 \in 0 .. Len(t)  BY <1>3
  <2>4. g[i - 1] \in Nat  BY <2>1, <2>3
  <2>5. t[i] \in HexDigit  BY <1>3
  <2>6. Digit(t[i]) \in 0 .. 15  BY <2>5, DigitOrder
  <2>7. Digit(t[i]) \in Nat  BY <2>6
  <2> QED BY <2>2, <2>4, <2>7, Zenon
<1>6. 0 \in E
  <2>1. 1 \in 1 .. Len(t) /\ 1 - 1 = 0 /\ 1 + 0 = 1  BY <1>3
  <2>2. t[1] \in HexDigit  BY <1>3, <2>1
  <2>3. Digit(t[1]) > 0  BY <2>2, DigitOrder
  <2>4. g[0] = 0  BY <1>2 DEF IsValue
  <2>5. g[1] = 16 * g[0] + Digit(t[1]) /\ Digit(t[1]) \in Nat  BY <1>5, <2>1
  <2>6. g[1 + 0] > 0  BY <2>3, <2>4, <2>5
  <2> QED BY <2>6
<1>7. ASSUME NEW k \in 0 .. (d - 1) - 1, k \in E PROVE k + 1 \in E
  <2>1. 1 + (k + 1) \in 1 .. Len(t) /\ 1 + (k + 1) - 1 = 1 + k /\ k + 1 \in Nat  BY <1>3
  <2>2. g[1 + k] > 0  BY <1>7
  <2> QED BY <1>5, <2>1, <2>2
<1>8. g[d] > 0
  <2>1. d - 1 \in E
    <3> HIDE DEF E
    <3> QED BY <1>4, <1>6, <1>7, Upwards
  <2>2. 1 + (d - 1) = d  BY <1>4
  <2> QED BY <2>1, <2>2
<1>9. f[0] = 0  BY <1>1 DEF IsValue
<1>10. f[0] < g[d]  BY <1>8, <1>9
<1>11. 0 \in Nat /\ 0 + Len(s) = Len(s) /\ d + Len(s) = Len(t)  BY <1>3
<1>12. 0 + Len(s) <= Len(s) /\ d + Len(s) <= Len(t)  BY <1>3
<1> HIDE DEF d
<1>13. f[0 + Len(s)] < g[d + Len(s)]
  BY <1>1, <1>2, <1>3, <1>4, <1>10, <1>11, <1>12, DigitsKeepOrder
<1> QED BY <1>1, <1>2, <1>11, <1>13

LEMMA FirstDifferenceDecides ==
  ASSUME NEW s \in Hexadecimal, NEW t \in Hexadecimal, Len(s) = Len(t),
         OrdinalBefore(Upper(s), Upper(t))
  PROVE  Number(s) < Number(t)
<1> DEFINE L == Len(s)
<1>1. PICK f : IsValue(f, s) /\ Number(s) = f[Len(s)]  BY NumberIsValue
<1>2. PICK g : IsValue(g, t) /\ Number(t) = g[Len(t)]  BY NumberIsValue
<1>3. /\ L \in Nat
      /\ \A i \in 1 .. L : s[i] \in HexDigit /\ t[i] \in HexDigit
      /\ \A i \in 1 .. L : Upper(s)[i] = ToUpper(s[i]) /\ Upper(t)[i] = ToUpper(t[i])
  BY DEF Hexadecimal, Upper
<1>4. PICK i \in 1 .. L :
        /\ Upper(s)[i] < Upper(t)[i]
        /\ \A j \in 1 .. i - 1 : Upper(s)[j] = Upper(t)[j]
  BY DEF OrdinalBefore, Upper
<1>5. /\ i \in Nat /\ i - 1 \in Nat /\ L - i \in Nat /\ 0 \in Nat
      /\ 0 + (i - 1) = i - 1 /\ i + (L - i) = L
  BY <1>3
<1>6. SameDigits(s, 0, t, 0, i - 1)
  <2>1. ASSUME NEW k \in 1 .. i - 1 PROVE Digit(s[0 + k]) = Digit(t[0 + k])
    <3>1. k \in 1 .. L /\ 0 + k = k  BY <1>3
    <3>2. ToUpper(s[k]) = ToUpper(t[k])  BY <1>3, <1>4, <3>1
    <3>3. s[k] \in HexDigit /\ t[k] \in HexDigit  BY <1>3, <3>1
    <3> QED BY <3>1, <3>2, <3>3, DigitOrder
  <2>2. 0 + (i - 1) <= Len(s) /\ 0 + (i - 1) <= Len(t)  BY <1>3
  <2> QED BY <2>1, <2>2 DEF SameDigits
<1>7. f[0] = g[0]  BY <1>1, <1>2 DEF IsValue
<1>8. f[0 + (i - 1)] = g[0 + (i - 1)]
  BY <1>1, <1>2, <1>5, <1>6, <1>7, SameDigitsKeepValue
<1>9. f[i] < g[i]
  <2>1. f[i] = 16 * f[i - 1] + Digit(s[i]) /\ g[i] = 16 * g[i - 1] + Digit(t[i])
    BY <1>1, <1>2 DEF IsValue
  <2>2. f \in [0 .. L -> Nat] /\ i - 1 \in 0 .. L  BY <1>1, <1>3 DEF IsValue
  <2>3. f[i - 1] = g[i - 1] /\ f[i - 1] \in Nat  BY <1>5, <1>8, <2>2
  <2>4. s[i] \in HexDigit /\ t[i] \in HexDigit /\ ToUpper(s[i]) < ToUpper(t[i])
    BY <1>3, <1>4
  <2>5. Digit(s[i]) \in 0 .. 15 /\ Digit(t[i]) \in 0 .. 15 /\ Digit(s[i]) < Digit(t[i])
    BY <2>4, DigitOrder
  <2>6. \A p \in Nat : \A d, e \in 0 .. 15 : d < e => 16 * p + d < 16 * p + e
    OBVIOUS
  <2>7. 16 * f[i - 1] + Digit(s[i]) < 16 * f[i - 1] + Digit(t[i])
    BY <2>3, <2>5, <2>6
  <2> QED BY <2>1, <2>3, <2>7
<1>10. i + (L - i) <= Len(s) /\ i + (L - i) <= Len(t)  BY <1>3
<1>11. f[i + (L - i)] < g[i + (L - i)]
  BY <1>1, <1>2, <1>5, <1>9, <1>10, DigitsKeepOrder
<1> QED BY <1>1, <1>2, <1>5, <1>11

LEMMA NoDifferenceNoOrder ==
  ASSUME NEW s \in Hexadecimal, NEW t \in Hexadecimal, ~ Before(s, t), ~ Before(t, s)
  PROVE  Number(s) = Number(t)
<1> DEFINE L == Len(s)
           differ == {k \in 1 .. L : Upper(s)[k] # Upper(t)[k]}
<1>1. L \in Nat /\ Len(t) \in Nat  BY DEF Hexadecimal
<1>2. Len(t) = L  BY <1>1 DEF Before
<1>3. /\ \A i \in 1 .. L : s[i] \in HexDigit /\ t[i] \in HexDigit
      /\ \A i \in 1 .. L : Upper(s)[i] = ToUpper(s[i]) /\ Upper(t)[i] = ToUpper(t[i])
      /\ DOMAIN Upper(s) = 1 .. L /\ DOMAIN Upper(t) = 1 .. L
  BY <1>2 DEF Hexadecimal, Upper
<1>4. differ = {}
  <2> SUFFICES ASSUME differ # {} PROVE FALSE  OBVIOUS
  <2>1. differ \in SUBSET Nat  OBVIOUS
  <2>2. PICK x \in differ : \A y \in differ : x <= y
    <3> HIDE DEF differ
    <3> QED BY <2>1, FirstPosition
  <2>3. x \in 1 .. L /\ Upper(s)[x] # Upper(t)[x]  OBVIOUS
  <2>4. \A j \in 1 .. x - 1 : Upper(s)[j] = Upper(t)[j]
    <3> TAKE j \in 1 .. x - 1
    <3>1. j \in 1 .. L /\ ~ (x <= j)  BY <1>1, <2>3
    <3> QED BY <2>2, <3>1
  <2>5. Upper(s)[x] \in Nat /\ Upper(t)[x] \in Nat
    <3>1. s[x] \in HexDigit /\ t[x] \in HexDigit  BY <1>3, <2>3
    <3>2. s[x] \in Nat /\ t[x] \in Nat
      <4>1. HexDigit \subseteq Nat  BY DEF HexDigit
      <4> QED BY <3>1, <4>1, Zenon
    <3> QED BY <1>3, <2>3, <3>2, UpperIsCode
  <2>6. OrdinalBefore(Upper(s), Upper(t)) \/ OrdinalBefore(Upper(t), Upper(s))
    <3>1. CASE Upper(s)[x] < Upper(t)[x]  BY <1>3, <2>3, <2>4, <3>1 DEF OrdinalBefore
    <3>2. CASE Upper(t)[x] < Upper(s)[x]  BY <1>3, <2>3, <2>4, <3>2 DEF OrdinalBefore
    <3> QED BY <2>3, <2>5, <3>1, <3>2
  <2> QED BY <1>2, <2>6 DEF Before
<1>5. PICK f : IsValue(f, s) /\ Number(s) = f[Len(s)]  BY NumberIsValue
<1>6. PICK g : IsValue(g, t) /\ Number(t) = g[Len(t)]  BY NumberIsValue
<1>7. f[0] = g[0]  BY <1>5, <1>6 DEF IsValue
<1>8. SameDigits(s, 0, t, 0, L)
  <2>1. ASSUME NEW k \in 1 .. L PROVE Digit(s[0 + k]) = Digit(t[0 + k])
    <3>1. 0 + k = k  OBVIOUS
    <3>2. Upper(s)[k] = Upper(t)[k]  BY <1>4
    <3>3. ToUpper(s[k]) = ToUpper(t[k]) /\ s[k] \in HexDigit /\ t[k] \in HexDigit
      BY <1>3, <3>2
    <3> QED BY <3>1, <3>3, DigitOrder
  <2>2. 0 + L <= Len(s) /\ 0 + L <= Len(t)  BY <1>1, <1>2
  <2> QED BY <2>1, <2>2 DEF SameDigits
<1>9. 0 \in Nat /\ 0 + L = L  BY <1>1
<1>10. f[0 + L] = g[0 + L]
  BY <1>1, <1>5, <1>6, <1>7, <1>8, <1>9, SameDigitsKeepValue
<1> QED BY <1>2, <1>5, <1>6, <1>9, <1>10

(* CompareSequencers compares the numbers.                                 *)
LEMMA ComparisonIsNumeric ==
  ASSUME NEW left \in Hexadecimal, NEW right \in Hexadecimal
  PROVE  /\ CompareSequencers(left, right) > 0 => Number(left) > Number(right)
         /\ CompareSequencers(left, right) <= 0 => Number(left) <= Number(right)
<1> DEFINE l == Normalized(left)
           r == Normalized(right)
<1>1. /\ l \in Hexadecimal /\ Number(l) = Number(left) /\ (Len(l) > 1 => l[1] # Code0)
      /\ r \in Hexadecimal /\ Number(r) = Number(right) /\ (Len(r) > 1 => r[1] # Code0)
  BY NormalizedKeepsNumber
<1>2. left \in Seq(Nat) /\ right \in Seq(Nat)  BY HexadecimalIsText
<1>3. /\ CompareSequencers(left, right) > 0 <=> Before(r, l)
      /\ CompareSequencers(left, right) <= 0 <=> ~ Before(r, l)
  BY <1>2, ComparisonMeaning
<1> HIDE DEF l, r
<1>4. ASSUME NEW s \in Hexadecimal, NEW t \in Hexadecimal, Before(s, t),
             Len(t) > 1 => t[1] # Code0
      PROVE  Number(s) < Number(t)
  <2>1. CASE Len(s) < Len(t)
    <3>1. Len(t) > 1
      <4>1. Len(s) \in Nat /\ Len(s) # 0 /\ Len(t) \in Nat  BY DEF Hexadecimal
      <4> QED BY <2>1, <4>1
    <3> QED BY <1>4, <2>1, <3>1, ShorterIsLess
  <2>2. CASE Len(s) = Len(t) /\ OrdinalBefore(Upper(s), Upper(t))
    BY <2>2, FirstDifferenceDecides
  <2> QED BY <1>4, <2>1, <2>2 DEF Before
<1>5. Number(l) \in Nat /\ Number(r) \in Nat  BY <1>1, NumberIsNatural
<1>6. CASE Before(r, l)
  <2>1. Number(r) < Number(l)  BY <1>1, <1>4, <1>6
  <2> QED BY <1>1, <1>3, <1>5, <1>6, <2>1
<1>7. CASE ~ Before(r, l)
  <2>1. CASE Before(l, r)
    <3>1. Number(l) < Number(r)  BY <1>1, <1>4, <2>1
    <3> QED BY <1>1, <1>3, <1>5, <1>7, <3>1
  <2>2. CASE ~ Before(l, r)
    <3>1. Number(l) = Number(r)  BY <1>1, <1>7, <2>2, NoDifferenceNoOrder
    <3> QED BY <1>1, <1>3, <1>5, <1>7, <3>1
  <2> QED BY <2>1, <2>2
<1> QED BY <1>6, <1>7

-----------------------------------------------------------------------------
IInv ==
  /\ TypeOK
  /\ NewestUnderComparison
  /\ IF saved = None THEN recorded = {} ELSE saved \in recorded
  /\ skipped # None => \E r \in recorded : CompareSequencers(skipped, r) <= 0

LEMMA InitEstablishesIInv == Init => IInv
BY DEF Init, IInv, TypeOK, NewestUnderComparison

(* Begin relates the new event to the saved sequencer only; the lemmas     *)
(* carry that over to everything saved before.                             *)
LEMMA BeginPreservesIInv ==
  ASSUME IInv, NEW text \in Accepted, Begin(text)
  PROVE  IInv'
<1>1. text \in Hexadecimal /\ text \in Seq(Nat)
  BY AcceptedIsHexadecimal, HexadecimalIsText
<1>2. TypeOK'  BY <1>1 DEF IInv, TypeOK, Begin
<1>3. ASSUME NEW r \in recorded PROVE CompareSequencers(text, r) > 0
  <2>1. saved # None  BY <1>3 DEF IInv
  <2>2. /\ r \in Seq(Nat) /\ saved \in Seq(Nat)
    BY <2>1, HexadecimalIsText DEF IInv, TypeOK
  <2>3. CompareSequencers(r, saved) <= 0  BY DEF IInv, NewestUnderComparison
  <2>4. ~ (CompareSequencers(text, saved) <= 0)  BY <2>1 DEF Begin, IsStale
  <2>5. CompareSequencers(text, saved) > 0
    BY <2>4, <2>2, <1>1, ComparisonMeaning
  <2> QED BY <2>2, <2>3, <2>5, <1>1, GreaterThanAllBelow
<1>4. NewestUnderComparison'
  BY <1>3 DEF IInv, NewestUnderComparison, Begin
<1> QED BY <1>2, <1>4 DEF IInv, Begin

LEMMA SavePreservesIInv ==
  ASSUME IInv, Save
  PROVE  IInv'
<1>1. call \in Hexadecimal /\ call \in Seq(Nat)
  BY HexadecimalIsText DEF IInv, TypeOK, Save
<1>2. TypeOK'  BY <1>1 DEF IInv, TypeOK, Save
<1>3. ASSUME NEW r \in recorded PROVE CompareSequencers(r, call) <= 0
  <2>1. CompareSequencers(call, r) > 0  BY DEF IInv, NewestUnderComparison, Save
  <2>2. r \in Seq(Nat)  BY HexadecimalIsText DEF IInv, TypeOK
  <2> QED BY <2>1, <2>2, <1>1, NotBothGreater
<1>4. CompareSequencers(call, call) <= 0  BY <1>1, NotGreaterThanItself
<1>5. NewestUnderComparison'
  BY <1>3, <1>4 DEF NewestUnderComparison, Save
<1> QED BY <1>2, <1>5 DEF IInv, Save

LEMMA NextPreservesIInv == IInv /\ [Next]_vars => IInv'
<1> SUFFICES ASSUME IInv, [Next]_vars PROVE IInv'  OBVIOUS
<1>1. ASSUME NEW text \in Accepted, SkipStale(text) PROVE IInv'
  <2>1. saved \in recorded /\ CompareSequencers(text, saved) <= 0
    BY <1>1 DEF IInv, SkipStale, IsStale
  <2> QED
    BY <1>1, <2>1, AcceptedIsHexadecimal DEF IInv, TypeOK, NewestUnderComparison, SkipStale
<1>2. ASSUME NEW text \in Accepted, Begin(text) PROVE IInv'
  BY <1>2, BeginPreservesIInv
<1>3. CASE Save  BY <1>3, SavePreservesIInv
<1>4. CASE EndUnsaved
  BY <1>4 DEF IInv, TypeOK, NewestUnderComparison, EndUnsaved
<1>5. CASE UNCHANGED vars
  BY <1>5 DEF IInv, TypeOK, NewestUnderComparison, vars
<1> QED BY <1>1, <1>2, <1>3, <1>4, <1>5 DEF Next

(* The inductive invariant holds for every set of texts. *)
THEOREM SavedIsTracked == Spec => []IInv
BY InitEstablishesIInv, NextPreservesIInv, PTL DEF Spec

(* Only hexadecimal texts are processed, compared and saved: the check in  *)
(* CompareSequencers repeats one IngestSource has made.                    *)
THEOREM OnlyHexadecimalIsSaved == Spec => []TypeOK
<1>1. IInv => TypeOK  BY DEF IInv
<1> QED BY <1>1, SavedIsTracked, PTL

(* The saved sequencer is never below one saved before, and a call that    *)
(* runs is above all of them, for texts of every length and writing.       *)
THEOREM SavedIsTheNewest == Spec => []NewestUnderComparison
<1>1. IInv => NewestUnderComparison  BY DEF IInv
<1> QED BY <1>1, SavedIsTracked, PTL

(* Events are processed and skipped in the order of the numbers their      *)
(* sequencers stand for, however the texts are written: in either letter   *)
(* case, with leading zeros, of any length.                                *)
THEOREM EventsAreInNumericOrder == Spec => []EventsFollowTheirNumbers
<1>1. IInv => EventsFollowTheirNumbers
  <2> SUFFICES ASSUME IInv PROVE EventsFollowTheirNumbers  OBVIOUS
  <2>1. ASSUME call # None, NEW r \in recorded PROVE Number(call) > Number(r)
    <3>1. call \in Hexadecimal /\ r \in Hexadecimal  BY <2>1 DEF IInv, TypeOK
    <3>2. CompareSequencers(call, r) > 0  BY <2>1 DEF IInv, NewestUnderComparison
    <3> QED BY <3>1, <3>2, ComparisonIsNumeric
  <2>2. ASSUME skipped # None PROVE \E r \in recorded : Number(skipped) <= Number(r)
    <3>1. PICK r \in recorded : CompareSequencers(skipped, r) <= 0  BY <2>2 DEF IInv
    <3>2. skipped \in Hexadecimal /\ r \in Hexadecimal  BY <2>2 DEF IInv, TypeOK
    <3> QED BY <3>1, <3>2, ComparisonIsNumeric
  <2> QED BY <2>1, <2>2 DEF EventsFollowTheirNumbers, OldEventsAreSkipped, NewEventsAreNotSkipped
<1> QED BY <1>1, SavedIsTracked, PTL

-----------------------------------------------------------------------------
LEMMA PlaceOfText ==
  ASSUME NEW text \in Hexadecimal
  PROVE  PlaceOf(text) = Number(text) + 1 /\ PlaceOf(text) \in Nat \ {0}
<1>1. text # None  BY NoneAssumption, HexadecimalIsText
<1> QED BY <1>1, NumberIsNatural DEF PlaceOf

LEMMA PlaceOfNone == PlaceOf(None) = 0
BY DEF PlaceOf

(* The new event is above the saved one as a number, because it is above   *)
(* it in the comparison of texts.                                          *)
LEMMA BeginInOrder ==
  ASSUME IInv, NEW text \in Accepted, Begin(text)
  PROVE  Order!Begin
<1>1. text \in Hexadecimal /\ text \in Seq(Nat)
  BY AcceptedIsHexadecimal, HexadecimalIsText
<1>2. call = None /\ call' = text /\ saved' = saved /\ ~ IsStale(text)  BY DEF Begin
<1>3. PlaceOf(call) = 0 /\ PlaceOf(call)' \in Nat /\ PlaceOf(saved)' = PlaceOf(saved)
  BY <1>1, <1>2, PlaceOfNone, PlaceOfText
<1>4. PlaceOf(call)' > PlaceOf(saved)
  <2>1. CASE saved = None
    BY <1>1, <1>2, <2>1, PlaceOfNone, PlaceOfText
  <2>2. CASE saved # None
    <3>1. saved \in Hexadecimal /\ saved \in Seq(Nat)
      BY <2>2, HexadecimalIsText DEF IInv, TypeOK
    <3>2. CompareSequencers(text, saved) > 0
      <4>1. ~ (CompareSequencers(text, saved) <= 0)  BY <1>2, <2>2 DEF IsStale
      <4> QED BY <4>1, <1>1, <3>1, ComparisonMeaning
    <3>3. Number(text) > Number(saved)  BY <1>1, <3>1, <3>2, ComparisonIsNumeric
    <3>4. Number(text) \in Nat /\ Number(saved) \in Nat  BY <1>1, <3>1, NumberIsNatural
    <3>5. PlaceOf(call)' = Number(text) + 1 /\ PlaceOf(saved) = Number(saved) + 1
      BY <1>1, <1>2, <3>1, PlaceOfText
    <3> QED BY <3>3, <3>4, <3>5
  <2> QED BY <2>1, <2>2
<1> QED BY <1>3, <1>4 DEF Order!Begin

(* The texts implement the order of numbers, for texts of every length and *)
(* writing: a call begins only for an event with a number above the saved  *)
(* one, and saves that event or none.                                      *)
THEOREM SequencersImplementEventOrder == Spec => TextsImplementEventOrder
<1>1. Init => Order!OrderInit
  BY PlaceOfNone DEF Init, Order!OrderInit
<1>2. IInv /\ [Next]_vars => [Order!OrderNext]_(Order!orderVars)
  <2> SUFFICES ASSUME IInv, [Next]_vars
               PROVE  Order!OrderNext \/ UNCHANGED Order!orderVars
    OBVIOUS
  <2>1. ASSUME NEW text \in Accepted, SkipStale(text) PROVE UNCHANGED Order!orderVars
    BY <2>1 DEF SkipStale, Order!orderVars
  <2>2. ASSUME NEW text \in Accepted, Begin(text) PROVE Order!OrderNext
    BY <2>2, BeginInOrder DEF Order!OrderNext
  <2>3. CASE Save \/ EndUnsaved
    <3>1. call \in Hexadecimal /\ call' = None  BY <2>3 DEF IInv, TypeOK, Save, EndUnsaved
    <3>2. PlaceOf(call) # 0 /\ PlaceOf(call)' = 0
      BY <3>1, PlaceOfText, PlaceOfNone
    <3>3. CASE Save
      <4>1. PlaceOf(saved)' = PlaceOf(call)  BY <3>3 DEF Save
      <4> QED BY <3>2, <4>1 DEF Order!OrderNext, Order!Save
    <3>4. CASE EndUnsaved
      <4>1. PlaceOf(saved)' = PlaceOf(saved)  BY <3>4 DEF EndUnsaved
      <4> QED BY <3>2, <4>1 DEF Order!OrderNext, Order!EndUnsaved
    <3> QED BY <2>3, <3>3, <3>4
  <2>4. CASE UNCHANGED vars
    BY <2>4 DEF vars, Order!orderVars
  <2> QED BY <2>1, <2>2, <2>3, <2>4 DEF Next
<1> QED BY <1>1, <1>2, SavedIsTracked, PTL DEF Spec, TextsImplementEventOrder, Order!OrderSpec
=============================================================================
