--------------------------- MODULE InetAddrProof ---------------------------
(***************************************************************************)
(* What inet_addr() reads, for texts of any fields and of any length.  The  *)
(* value of a field is a recursive function over its digits, so the proofs  *)
(* need induction; the module derives the form it uses, on a set of natural *)
(* numbers, from the well-foundedness of < on Nat.                          *)
(***************************************************************************)
EXTENDS InetAddr, WellFoundedInduction, TLAPS

----------------------------------------------------------------------------
(***************************************************************************)
(* Induction on the natural numbers, for a set instead of a predicate.      *)
(***************************************************************************)

\* A set of natural numbers that is not empty has a least element.
LEMMA LeastElement ==
  ASSUME NEW T \in SUBSET Nat, T # {}
  PROVE  \E n \in T : \A m \in T : n <= m
<1> DEFINE R == OpToRel(<, Nat)
<1>1. \E n \in T : \A m \in T : << m, n >> \notin R
  <2> HIDE DEF R
  <2>1. IsWellFoundedOn(R, Nat)
    BY NatLessThanWellFounded DEF R
  <2> QED BY <2>1, WFMin
<1>2. \A n, m \in Nat : m < n => << m, n >> \in R
  BY DEF OpToRel
<1> HIDE DEF R
<1>3. PICK n \in T : \A m \in T : << m, n >> \notin R
  BY <1>1
<1>4. \A m \in T : ~(m < n)
  BY <1>2, <1>3
<1> QED BY <1>4

\* A set that holds 0 and the successor of whatever it holds below n, holds
\* everything up to n.
LEMMA InductionUpTo ==
  ASSUME NEW n \in Nat, NEW S,
         0 \in S, \A k \in 1..n : k - 1 \in S => k \in S
  PROVE  \A k \in 0..n : k \in S
<1> DEFINE T == { k \in 0..n : k \notin S }
<1>1. SUFFICES ASSUME T # {} PROVE FALSE
  OBVIOUS
<1>2. PICK k \in T : \A m \in T : k <= m
  <2>1. T \in SUBSET Nat
    OBVIOUS
  <2> HIDE DEF T
  <2> QED BY <1>1, <2>1, LeastElement
<1>3. k \in 1..n /\ k - 1 \in 0..n /\ k - 1 \notin T
  BY <1>2
<1>4. k - 1 \in S
  BY <1>3
<1>5. k \in S
  BY <1>3, <1>4
<1> QED BY <1>2, <1>5

\* A function on 0..n is defined by recursion from the steps that lead from its
\* value at k - 1 to its value at k.
Recursion(n, V, c, step) ==
  \E g \in [0..n -> V] : g[0] = c /\ \A k \in 1..n : g[k] = step[k][g[k - 1]]

LEMMA RecursionUpTo ==
  ASSUME NEW n \in Nat, NEW V, NEW c \in V, NEW step \in [1..n -> [V -> V]]
  PROVE  Recursion(n, V, c, step)
<1> DEFINE Solves(g, m) == /\ g \in [0..m -> V] /\ g[0] = c
                           /\ \A k \in 1..m : g[k] = step[k][g[k - 1]]
           S == { m \in 0..n : \E g : Solves(g, m) }
<1>1. 0 \in S
  <2>1. Solves([k \in 0..0 |-> c], 0)
    OBVIOUS
  <2> HIDE DEF Solves
  <2> QED BY <2>1
<1>2. ASSUME NEW m \in 1..n, m - 1 \in S  PROVE m \in S
  <2>1. PICK g : Solves(g, m - 1)
    BY <1>2
  <2> DEFINE h == [k \in 0..m |-> IF k = m THEN step[m][g[m - 1]] ELSE g[k]]
  <2>2. g[m - 1] \in V
    BY <2>1
  <2>3. step[m] \in [V -> V] /\ step[m][g[m - 1]] \in V
    BY <2>2
  <2>4. h \in [0..m -> V] /\ h[0] = c
    BY <2>1, <2>3
  <2>5. ASSUME NEW k \in 1..m  PROVE h[k] = step[k][h[k - 1]]
    <3>1. CASE k = m
      <4>1. h[m] = step[m][g[m - 1]] /\ h[m - 1] = g[m - 1]
        OBVIOUS
      <4> QED BY <3>1, <4>1
    <3>2. CASE k # m
      <4>1. k \in 1..(m - 1) /\ h[k] = g[k] /\ h[k - 1] = g[k - 1]
        BY <3>2
      <4> QED BY <4>1, <2>1
    <3> QED BY <3>1, <3>2
  <2>6. Solves(h, m)
    BY <2>4, <2>5
  <2> HIDE DEF Solves, h
  <2> QED BY <2>6
<1>3. n \in S
  <2> HIDE DEF S
  <2>1. \A m \in 1..n : m - 1 \in S => m \in S
    BY <1>2
  <2>2. \A k \in 0..n : k \in S
    BY <1>1, <2>1, InductionUpTo
  <2> QED BY <2>2
<1>4. PICK g : Solves(g, n)
  BY <1>3
<1>5. g \in [0..n -> V] /\ g[0] = c /\ \A k \in 1..n : g[k] = step[k][g[k - 1]]
  BY <1>4
<1> HIDE DEF Solves, S
<1> QED BY <1>5 DEF Recursion

----------------------------------------------------------------------------
(***************************************************************************)
(* The value of a field.                                                    *)
(***************************************************************************)

\* A pair of halves, and what an unsigned long consists of.
LEMMA LongOf ==
  ASSUME NEW h \in 0..(Half - 1), NEW l \in 0..(Half - 1)
  PROVE  << h, l >> \in Long
BY DEF Long

LEMMA LongParts ==
  ASSUME NEW v \in Long
  PROVE  /\ v = << v[1], v[2] >>
         /\ v[1] \in 0..(Half - 1) /\ v[1] \in Nat
         /\ v[2] \in 0..(Half - 1) /\ v[2] \in Nat
<1>1. v = << v[1], v[2] >> /\ v[1] \in 0..(Half - 1) /\ v[2] \in 0..(Half - 1)
  BY DEF Long
<1>2. 0..(Half - 1) \subseteq Nat
  BY DEF Half
<1> QED BY <1>1, <1>2

LEMMA ZeroIsLong == << 0, 0 >> \in Long
<1>1. 0 \in 0..(Half - 1)
  BY DEF Half
<1> QED BY <1>1, LongOf

\* One digit more is another unsigned long.
LEMMA TimesPlusType ==
  ASSUME NEW v \in Long, NEW base \in Nat, NEW n \in Nat
  PROVE  TimesPlus(v, base, n) \in Long
<1>1. v[1] \in Int /\ v[2] \in Int
  BY LongParts
<1>2. v[1] * base \in Int /\ v[2] * base \in Int
  BY <1>1
<1>3. (v[2] * base + n) \div Half \in Int
  BY <1>2 DEF Half
<1>4. \A x \in Int : x % Half \in 0..(Half - 1)
  BY DEF Half
<1>5. v[1] * base + (v[2] * base + n) \div Half \in Int /\ v[2] * base + n \in Int
  BY <1>2, <1>3
<1> QED BY <1>4, <1>5, LongOf DEF TimesPlus

\* The loop over the digits of a field: val starts with 0 and takes each digit
\* in turn, and its last value is the value of the field.
LEMMA ValueUnfolds ==
  ASSUME NEW f \in Field
  PROVE  \E val \in [0..Len(f.digits) -> Long] :
           /\ val[0] = << 0, 0 >>
           /\ \A k \in 1..Len(f.digits) :
                 val[k] = TimesPlus(val[k - 1], f.base, f.digits[k])
           /\ Value(f) = val[Len(f.digits)]
<1> DEFINE n == Len(f.digits)
           Loop(h) == h = [k \in 0..n |-> IF k = 0 THEN << 0, 0 >>
                                          ELSE TimesPlus(h[k - 1], f.base, f.digits[k])]
           step == [k \in 1..n |-> [v \in Long |-> TimesPlus(v, f.base, f.digits[k])]]
           val == CHOOSE h : Loop(h)
<1>1. n \in Nat /\ f.base \in Nat /\ \A k \in 1..n : f.digits[k] \in Nat
  BY DEF Field
<1>2. << 0, 0 >> \in Long
  BY ZeroIsLong
<1>3. step \in [1..n -> [Long -> Long]]
  BY <1>1, TimesPlusType
<1>4. \E g : Loop(g)
  <2>1. PICK g \in [0..n -> Long] :
          g[0] = << 0, 0 >> /\ \A k \in 1..n : g[k] = step[k][g[k - 1]]
    <3> HIDE DEF n, step, Loop, val
    <3>1. Recursion(n, Long, << 0, 0 >>, step)
      BY <1>1, <1>2, <1>3, RecursionUpTo
    <3> QED BY <3>1 DEF Recursion
  <2>2. ASSUME NEW k \in 0..n, k # 0
        PROVE  step[k][g[k - 1]] = TimesPlus(g[k - 1], f.base, f.digits[k])
    <3>1. k \in 1..n /\ g[k - 1] \in Long
      BY <1>1, <2>2
    <3> QED BY <3>1 DEF step
  <2>3. ASSUME NEW k \in 0..n
        PROVE  g[k] = IF k = 0 THEN << 0, 0 >>
                               ELSE TimesPlus(g[k - 1], f.base, f.digits[k])
    <3>1. CASE k = 0
      BY <2>1, <3>1
    <3>2. CASE k # 0
      <4>1. k \in 1..n
        BY <1>1, <3>2
      <4> QED BY <2>1, <2>2, <3>2, <4>1
    <3> QED BY <3>1, <3>2
  <2>4. Loop(g)
    <3> HIDE DEF n, step
    <3> QED BY <2>1, <2>3
  <2> QED BY <2>4
<1>5. Loop(val)
  <2> HIDE DEF Loop
  <2> QED BY <1>4
<1>6. Value(f) = val[n]
  BY DEF Value
<1> HIDE DEF val
<1>7. val[0] = << 0, 0 >>
  BY <1>1, <1>5
<1>8. ASSUME NEW k \in 1..n
      PROVE  val[k] = TimesPlus(val[k - 1], f.base, f.digits[k])
  <2>1. k \in 0..n /\ k # 0
    BY <1>1
  <2> QED BY <1>5, <2>1
<1>9. val \in [0..n -> Long]
  <2> DEFINE S == { k \in 0..n : val[k] \in Long }
  <2>1. 0 \in S
    BY <1>1, <1>2, <1>7
  <2>2. ASSUME NEW k \in 1..n, k - 1 \in S  PROVE k \in S
    <3>1. TimesPlus(val[k - 1], f.base, f.digits[k]) \in Long
      BY <1>1, <2>2, TimesPlusType
    <3> QED BY <3>1, <1>8
  <2>3. \A k \in 0..n : k \in S
    <3> HIDE DEF S, n
    <3>1. \A k \in 1..n : k - 1 \in S => k \in S
      BY <2>2
    <3> QED BY <1>1, <2>1, <3>1, InductionUpTo
  <2> QED BY <2>3, <1>5
<1> QED BY <1>6, <1>7, <1>8, <1>9

\* A field is read as an unsigned long.
LEMMA ValueType ==
  ASSUME NEW f \in Field
  PROVE  Value(f) \in Long
<1>1. Len(f.digits) \in Nat
  BY DEF Field
<1> QED BY <1>1, ValueUnfolds

----------------------------------------------------------------------------
(***************************************************************************)
(* The value of a field and the number it spells.                           *)
(***************************************************************************)

\* The number a field spells is built up digit by digit.
LEMMA SpelledUnfolds ==
  ASSUME NEW f \in Field
  PROVE  \E upto \in [0..Len(f.digits) -> Nat] :
           /\ upto[0] = 0
           /\ \A k \in 1..Len(f.digits) : upto[k] = upto[k - 1] * f.base + f.digits[k]
           /\ Spelled(f) = upto[Len(f.digits)]
<1> DEFINE n == Len(f.digits)
           Sum(h) == h = [k \in 0..n |-> IF k = 0 THEN 0
                                         ELSE h[k - 1] * f.base + f.digits[k]]
           step == [k \in 1..n |-> [s \in Nat |-> s * f.base + f.digits[k]]]
           upto == CHOOSE h : Sum(h)
<1>1. n \in Nat /\ f.base \in Nat /\ \A k \in 1..n : f.digits[k] \in Nat
  BY DEF Field
<1>2. ASSUME NEW s \in Nat, NEW k \in 1..n  PROVE s * f.base + f.digits[k] \in Nat
  <2>1. \A x, y, z \in Nat : x * y + z \in Nat
    OBVIOUS
  <2> QED BY <1>1, <2>1
<1>3. step \in [1..n -> [Nat -> Nat]]
  BY <1>2
<1>4. \E g : Sum(g)
  <2>1. PICK g \in [0..n -> Nat] :
          g[0] = 0 /\ \A k \in 1..n : g[k] = step[k][g[k - 1]]
    <3> HIDE DEF n, step, Sum, upto
    <3>1. Recursion(n, Nat, 0, step)
      BY <1>1, <1>3, RecursionUpTo
    <3> QED BY <3>1 DEF Recursion
  <2>2. ASSUME NEW k \in 0..n, k # 0
        PROVE  step[k][g[k - 1]] = g[k - 1] * f.base + f.digits[k]
    <3>1. k \in 1..n /\ g[k - 1] \in Nat
      BY <1>1, <2>2
    <3> QED BY <3>1 DEF step
  <2>3. ASSUME NEW k \in 0..n
        PROVE  g[k] = IF k = 0 THEN 0 ELSE g[k - 1] * f.base + f.digits[k]
    <3>1. CASE k = 0
      BY <2>1, <3>1
    <3>2. CASE k # 0
      <4>1. k \in 1..n
        BY <1>1, <3>2
      <4> QED BY <2>1, <2>2, <3>2, <4>1
    <3> QED BY <3>1, <3>2
  <2>4. Sum(g)
    <3> HIDE DEF n, step
    <3> QED BY <2>1, <2>3
  <2> QED BY <2>4
<1>5. Sum(upto)
  <2> HIDE DEF Sum
  <2> QED BY <1>4
<1>6. Spelled(f) = upto[n]
  BY DEF Spelled
<1> HIDE DEF upto
<1>7. upto[0] = 0
  BY <1>1, <1>5
<1>8. ASSUME NEW k \in 1..n
      PROVE  upto[k] = upto[k - 1] * f.base + f.digits[k]
  <2>1. k \in 0..n /\ k # 0
    BY <1>1
  <2> QED BY <1>5, <2>1
<1>9. upto \in [0..n -> Nat]
  <2> DEFINE S == { k \in 0..n : upto[k] \in Nat }
  <2>1. 0 \in S
    BY <1>1, <1>7
  <2>2. ASSUME NEW k \in 1..n, k - 1 \in S  PROVE k \in S
    <3>1. upto[k - 1] * f.base + f.digits[k] \in Nat
      BY <1>2, <2>2
    <3> QED BY <3>1, <1>8
  <2>3. \A k \in 0..n : k \in S
    <3> HIDE DEF S, n
    <3>1. \A k \in 1..n : k - 1 \in S => k \in S
      BY <2>2
    <3> QED BY <1>1, <2>1, <3>1, InductionUpTo
  <2> QED BY <2>3, <1>5
<1> QED BY <1>6, <1>7, <1>8, <1>9

\* The number an unsigned long stands for.
NumberOf(v) == v[1] * Half + v[2]

\* Division with remainder.
LEMMA DivMod ==
  ASSUME NEW x \in Int, NEW p \in Int, p > 0
  PROVE  x \div p \in Int /\ x % p \in 0..(p - 1) /\ x = (x \div p) * p + (x % p)
<1>1. x \div p \in Int
  OBVIOUS
<1>2. x % p \in 0..(p - 1)
  OBVIOUS
<1>3. x = (x \div p) * p + (x % p)
  OBVIOUS
<1> QED BY <1>1, <1>2, <1>3

LEMMA Remainder ==
  ASSUME NEW x \in Int, NEW p \in Int, p > 0, NEW q \in Int, NEW r \in 0..(p - 1),
         x = q * p + r
  PROVE  x % p = r
OBVIOUS

Whole == Half * Half

LEMMA Widths == /\ Half \in Int /\ Half > 0 /\ Half > 255
                /\ Whole \in Int /\ Whole > 0 /\ Whole > 255
<1>1. Half \in Int /\ Half > 0 /\ Half > 255
  BY DEF Half
<1>2. Whole \in Int /\ Whole > 0 /\ Whole > 255
  BY <1>1 DEF Whole
<1> QED BY <1>1, <1>2

LEMMA NumberType ==
  ASSUME NEW h \in 0..(Half - 1), NEW l \in 0..(Half - 1)
  PROVE  h * Half + l \in 0..(Whole - 1)
<1>1. h \in Int /\ 0 <= h /\ h <= Half - 1 /\ l \in Int /\ 0 <= l /\ l <= Half - 1
  BY Widths
<1>2. h * Half + l \in Int
  BY <1>1, Widths
<1>3. 0 <= h * Half + l
  <2>1. 0 <= h * Half
    BY <1>1, Widths
  <2> QED BY <1>1, <2>1, Widths
<1>4. h * Half + l <= Whole - 1
  BY <1>1, Widths DEF Whole
<1> QED BY <1>2, <1>3, <1>4, Widths

\* (val * base) + n is computed in 32 bits: it is the number itself, modulo 2^32,
\* whatever was lost before.
LEMMA TimesPlusModulo ==
  ASSUME NEW v \in Long, NEW s \in Nat, NEW base \in {8, 10, 16}, NEW n \in 0..15,
         NumberOf(v) = s % Whole
  PROVE  NumberOf(TimesPlus(v, base, n)) = (s * base + n) % Whole
<1> DEFINE low == v[2] * base + n
           high == v[1] * base + (low \div Half)
           lost == (s \div Whole) * base + (high \div Half)
           kept == (high % Half) * Half + (low % Half)
<1>1. v[1] \in Int /\ v[2] \in Int
  BY LongParts
<1>2. s \div Whole \in Int /\ s = (s \div Whole) * Whole + v[1] * Half + v[2]
  <2>1. s \div Whole \in Int /\ s = (s \div Whole) * Whole + (s % Whole)
    BY DivMod, Widths
  <2>2. s % Whole = v[1] * Half + v[2]
    BY DEF NumberOf
  <2>3. (s \div Whole) * Whole \in Int /\ v[1] * Half \in Int
    BY <1>1, <2>1, Widths
  <2> QED BY <1>1, <2>1, <2>2, <2>3
<1>3. low \in Int
  BY <1>1
<1>4. high \in Int
  <2> HIDE DEF low
  <2> QED BY <1>1, <1>3, DivMod, Widths
<1>5. lost \in Int
  <2> HIDE DEF high
  <2> QED BY <1>2, <1>4, DivMod, Widths
<1>6. kept \in 0..(Whole - 1)
  <2> HIDE DEF low, high
  <2>1. high % Half \in 0..(Half - 1) /\ low % Half \in 0..(Half - 1)
    BY <1>3, <1>4, DivMod, Widths
  <2> QED BY <2>1, NumberType
<1>7. s * base + n = lost * Whole + kept
  <2> DEFINE q == s \div Whole
             h == v[1]
             l == v[2]
             lowd == low \div Half
             lowm == low % Half
             highd == high \div Half
             highm == high % Half
  <2>1. lowd \in Int /\ lowm \in Int /\ low = lowd * Half + lowm
    <3> HIDE DEF low
    <3> QED BY <1>3, DivMod, Widths
  <2>2. highd \in Int /\ highm \in Int /\ high = highd * Half + highm
    <3> HIDE DEF high
    <3> QED BY <1>4, DivMod, Widths
  <2>3. /\ l * base + n = lowd * Half + lowm
        /\ h * base + lowd = highd * Half + highm
        /\ lost = q * base + highd /\ kept = highm * Half + lowm
        /\ s = q * Whole + h * Half + l
        /\ q \in Int /\ h \in Int /\ l \in Int
    BY <1>1, <1>2, <2>1, <2>2
  <2> HIDE DEF low, high, lost, kept, q, h, l, lowd, lowm, highd, highm
  <2>4. CASE base = 8
    BY <2>1, <2>2, <2>3, <2>4, SMTT(30) DEF Half, Whole
  <2>5. CASE base = 10
    BY <2>1, <2>2, <2>3, <2>5, SMTT(30) DEF Half, Whole
  <2>6. CASE base = 16
    BY <2>1, <2>2, <2>3, <2>6, SMTT(30) DEF Half, Whole
  <2> QED BY <2>4, <2>5, <2>6
<1>8. NumberOf(TimesPlus(v, base, n)) = kept
  BY DEF NumberOf, TimesPlus
<1>9. s * base + n \in Int
  OBVIOUS
<1> HIDE DEF lost, kept
<1> QED BY <1>5, <1>6, <1>7, <1>8, <1>9, Remainder, Widths

\* A field of any length and base is read as the number it spells, modulo 2^32:
\* the loop over its digits loses nothing but what 32 bits cannot hold
\* (netinet.cpp:28-41).
THEOREM ValueModulo ==
  ASSUME NEW f \in Field
  PROVE  NumberOf(Value(f)) = Spelled(f) % Whole
<1> DEFINE n == Len(f.digits)
<1>1. n \in Nat /\ f.base \in {8, 10, 16} /\ \A k \in 1..n : f.digits[k] \in 0..15
  BY DEF Field
<1>2. PICK val \in [0..n -> Long] :
        /\ val[0] = << 0, 0 >>
        /\ \A k \in 1..n : val[k] = TimesPlus(val[k - 1], f.base, f.digits[k])
        /\ Value(f) = val[n]
  BY ValueUnfolds
<1>3. PICK upto \in [0..n -> Nat] :
        /\ upto[0] = 0
        /\ \A k \in 1..n : upto[k] = upto[k - 1] * f.base + f.digits[k]
        /\ Spelled(f) = upto[n]
  BY SpelledUnfolds
<1> DEFINE S == { k \in 0..n : NumberOf(val[k]) = upto[k] % Whole }
<1> HIDE DEF n
<1>4. 0 \in S
  <2>1. 0 % Whole = 0
    BY Remainder, Widths
  <2>2. NumberOf(val[0]) = 0
    BY <1>2 DEF NumberOf, Half
  <2> QED BY <1>1, <1>3, <2>1, <2>2
<1>5. ASSUME NEW k \in 1..n, k - 1 \in S  PROVE k \in S
  <2>1. /\ k \in 0..n /\ val[k - 1] \in Long /\ upto[k - 1] \in Nat
        /\ NumberOf(val[k - 1]) = upto[k - 1] % Whole
    BY <1>1, <1>5
  <2>2. NumberOf(TimesPlus(val[k - 1], f.base, f.digits[k]))
          = (upto[k - 1] * f.base + f.digits[k]) % Whole
    BY <1>1, <2>1, TimesPlusModulo
  <2> QED BY <1>2, <1>3, <2>1, <2>2
<1>6. n \in S
  <2> HIDE DEF S
  <2>1. \A k \in 1..n : k - 1 \in S => k \in S
    BY <1>5
  <2>2. \A k \in 0..n : k \in S
    BY <1>1, <1>4, <2>1, InductionUpTo
  <2> QED BY <1>1, <2>2
<1> QED BY <1>2, <1>3, <1>6

\* A field that spells less than 256 is read as just that.
LEMMA ValueOfOctet ==
  ASSUME NEW f \in Field, Spelled(f) < 256
  PROVE  Spelled(f) \in 0..255 /\ Value(f) = << 0, Spelled(f) >>
<1> DEFINE s == Spelled(f)
           v == Value(f)
<1>1. s \in 0..255
  <2>1. s \in Nat
    <3>1. Len(f.digits) \in Nat
      BY DEF Field
    <3> QED BY <3>1, SpelledUnfolds
  <2> QED BY <2>1
<1>2. v \in Long
  BY ValueType
<1>3. v[1] * Half + v[2] = s % Whole
  BY ValueModulo DEF NumberOf
<1> HIDE DEF s, v
<1>4. s = 0 * Whole + s /\ s \in 0..(Whole - 1)
  BY <1>1, Widths
<1>5. s % Whole = s
  BY <1>1, <1>4, Widths, Remainder
<1>6. v[1] \in Nat /\ v[2] \in Nat /\ v = << v[1], v[2] >>
  BY <1>2, LongParts
<1>7. v[1] * 65536 + v[2] \in 0..255
  BY <1>1, <1>3, <1>5 DEF Half
<1>8. v[1] = 0
  BY <1>6, <1>7
<1>9. v[2] = s
  BY <1>3, <1>5, <1>6, <1>8, Widths
<1> QED BY <1>1, <1>6, <1>8, <1>9 DEF s, v

----------------------------------------------------------------------------
(***************************************************************************)
(* The bits of the four parts.                                              *)
(***************************************************************************)

\* The or of two bytes is a byte, and of two halves a half.
LEMMA OrByteType ==
  ASSUME NEW a, NEW b
  PROVE  OrByte(a, b) \in 0..255
<1> DEFINE B(p) == BitOr(a, b, p)
<1>1. ASSUME NEW p \in Nat  PROVE B(p) \in Int /\ 0 <= B(p) /\ B(p) <= p
  BY DEF BitOr
<1>2. OrByte(a, b) = B(1) + B(2) + B(4) + B(8) + B(16) + B(32) + B(64) + B(128)
  BY DEF OrByte
<1> HIDE DEF B
<1> DEFINE u == B(1) + B(2) + B(4) + B(8)
           l == B(16) + B(32) + B(64) + B(128)
<1>3. u \in Int /\ 0 <= u /\ u <= 15
  BY <1>1
<1>4. l \in Int /\ 0 <= l /\ l <= 240
  BY <1>1
<1>5. OrByte(a, b) = u + l
  <2>1. /\ B(1) \in Int /\ B(2) \in Int /\ B(4) \in Int /\ B(8) \in Int
        /\ B(16) \in Int /\ B(32) \in Int /\ B(64) \in Int /\ B(128) \in Int
    BY <1>1
  <2> QED BY <1>2, <2>1
<1> HIDE DEF u, l
<1> QED BY <1>3, <1>4, <1>5

LEMMA OrType ==
  ASSUME NEW a, NEW b
  PROVE  Or(a, b) \in 0..(Half - 1)
<1> DEFINE u == OrByte(a \div 256, b \div 256)
           l == OrByte(a % 256, b % 256)
<1>1. u \in 0..255 /\ l \in 0..255
  BY OrByteType
<1>2. Or(a, b) = u * 256 + l
  BY DEF Or
<1> HIDE DEF u, l
<1>3. u * 256 + l \in Nat /\ u * 256 + l <= Half - 1
  BY <1>1 DEF Half
<1> QED BY <1>2, <1>3, Widths

LEMMA JoinType ==
  ASSUME NEW p
  PROVE  Join(p) \in Long
BY OrType, LongOf DEF Join

\* A byte is the sum of its bits, and a zero adds none to them.
LEMMA OrByteZero ==
  ASSUME NEW b \in 0..255
  PROVE  OrByte(b, 0) = b /\ OrByte(0, b) = b
<1> DEFINE Bit(p) == IF (b \div p) % 2 = 1 THEN p ELSE 0
<1>1. b = Bit(1) + Bit(2) + Bit(4) + Bit(8) + Bit(16) + Bit(32) + Bit(64) + Bit(128)
  OBVIOUS
<1>2. /\ BitOr(b, 0, 1) = Bit(1) /\ BitOr(b, 0, 2) = Bit(2)
      /\ BitOr(b, 0, 4) = Bit(4) /\ BitOr(b, 0, 8) = Bit(8)
      /\ BitOr(b, 0, 16) = Bit(16) /\ BitOr(b, 0, 32) = Bit(32)
      /\ BitOr(b, 0, 64) = Bit(64) /\ BitOr(b, 0, 128) = Bit(128)
  BY DEF BitOr
<1>3. /\ BitOr(0, b, 1) = Bit(1) /\ BitOr(0, b, 2) = Bit(2)
      /\ BitOr(0, b, 4) = Bit(4) /\ BitOr(0, b, 8) = Bit(8)
      /\ BitOr(0, b, 16) = Bit(16) /\ BitOr(0, b, 32) = Bit(32)
      /\ BitOr(0, b, 64) = Bit(64) /\ BitOr(0, b, 128) = Bit(128)
  BY DEF BitOr
<1> HIDE DEF Bit
<1> QED BY <1>1, <1>2, <1>3 DEF OrByte

\* A byte in the upper eight bits and one in the lower do not touch each other,
\* and nothing is added by a zero.
LEMMA OrBytes ==
  ASSUME NEW a \in 0..255, NEW b \in 0..255
  PROVE  Or(a * 256, b) = a * 256 + b /\ Or(a * 256 + b, 0) = a * 256 + b
<1>1. /\ (a * 256) \div 256 = a /\ (a * 256) % 256 = 0
      /\ b \div 256 = 0 /\ b % 256 = b /\ 0 \div 256 = 0 /\ 0 % 256 = 0
      /\ (a * 256 + b) \div 256 = a /\ (a * 256 + b) % 256 = b
  OBVIOUS
<1>2. OrByte(a, 0) = a /\ OrByte(0, b) = b /\ OrByte(b, 0) = b
  BY OrByteZero
<1>3. Or(a * 256, b) = a * 256 + b
  BY <1>1, <1>2 DEF Or
<1>4. Or(a * 256 + b, 0) = a * 256 + b
  BY <1>1, <1>2 DEF Or
<1> QED BY <1>3, <1>4

\* Four bytes are joined as bytes.
LEMMA JoinBytes ==
  ASSUME NEW p, \A k \in 1..4 : p[k][1] = 0 /\ p[k][2] \in 0..255
  PROVE  Join(p) = << p[1][2] * 256 + p[2][2], p[3][2] * 256 + p[4][2] >>
<1> DEFINE a == p[1][2]
           b == p[2][2]
           c == p[3][2]
           d == p[4][2]
<1>1. /\ a \in 0..255 /\ b \in 0..255 /\ c \in 0..255 /\ d \in 0..255
      /\ p[3][1] = 0 /\ p[4][1] = 0 /\ p[1][1] = 0 /\ p[2][1] = 0
  OBVIOUS
<1>2. Join(p) = << Or(Or(Or((a % 256) * 256, b), (0 % 256) * 256 + (c \div 256)), 0),
                   Or((c % 256) * 256, d) >>
  BY <1>1 DEF Join
<1> HIDE DEF a, b, c, d
<1>3. /\ a % 256 = a /\ c % 256 = c /\ (0 % 256) * 256 + (c \div 256) = 0
  BY <1>1
<1>4. Or(Or(Or(a * 256, b), 0), 0) = a * 256 + b
  <2>1. Or(a * 256, b) = a * 256 + b /\ Or(a * 256 + b, 0) = a * 256 + b
    BY <1>1, OrBytes
  <2> DEFINE x == a * 256 + b
  <2>2. Or(a * 256, b) = x /\ Or(x, 0) = x
    BY <2>1
  <2> HIDE DEF x
  <2>3. Or(Or(Or(a * 256, b), 0), 0) = x
    BY <2>2
  <2> QED BY <2>3 DEF x
<1>5. Or(c * 256, d) = c * 256 + d
  BY <1>1, OrBytes
<1>6. Join(p) = << a * 256 + b, c * 256 + d >>
  BY <1>3, <1>4, <1>5, <1>2
<1> QED BY <1>6 DEF a, b, c, d

----------------------------------------------------------------------------
(***************************************************************************)
(* The loop over the parts.                                                 *)
(***************************************************************************)

\* The field the loop finds as its k-th: past the end of the text, an empty one.
FieldAt(k) == IF k <= Len(text) THEN text[k] ELSE EmptyText[1]

\* What the loop knows before it reads field i + 1: the parts are the values of
\* the fields so far, none of which was malformed.  And why there is a result:
\* the loop came through, or something was wrong with the text.
ReadSoFar ==
  /\ text \in Seq(Spelling) /\ Len(text) >= 1
  /\ i \in 0..4
  /\ parts \in Seq(Long) /\ Len(parts) = i
  /\ \A k \in 1..i : ~Stopped(FieldAt(k)) /\ parts[k] = Value(FieldAt(k))
  /\ i = 4 => Len(text) <= 4
  /\ \/ result = Pending
     \/ result = INADDR_NONE /\ ( \/ text = EmptyText \/ Len(text) > 4
                                 \/ \E k \in DOMAIN text : Stopped(text[k]))
     \/ result = Join(parts) /\ i = 4

LEMMA EmptyField == EmptyText[1] \in Spelling /\ ~Stopped(EmptyText[1])
<1>1. EmptyText[1].digits = << >> /\ EmptyText[1].base = 10 /\ EmptyText[1].junk = FALSE
  BY DEF EmptyText
<1>2. EmptyText[1] \in Field
  BY DEF EmptyText, Field
<1> QED BY <1>1, <1>2 DEF Spelling, Stopped

LEMMA FieldAtType ==
  ASSUME text \in Seq(Spelling), NEW k \in Nat, k >= 1
  PROVE  FieldAt(k) \in Spelling /\ FieldAt(k) \in Field
<1>1. FieldAt(k) \in Spelling
  BY EmptyField DEF FieldAt
<1> QED BY <1>1 DEF Spelling

LEMMA InitReadSoFar == Init => ReadSoFar
<1> SUFFICES ASSUME Init PROVE ReadSoFar
  OBVIOUS
<1>1. PICK n \in 1..MaxFields : text \in [1..n -> Fields]
  BY DEF Init, Texts
<1>2. n \in Nat /\ n >= 1
  BY <1>1, MaxFieldsAssumption
<1>3. text \in Seq(Spelling) /\ Len(text) = n
  BY <1>1, <1>2, FieldsAssumption
<1> QED BY <1>2, <1>3 DEF Init, ReadSoFar, Pending

LEMMA NextReadSoFar == ReadSoFar /\ [Next]_vars => ReadSoFar'
<1> SUFFICES ASSUME ReadSoFar, [Next]_vars PROVE ReadSoFar'
  OBVIOUS
<1>0. Len(text) \in Nat
  BY DEF ReadSoFar
<1>1. CASE Reject
  <2>1. UNCHANGED <<text, i, parts>> /\ result' = INADDR_NONE
    BY <1>1 DEF Reject
  <2>2. Len(text) > 4 \/ \E k \in DOMAIN text : Stopped(text[k])
    <3>1. CASE i = 3 /\ Len(text) > 4
      BY <3>1
    <3>2. CASE Stopped(Current)
      <4>1. i < Len(text)
        BY <3>2, EmptyField DEF Current
      <4>2. i + 1 \in DOMAIN text /\ Stopped(text[i + 1])
        BY <1>0, <3>2, <4>1 DEF Current, ReadSoFar
      <4> QED BY <4>2
    <3> QED BY <1>1, <3>1, <3>2 DEF Reject
  <2> QED BY <2>1, <2>2 DEF ReadSoFar, FieldAt
<1>2. CASE NextPart
  <2>1. /\ text' = text /\ result' = result /\ result = Pending
        /\ i' = i + 1 /\ i + 1 \in 1..4
        /\ parts' = Append(parts, Value(Current)) /\ ~Stopped(Current)
        /\ i = 3 => Len(text) <= 4
    BY <1>0, <1>2 DEF NextPart, ReadSoFar
  <2>2. Current = FieldAt(i + 1)
    BY <1>0 DEF Current, FieldAt, ReadSoFar
  <2>3. Value(Current) \in Long
    BY <2>1, <2>2, FieldAtType, ValueType DEF ReadSoFar
  <2>4. parts' \in Seq(Long) /\ Len(parts') = i + 1 /\ parts'[i + 1] = Value(Current)
    BY <2>1, <2>3 DEF ReadSoFar
  <2>5. ASSUME NEW k \in 1..(i + 1)
        PROVE  ~Stopped(FieldAt(k)) /\ parts'[k] = Value(FieldAt(k))
    <3>1. CASE k = i + 1
      BY <2>1, <2>2, <2>4, <3>1
    <3>2. CASE k # i + 1
      <4>1. k \in 1..i /\ parts'[k] = parts[k]
        BY <2>1, <2>3, <3>2 DEF ReadSoFar
      <4> QED BY <4>1 DEF ReadSoFar
    <3> QED BY <3>1, <3>2
  <2> QED BY <2>1, <2>4, <2>5 DEF ReadSoFar, FieldAt
<1>3. CASE Finish
  BY <1>3 DEF Finish, ReadSoFar, FieldAt
<1>4. CASE UNCHANGED vars
  BY <1>4 DEF vars, ReadSoFar, FieldAt
<1> QED BY <1>1, <1>2, <1>3, <1>4 DEF Next

LEMMA TextField ==
  ASSUME ReadSoFar, NEW k \in 1..Len(text)
  PROVE  text[k] \in Field
BY DEF ReadSoFar, Spelling

LEMMA SpecReadSoFar == Spec => []ReadSoFar
BY InitReadSoFar, NextReadSoFar, PTL DEF Spec

\* The parts are unsigned longs, as many as fields were read, and so is the
\* result (netinet.cpp:6-10).
THEOREM InetTypeCorrect == Spec => []TypeOK
<1>1. ReadSoFar => TypeOK
  <2> SUFFICES ASSUME ReadSoFar PROVE TypeOK
    OBVIOUS
  <2>1. Spelling \subseteq Field
    BY DEF Spelling
  <2>2. text \in Seq(Field)
    BY <2>1 DEF ReadSoFar
  <2>3. INADDR_NONE \in Long
    <3>1. Half - 1 \in 0..(Half - 1)
      BY DEF Half
    <3> QED BY <3>1, LongOf DEF INADDR_NONE
  <2> QED BY <2>2, <2>3, JoinType DEF ReadSoFar, TypeOK
<1> QED BY <1>1, SpecReadSoFar, PTL

\* A text with a wrong character anywhere, or with a dot too many, is rejected,
\* however far the loop came and whatever the fields before it are
\* (netinet.cpp:36-49).
THEOREM MalformedCorrect == Spec => []MalformedRejected
<1>1. ReadSoFar => MalformedRejected
  <2> SUFFICES ASSUME ReadSoFar, result # Pending, result # INADDR_NONE
               PROVE  ~(Len(text) > 4) /\ \A k \in DOMAIN text : Wellformed(text[k])
    BY DEF MalformedRejected
  <2>1. i = 4 /\ Len(text) <= 4 /\ Len(text) \in Nat
    BY DEF ReadSoFar
  <2>2. ASSUME NEW k \in DOMAIN text  PROVE Wellformed(text[k])
    <3>1. k \in 1..4 /\ FieldAt(k) = text[k]
      BY <2>1 DEF ReadSoFar, FieldAt
    <3>2. ~Stopped(text[k])
      BY <2>1, <3>1 DEF ReadSoFar
    <3>3. text[k] \in Field
      BY TextField
    <3> QED BY <3>2, <3>3 DEF Stopped, Wellformed, Field
  <2> QED BY <2>1, <2>2
<1> QED BY <1>1, SpecReadSoFar, PTL

\* The usual notation is read as usual, whatever the digits and the bases are:
\* a.b.c.d is the number whose bytes are a, b, c and d (netinet.cpp:16-57).
THEOREM DottedQuadCorrect == Spec => []DottedQuadRead
<1>1. ReadSoFar => DottedQuadRead
  <2> SUFFICES ASSUME ReadSoFar, Len(text) = 4, \A k \in 1..4 : Octet(text[k]),
                      result # Pending
               PROVE  result = << Spelled(text[1]) * 256 + Spelled(text[2]),
                                  Spelled(text[3]) * 256 + Spelled(text[4]) >>
    BY DEF DottedQuadRead
  <2>1. ASSUME NEW k \in 1..4
        PROVE  text[k] \in Field /\ Spelled(text[k]) < 256 /\ ~Stopped(text[k])
    <3>1. text[k] \in Field
      BY TextField
    <3>2. Wellformed(text[k]) /\ Spelled(text[k]) < 256
      BY DEF Octet
    <3>3. ~Stopped(text[k])
      <4> DEFINE f == text[k]
      <4>1. f \in Field /\ Wellformed(f)
        BY <3>1, <3>2
      <4> HIDE DEF f
      <4>2. ~Stopped(f)
        BY <4>1 DEF Wellformed, Stopped, Field
      <4> QED BY <4>2 DEF f
    <3> QED BY <3>1, <3>2, <3>3
  <2>2. text # EmptyText
    BY DEF EmptyText
  <2>3. result = Join(parts) /\ i = 4
    BY <2>1, <2>2 DEF ReadSoFar
  <2>4. ASSUME NEW k \in 1..4
        PROVE  Spelled(text[k]) \in 0..255 /\ parts[k] = << 0, Spelled(text[k]) >>
    <3>1. parts[k] = Value(text[k])
      BY <2>3 DEF ReadSoFar, FieldAt
    <3> QED BY <2>1, <3>1, ValueOfOctet
  <2>5. \A k \in 1..4 : parts[k][1] = 0 /\ parts[k][2] \in 0..255
    BY <2>4
  <2>6. Join(parts) = << parts[1][2] * 256 + parts[2][2], parts[3][2] * 256 + parts[4][2] >>
    BY <2>5, JoinBytes
  <2>7. /\ parts[1][2] = Spelled(text[1]) /\ parts[2][2] = Spelled(text[2])
        /\ parts[3][2] = Spelled(text[3]) /\ parts[4][2] = Spelled(text[4])
    BY <2>4
  <2> QED BY <2>3, <2>6, <2>7
<1> QED BY <1>1, SpecReadSoFar, PTL
=============================================================================
