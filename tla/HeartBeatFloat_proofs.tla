------------------------ MODULE HeartBeatFloat_proofs ------------------------
(***************************************************************************)
(* Proofs about HeartBeatFloat, for every ID and every number of beats:    *)
(* what the recursive functions compute, which ID a float names, and which *)
(* beats of a coupler are different floats.                                *)
(***************************************************************************)
EXTENDS HeartBeatFloat, WellFoundedInduction, TLAPS

-----------------------------------------------------------------------------
(* Induction over the naturals by sets of them, for the recursive functions. *)

\* Some numbers have a least one.
LEMMA LeastNumber ==
  ASSUME NEW T, T \subseteq Nat, T # {}
  PROVE  \E x \in T : \A y \in T : ~ y < x
<1> DEFINE R == {ss \in Nat \X Nat : ss[1] < ss[2]}
<1>1. IsWellFoundedOn(R, Nat)
  BY NatLessThanWellFounded, Zenon DEF OpToRel
<1>2. \A x, y \in Nat : <<y, x>> \in R <=> y < x
  OBVIOUS
<1> HIDE DEF R
<1>3. \E x \in T : \A y \in T : ~ (<<y, x>> \in R)
  BY <1>1, WFMin
<1> QED
  BY <1>2, <1>3

\* A set with 0 and the number after each of its numbers has every number.
LEMMA Induction ==
  ASSUME NEW T, 0 \in T, \A n \in Nat : n \in T => n + 1 \in T
  PROVE  \A n \in Nat : n \in T
<1> DEFINE U == {n \in Nat : n \notin T}
<1> SUFFICES ASSUME U # {}
             PROVE  FALSE
  OBVIOUS
<1>1. PICK x \in U : \A y \in U : ~ y < x
  <2>1. U \subseteq Nat
    OBVIOUS
  <2> HIDE DEF U
  <2> QED
    BY <2>1, LeastNumber
<1>2. x \in Nat /\ x \notin T /\ x # 0
  BY <1>1
<1>3. x - 1 \in Nat /\ x - 1 < x /\ (x - 1) + 1 = x
  BY <1>2
<1>4. x - 1 \in T
  BY <1>1, <1>3
<1> QED
  BY <1>2, <1>3, <1>4

-----------------------------------------------------------------------------
(* The powers of a base. *)

\* What the definition says of a function up to n.
Powers(f, base, n) == f = [k \in 0 .. n |-> IF k = 0 THEN 1 ELSE base * f[k - 1]]

LEMMA PowersMore ==
  ASSUME NEW base, NEW n \in Nat, NEW f, Powers(f, base, n)
  PROVE  \E g : Powers(g, base, n + 1)
<1> DEFINE g == [k \in 0 .. n + 1 |-> IF k \in 0 .. n THEN f[k] ELSE base * f[k - 1]]
<1>1. \A k \in 0 .. n : g[k] = f[k]
  OBVIOUS
<1>2. \A k \in 0 .. n : f[k] = IF k = 0 THEN 1 ELSE base * f[k - 1]
  BY Zenon DEF Powers
<1>3. \A k \in 0 .. n + 1 : g[k] = IF k = 0 THEN 1 ELSE base * g[k - 1]
  <2> SUFFICES ASSUME NEW k \in 0 .. n + 1
               PROVE  g[k] = IF k = 0 THEN 1 ELSE base * g[k - 1]
    OBVIOUS
  <2>1. k # 0 => k - 1 \in 0 .. n
    OBVIOUS
  <2>2. CASE k \in 0 .. n
    BY <1>1, <1>2, <2>1, <2>2
  <2>3. CASE k = n + 1
    BY <1>1, <2>1, <2>3
  <2> QED
    BY <2>2, <2>3
<1>4. g = [k \in 0 .. n + 1 |-> IF k = 0 THEN 1 ELSE base * g[k - 1]]
  BY <1>3
<1> QED
  BY <1>4 DEF Powers

\* The definition holds of the powers.
LEMMA PowerStep ==
  ASSUME NEW base
  PROVE  /\ Power(base)[0] = 1
         /\ \A k \in 1 .. 24 : Power(base)[k] = base * Power(base)[k - 1]
<1> DEFINE T == {m \in Nat : \E f : Powers(f, base, m)}
<1>1. 0 \in T
  <2> DEFINE f == [m \in 0 .. 0 |-> 1]
  <2>1. \A m \in 0 .. 0 : (IF m = 0 THEN 1 ELSE base * f[m - 1]) = 1
    <3>1. \A m \in 0 .. 0 : m = 0
      OBVIOUS
    <3> HIDE DEF f
    <3> QED
      BY <3>1
  <2>2. Powers(f, base, 0)
    BY <2>1, Zenon DEF Powers
  <2> QED
    BY <2>2
<1>2. \A m \in Nat : m \in T => m + 1 \in T
  BY PowersMore
<1> HIDE DEF T
<1>3. 24 \in T
  BY <1>1, <1>2, Induction
<1>4. \E f : Powers(f, base, 24)
  BY <1>3 DEF T
<1>5. Power(base) = CHOOSE f : Powers(f, base, 24)
  BY Zenon DEF Power, Powers
<1>6. Powers(Power(base), base, 24)
  BY <1>4, <1>5, Zenon
<1> DEFINE p == Power(base)
<1>7. \A k \in 0 .. 24 : p[k] = IF k = 0 THEN 1 ELSE base * p[k - 1]
  BY <1>6, Zenon DEF Powers
<1> HIDE DEF p
<1>8. p[0] = 1 /\ \A k \in 1 .. 24 : p[k] = base * p[k - 1]
  BY <1>7
<1> QED
  BY <1>8 DEF p

\* The powers are numbers from 1 on, and do not fall.
LEMMA PowerGrows ==
  ASSUME NEW base \in Nat, base >= 1
  PROVE  /\ \A k \in 0 .. 24 : Power(base)[k] \in Nat /\ Power(base)[k] >= 1
         /\ \A k \in 0 .. 24 : \A j \in 0 .. k : Power(base)[j] <= Power(base)[k]
<1> DEFINE p == Power(base)
<1>1. p[0] = 1 /\ \A k \in 1 .. 24 : p[k] = base * p[k - 1]
  BY PowerStep
<1> HIDE DEF p
<1> DEFINE T == {m \in Nat : m <= 24 => /\ p[m] \in Nat /\ p[m] >= 1
                                        /\ \A j \in 0 .. m : p[j] \in Nat /\ p[j] <= p[m]}
<1>2. 0 \in T
  <2>1. \A j \in 0 .. 0 : j = 0
    OBVIOUS
  <2> QED
    BY <1>1, <2>1
<1>3. ASSUME NEW m \in Nat, m \in T, m + 1 <= 24
      PROVE  /\ p[m + 1] \in Nat /\ p[m + 1] >= 1
             /\ \A j \in 0 .. m + 1 : p[j] \in Nat /\ p[j] <= p[m + 1]
  <2>1. /\ p[m] \in Nat /\ p[m] >= 1
        /\ \A j \in 0 .. m : p[j] \in Nat /\ p[j] <= p[m]
    BY <1>3
  <2>2. p[m + 1] = base * p[m]
    <3>1. m + 1 \in 1 .. 24 /\ (m + 1) - 1 = m
      BY <1>3
    <3> QED
      BY <1>1, <3>1
  <2>3. \A x, y \in Nat : x >= 1 => x * y \in Nat /\ x * y >= y
    OBVIOUS
  <2>4. p[m + 1] \in Nat /\ p[m + 1] >= p[m]
    BY <2>1, <2>2, <2>3
  <2>5. ASSUME NEW j \in 0 .. m + 1
        PROVE  p[j] \in Nat /\ p[j] <= p[m + 1]
    <3>1. CASE j = m + 1
      BY <2>4, <3>1
    <3>2. CASE j \in 0 .. m
      <4>1. p[j] \in Nat /\ p[j] <= p[m]
        BY <2>1, <3>2
      <4> QED
        BY <2>1, <2>4, <4>1
    <3> QED
      BY <3>1, <3>2
  <2> QED
    BY <2>1, <2>4, <2>5
<1>4. \A m \in Nat : m \in T => m + 1 \in T
  BY <1>3
<1> HIDE DEF T
<1>5. \A m \in Nat : m \in T
  BY <1>2, <1>4, Induction
<1>6. \A m \in 0 .. 24 : /\ p[m] \in Nat /\ p[m] >= 1
                         /\ \A j \in 0 .. m : p[j] <= p[m]
  BY <1>5 DEF T
<1> QED
  BY <1>6 DEF p

-----------------------------------------------------------------------------
(* The digits of a number, and the bits that the ID leaves. *)

\* Some number of digits is the one of n, and Digits(n) is it.
LEMMA DigitsAre ==
  ASSUME NEW n \in FloatBeat
  PROVE  /\ Digits(n) \in 1 .. 9
         /\ n < Power(10)[Digits(n)]
         /\ Digits(n) = 1 \/ n >= Power(10)[Digits(n) - 1]
<1> DEFINE p == Power(10)
<1>1. \A k \in 0 .. 24 : p[k] \in Nat
  BY PowerGrows
<1>2. n \in Nat /\ n < p[9]
  BY <1>1 DEF FloatBeat
<1> HIDE DEF p
<1> DEFINE T == {k \in 1 .. 9 : n < p[k]}
<1>3. PICK k \in T : \A j \in T : ~ j < k
  <2>1. T \subseteq Nat /\ 9 \in T
    BY <1>2
  <2> HIDE DEF T
  <2> QED
    BY <2>1, LeastNumber
<1>4. k \in 1 .. 9 /\ n < p[k]
  BY <1>3
<1>5. k = 1 \/ n >= p[k - 1]
  <2> SUFFICES ASSUME k # 1
               PROVE  n >= p[k - 1]
    OBVIOUS
  <2>1. k - 1 \in 1 .. 9 /\ k - 1 < k /\ k - 1 \in 0 .. 24
    BY <1>4
  <2>2. ~ n < p[k - 1]
    BY <1>3, <2>1
  <2> QED
    BY <1>1, <1>2, <2>1, <2>2 DEF p
<1>6. Digits(n) = CHOOSE d \in 1 .. 9 : n < p[d] /\ (d = 1 \/ n >= p[d - 1])
  BY Zenon DEF Digits, p
<1>7. Digits(n) \in 1 .. 9 /\ n < p[Digits(n)] /\ (Digits(n) = 1 \/ n >= p[Digits(n) - 1])
  BY <1>4, <1>5, <1>6, Zenon
<1> QED
  BY <1>7 DEF p

\* There is no other.
LEMMA DigitsOnly ==
  ASSUME NEW n \in FloatBeat, NEW k \in 1 .. 9,
         n < Power(10)[k], k = 1 \/ n >= Power(10)[k - 1]
  PROVE  Digits(n) = k
<1> DEFINE p == Power(10)
           j == Digits(n)
<1>1. j \in 1 .. 9 /\ n < p[j] /\ (j = 1 \/ n >= p[j - 1])
  BY DigitsAre
<1>2. /\ \A d \in 0 .. 24 : p[d] \in Nat
      /\ \A d \in 0 .. 24 : \A e \in 0 .. d : p[e] <= p[d]
  BY PowerGrows
<1>3. n < p[k] /\ (k = 1 \/ n >= p[k - 1]) /\ n \in Nat
  BY DEF FloatBeat
<1> HIDE DEF p, j
<1>4. ~ j < k
  <2> SUFFICES ASSUME j < k
               PROVE  FALSE
    OBVIOUS
  <2>1. k - 1 \in 0 .. 24 /\ j \in 0 .. k - 1 /\ k # 1 /\ j \in 0 .. 24
    BY <1>1
  <2>2. p[j] <= p[k - 1] /\ p[j] \in Nat /\ p[k - 1] \in Nat
    BY <1>2, <2>1
  <2> QED
    BY <1>1, <1>3, <2>1, <2>2
<1>5. ~ k < j
  <2> SUFFICES ASSUME k < j
               PROVE  FALSE
    OBVIOUS
  <2>1. j - 1 \in 0 .. 24 /\ k \in 0 .. j - 1 /\ j # 1 /\ k \in 0 .. 24
    BY <1>1
  <2>2. p[k] <= p[j - 1] /\ p[k] \in Nat /\ p[j - 1] \in Nat
    BY <1>2, <2>1
  <2> QED
    BY <1>1, <1>3, <2>1, <2>2
<1> QED
  BY <1>1, <1>4, <1>5 DEF j

\* The unit of a number is the unit of a later one or smaller.
LEMMA UnitsGrow ==
  ASSUME NEW last \in FloatBeat, NEW n \in 0 .. last
  PROVE  /\ n \in FloatBeat
         /\ Power(10)[Digits(n)] \in Nat
         /\ Power(10)[Digits(n)] >= 10
         /\ Power(10)[Digits(n)] <= Power(10)[Digits(last)]
<1> DEFINE p == Power(10)
           j == Digits(n)
           k == Digits(last)
<1>1. n \in FloatBeat /\ last \in Nat /\ n \in Nat /\ n <= last
  BY PowerGrows DEF FloatBeat
<1>2. j \in 1 .. 9 /\ (j = 1 \/ n >= p[j - 1])
  BY <1>1, DigitsAre
<1>3. k \in 1 .. 9 /\ last < p[k]
  BY DigitsAre
<1>4. /\ \A d \in 0 .. 24 : p[d] \in Nat
      /\ \A d \in 0 .. 24 : \A e \in 0 .. d : p[e] <= p[d]
  BY PowerGrows
<1>5. p[1] = 10
  BY PowerStep
<1> HIDE DEF p, j, k
<1>6. ~ k < j
  <2> SUFFICES ASSUME k < j
               PROVE  FALSE
    OBVIOUS
  <2>1. j - 1 \in 0 .. 24 /\ k \in 0 .. j - 1 /\ j # 1 /\ k \in 0 .. 24
    BY <1>2, <1>3
  <2>2. p[k] <= p[j - 1] /\ p[k] \in Nat /\ p[j - 1] \in Nat
    BY <1>4, <2>1
  <2> QED
    BY <1>1, <1>2, <1>3, <2>1, <2>2
<1>7. j \in 0 .. 24 /\ k \in 0 .. 24 /\ 1 \in 0 .. j /\ j \in 0 .. k
  BY <1>2, <1>3, <1>6
<1>8. p[j] \in Nat /\ p[1] <= p[j] /\ p[j] <= p[k]
  BY <1>4, <1>7
<1> QED
  BY <1>1, <1>5, <1>8 DEF p, j, k

\* The numbers that follow soon have the same unit, or the next one.
LEMMA NearUnit ==
  ASSUME NEW m \in FloatBeat, NEW n \in FloatBeat, m < n, n <= m + 6
  PROVE  LET unit == Power(10)[Digits(m)]
             next == Power(10)[Digits(n)]
         IN  next = unit \/ (n >= unit /\ next = 10 * unit)
<1> DEFINE p == Power(10)
           k == Digits(m)
<1>1. k \in 1 .. 9 /\ m < p[k] /\ (k = 1 \/ m >= p[k - 1]) /\ m \in Nat /\ n \in Nat
  BY DigitsAre DEF FloatBeat
<1>2. \A d \in 0 .. 24 : p[d] \in Nat
  BY PowerGrows
<1>3. \A d \in 1 .. 24 : p[d] = 10 * p[d - 1]
  BY PowerStep
<1>4. n < p[9]
  BY <1>2 DEF FloatBeat
<1>5. ASSUME NEW d \in 1 .. 9, n < p[d], d = 1 \/ n >= p[d - 1]
      PROVE  Digits(n) = d
  BY <1>5, DigitsOnly
<1>6. p[k] \in Nat /\ p[k] >= 10
  BY UnitsGrow DEF FloatBeat
<1> HIDE DEF p, k
<1>7. k # 1 => p[k - 1] \in Nat
  BY <1>1, <1>2
<1>8. CASE n < p[k]
  <2>1. k = 1 \/ n >= p[k - 1]
    BY <1>1, <1>7
  <2>2. Digits(n) = k
    BY <1>1, <1>8, <1>5, <2>1
  <2> QED
    BY <2>2 DEF p, k
<1>9. CASE n >= p[k]
  <2>1. k # 9
    BY <1>1, <1>4, <1>6, <1>9
  <2>2. k + 1 \in 1 .. 9 /\ k + 1 \in 1 .. 24 /\ (k + 1) - 1 = k
    BY <1>1, <2>1
  <2>3. p[k + 1] = 10 * p[k]
    BY <1>3, <2>2
  <2>4. n < p[k + 1]
    BY <1>1, <1>6, <2>3
  <2>5. Digits(n) = k + 1
    BY <1>9, <1>5, <2>2, <2>4
  <2> QED
    BY <1>9, <2>3, <2>5 DEF p, k
<1> QED
  BY <1>1, <1>6, <1>8, <1>9

\* The ID has its highest bit, and leaves the bits below the 24th.
LEMMA BitsLeft ==
  ASSUME NEW id \in FloatId
  PROVE  /\ FractionBits(id) \in 0 .. 23
         /\ One(id) \in Nat /\ One(id) >= 1
         /\ id \in Nat /\ id >= 1
<1> DEFINE p == Power(2)
<1>1. p[0] = 1 /\ \A k \in 1 .. 24 : p[k] = 2 * p[k - 1]
  BY PowerStep
<1>2. \A k \in 0 .. 24 : p[k] \in Nat /\ p[k] >= 1
  BY PowerGrows
<1>3. id \in 1 .. p[23]
  BY DEF FloatId
<1> HIDE DEF p
<1> DEFINE T == {e \in 0 .. 23 : id < p[e + 1]}
<1>4. p[24] = 2 * p[23] /\ p[23] \in Nat /\ p[23] >= 1
  BY <1>1, <1>2
<1>5. 23 \in T
  BY <1>3, <1>4
<1>6. PICK e \in T : \A j \in T : ~ j < e
  <2>1. T \subseteq Nat
    OBVIOUS
  <2> HIDE DEF T
  <2> QED
    BY <1>5, <2>1, LeastNumber
<1>7. e \in 0 .. 23 /\ id < p[e + 1]
  BY <1>6
<1>8. p[e] <= id
  <2>1. CASE e = 0
    BY <1>1, <1>3, <2>1
  <2>2. CASE e # 0
    <3>1. e - 1 \in 0 .. 23 /\ e - 1 < e /\ (e - 1) + 1 = e /\ e \in 0 .. 24
      BY <1>7, <2>2
    <3>2. ~ id < p[(e - 1) + 1]
      BY <1>6, <3>1
    <3> QED
      BY <1>2, <1>3, <1>4, <3>1, <3>2
  <2> QED
    BY <2>1, <2>2
<1> DEFINE top == CHOOSE d \in 0 .. 23 : p[d] <= id /\ id < p[d + 1]
<1>9. top \in 0 .. 23
  BY <1>7, <1>8, Zenon
<1>10. FractionBits(id) = 23 - top
  BY Zenon DEF FractionBits, p
<1> HIDE DEF top
<1>11. FractionBits(id) \in 0 .. 23 /\ FractionBits(id) \in 0 .. 24
  BY <1>9, <1>10
<1> QED
  BY <1>2, <1>3, <1>4, <1>11 DEF One, p

-----------------------------------------------------------------------------
(* The long division. *)

\* The next bit of a division.
Bit(before, unit) ==
  LET twice == 2 * before.rest
  IN  IF twice >= unit
        THEN [quotient |-> 2 * before.quotient + 1, rest |-> twice - unit]
        ELSE [quotient |-> 2 * before.quotient, rest |-> twice]

\* What the definition says of a function on the first m bits.
Divides(f, n, unit, m) ==
  f = [b \in 0 .. m |-> IF b = 0 THEN [quotient |-> 0, rest |-> n] ELSE Bit(f[b - 1], unit)]

LEMMA DividesMore ==
  ASSUME NEW n, NEW unit, NEW m \in Nat, NEW f, Divides(f, n, unit, m)
  PROVE  \E g : Divides(g, n, unit, m + 1)
<1> DEFINE g == [b \in 0 .. m + 1 |-> IF b \in 0 .. m THEN f[b] ELSE Bit(f[b - 1], unit)]
           start == [quotient |-> 0, rest |-> n]
<1> HIDE DEF start
<1>1. \A b \in 0 .. m : g[b] = f[b]
  OBVIOUS
<1>2. \A b \in 0 .. m : f[b] = IF b = 0 THEN start ELSE Bit(f[b - 1], unit)
  BY Zenon DEF Divides, start
<1>3. \A b \in 0 .. m + 1 : g[b] = IF b = 0 THEN start ELSE Bit(g[b - 1], unit)
  <2> SUFFICES ASSUME NEW b \in 0 .. m + 1
               PROVE  g[b] = IF b = 0 THEN start ELSE Bit(g[b - 1], unit)
    OBVIOUS
  <2>1. b # 0 => b - 1 \in 0 .. m
    OBVIOUS
  <2>2. CASE b \in 0 .. m
    BY <1>1, <1>2, <2>1, <2>2
  <2>3. CASE b = m + 1
    BY <1>1, <2>1, <2>3
  <2> QED
    BY <2>2, <2>3
<1>4. g = [b \in 0 .. m + 1 |-> IF b = 0 THEN start ELSE Bit(g[b - 1], unit)]
  BY <1>3
<1> QED
  BY <1>4 DEF Divides, start

\* The definition holds of the division.
LEMMA DividedStep ==
  ASSUME NEW n, NEW unit, NEW bits \in Nat
  PROVE  /\ Divided(n, unit, bits)[0] = [quotient |-> 0, rest |-> n]
         /\ \A b \in 1 .. bits :
              Divided(n, unit, bits)[b] = Bit(Divided(n, unit, bits)[b - 1], unit)
<1> DEFINE T == {m \in Nat : \E f : Divides(f, n, unit, m)}
           start == [quotient |-> 0, rest |-> n]
<1>1. 0 \in T
  <2> DEFINE f == [b \in 0 .. 0 |-> start]
  <2>1. \A b \in 0 .. 0 : (IF b = 0 THEN start ELSE Bit(f[b - 1], unit)) = start
    <3>1. \A b \in 0 .. 0 : b = 0
      OBVIOUS
    <3> HIDE DEF f, start
    <3> QED
      BY <3>1
  <2>2. Divides(f, n, unit, 0)
    BY <2>1, Zenon DEF Divides
  <2> QED
    BY <2>2
<1>2. \A m \in Nat : m \in T => m + 1 \in T
  BY DividesMore
<1> HIDE DEF T
<1>4. \E f : Divides(f, n, unit, bits)
  <2>1. bits \in T
    BY <1>1, <1>2, Induction
  <2> QED
    BY <2>1 DEF T
<1>5. Divided(n, unit, bits) = CHOOSE f : Divides(f, n, unit, bits)
  BY Zenon DEF Divided, Divides, Bit
<1>6. Divides(Divided(n, unit, bits), n, unit, bits)
  BY <1>4, <1>5, Zenon
<1> DEFINE d == Divided(n, unit, bits)
<1>7. \A b \in 0 .. bits : d[b] = IF b = 0 THEN start ELSE Bit(d[b - 1], unit)
  BY <1>6, Zenon DEF Divides
<1> HIDE DEF d, start
<1>8. d[0] = start /\ \A b \in 1 .. bits : d[b] = Bit(d[b - 1], unit)
  BY <1>7
<1> QED
  BY <1>8 DEF d, start

\* One more bit doubles what is divided.
LEMMA BitDivides ==
  ASSUME NEW unit \in Nat, NEW before, before.quotient \in Nat, before.rest \in Nat,
         before.rest < unit
  PROVE  /\ Bit(before, unit).quotient \in Nat
         /\ Bit(before, unit).rest \in Nat
         /\ Bit(before, unit).rest < unit
         /\ Bit(before, unit).quotient * unit + Bit(before, unit).rest
              = 2 * (before.quotient * unit + before.rest)
<1> DEFINE q == before.quotient
           r == before.rest
<1>1. CASE 2 * r >= unit
  <2>1. Bit(before, unit) = [quotient |-> 2 * q + 1, rest |-> 2 * r - unit]
    BY <1>1 DEF Bit
  <2>2. Bit(before, unit).quotient = 2 * q + 1 /\ Bit(before, unit).rest = 2 * r - unit
    BY <2>1
  <2> HIDE DEF q, r
  <2>3. ASSUME q \in Nat, r \in Nat, r < unit
        PROVE  /\ 2 * q + 1 \in Nat /\ 2 * r - unit \in Nat /\ 2 * r - unit < unit
               /\ (2 * q + 1) * unit + (2 * r - unit) = 2 * (q * unit + r)
    BY <1>1, <2>3
  <2> QED
    BY <2>2, <2>3 DEF q, r
<1>2. CASE ~ 2 * r >= unit
  <2>1. Bit(before, unit) = [quotient |-> 2 * q, rest |-> 2 * r]
    BY <1>2 DEF Bit
  <2>2. Bit(before, unit).quotient = 2 * q /\ Bit(before, unit).rest = 2 * r
    BY <2>1
  <2> HIDE DEF q, r
  <2>3. ASSUME q \in Nat, r \in Nat, r < unit
        PROVE  /\ 2 * q \in Nat /\ 2 * r \in Nat /\ 2 * r < unit
               /\ (2 * q) * unit + 2 * r = 2 * (q * unit + r)
    BY <1>2, <2>3
  <2> QED
    BY <2>2, <2>3 DEF q, r
<1> QED
  BY <1>1, <1>2

\* After all the bits, n times their power of two is divided by the unit.
LEMMA DividedIs ==
  ASSUME NEW n \in Nat, NEW unit \in Nat, n < unit, NEW bits \in 0 .. 23
  PROVE  /\ Divided(n, unit, bits)[bits].quotient \in Nat
         /\ Divided(n, unit, bits)[bits].rest \in Nat
         /\ Divided(n, unit, bits)[bits].rest < unit
         /\ n * Power(2)[bits] = Divided(n, unit, bits)[bits].quotient * unit
                                   + Divided(n, unit, bits)[bits].rest
<1> DEFINE d == Divided(n, unit, bits)
           p == Power(2)
<1>1. /\ d[0] = [quotient |-> 0, rest |-> n]
      /\ \A b \in 1 .. bits : d[b] = Bit(d[b - 1], unit)
  BY DividedStep
<1>2. /\ p[0] = 1
      /\ \A k \in 1 .. 24 : p[k] = 2 * p[k - 1]
      /\ \A k \in 0 .. 24 : p[k] \in Nat
  BY PowerStep, PowerGrows
<1>3. bits \in Nat
  OBVIOUS
<1> HIDE DEF d, p
<1> DEFINE Right(b) == /\ d[b].quotient \in Nat /\ d[b].rest \in Nat /\ d[b].rest < unit
                       /\ n * p[b] = d[b].quotient * unit + d[b].rest
           T == {b \in Nat : b <= bits => Right(b)}
<1>4. 0 \in T
  <2>1. d[0].quotient = 0 /\ d[0].rest = n
    BY <1>1
  <2>2. n * p[0] = 0 * unit + n
    BY <1>2
  <2>3. Right(0)
    BY <2>1, <2>2
  <2> HIDE DEF Right
  <2> QED
    BY <2>3
<1>5. ASSUME NEW b \in Nat, b \in T, b + 1 <= bits
      PROVE  Right(b + 1)
  <2>1. Right(b)
    BY <1>3, <1>5
  <2>2. d[b + 1] = Bit(d[b], unit) /\ p[b + 1] = 2 * p[b] /\ p[b] \in Nat
    <3>1. b + 1 \in 1 .. bits /\ b + 1 \in 1 .. 24 /\ (b + 1) - 1 = b /\ b \in 0 .. 24
      BY <1>3, <1>5
    <3> QED
      BY <1>1, <1>2, <3>1
  <2>3. /\ d[b + 1].quotient \in Nat /\ d[b + 1].rest \in Nat /\ d[b + 1].rest < unit
        /\ d[b + 1].quotient * unit + d[b + 1].rest = 2 * (d[b].quotient * unit + d[b].rest)
    BY <2>1, <2>2, BitDivides
  <2>4. n * p[b + 1] = 2 * (n * p[b])
    BY <2>2
  <2> QED
    BY <2>1, <2>3, <2>4
<1>6. \A b \in Nat : b \in T => b + 1 \in T
  BY <1>3, <1>5
<1> HIDE DEF T
<1>7. bits \in T
  BY <1>3, <1>4, <1>6, Induction
<1>8. Right(bits)
  BY <1>3, <1>7 DEF T
<1> QED
  BY <1>8 DEF d, p

-----------------------------------------------------------------------------
(* The fraction after the ID. *)

Unit(n) == Power(10)[Digits(n)]

\* v is q, or the number after it when the rest r is half of u or more.
Nearest(v, q, r, u) == (v = q /\ 2 * r <= u) \/ (v = q + 1 /\ 2 * r >= u)

\* The fraction is n over its unit, in units of the last place.
LEMMA FractionIs ==
  ASSUME NEW id \in FloatId, NEW n \in FloatBeat
  PROVE  /\ n \in Nat /\ Unit(n) \in Nat /\ Unit(n) >= 10 /\ n < Unit(n)
         /\ \E q, r \in Nat : /\ r < Unit(n)
                              /\ n * One(id) = q * Unit(n) + r
                              /\ Nearest(Fraction(id, n), q, r, Unit(n))
<1> DEFINE exact == Divided(n, Unit(n), FractionBits(id))[FractionBits(id)]
           q == exact.quotient
           r == exact.rest
<1>0. n \in 0 .. n /\ n \in Nat
  BY DEF FloatBeat
<1>1. n \in Nat /\ Unit(n) \in Nat /\ Unit(n) >= 10 /\ n < Unit(n)
  BY <1>0, DigitsAre, UnitsGrow DEF Unit
<1>2. q \in Nat /\ r \in Nat /\ r < Unit(n) /\ n * One(id) = q * Unit(n) + r
  BY <1>1, BitsLeft, DividedIs DEF One
<1>3. Fraction(id, n) = IF \/ 2 * r > Unit(n)
                           \/ 2 * r = Unit(n) /\ q % 2 = 1
                        THEN q + 1 ELSE q
  BY DEF Fraction, Rounded, Unit
<1> HIDE DEF q, r
<1>4. Nearest(Fraction(id, n), q, r, Unit(n))
  BY <1>1, <1>2, <1>3 DEF Nearest
<1> QED
  BY <1>1, <1>2, <1>4

\* A fraction is at most 1, and it is less if the step below 1 is more than half a
\* unit in the last place.
LEMMA AtMostOne ==
  ASSUME NEW n \in Nat, NEW s \in Nat, NEW u \in Nat, NEW q \in Nat, NEW r \in Nat, NEW v,
         s >= 1, n < u, r < u, n * s = q * u + r, Nearest(v, q, r, u)
  PROVE  /\ v \in 0 .. s
         /\ u < 2 * s => v \in 0 .. s - 1
<1>1. n * s <= u * s - s
  <2>1. n + 1 <= u
    OBVIOUS
  <2>2. (n + 1) * s <= u * s
    BY <2>1
  <2>3. (n + 1) * s = n * s + s
    OBVIOUS
  <2> QED
    BY <2>2, <2>3
<1>2. q < s
  <2> SUFFICES ASSUME q >= s
               PROVE  FALSE
    OBVIOUS
  <2>1. q * u >= s * u
    OBVIOUS
  <2> QED
    BY <1>1, <2>1
<1>3. v \in 0 .. s
  BY <1>2 DEF Nearest
<1>4. ASSUME u < 2 * s
      PROVE  v \in 0 .. s - 1
  <2>1. CASE q = s - 1
    <3>1. q * u = s * u - u
      BY <2>1
    <3>2. r <= u - s
      BY <1>1, <3>1
    <3>3. 2 * r < u
      BY <1>4, <3>2
    <3> QED
      BY <1>2, <3>3 DEF Nearest
  <2>2. CASE q < s - 1
    BY <2>2 DEF Nearest
  <2> QED
    BY <1>2, <2>1, <2>2
<1> QED
  BY <1>3, <1>4

\* A beat is not rounded to the ID alone when its unit fits.
LEMMA AtLeastOne ==
  ASSUME NEW n \in Nat, NEW s \in Nat, NEW u \in Nat, NEW q \in Nat, NEW r \in Nat, NEW v,
         u <= s, n >= 1, r < u, n * s = q * u + r, Nearest(v, q, r, u)
  PROVE  v \in Nat /\ v >= 1
<1>1. n * s >= s
  OBVIOUS
<1>2. q # 0
  <2> SUFFICES ASSUME q = 0
               PROVE  FALSE
    OBVIOUS
  <2>1. q * u = 0
    OBVIOUS
  <2> QED
    BY <1>1, <2>1
<1> QED
  BY <1>2 DEF Nearest

\* Two numbers over the same unit.
LEMMA SameUnitDiffers ==
  ASSUME NEW m \in Nat, NEW n \in Nat, NEW s \in Nat, NEW u \in Nat, u <= s, m < n,
         NEW q \in Nat, NEW r \in Nat, NEW v, r < u, m * s = q * u + r, Nearest(v, q, r, u),
         NEW q2 \in Nat, NEW r2 \in Nat, NEW v2, r2 < u, n * s = q2 * u + r2,
         Nearest(v2, q2, r2, u)
  PROVE  v # v2
<1>1. q2 * u + r2 >= q * u + r + s
  <2>1. m + 1 <= n
    OBVIOUS
  <2>2. (m + 1) * s <= n * s
    BY <2>1
  <2>3. (m + 1) * s = m * s + s
    OBVIOUS
  <2> QED
    BY <2>2, <2>3
<1>2. q2 >= q + 1
  <2> SUFFICES ASSUME q2 <= q
               PROVE  FALSE
    OBVIOUS
  <2>1. q2 * u <= q * u
    OBVIOUS
  <2> QED
    BY <1>1, <2>1
<1>3. CASE q2 >= q + 2
  BY <1>3 DEF Nearest
<1>4. CASE q2 = q + 1
  <2>1. q2 * u = q * u + u
    BY <1>4
  <2>2. r2 >= r + s - u
    BY <1>1, <2>1
  <2> SUFFICES ASSUME v = v2
               PROVE  FALSE
    OBVIOUS
  <2>3. v = q + 1 /\ v2 = q2 /\ 2 * r >= u /\ 2 * r2 <= u
    BY <1>4 DEF Nearest
  <2>4. s = u /\ 2 * r = u
    BY <2>2, <2>3
  <2>5. (m - q) * u = r
    BY <2>4
  <2>6. m - q >= 1 \/ m - q <= 0
    OBVIOUS
  <2>7. m - q >= 1 => (m - q) * u >= u
    OBVIOUS
  <2>8. m - q <= 0 => (m - q) * u <= 0
    OBVIOUS
  <2> QED
    BY <2>4, <2>5, <2>6, <2>7, <2>8
<1> QED
  BY <1>2, <1>3, <1>4

\* One of the last numbers over a unit and one of the first over the next one.
LEMMA NextUnitDiffers ==
  ASSUME NEW m \in Nat, NEW n \in Nat, NEW s \in Nat, NEW u \in Nat,
         u >= 10, 10 * u <= s, m < u, u <= n, n <= m + 6,
         NEW q \in Nat, NEW r \in Nat, NEW v, r < u, m * s = q * u + r, Nearest(v, q, r, u),
         NEW q2 \in Nat, NEW r2 \in Nat, NEW v2, n * s = q2 * (10 * u) + r2,
         Nearest(v2, q2, r2, 10 * u)
  PROVE  v # v2
<1>1. 20 * q2 <= 3 * s
  <2> SUFFICES ASSUME 20 * q2 > 3 * s
               PROVE  FALSE
    OBVIOUS
  <2>1. 2 * n <= 3 * u
    OBVIOUS
  <2>2. (2 * n) * s <= (3 * u) * s
    BY <2>1
  <2>3. (20 * q2) * u > (3 * s) * u
    OBVIOUS
  <2>4. (2 * n) * s = (20 * q2) * u + 2 * r2
    <3>1. (2 * n) * s = 2 * (n * s)
      OBVIOUS
    <3>2. 2 * (q2 * (10 * u) + r2) = (20 * q2) * u + 2 * r2
      OBVIOUS
    <3> QED
      BY <3>1, <3>2
  <2>5. (3 * u) * s = (3 * s) * u
    OBVIOUS
  <2> QED
    BY <2>2, <2>3, <2>4, <2>5
<1>2. 10 * q > 4 * s - 10
  <2> SUFFICES ASSUME 10 * q <= 4 * s - 10
               PROVE  FALSE
    OBVIOUS
  <2>1. (10 * q) * u <= (4 * s - 10) * u
    OBVIOUS
  <2>2. 10 * m >= 4 * u
    OBVIOUS
  <2>3. (10 * m) * s >= (4 * u) * s
    BY <2>2
  <2>4. (10 * m) * s = (10 * q) * u + 10 * r
    <3>1. (10 * m) * s = 10 * (m * s)
      OBVIOUS
    <3>2. 10 * (q * u + r) = (10 * q) * u + 10 * r
      OBVIOUS
    <3> QED
      BY <3>1, <3>2
  <2>5. (4 * s - 10) * u = (4 * u) * s - 10 * u
    OBVIOUS
  <2> QED
    BY <2>1, <2>3, <2>4, <2>5
<1>3. q > q2 + 1
  BY <1>1, <1>2
<1> QED
  BY <1>3 DEF Nearest

-----------------------------------------------------------------------------
(* The float. *)

\* The parts of a float, for a fraction of at most 1.
LEMMA PartsAre ==
  ASSUME NEW id \in Nat, NEW s \in Nat, s >= 1, NEW v \in 0 .. s
  PROVE  /\ v < s => id + v \div s = id /\ v % s = v
         /\ v = s => id + v \div s = id + 1 /\ v % s = 0
<1>1. v < s => v \div s = 0 /\ v % s = v
  OBVIOUS
<1>2. s \div s = 1 /\ s % s = 0
  OBVIOUS
<1> QED
  BY <1>1, <1>2

\* A float is its ID and a fraction below 1, or the next ID.
LEMMA FloatIs ==
  ASSUME NEW id \in FloatId, NEW n \in FloatBeat
  PROVE  /\ Fraction(id, n) \in 0 .. One(id)
         /\ \/ /\ Fraction(id, n) < One(id)
               /\ strtof(id, n) = [whole |-> id, fraction |-> Fraction(id, n)]
            \/ /\ Fraction(id, n) = One(id)
               /\ strtof(id, n) = [whole |-> id + 1, fraction |-> 0]
<1> DEFINE v == Fraction(id, n)
           s == One(id)
<1>1. s \in Nat /\ s >= 1 /\ id \in Nat
  BY BitsLeft
<1>2. n \in Nat /\ Unit(n) \in Nat /\ n < Unit(n)
  BY FractionIs
<1>3. PICK q, r \in Nat : r < Unit(n) /\ n * s = q * Unit(n) + r /\ Nearest(v, q, r, Unit(n))
  BY FractionIs
<1>4. strtof(id, n) = [whole |-> id + v \div s, fraction |-> v % s]
  BY Zenon DEF strtof
<1> HIDE DEF v, s
<1>5. v \in 0 .. s
  BY <1>1, <1>2, <1>3, AtMostOne
<1>6. v < s \/ v = s
  BY <1>1, <1>5
<1>7. ASSUME v < s
      PROVE  strtof(id, n) = [whole |-> id, fraction |-> v]
  <2>1. id + v \div s = id /\ v % s = v
    BY <1>1, <1>5, <1>7, PartsAre
  <2> QED
    BY <1>4, <2>1
<1>8. ASSUME v = s
      PROVE  strtof(id, n) = [whole |-> id + 1, fraction |-> 0]
  <2>1. id + v \div s = id + 1 /\ v % s = 0
    BY <1>1, <1>5, <1>8, PartsAre
  <2> QED
    BY <1>4, <2>1
<1> QED
  BY <1>5, <1>6, <1>7, <1>8 DEF v, s

\* A float names its ID or the next one, and then has no fraction.
LEMMA FloatNames ==
  ASSUME NEW id \in FloatId, NEW n \in FloatBeat
  PROVE  /\ Sender(strtof(id, n)) \in {id, id + 1}
         /\ Sender(strtof(id, n)) = id + 1 => strtof(id, n).fraction = 0
BY FloatIs, BitsLeft DEF Sender

\* A float of a beat that stays below the next ID names its ID.
LEMMA FloatStaysBelow ==
  ASSUME NEW id \in FloatId, NEW last \in FloatBeat, NEW n \in 0 .. last,
         BeatsStayBelow(id, last)
  PROVE  Sender(strtof(id, n)) = id
<1>1. n \in FloatBeat /\ Unit(n) <= Unit(last) /\ Unit(last) < 2 * One(id)
  BY UnitsGrow DEF Unit, BeatsStayBelow
<1>2. One(id) \in Nat /\ One(id) >= 1 /\ Unit(last) \in Nat
  BY BitsLeft, FractionIs
<1>3. n \in Nat /\ Unit(n) \in Nat /\ n < Unit(n) /\ Unit(n) < 2 * One(id)
  BY <1>1, <1>2, FractionIs
<1>4. PICK q, r \in Nat : /\ r < Unit(n) /\ n * One(id) = q * Unit(n) + r
                          /\ Nearest(Fraction(id, n), q, r, Unit(n))
  BY <1>1, FractionIs
<1>5. Fraction(id, n) \in 0 .. One(id) - 1
  BY <1>2, <1>3, <1>4, AtMostOne
<1>6. Fraction(id, n) # One(id)
  BY <1>2, <1>5
<1> QED
  BY <1>1, <1>6, FloatIs DEF Sender

\* A beat that fits has a fraction below 1 that is not 0, so that its float is none
\* of another coupler.
LEMMA FloatFits ==
  ASSUME NEW id \in FloatId, NEW last \in FloatBeat, NEW n \in 0 .. last, n # 0,
         BeatsFit(id, last)
  PROVE  /\ n \in FloatBeat
         /\ strtof(id, n) = [whole |-> id, fraction |-> Fraction(id, n)]
         /\ Fraction(id, n) \in Nat /\ Fraction(id, n) # 0
<1>1. n \in FloatBeat /\ Unit(n) <= Unit(last) /\ Unit(last) <= One(id)
  BY UnitsGrow DEF Unit, BeatsFit
<1>2. One(id) \in Nat /\ One(id) >= 1 /\ Unit(last) \in Nat
  BY BitsLeft, FractionIs
<1>3. /\ n \in Nat /\ n >= 1 /\ Unit(n) \in Nat /\ n < Unit(n)
      /\ Unit(n) <= One(id) /\ Unit(n) < 2 * One(id)
  BY <1>1, <1>2, FractionIs
<1>4. PICK q, r \in Nat : /\ r < Unit(n) /\ n * One(id) = q * Unit(n) + r
                          /\ Nearest(Fraction(id, n), q, r, Unit(n))
  BY <1>1, FractionIs
<1>5. Fraction(id, n) \in 0 .. One(id) - 1
  BY <1>2, <1>3, <1>4, AtMostOne
<1>6. Fraction(id, n) >= 1
  BY <1>3, <1>2, <1>4, AtLeastOne
<1> QED
  BY <1>1, <1>2, <1>5, <1>6, FloatIs

LEMMA OtherFloatDiffers ==
  ASSUME NEW id \in FloatId, NEW last \in FloatBeat, NEW n \in 0 .. last, n # 0,
         BeatsFit(id, last), NEW other \in FloatId, other # id, NEW m \in FloatBeat
  PROVE  strtof(id, n) # strtof(other, m)
<1>1. strtof(id, n).whole = id /\ strtof(id, n).fraction # 0
  BY FloatFits
<1>2. \/ strtof(other, m).whole = other
      \/ strtof(other, m).fraction = 0
  BY FloatNames DEF Sender
<1> QED
  BY <1>1, <1>2

\* Two beats of a coupler that fit and are at most six apart are different floats.
\* At nine apart they need not be: 100.1 is 100.10.
LEMMA NearBeatsDiffer ==
  ASSUME NEW id \in FloatId, NEW last \in FloatBeat, NEW m \in 0 .. last, NEW n \in 0 .. last,
         m # 0, m < n, n <= m + 6, BeatsFit(id, last)
  PROVE  strtof(id, m) # strtof(id, n)
<1> DEFINE s == One(id)
<1>1. /\ m \in FloatBeat /\ Unit(m) <= Unit(last)
      /\ n \in FloatBeat /\ Unit(n) <= Unit(last)
      /\ Unit(last) <= s
  BY UnitsGrow DEF Unit, BeatsFit
<1>2. s \in Nat /\ Unit(last) \in Nat
  BY BitsLeft, FractionIs
<1>3. /\ m \in Nat /\ Unit(m) \in Nat /\ Unit(m) >= 10 /\ m < Unit(m) /\ Unit(m) <= s
      /\ n \in Nat /\ Unit(n) \in Nat /\ Unit(n) <= s
  BY <1>1, <1>2, FractionIs
<1>4. PICK q, r \in Nat : /\ r < Unit(m) /\ m * s = q * Unit(m) + r
                          /\ Nearest(Fraction(id, m), q, r, Unit(m))
  BY <1>1, FractionIs
<1>5. PICK q2, r2 \in Nat : /\ r2 < Unit(n) /\ n * s = q2 * Unit(n) + r2
                            /\ Nearest(Fraction(id, n), q2, r2, Unit(n))
  BY <1>1, FractionIs
<1>6. Unit(n) = Unit(m) \/ (n >= Unit(m) /\ Unit(n) = 10 * Unit(m))
  BY <1>1, NearUnit DEF Unit
<1> HIDE DEF s
<1>7. ASSUME Unit(n) = Unit(m)
      PROVE  Fraction(id, m) # Fraction(id, n)
  <2>1. /\ r2 < Unit(m) /\ n * s = q2 * Unit(m) + r2
        /\ Nearest(Fraction(id, n), q2, r2, Unit(m))
    BY <1>5, <1>7
  <2> QED
    BY <1>2, <1>3, <1>4, <2>1, SameUnitDiffers, ZenonT(30)
<1>8. ASSUME n >= Unit(m), Unit(n) = 10 * Unit(m)
      PROVE  Fraction(id, m) # Fraction(id, n)
  <2>1. /\ n * s = q2 * (10 * Unit(m)) + r2
        /\ Nearest(Fraction(id, n), q2, r2, 10 * Unit(m))
        /\ 10 * Unit(m) <= s
    BY <1>3, <1>5, <1>8
  <2> QED
    BY <1>2, <1>3, <1>4, <1>8, <2>1, NextUnitDiffers
<1>9. Fraction(id, m) # Fraction(id, n)
  BY <1>6, <1>7, <1>8
<1>10. n # 0
  BY <1>3
<1> QED
  BY <1>9, <1>10, FloatFits
=============================================================================
