--------------------------- MODULE HeartBeatFloat ---------------------------
(***************************************************************************)
(* The heart beat as a number.  A coupler publishes the decimal text        *)
(* "<ID>.<beats>" read back as a 32-bit float; a subscriber takes the       *)
(* integer part for the ID.                                                *)
(*                                                                         *)
(* Sources: callbackTicHeartBeat of coupler/keep_alive_publisher.h and the  *)
(* first lines of dataChangeNotificationCallback of                         *)
(* coupler/keep_alive_subscriber.h.                                         *)
(*                                                                         *)
(* A float is held as its integer part and the number of units in the last  *)
(* place that follow it, so the rounding of strtof is exact here.  The ID   *)
(* gives the binade; the first float of the next one, to which a beat may   *)
(* be rounded, has no fraction.  Two floats are equal exactly when their    *)
(* records are.                                                            *)
(***************************************************************************)
EXTENDS Integers

\* The powers of a base.
Power(base) ==
  LET power[k \in 0 .. 24] == IF k = 0 THEN 1 ELSE base * power[k - 1] IN power

\* IDs that a float holds exactly, with the next one, and the beats of nine digits.
FloatId == 1 .. Power(2)[23]
FloatBeat == 0 .. Power(10)[9] - 1

\* Mutant: the beats are padded to six digits.
DigitsPadded(n) == 6

\* snprintf("%d"): how many digits follow the point.
Digits(n) ==
  CHOOSE k \in 1 .. 9 : n < Power(10)[k] /\ (k = 1 \/ n >= Power(10)[k - 1])

\* A float has 24 significant bits; those that the ID leaves are fractional.
FractionBits(id) ==
  23 - (CHOOSE e \in 0 .. 23 : Power(2)[e] <= id /\ id < Power(2)[e + 1])

\* The units in the last place of 1.0 there.
One(id) == Power(2)[FractionBits(id)]

\* Binary long division of n by unit: quotient and rest after each bit.
Divided(n, unit, bits) ==
  LET bit[b \in 0 .. bits] ==
        IF b = 0 THEN [quotient |-> 0, rest |-> n]
        ELSE LET before == bit[b - 1]
                 twice == 2 * before.rest
             IN  IF twice >= unit
                   THEN [quotient |-> 2 * before.quotient + 1, rest |-> twice - unit]
                   ELSE [quotient |-> 2 * before.quotient, rest |-> twice]
  IN  bit

\* Round to nearest, ties to even.
Rounded(exact, unit) ==
  IF \/ 2 * exact.rest > unit
     \/ 2 * exact.rest = unit /\ exact.quotient % 2 = 1
  THEN exact.quotient + 1
  ELSE exact.quotient

\* What follows the ID, in units of the last place.
Fraction(id, n) ==
  LET unit == Power(10)[Digits(n)]
  IN  Rounded(Divided(n, unit, FractionBits(id))[FractionBits(id)], unit)

\* strtof("<id>.<n>")
strtof(id, n) ==
  LET fraction == Fraction(id, n)
  IN  [whole |-> id + fraction \div One(id), fraction |-> fraction % One(id)]

\* UA_Float defaultFloat = 0.0
ZERO == [whole |-> 0, fraction |-> 0]

\* Mutant: the conversion to int rounds up.
SenderRounded(value) == IF value.fraction > 0 THEN value.whole + 1 ELSE value.whole

\* coupler_id = (int) heart_beat
Sender(value) == value.whole

-----------------------------------------------------------------------------
(***************************************************************************)
(* The ranges of beats that an ID allows.  In the first, one in the last    *)
(* digit is more than half a unit in the last place of the float: the       *)
(* largest fraction is not rounded up to the next ID.  In the second it is  *)
(* a whole unit at least.                                                   *)
(***************************************************************************)

BeatsStayBelow(id, last) == Power(10)[Digits(last)] < 2 * One(id)
BeatsFit(id, last) == Power(10)[Digits(last)] <= One(id)
=============================================================================
