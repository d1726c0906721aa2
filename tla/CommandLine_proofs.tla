-------------------------- MODULE CommandLine_proofs --------------------------
(* Proofs about CommandLine, for any options and lists of any length. *)
EXTENDS CommandLine, WellFoundedInduction, TLAPS

-----------------------------------------------------------------------------
(* Induction over the naturals by sets of them. *)

\* Some numbers have a least one.
LEMMA LeastNumber ==
  ASSUME NEW T, T \subseteq Nat, T # {}
  PROVE  \E x \in T : \A y \in T : ~ y < x
<1> DEFINE R == {ss \in Nat \X Nat : ss[1] < ss[2]}
<1>1. IsWellFoundedOn(R, Nat)
  BY NatLessThanWellFounded, Zenon DEF OpToRel
<1>2. \A x, y \in Nat : <<y, x>> \in R <=> y < x
  OBVIOUS
<1> HIDE DEF R
<1>3. \E x \in T : \A y \in T : ~ (<<y, x>> \in R)
  BY <1>1, WFMin
<1> QED
  BY <1>2, <1>3

\* A set with 0 and the number after each of its numbers has every number.
LEMMA Induction ==
  ASSUME NEW T, 0 \in T, \A n \in Nat : n \in T => n + 1 \in T
  PROVE  \A n \in Nat : n \in T
<1> DEFINE U == {n \in Nat : n \notin T}
<1> SUFFICES ASSUME U # {}
             PROVE  FALSE
  OBVIOUS
<1>1. PICK x \in U : \A y \in U : ~ y < x
  <2>1. U \subseteq Nat
    OBVIOUS
  <2> HIDE DEF U
  <2> QED
    BY <2>1, LeastNumber
<1>2. x \in Nat /\ x \notin T /\ x # 0
  BY <1>1
<1>3. x - 1 \in Nat /\ x - 1 < x /\ (x - 1) + 1 = x
  BY <1>2
<1>4. x - 1 \in T
  BY <1>1, <1>3
<1> QED
  BY <1>2, <1>3, <1>4

-----------------------------------------------------------------------------
(***************************************************************************)
(* The value of a token.  A recursive function is what its definition says *)
(* if there is such a function; there is one for the first n digits, by    *)
(* induction on n.                                                         *)
(***************************************************************************)

\* What the definition says of a function on the first n digits.
Reads(f, token, base, n) ==
  f = [m \in 0 .. n |->
         IF m = 0 THEN 0
         ELSE IF \A k \in 1 .. m : token[k] < base THEN base * f[m - 1] + token[m]
         ELSE f[m - 1]]

\* Such a function can be continued by one digit.
LEMMA ReadsMore ==
  ASSUME NEW token, NEW base, NEW n \in Nat, NEW f, Reads(f, token, base, n)
  PROVE  \E g : Reads(g, token, base, n + 1)
<1> DEFINE g == [m \in 0 .. n + 1 |->
                   IF m \in 0 .. n THEN f[m]
                   ELSE IF \A k \in 1 .. m : token[k] < base THEN base * f[m - 1] + token[m]
                   ELSE f[m - 1]]
<1>1. \A m \in 0 .. n : g[m] = f[m]
  OBVIOUS
<1>2. \A m \in 0 .. n : f[m] = IF m = 0 THEN 0
         ELSE IF \A k \in 1 .. m : token[k] < base THEN base * f[m - 1] + token[m]
         ELSE f[m - 1]
  BY Zenon DEF Reads
<1>3. \A m \in 0 .. n + 1 : g[m] = IF m = 0 THEN 0
         ELSE IF \A k \in 1 .. m : token[k] < base THEN base * g[m - 1] + token[m]
         ELSE g[m - 1]
  <2> SUFFICES ASSUME NEW m \in 0 .. n + 1
               PROVE  g[m] = IF m = 0 THEN 0
         ELSE IF \A k \in 1 .. m : token[k] < base THEN base * g[m - 1] + token[m]
         ELSE g[m - 1]
    OBVIOUS
  <2>1. m # 0 => m - 1 \in 0 .. n
    OBVIOUS
  <2>2. CASE m \in 0 .. n
    BY <1>1, <1>2, <2>1, <2>2
  <2>3. CASE m = n + 1
    BY <1>1, <2>1, <2>3
  <2> QED
    BY <2>2, <2>3
<1>4. g = [m \in 0 .. n + 1 |-> IF m = 0 THEN 0
         ELSE IF \A k \in 1 .. m : token[k] < base THEN base * g[m - 1] + token[m]
         ELSE g[m - 1]]
  BY <1>3
<1> QED
  BY <1>4 DEF Reads

\* There is such a function for every number of digits.
LEMMA ReadsExists ==
  ASSUME NEW token, NEW base, NEW n \in Nat
  PROVE  \E f : Reads(f, token, base, n)
<1> DEFINE T == {m \in Nat : \E f : Reads(f, token, base, m)}
<1>1. 0 \in T
  <2> DEFINE f == [m \in 0 .. 0 |-> 0]
  <2>1. \A m \in 0 .. 0 : (IF m = 0 THEN 0
         ELSE IF \A k \in 1 .. m : token[k] < base THEN base * f[m - 1] + token[m]
         ELSE f[m - 1]) = 0
    <3>1. \A m \in 0 .. 0 : m = 0
      OBVIOUS
    <3> HIDE DEF f
    <3> QED
      BY <3>1
  <2>2. Reads(f, token, base, 0)
    BY <2>1, Zenon DEF Reads
  <2> QED
    BY <2>2
<1>2. \A m \in Nat : m \in T => m + 1 \in T
  BY ReadsMore
<1> HIDE DEF T
<1>3. \A m \in Nat : m \in T
  BY <1>1, <1>2, Induction
<1> QED
  BY <1>3 DEF T

\* So the definition holds of what is read.
LEMMA ReadingReads ==
  ASSUME NEW token \in Seq(Nat), NEW base
  PROVE  Reads(Reading(token, base), token, base, Len(token))
<1>1. \E f : Reads(f, token, base, Len(token))
  <2>1. Len(token) \in Nat
    OBVIOUS
  <2> QED
    BY <2>1, ReadsExists
<1>2. Reading(token, base) = CHOOSE f : Reads(f, token, base, Len(token))
  BY Zenon DEF Reading, Reads
<1> QED
  BY <1>1, <1>2, Zenon

LEMMA NumberProduct == \A x, y \in Nat : x * y \in Nat
OBVIOUS

LEMMA NumberSum == \A x, y \in Nat : x + y \in Nat
OBVIOUS

LEMMA ItemType ==
  ASSUME NEW S, NEW s \in Seq(S), NEW n \in 1 .. Len(s)
  PROVE  s[n] \in S
OBVIOUS

\* The value of a token is a number.
LEMMA ValueIsNumber ==
  ASSUME NEW token \in Seq(Nat), NEW base \in Nat
  PROVE  Value(token, base) \in Nat
<1> DEFINE f == Reading(token, base)
<1>0. Len(token) \in Nat /\ \A k \in 1 .. Len(token) : token[k] \in Nat
  OBVIOUS
<1>1. \A m \in 0 .. Len(token) : f[m] = IF m = 0 THEN 0
         ELSE IF \A k \in 1 .. m : token[k] < base THEN base * f[m - 1] + token[m]
         ELSE f[m - 1]
  <2>1. Reads(f, token, base, Len(token))
    BY ReadingReads
  <2> HIDE DEF f
  <2> QED
    BY <2>1, Zenon DEF Reads
<1> HIDE DEF f
<1> DEFINE T == {m \in Nat : m <= Len(token) => f[m] \in Nat}
<1>2. 0 \in T
  BY <1>0, <1>1
<1>3. ASSUME NEW m \in Nat, m \in T, m + 1 <= Len(token)
      PROVE  f[m + 1] \in Nat
  <2>1. m + 1 \in 1 .. Len(token) /\ m + 1 \in 0 .. Len(token) /\ (m + 1) - 1 = m
    BY <1>0, <1>3
  <2>2. f[m] \in Nat /\ token[m + 1] \in Nat
    BY <1>0, <1>3, <2>1
  <2>3. base * f[m] \in Nat
    BY <2>2, NumberProduct
  <2>4. base * f[m] + token[m + 1] \in Nat
    BY <2>2, <2>3, NumberSum, Zenon
  <2>5. \/ f[m + 1] = base * f[m] + token[m + 1]
        \/ f[m + 1] = f[m]
    <3> DEFINE readable == \A k \in 1 .. (m + 1) : token[k] < base
    <3>1. f[m + 1] = IF readable THEN base * f[m] + token[m + 1] ELSE f[m]
      <4>1. m + 1 # 0
        OBVIOUS
      <4> QED
        BY <1>1, <2>1, <4>1, Zenon
    <3> HIDE DEF readable
    <3> QED
      BY <3>1
  <2> QED
    BY <2>2, <2>4, <2>5
<1>4. \A m \in Nat : m \in T => m + 1 \in T
  BY <1>3
<1> HIDE DEF T
<1>5. Len(token) \in T
  BY <1>0, <1>2, <1>4, Induction
<1> QED
  BY <1>0, <1>5 DEF Value, f, T

\* The value of one digit that the base has is the digit.
LEMMA ValueOfDigit ==
  ASSUME NEW d \in Nat, NEW base \in Nat, d < base
  PROVE  Value(<<d>>, base) = d
<1> DEFINE f == Reading(<<d>>, base)
<1>1. Len(<<d>>) = 1 /\ <<d>> \in Seq(Nat) /\ <<d>>[1] = d
  OBVIOUS
<1>2. \A m \in 0 .. 1 : f[m] = IF m = 0 THEN 0
         ELSE IF \A k \in 1 .. m : <<d>>[k] < base THEN base * f[m - 1] + <<d>>[m]
         ELSE f[m - 1]
  <2>1. Reads(f, <<d>>, base, 1)
    <3>1. Reads(f, <<d>>, base, Len(<<d>>))
      BY <1>1, ReadingReads, Zenon
    <3> QED
      BY <1>1, <3>1, Zenon
  <2> HIDE DEF f
  <2> QED
    BY <2>1, Zenon DEF Reads
<1> HIDE DEF f
<1>3. f[0] = 0
  BY <1>2
<1>4. \A k \in 1 .. 1 : <<d>>[k] < base
  BY <1>1
<1>5. f[1] = base * f[0] + <<d>>[1]
  BY <1>2, <1>4
<1>6. f[1] = d
  BY <1>1, <1>3, <1>5
<1> QED
  BY <1>1, <1>6 DEF Value, f

\* What strtol and atoi return is a number.
LEMMA NumbersRead ==
  /\ \A token \in Token : strtol(token) \in Nat
  /\ \A d \in 0 .. 9 : strtol(<<d>>) = atoi(<< <<d>> >>)
<1>1. ASSUME NEW token \in Token
      PROVE  strtol(token) \in Nat
  <2>1. token \in Seq(Nat)
    BY DEF Token, Digit
  <2> QED
    BY <2>1, ValueIsNumber DEF strtol
<1>2. ASSUME NEW d \in 0 .. 9
      PROVE  strtol(<<d>>) = atoi(<< <<d>> >>)
  <2>1. Value(<<d>>, 16) = d /\ Value(<<d>>, 10) = d
    BY ValueOfDigit
  <2>2. << <<d>> >> # <<>> /\ << <<d>> >>[1] = <<d>>
    OBVIOUS
  <2> QED
    BY <2>1, <2>2 DEF strtol, atoi
<1> QED
  BY <1>1, <1>2

-----------------------------------------------------------------------------
(* The invariant. *)

\* The text of an option is the last of those typed up to n, or the default.
LastUpTo(typed, n, texts) ==
  \A o \in Option :
    \/ \E k \in 1 .. n :
         /\ typed[k].key = o /\ texts[o] = typed[k].text
         /\ \A m \in 1 .. n : m > k => typed[m].key # o
    \/ /\ \A m \in 1 .. n : typed[m].key # o
       /\ o # "b" => texts[o] = Default[o]

TextsAreLast == LastUpTo(argv, at, arguments)

ParseInv ==
  /\ argv \in Seq(Argument)
  /\ at \in 0 .. Len(argv)
  /\ arguments \in [Option -> Seq(Token)]
  /\ TextsAreLast
  /\ pc \in {"parse", "slaves", "watched", "done", "overrun"}
  /\ IF pc = "parse" THEN globals = NotSet
     ELSE at = Len(argv) /\ globals = GlobalsOf(arguments)

\* The first n entries of a list are the first n tokens of its text.
Written(list, length, text, n) ==
  \A s \in 0 .. length - 1 : list[s] = IF s < n THEN strtol(text[s + 1]) ELSE 0

\* n tokens of the text are written and the others are left to strtok.
Splitting(list, length, text, left, n) ==
  /\ n \in 0 .. length
  /\ Len(left) = Len(text) - n
  /\ \A k \in 1 .. Len(left) : left[k] = text[n + k]
  /\ Written(list, length, text, n)

\* The text fits its list and is written whole.
Split(list, length, text) == Len(text) <= length /\ Written(list, length, text, Len(text))

ListInv ==
  LET slaves == arguments["s"]
      watched == arguments["l"]
  IN  /\ rest \in Seq(Token)
      /\ i \in 0 .. N_SLOTS + N_WATCHED
      /\ I2C_SLAVE_ADDR_LIST \in [0 .. N_SLOTS - 1 -> Nat]
      /\ HEART_BEAT_ID_LIST \in [0 .. N_WATCHED - 1 -> Nat]
      /\ pc \in {"parse", "slaves"} =>
           /\ \A s \in 0 .. N_WATCHED - 1 : HEART_BEAT_ID_LIST[s] = 0
           /\ ENABLE_HEART_BEAT_CHECK = FALSE
      /\ pc = "parse" => \A s \in 0 .. N_SLOTS - 1 : I2C_SLAVE_ADDR_LIST[s] = 0
      /\ pc = "slaves" => Splitting(I2C_SLAVE_ADDR_LIST, N_SLOTS, slaves, rest, i)
      /\ pc \in {"watched", "done"} => Split(I2C_SLAVE_ADDR_LIST, N_SLOTS, slaves)
      /\ pc = "watched" =>
           /\ Splitting(HEART_BEAT_ID_LIST, N_WATCHED, watched, rest, i)
           /\ ENABLE_HEART_BEAT_CHECK = (i > 0)
      /\ pc = "done" =>
           /\ Split(HEART_BEAT_ID_LIST, N_WATCHED, watched)
           /\ ENABLE_HEART_BEAT_CHECK = (Len(watched) > 0)
      /\ pc = "overrun" => Len(slaves) > N_SLOTS \/ Len(watched) > N_WATCHED

\* The texts that stand for the defaults are texts.
LEMMA DefaultTexts ==
  /\ \A o \in Option \ {"b"} : Default[o] \in Seq(Token)
  /\ << <<0>> >> \in Seq(Token) /\ << <<1>> >> \in Seq(Token)
<1>1. /\ <<>> \in Seq(Token)
      /\ << <<0>> >> \in Seq(Token) /\ << <<1>> >> \in Seq(Token)
  BY DEF Token, Digit
<1>2. << <<2, 5, 0>> >> \in Seq(Token) /\ << <<1, 0, 0, 0>> >> \in Seq(Token)
  BY DEF Token, Digit
<1>3. << <<5, 8>> >> \in Seq(Token)
  BY DEF Token, Digit
<1>4. /\ Default["m"] = << <<0>> >> /\ Default["i"] = << <<0>> >>
      /\ Default["t"] = << <<2, 5, 0>> >> /\ Default["o"] = << <<1, 0, 0, 0>> >>
      /\ Default["s"] = << <<5, 8>> >> /\ Default["l"] = <<>>
      /\ Default["u"] = <<>> /\ Default["w"] = <<>> /\ Default["k"] = <<>>
      /\ Default["c"] = <<>> /\ Default["n"] = << <<1>> >>
  BY DEF Default
<1>5. \A o \in Option \ {"b"} :
        o \in {"m", "i", "t", "o", "s", "l", "u", "w", "k", "c", "n"}
  BY DEF Option
<1> QED
  BY <1>1, <1>2, <1>3, <1>4, <1>5, Zenon

-----------------------------------------------------------------------------
(* One list, as strtok goes through its text. *)

\* Before the first token.
LEMMA SplitStarts ==
  ASSUME NEW length \in Nat, NEW list, NEW text \in Seq(Token),
         \A s \in 0 .. length - 1 : list[s] = 0
  PROVE  Splitting(list, length, text, text, 0)
BY DEF Splitting, Written

\* One token is written to the next entry.
LEMMA SplitGoesOn ==
  ASSUME NEW length \in Nat, NEW list \in [0 .. length - 1 -> Nat],
         NEW text \in Seq(Token), NEW left \in Seq(Token), left # <<>>,
         NEW n, n < length, Splitting(list, length, text, left, n)
  PROVE  /\ [list EXCEPT ![n] = strtol(Head(left))] \in [0 .. length - 1 -> Nat]
         /\ Tail(left) \in Seq(Token)
         /\ Splitting([list EXCEPT ![n] = strtol(Head(left))],
                      length, text, Tail(left), n + 1)
<1> DEFINE next == [list EXCEPT ![n] = strtol(Head(left))]
<1>1. /\ n \in 0 .. length - 1 /\ n + 1 \in 0 .. length
      /\ Len(left) \in Nat /\ Len(left) # 0
  BY DEF Splitting
<1>2. /\ Tail(left) \in Seq(Token) /\ Len(Tail(left)) = Len(left) - 1
      /\ \A k \in 1 .. Len(left) - 1 : Tail(left)[k] = left[k + 1]
  OBVIOUS
<1>3. Head(left) = left[1] /\ Head(left) \in Token
  OBVIOUS
<1>4. Head(left) = text[n + 1]
  BY <1>1, <1>3 DEF Splitting
<1>5. next \in [0 .. length - 1 -> Nat]
  BY <1>1, <1>3, NumbersRead
<1>6. Len(Tail(left)) = Len(text) - (n + 1)
  BY <1>1, <1>2 DEF Splitting
<1>7. ASSUME NEW k \in 1 .. Len(Tail(left))
      PROVE  Tail(left)[k] = text[n + 1 + k]
  <2>1. k \in 1 .. Len(left) - 1 /\ k + 1 \in 1 .. Len(left)
    BY <1>1, <1>2
  <2>2. left[k + 1] = text[n + (k + 1)] /\ n + (k + 1) = n + 1 + k
    BY <1>1, <2>1 DEF Splitting
  <2> QED
    BY <1>2, <2>1, <2>2
<1>8. Written(next, length, text, n + 1)
  <2> SUFFICES ASSUME NEW s \in 0 .. length - 1
               PROVE  next[s] = IF s < n + 1 THEN strtol(text[s + 1]) ELSE 0
    BY DEF Written
  <2>1. list[s] = IF s < n THEN strtol(text[s + 1]) ELSE 0
    BY DEF Splitting, Written
  <2>2. CASE s = n
    <3>1. next[s] = strtol(Head(left))
      BY <2>2
    <3> QED
      BY <1>1, <1>4, <2>2, <3>1
  <2>3. CASE s # n
    <3>1. next[s] = list[s]
      BY <2>3
    <3>2. s < n + 1 <=> s < n
      BY <1>1, <2>3
    <3> QED
      BY <2>1, <3>1, <3>2
  <2> QED
    BY <2>2, <2>3
<1> QED
  BY <1>1, <1>2, <1>5, <1>6, <1>7, <1>8 DEF Splitting

\* After the last token.
LEMMA SplitEnds ==
  ASSUME NEW length \in Nat, NEW list, NEW text \in Seq(Token), NEW n,
         Splitting(list, length, text, <<>>, n)
  PROVE  Split(list, length, text) /\ n = Len(text)
<1>1. n \in 0 .. length /\ Len(text) \in Nat /\ 0 = Len(text) - n
  BY DEF Splitting
<1>2. n = Len(text)
  BY <1>1
<1> QED
  BY <1>1, <1>2 DEF Split, Splitting

\* A token for which there is no entry is one of a text that does not fit.
LEMMA NoEntryLeft ==
  ASSUME NEW length \in Nat, NEW list, NEW text \in Seq(Token), NEW left \in Seq(Token),
         left # <<>>, NEW n, n >= length, Splitting(list, length, text, left, n)
  PROVE  Len(text) > length
<1>1. n = length /\ Len(left) \in Nat /\ Len(left) # 0 /\ Len(text) \in Nat
  BY DEF Splitting
<1>2. Len(left) = Len(text) - n
  BY DEF Splitting
<1> QED
  BY <1>1, <1>2

-----------------------------------------------------------------------------
(* The steps. *)

\* Nothing is typed that is not an argument, and every text is the default.
LEMMA StartInv ==
  ASSUME CLIInit
  PROVE  ParseInv /\ ListInv
<1>1. PICK n \in 0 .. LENGTH : argv \in [1 .. n -> Argument]
  BY DEF CLIInit
<1>2. argv \in Seq(Argument)
  BY <1>1, ArgumentAssumption
<1>3. at = 0 /\ pc = "parse" /\ globals = NotSet /\ i = 0 /\ rest = <<>>
  BY DEF CLIInit
<1>4. PICK onTheStack \in {<< <<0>> >>, << <<1>> >>} :
        arguments = [o \in Option |-> IF o = "b" THEN onTheStack ELSE Default[o]]
  BY DEF CLIInit
<1>5. arguments \in [Option -> Seq(Token)]
  BY <1>4, DefaultTexts
<1>6. TextsAreLast
  BY <1>3, <1>4 DEF TextsAreLast, LastUpTo
<1>7. ParseInv
  BY <1>2, <1>3, <1>5, <1>6 DEF ParseInv
<1>8. /\ I2C_SLAVE_ADDR_LIST = [s \in 0 .. N_SLOTS - 1 |-> 0]
      /\ HEART_BEAT_ID_LIST = [s \in 0 .. N_WATCHED - 1 |-> 0]
      /\ ENABLE_HEART_BEAT_CHECK = FALSE
  BY Zenon DEF CLIInit
<1>9. ListInv
  BY <1>3, <1>8, ArgumentAssumption DEF ListInv
<1> QED
  BY <1>7, <1>9

\* A text that is parsed is the last of its option from then on.
LEMMA ParseStep ==
  ASSUME ParseInv, ListInv, Parse
  PROVE  ParseInv' /\ ListInv'
<1> DEFINE a == argv[at + 1]
<1>1. at \in Nat /\ at + 1 \in 1 .. Len(argv) /\ argv \in Seq(Argument)
  BY DEF ParseInv, Parse
<1>2. a \in Argument /\ a.key \in Option /\ a.text \in Seq(Token)
  BY <1>1, ArgumentAssumption
<1>3. /\ argv' = argv /\ at' = at + 1 /\ pc = "parse" /\ pc' = pc /\ globals' = globals
      /\ arguments' = [arguments EXCEPT ![a.key] = a.text]
  BY DEF Parse, parse_opt
<1>4. arguments \in [Option -> Seq(Token)] /\ TextsAreLast /\ globals = NotSet
  BY <1>3 DEF ParseInv
<1> DEFINE b == arguments'
<1>5. \A o \in Option : b[o] = IF o = a.key THEN a.text ELSE arguments[o]
  BY <1>2, <1>3, <1>4
<1>6. b \in [Option -> Seq(Token)]
  BY <1>2, <1>3, <1>4
<1>7. \A m \in 1 .. at + 1 : m \in 1 .. at \/ m = at + 1
  BY <1>1
<1>8. \A m \in 1 .. at : m \in 1 .. at + 1 /\ ~ m > at + 1 /\ at + 1 > m /\ m # at + 1
  BY <1>1
<1> HIDE DEF b
<1>9. ASSUME NEW o \in Option
      PROVE  \/ \E n \in 1 .. at + 1 :
                  /\ argv[n].key = o /\ b[o] = argv[n].text
                  /\ \A m \in 1 .. at + 1 : m > n => argv[m].key # o
             \/ /\ \A m \in 1 .. at + 1 : argv[m].key # o
                /\ o # "b" => b[o] = Default[o]
  <2>1. CASE o = a.key
    <3>1. at + 1 \in 1 .. at + 1 /\ b[o] = a.text
      BY <1>1, <1>5, <2>1
    <3>2. \A m \in 1 .. at + 1 : ~ m > at + 1
      BY <1>1
    <3> QED
      BY <2>1, <3>1, <3>2
  <2>2. CASE o # a.key
    <3>1. b[o] = arguments[o]
      BY <1>5, <2>2
    <3>2. CASE \E n \in 1 .. at :
                  /\ argv[n].key = o /\ arguments[o] = argv[n].text
                  /\ \A m \in 1 .. at : m > n => argv[m].key # o
      <4>1. PICK n \in 1 .. at :
                  /\ argv[n].key = o /\ arguments[o] = argv[n].text
                  /\ \A m \in 1 .. at : m > n => argv[m].key # o
        BY <3>2
      <4>2. \A m \in 1 .. at + 1 : m > n => argv[m].key # o
        BY <1>7, <2>2, <4>1
      <4> QED
        BY <1>8, <3>1, <4>1, <4>2
    <3>3. CASE /\ \A m \in 1 .. at : argv[m].key # o
               /\ o # "b" => arguments[o] = Default[o]
      BY <1>7, <2>2, <3>1, <3>3
    <3> QED
      BY <1>4, <3>2, <3>3 DEF TextsAreLast, LastUpTo
  <2> QED
    BY <2>1, <2>2
<1>10. TextsAreLast'
  <2>1. LastUpTo(argv, at + 1, b)
    BY <1>9 DEF LastUpTo
  <2> QED
    BY <1>3, <2>1 DEF TextsAreLast, b
<1>11. at' \in 0 .. Len(argv')
  BY <1>1, <1>3
<1>12. ParseInv'
  BY <1>1, <1>3, <1>4, <1>6, <1>10, <1>11 DEF ParseInv, b
<1>13. ListInv'
  <2>1. /\ pc' = "parse" /\ rest' = rest /\ i' = i
        /\ I2C_SLAVE_ADDR_LIST' = I2C_SLAVE_ADDR_LIST
        /\ HEART_BEAT_ID_LIST' = HEART_BEAT_ID_LIST
        /\ ENABLE_HEART_BEAT_CHECK' = ENABLE_HEART_BEAT_CHECK
    BY DEF Parse
  <2> QED
    BY <1>3, <2>1 DEF ListInv
<1> QED
  BY <1>12, <1>13

\* Once the options are transferred the texts and the settings stay.
LEMMA TextsStay ==
  ASSUME ParseInv, pc # "parse", UNCHANGED <<argv, at, arguments, globals>>,
         pc' \in {"slaves", "watched", "done", "overrun"}
  PROVE  ParseInv'
<1>1. argv' = argv /\ at' = at /\ arguments' = arguments /\ globals' = globals
  OBVIOUS
<1>2. TextsAreLast'
  BY <1>1 DEF ParseInv, TextsAreLast
<1> QED
  BY <1>1, <1>2 DEF ParseInv

LEMMA TransferStep ==
  ASSUME ParseInv, ListInv, Transfer
  PROVE  ParseInv' /\ ListInv'
<1>1. /\ argv' = argv /\ at' = at /\ arguments' = arguments
      /\ pc = "parse" /\ at = Len(argv) /\ pc' = "slaves"
      /\ globals' = GlobalsOf(arguments) /\ rest' = arguments["s"] /\ i' = 0
      /\ I2C_SLAVE_ADDR_LIST' = I2C_SLAVE_ADDR_LIST
      /\ HEART_BEAT_ID_LIST' = HEART_BEAT_ID_LIST
      /\ ENABLE_HEART_BEAT_CHECK' = ENABLE_HEART_BEAT_CHECK
  BY DEF Transfer
<1>2. TextsAreLast'
  BY <1>1 DEF ParseInv, TextsAreLast
<1>3. ParseInv'
  BY <1>1, <1>2 DEF ParseInv
<1>4. arguments["s"] \in Seq(Token)
  BY DEF ParseInv, Option
<1>5. Splitting(I2C_SLAVE_ADDR_LIST, N_SLOTS, arguments["s"], arguments["s"], 0)
  BY <1>1, <1>4, SplitStarts, ArgumentAssumption DEF ListInv
<1>6. 0 \in 0 .. N_SLOTS + N_WATCHED
  BY ArgumentAssumption
<1>7. ListInv'
  BY <1>1, <1>4, <1>5, <1>6 DEF ListInv
<1> QED
  BY <1>3, <1>7

LEMMA SlaveTokenStep ==
  ASSUME ParseInv, ListInv, SlaveToken
  PROVE  ParseInv' /\ ListInv'
<1> DEFINE slaves == arguments["s"]
<1>1. pc = "slaves" /\ arguments["s"] \in Seq(Token) /\ rest \in Seq(Token)
  BY DEF SlaveToken, ParseInv, ListInv, Option
<1>2. /\ Splitting(I2C_SLAVE_ADDR_LIST, N_SLOTS, slaves, rest, i)
      /\ I2C_SLAVE_ADDR_LIST \in [0 .. N_SLOTS - 1 -> Nat]
  BY <1>1 DEF ListInv
<1>3. CASE Overrun(N_SLOTS)
  <2>1. Len(slaves) > N_SLOTS
    BY <1>1, <1>2, <1>3, NoEntryLeft, ArgumentAssumption DEF Overrun
  <2>2. /\ argv' = argv /\ at' = at /\ arguments' = arguments /\ globals' = globals
        /\ pc' = "overrun" /\ rest' = rest /\ i' = i
        /\ I2C_SLAVE_ADDR_LIST' = I2C_SLAVE_ADDR_LIST
        /\ HEART_BEAT_ID_LIST' = HEART_BEAT_ID_LIST
    BY <1>3 DEF Overrun
  <2>3. ParseInv'
    BY <1>1, <2>2, TextsStay
  <2>4. ListInv'
    BY <2>1, <2>2 DEF ListInv
  <2> QED
    BY <2>3, <2>4
<1>4. CASE /\ rest # <<>> /\ i < N_SLOTS
           /\ I2C_SLAVE_ADDR_LIST' = [I2C_SLAVE_ADDR_LIST EXCEPT ![i] = strtol(Head(rest))]
           /\ NextToken
           /\ UNCHANGED <<HEART_BEAT_ID_LIST, ENABLE_HEART_BEAT_CHECK>>
  <2>1. /\ argv' = argv /\ at' = at /\ arguments' = arguments /\ globals' = globals
        /\ pc' = pc /\ rest' = Tail(rest) /\ i' = i + 1
        /\ HEART_BEAT_ID_LIST' = HEART_BEAT_ID_LIST
        /\ ENABLE_HEART_BEAT_CHECK' = ENABLE_HEART_BEAT_CHECK
    BY <1>4 DEF NextToken
  <2>2. ParseInv'
    BY <1>1, <2>1, TextsStay
  <2>3. /\ I2C_SLAVE_ADDR_LIST' \in [0 .. N_SLOTS - 1 -> Nat]
        /\ rest' \in Seq(Token)
        /\ Splitting(I2C_SLAVE_ADDR_LIST', N_SLOTS, slaves, rest', i')
    BY <1>1, <1>2, <1>4, <2>1, SplitGoesOn, ArgumentAssumption
  <2>4. i + 1 \in 0 .. N_SLOTS + N_WATCHED
    BY <1>2, <1>4, ArgumentAssumption DEF Splitting
  <2>5. ListInv'
    BY <1>1, <2>1, <2>3, <2>4 DEF ListInv
  <2> QED
    BY <2>2, <2>5
<1> QED
  BY <1>3, <1>4 DEF SlaveToken

LEMMA SlavesDoneStep ==
  ASSUME ParseInv, ListInv, SlavesDone
  PROVE  ParseInv' /\ ListInv'
<1>1. /\ argv' = argv /\ at' = at /\ arguments' = arguments /\ globals' = globals
      /\ pc = "slaves" /\ rest = <<>> /\ pc' = "watched" /\ rest' = arguments["l"] /\ i' = 0
      /\ I2C_SLAVE_ADDR_LIST' = I2C_SLAVE_ADDR_LIST
      /\ HEART_BEAT_ID_LIST' = HEART_BEAT_ID_LIST
      /\ ENABLE_HEART_BEAT_CHECK' = ENABLE_HEART_BEAT_CHECK
  BY DEF SlavesDone
<1>2. ParseInv'
  BY <1>1, TextsStay
<1>3. arguments["s"] \in Seq(Token) /\ arguments["l"] \in Seq(Token)
  BY DEF ParseInv, Option
<1>4. Split(I2C_SLAVE_ADDR_LIST, N_SLOTS, arguments["s"])
  BY <1>1, <1>3, SplitEnds, ArgumentAssumption DEF ListInv
<1>5. Splitting(HEART_BEAT_ID_LIST, N_WATCHED, arguments["l"], arguments["l"], 0)
  BY <1>1, <1>3, SplitStarts, ArgumentAssumption DEF ListInv
<1>6. 0 \in 0 .. N_SLOTS + N_WATCHED /\ ~ 0 > 0
  BY ArgumentAssumption
<1>7. ENABLE_HEART_BEAT_CHECK' = (i' > 0)
  <2>1. ENABLE_HEART_BEAT_CHECK' = FALSE
    BY <1>1 DEF ListInv
  <2>2. (i' > 0) = FALSE
    BY <1>1, <1>6
  <2> QED
    BY <2>1, <2>2
<1>8. ListInv'
  BY <1>1, <1>3, <1>4, <1>5, <1>6, <1>7 DEF ListInv
<1> QED
  BY <1>2, <1>8

LEMMA WatchedTokenStep ==
  ASSUME ParseInv, ListInv, WatchedToken
  PROVE  ParseInv' /\ ListInv'
<1> DEFINE watched == arguments["l"]
<1>1. pc = "watched" /\ arguments["l"] \in Seq(Token) /\ rest \in Seq(Token)
  BY DEF WatchedToken, ParseInv, ListInv, Option
<1>2. /\ Splitting(HEART_BEAT_ID_LIST, N_WATCHED, watched, rest, i)
      /\ HEART_BEAT_ID_LIST \in [0 .. N_WATCHED - 1 -> Nat]
  BY <1>1 DEF ListInv
<1>3. CASE Overrun(N_WATCHED)
  <2>1. Len(watched) > N_WATCHED
    BY <1>1, <1>2, <1>3, NoEntryLeft, ArgumentAssumption DEF Overrun
  <2>2. /\ argv' = argv /\ at' = at /\ arguments' = arguments /\ globals' = globals
        /\ pc' = "overrun" /\ rest' = rest /\ i' = i
        /\ I2C_SLAVE_ADDR_LIST' = I2C_SLAVE_ADDR_LIST
        /\ HEART_BEAT_ID_LIST' = HEART_BEAT_ID_LIST
    BY <1>3 DEF Overrun
  <2>3. ParseInv'
    BY <1>1, <2>2, TextsStay
  <2>4. ListInv'
    BY <2>1, <2>2 DEF ListInv
  <2> QED
    BY <2>3, <2>4
<1>4. CASE /\ rest # <<>> /\ i < N_WATCHED
           /\ HEART_BEAT_ID_LIST' = [HEART_BEAT_ID_LIST EXCEPT ![i] = strtol(Head(rest))]
           /\ ENABLE_HEART_BEAT_CHECK' = TRUE
           /\ NextToken
           /\ UNCHANGED I2C_SLAVE_ADDR_LIST
  <2>1. /\ argv' = argv /\ at' = at /\ arguments' = arguments /\ globals' = globals
        /\ pc' = pc /\ rest' = Tail(rest) /\ i' = i + 1
        /\ I2C_SLAVE_ADDR_LIST' = I2C_SLAVE_ADDR_LIST
        /\ ENABLE_HEART_BEAT_CHECK' = TRUE
    BY <1>4 DEF NextToken
  <2>2. ParseInv'
    BY <1>1, <2>1, TextsStay
  <2>3. /\ HEART_BEAT_ID_LIST' \in [0 .. N_WATCHED - 1 -> Nat]
        /\ rest' \in Seq(Token)
        /\ Splitting(HEART_BEAT_ID_LIST', N_WATCHED, watched, rest', i')
    BY <1>1, <1>2, <1>4, <2>1, SplitGoesOn, ArgumentAssumption
  <2>4. i + 1 \in 0 .. N_SLOTS + N_WATCHED /\ i + 1 > 0
    BY <1>2, <1>4, ArgumentAssumption DEF Splitting
  <2>5. ENABLE_HEART_BEAT_CHECK' = (i' > 0)
    BY <2>1, <2>4
  <2>6. ListInv'
    BY <1>1, <2>1, <2>3, <2>4, <2>5 DEF ListInv
  <2> QED
    BY <2>2, <2>6
<1> QED
  BY <1>3, <1>4 DEF WatchedToken

LEMMA WatchedDoneStep ==
  ASSUME ParseInv, ListInv, WatchedDone
  PROVE  ParseInv' /\ ListInv'
<1>1. /\ argv' = argv /\ at' = at /\ arguments' = arguments /\ globals' = globals
      /\ pc = "watched" /\ rest = <<>> /\ pc' = "done" /\ rest' = rest /\ i' = i
      /\ I2C_SLAVE_ADDR_LIST' = I2C_SLAVE_ADDR_LIST
      /\ HEART_BEAT_ID_LIST' = HEART_BEAT_ID_LIST
      /\ ENABLE_HEART_BEAT_CHECK' = ENABLE_HEART_BEAT_CHECK
  BY DEF WatchedDone
<1>2. ParseInv'
  BY <1>1, TextsStay
<1>3. arguments["l"] \in Seq(Token)
  BY DEF ParseInv, Option
<1>4. Split(HEART_BEAT_ID_LIST, N_WATCHED, arguments["l"]) /\ i = Len(arguments["l"])
  <2>1. Splitting(HEART_BEAT_ID_LIST, N_WATCHED, arguments["l"], <<>>, i)
    BY <1>1 DEF ListInv
  <2> QED
    BY <1>3, <2>1, SplitEnds, ArgumentAssumption
<1>5. ListInv'
  BY <1>1, <1>4 DEF ListInv
<1> QED
  BY <1>2, <1>5

-----------------------------------------------------------------------------
(* The theorems. *)

\* At every moment the text of an option is the last that was parsed or its
\* default, and the lists are written up to where strtok has come (cli.h:52-197).
THEOREM ParsingCorrect == CLISpec => [](ParseInv /\ ListInv)
<1>1. CLIInit => ParseInv /\ ListInv
  BY StartInv
<1>2. ParseInv /\ ListInv /\ [CLINext]_vars => (ParseInv /\ ListInv)'
  <2> SUFFICES ASSUME ParseInv, ListInv, [CLINext]_vars
               PROVE  ParseInv' /\ ListInv'
    OBVIOUS
  <2>1. CASE Parse
    BY <2>1, ParseStep
  <2>2. CASE Transfer
    BY <2>2, TransferStep
  <2>3. CASE SlaveToken
    BY <2>3, SlaveTokenStep
  <2>4. CASE SlavesDone
    BY <2>4, SlavesDoneStep
  <2>5. CASE WatchedToken
    BY <2>5, WatchedTokenStep
  <2>6. CASE WatchedDone
    BY <2>6, WatchedDoneStep
  <2>7. CASE UNCHANGED vars
    <3>1. /\ argv' = argv /\ at' = at /\ arguments' = arguments /\ globals' = globals
          /\ pc' = pc /\ rest' = rest /\ i' = i
          /\ I2C_SLAVE_ADDR_LIST' = I2C_SLAVE_ADDR_LIST
          /\ HEART_BEAT_ID_LIST' = HEART_BEAT_ID_LIST
          /\ ENABLE_HEART_BEAT_CHECK' = ENABLE_HEART_BEAT_CHECK
      BY <2>7 DEF vars
    <3>2. ParseInv'
      BY <3>1 DEF ParseInv, TextsAreLast
    <3>3. ListInv'
      BY <3>1 DEF ListInv
    <3> QED
      BY <3>2, <3>3
  <2> QED
    BY <2>1, <2>2, <2>3, <2>4, <2>5, <2>6, <2>7 DEF CLINext
<1> QED
  BY <1>1, <1>2, PTL DEF CLISpec

\* Once all is parsed, the struct holds the last text of each option.
LEMMA TextIsLast ==
  ASSUME ParseInv, at = Len(argv), NEW o \in Option, o # "b" \/ Given(o) # {}
  PROVE  arguments[o] = LastText(o)
<1>1. at \in Nat /\ LastUpTo(argv, at, arguments)
  BY DEF ParseInv, TextsAreLast
<1>2. CASE \E k \in 1 .. at :
             /\ argv[k].key = o /\ arguments[o] = argv[k].text
             /\ \A m \in 1 .. at : m > k => argv[m].key # o
  <2>1. PICK k \in 1 .. at :
             /\ argv[k].key = o /\ arguments[o] = argv[k].text
             /\ \A m \in 1 .. at : m > k => argv[m].key # o
    BY <1>2
  <2>2. Given(o) \subseteq 1 .. at /\ k \in Given(o)
    BY <2>1 DEF Given
  <2>3. \A m \in Given(o) : m <= k
    BY <1>1, <2>1 DEF Given
  <2> DEFINE last == CHOOSE n \in Given(o) : \A m \in Given(o) : m <= n
  <2>4. last \in Given(o) /\ \A m \in Given(o) : m <= last
    BY <2>2, <2>3
  <2> HIDE DEF last
  <2>5. last <= k /\ k <= last /\ last \in 1 .. at
    BY <2>2, <2>3, <2>4
  <2>6. last = k
    BY <1>1, <2>5
  <2>7. LastText(o) = argv[last].text
    BY <2>2 DEF LastText, last
  <2> QED
    BY <2>1, <2>6, <2>7
<1>3. CASE /\ \A m \in 1 .. at : argv[m].key # o
           /\ o # "b" => arguments[o] = Default[o]
  <2>1. Given(o) = {}
    BY <1>3 DEF Given
  <2> QED
    BY <1>3, <2>1 DEF LastText
<1> QED
  BY <1>1, <1>2, <1>3 DEF LastUpTo

\* The settings of a coupler that has accepted its command line.
LEMMA AcceptedSettings ==
  ASSUME ParseInv, pc # "parse"
  PROVE  /\ globals = GlobalsOf(arguments)
         /\ \A o \in Option : o # "b" \/ Given(o) # {} => arguments[o] = LastText(o)
         /\ \A o \in Option : arguments[o] \in Seq(Token)
<1>1. globals = GlobalsOf(arguments) /\ at = Len(argv)
  BY DEF ParseInv
<1>2. \A o \in Option : o # "b" \/ Given(o) # {} => arguments[o] = LastText(o)
  BY <1>1, TextIsLast
<1>3. \A o \in Option : arguments[o] \in Seq(Token)
  BY DEF ParseInv
<1> QED
  BY <1>1, <1>2, <1>3

\* The mode is 0 or 1 for every number that is typed, and the lists hold numbers
\* (cli.h:157-158, 176-197).
THEOREM CLITypeCorrect == CLISpec => []CLITypeOK
<1>1. ParseInv /\ ListInv => CLITypeOK
  <2> SUFFICES ASSUME ParseInv, ListInv
               PROVE  CLITypeOK
    OBVIOUS
  <2>1. globals = NotSet \/ globals = GlobalsOf(arguments)
    BY DEF ParseInv
  <2>2. /\ NotSet.OPERATIONAL_MODE = 0 /\ NotSet.I2C_VIRTUAL_MODE = 0
        /\ GlobalsOf(arguments).OPERATIONAL_MODE = ModeOf(arguments)
        /\ GlobalsOf(arguments).I2C_VIRTUAL_MODE = ModeOf(arguments)
    BY DEF NotSet, GlobalsOf
  <2>3. ModeOf(arguments) \in {0, 1}
    BY DEF ModeOf, Int2Bool
  <2>4. /\ globals.OPERATIONAL_MODE \in {0, 1}
        /\ globals.I2C_VIRTUAL_MODE = globals.OPERATIONAL_MODE
    BY <2>1, <2>2, <2>3
  <2>5. /\ i \in 0 .. N_SLOTS + N_WATCHED
        /\ \A s \in 0 .. N_SLOTS - 1 : I2C_SLAVE_ADDR_LIST[s] \in Nat
        /\ \A s \in 0 .. N_WATCHED - 1 : HEART_BEAT_ID_LIST[s] \in Nat
    BY DEF ListInv
  <2> QED
    BY <2>4, <2>5 DEF CLITypeOK
<1> QED
  BY <1>1, ParsingCorrect, PTL

\* Options take effect in any order, a later one in place of an earlier one, for
\* command lines of any length (cli.h:52-110, 155-173).
THEOREM SettingsCorrect == CLISpec => []SettingsAsTyped
<1>1. ParseInv => SettingsAsTyped
  <2> SUFFICES ASSUME ParseInv, Accepted
               PROVE  /\ globals.COUPLER_ID = atoi(LastText("i"))
                      /\ globals.OPERATIONAL_MODE = 0 <=> atoi(LastText("m")) = 0
                      /\ globals.HEART_BEAT_INTERVAL = atoi(LastText("t"))
                      /\ globals.HEART_BEAT_TIMEOUT_INTERVAL = atoi(LastText("o"))
                      /\ Given("b") # {} =>
                           (globals.ENABLE_HEART_BEAT = 0 <=> atoi(LastText("b")) = 0)
    BY DEF SettingsAsTyped
  <2>1. globals = GlobalsOf(arguments)
    BY AcceptedSettings DEF Accepted
  <2>2. /\ arguments["i"] = LastText("i") /\ arguments["m"] = LastText("m")
        /\ arguments["t"] = LastText("t") /\ arguments["o"] = LastText("o")
        /\ Given("b") # {} => arguments["b"] = LastText("b")
    BY AcceptedSettings DEF Accepted, Option
  <2>3. /\ globals.COUPLER_ID = atoi(arguments["i"])
        /\ globals.OPERATIONAL_MODE = Int2Bool(atoi(arguments["m"]))
        /\ globals.HEART_BEAT_INTERVAL = atoi(arguments["t"])
        /\ globals.HEART_BEAT_TIMEOUT_INTERVAL = atoi(arguments["o"])
        /\ globals.ENABLE_HEART_BEAT = Int2Bool(atoi(arguments["b"]))
    BY <2>1 DEF GlobalsOf, ModeOf
  <2>4. \A n : Int2Bool(n) = 0 <=> n = 0
    BY DEF Int2Bool
  <2> QED
    BY <2>2, <2>3, <2>4
<1> QED
  BY <1>1, ParsingCorrect, PTL

\* The login and X.509 need both of their halves, in whatever order they are typed
\* (cli.h:169-170).
THEOREM HalvesCorrect == CLISpec => []BothHalvesEnable
<1>1. ParseInv => BothHalvesEnable
  <2> SUFFICES ASSUME ParseInv, Accepted
               PROVE  /\ globals.ENABLE_X509 <=> LastText("k") # <<>> /\ LastText("c") # <<>>
                      /\ globals.ENABLE_USERNAME_PASSWORD_AUTHENTICATION <=>
                           LastText("u") # <<>> /\ LastText("w") # <<>>
    BY DEF BothHalvesEnable
  <2>1. globals = GlobalsOf(arguments)
    BY AcceptedSettings DEF Accepted
  <2>2. /\ arguments["k"] = LastText("k") /\ arguments["c"] = LastText("c")
        /\ arguments["u"] = LastText("u") /\ arguments["w"] = LastText("w")
    BY AcceptedSettings DEF Accepted, Option
  <2>3. /\ globals.ENABLE_X509 = (arguments["k"] # <<>> /\ arguments["c"] # <<>>)
        /\ globals.ENABLE_USERNAME_PASSWORD_AUTHENTICATION =
             (arguments["u"] # <<>> /\ arguments["w"] # <<>>)
    BY <2>1 DEF GlobalsOf, FlagsOf
  <2> QED
    BY <2>2, <2>3
<1> QED
  BY <1>1, ParsingCorrect, PTL

\* Lists that fit are taken whole, whatever their lengths and the sizes of the two
\* arrays (cli.h:175-197).
THEOREM ListsCorrect == CLISpec => []ListsAsTyped
<1>1. ParseInv /\ ListInv => ListsAsTyped
  <2> DEFINE slaves == LastText("s")
             watched == LastText("l")
  <2> SUFFICES ASSUME ParseInv, ListInv,
                      Len(slaves) <= N_SLOTS, Len(watched) <= N_WATCHED
               PROVE  /\ pc # "overrun"
                      /\ Accepted =>
                           /\ ENABLE_HEART_BEAT_CHECK <=> watched # <<>>
                           /\ \A s \in 0 .. N_SLOTS - 1 :
                                I2C_SLAVE_ADDR_LIST[s] =
                                  IF s < Len(slaves) THEN Value(slaves[s + 1], 16) ELSE 0
                           /\ \A w \in 0 .. N_WATCHED - 1 :
                                IF w >= Len(watched) THEN HEART_BEAT_ID_LIST[w] = 0
                                ELSE Len(watched[w + 1]) = 1 /\ watched[w + 1][1] < 10 =>
                                       HEART_BEAT_ID_LIST[w] = IdOf(watched[w + 1])
    BY DEF ListsAsTyped
  <2>1. pc # "parse" =>
          /\ arguments["s"] = slaves /\ arguments["l"] = watched
          /\ slaves \in Seq(Token) /\ watched \in Seq(Token)
    BY AcceptedSettings DEF Option
  <2> HIDE DEF slaves, watched
  <2>2. pc # "overrun"
    <3> SUFFICES ASSUME pc = "overrun"
                 PROVE  FALSE
      OBVIOUS
    <3>1. Len(slaves) > N_SLOTS \/ Len(watched) > N_WATCHED
      BY <2>1 DEF ListInv
    <3>2. Len(slaves) \in Nat /\ Len(watched) \in Nat
      BY <2>1
    <3> QED
      BY <3>1, <3>2, ArgumentAssumption
  <2>3. ASSUME Accepted
        PROVE  /\ ENABLE_HEART_BEAT_CHECK <=> watched # <<>>
               /\ \A s \in 0 .. N_SLOTS - 1 :
                    I2C_SLAVE_ADDR_LIST[s] =
                      IF s < Len(slaves) THEN Value(slaves[s + 1], 16) ELSE 0
               /\ \A w \in 0 .. N_WATCHED - 1 :
                    IF w >= Len(watched) THEN HEART_BEAT_ID_LIST[w] = 0
                    ELSE Len(watched[w + 1]) = 1 /\ watched[w + 1][1] < 10 =>
                           HEART_BEAT_ID_LIST[w] = IdOf(watched[w + 1])
    <3>1. pc = "done" /\ slaves \in Seq(Token) /\ watched \in Seq(Token)
      BY <2>1, <2>3 DEF Accepted
    <3>2. /\ Written(I2C_SLAVE_ADDR_LIST, N_SLOTS, slaves, Len(slaves))
          /\ Written(HEART_BEAT_ID_LIST, N_WATCHED, watched, Len(watched))
          /\ ENABLE_HEART_BEAT_CHECK = (Len(watched) > 0)
      BY <2>1, <3>1 DEF ListInv, Split
    <3>3. Len(watched) > 0 <=> watched # <<>>
      BY <3>1
    <3>4. ENABLE_HEART_BEAT_CHECK <=> watched # <<>>
      BY <3>2, <3>3
    <3>5. \A s \in 0 .. N_SLOTS - 1 :
            I2C_SLAVE_ADDR_LIST[s] =
              IF s < Len(slaves) THEN Value(slaves[s + 1], 16) ELSE 0
      BY <3>2 DEF Written, strtol
    <3>6. ASSUME NEW w \in 0 .. N_WATCHED - 1
          PROVE  IF w >= Len(watched) THEN HEART_BEAT_ID_LIST[w] = 0
                 ELSE Len(watched[w + 1]) = 1 /\ watched[w + 1][1] < 10 =>
                        HEART_BEAT_ID_LIST[w] = IdOf(watched[w + 1])
      <4>1. HEART_BEAT_ID_LIST[w] =
              IF w < Len(watched) THEN strtol(watched[w + 1]) ELSE 0
        BY <3>2 DEF Written
      <4>2. w \in Nat /\ Len(watched) \in Nat
        BY <3>1
      <4>3. CASE w >= Len(watched)
        BY <4>1, <4>2, <4>3
      <4>4. CASE w < Len(watched)
        <5> SUFFICES ASSUME Len(watched[w + 1]) = 1, watched[w + 1][1] < 10
                     PROVE  HEART_BEAT_ID_LIST[w] = IdOf(watched[w + 1])
          BY <4>2, <4>4
        <5> DEFINE token == watched[w + 1]
                   d == token[1]
        <5>0. token[1] < 10
          OBVIOUS
        <5>1. token \in Seq(Digit) /\ Len(token) = 1 /\ d < 10
          BY <3>1, <4>2, <4>4 DEF Token
        <5> HIDE DEF token
        <5>2. token[1] \in 0 .. 15
          <6>1. Digit = 0 .. 15
            BY DEF Digit
          <6>2. 1 \in 1 .. Len(token)
            BY <5>1
          <6>3. token[1] \in Digit
            BY <5>1, <6>2, ItemType, Zenon
          <6> QED
            BY <6>1, <6>3
        <5>3. d \in 0 .. 9
          <6>1. ASSUME NEW x \in 0 .. 15, x < 10
                PROVE  x \in 0 .. 9
            BY <6>1
          <6> QED
            BY <5>0, <5>2, <6>1, Zenon
        <5> HIDE DEF d
        <5>4. token = <<d>>
          BY <5>1 DEF d
        <5>5. strtol(token) = IdOf(token)
          BY <5>3, <5>4, NumbersRead DEF IdOf
        <5> QED
          BY <4>1, <4>4, <5>5 DEF token
      <4> QED
        BY <4>2, <4>3, <4>4
    <3> QED
      BY <3>4, <3>5, <3>6
  <2> QED
    BY <2>2, <2>3
<1> QED
  BY <1>1, ParsingCorrect, PTL
=============================================================================
