---------------------------- MODULE CommandLine ----------------------------
(***************************************************************************)
(* The command line of a coupler: argp hands the options over in the order *)
(* they were typed, handleCLI copies the result to the globals that the    *)
(* other modules take as constants, and splits the two lists.              *)
(*                                                                         *)
(* Source: coupler/cli.h.  argp, strtok, atoi and strtol are external.     *)
(*                                                                         *)
(* A text is what commas make of it: the sequence of its tokens, a token   *)
(* the sequence of its digits.  Options that are only handed on (-p, -a,   *)
(* -d, -n, -j) are one more option with a text here, "-n".                 *)
(***************************************************************************)
EXTENDS Integers, Sequences

CONSTANTS
  Argument, \* the options that may be typed, each [key, text]
  LENGTH,   \* bound: how many of them are typed at most
  N_SLOTS,  \* entries of I2C_SLAVE_ADDR_LIST: 2 in the code
  N_WATCHED \* entries of HEART_BEAT_ID_LIST: 8 in the code

Digit == 0 .. 15
Token == Seq(Digit) \ {<<>>}
Option == {"m", "i", "b", "t", "o", "s", "l", "u", "w", "k", "c", "n"}

ASSUME ArgumentAssumption ==
  /\ \A a \in Argument : a.key \in Option /\ a.text \in Seq(Token)
  /\ LENGTH \in Nat
  /\ N_SLOTS \in Nat
  /\ N_WATCHED \in Nat \ {0}

VARIABLES
  argv,      \* what was typed
  pc,        \* "parse", "transfer", "slaves", "watched", "done", or "overrun"
  at,        \* how many options are parsed
  arguments, \* the struct of handleCLI: the text of each option
  rest,      \* what strtok has not returned yet
  i,         \* next entry of the list that is written
  globals,   \* the scalar globals
  I2C_SLAVE_ADDR_LIST,
  HEART_BEAT_ID_LIST,
  ENABLE_HEART_BEAT_CHECK

vars == <<argv, pc, at, arguments, rest, i, globals,
          I2C_SLAVE_ADDR_LIST, HEART_BEAT_ID_LIST, ENABLE_HEART_BEAT_CHECK>>

-----------------------------------------------------------------------------
\* What is read of a token in a base, digit by digit; the digits that the base has
\* are taken up to the first it has not.
Reading(token, base) ==
  LET upTo[n \in 0 .. Len(token)] ==
        IF n = 0 THEN 0
        ELSE IF \A k \in 1 .. n : token[k] < base THEN base * upTo[n - 1] + token[n]
        ELSE upTo[n - 1]
  IN  upTo

Value(token, base) == Reading(token, base)[Len(token)]

\* strtol(token, &eptr, 16)
strtol(token) == Value(token, 16)

\* atoi stops at the first comma.
atoi(text) == IF text = <<>> THEN 0 ELSE Value(text[1], 10)

Int2Bool(n) == IF n # 0 THEN 1 ELSE 0

\* The texts that stand for DEFAULT_MODE and the other defaults.  There is none
\* for "-b": heart_beat is what the stack holds.
Default ==
  [m |-> << <<0>> >>, i |-> << <<0>> >>,
   t |-> << <<2, 5, 0>> >>, o |-> << <<1, 0, 0, 0>> >>,
   s |-> << <<5, 8>> >>, l |-> <<>>,
   u |-> <<>>, w |-> <<>>, k |-> <<>>, c |-> <<>>, n |-> << <<1>> >>]

NotSet ==
  [OPERATIONAL_MODE |-> 0, I2C_VIRTUAL_MODE |-> 0, COUPLER_ID |-> 0,
   HEART_BEAT_INTERVAL |-> 250, PUBLISHING_INTERVAL |-> 10,
   HEART_BEAT_TIMEOUT_INTERVAL |-> 1000, ENABLE_HEART_BEAT |-> 0,
   ENABLE_X509 |-> FALSE, ENABLE_USERNAME_PASSWORD_AUTHENTICATION |-> FALSE,
   NETWORK |-> << <<1>> >>]

CLIInit ==
  /\ argv \in UNION {[1 .. n -> Argument] : n \in 0 .. LENGTH}
  /\ pc = "parse"
  /\ at = 0
  /\ \E onTheStack \in {<< <<0>> >>, << <<1>> >>} :
       arguments = [o \in Option |-> IF o = "b" THEN onTheStack ELSE Default[o]]
  /\ rest = <<>>
  /\ i = 0
  /\ globals = NotSet
  /\ I2C_SLAVE_ADDR_LIST = [s \in 0 .. N_SLOTS - 1 |-> 0]
  /\ HEART_BEAT_ID_LIST = [s \in 0 .. N_WATCHED - 1 |-> 0]
  /\ ENABLE_HEART_BEAT_CHECK = FALSE

-----------------------------------------------------------------------------
\* Mutant: an option that was given before is left as it is.
parse_first(o) ==
  IF \E n \in 1 .. at : argv[n].key = o.key THEN arguments
  ELSE [arguments EXCEPT ![o.key] = o.text]

\* One call by argp.
parse_opt(o) == [arguments EXCEPT ![o.key] = o.text]

Parse ==
  /\ pc = "parse"
  /\ at < Len(argv)
  /\ at' = at + 1
  /\ arguments' = parse_opt(argv[at'])
  /\ UNCHANGED <<argv, pc, rest, i, globals, I2C_SLAVE_ADDR_LIST, HEART_BEAT_ID_LIST,
                 ENABLE_HEART_BEAT_CHECK>>

\* Mutant: the mode is kept as an int.
ModeAsInt(a) == atoi(a["m"])

\* OPERATIONAL_MODE and I2C_VIRTUAL_MODE are bools.
ModeOf(a) == Int2Bool(atoi(a["m"]))

\* Mutant: a key is enough for X.509.
FlagsOfKeyOnly(a) ==
  [x509 |-> a["k"] # <<>>, login |-> a["u"] # <<>> /\ a["w"] # <<>>]

FlagsOf(a) ==
  [x509 |-> a["k"] # <<>> /\ a["c"] # <<>>, login |-> a["u"] # <<>> /\ a["w"] # <<>>]

GlobalsOf(a) ==
  [OPERATIONAL_MODE |-> ModeOf(a),
   I2C_VIRTUAL_MODE |-> ModeOf(a),
   COUPLER_ID |-> atoi(a["i"]),
   HEART_BEAT_INTERVAL |-> atoi(a["t"]),
   PUBLISHING_INTERVAL |-> atoi(a["t"]),
   HEART_BEAT_TIMEOUT_INTERVAL |-> atoi(a["o"]),
   ENABLE_HEART_BEAT |-> Int2Bool(atoi(a["b"])),
   ENABLE_X509 |-> FlagsOf(a).x509,
   ENABLE_USERNAME_PASSWORD_AUTHENTICATION |-> FlagsOf(a).login,
   NETWORK |-> a["n"]]

Transfer ==
  /\ pc = "parse"
  /\ at = Len(argv)
  /\ pc' = "slaves"
  /\ globals' = GlobalsOf(arguments)
  /\ rest' = arguments["s"]
  /\ i' = 0
  /\ UNCHANGED <<argv, at, arguments, I2C_SLAVE_ADDR_LIST, HEART_BEAT_ID_LIST,
                 ENABLE_HEART_BEAT_CHECK>>

-----------------------------------------------------------------------------
\* A token is written to the next entry; nothing checks that there is one, and
\* what the write hits instead is not followed further.
Overrun(length) ==
  /\ rest # <<>>
  /\ i >= length
  /\ pc' = "overrun"
  /\ UNCHANGED <<argv, at, arguments, rest, i, globals, I2C_SLAVE_ADDR_LIST,
                 HEART_BEAT_ID_LIST, ENABLE_HEART_BEAT_CHECK>>

NextToken ==
  /\ rest' = Tail(rest)
  /\ i' = i + 1
  /\ UNCHANGED <<argv, pc, at, arguments, globals>>

SlaveToken ==
  /\ pc = "slaves"
  /\ \/ Overrun(N_SLOTS)
     \/ /\ rest # <<>> /\ i < N_SLOTS
        /\ I2C_SLAVE_ADDR_LIST' = [I2C_SLAVE_ADDR_LIST EXCEPT ![i] = strtol(Head(rest))]
        /\ NextToken
        /\ UNCHANGED <<HEART_BEAT_ID_LIST, ENABLE_HEART_BEAT_CHECK>>

\* Mutant: the index goes on from the first list.
SlavesDoneKeepsIndex ==
  /\ pc = "slaves"
  /\ rest = <<>>
  /\ pc' = "watched"
  /\ rest' = arguments["l"]
  /\ UNCHANGED <<argv, at, arguments, i, globals, I2C_SLAVE_ADDR_LIST, HEART_BEAT_ID_LIST,
                 ENABLE_HEART_BEAT_CHECK>>

SlavesDone ==
  /\ pc = "slaves"
  /\ rest = <<>>
  /\ pc' = "watched"
  /\ rest' = arguments["l"]
  /\ i' = 0
  /\ UNCHANGED <<argv, at, arguments, globals, I2C_SLAVE_ADDR_LIST, HEART_BEAT_ID_LIST,
                 ENABLE_HEART_BEAT_CHECK>>

WatchedToken ==
  /\ pc = "watched"
  /\ \/ Overrun(N_WATCHED)
     \/ /\ rest # <<>> /\ i < N_WATCHED
        /\ HEART_BEAT_ID_LIST' = [HEART_BEAT_ID_LIST EXCEPT ![i] = strtol(Head(rest))]
        /\ ENABLE_HEART_BEAT_CHECK' = TRUE
        /\ NextToken
        /\ UNCHANGED I2C_SLAVE_ADDR_LIST

WatchedDone ==
  /\ pc = "watched"
  /\ rest = <<>>
  /\ pc' = "done"
  /\ UNCHANGED <<argv, at, arguments, rest, i, globals, I2C_SLAVE_ADDR_LIST,
                 HEART_BEAT_ID_LIST, ENABLE_HEART_BEAT_CHECK>>

CLINext ==
  \/ Parse
  \/ Transfer
  \/ SlaveToken
  \/ SlavesDone
  \/ WatchedToken
  \/ WatchedDone

CLISpec == CLIInit /\ [][CLINext]_vars

-----------------------------------------------------------------------------
(***************************************************************************)
(* What a reader of "--help" expects of a command line: the last text typed *)
(* for an option counts, wherever it stands, and the default otherwise.    *)
(***************************************************************************)
Given(o) == {n \in 1 .. Len(argv) : argv[n].key = o}
LastText(o) ==
  IF Given(o) = {} THEN Default[o]
  ELSE argv[CHOOSE n \in Given(o) : \A m \in Given(o) : m <= n].text

Accepted == pc = "done"

\* A coupler starts as normal or as virtual and the two modes agree, whatever
\* number was typed for "-m"; its sampling and publishing follow its beats.  These
\* are premises of the models of the running coupler.
CLITypeOK ==
  /\ globals.OPERATIONAL_MODE \in {0, 1}
  /\ globals.I2C_VIRTUAL_MODE = globals.OPERATIONAL_MODE
  /\ i \in 0 .. N_SLOTS + N_WATCHED
  /\ \A s \in 0 .. N_SLOTS - 1 : I2C_SLAVE_ADDR_LIST[s] \in Nat
  /\ \A s \in 0 .. N_WATCHED - 1 : HEART_BEAT_ID_LIST[s] \in Nat

\* Options take effect in any order and a later one replaces an earlier one
\* (cli.h:56-110): the settings are those of the last text of each option alone.
\* Without "-b" nothing is said of the beats.
SettingsAsTyped ==
  Accepted =>
    /\ globals.COUPLER_ID = atoi(LastText("i"))
    /\ globals.OPERATIONAL_MODE = 0 <=> atoi(LastText("m")) = 0
    /\ globals.HEART_BEAT_INTERVAL = atoi(LastText("t"))
    /\ globals.HEART_BEAT_TIMEOUT_INTERVAL = atoi(LastText("o"))
    /\ Given("b") # {} => (globals.ENABLE_HEART_BEAT = 0 <=> atoi(LastText("b")) = 0)

\* The login and X.509 are switched on by both of their halves, not by one.
BothHalvesEnable ==
  Accepted =>
    /\ globals.ENABLE_X509 <=> LastText("k") # <<>> /\ LastText("c") # <<>>
    /\ globals.ENABLE_USERNAME_PASSWORD_AUTHENTICATION <=>
         LastText("u") # <<>> /\ LastText("w") # <<>>

\* The text "-i <token>" of a coupler, and the entry that watches it.
IdOf(token) == atoi(<<token>>)

\* Lists that fit are taken whole: entry by entry from the front, the rest unused,
\* and the check is enabled exactly when there is an entry.  An ID of one digit
\* names the coupler that was started with it.
ListsAsTyped ==
  LET slaves == LastText("s")
      watched == LastText("l")
  IN  Len(slaves) <= N_SLOTS /\ Len(watched) <= N_WATCHED =>
        /\ pc # "overrun"
        /\ Accepted =>
             /\ ENABLE_HEART_BEAT_CHECK <=> watched # <<>>
             /\ \A s \in 0 .. N_SLOTS - 1 :
                  I2C_SLAVE_ADDR_LIST[s] =
                    IF s < Len(slaves) THEN Value(slaves[s + 1], 16) ELSE 0
             /\ \A w \in 0 .. N_WATCHED - 1 :
                  IF w >= Len(watched) THEN HEART_BEAT_ID_LIST[w] = 0
                  ELSE Len(watched[w + 1]) = 1 /\ watched[w + 1][1] < 10 =>
                         HEART_BEAT_ID_LIST[w] = IdOf(watched[w + 1])

\* cli.h:191, "from CLI we get a  comma separated list on INTs representing coupler'
\* ID": an entry names the coupler that was started with the same text after "-i".
ListNamesIds ==
  LET watched == LastText("l")
  IN  Accepted /\ Len(watched) <= N_WATCHED =>
        \A w \in 1 .. Len(watched) : HEART_BEAT_ID_LIST[w - 1] = IdOf(watched[w])
=============================================================================
