------------------------------ MODULE Coupler ------------------------------
(***************************************************************************)
(* One coupler that watches others: the relay driver of RelayDriver,       *)
(* composed with the subscriber half of the keep-alive network.  A beat of *)
(* a watched coupler is recorded with the time it is seen; a repeated      *)
(* callback compares the recorded times with the timeout and throws the    *)
(* relay driver into and out of safe mode.                                 *)
(*                                                                         *)
(* Sources: coupler/keep_alive_subscriber.h (dataChangeNotificationCallback *)
(* and callbackCheckHeartBeat), the state of coupler/keep_alive.h, and the *)
(* start and end of coupler/server.c.                                      *)
(*                                                                         *)
(* Time.  One Tick is one unit of the wall clock.  The code keeps absolute *)
(* milliseconds and only ever uses "now - stamp" cut to a 32-bit int, so   *)
(* the model keeps that difference, modulo the word, instead of the stamp. *)
(* ClockStep sets the clock, which shifts every difference; the timers of  *)
(* open62541 use the monotonic clock and do not notice.  The dictionary is *)
(* the map from IDs to stamps that its linked list implements.             *)
(***************************************************************************)
EXTENDS RelayDriver, Sequences

CONSTANTS
  Id,                          \* the coupler IDs whose beats may arrive
  COUPLER_ID,                  \* "-i", this coupler
  HEART_BEAT_ID_LIST,          \* the watched IDs in order, 0 = unused entry
  HEART_BEAT_INTERVAL,         \* period of the check
  HEART_BEAT_TIMEOUT_INTERVAL, \* a stamp older than this is a dead coupler
  LATENESS,                    \* how late the event loop may run the check
  HALF_WORD,                   \* 2^31 for a 32-bit int of milliseconds
  COUNTER_WORD,                \* 2^32 for SAFE_MODE_STATE_COUNTER
  CLOCK_STEPS                  \* by how much the wall clock may be set

Entry == DOMAIN HEART_BEAT_ID_LIST
Watched == {HEART_BEAT_ID_LIST[e] : e \in Entry} \ {0}

\* The entry the loop of callbackCheckHeartBeat judges last.
IsLastWatched(e) ==
  /\ e \in Entry
  /\ HEART_BEAT_ID_LIST[e] # 0
  /\ \A f \in Entry : f > e => HEART_BEAT_ID_LIST[f] = 0

ASSUME IdAssumption ==
  /\ Id \subseteq Nat \ {0}
  /\ COUPLER_ID \in Nat
  /\ HEART_BEAT_ID_LIST \in Seq(Nat)
  /\ Len(HEART_BEAT_ID_LIST) > 0
  /\ Watched \subseteq Id
ASSUME TimeAssumption ==
  /\ HEART_BEAT_INTERVAL \in Nat \ {0}
  /\ HEART_BEAT_TIMEOUT_INTERVAL \in Nat
  /\ LATENESS \in Nat
  /\ LATENESS < HEART_BEAT_INTERVAL
  /\ HALF_WORD \in Nat
  /\ HEART_BEAT_TIMEOUT_INTERVAL + HEART_BEAT_INTERVAL + LATENESS < HALF_WORD
  /\ COUNTER_WORD \in Nat \ {0}
  /\ CLOCK_STEPS \subseteq Int

STATE_DOWN == 0
STATE_UP == 1
STATE_NO_INITIAL_HEART_BEAT == 2

VARIABLES
  SUBSCRIBER_DICT,          \* per ID: now - stamp modulo the word, or NULL
  CURRENT_STATE,
  SAFE_MODE_STATE_COUNTER,
  i,                        \* entry the check is at, 0 = not in the callback
  untilCheck,               \* time left to the next due check, negative = late
  \* History, read by properties only:
  checked,                  \* a check has completed since the start
  heard,                    \* a beat came since this ID was last found down
  skewed,                   \* the difference of the times is not the silence
  steppedEarly              \* the clock was set before the first check was done

watchVars == <<SUBSCRIBER_DICT, CURRENT_STATE, SAFE_MODE_STATE_COUNTER, i,
               untilCheck, checked, heard, skewed, steppedEarly>>
vars == <<proc, OPERATIONAL_MODE, I2C_VIRTUAL_MODE, RELAYS_STATE, node, energized, lost,
          SUBSCRIBER_DICT, CURRENT_STATE, SAFE_MODE_STATE_COUNTER, i,
          untilCheck, checked, heard, skewed, steppedEarly>>

NULL == -1
Age == 0 .. 2 * HALF_WORD - 1
Idle == Serving /\ i = 0

\* timestamp_delta: the difference as a signed int.
timestamp_delta(id) ==
  IF SUBSCRIBER_DICT[id] < HALF_WORD
    THEN SUBSCRIBER_DICT[id]
    ELSE SUBSCRIBER_DICT[id] - 2 * HALF_WORD

\* The empty dictionary main() starts from, and the history that goes with it.
NoStamp == [id \in Id |-> NULL]
None == [id \in Id |-> FALSE]

Init ==
  /\ RelayInit
  /\ SUBSCRIBER_DICT = NoStamp
  /\ CURRENT_STATE = STATE_DOWN
  /\ SAFE_MODE_STATE_COUNTER = 0
  /\ i = 0
  /\ untilCheck = HEART_BEAT_INTERVAL
  /\ checked = FALSE
  /\ heard = None
  /\ skewed = None
  /\ steppedEarly = FALSE

-----------------------------------------------------------------------------
(***************************************************************************)
(* Life cycle and client requests: the relay driver's, between callbacks.  *)
(* A signal may come inside a callback.                                    *)
(***************************************************************************)

\* CURRENT_STATE is a static without initializer: it starts as STATE_DOWN.
Start ==
  /\ RelayStart
  /\ SUBSCRIBER_DICT' = NoStamp
  /\ CURRENT_STATE' = STATE_DOWN
  /\ SAFE_MODE_STATE_COUNTER' = 0
  /\ i' = 0
  /\ untilCheck' = HEART_BEAT_INTERVAL
  /\ checked' = FALSE
  /\ heard' = None
  /\ skewed' = None
  /\ steppedEarly' = FALSE

Signal == stopHandler /\ UNCHANGED watchVars

\* Mutant: the process ends without its shutdown.
ExitAtOnce ==
  /\ i = 0
  /\ proc = "stopping"
  /\ proc' = "exited"
  /\ UNCHANGED <<OPERATIONAL_MODE, I2C_VIRTUAL_MODE, RELAYS_STATE, node, energized, lost,
                 watchVars>>

Exit == i = 0 /\ RelayExit /\ UNCHANGED watchVars

Client == i = 0 /\ Access /\ UNCHANGED watchVars

-----------------------------------------------------------------------------
\* The event loop runs a due check at most LATENESS late.
Tick ==
  /\ Idle
  /\ untilCheck > -LATENESS
  /\ untilCheck' = untilCheck - 1
  /\ SUBSCRIBER_DICT' = [id \in Id |->
       IF SUBSCRIBER_DICT[id] = NULL THEN NULL
       ELSE IF SUBSCRIBER_DICT[id] = 2 * HALF_WORD - 1 THEN 0
       ELSE SUBSCRIBER_DICT[id] + 1]
  /\ skewed' = [id \in Id |-> skewed[id] \/ SUBSCRIBER_DICT'[id] = HALF_WORD]
  /\ UNCHANGED <<relayVars, CURRENT_STATE, SAFE_MODE_STATE_COUNTER, i, checked, heard,
                 steppedEarly>>

\* The wall clock is set.  A check reads it once, so that a step during a walk
\* counts as one after it.
ClockStep(d) ==
  /\ Idle
  /\ SUBSCRIBER_DICT' = [id \in Id |->
       IF SUBSCRIBER_DICT[id] = NULL THEN NULL
       ELSE (SUBSCRIBER_DICT[id] + d) % (2 * HALF_WORD)]
  /\ skewed' = [id \in Id |-> skewed[id] \/ SUBSCRIBER_DICT[id] # NULL]
  /\ steppedEarly' = (steppedEarly \/ ~ checked)
  /\ UNCHANGED <<relayVars, CURRENT_STATE, SAFE_MODE_STATE_COUNTER, i, untilCheck,
                 checked, heard>>

\* Mutant: the entries are not told apart by their keys.
dataChangeOneKey(id) ==
  /\ Idle
  /\ id # COUPLER_ID
  /\ SUBSCRIBER_DICT' = [other \in Id |-> 0]
  /\ heard' = [heard EXCEPT ![id] = TRUE]
  /\ skewed' = [skewed EXCEPT ![id] = FALSE]
  /\ UNCHANGED <<relayVars, CURRENT_STATE, SAFE_MODE_STATE_COUNTER, i, untilCheck, checked,
                 steppedEarly>>

\* A beat of coupler id is seen: its entry of the dictionary is replaced by
\* one with the current time.  The coupler's own beats are ignored.
dataChangeNotificationCallback(id) ==
  /\ Idle
  /\ id # COUPLER_ID
  /\ SUBSCRIBER_DICT' = [SUBSCRIBER_DICT EXCEPT ![id] = 0]
  /\ heard' = [heard EXCEPT ![id] = TRUE]
  /\ skewed' = [skewed EXCEPT ![id] = FALSE]
  /\ UNCHANGED <<relayVars, CURRENT_STATE, SAFE_MODE_STATE_COUNTER, i, untilCheck, checked,
                 steppedEarly>>

-----------------------------------------------------------------------------
(***************************************************************************)
(* callbackCheckHeartBeat.  It reads the clock once and walks the list; one *)
(* step here is one entry.  Time and the other callbacks wait meanwhile.   *)
(***************************************************************************)

CheckBegins ==
  /\ Idle
  /\ untilCheck <= 0
  /\ i' = 1
  /\ untilCheck' = untilCheck + HEART_BEAT_INTERVAL
  /\ UNCHANGED <<relayVars, SUBSCRIBER_DICT, CURRENT_STATE, SAFE_MODE_STATE_COUNTER,
                 checked, heard, skewed, steppedEarly>>

\* Mutant: the loop bound is off by one.
AdvanceTooFar ==
  /\ i' = IF i > Len(HEART_BEAT_ID_LIST) THEN 0 ELSE i + 1
  /\ checked' = (checked \/ i' = 0)
  /\ UNCHANGED <<SUBSCRIBER_DICT, untilCheck, skewed, steppedEarly>>

\* On to the next entry, or out of the callback.
Advance ==
  /\ i' = IF i = Len(HEART_BEAT_ID_LIST) THEN 0 ELSE i + 1
  /\ checked' = (checked \/ i' = 0)
  /\ UNCHANGED <<SUBSCRIBER_DICT, untilCheck, skewed, steppedEarly>>

AtEntry == Serving /\ i \in Entry
coupler_id == HEART_BEAT_ID_LIST[i]
Judged == AtEntry /\ coupler_id # 0
Recorded == Judged /\ SUBSCRIBER_DICT[coupler_id] # NULL
is_down == Recorded /\ timestamp_delta(coupler_id) > HEART_BEAT_TIMEOUT_INTERVAL
\* Mutant: any stamp counts, however old.
is_alive_ever == Recorded

is_alive == Recorded /\ timestamp_delta(coupler_id) <= HEART_BEAT_TIMEOUT_INTERVAL

CheckUnused ==
  /\ AtEntry
  /\ coupler_id = 0
  /\ Advance
  /\ UNCHANGED <<relayVars, CURRENT_STATE, SAFE_MODE_STATE_COUNTER, heard>>

\* Mutant: safe mode is entered from STATE_UP only.
CheckDownFromUp ==
  /\ is_down
  /\ CURRENT_STATE' = STATE_DOWN
  /\ \/ /\ CURRENT_STATE = STATE_UP
        /\ SAFE_MODE_STATE_COUNTER' = (SAFE_MODE_STATE_COUNTER + 1) % COUNTER_WORD
        /\ gotoSafeMode
     \/ /\ CURRENT_STATE # STATE_UP
        /\ UNCHANGED <<relayVars, SAFE_MODE_STATE_COUNTER>>
  /\ heard' = [heard EXCEPT ![coupler_id] = FALSE]
  /\ Advance

\* Mutant: every check that finds the coupler down is counted.
CheckDownCountsAll ==
  /\ is_down
  /\ CURRENT_STATE' = STATE_DOWN
  /\ SAFE_MODE_STATE_COUNTER' = (SAFE_MODE_STATE_COUNTER + 1) % COUNTER_WORD
  /\ gotoSafeMode
  /\ heard' = [heard EXCEPT ![coupler_id] = FALSE]
  /\ Advance

CheckDown ==
  /\ is_down
  /\ \/ /\ CURRENT_STATE # STATE_DOWN
        /\ CURRENT_STATE' = STATE_DOWN
        /\ SAFE_MODE_STATE_COUNTER' = (SAFE_MODE_STATE_COUNTER + 1) % COUNTER_WORD
        /\ gotoSafeMode
     \/ /\ CURRENT_STATE = STATE_DOWN
        /\ UNCHANGED <<relayVars, CURRENT_STATE, SAFE_MODE_STATE_COUNTER>>
  /\ heard' = [heard EXCEPT ![coupler_id] = FALSE]
  /\ Advance

\* Mutant: the state is left as it was on a recovery.
CheckAliveStaysDown ==
  /\ is_alive
  /\ \/ /\ CURRENT_STATE = STATE_DOWN
        /\ gotoNormalMode
        /\ UNCHANGED CURRENT_STATE
     \/ /\ CURRENT_STATE # STATE_DOWN
        /\ CURRENT_STATE' = STATE_UP
        /\ UNCHANGED relayVars
  /\ Advance
  /\ UNCHANGED <<SAFE_MODE_STATE_COUNTER, heard>>

\* Mutant: a recovery is recorded but normal mode is not restored.
CheckAliveStaysMuted ==
  /\ is_alive
  /\ CURRENT_STATE' = STATE_UP
  /\ Advance
  /\ UNCHANGED <<relayVars, SAFE_MODE_STATE_COUNTER, heard>>

CheckAlive ==
  /\ is_alive
  /\ \/ /\ CURRENT_STATE = STATE_DOWN
        /\ gotoNormalMode
     \/ /\ CURRENT_STATE # STATE_DOWN
        /\ UNCHANGED relayVars
  /\ CURRENT_STATE' = STATE_UP
  /\ Advance
  /\ UNCHANGED <<SAFE_MODE_STATE_COUNTER, heard>>

CheckNotHeard ==
  /\ Judged
  /\ SUBSCRIBER_DICT[coupler_id] = NULL
  /\ CURRENT_STATE' = STATE_NO_INITIAL_HEART_BEAT
  /\ Advance
  /\ UNCHANGED <<relayVars, SAFE_MODE_STATE_COUNTER, heard>>

CheckEntry == CheckUnused \/ CheckDown \/ CheckAlive \/ CheckNotHeard

-----------------------------------------------------------------------------
Next ==
  \/ Start
  \/ Signal
  \/ Exit
  \/ Client
  \/ Tick
  \/ \E d \in CLOCK_STEPS : ClockStep(d)
  \/ \E id \in Id : dataChangeNotificationCallback(id)
  \/ CheckBegins
  \/ CheckEntry

Spec == Init /\ [][Next]_vars

\* UA_Server_run keeps iterating: time passes, due callbacks run to their end.
Fairness ==
  /\ WF_vars(Tick)
  /\ WF_vars(CheckBegins)
  /\ WF_vars(CheckEntry)

FairSpec == Spec /\ Fairness

-----------------------------------------------------------------------------
TypeOK ==
  /\ RelayTypeOK
  /\ SUBSCRIBER_DICT \in [Id -> Age \cup {NULL}]
  /\ CURRENT_STATE \in {STATE_DOWN, STATE_UP, STATE_NO_INITIAL_HEART_BEAT}
  /\ SAFE_MODE_STATE_COUNTER \in 0 .. COUNTER_WORD - 1
  /\ i \in Entry \cup {0}
  /\ untilCheck \in -LATENESS .. HEART_BEAT_INTERVAL
  /\ checked \in BOOLEAN
  /\ heard \in [Id -> BOOLEAN]
  /\ skewed \in [Id -> BOOLEAN]
  /\ steppedEarly \in BOOLEAN

\* The coupler drives its relays as RelayDriver specifies: every step is one of
\* the relay driver's or leaves the relays and the process alone.
ImplementsRelayDriver == RelaySpec

\* The timeout covers the longest wait for the first check, as the defaults do
\* (keep_alive.h:21-26); "-t" and "-o" may say otherwise.
TimeoutCoversCheck ==
  HEART_BEAT_INTERVAL + LATENESS <= HEART_BEAT_TIMEOUT_INTERVAL

\* The first check of this process could find nobody down: its period is covered
\* by the timeout, and the clock was not set before it.
TrustedStart == TimeoutCoversCheck /\ ~ steppedEarly

\* Silent for so long that a check must have seen it, and not for so long that
\* the difference of the times looks negative.
Overdue(id) ==
  /\ SUBSCRIBER_DICT[id] < HALF_WORD
  /\ SUBSCRIBER_DICT[id] >
       HEART_BEAT_TIMEOUT_INTERVAL + HEART_BEAT_INTERVAL + LATENESS

\* The relays are muted and off (the latter for a coupler that was not started
\* virtual, on the boards that its shutdown reached).
Safe ==
  /\ I2C_VIRTUAL_MODE = 1
  /\ OPERATIONAL_MODE = 0 => DeliveredOff

\* Between checks, the coupler that recorded "down" is in safe mode.  The
\* initial value of CURRENT_STATE is the exception until the first check.
DownMeansSafe ==
  TrustedStart /\ Watched # {} =>
    (Idle /\ checked /\ CURRENT_STATE = STATE_DOWN => Safe)

\* Deadline: when the coupler judged last in the list falls silent, this one is
\* in safe mode with its relays off at the latest one late check after the
\* timeout, and stays there while the silence lasts.  A clock that is set during
\* the silence suspends the deadline until the next beat, and no longer.
LastWatchedDeadline ==
  TrustedStart =>
    \A e \in Entry : IsLastWatched(e) =>
      LET last == HEART_BEAT_ID_LIST[e]
      IN  Idle /\ Overdue(last) /\ ~ skewed[last] => Safe

OneWatched == \A e, f \in Entry :
  HEART_BEAT_ID_LIST[e] # 0 /\ HEART_BEAT_ID_LIST[f] # 0 => e = f

\* With one watched coupler, between checks safe mode and the state DOWN are the
\* same thing, through recoveries, restarts and signals.
ModeFollowsState ==
  TrustedStart /\ OneWatched /\ Watched # {} =>
    (Idle /\ checked /\ OPERATIONAL_MODE = 0 =>
      (I2C_VIRTUAL_MODE = 1 <=> CURRENT_STATE = STATE_DOWN))

\* Leaving safe mode takes a new beat of the coupler that is judged alive, or a
\* difference of the times that is no longer the silence.
RecoveryIsEarned ==
  [][I2C_VIRTUAL_MODE = 1 /\ I2C_VIRTUAL_MODE' = 0 /\ Serving =>
       heard[coupler_id] \/ skewed[coupler_id]]_vars

\* With one watched coupler, the statistics counter moves exactly with the switches
\* to safe mode (keep_alive_subscriber.h:237).
CounterCountsSwitches ==
  [][OneWatched /\ COUNTER_WORD > 1 /\ TrustedStart
       /\ OPERATIONAL_MODE = 0 /\ Serving /\ proc' # "aborted" =>
       (SAFE_MODE_STATE_COUNTER' # SAFE_MODE_STATE_COUNTER <=>
          I2C_VIRTUAL_MODE = 0 /\ I2C_VIRTUAL_MODE' = 1)]_vars

\* With one watched coupler that from some time on always beats in time, the
\* relays are not muted for ever, under Fairness.
SteadyBeatsRestoreNormalMode ==
  OneWatched =>
    \A id \in Watched :
      <>[](Serving /\ SUBSCRIBER_DICT[id] # NULL
             /\ timestamp_delta(id) <= HEART_BEAT_TIMEOUT_INTERVAL)
        => <>[](I2C_VIRTUAL_MODE = 0)

-----------------------------------------------------------------------------
(***************************************************************************)
(* What comments of the code say, and the code does not do.                *)
(***************************************************************************)

\* keep_alive_subscriber.h:218, "If a related coupler is down got to safe mode":
\* the deadline, for every watched coupler and whatever the intervals.
AnyWatchedDeadline ==
  \A id \in Watched : Idle /\ Overdue(id) => Safe

\* cli.h:15, "Virtual (1) which does NOT set any I2C slaves' state".
VirtualSetsNothing ==
  [][OPERATIONAL_MODE = 1 => energized' = energized]_vars
=============================================================================
