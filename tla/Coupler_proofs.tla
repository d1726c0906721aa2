-------------------------- MODULE Coupler_proofs --------------------------
(* Proofs about Coupler, for any list of watched couplers and any timing. *)
EXTENDS Coupler, RelayDriver_proofs

-----------------------------------------------------------------------------
(* The composition implements the relay driver. *)

\* Every step of the coupler is a step of the relay driver or leaves it alone.
LEMMA StepRefines == [Next]_vars => [RelayNext]_relayVars
<1> SUFFICES ASSUME [Next]_vars
             PROVE  [RelayNext]_relayVars
  OBVIOUS
<1> USE DEF RelayNext
<1>1. CASE Start
  BY <1>1 DEF Start
<1>2. CASE Signal \/ Exit \/ Client
  BY <1>2 DEF Signal, Exit, Client
<1>3. CASE Tick \/ CheckBegins \/ \E d \in CLOCK_STEPS : ClockStep(d)
  BY <1>3 DEF Tick, CheckBegins, ClockStep
<1>4. CASE \E id \in Id : dataChangeNotificationCallback(id)
  BY <1>4 DEF dataChangeNotificationCallback
<1>5. CASE CheckEntry
  BY <1>5 DEF CheckEntry, CheckUnused, CheckDown, CheckAlive, CheckNotHeard
<1>6. CASE UNCHANGED vars
  BY <1>6 DEF vars, relayVars
<1> QED
  BY <1>1, <1>2, <1>3, <1>4, <1>5, <1>6 DEF Next

\* The coupler is an implementation of the relay driver.
THEOREM Refinement == Spec => ImplementsRelayDriver
<1>1. Init => RelayInit
  BY DEF Init
<1> QED
  BY <1>1, StepRefines, PTL DEF Spec, RelaySpec, ImplementsRelayDriver

\* So what is proved of the relay driver holds of the coupler.
LEMMA RelayFacts == Spec => [](RelayTypeOK /\ SafeModeMeansOff)
<1>1. RelayInv => RelayTypeOK /\ SafeModeMeansOff
  BY DEF RelayInv
<1> QED
  BY <1>1, Refinement, RelayInvCorrect, PTL DEF ImplementsRelayDriver

-----------------------------------------------------------------------------
(* Type correctness. *)

\* The facts about the list of watched couplers that the proofs use.
LEMMA ListFacts ==
  /\ Entry = 1 .. Len(HEART_BEAT_ID_LIST)
  /\ Len(HEART_BEAT_ID_LIST) \in Nat \ {0}
  /\ \A e \in Entry : /\ HEART_BEAT_ID_LIST[e] \in Nat
                      /\ HEART_BEAT_ID_LIST[e] # 0 => HEART_BEAT_ID_LIST[e] \in Id
BY IdAssumption DEF Entry, Watched

\* A clock step turns an age into an age.
LEMMA ShiftedAge ==
  ASSUME TypeOK, NEW d \in CLOCK_STEPS, NEW id \in Id, SUBSCRIBER_DICT[id] # NULL
  PROVE  (SUBSCRIBER_DICT[id] + d) % (2 * HALF_WORD) \in Age
BY TimeAssumption DEF TypeOK, Age

\* Every variable of the watch keeps its type.
THEOREM TypeCorrect == Spec => []TypeOK
<1>1. Init => TypeOK
  <2> SUFFICES ASSUME Init
               PROVE  TypeOK
    OBVIOUS
  <2>1. RelayTypeOK
    BY DEF Init, RelayInit, RelayTypeOK
  <2>2. SUBSCRIBER_DICT \in [Id -> Age \cup {NULL}]
    BY DEF Init, NoStamp
  <2>3. heard \in [Id -> BOOLEAN] /\ skewed \in [Id -> BOOLEAN]
    BY Zenon DEF Init, None
  <2>4. checked \in BOOLEAN /\ steppedEarly \in BOOLEAN
    BY Zenon DEF Init
  <2> QED
    BY <2>1, <2>2, <2>3, <2>4, TimeAssumption, ListFacts DEF Init, TypeOK
<1>2. TypeOK /\ RelayTypeOK' /\ [Next]_vars => TypeOK'
  <2> SUFFICES ASSUME TypeOK, RelayTypeOK', [Next]_vars
               PROVE  TypeOK'
    OBVIOUS
  <2> USE DEF TypeOK
  <2>1. CASE Start
    <3>1. SUBSCRIBER_DICT' \in [Id -> Age \cup {NULL}]
      BY <2>1 DEF Start, NoStamp
    <3>2. heard' \in [Id -> BOOLEAN] /\ skewed' \in [Id -> BOOLEAN]
      BY <2>1, Zenon DEF Start, None
    <3>3. checked' \in BOOLEAN /\ steppedEarly' \in BOOLEAN
      BY <2>1, Zenon DEF Start
    <3> QED
      BY <2>1, <3>1, <3>2, <3>3, TimeAssumption DEF Start
  <2>2. CASE Signal \/ Exit \/ Client
    BY <2>2 DEF Signal, Exit, Client, watchVars
  <2>3. CASE Tick
    <3>1. \A id \in Id : SUBSCRIBER_DICT'[id] \in Age \cup {NULL}
      BY <2>3, TimeAssumption DEF Tick, NULL, Age
    <3>2. SUBSCRIBER_DICT' \in [Id -> Age \cup {NULL}]
      BY <2>3, <3>1 DEF Tick
    <3>3. skewed' \in [Id -> BOOLEAN]
      BY <2>3, Zenon DEF Tick
    <3>4. untilCheck' \in -LATENESS .. HEART_BEAT_INTERVAL
      BY <2>3, TimeAssumption DEF Tick
    <3> QED
      BY <2>3, <3>2, <3>3, <3>4 DEF Tick
  <2>4. CASE \E id \in Id : dataChangeNotificationCallback(id)
    BY <2>4, TimeAssumption DEF dataChangeNotificationCallback, Age, NULL
  <2>5. CASE CheckBegins
    BY <2>5, TimeAssumption, ListFacts DEF CheckBegins
  <2>6. CASE CheckEntry
    <3>1. i' \in Entry \cup {0} /\ checked' \in BOOLEAN
      <4>1. Advance /\ i \in Entry
        BY <2>6 DEF CheckEntry, CheckUnused, CheckDown, CheckAlive, CheckNotHeard,
           is_down, is_alive, Recorded, Judged, AtEntry
      <4>2. checked' \in BOOLEAN
        BY <4>1, Zenon DEF Advance
      <4> QED
        BY <4>1, <4>2, ListFacts DEF Advance
    <3>2. UNCHANGED <<SUBSCRIBER_DICT, untilCheck, skewed, steppedEarly>>
      BY <2>6 DEF CheckEntry, CheckUnused, CheckDown, CheckAlive, CheckNotHeard, Advance
    <3>3. heard' \in [Id -> BOOLEAN]
      BY <2>6 DEF CheckEntry, CheckUnused, CheckDown, CheckAlive, CheckNotHeard
    <3>4. /\ CURRENT_STATE' \in {STATE_DOWN, STATE_UP, STATE_NO_INITIAL_HEART_BEAT}
          /\ SAFE_MODE_STATE_COUNTER' \in 0 .. COUNTER_WORD - 1
      BY <2>6, TimeAssumption DEF CheckEntry, CheckUnused, CheckDown, CheckAlive, CheckNotHeard
    <3> QED
      BY <3>1, <3>2, <3>3, <3>4
  <2>7. CASE UNCHANGED vars
    BY <2>7 DEF vars
  <2>8. ASSUME NEW d \in CLOCK_STEPS, ClockStep(d)
        PROVE  TypeOK'
    <3>1. SUBSCRIBER_DICT' \in [Id -> Age \cup {NULL}]
      BY <2>8, ShiftedAge DEF ClockStep
    <3>2. skewed' \in [Id -> BOOLEAN] /\ steppedEarly' \in BOOLEAN
      BY <2>8, Zenon DEF ClockStep
    <3> QED
      BY <2>8, <3>1, <3>2 DEF ClockStep
  <2> QED
    BY <2>1, <2>2, <2>3, <2>4, <2>5, <2>6, <2>7, <2>8 DEF Next
<1> QED
  BY <1>1, <1>2, RelayFacts, PTL DEF Spec

-----------------------------------------------------------------------------
(***************************************************************************)
(* The deadline.  Neither property below is inductive: between checks, what *)
(* holds depends on what the last walk through the list has judged, and    *)
(* what the first walk finds on how old a stamp can be by then.            *)
(***************************************************************************)

\* A verdict has been passed since the start.
Decided == checked \/ \E f \in Entry : f < i /\ HEART_BEAT_ID_LIST[f] # 0

\* Once a verdict has been passed, STATE_DOWN goes with the muted bus.
DownMutes ==
  Watched # {} /\ ~ steppedEarly =>
    (Serving /\ Decided /\ CURRENT_STATE = STATE_DOWN => I2C_VIRTUAL_MODE = 1)

\* No stamp is older than the process: the first walk finds nobody down.
FirstStamps ==
  Serving /\ ~ checked /\ ~ steppedEarly =>
    \A id \in Id : SUBSCRIBER_DICT[id] <=
      IF i = 0 THEN HEART_BEAT_INTERVAL - untilCheck ELSE HEART_BEAT_TIMEOUT_INTERVAL

\* Coupler id is past the timeout, and not so far past that it looks early.
Late(id) ==
  /\ SUBSCRIBER_DICT[id] < HALF_WORD
  /\ SUBSCRIBER_DICT[id] > HEART_BEAT_TIMEOUT_INTERVAL

\* The clock was set neither early nor since the last stamp of this entry.
Trusted(e) == ~ steppedEarly /\ ~ skewed[HEART_BEAT_ID_LIST[e]]

\* Unless the bus is muted, the last watched coupler became late after the last
\* check, and it is late only until the walk has judged it.
LastLate ==
  \A e \in Entry : IsLastWatched(e) =>
    (Serving /\ Late(HEART_BEAT_ID_LIST[e]) /\ I2C_VIRTUAL_MODE = 0 /\ Trusted(e) =>
       /\ i <= e
       /\ i = 0 => SUBSCRIBER_DICT[HEART_BEAT_ID_LIST[e]] <=
                     HEART_BEAT_TIMEOUT_INTERVAL + HEART_BEAT_INTERVAL - untilCheck)

WatchInv == TypeOK /\ (TimeoutCoversCheck => DownMutes /\ FirstStamps /\ LastLate)

(* What a recovery rests on. *)

\* A recorded coupler without a beat since it was last found down is late, or
\* has been silent for HALF_WORD.
SilentIsLate ==
  \A id \in Id : SUBSCRIBER_DICT[id] # NULL => heard[id] \/ skewed[id] \/ Late(id)

-----------------------------------------------------------------------------
(* What one entry of the walk does. *)

\* Every verdict moves the walk on and leaves the stamps alone.
LEMMA WalkStep ==
  ASSUME TypeOK, CheckEntry
  PROVE  /\ Serving /\ i \in Entry /\ Advance
         /\ i' = IF i = Len(HEART_BEAT_ID_LIST) THEN 0 ELSE i + 1
         /\ UNCHANGED <<SUBSCRIBER_DICT, untilCheck, skewed, steppedEarly>>
         /\ checked' <=> (checked \/ i' = 0)
<1>1. Serving /\ i \in Entry /\ Advance
  BY DEF CheckEntry, CheckUnused, CheckDown, CheckAlive, CheckNotHeard,
     is_down, is_alive, Recorded, Judged, AtEntry
<1> QED
  BY <1>1 DEF Advance

\* A coupler found late ends a check in safe mode, unless the process ends or
\* STATE_DOWN is recorded already.
LEMMA DownStep ==
  ASSUME TypeOK, CheckDown, Serving'
  PROVE  \/ I2C_VIRTUAL_MODE' = 1
         \/ CURRENT_STATE = STATE_DOWN /\ I2C_VIRTUAL_MODE' = I2C_VIRTUAL_MODE
BY DEF CheckDown, gotoSafeMode, Serving, relayVars

\* Recorded and late is found down.
LEMMA LateIsDown ==
  ASSUME TypeOK, Judged
  PROVE  /\ coupler_id \in Id
         /\ Late(coupler_id) <=> is_down
         /\ is_down => ~ is_alive
         /\ is_down => ~ SUBSCRIBER_DICT[coupler_id] <= HEART_BEAT_TIMEOUT_INTERVAL
<1>1. coupler_id \in Id
  BY ListFacts DEF Judged, AtEntry, coupler_id
<1>2. SUBSCRIBER_DICT[coupler_id] \in Age \cup {NULL}
  BY <1>1 DEF TypeOK
<1> QED
  BY <1>1, <1>2, TimeAssumption
  DEF Late, is_down, is_alive, Recorded, timestamp_delta, Age, NULL

\* A verdict that leaves the coupler judged late leaves the bus muted.
LEMMA LateMutes ==
  ASSUME TypeOK, TimeoutCoversCheck, DownMutes, FirstStamps, CheckEntry, Serving',
         Judged, Late(coupler_id), ~ steppedEarly
  PROVE  I2C_VIRTUAL_MODE' = 1
<1>1. is_down
  BY LateIsDown
<1>2. ~ is_alive /\ SUBSCRIBER_DICT[coupler_id] # NULL /\ coupler_id # 0
  BY <1>1, LateIsDown DEF is_down, Recorded, Judged
<1>3. CheckDown
  BY <1>2 DEF CheckEntry, CheckUnused, CheckAlive, CheckNotHeard
<1>4. CASE CURRENT_STATE = STATE_DOWN /\ I2C_VIRTUAL_MODE' = I2C_VIRTUAL_MODE
  <2>1. Serving /\ i \in Entry /\ i # 0 /\ coupler_id \in Id
    BY WalkStep, ListFacts, LateIsDown
  <2>2. checked
    BY <1>1, <2>1, LateIsDown DEF FirstStamps
  <2>3. Watched # {}
    BY <1>2, <2>1 DEF Watched, coupler_id
  <2> QED
    BY <1>4, <2>1, <2>2, <2>3 DEF DownMutes, Decided
<1> QED
  BY <1>3, <1>4, DownStep

-----------------------------------------------------------------------------
(* The invariant of the watch is inductive, conjunct by conjunct. *)

\* The steps that are the relay driver's alone.
LEMMA QuietStep ==
  ASSUME Signal \/ Exit \/ Client \/ UNCHANGED vars
  PROVE  /\ UNCHANGED <<watchVars, I2C_VIRTUAL_MODE>>
         /\ Serving' => Serving
BY DEF Signal, Exit, Client, vars, watchVars, stopHandler, RelayExit, Access, afterWriteTime,
   beforeReadTimeFails, safeShutdownI2CSlaveList, Serving

\* Only a new start forgets that the clock was set early.
LEMMA EarlyStays ==
  ASSUME [Next]_vars, ~ steppedEarly', ~ Start
  PROVE  ~ steppedEarly
<1>1. CASE Signal \/ Exit \/ Client \/ UNCHANGED vars
  BY <1>1, Zenon DEF Signal, Exit, Client, vars, watchVars
<1>2. CASE Tick \/ CheckBegins
  BY <1>2, Zenon DEF Tick, CheckBegins
<1>3. CASE \E d \in CLOCK_STEPS : ClockStep(d)
  BY <1>3, Zenon DEF ClockStep
<1>4. CASE \E id \in Id : dataChangeNotificationCallback(id)
  <2>1. steppedEarly' = steppedEarly
    BY <1>4 DEF dataChangeNotificationCallback
  <2> QED
    BY <2>1, Zenon
<1>5. CASE CheckEntry
  BY <1>5, Zenon DEF CheckEntry, CheckUnused, CheckDown, CheckAlive, CheckNotHeard, Advance
<1> QED
  BY <1>1, <1>2, <1>3, <1>4, <1>5, Zenon DEF Next

\* Every step keeps STATE_DOWN and the muted bus together.
LEMMA DownMutesStep ==
  ASSUME TypeOK, TimeoutCoversCheck, DownMutes, FirstStamps, [Next]_vars
  PROVE  DownMutes'
<1> SUFFICES ASSUME Watched # {}, Serving', Decided', CURRENT_STATE' = STATE_DOWN,
                    ~ steppedEarly'
             PROVE  I2C_VIRTUAL_MODE' = 1
  BY Zenon DEF DownMutes
<1>1. CASE Start
  BY <1>1, ListFacts DEF Start, Decided
<1> SUFFICES ASSUME ~ Start
             PROVE  I2C_VIRTUAL_MODE' = 1
  BY <1>1
<1>s. ~ steppedEarly
  BY EarlyStays, Zenon
<1>2. CASE Signal \/ Exit \/ Client \/ UNCHANGED vars
  BY <1>2, <1>s, QuietStep DEF DownMutes, Decided, watchVars
<1>3. CASE Tick \/ \E id \in Id : dataChangeNotificationCallback(id)
  BY <1>3, <1>s DEF Tick, dataChangeNotificationCallback, DownMutes, Decided, Serving, relayVars,
     Idle
<1>4. CASE CheckBegins
  <2>1. checked
    BY <1>4, ListFacts DEF CheckBegins, Decided
  <2> QED
    BY <1>4, <2>1, <1>s DEF CheckBegins, DownMutes, Decided, relayVars, Idle
<1>5. CASE CheckEntry
  <2>1. CASE CheckUnused
    <3>1. Decided
      <4>1. HEART_BEAT_ID_LIST[i] = 0 /\ i \in Entry
        BY <2>1, <1>5, WalkStep DEF CheckUnused, coupler_id
      <4>2. PICK e \in Entry : HEART_BEAT_ID_LIST[e] # 0
        BY DEF Watched
      <4>3. CASE i' = 0
        BY <4>1, <4>2, <4>3, <1>5, WalkStep, ListFacts DEF Decided
      <4>4. CASE i' = i + 1 /\ checked' = checked
        BY <4>1, <4>4, ListFacts DEF Decided
      <4> QED
        BY <4>3, <4>4, <1>5, WalkStep, ListFacts DEF Advance, TypeOK
    <3> QED
      BY <2>1, <3>1, <1>5, <1>s, WalkStep DEF CheckUnused, DownMutes, relayVars
  <2>2. CASE CheckDown
    <3>1. Judged /\ is_down
      BY <2>2 DEF CheckDown, is_down, Recorded
    <3> QED
      BY <3>1, <1>5, <1>s, LateIsDown, LateMutes
  <2>3. CASE CheckAlive \/ CheckNotHeard
    BY <2>3 DEF CheckAlive, CheckNotHeard, STATE_DOWN, STATE_UP, STATE_NO_INITIAL_HEART_BEAT
  <2> QED
    BY <1>5, <2>1, <2>2, <2>3 DEF CheckEntry
<1>6. CASE \E d \in CLOCK_STEPS : ClockStep(d)
  <2>1. UNCHANGED <<relayVars, CURRENT_STATE, checked, i>>
    BY <1>6 DEF ClockStep
  <2> QED
    BY <2>1, <1>s DEF DownMutes, Decided, Serving, relayVars
<1> QED
  BY <1>2, <1>3, <1>4, <1>5, <1>6 DEF Next

\* Every step before the first check is done keeps the stamps young.
LEMMA FirstStampsStep ==
  ASSUME TypeOK, TypeOK', TimeoutCoversCheck, FirstStamps, [Next]_vars
  PROVE  FirstStamps'
<1> SUFFICES ASSUME Serving', ~ checked', ~ steppedEarly', NEW id \in Id
             PROVE  SUBSCRIBER_DICT'[id] <=
                      IF i' = 0 THEN HEART_BEAT_INTERVAL - untilCheck'
                                ELSE HEART_BEAT_TIMEOUT_INTERVAL
  BY Zenon DEF FirstStamps
<1>a. /\ SUBSCRIBER_DICT[id] \in Age \cup {NULL}
      /\ untilCheck \in -LATENESS .. HEART_BEAT_INTERVAL
  BY DEF TypeOK
<1>1. CASE Start
  BY <1>1, TimeAssumption DEF Start, NoStamp, NULL
<1> SUFFICES ASSUME ~ Start
             PROVE  SUBSCRIBER_DICT'[id] <=
                      IF i' = 0 THEN HEART_BEAT_INTERVAL - untilCheck'
                                ELSE HEART_BEAT_TIMEOUT_INTERVAL
  BY <1>1
<1>s. ~ steppedEarly
  BY EarlyStays, Zenon
<1>2. CASE Signal \/ Exit \/ Client \/ UNCHANGED vars
  BY <1>2, <1>s, QuietStep DEF FirstStamps, watchVars
<1>3. CASE Tick
  <2>1. SUBSCRIBER_DICT[id] <= HEART_BEAT_INTERVAL - untilCheck
    BY <1>3, <1>s DEF Tick, Idle, FirstStamps
  <2>2. i' = 0 /\ untilCheck' = untilCheck - 1
    BY <1>3 DEF Tick, Idle
  <2>3. SUBSCRIBER_DICT'[id] \in {NULL, 0, SUBSCRIBER_DICT[id] + 1}
    BY <1>3 DEF Tick
  <2> QED
    BY <1>a, <2>1, <2>2, <2>3, TimeAssumption DEF Age, NULL
<1>4. CASE \E other \in Id : dataChangeNotificationCallback(other)
  <2>1. Idle /\ ~ checked /\ i' = 0 /\ untilCheck' = untilCheck
    BY <1>4 DEF dataChangeNotificationCallback, Idle
  <2>2. SUBSCRIBER_DICT'[id] \in {0, SUBSCRIBER_DICT[id]}
    BY <1>4 DEF dataChangeNotificationCallback, TypeOK
  <2> QED
    BY <1>a, <1>s, <2>1, <2>2, TimeAssumption DEF FirstStamps, Idle
<1>5. CASE CheckBegins
  BY <1>a, <1>s, <1>5, TimeAssumption
  DEF CheckBegins, Idle, FirstStamps, TimeoutCoversCheck, Age, NULL
<1>6. CASE CheckEntry
  <2>1. Serving /\ ~ checked /\ i' # 0
    BY <1>6, WalkStep, Zenon
  <2>2. i # 0 /\ SUBSCRIBER_DICT' = SUBSCRIBER_DICT
    BY <1>6, WalkStep, ListFacts
  <2> QED
    BY <1>s, <2>1, <2>2 DEF FirstStamps
<1>7. CASE \E d \in CLOCK_STEPS : ClockStep(d)
  <2>1. checked' = checked /\ steppedEarly' = (steppedEarly \/ ~ checked)
    BY <1>7 DEF ClockStep
  <2> QED
    BY <2>1, Zenon
<1> QED
  BY <1>2, <1>3, <1>4, <1>5, <1>6, <1>7 DEF Next

\* Every step keeps the lateness of the last watched coupler bounded, or the bus
\* muted.
LEMMA LastLateStep ==
  ASSUME TypeOK, TypeOK', TimeoutCoversCheck, DownMutes, FirstStamps, LastLate, [Next]_vars
  PROVE  LastLate'
<1> SUFFICES ASSUME NEW e \in Entry, IsLastWatched(e), Serving',
                    Late(HEART_BEAT_ID_LIST[e])', I2C_VIRTUAL_MODE' = 0,
                    Trusted(e)'
             PROVE  /\ i' <= e
                    /\ i' = 0 => SUBSCRIBER_DICT'[HEART_BEAT_ID_LIST[e]] <=
                         HEART_BEAT_TIMEOUT_INTERVAL + HEART_BEAT_INTERVAL - untilCheck'
  BY DEF LastLate
<1> DEFINE w == HEART_BEAT_ID_LIST[e]
<1>a. /\ w \in Id
      /\ e \in 1 .. Len(HEART_BEAT_ID_LIST)
      /\ SUBSCRIBER_DICT[w] \in Age \cup {NULL}
      /\ untilCheck \in -LATENESS .. HEART_BEAT_INTERVAL
  BY ListFacts DEF TypeOK, IsLastWatched
<1>b. SUBSCRIBER_DICT'[w] < HALF_WORD /\ SUBSCRIBER_DICT'[w] > HEART_BEAT_TIMEOUT_INTERVAL
  BY DEF Late
<1> HIDE DEF w
<1>1. CASE Start
  BY <1>1, <1>a, <1>b, TimeAssumption DEF Start, NoStamp, NULL
<1> SUFFICES ASSUME ~ Start
             PROVE  /\ i' <= e
                    /\ i' = 0 => SUBSCRIBER_DICT'[HEART_BEAT_ID_LIST[e]] <=
                         HEART_BEAT_TIMEOUT_INTERVAL + HEART_BEAT_INTERVAL - untilCheck'
  BY <1>1
<1>s. ~ steppedEarly /\ ~ steppedEarly' /\ ~ skewed'[w]
  BY EarlyStays, Zenon DEF Trusted, w
<1>t. ~ skewed[w] => Trusted(e)
  BY <1>s, Zenon DEF Trusted, w
<1>2. CASE Signal \/ Exit \/ Client \/ UNCHANGED vars
  <2>1. Trusted(e)
    BY <1>2, <1>s, <1>t, QuietStep, Zenon DEF watchVars
  <2> QED
    BY <1>2, <2>1, QuietStep DEF LastLate, Late, watchVars
<1>3. CASE Tick
  <2>1. i = 0 /\ i' = 0 /\ untilCheck' = untilCheck - 1
    BY <1>3 DEF Tick, Idle
  <2>2. SUBSCRIBER_DICT'[w] = SUBSCRIBER_DICT[w] + 1
    BY <1>3, <1>a, <1>b, TimeAssumption DEF Tick, NULL
  <2>3. SUBSCRIBER_DICT[w] > HEART_BEAT_TIMEOUT_INTERVAL =>
          SUBSCRIBER_DICT[w] <=
            HEART_BEAT_TIMEOUT_INTERVAL + HEART_BEAT_INTERVAL - untilCheck
    <3>0. SUBSCRIBER_DICT[w] \in Int /\ HALF_WORD \in Int
      BY <1>a, TimeAssumption DEF Age, NULL
    <3>1. SUBSCRIBER_DICT[w] < HALF_WORD
      BY <1>b, <2>2, <3>0
    <3>2. Trusted(e)
      BY <1>3, <1>a, <1>s, <1>t, Zenon DEF Tick
    <3> QED
      BY <1>3, <2>1, <3>1, <3>2 DEF Tick, Idle, LastLate, Late, relayVars, w
  <2>4. SUBSCRIBER_DICT'[w] <=
          HEART_BEAT_TIMEOUT_INTERVAL + HEART_BEAT_INTERVAL - untilCheck'
    BY <1>a, <2>1, <2>2, <2>3, TimeAssumption DEF Age, NULL
  <2> QED
    BY <1>a, <2>1, <2>4 DEF w
<1>4. CASE \E id \in Id : dataChangeNotificationCallback(id)
  <2>1. /\ Idle /\ i' = i /\ untilCheck' = untilCheck
        /\ I2C_VIRTUAL_MODE = 0
    BY <1>4 DEF dataChangeNotificationCallback, relayVars
  <2>2. SUBSCRIBER_DICT'[w] = SUBSCRIBER_DICT[w]
    BY <1>4, <1>a, <1>b, TimeAssumption DEF dataChangeNotificationCallback, TypeOK
  <2>3. Trusted(e)
    <3>1. PICK id \in Id : dataChangeNotificationCallback(id)
      BY <1>4
    <3>2. id # w
      BY <1>a, <1>b, <3>1, TimeAssumption DEF dataChangeNotificationCallback, TypeOK
    <3>3. skewed'[w] = skewed[w]
      BY <1>a, <3>1, <3>2 DEF dataChangeNotificationCallback, TypeOK
    <3> QED
      BY <1>s, <1>t, <3>3, Zenon
  <2> QED
    BY <1>b, <2>1, <2>2, <2>3 DEF LastLate, Late, Idle, w
<1>5. CASE CheckBegins
  BY <1>5, <1>a DEF CheckBegins
<1>6. CASE CheckEntry
  <2>1. CASE i < e
    BY <1>6, <1>a, <2>1, WalkStep, ListFacts
  <2>2. CASE i = e
    <3>1. Judged /\ coupler_id = w
      BY <1>6, <2>2, WalkStep DEF Judged, AtEntry, coupler_id, IsLastWatched, w
    <3>2. Late(coupler_id)
      BY <1>6, <1>b, <3>1, WalkStep DEF Late
    <3> QED
      BY <1>6, <1>s, <3>1, <3>2, LateMutes
  <2>3. CASE i > e
    <3>1. CheckUnused
      BY <1>6, <2>3, WalkStep DEF CheckEntry, CheckDown, CheckAlive, CheckNotHeard,
         is_down, is_alive, Recorded, Judged, coupler_id, IsLastWatched
    <3>2. I2C_VIRTUAL_MODE = 0
      BY <3>1 DEF CheckUnused, relayVars
    <3>3. Late(w)
      BY <1>6, <1>b, WalkStep DEF Late
    <3>4. Trusted(e)
      BY <1>6, <1>s, <1>t, WalkStep, Zenon
    <3> QED
      BY <1>6, <1>a, <2>3, <3>2, <3>3, <3>4, WalkStep, ListFacts DEF LastLate, w
  <2> QED
    BY <1>6, <1>a, <2>1, <2>2, <2>3, WalkStep, ListFacts
<1>7. CASE \E d \in CLOCK_STEPS : ClockStep(d)
  <2>1. /\ i' = 0 /\ i = 0 /\ I2C_VIRTUAL_MODE = 0
        /\ SUBSCRIBER_DICT[w] # NULL => skewed'[w]
    BY <1>7, <1>a DEF ClockStep, Idle, relayVars
  <2>2. SUBSCRIBER_DICT[w] = NULL
    BY <1>s, <2>1, Zenon
  <2>3. SUBSCRIBER_DICT'[w] = NULL
    BY <1>7, <1>a, <2>2 DEF ClockStep
  <2> QED
    BY <1>b, <2>3, TimeAssumption DEF NULL
<1> QED
  BY <1>2, <1>3, <1>4, <1>5, <1>6, <1>7 DEF Next

\* The invariant of the watch holds for every list and every timing.
THEOREM WatchCorrect == Spec => []WatchInv
<1>1. Init => DownMutes /\ FirstStamps /\ LastLate
  <2>1. Init => ~ Serving
    BY DEF Init, RelayInit, Serving
  <2> QED
    BY <2>1, Zenon DEF DownMutes, FirstStamps, LastLate, Late
<1>2. TypeOK /\ TypeOK' /\ WatchInv /\ [Next]_vars => WatchInv'
  <2> SUFFICES ASSUME TypeOK, TypeOK', WatchInv, [Next]_vars, TimeoutCoversCheck
               PROVE  DownMutes' /\ FirstStamps' /\ LastLate'
    BY DEF WatchInv, TimeoutCoversCheck
  <2> QED
    BY DownMutesStep, FirstStampsStep, LastLateStep DEF WatchInv
<1>3. TypeOK /\ Init => WatchInv
  BY <1>1 DEF WatchInv
<1> QED
  BY <1>2, <1>3, TypeCorrect, PTL DEF Spec

\* Between checks, the coupler that recorded "down" is in safe mode, with the
\* relays off wherever the shutdown reached.
THEOREM DownCorrect == Spec => []DownMeansSafe
<1>1. WatchInv /\ SafeModeMeansOff => DownMeansSafe
  BY DEF WatchInv, DownMutes, Decided, SafeModeMeansOff, DownMeansSafe, Safe, Idle,
     TrustedStart
<1> QED
  BY <1>1, WatchCorrect, RelayFacts, PTL

\* The coupler judged last is guarded within the deadline.
THEOREM DeadlineCorrect == Spec => []LastWatchedDeadline
<1>1. ASSUME WatchInv, SafeModeMeansOff
      PROVE  LastWatchedDeadline
  <2> SUFFICES ASSUME TimeoutCoversCheck, ~ steppedEarly,
                      NEW e \in Entry, IsLastWatched(e), Idle,
                      Overdue(HEART_BEAT_ID_LIST[e]), ~ skewed[HEART_BEAT_ID_LIST[e]]
               PROVE  Safe
    BY DEF LastWatchedDeadline, TrustedStart
  <2> DEFINE age == SUBSCRIBER_DICT[HEART_BEAT_ID_LIST[e]]
  <2>1. /\ age \in Age \cup {NULL}
        /\ untilCheck \in -LATENESS .. HEART_BEAT_INTERVAL
        /\ I2C_VIRTUAL_MODE \in {0, 1}
    BY <1>1, ListFacts DEF WatchInv, TypeOK, RelayTypeOK, IsLastWatched
  <2>2. Late(HEART_BEAT_ID_LIST[e])
    BY <2>1, TimeAssumption DEF Overdue, Late, Age, NULL
  <2>3. ~ age <= HEART_BEAT_TIMEOUT_INTERVAL + HEART_BEAT_INTERVAL - untilCheck
    BY <2>1, TimeAssumption DEF Overdue, Age, NULL
  <2>4. I2C_VIRTUAL_MODE = 1
    BY <1>1, <2>1, <2>2, <2>3 DEF WatchInv, LastLate, Trusted, Idle
  <2> QED
    BY <1>1, <2>4 DEF SafeModeMeansOff, Safe, Idle
<1> QED
  BY <1>1, WatchCorrect, RelayFacts, PTL

-----------------------------------------------------------------------------
(* Recovery. *)

\* Every step keeps a coupler without a new beat late.
LEMMA SilentIsLateStep ==
  ASSUME TypeOK, SilentIsLate, [Next]_vars
  PROVE  SilentIsLate'
<1> SUFFICES ASSUME NEW id \in Id, SUBSCRIBER_DICT'[id] # NULL,
                    ~ heard'[id], ~ skewed'[id]
             PROVE  Late(id)'
  BY DEF SilentIsLate
<1>a. SUBSCRIBER_DICT[id] \in Age \cup {NULL}
  BY DEF TypeOK
<1>1. CASE Start
  BY <1>1 DEF Start, NoStamp
<1>2. CASE Signal \/ Exit \/ Client \/ UNCHANGED vars
  BY <1>2, QuietStep DEF SilentIsLate, Late, watchVars
<1>3. CASE Tick
  <2>1. /\ heard' = heard /\ SUBSCRIBER_DICT[id] # NULL
        /\ ~ skewed[id] /\ SUBSCRIBER_DICT'[id] # HALF_WORD
    BY <1>3 DEF Tick
  <2>2. Late(id)
    BY <2>1 DEF SilentIsLate
  <2> QED
    BY <1>3, <1>a, <2>1, <2>2, TimeAssumption DEF Tick, Late, Age, NULL
<1>4. ASSUME NEW other \in Id, dataChangeNotificationCallback(other)
      PROVE  Late(id)'
  <2>1. id # other
    BY <1>4 DEF dataChangeNotificationCallback, TypeOK
  <2>2. /\ heard'[id] = heard[id] /\ skewed'[id] = skewed[id]
        /\ SUBSCRIBER_DICT'[id] = SUBSCRIBER_DICT[id]
    BY <1>4, <2>1 DEF dataChangeNotificationCallback, TypeOK
  <2> QED
    BY <2>2 DEF SilentIsLate, Late
<1>5. CASE CheckBegins
  BY <1>5 DEF CheckBegins, SilentIsLate, Late
<1>6. CASE CheckEntry
  <2>1. SUBSCRIBER_DICT' = SUBSCRIBER_DICT /\ skewed' = skewed
    BY <1>6, WalkStep
  <2>2. CASE heard' = heard
    BY <2>1, <2>2 DEF SilentIsLate, Late
  <2>3. CASE heard' # heard
    <3>1. Judged /\ is_down /\ heard' = [heard EXCEPT ![coupler_id] = FALSE]
      BY <1>6, <2>3 DEF CheckEntry, CheckUnused, CheckDown, CheckAlive, CheckNotHeard,
         is_down, Recorded
    <3>2. CASE id = coupler_id
      BY <2>1, <3>1, <3>2, LateIsDown DEF Late
    <3>3. CASE id # coupler_id
      BY <2>1, <3>1, <3>3 DEF SilentIsLate, Late, TypeOK
    <3> QED
      BY <3>2, <3>3
  <2> QED
    BY <2>2, <2>3
<1>7. CASE \E d \in CLOCK_STEPS : ClockStep(d)
  BY <1>7, Zenon DEF ClockStep
<1> QED
  BY <1>1, <1>2, <1>3, <1>4, <1>5, <1>6, <1>7 DEF Next

\* Safe mode is left by a verdict on a coupler found alive, or by a new start.
LEMMA OnlyAliveRecovers ==
  ASSUME TypeOK, [Next]_vars, I2C_VIRTUAL_MODE = 1, I2C_VIRTUAL_MODE' = 0, Serving
  PROVE  is_alive
<1>1. CASE Start
  BY <1>1 DEF Start, RelayStart, Serving
<1>2. CASE Signal \/ Exit \/ Client \/ UNCHANGED vars
  BY <1>2, QuietStep
<1>3. CASE Tick \/ CheckBegins \/ \E id \in Id : dataChangeNotificationCallback(id)
  BY <1>3 DEF Tick, CheckBegins, dataChangeNotificationCallback, relayVars
<1>5. CASE \E d \in CLOCK_STEPS : ClockStep(d)
  BY <1>5 DEF ClockStep, relayVars
<1>4. CASE CheckEntry
  BY <1>4 DEF CheckEntry, CheckUnused, CheckDown, CheckAlive, CheckNotHeard,
     gotoSafeMode, relayVars
<1> QED
  BY <1>1, <1>2, <1>3, <1>4, <1>5 DEF Next

\* Leaving safe mode takes a new beat of the coupler that is judged alive, or a
\* silence that wraps the difference of the times.
THEOREM RecoveryCorrect == Spec => RecoveryIsEarned
<1>1. Init => SilentIsLate
  BY DEF Init, NoStamp, SilentIsLate
<1>2. TypeOK /\ SilentIsLate /\ [Next]_vars => SilentIsLate'
  BY SilentIsLateStep
<1>3. TypeOK /\ SilentIsLate /\ [Next]_vars =>
        [I2C_VIRTUAL_MODE = 1 /\ I2C_VIRTUAL_MODE' = 0 /\ Serving =>
           heard[coupler_id] \/ skewed[coupler_id]]_vars
  <2> SUFFICES ASSUME TypeOK, SilentIsLate, [Next]_vars,
                      I2C_VIRTUAL_MODE = 1, I2C_VIRTUAL_MODE' = 0, Serving
               PROVE  heard[coupler_id] \/ skewed[coupler_id]
    OBVIOUS
  <2>1. is_alive
    BY OnlyAliveRecovers
  <2>2. Judged /\ SUBSCRIBER_DICT[coupler_id] # NULL /\ ~ Late(coupler_id)
    BY <2>1, LateIsDown DEF is_alive, Recorded
  <2> QED
    BY <2>2, LateIsDown DEF SilentIsLate
<1> QED
  BY <1>1, <1>2, <1>3, TypeCorrect, PTL DEF Spec, RecoveryIsEarned

-----------------------------------------------------------------------------
(***************************************************************************)
(* One watched coupler.  Its verdicts are then the only ones, and the state *)
(* says what the mode is from the first verdict on.                        *)
(***************************************************************************)

\* Before the first verdict nothing is muted; after it the state and the mode
\* agree, and the coupler that had a verdict other than "not heard" has a stamp.
OneCoupler ==
  TrustedStart /\ OneWatched /\ Serving /\ OPERATIONAL_MODE = 0 =>
    /\ ~ Decided => CURRENT_STATE = STATE_DOWN /\ I2C_VIRTUAL_MODE = 0
    /\ Decided /\ Watched # {} => (I2C_VIRTUAL_MODE = 1 <=> CURRENT_STATE = STATE_DOWN)
    /\ Decided /\ CURRENT_STATE # STATE_NO_INITIAL_HEART_BEAT =>
         \A id \in Watched : SUBSCRIBER_DICT[id] # NULL

\* Only a start chooses the mode of operation.
LEMMA ModeStays ==
  ASSUME [Next]_vars, ~ Start
  PROVE  OPERATIONAL_MODE' = OPERATIONAL_MODE
<1>1. CASE Signal \/ Exit \/ Client
  BY <1>1 DEF Signal, Exit, Client, stopHandler, RelayExit, Access, afterWriteTime,
     beforeReadTimeFails
<1>2. CASE Tick \/ CheckBegins \/ (\E d \in CLOCK_STEPS : ClockStep(d))
  BY <1>2 DEF Tick, CheckBegins, ClockStep, relayVars
<1>3. CASE (\E id \in Id : dataChangeNotificationCallback(id)) \/ UNCHANGED vars
  BY <1>3 DEF dataChangeNotificationCallback, relayVars, vars
<1>4. CASE CheckEntry
  BY <1>4 DEF CheckEntry, CheckUnused, CheckDown, CheckAlive, CheckNotHeard, gotoSafeMode,
     gotoNormalMode, relayVars
<1> QED
  BY <1>1, <1>2, <1>3, <1>4 DEF Next

\* A verdict is not taken back during the walk, and its entry counts from then on.
LEMMA WalkDecides ==
  ASSUME TypeOK, CheckEntry, Decided \/ Judged
  PROVE  Decided'
<1>0. i \in Entry /\ Entry = 1 .. Len(HEART_BEAT_ID_LIST)
  BY WalkStep, ListFacts
<1>1. CASE i' = 0
  BY <1>1, WalkStep, Zenon DEF Decided
<1>2. CASE i' = i + 1
  <2>1. CASE checked
    BY <2>1, WalkStep, Zenon DEF Decided
  <2>2. CASE Judged
    <3>1. i < i' /\ HEART_BEAT_ID_LIST[i] # 0
      BY <1>0, <1>2, <2>2, ListFacts DEF Judged, coupler_id
    <3> QED
      BY <1>0, <3>1 DEF Decided
  <2>3. CASE \E f \in Entry : f < i /\ HEART_BEAT_ID_LIST[f] # 0
    BY <1>0, <1>2, <2>3, ListFacts DEF Decided
  <2> QED
    BY <2>1, <2>2, <2>3, Zenon DEF Decided
<1> QED
  BY <1>1, <1>2, WalkStep

\* An entry that is not used decides nothing.
LEMMA UnusedDecides ==
  ASSUME TypeOK, CheckEntry, CheckUnused, Watched # {}, Decided'
  PROVE  Decided
<1>1. HEART_BEAT_ID_LIST[i] = 0 /\ i \in Entry
  BY WalkStep DEF CheckUnused, coupler_id
<1>2. PICK e \in Entry : HEART_BEAT_ID_LIST[e] # 0
  BY DEF Watched
<1>3. CASE i' = 0
  BY <1>1, <1>2, <1>3, WalkStep, ListFacts DEF Decided
<1>4. CASE i' = i + 1 /\ checked' = checked
  BY <1>1, <1>4, ListFacts DEF Decided
<1> QED
  BY <1>3, <1>4, WalkStep, ListFacts DEF Advance, TypeOK

\* A step between verdicts that keeps the state and the mode, forgets no stamp
\* and decides nothing keeps the two together.
LEMMA BetweenVerdicts ==
  ASSUME TypeOK, OneCoupler, Serving, ~ steppedEarly, OPERATIONAL_MODE' = OPERATIONAL_MODE,
         UNCHANGED <<CURRENT_STATE, I2C_VIRTUAL_MODE>>,
         Decided' <=> Decided,
         \A id \in Id : SUBSCRIBER_DICT[id] # NULL => SUBSCRIBER_DICT'[id] # NULL
  PROVE  OneCoupler'
BY ListFacts, IdAssumption DEF OneCoupler, TrustedStart

\* A verdict on the one watched coupler makes the state and the mode agree.
LEMMA VerdictAgrees ==
  ASSUME TypeOK, TrustedStart, OneWatched, DownMutes, FirstStamps, OneCoupler,
         CheckEntry, Judged, OPERATIONAL_MODE = 0, Serving'
  PROVE  /\ I2C_VIRTUAL_MODE' = 1 <=> CURRENT_STATE' = STATE_DOWN
         /\ CURRENT_STATE' # STATE_NO_INITIAL_HEART_BEAT =>
              \A id \in Watched : SUBSCRIBER_DICT'[id] # NULL
<1> USE DEF STATE_DOWN, STATE_UP, STATE_NO_INITIAL_HEART_BEAT
<1>0. /\ Serving /\ SUBSCRIBER_DICT' = SUBSCRIBER_DICT /\ ~ steppedEarly
      /\ I2C_VIRTUAL_MODE \in {0, 1}
  BY WalkStep DEF TypeOK, RelayTypeOK, TrustedStart
<1>1. \A id \in Watched : id = coupler_id
  BY WalkStep DEF OneWatched, Judged, Watched, coupler_id
<1>2. Watched # {}
  BY WalkStep DEF Judged, Watched, coupler_id
<1>3. CASE CheckDown
  <2>1. is_down /\ Late(coupler_id) /\ SUBSCRIBER_DICT[coupler_id] # NULL
    BY <1>3, LateIsDown DEF CheckDown, is_down, Recorded
  <2>2. I2C_VIRTUAL_MODE' = 1
    BY <1>0, <2>1, LateMutes DEF TrustedStart
  <2>3. CURRENT_STATE' = STATE_DOWN
    BY <1>3 DEF CheckDown
  <2> QED
    BY <1>0, <1>1, <2>1, <2>2, <2>3
<1>4. CASE CheckAlive
  <2>1. CURRENT_STATE' = STATE_UP /\ SUBSCRIBER_DICT[coupler_id] # NULL
    BY <1>4 DEF CheckAlive, is_alive, Recorded
  <2>2. I2C_VIRTUAL_MODE' = 0
    <3>1. CASE CURRENT_STATE = STATE_DOWN
      BY <1>4, <3>1 DEF CheckAlive, gotoNormalMode
    <3>2. CASE CURRENT_STATE # STATE_DOWN
      <4>1. I2C_VIRTUAL_MODE # 1
        BY <1>0, <1>2, <3>2 DEF OneCoupler
      <4> QED
        BY <1>0, <1>4, <3>2, <4>1 DEF CheckAlive, relayVars
    <3> QED
      BY <3>1, <3>2
  <2> QED
    BY <1>0, <1>1, <2>1, <2>2
<1>5. CASE CheckNotHeard
  <2>1. /\ CURRENT_STATE' = STATE_NO_INITIAL_HEART_BEAT
        /\ SUBSCRIBER_DICT[coupler_id] = NULL
        /\ I2C_VIRTUAL_MODE' = I2C_VIRTUAL_MODE
    BY <1>5 DEF CheckNotHeard, relayVars
  <2>2. coupler_id \in Watched
    BY WalkStep DEF Judged, Watched, coupler_id
  <2>3. I2C_VIRTUAL_MODE # 1
    BY <1>0, <1>2, <2>1, <2>2 DEF OneCoupler
  <2> QED
    BY <1>0, <2>1, <2>3
<1> QED
  BY <1>3, <1>4, <1>5 DEF CheckEntry, CheckUnused, Judged

\* Every step keeps the state and the mode together.
LEMMA OneCouplerStep ==
  ASSUME TypeOK, TimeoutCoversCheck, DownMutes, FirstStamps, OneCoupler, [Next]_vars
  PROVE  OneCoupler'
<1> SUFFICES ASSUME OneWatched, Serving', ~ steppedEarly', OPERATIONAL_MODE' = 0
             PROVE  OneCoupler'
  BY Zenon DEF OneCoupler, TrustedStart
<1>1. CASE Start
  <2>1. ~ Decided' /\ CURRENT_STATE' = STATE_DOWN
    BY <1>1, ListFacts DEF Start, Decided
  <2>2. I2C_VIRTUAL_MODE' = 0
    BY <1>1 DEF Start, RelayStart
  <2> QED
    BY <2>1, <2>2 DEF OneCoupler
<1> SUFFICES ASSUME ~ Start
             PROVE  OneCoupler'
  BY <1>1
<1>s. ~ steppedEarly /\ TrustedStart
  BY EarlyStays, Zenon DEF TrustedStart
<1>m. OPERATIONAL_MODE = 0 /\ OPERATIONAL_MODE' = OPERATIONAL_MODE
  BY ModeStays
<1>2. CASE Signal \/ Exit \/ Client \/ UNCHANGED vars
  <2>1. /\ Serving
        /\ UNCHANGED <<CURRENT_STATE, I2C_VIRTUAL_MODE, SUBSCRIBER_DICT, checked, i>>
    BY <1>2, QuietStep DEF watchVars
  <2>2. Decided' <=> Decided
    BY <2>1, Zenon DEF Decided
  <2> QED
    BY <1>s, <1>m, <2>1, <2>2, BetweenVerdicts
<1>3. CASE \/ Tick \/ CheckBegins
           \/ \E d \in CLOCK_STEPS : ClockStep(d)
           \/ \E id \in Id : dataChangeNotificationCallback(id)
  <2>1. Serving /\ UNCHANGED <<CURRENT_STATE, I2C_VIRTUAL_MODE, checked>> /\ i = 0
    BY <1>3 DEF Tick, CheckBegins, ClockStep, dataChangeNotificationCallback, relayVars, Idle
  <2>2. i' \in {0, 1}
    BY <1>3, <2>1 DEF Tick, CheckBegins, ClockStep, dataChangeNotificationCallback
  <2>3. Decided' <=> Decided
    <3>1. ~ \E f \in Entry : f < i
      BY <2>1, ListFacts
    <3>2. ~ \E f \in Entry : f < i'
      BY <2>2, ListFacts
    <3> QED
      BY <2>1, <3>1, <3>2, Zenon DEF Decided
  <2>4. ASSUME NEW id \in Id, SUBSCRIBER_DICT[id] # NULL
        PROVE  SUBSCRIBER_DICT'[id] # NULL
    <3>1. SUBSCRIBER_DICT[id] \in Age
      BY <2>4 DEF TypeOK
    <3>2. CASE Tick
      BY <2>4, <3>1, <3>2, TimeAssumption DEF Tick, Age, NULL
    <3>3. CASE CheckBegins
      BY <2>4, <3>3 DEF CheckBegins
    <3>4. CASE \E d \in CLOCK_STEPS : ClockStep(d)
      BY <2>4, <3>4, ShiftedAge, TimeAssumption DEF ClockStep, Age, NULL
    <3>5. CASE \E other \in Id : dataChangeNotificationCallback(other)
      BY <2>4, <3>5 DEF dataChangeNotificationCallback, TypeOK, NULL
    <3> QED
      BY <1>3, <3>2, <3>3, <3>4, <3>5
  <2> QED
    BY <1>s, <1>m, <2>1, <2>3, <2>4, BetweenVerdicts
<1>4. CASE CheckEntry
  <2>1. CASE CheckUnused
    <3>1. Serving /\ UNCHANGED <<CURRENT_STATE, I2C_VIRTUAL_MODE, SUBSCRIBER_DICT>>
      BY <1>4, <2>1, WalkStep DEF CheckUnused, relayVars
    <3>2. Decided => Decided'
      BY <1>4, WalkDecides
    <3>3. Watched # {} /\ Decided' => Decided
      BY <1>4, <2>1, UnusedDecides
    <3> QED
      BY <1>s, <1>m, <3>1, <3>2, <3>3 DEF OneCoupler
  <2>2. CASE ~ CheckUnused
    <3>1. Judged
      BY <1>4, <2>2 DEF CheckEntry, CheckDown, CheckAlive, CheckNotHeard, is_down, is_alive,
         Recorded
    <3>2. Decided'
      BY <1>4, <3>1, WalkDecides
    <3> QED
      BY <1>4, <1>s, <1>m, <3>1, <3>2, VerdictAgrees DEF OneCoupler
  <2> QED
    BY <2>1, <2>2
<1> QED
  BY <1>2, <1>3, <1>4 DEF Next

OneInv == TimeoutCoversCheck => OneCoupler

\* The state and the mode of a coupler that watches one other agree.
THEOREM OneCorrect == Spec => []OneInv
<1>1. Init => OneInv
  BY DEF Init, RelayInit, Serving, OneInv, OneCoupler
<1>2. TypeOK /\ WatchInv /\ OneInv /\ [Next]_vars => OneInv'
  BY OneCouplerStep DEF WatchInv, OneInv, TimeoutCoversCheck
<1> QED
  BY <1>1, <1>2, TypeCorrect, WatchCorrect, PTL DEF Spec

\* Between checks, safe mode and the state DOWN are the same thing.
THEOREM ModeCorrect == Spec => []ModeFollowsState
<1>1. OneInv => ModeFollowsState
  <2> SUFFICES ASSUME OneInv, TrustedStart, OneWatched, Watched # {}, Idle, checked,
                      OPERATIONAL_MODE = 0
               PROVE  I2C_VIRTUAL_MODE = 1 <=> CURRENT_STATE = STATE_DOWN
    BY DEF ModeFollowsState
  <2>1. Decided
    BY Zenon DEF Decided
  <2> QED
    BY <2>1 DEF OneInv, OneCoupler, TrustedStart, Idle
<1> QED
  BY <1>1, OneCorrect, PTL

\* The statistics counter moves exactly with the switches to safe mode.
THEOREM CounterCorrect == Spec => CounterCountsSwitches
<1>1. TypeOK /\ WatchInv /\ OneInv /\ [Next]_vars =>
        [OneWatched /\ COUNTER_WORD > 1 /\ TrustedStart
           /\ OPERATIONAL_MODE = 0 /\ Serving /\ proc' # "aborted" =>
           (SAFE_MODE_STATE_COUNTER' # SAFE_MODE_STATE_COUNTER <=>
              I2C_VIRTUAL_MODE = 0 /\ I2C_VIRTUAL_MODE' = 1)]_vars
  <2> SUFFICES ASSUME TypeOK, WatchInv, OneInv, Next, OneWatched, COUNTER_WORD > 1,
                      TrustedStart, OPERATIONAL_MODE = 0, Serving, proc' # "aborted"
               PROVE  SAFE_MODE_STATE_COUNTER' # SAFE_MODE_STATE_COUNTER <=>
                        I2C_VIRTUAL_MODE = 0 /\ I2C_VIRTUAL_MODE' = 1
    OBVIOUS
  <2>0. SAFE_MODE_STATE_COUNTER \in 0 .. COUNTER_WORD - 1 /\ I2C_VIRTUAL_MODE \in {0, 1}
    BY DEF TypeOK, RelayTypeOK
  <2>1. CASE CheckDown
    <3>1. Judged /\ is_down
      BY <2>1 DEF CheckDown, is_down, Recorded
    <3>2. checked
      <4>1. ~ SUBSCRIBER_DICT[coupler_id] <= HEART_BEAT_TIMEOUT_INTERVAL /\ coupler_id \in Id
        BY <3>1, LateIsDown
      <4>2. i # 0
        BY <3>1, ListFacts DEF Judged, AtEntry
      <4> QED
        BY <4>1, <4>2 DEF WatchInv, FirstStamps, TrustedStart
    <3>3. Decided
      BY <3>2, Zenon DEF Decided
    <3>4. Watched # {}
      BY <3>1 DEF Judged, AtEntry, Watched, coupler_id
    <3>5. I2C_VIRTUAL_MODE = 1 <=> CURRENT_STATE = STATE_DOWN
      BY <3>3, <3>4 DEF OneInv, OneCoupler, TrustedStart
    <3>6. CASE CURRENT_STATE = STATE_DOWN
      BY <2>1, <3>5, <3>6 DEF CheckDown
    <3>7. CASE CURRENT_STATE # STATE_DOWN
      <4>1. I2C_VIRTUAL_MODE = 0 /\ I2C_VIRTUAL_MODE' = 1
        BY <2>0, <2>1, <3>5, <3>7 DEF CheckDown, gotoSafeMode
      <4>2. SAFE_MODE_STATE_COUNTER' = (SAFE_MODE_STATE_COUNTER + 1) % COUNTER_WORD
        BY <2>1, <3>7 DEF CheckDown
      <4>3. (SAFE_MODE_STATE_COUNTER + 1) % COUNTER_WORD # SAFE_MODE_STATE_COUNTER
        <5>1. CASE SAFE_MODE_STATE_COUNTER + 1 < COUNTER_WORD
          BY <2>0, <5>1, TimeAssumption
        <5>2. CASE SAFE_MODE_STATE_COUNTER + 1 = COUNTER_WORD
          BY <2>0, <5>2, TimeAssumption
        <5> QED
          BY <2>0, <5>1, <5>2, TimeAssumption
      <4> QED
        BY <4>1, <4>2, <4>3
    <3> QED
      BY <3>6, <3>7
  <2>2. CASE ~ CheckDown
    <3>1. SAFE_MODE_STATE_COUNTER' = SAFE_MODE_STATE_COUNTER
      BY <2>2 DEF Next, Start, RelayStart, Serving, Signal, Exit, Client, watchVars, Tick,
         ClockStep, dataChangeNotificationCallback, CheckBegins, CheckEntry, CheckUnused,
         CheckAlive, CheckNotHeard
    <3>2. ~ (I2C_VIRTUAL_MODE = 0 /\ I2C_VIRTUAL_MODE' = 1)
      <4>1. CASE Start
        BY <4>1 DEF Start, RelayStart, Serving
      <4>2. CASE Signal \/ Exit \/ Client
        BY <4>2, QuietStep
      <4>3. CASE \/ Tick \/ CheckBegins
                 \/ \E d \in CLOCK_STEPS : ClockStep(d)
                 \/ \E id \in Id : dataChangeNotificationCallback(id)
        BY <4>3 DEF Tick, CheckBegins, ClockStep, dataChangeNotificationCallback, relayVars
      <4>4. CASE CheckEntry
        BY <2>2, <4>4 DEF CheckEntry, CheckUnused, CheckAlive, CheckNotHeard, gotoNormalMode,
           relayVars
      <4> QED
        BY <4>1, <4>2, <4>3, <4>4 DEF Next
    <3> QED
      BY <3>1, <3>2
  <2> QED
    BY <2>1, <2>2
<1> QED
  BY <1>1, TypeCorrect, WatchCorrect, OneCorrect, PTL DEF Spec, CounterCountsSwitches
=============================================================================
