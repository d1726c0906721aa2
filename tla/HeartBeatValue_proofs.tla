------------------------ MODULE HeartBeatValue_proofs ------------------------
(***************************************************************************)
(* Proofs about HeartBeatValue, for any ID and any number of beats that    *)
(* fits into the bits which the ID leaves.                                 *)
(***************************************************************************)
EXTENDS HeartBeatValue, HeartBeatFloat_proofs

\* The subscriber has the float of the last beat of this process or, before its
\* first, of a process before, or nothing yet.
NodeInv ==
  /\ HEART_BEATS \in 0 .. LAST
  /\ heart_beat = ZERO \/ \E n \in 1 .. LAST : heart_beat = strtof(COUPLER_ID, n)
  /\ HEART_BEATS # 0 => heart_beat = strtof(COUPLER_ID, HEART_BEATS)

LEMMA NodeStep ==
  /\ Init => NodeInv
  /\ NodeInv /\ [Next]_vars => NodeInv'
<1>1. LAST \in Nat
  BY BeatAssumption DEF FloatBeat
<1>2. Init => NodeInv
  BY <1>1 DEF Init, NodeInv
<1>3. ASSUME NodeInv, callbackTicHeartBeat
      PROVE  NodeInv'
  <2>1. /\ HEART_BEATS' = HEART_BEATS + 1 /\ HEART_BEATS \in 0 .. LAST /\ HEART_BEATS < LAST
        /\ heart_beat' = strtof(COUPLER_ID, HEART_BEATS')
    BY <1>3 DEF callbackTicHeartBeat, NodeInv
  <2>2. HEART_BEATS' \in 0 .. LAST /\ HEART_BEATS' \in 1 .. LAST
    BY <1>1, <2>1
  <2> QED
    BY <2>1, <2>2 DEF NodeInv
<1>4. ASSUME NodeInv, Restart
      PROVE  NodeInv'
  BY <1>1, <1>4 DEF Restart, NodeInv
<1>5. ASSUME NodeInv, UNCHANGED vars
      PROVE  NodeInv'
  BY <1>5 DEF vars, NodeInv
<1> QED
  BY <1>2, <1>3, <1>4, <1>5 DEF Next

\* For every ID and every number of beats which stays below the next ID, a float
\* that is cut to an int names its sender (keep_alive_publisher.h:128-142,
\* keep_alive_subscriber.h:34).
THEOREM NamesCorrect ==
  ASSUME BeatsStayBelow(COUPLER_ID, LAST)
  PROVE  Spec => []BeatNamesSender
<1>1. NodeInv => BeatNamesSender
  <2> SUFFICES ASSUME NodeInv, heart_beat # ZERO
               PROVE  Sender(heart_beat) = COUPLER_ID
    BY DEF BeatNamesSender
  <2>1. PICK n \in 1 .. LAST : heart_beat = strtof(COUPLER_ID, n)
    BY DEF NodeInv
  <2>2. n \in 0 .. LAST
    BY BeatAssumption DEF FloatBeat
  <2> QED
    BY <2>1, <2>2, FloatStaysBelow, BeatAssumption
<1> QED
  BY <1>1, NodeStep, PTL DEF Spec

\* For every ID and every number of beats that fits into the bits it leaves, each
\* beat but the first of a process changes the float
\* (keep_alive_publisher.h:119-149).
THEOREM ShowsCorrect ==
  ASSUME BeatsFit(COUPLER_ID, LAST)
  PROVE  Spec => []EveryBeatShows
<1>1. NodeInv /\ EveryBeatShows /\ [Next]_vars => EveryBeatShows'
  <2> SUFFICES ASSUME NodeInv, EveryBeatShows, [Next]_vars
               PROVE  EveryBeatShows'
    OBVIOUS
  <2>1. CASE callbackTicHeartBeat
    <3>1. /\ HEART_BEATS \in 0 .. LAST /\ LAST \in Nat
          /\ HEART_BEATS < LAST /\ HEART_BEATS' = HEART_BEATS + 1
      BY <2>1, BeatAssumption DEF callbackTicHeartBeat, NodeInv, FloatBeat
    <3>2. CASE HEART_BEATS = 0
      BY <3>1, <3>2 DEF EveryBeatShows
    <3>3. CASE HEART_BEATS # 0
      <4> DEFINE m == HEART_BEATS
                 n == HEART_BEATS + 1
      <4>1. heart_beat = strtof(COUPLER_ID, m) /\ heart_beat' = strtof(COUPLER_ID, n)
        BY <2>1, <3>1, <3>3 DEF callbackTicHeartBeat, NodeInv
      <4>2. m \in 0 .. LAST /\ n \in 0 .. LAST /\ m # 0 /\ m < n /\ n <= m + 6
        BY <3>1, <3>3
      <4> HIDE DEF m, n
      <4>3. heart_beat' # heart_beat
        BY <4>1, <4>2, NearBeatsDiffer, BeatAssumption
      <4> QED
        BY <2>1, <4>3 DEF callbackTicHeartBeat, EveryBeatShows
    <3> QED
      BY <3>2, <3>3
  <2>2. CASE Restart
    BY <2>2 DEF Restart, EveryBeatShows
  <2>3. CASE UNCHANGED vars
    BY <2>3 DEF vars, EveryBeatShows
  <2> QED
    BY <2>1, <2>2, <2>3 DEF Next
<1>2. Init => EveryBeatShows
  BY DEF Init, EveryBeatShows
<1> QED
  BY <1>1, <1>2, NodeStep, PTL DEF Spec
==============================================================================
