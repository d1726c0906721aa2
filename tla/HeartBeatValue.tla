--------------------------- MODULE HeartBeatValue ---------------------------
(***************************************************************************)
(* The beats of one coupler as a subscriber sees them: it is called only   *)
(* when the value it has differs from the one before.  Every beat arrives  *)
(* here and is sampled; what the network loses is in KeepAliveNet.         *)
(*                                                                         *)
(* Sources: callbackTicHeartBeat of coupler/keep_alive_publisher.h and     *)
(* addSubscribedVariables of coupler/keep_alive_subscriber.h.              *)
(***************************************************************************)
EXTENDS HeartBeatFloat

CONSTANTS
  COUPLER_ID,
  LAST,      \* bound: the coupler is restarted at this beat at the latest
  PATIENCE   \* beats in HEART_BEAT_TIMEOUT_INTERVAL (4 by default)

ASSUME BeatAssumption ==
  /\ COUPLER_ID \in FloatId
  /\ LAST \in FloatBeat /\ LAST > 0
  /\ PATIENCE \in Nat

VARIABLES
  HEART_BEATS,
  heart_beat,   \* the value at the subscriber
  unseen        \* beats of this process in a row that did not change it

vars == <<HEART_BEATS, heart_beat, unseen>>

-----------------------------------------------------------------------------
\* The subscriber's node is created with 0.0, which names coupler 0: no coupler
\* watches it.
Init ==
  /\ HEART_BEATS = 0
  /\ heart_beat = ZERO
  /\ unseen = 0

callbackTicHeartBeat ==
  /\ HEART_BEATS < LAST
  /\ HEART_BEATS' = HEART_BEATS + 1
  /\ heart_beat' = strtof(COUPLER_ID, HEART_BEATS')
  /\ unseen' = IF heart_beat' = heart_beat THEN unseen + 1 ELSE 0

\* Another process takes over: its beats count from 0 again, and the subscriber
\* still has the last value of the one before.
Restart ==
  /\ HEART_BEATS' = 0
  /\ unseen' = 0
  /\ UNCHANGED heart_beat

Next == callbackTicHeartBeat \/ Restart

Spec == Init /\ [][Next]_vars

-----------------------------------------------------------------------------
\* The subscriber splits the value back into the ID it was made from
\* (keep_alive_subscriber.h:34, "just converting to int is enough").
BeatNamesSender == heart_beat # ZERO => Sender(heart_beat) = COUPLER_ID

\* Every beat changes the value, across the changes in the number of digits, so
\* that each one can call the subscriber.  Only the first beat of a process may
\* repeat what the process before left: 100.1 after 100.1 or 100.10.
EveryBeatShows == unseen > 0 => HEART_BEATS = 1

\* keep_alive.h:24, "the timeout in millis after which a coupler is considered
\* down": a coupler that beats in time is not silent for a whole timeout.
BeatingIsNotDown == unseen < PATIENCE
=============================================================================
