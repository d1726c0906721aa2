---------------------------- MODULE KeepAliveNet ----------------------------
(***************************************************************************)
(* The keep-alive network as one coupler meets it: the watching coupler of *)
(* module Coupler, the couplers that beat, the multicast between them, and *)
(* the one variable every received beat is written to.                     *)
(*                                                                         *)
(* Sources: coupler/keep_alive_publisher.h, coupler/keep_alive_subscriber.h *)
(* and the order of registration in coupler/server.c.  UDP, the timers and *)
(* the sampling of open62541 are external.                                 *)
(*                                                                         *)
(* Every writer group has the same publisher, group and writer ID          *)
(* (keep_alive.h:38-39), so that a reader accepts the beats of all couplers, *)
(* and the reader has one target variable, node 50000: a beat that arrives *)
(* overwrites the one before.  Ticking, sampling and checking have the same *)
(* period and run in the order of their registration.                      *)
(*                                                                         *)
(* What travels is the float of HeartBeatFloat.  A beat keeps beside it who *)
(* sent it and which one it was, as history: the program reads Float(beat) *)
(* alone.  What a clock that is set does to the stamps is in Coupler.      *)
(***************************************************************************)
EXTENDS Coupler, HeartBeatFloat

CONSTANTS
  DELAY,  \* how long a datagram may be on its way
  LAST    \* bound: a peer is restarted at this beat at the latest

ASSUME NetAssumption ==
  /\ DELAY \in Nat
  /\ LAST \in FloatBeat /\ LAST > 0
  /\ Id \cup {COUPLER_ID} \subseteq FloatId

Peer == Id \ {COUPLER_ID}

\* A beat that is sent while its sender lives is not recorded later than this
\* after its death: on its way, then in the variable until the next sample.
LAG == DELAY + HEART_BEAT_INTERVAL + LATENESS

\* A coupler that died so long ago has muted the relays: no beat for the timeout,
\* then a late check.
MUTED_BY == HEART_BEAT_TIMEOUT_INTERVAL + HEART_BEAT_INTERVAL + LATENESS + LAG + 1

\* A coupler that was started or disturbed so long ago leaves no trace of it: not
\* in the beats, in node 50000, in what was sampled, in its stamp or in the state.
SETTLED_BY == 4 * HEART_BEAT_INTERVAL + 5 * LATENESS + 3 * DELAY + 1

\* Bound of the history variable "since".
LONG_AGO == IF MUTED_BY > SETTLED_BY THEN MUTED_BY ELSE SETTLED_BY

VARIABLES
  ENABLE_HEART_BEAT, \* "-b" of this process
  subscribed,        \* value of node 50000
  sampled,           \* the value of it that was sampled last
  ran,               \* the callbacks of the due round that have run
  alive,             \* the peers that run
  beats,             \* HEART_BEATS of each peer
  nextBeat,          \* time left to the next beat of a peer, negative = late
  net,               \* the datagrams on their way
  \* History, read by properties only:
  since              \* time since the peer started, died or had a beat lost or repeated

ownVars == <<ENABLE_HEART_BEAT, subscribed, sampled, ran>>
peerVars == <<alive, beats, nextBeat, since>>
netVars == <<ENABLE_HEART_BEAT, subscribed, sampled, ran,
             alive, beats, nextBeat, net, since>>
allVars == <<proc, OPERATIONAL_MODE, I2C_VIRTUAL_MODE, RELAYS_STATE, node, energized, lost,
             SUBSCRIBER_DICT, CURRENT_STATE, SAFE_MODE_STATE_COUNTER, i,
             untilCheck, checked, heard, skewed, steppedEarly,
             ENABLE_HEART_BEAT, subscribed, sampled, ran,
             alive, beats, nextBeat, net, since>>

Beat == [from : Id \cup {COUPLER_ID}, n : 0 .. LAST]
Datagram == [beat : Beat, age : 0 .. DELAY]

\* The variable is created with 0.0.
NO_BEAT == [from |-> 0, n |-> 0]

\* The values of the beats, as a table: what is published, written to node 50000
\* and sampled.
FLOATS == [id \in Id \cup {COUPLER_ID} |-> [n \in 0 .. LAST |-> strtof(id, n)]]

Float(beat) == IF beat = NO_BEAT THEN ZERO ELSE FLOATS[beat.from][beat.n]

\* This coupler ignores its own beats: number 0 stands for all of them, but for
\* those that are rounded up to the next ID.
OWN_BEATS ==
  {beat \in [from : {COUPLER_ID}, n : 0 .. LAST] :
     beat.n = 0 \/ Sender(Float(beat)) # COUPLER_ID}

Sent(beat) == net \cup {[beat |-> beat, age |-> 0]}

NetInit ==
  /\ Init
  /\ ENABLE_HEART_BEAT = FALSE
  /\ subscribed = NO_BEAT
  /\ sampled = NO_BEAT
  /\ ran = 0
  /\ alive = {}
  /\ beats = [p \in Peer |-> 0]
  /\ nextBeat = [p \in Peer |-> HEART_BEAT_INTERVAL]
  /\ net = {}
  /\ since = [p \in Peer |-> 0]

-----------------------------------------------------------------------------
(***************************************************************************)
(* This coupler.                                                           *)
(***************************************************************************)

\* Mutant: the dictionary of the process before is found again.
NetStartKeepsStamps ==
  /\ RelayStart
  /\ CURRENT_STATE' = STATE_DOWN
  /\ SAFE_MODE_STATE_COUNTER' = 0
  /\ i' = 0
  /\ untilCheck' = HEART_BEAT_INTERVAL
  /\ checked' = FALSE
  /\ heard' = None
  /\ skewed' = None
  /\ steppedEarly' = FALSE
  /\ ENABLE_HEART_BEAT' \in BOOLEAN
  /\ subscribed' = NO_BEAT
  /\ sampled' = NO_BEAT
  /\ ran' = 0
  /\ UNCHANGED <<SUBSCRIBER_DICT, alive, beats, nextBeat, net, since>>

\* handleCLI gives "-b" no default: without it ENABLE_HEART_BEAT is what the
\* stack held (cli.h:122-138, 171).
NetStart ==
  /\ Start
  /\ ENABLE_HEART_BEAT' \in BOOLEAN
  /\ subscribed' = NO_BEAT
  /\ sampled' = NO_BEAT
  /\ ran' = 0
  /\ UNCHANGED <<alive, beats, nextBeat, net, since>>

Due == Idle /\ untilCheck <= 0

\* callbackTicHeartBeat and the publishing it leads to (cli.h:160).  The coupler
\* hears its own datagrams.
OwnBeat ==
  /\ Due
  /\ ran = 0
  /\ ran' = 1
  /\ \/ /\ ENABLE_HEART_BEAT
        /\ \E beat \in OWN_BEATS : net' = Sent(beat)
     \/ /\ ~ ENABLE_HEART_BEAT
        /\ UNCHANGED net
  /\ UNCHANGED <<vars, ENABLE_HEART_BEAT, subscribed, sampled, alive, beats, nextBeat, since>>

\* Mutant: the value is recorded at every sample, changed or not.
IsNewEver == Sender(Float(subscribed)) \in Peer

\* Mutant: only the sender of the beat is compared.
IsNewSender ==
  /\ Sender(Float(subscribed)) # Sender(Float(sampled))
  /\ Sender(Float(subscribed)) \in Peer

\* What was sampled differs from the last time and names another coupler.
IsNew ==
  /\ Float(subscribed) # Float(sampled)
  /\ Sender(Float(subscribed)) \in Peer

\* The monitored item is sampled; a change calls the subscriber.
Sample ==
  /\ Due
  /\ ran = 1
  /\ ran' = 2
  /\ sampled' = subscribed
  /\ \/ /\ IsNew
        /\ dataChangeNotificationCallback(Sender(Float(subscribed)))
     \/ /\ ~ IsNew
        /\ UNCHANGED vars
  /\ UNCHANGED <<ENABLE_HEART_BEAT, subscribed, alive, beats, nextBeat, net, since>>

Check ==
  /\ ran = 2
  /\ CheckBegins
  /\ ran' = 0
  /\ UNCHANGED <<ENABLE_HEART_BEAT, subscribed, sampled, alive, beats, nextBeat,
                 net, since>>

\* The rest of Coupler does not touch the network.
NetElse ==
  /\ Signal \/ Exit \/ Client \/ CheckEntry
  /\ UNCHANGED netVars

-----------------------------------------------------------------------------
(***************************************************************************)
(* The other couplers, which run the same publisher.                       *)
(***************************************************************************)

PeerBeat(p) ==
  /\ p \in alive
  /\ nextBeat[p] <= 0
  /\ beats[p] < LAST
  /\ nextBeat' = [nextBeat EXCEPT ![p] = @ + HEART_BEAT_INTERVAL]
  /\ beats' = [beats EXCEPT ![p] = @ + 1]
  /\ net' = Sent([from |-> p, n |-> beats'[p]])
  /\ UNCHANGED <<vars, ownVars, alive, since>>

PeerStart(p) ==
  /\ p \in Peer \ alive
  /\ alive' = alive \cup {p}
  /\ since' = [since EXCEPT ![p] = 0]
  /\ UNCHANGED <<vars, ownVars, beats, nextBeat, net>>

\* Mutant: the timer of the process before goes on.
PeerStopKeepsTimer(p) ==
  /\ p \in alive
  /\ alive' = alive \ {p}
  /\ beats' = [beats EXCEPT ![p] = 0]
  /\ nextBeat' = [nextBeat EXCEPT ![p] = @ + HEART_BEAT_INTERVAL]
  /\ since' = [since EXCEPT ![p] = 0]
  /\ UNCHANGED <<vars, ownVars, net>>

\* A crash or an exit.  The next process counts from 0.
PeerStop(p) ==
  /\ p \in alive
  /\ alive' = alive \ {p}
  /\ beats' = [beats EXCEPT ![p] = 0]
  /\ nextBeat' = [nextBeat EXCEPT ![p] = HEART_BEAT_INTERVAL]
  /\ since' = [since EXCEPT ![p] = 0]
  /\ UNCHANGED <<vars, ownVars, net>>

-----------------------------------------------------------------------------
(***************************************************************************)
(* The multicast: every datagram arrives within DELAY, in any order, once, *)
(* twice or not at all.                                                    *)
(***************************************************************************)

Disturbed(d) ==
  since' = [p \in Peer |-> IF p = d.beat.from /\ p \in alive THEN 0 ELSE since[p]]

\* The reader writes its target variable.
Arrives(d) ==
  /\ Idle
  /\ subscribed' = d.beat
  /\ UNCHANGED <<vars, ENABLE_HEART_BEAT, sampled, ran, alive, beats, nextBeat>>

Deliver(d) ==
  /\ Arrives(d)
  /\ net' = net \ {d}
  /\ UNCHANGED since

Duplicate(d) ==
  /\ Arrives(d)
  /\ Disturbed(d)
  /\ UNCHANGED net

Lose(d) ==
  /\ net' = net \ {d}
  /\ Disturbed(d)
  /\ UNCHANGED <<vars, ownVars, alive, beats, nextBeat>>

\* A unit of time, for everybody.
NetTick ==
  /\ Tick
  /\ \A p \in alive : nextBeat[p] > -LATENESS
  /\ \A d \in net : d.age < DELAY
  /\ nextBeat' = [p \in Peer |-> IF p \in alive THEN nextBeat[p] - 1 ELSE nextBeat[p]]
  /\ net' = {[d EXCEPT !.age = @ + 1] : d \in net}
  /\ since' = [p \in Peer |-> IF since[p] < LONG_AGO THEN since[p] + 1 ELSE LONG_AGO]
  /\ UNCHANGED <<ownVars, alive, beats>>

NetNext ==
  \/ NetStart
  \/ OwnBeat
  \/ Sample
  \/ Check
  \/ NetElse
  \/ \E p \in Peer : PeerBeat(p)
  \/ \E p \in Peer : PeerStart(p)
  \/ \E p \in Peer : PeerStop(p)
  \/ \E d \in net : Deliver(d)
  \/ \E d \in net : Duplicate(d)
  \/ \E d \in net : Lose(d)
  \/ NetTick

NetSpec == NetInit /\ [][NetNext]_allVars

-----------------------------------------------------------------------------
NetTypeOK ==
  /\ ENABLE_HEART_BEAT \in BOOLEAN
  /\ subscribed \in Beat \cup {NO_BEAT}
  /\ sampled \in Beat \cup {NO_BEAT}
  /\ ran \in 0 .. 2
  /\ alive \subseteq Peer
  /\ beats \in [Peer -> 0 .. LAST]
  /\ nextBeat \in [Peer -> -LATENESS .. HEART_BEAT_INTERVAL]
  /\ net \subseteq Datagram
  /\ since \in [Peer -> 0 .. LONG_AGO]

\* Seen from the relays, the network is an instance of the beats that module
\* Coupler lets arrive at any time: nothing here drives the coupler outside it.
ImplementsCoupler == Spec

\* No float of another coupler names p: the ID below p is nobody's, or its beats
\* are not rounded up to p.
Unmistaken(p) == p - 1 \in Id \cup {COUPLER_ID} => BeatsStayBelow(p - 1, LAST)

\* A stamp is renewed only by a coupler that lives or died no longer than LAG ago:
\* neither a repeated datagram nor the last beat left in node 50000 keeps a dead
\* coupler alive (keep_alive_subscriber.h:171-176).
StampsAreFresh ==
  [][\A p \in Peer :
       SUBSCRIBER_DICT[p] # 0 /\ SUBSCRIBER_DICT'[p] = 0 /\ ~ skewed'[p]
         /\ Unmistaken(p) =>
         p \in alive \/ since[p] <= LAG]_allVars

\* From the death of a coupler to the relays: once the coupler judged last in the
\* list has been heard, its death has muted the relays after the timeout, one late
\* check and LAG, whatever the network does and whoever else beats.
DeadPeerMutes ==
  TrustedStart =>
    \A e \in Entry : IsLastWatched(e) =>
      LET last == HEART_BEAT_ID_LIST[e]
      IN  last \in Peer \ alive /\ since[last] >= MUTED_BY
            /\ SUBSCRIBER_DICT[last] # NULL /\ ~ skewed[last] /\ Idle
            /\ Unmistaken(last)
          => Safe

\* The timeout leaves room for a late beat on its way and for a late check, and the
\* datagrams of the process before are gone at the first sample.
TimeoutCoversBeat ==
  /\ HEART_BEAT_INTERVAL + 2 * LATENESS + DELAY <= HEART_BEAT_TIMEOUT_INTERVAL
  /\ DELAY < HEART_BEAT_INTERVAL

Undisturbed(p) == p \in alive /\ since[p] >= SETTLED_BY

\* No false alarm: a watched coupler that is the only one to beat, whose beats have
\* all come for a while and whose numbers of beats fit into the float beside its ID
\* does not look down.
SoleBeatIsHeard ==
  TimeoutCoversBeat /\ OneWatched =>
    \A p \in Watched \cap Peer :
      Undisturbed(p) /\ BeatsFit(p, LAST) /\ Peer = {p} /\ ~ ENABLE_HEART_BEAT
        /\ Idle /\ OPERATIONAL_MODE = 0
      => I2C_VIRTUAL_MODE = 0

\* keep_alive.h:24, "the timeout in millis after which a coupler is considered
\* down": the same, with several couplers that beat.
BeatIsHeard ==
  TimeoutCoversBeat /\ OneWatched =>
    \A p \in Watched \cap Peer :
      Undisturbed(p) /\ BeatsFit(p, LAST) /\ Idle /\ OPERATIONAL_MODE = 0
      => I2C_VIRTUAL_MODE = 0
=============================================================================
