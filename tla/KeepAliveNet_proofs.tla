------------------------ MODULE KeepAliveNet_proofs ------------------------
(* Proofs about KeepAliveNet, for any set of couplers and any timing. *)
EXTENDS KeepAliveNet, Coupler_proofs, HeartBeatFloat_proofs

-----------------------------------------------------------------------------
(* The network implements the coupler. *)

\* Every step of the network is a step of the coupler or leaves it alone.
LEMMA NetStepRefines == [NetNext]_allVars => [Next]_vars
<1> SUFFICES ASSUME [NetNext]_allVars
             PROVE  [Next]_vars
  OBVIOUS
<1> USE DEF Next
<1>1. CASE NetStart
  BY <1>1 DEF NetStart
<1>2. CASE OwnBeat
  BY <1>2 DEF OwnBeat
<1>3. CASE Sample
  <2>1. CASE IsNew
    <3>1. Sender(Float(subscribed)) \in Id
      BY <2>1 DEF IsNew, Peer
    <3> QED
      BY <1>3, <2>1, <3>1 DEF Sample
  <2>2. CASE ~ IsNew
    BY <1>3, <2>2 DEF Sample
  <2> QED
    BY <2>1, <2>2
<1>4. CASE Check \/ NetElse
  BY <1>4 DEF Check, NetElse
<1>5. CASE \E p \in Peer : PeerBeat(p) \/ PeerStart(p) \/ PeerStop(p)
  BY <1>5 DEF PeerBeat, PeerStart, PeerStop
<1>6. CASE \E d \in net : Deliver(d) \/ Duplicate(d) \/ Lose(d)
  BY <1>6 DEF Deliver, Duplicate, Lose, Arrives
<1>7. CASE NetTick
  BY <1>7 DEF NetTick
<1>8. CASE UNCHANGED allVars
  BY <1>8 DEF allVars, vars
<1> QED
  BY <1>1, <1>2, <1>3, <1>4, <1>5, <1>6, <1>7, <1>8 DEF NetNext

\* The network drives the coupler as module Coupler specifies.
THEOREM NetRefinement == NetSpec => ImplementsCoupler
<1>1. NetInit => Init
  BY DEF NetInit
<1> QED
  BY <1>1, NetStepRefines, PTL DEF NetSpec, Spec, ImplementsCoupler

\* So what is proved of the coupler holds of the network.
LEMMA CouplerFacts == NetSpec => [](TypeOK /\ LastWatchedDeadline)
BY NetRefinement, TypeCorrect, DeadlineCorrect, PTL DEF ImplementsCoupler

-----------------------------------------------------------------------------
(* Type correctness. *)

\* The facts about the bounds that the proofs use.
LEMMA NetFacts ==
  /\ DELAY \in Nat
  /\ LAST \in Nat
  /\ LATENESS \in Nat
  /\ HEART_BEAT_INTERVAL \in Nat
  /\ LATENESS < HEART_BEAT_INTERVAL
  /\ LAG \in Nat
  /\ LONG_AGO \in Nat
  /\ MUTED_BY \in Nat /\ MUTED_BY <= LONG_AGO
  /\ SETTLED_BY \in Nat /\ SETTLED_BY <= LONG_AGO
  /\ Peer \subseteq Id
  /\ COUPLER_ID \notin Peer
BY NetAssumption, TimeAssumption, PowerStep, PowerGrows DEF FloatBeat, LAG, LONG_AGO, MUTED_BY, SETTLED_BY, Peer

\* A beat is published as the float of its text; node 50000 is created with 0.0,
\* which no beat is.
LEMMA FloatOf ==
  /\ \A beat \in Beat : /\ beat.from \in FloatId
                        /\ beat.n \in 0 .. LAST /\ beat.n \in FloatBeat
                        /\ Float(beat) = strtof(beat.from, beat.n)
  /\ Float(NO_BEAT) = ZERO /\ Sender(ZERO) = 0
  /\ 0 \notin Peer
<1>1. 0 \notin FloatId
  BY BitsLeft
<1>2. ASSUME NEW beat \in Beat
      PROVE  /\ beat.from \in FloatId
             /\ beat.n \in 0 .. LAST /\ beat.n \in FloatBeat
             /\ Float(beat) = strtof(beat.from, beat.n)
  <2>1. beat.from \in Id \cup {COUPLER_ID} /\ beat.n \in 0 .. LAST
    BY DEF Beat
  <2>2. beat.from \in FloatId /\ beat.n \in FloatBeat
    BY <2>1, NetAssumption, UnitsGrow
  <2>3. beat # NO_BEAT
    BY <1>1, <2>2 DEF NO_BEAT
  <2>4. FLOATS[beat.from][beat.n] = strtof(beat.from, beat.n)
    BY <2>1 DEF FLOATS
  <2> QED
    BY <2>1, <2>2, <2>3, <2>4 DEF Float
<1>3. 0 \notin Peer
  BY <1>1, NetAssumption DEF Peer
<1> QED
  BY <1>2, <1>3 DEF Float, Sender, ZERO

\* A float that names a coupler whose beats are unmistaken is a beat of it.
LEMMA NamesSender ==
  ASSUME NEW beat \in Beat \cup {NO_BEAT}, NEW p \in Peer, Unmistaken(p),
         Sender(Float(beat)) = p
  PROVE  beat.from = p
<1>1. beat \in Beat
  BY FloatOf
<1> DEFINE id == beat.from
<1>2. /\ id \in FloatId /\ beat.n \in FloatBeat /\ beat.n \in 0 .. LAST
      /\ Sender(strtof(id, beat.n)) = p
  BY <1>1, FloatOf
<1>3. p \in {id, id + 1} /\ id \in Nat
  BY <1>2, FloatNames, BitsLeft
<1>4. CASE p = id + 1
  <2>1. p - 1 = id /\ id \in Id \cup {COUPLER_ID}
    BY <1>1, <1>3, <1>4 DEF Beat
  <2>2. BeatsStayBelow(id, LAST)
    BY <2>1 DEF Unmistaken
  <2> QED
    BY <1>2, <2>2, NetAssumption, FloatStaysBelow
<1> QED
  BY <1>3, <1>4

\* A datagram that is sent is one.
LEMMA SentType ==
  ASSUME net \subseteq Datagram, NEW beat \in Beat
  PROVE  Sent(beat) \subseteq Datagram
<1>1. [beat |-> beat, age |-> 0] \in Datagram
  BY NetFacts DEF Datagram
<1> QED
  BY <1>1 DEF Sent

\* Every variable of the network keeps its type.
THEOREM NetTypeCorrect == NetSpec => []NetTypeOK
<1>1. NetInit => NetTypeOK
  <2> SUFFICES ASSUME NetInit
               PROVE  NetTypeOK
    OBVIOUS
  <2>1. ENABLE_HEART_BEAT \in BOOLEAN
    BY Zenon DEF NetInit
  <2>2. /\ beats \in [Peer -> 0 .. LAST]
        /\ nextBeat \in [Peer -> -LATENESS .. HEART_BEAT_INTERVAL]
        /\ since \in [Peer -> 0 .. LONG_AGO]
    BY NetFacts, NetAssumption DEF NetInit
  <2> QED
    BY <2>1, <2>2 DEF NetInit, NetTypeOK
<1>2. NetTypeOK /\ [NetNext]_allVars => NetTypeOK'
  <2> SUFFICES ASSUME NetTypeOK, [NetNext]_allVars
               PROVE  NetTypeOK'
    OBVIOUS
  <2> USE DEF NetTypeOK, ownVars
  <2>1. CASE NetStart
    <3>1. ENABLE_HEART_BEAT' \in BOOLEAN
      BY <2>1, Zenon DEF NetStart
    <3> QED
      BY <2>1, <3>1 DEF NetStart
  <2>2. CASE OwnBeat
    <3>1. OWN_BEATS \subseteq Beat
      BY DEF OWN_BEATS, Beat
    <3>2. net' \subseteq Datagram
      BY <2>2, <3>1, SentType DEF OwnBeat
    <3> QED
      BY <2>2, <3>2 DEF OwnBeat
  <2>3. CASE Sample
    BY <2>3 DEF Sample
  <2>4. CASE Check \/ NetElse
    BY <2>4 DEF Check, NetElse, netVars
  <2>5. ASSUME NEW p \in Peer, PeerBeat(p)
        PROVE  NetTypeOK'
    <3>1. beats[p] + 1 \in 0 .. LAST
      BY <2>5, NetFacts DEF PeerBeat
    <3>2. beats' \in [Peer -> 0 .. LAST]
      BY <2>5, <3>1 DEF PeerBeat
    <3>3. nextBeat[p] + HEART_BEAT_INTERVAL \in -LATENESS .. HEART_BEAT_INTERVAL
      BY <2>5, NetFacts DEF PeerBeat
    <3>4. nextBeat' \in [Peer -> -LATENESS .. HEART_BEAT_INTERVAL]
      BY <2>5, <3>3 DEF PeerBeat
    <3>5. [from |-> p, n |-> beats'[p]] \in Beat
      BY <3>2, NetFacts DEF Beat
    <3>6. net' \subseteq Datagram
      BY <2>5, <3>5, SentType DEF PeerBeat
    <3> QED
      BY <2>5, <3>2, <3>4, <3>6 DEF PeerBeat
  <2>6. ASSUME NEW p \in Peer, PeerStart(p)
        PROVE  NetTypeOK'
    BY <2>6, NetFacts DEF PeerStart
  <2>7. ASSUME NEW p \in Peer, PeerStop(p)
        PROVE  NetTypeOK'
    BY <2>7, NetFacts, NetAssumption DEF PeerStop
  <2>8. ASSUME NEW d \in net, Deliver(d) \/ Duplicate(d) \/ Lose(d)
        PROVE  NetTypeOK'
    <3>1. d.beat \in Beat
      BY DEF Datagram
    <3>2. since' \in [Peer -> 0 .. LONG_AGO]
      BY <2>8, NetFacts DEF Deliver, Duplicate, Lose, Disturbed
    <3>3. net' \subseteq Datagram
      BY <2>8 DEF Deliver, Duplicate, Lose
    <3> QED
      BY <2>8, <3>1, <3>2, <3>3 DEF Deliver, Duplicate, Lose, Arrives
  <2>9. CASE NetTick
    <3>1. nextBeat' \in [Peer -> -LATENESS .. HEART_BEAT_INTERVAL]
      BY <2>9, NetFacts DEF NetTick
    <3>2. since' \in [Peer -> 0 .. LONG_AGO]
      BY <2>9, NetFacts DEF NetTick
    <3>3. \A d \in net : [d EXCEPT !.age = @ + 1] \in Datagram
      BY <2>9, NetFacts DEF NetTick, Datagram
    <3>4. net' \subseteq Datagram
      BY <2>9, <3>3 DEF NetTick
    <3> QED
      BY <2>9, <3>1, <3>2, <3>4 DEF NetTick
  <2>10. CASE UNCHANGED allVars
    BY <2>10 DEF allVars
  <2> QED
    BY <2>1, <2>2, <2>3, <2>4, <2>5, <2>6, <2>7, <2>8, <2>9, <2>10 DEF NetNext
<1> QED
  BY <1>1, <1>2, PTL DEF NetSpec

-----------------------------------------------------------------------------
(***************************************************************************)
(* The last trace of a dead coupler.  Its beats are followed from the      *)
(* multicast through node 50000 to the stamp: at each place, the time since *)
(* the death is bounded by the time the beat has spent there.              *)
(***************************************************************************)

\* The time the value of node 50000 has until it is sampled, counted from the
\* sample before.
SampleAge == IF ran = 2 THEN -untilCheck ELSE HEART_BEAT_INTERVAL - untilCheck

\* A round that has begun is due.
RoundIsDue == ran # 0 => untilCheck <= 0

\* No datagram of a dead coupler was sent after its death.
InFlight ==
  \A p \in Peer \ alive : \A d \in net : d.beat.from = p => since[p] <= d.age

\* A beat of a dead coupler that waits for the sample was on its way before.
Waiting ==
  \A p \in Peer \ alive :
    subscribed # sampled /\ subscribed.from = p => since[p] <= DELAY + SampleAge

\* The entry of this coupler measures the time since its beat was seen.
Measured(id) == SUBSCRIBER_DICT[id] # NULL /\ ~ skewed[id]

\* A stamp of a dead coupler is at most LAG younger than its death.
Stamped ==
  \A p \in Peer \ alive :
    Unmistaken(p) /\ Measured(p) => since[p] <= LAG + SUBSCRIBER_DICT[p]

\* A difference of the times that measures a silence has not wrapped.
NotWrapped == \A id \in Id : Measured(id) => SUBSCRIBER_DICT[id] < HALF_WORD

TraceInv == RoundIsDue /\ InFlight /\ Waiting /\ Stamped /\ NotWrapped

\* What one unit of time does to a difference of the times.
LEMMA TickMeasures ==
  ASSUME TypeOK, NotWrapped, Tick, NEW id \in Id, Measured(id)'
  PROVE  /\ Measured(id)
         /\ SUBSCRIBER_DICT'[id] = SUBSCRIBER_DICT[id] + 1
         /\ SUBSCRIBER_DICT'[id] < HALF_WORD
<1>1. SUBSCRIBER_DICT[id] \in Age \cup {NULL}
  BY DEF TypeOK
<1>2. SUBSCRIBER_DICT[id] # NULL
  BY DEF Tick, Measured
<1>3. ~ skewed[id] /\ SUBSCRIBER_DICT'[id] # HALF_WORD
  BY Zenon DEF Tick, Measured
<1>4. Measured(id)
  BY <1>2, <1>3, Zenon DEF Measured
<1>5. SUBSCRIBER_DICT[id] < HALF_WORD
  BY <1>4 DEF NotWrapped
<1>6. SUBSCRIBER_DICT'[id] = SUBSCRIBER_DICT[id] + 1
  BY <1>1, <1>2, <1>5, TimeAssumption DEF Tick, Age, NULL
<1> QED
  BY <1>1, <1>2, <1>3, <1>4, <1>5, <1>6, TimeAssumption DEF Age, NULL

\* A step that leaves the watch alone leaves the measures alone.
LEMMA SameMeasures ==
  ASSUME UNCHANGED <<SUBSCRIBER_DICT, skewed>>
  PROVE  \A id : (Measured(id)' <=> Measured(id)) /\ SUBSCRIBER_DICT'[id] = SUBSCRIBER_DICT[id]
BY Zenon DEF Measured

\* The steps of the coupler that are not the network's leave the watch alone,
\* up to the verdicts.
LEMMA ElseKeeps ==
  ASSUME TypeOK, NetElse
  PROVE  UNCHANGED <<netVars, SUBSCRIBER_DICT, untilCheck, skewed>>
<1>1. CASE Signal \/ Exit \/ Client
  BY <1>1, QuietStep DEF NetElse, watchVars
<1>2. CASE CheckEntry
  BY <1>2, WalkStep DEF NetElse
<1> QED
  BY <1>1, <1>2 DEF NetElse

\* Every step of a peer or of the multicast leaves the coupler alone.
LEMMA OutsideKeeps ==
  ASSUME \/ \E p \in Peer : PeerBeat(p) \/ PeerStart(p) \/ PeerStop(p)
         \/ \E d \in net : Deliver(d) \/ Duplicate(d) \/ Lose(d)
         \/ OwnBeat
         \/ UNCHANGED allVars
  PROVE  UNCHANGED <<SUBSCRIBER_DICT, skewed, untilCheck, sampled>>
BY DEF PeerBeat, PeerStart, PeerStop, Deliver, Duplicate, Lose, Arrives, OwnBeat, allVars,
   vars, ownVars

\* A coupler that is dead after a step has just died or was dead before it, and
\* only time moves its death away.
LEMMA DeadStep ==
  ASSUME TypeOK, NetTypeOK, [NetNext]_allVars, NEW p \in Peer, p \notin alive'
  PROVE  \/ since'[p] = 0
         \/ p \notin alive /\ since'[p] = since[p]
         \/ p \notin alive /\ NetTick /\ since'[p] <= since[p] + 1
<1>0. since[p] \in 0 .. LONG_AGO
  BY DEF NetTypeOK
<1>1. CASE NetStart \/ OwnBeat \/ Sample \/ Check \/ NetElse \/ UNCHANGED allVars
  BY <1>1 DEF NetStart, OwnBeat, Sample, Check, NetElse, netVars, allVars
<1>2. CASE \E q \in Peer : PeerBeat(q) \/ PeerStart(q) \/ PeerStop(q)
  BY <1>2 DEF PeerBeat, PeerStart, PeerStop, NetTypeOK
<1>3. CASE \E d \in net : Deliver(d) \/ Duplicate(d) \/ Lose(d)
  BY <1>3 DEF Deliver, Duplicate, Lose, Arrives, Disturbed
<1>4. CASE NetTick
  BY <1>0, <1>4, NetFacts DEF NetTick
<1> QED
  BY <1>1, <1>2, <1>3, <1>4 DEF NetNext

\* Every step of a round begins it when it is due.
LEMMA RoundStep ==
  ASSUME TypeOK, RoundIsDue, [NetNext]_allVars
  PROVE  RoundIsDue'
<1> USE DEF RoundIsDue
<1>0. untilCheck \in -LATENESS .. HEART_BEAT_INTERVAL
  BY DEF TypeOK
<1>1. CASE NetStart \/ OwnBeat \/ Sample \/ Check
  BY <1>1 DEF NetStart, OwnBeat, Due, Sample, Check, vars, dataChangeNotificationCallback
<1>2. CASE NetElse
  BY <1>2, ElseKeeps DEF netVars
<1>3. CASE \/ \E p \in Peer : PeerBeat(p) \/ PeerStart(p) \/ PeerStop(p)
           \/ \E d \in net : Deliver(d) \/ Duplicate(d) \/ Lose(d)
           \/ UNCHANGED allVars
  BY <1>3, OutsideKeeps DEF PeerBeat, PeerStart, PeerStop, Deliver, Duplicate, Lose, Arrives,
     ownVars, allVars
<1>4. CASE NetTick
  BY <1>0, <1>4, NetFacts DEF NetTick, Tick, ownVars
<1> QED
  BY <1>1, <1>2, <1>3, <1>4 DEF NetNext

\* Every step keeps the datagrams of the dead older than their death.
LEMMA InFlightStep ==
  ASSUME TypeOK, NetTypeOK, InFlight, [NetNext]_allVars
  PROVE  InFlight'
<1> SUFFICES ASSUME NEW p \in Peer, p \notin alive', NEW d \in net', d.beat.from = p
             PROVE  since'[p] <= d.age
  BY DEF InFlight
<1>0. net \subseteq Datagram /\ since[p] \in 0 .. LONG_AGO
  BY DEF NetTypeOK
<1>1. CASE NetTick
  <2>1. PICK old \in net : d = [old EXCEPT !.age = @ + 1]
    BY <1>1 DEF NetTick
  <2>2. old.beat = d.beat /\ d.age = old.age + 1 /\ old.age \in Nat
    BY <1>0, <2>1, NetFacts DEF Datagram
  <2>3. p \notin alive /\ since'[p] \in Nat /\ since'[p] <= since[p] + 1
    BY <1>0, <1>1, NetFacts DEF NetTick
  <2>4. since[p] <= old.age
    BY <2>2, <2>3 DEF InFlight
  <2> QED
    BY <1>0, <2>2, <2>3, <2>4, NetFacts
<1>2. CASE ~ NetTick
  <2>1. d \in net /\ d.age \in Nat
    <3>1. CASE OwnBeat
      BY <1>0, <3>1, NetFacts DEF OwnBeat, Sent, OWN_BEATS, Datagram
    <3>2. ASSUME NEW q \in Peer, PeerBeat(q)
          PROVE  d \in net /\ d.age \in Nat
      BY <1>0, <3>2, NetFacts DEF PeerBeat, Sent, Datagram
    <3>3. CASE ~ OwnBeat /\ ~ \E q \in Peer : PeerBeat(q)
      <4>1. net' \subseteq net
        BY <1>2, <3>3 DEF NetNext, NetStart, Sample, Check, NetElse, netVars, PeerStart,
           PeerStop, Deliver, Duplicate, Lose, allVars
      <4> QED
        BY <1>0, <4>1, NetFacts DEF Datagram
    <3> QED
      BY <3>1, <3>2, <3>3
  <2>2. since'[p] = 0 \/ (p \notin alive /\ since'[p] = since[p])
    BY <1>2, DeadStep
  <2> QED
    BY <2>1, <2>2 DEF InFlight
<1> QED
  BY <1>1, <1>2

\* Only a sample, a start and time change how long the value waits.
LEMMA SampleAgeStep ==
  ASSUME TypeOK, [NetNext]_allVars, ~ NetStart, ~ Sample, ~ NetTick
  PROVE  SampleAge' = SampleAge
<1> USE DEF SampleAge
<1>0. untilCheck \in -LATENESS .. HEART_BEAT_INTERVAL
  BY DEF TypeOK
<1>1. CASE OwnBeat
  BY <1>1 DEF OwnBeat, vars
<1>2. CASE Check
  BY <1>0, <1>2, NetFacts DEF Check, CheckBegins
<1>3. CASE NetElse
  BY <1>3, ElseKeeps DEF netVars
<1>4. CASE \/ \E p \in Peer : PeerBeat(p) \/ PeerStart(p) \/ PeerStop(p)
           \/ \E d \in net : Deliver(d) \/ Duplicate(d) \/ Lose(d)
           \/ UNCHANGED allVars
  BY <1>4, OutsideKeeps DEF PeerBeat, PeerStart, PeerStop, Deliver, Duplicate, Lose, Arrives,
     ownVars, allVars
<1> QED
  BY <1>1, <1>2, <1>3, <1>4 DEF NetNext

\* Every step keeps the beat in node 50000 no later than it can be.
LEMMA WaitingStep ==
  ASSUME TypeOK, NetTypeOK, RoundIsDue, InFlight, Waiting, [NetNext]_allVars
  PROVE  Waiting'
<1> SUFFICES ASSUME NEW p \in Peer, p \notin alive', subscribed' # sampled',
                    subscribed'.from = p
             PROVE  since'[p] <= DELAY + SampleAge'
  BY DEF Waiting
<1>0. since[p] \in 0 .. LONG_AGO /\ untilCheck \in -LATENESS .. HEART_BEAT_INTERVAL
  BY DEF TypeOK, NetTypeOK
<1>a. SampleAge \in Nat
  BY <1>0, NetFacts DEF SampleAge, RoundIsDue
<1>1. CASE NetStart \/ Sample
  BY <1>1 DEF NetStart, Sample
<1>2. CASE NetTick
  <2>1. UNCHANGED <<subscribed, sampled>> /\ SampleAge' = SampleAge + 1
    BY <1>0, <1>2, NetFacts DEF NetTick, Tick, ownVars, SampleAge
  <2>2. p \notin alive /\ since'[p] \in Nat /\ since'[p] <= since[p] + 1
    BY <1>0, <1>2, NetFacts DEF NetTick
  <2>3. since[p] <= DELAY + SampleAge
    BY <2>1, <2>2 DEF Waiting
  <2> QED
    BY <1>0, <1>a, <2>1, <2>2, <2>3, NetFacts
<1>3. CASE ~ NetStart /\ ~ Sample /\ ~ NetTick
  <2>1. SampleAge' = SampleAge
    BY <1>3, SampleAgeStep
  <2>2. CASE since'[p] = 0
    BY <1>a, <2>1, <2>2, NetFacts
  <2>3. CASE p \notin alive /\ since'[p] = since[p]
    <3>1. CASE UNCHANGED <<subscribed, sampled>>
      BY <2>1, <2>3, <3>1 DEF Waiting
    <3>2. ASSUME NEW d \in net, Deliver(d) \/ Duplicate(d)
          PROVE  since'[p] <= DELAY + SampleAge'
      <4>1. d.beat.from = p
        BY <3>2 DEF Deliver, Duplicate, Arrives
      <4>2. since[p] <= d.age /\ d.age \in 0 .. DELAY
        BY <2>3, <4>1 DEF InFlight, NetTypeOK, Datagram
      <4> QED
        BY <1>0, <1>a, <2>1, <2>3, <4>2, NetFacts
    <3> QED
      BY <1>3, <3>1, <3>2 DEF NetNext, OwnBeat, Check, NetElse, netVars, PeerBeat, PeerStart,
         PeerStop, Lose, ownVars, allVars
  <2> QED
    BY <1>3, <2>2, <2>3, DeadStep
<1> QED
  BY <1>1, <1>2, <1>3

\* The beat that is sampled, if new, is not recorded later than LAG after the
\* death of its sender.
LEMMA SampleInTime ==
  ASSUME TypeOK, NetTypeOK, Waiting, Sample, IsNew, NEW p \in Peer \ alive,
         p = Sender(Float(subscribed)), Unmistaken(p)
  PROVE  since[p] <= LAG
<1>1. subscribed.from = p
  BY NamesSender DEF NetTypeOK
<1>2. since[p] <= DELAY + SampleAge
  BY <1>1 DEF IsNew, Waiting
<1>3. since[p] \in 0 .. LONG_AGO /\ untilCheck \in -LATENESS .. HEART_BEAT_INTERVAL
  BY DEF TypeOK, NetTypeOK
<1>4. SampleAge = HEART_BEAT_INTERVAL - untilCheck
  BY DEF Sample, SampleAge
<1> QED
  BY <1>2, <1>3, <1>4, NetFacts DEF LAG

\* The step that records a beat measures from there; the others leave the
\* measures alone, start anew or are a unit of time.
LEMMA MeasureStep ==
  ASSUME TypeOK, NetTypeOK, [NetNext]_allVars, ~ NetTick, NEW id \in Id, Measured(id)'
  PROVE  \/ Measured(id) /\ SUBSCRIBER_DICT'[id] = SUBSCRIBER_DICT[id]
         \/ Sample /\ IsNew /\ id = Sender(Float(subscribed)) /\ SUBSCRIBER_DICT'[id] = 0
<1>1. CASE NetStart
  BY <1>1 DEF NetStart, Start, NoStamp, Measured
<1>2. CASE Sample
  <2>1. CASE UNCHANGED vars
    BY <2>1, SameMeasures DEF vars
  <2>2. CASE IsNew /\ dataChangeNotificationCallback(Sender(Float(subscribed)))
    <3>1. Sender(Float(subscribed)) \in Id
      BY <2>2, NetFacts DEF IsNew
    <3>2. CASE id = Sender(Float(subscribed))
      BY <1>2, <2>2, <3>2 DEF dataChangeNotificationCallback, TypeOK
    <3>3. CASE id # Sender(Float(subscribed))
      <4>1. skewed'[id] = skewed[id] /\ SUBSCRIBER_DICT'[id] = SUBSCRIBER_DICT[id]
        BY <2>2, <3>1, <3>3 DEF dataChangeNotificationCallback, TypeOK
      <4> QED
        BY <4>1, Zenon DEF Measured
    <3> QED
      BY <3>2, <3>3
  <2> QED
    BY <1>2, <2>1, <2>2 DEF Sample
<1>3. CASE Check
  BY <1>3, SameMeasures DEF Check, CheckBegins
<1>4. CASE NetElse
  BY <1>4, ElseKeeps, SameMeasures
<1>5. CASE \/ \E p \in Peer : PeerBeat(p) \/ PeerStart(p) \/ PeerStop(p)
           \/ \E d \in net : Deliver(d) \/ Duplicate(d) \/ Lose(d)
           \/ OwnBeat
           \/ UNCHANGED allVars
  BY <1>5, OutsideKeeps, SameMeasures
<1> QED
  BY <1>1, <1>2, <1>3, <1>4, <1>5 DEF NetNext

\* Every step keeps the stamps of the dead bounded by their death.
LEMMA StampedStep ==
  ASSUME TypeOK, NetTypeOK, Waiting, Stamped, NotWrapped, [NetNext]_allVars
  PROVE  Stamped'
<1> SUFFICES ASSUME NEW p \in Peer, p \notin alive', Unmistaken(p), Measured(p)'
             PROVE  since'[p] <= LAG + SUBSCRIBER_DICT'[p]
  BY DEF Stamped
<1>0. /\ p \in Id
      /\ since[p] \in 0 .. LONG_AGO
      /\ SUBSCRIBER_DICT[p] \in Age \cup {NULL}
  BY NetFacts DEF TypeOK, NetTypeOK
<1>1. CASE NetTick
  <2>1. /\ Measured(p)
        /\ SUBSCRIBER_DICT'[p] = SUBSCRIBER_DICT[p] + 1
    BY <1>0, <1>1, TickMeasures DEF NetTick
  <2>2. p \notin alive /\ since'[p] \in Nat /\ since'[p] <= since[p] + 1
    BY <1>0, <1>1, NetFacts DEF NetTick
  <2>3. since[p] <= LAG + SUBSCRIBER_DICT[p] /\ SUBSCRIBER_DICT[p] \in Nat
    BY <1>0, <2>1, <2>2, TimeAssumption DEF Stamped, Measured, Age
  <2> QED
    BY <1>0, <2>1, <2>2, <2>3, NetFacts
<1>2. CASE ~ NetTick
  <2>1. CASE Measured(p) /\ SUBSCRIBER_DICT'[p] = SUBSCRIBER_DICT[p]
    <3>1. SUBSCRIBER_DICT[p] \in Nat
      BY <1>0, <2>1, TimeAssumption DEF Measured, Age
    <3>2. since'[p] = 0 \/ (p \notin alive /\ since'[p] = since[p])
      BY <1>2, DeadStep
    <3> QED
      BY <1>0, <2>1, <3>1, <3>2, NetFacts DEF Stamped
  <2>2. CASE Sample /\ IsNew /\ p = Sender(Float(subscribed)) /\ SUBSCRIBER_DICT'[p] = 0
    <3>1. p \notin alive /\ since' = since
      BY <2>2 DEF Sample
    <3>2. since[p] <= LAG
      BY <2>2, <3>1, SampleInTime
    <3> QED
      BY <1>0, <2>2, <3>1, <3>2, NetFacts
  <2> QED
    BY <1>0, <1>2, <2>1, <2>2, MeasureStep
<1> QED
  BY <1>1, <1>2

\* Every step keeps the measures within half the word.
LEMMA NotWrappedStep ==
  ASSUME TypeOK, NetTypeOK, NotWrapped, [NetNext]_allVars
  PROVE  NotWrapped'
<1> SUFFICES ASSUME NEW id \in Id, Measured(id)'
             PROVE  SUBSCRIBER_DICT'[id] < HALF_WORD
  BY DEF NotWrapped
<1>1. CASE NetTick
  BY <1>1, TickMeasures DEF NetTick
<1>2. CASE ~ NetTick
  BY <1>2, MeasureStep, TimeAssumption DEF NotWrapped
<1> QED
  BY <1>1, <1>2

\* The trace of a dead coupler is bounded for any network.
THEOREM TraceCorrect == NetSpec => []TraceInv
<1>1. NetInit => TraceInv
  <2> SUFFICES ASSUME NetInit
               PROVE  TraceInv
    OBVIOUS
  <2>1. RoundIsDue /\ InFlight /\ Waiting
    BY DEF NetInit, RoundIsDue, InFlight, Waiting
  <2>2. \A id \in Id : ~ Measured(id)
    BY DEF NetInit, Init, NoStamp, Measured
  <2>3. Stamped /\ NotWrapped
    BY <2>2, NetFacts DEF Stamped, NotWrapped
  <2> QED
    BY <2>1, <2>3 DEF TraceInv
<1>2. TypeOK /\ NetTypeOK /\ TraceInv /\ [NetNext]_allVars => TraceInv'
  BY RoundStep, InFlightStep, WaitingStep, StampedStep, NotWrappedStep DEF TraceInv
<1> QED
  BY <1>1, <1>2, CouplerFacts, NetTypeCorrect, PTL DEF NetSpec

\* No datagram, late, repeated or left in node 50000, renews the stamp of a
\* coupler that died longer than LAG ago.
THEOREM FreshCorrect == NetSpec => StampsAreFresh
<1>1. TypeOK /\ NetTypeOK /\ TraceInv /\ [NetNext]_allVars =>
        [\A p \in Peer :
           SUBSCRIBER_DICT[p] # 0 /\ SUBSCRIBER_DICT'[p] = 0 /\ ~ skewed'[p]
             /\ Unmistaken(p) =>
             p \in alive \/ since[p] <= LAG]_allVars
  <2> SUFFICES ASSUME TypeOK, NetTypeOK, TraceInv, [NetNext]_allVars, NEW p \in Peer,
                      SUBSCRIBER_DICT[p] # 0, SUBSCRIBER_DICT'[p] = 0, ~ skewed'[p],
                      Unmistaken(p), p \notin alive
               PROVE  since[p] <= LAG
    OBVIOUS
  <2>0. SUBSCRIBER_DICT'[p] # NULL /\ p \in Id
    BY NetFacts DEF NULL
  <2>1. Measured(p)' /\ p \in Id
    BY <2>0, Zenon DEF Measured
  <2>2. CASE NetTick
    <3>1. Measured(p) /\ SUBSCRIBER_DICT'[p] = SUBSCRIBER_DICT[p] + 1
      BY <2>1, <2>2, TickMeasures DEF NetTick, TraceInv
    <3>2. SUBSCRIBER_DICT[p] \in Nat
      BY <2>1, <3>1, TimeAssumption DEF TypeOK, Measured, Age
    <3> QED
      BY <3>1, <3>2
  <2>3. CASE ~ NetTick
    BY <2>1, <2>3, MeasureStep, SampleInTime DEF TraceInv
  <2> QED
    BY <2>2, <2>3
<1> QED
  BY <1>1, CouplerFacts, NetTypeCorrect, TraceCorrect, PTL DEF NetSpec, StampsAreFresh

\* The death of the coupler judged last mutes the relays, whatever the network
\* does and whoever else beats.
THEOREM DeathCorrect == NetSpec => []DeadPeerMutes
<1>1. TypeOK /\ NetTypeOK /\ TraceInv /\ LastWatchedDeadline => DeadPeerMutes
  <2> SUFFICES ASSUME TypeOK, NetTypeOK, TraceInv, LastWatchedDeadline, TrustedStart,
                      NEW e \in Entry, IsLastWatched(e),
                      HEART_BEAT_ID_LIST[e] \in Peer \ alive,
                      since[HEART_BEAT_ID_LIST[e]] >= MUTED_BY,
                      SUBSCRIBER_DICT[HEART_BEAT_ID_LIST[e]] # NULL,
                      ~ skewed[HEART_BEAT_ID_LIST[e]], Idle,
                      Unmistaken(HEART_BEAT_ID_LIST[e])
               PROVE  Safe
    BY DEF DeadPeerMutes
  <2> DEFINE w == HEART_BEAT_ID_LIST[e]
  <2>1. Measured(w) /\ w \in Id
    BY NetFacts, Zenon DEF Measured
  <2>3. SUBSCRIBER_DICT[w] \in Nat /\ since[w] \in Nat
    BY <2>1, NetFacts, TimeAssumption DEF TypeOK, NetTypeOK, Measured, Age
  <2>2. since[w] <= LAG + SUBSCRIBER_DICT[w] /\ SUBSCRIBER_DICT[w] < HALF_WORD
    BY <2>1 DEF TraceInv, Stamped, NotWrapped
  <2>4. Overdue(w)
    BY <2>2, <2>3, NetFacts, TimeAssumption DEF Overdue, MUTED_BY
  <2> QED
    BY <2>4 DEF LastWatchedDeadline
<1> QED
  BY <1>1, CouplerFacts, NetTypeCorrect, TraceCorrect, PTL
=============================================================================
