-------------------------- MODULE SoleBeat_proofs --------------------------
(***************************************************************************)
(* A watched coupler that is the only one to beat is not found down: the   *)
(* proof of SoleBeatIsHeard, for any timing that TimeoutCoversBeat allows  *)
(* and any coupler whose numbers of beats fit into the float beside its ID. *)
(*                                                                         *)
(* The beats of the living coupler are followed from the multicast through *)
(* node 50000 and the sample to the stamp and the verdict, as those of a   *)
(* dead one are in KeepAliveNet_proofs.  Each place holds a trace of the   *)
(* time before the last disturbance, until the place before it is free of  *)
(* it; READ_BY to JUDGED_BY are the times after which that is over.        *)
(***************************************************************************)
EXTENDS KeepAliveNet_proofs

\* The longest time between two beats.
BEAT_WAIT == HEART_BEAT_INTERVAL + LATENESS

\* Node 50000 holds a beat sent since the disturbance, it has been sampled, it has
\* been recorded, and it has been judged.
READ_BY == 2 * DELAY + BEAT_WAIT
TAKEN_BY == READ_BY + BEAT_WAIT
STAMPED_BY == TAKEN_BY + BEAT_WAIT + LATENESS + DELAY
JUDGED_BY == STAMPED_BY + BEAT_WAIT

\* The beats of p on their way, and those sent since the disturbance.
From(p) == {d \in net : d.beat.from = p}
Young(p) == {d \in From(p) : d.age < since[p]}

\* The time since the last beat of p was due, the number of beats since the one with
\* number n, and the time since that one was due.
SinceBeat(p) == HEART_BEAT_INTERVAL - nextBeat[p]
Ago(p, n) == beats[p] - n
SinceDue(p, n) == HEART_BEAT_INTERVAL * Ago(p, n) + SinceBeat(p)

\* A beat that is sampled was due at most so long before: it was late, it was on its
\* way, and so was the beat after it.
RECENT == 2 * DELAY + LATENESS + BEAT_WAIT

\* A check begins at most LATENESS late.
WalkIsEarly == i # 0 => untilCheck >= HEART_BEAT_INTERVAL - LATENESS

\* What the process before sent arrives before the first sample of a coupler that
\* does not beat.
OwnIsOld ==
  \A d \in net : d.beat.from = COUPLER_ID /\ ~ ENABLE_HEART_BEAT =>
    /\ d.age >= HEART_BEAT_INTERVAL - untilCheck
    /\ \A p \in Peer : SUBSCRIBER_DICT[p] = NULL

\* If it is what will be sampled first, nothing has been recorded.
OwnIsFirst ==
  ~ ENABLE_HEART_BEAT /\ subscribed # sampled /\ subscribed.from \notin Peer =>
    \A p \in Peer : SUBSCRIBER_DICT[p] = NULL

\* A beat on its way is one of those counted, and its age tells when it was due.
Paced(p) ==
  p \in alive =>
    \A d \in Young(p) : /\ d.beat.n \in 1 .. beats[p]
                        /\ SinceDue(p, d.beat.n) <= LATENESS + d.age

\* No two beats on their way have the same number.
Distinct(p) ==
  p \in alive => \A d, e \in Young(p) : d.beat.n = e.beat.n => d = e

\* The beat in node 50000 is not on its way again, and was recent when it arrived:
\* until the next one is sent and while that is on its way.
Current(p) ==
  /\ \A d \in From(p) : d.beat.n # subscribed.n
  /\ subscribed.n \in 1 .. beats[p]
  /\ \/ SinceDue(p, subscribed.n) <= DELAY + LATENESS + SinceBeat(p)
     \/ \E d \in From(p) :
          SinceDue(p, subscribed.n) <= DELAY + LATENESS + BEAT_WAIT + d.age

\* Node 50000 holds such a beat, unless the first since the disturbance is missing.
Read(p) ==
  p \in alive /\ since[p] > DELAY =>
    \/ subscribed.from = p => Current(p)
    \/ since[p] <= DELAY + SinceBeat(p)
    \/ \E d \in From(p) : since[p] <= DELAY + BEAT_WAIT + d.age

\* What was sampled has not come back, unless it was sampled before.
Taken(p) ==
  p \in alive /\ since[p] > READ_BY =>
    \/ sampled.from = p =>
         /\ \A d \in From(p) : d.beat.n # sampled.n
         /\ sampled.n \in 1 .. beats[p]
         /\ SinceDue(p, sampled.n) <= RECENT + SampleAge
    \/ since[p] <= READ_BY + SampleAge

\* The stamp is at most t old, unless it was made before.
StampWithin(p, t) == SUBSCRIBER_DICT[p] <= t \/ since[p] <= TAKEN_BY + t

\* The stamp is as old as the last beat, as the first one on its way, or as the
\* time that the beat in node 50000 waits for its sample allows.
Renewed(p) ==
  p \in alive /\ since[p] > TAKEN_BY /\ ~ ENABLE_HEART_BEAT =>
    /\ Float(subscribed) = Float(sampled) =>
         \/ StampWithin(p, SinceBeat(p))
         \/ \E d \in From(p) : StampWithin(p, BEAT_WAIT + d.age)
    /\ Float(subscribed) # Float(sampled) => StampWithin(p, BEAT_WAIT + DELAY + SampleAge)

\* No verdict "down" is left, unless the check that finds p alive is still to come
\* or still on its way to the entry.
Revised(p) ==
  p \in alive /\ since[p] > STAMPED_BY /\ ~ ENABLE_HEART_BEAT /\ Serving =>
    \/ CURRENT_STATE # STATE_DOWN
    \/ ~ Decided
    \/ i = 0 /\ since[p] <= STAMPED_BY + HEART_BEAT_INTERVAL - untilCheck
    \/ i # 0 /\ \E e \in Entry : e >= i /\ HEART_BEAT_ID_LIST[e] # 0

Heard(p) == Paced(p) /\ Distinct(p) /\ Read(p) /\ Taken(p) /\ Renewed(p)

SoleInv ==
  TimeoutCoversBeat =>
    /\ WalkIsEarly /\ OwnIsOld /\ OwnIsFirst
    /\ \A p \in Peer : Peer = {p} /\ BeatsFit(p, LAST) =>
         Heard(p) /\ (OneWatched /\ p \in Watched => Revised(p))

-----------------------------------------------------------------------------
(* The times. *)

\* The facts about the times, and the types of what is measured.
LEMMA SoleFacts ==
  /\ BEAT_WAIT \in Nat /\ READ_BY \in Nat /\ TAKEN_BY \in Nat
  /\ STAMPED_BY \in Nat /\ JUDGED_BY \in Nat
  /\ RECENT \in Nat
  /\ SETTLED_BY = JUDGED_BY + 1
BY NetFacts DEF BEAT_WAIT, READ_BY, TAKEN_BY, STAMPED_BY, JUDGED_BY, SETTLED_BY, RECENT

\* The time until the sample is at most a late period.
LEMMA WaitBounds ==
  ASSUME NEW r, NEW u \in -LATENESS .. HEART_BEAT_INTERVAL, r # 0 => u <= 0
  PROVE  (IF r = 2 THEN -u ELSE HEART_BEAT_INTERVAL - u) \in 0 .. BEAT_WAIT
BY NetFacts DEF BEAT_WAIT

\* The types of what is measured of p.
LEMMA Measures ==
  ASSUME TypeOK, NetTypeOK, RoundIsDue, NEW p \in Peer
  PROVE  /\ p \in Id /\ p # COUPLER_ID
         /\ since[p] \in Nat
         /\ nextBeat[p] \in Int
         /\ SinceBeat(p) \in 0 .. BEAT_WAIT
         /\ SampleAge \in 0 .. BEAT_WAIT
         /\ untilCheck \in -LATENESS .. HEART_BEAT_INTERVAL
         /\ SUBSCRIBER_DICT[p] \in Int /\ SUBSCRIBER_DICT[p] >= NULL
         /\ beats[p] \in 0 .. LAST
<1>0. since[p] \in Nat /\ nextBeat[p] \in -LATENESS .. HEART_BEAT_INTERVAL
      /\ beats[p] \in 0 .. LAST
  BY NetFacts DEF NetTypeOK
<1>1. p \in Id /\ p # COUPLER_ID
  BY DEF Peer
<1>2. SUBSCRIBER_DICT[p] \in Int /\ SUBSCRIBER_DICT[p] >= NULL
  BY <1>1, TimeAssumption DEF TypeOK, Age, NULL
<1>3. untilCheck \in -LATENESS .. HEART_BEAT_INTERVAL
  BY DEF TypeOK
<1>4. SampleAge \in 0 .. BEAT_WAIT
  BY <1>3, WaitBounds DEF SampleAge, RoundIsDue
<1>5. SinceBeat(p) \in 0 .. BEAT_WAIT
  BY <1>0, NetFacts DEF SinceBeat, BEAT_WAIT
<1> QED
  BY <1>0, <1>1, <1>2, <1>3, <1>4, <1>5

\* When a beat was due is an integer.
LEMMA DueType ==
  ASSUME TypeOK, NetTypeOK, RoundIsDue, NEW p \in Peer, NEW n \in 0 .. LAST
  PROVE  Ago(p, n) \in Int /\ SinceDue(p, n) \in Int
<1>1. Ago(p, n) \in Int /\ SinceBeat(p) \in Int /\ HEART_BEAT_INTERVAL \in Int
  BY Measures, NetFacts, SoleFacts DEF Ago
<1> QED
  BY <1>1 DEF SinceDue

\* A beat that was due less than n periods ago has less than n after it.
LEMMA FewAfter ==
  ASSUME TypeOK, NetTypeOK, RoundIsDue, NEW p \in Peer, NEW n \in 1 .. beats[p],
         NEW k \in Nat, SinceDue(p, n) < HEART_BEAT_INTERVAL * k
  PROVE  Ago(p, n) \in Nat /\ Ago(p, n) < k
<1>1. Ago(p, n) \in Nat /\ SinceBeat(p) \in Nat /\ HEART_BEAT_INTERVAL \in Nat
  BY Measures, NetFacts, SoleFacts DEF Ago
<1>2. ASSUME NEW x \in Nat, NEW y \in Nat, NEW z \in Nat, x * y + z < x * k
      PROVE  y < k
  <2>1. SUFFICES ASSUME y >= k
                 PROVE  FALSE
    OBVIOUS
  <2>2. x * y >= x * k /\ x * y \in Nat /\ x * k \in Nat
    BY <2>1
  <2> QED
    BY <1>2, <2>2
<1> QED
  BY <1>1, <1>2 DEF SinceDue

\* The types of a datagram.
LEMMA FromType ==
  ASSUME NetTypeOK, NEW p \in Peer, NEW d \in From(p)
  PROVE  /\ d \in net /\ d.beat.from = p
         /\ d.beat \in Beat /\ d.beat.n \in 0 .. LAST
         /\ d.age \in 0 .. DELAY
BY DEF From, NetTypeOK, Datagram, Beat

\* The types of the numbers that are read.
LEMMA NumberType ==
  ASSUME NetTypeOK
  PROVE  subscribed.n \in 0 .. LAST /\ sampled.n \in 0 .. LAST
BY NetFacts DEF NetTypeOK, Beat, NO_BEAT

\* A beat that is sent was due just before; the others were due when they were.
LEMMA NextDue ==
  ASSUME TypeOK, NetTypeOK, RoundIsDue, NEW p \in Peer, PeerBeat(p)
  PROVE  /\ beats'[p] = beats[p] + 1 /\ beats'[p] \in 1 .. LAST
         /\ SinceDue(p, beats[p])' \in 0 .. LATENESS
         /\ \A n \in 0 .. LAST : SinceDue(p, n)' = SinceDue(p, n)
<1>0. /\ beats[p] \in 0 .. LAST /\ nextBeat[p] \in -LATENESS .. HEART_BEAT_INTERVAL
      /\ HEART_BEAT_INTERVAL \in Nat /\ LATENESS \in Nat /\ LAST \in Nat
  BY NetFacts DEF NetTypeOK
<1>1. /\ beats'[p] = beats[p] + 1 /\ beats[p] < LAST
      /\ nextBeat'[p] = nextBeat[p] + HEART_BEAT_INTERVAL /\ nextBeat[p] <= 0
  BY DEF PeerBeat, NetTypeOK
<1>2. Ago(p, beats[p])' = 0
  BY <1>0, <1>1 DEF Ago
<1>3. SinceBeat(p)' = SinceBeat(p) - HEART_BEAT_INTERVAL /\ SinceBeat(p) \in Int
      /\ SinceBeat(p)' \in 0 .. LATENESS
  BY <1>0, <1>1 DEF SinceBeat
<1>4. ASSUME NEW n \in 0 .. LAST
      PROVE  SinceDue(p, n)' = SinceDue(p, n)
  <2>1. Ago(p, n)' = Ago(p, n) + 1 /\ Ago(p, n) \in Int
    BY <1>0, <1>1 DEF Ago
  <2>2. HEART_BEAT_INTERVAL * (Ago(p, n) + 1)
          = HEART_BEAT_INTERVAL * Ago(p, n) + HEART_BEAT_INTERVAL
    BY <1>0, <2>1
  <2>3. HEART_BEAT_INTERVAL * Ago(p, n) \in Int
    BY <1>0, <2>1
  <2> QED
    BY <1>0, <1>3, <2>1, <2>2, <2>3 DEF SinceDue
<1>5. HEART_BEAT_INTERVAL * 0 = 0
  BY <1>0
<1> QED
  BY <1>0, <1>1, <1>2, <1>3, <1>4, <1>5 DEF SinceDue

-----------------------------------------------------------------------------
(* What a step does to the beats on their way. *)

\* A beat that is sent joins those on their way.
LEMMA FromSent ==
  ASSUME TypeOK, NetTypeOK, NEW p \in Peer, PeerBeat(p)
  PROVE  From(p)' = From(p) \cup {[beat |-> [from |-> p, n |-> beats'[p]], age |-> 0]}
BY DEF From, PeerBeat, Sent

\* A beat that arrives leaves them.
LEMMA FromDelivered ==
  ASSUME NEW p \in Peer, NEW d \in net, Deliver(d)
  PROVE  From(p)' = From(p) \ {d}
BY DEF From, Deliver

\* A unit of time ages them.
LEMMA FromOlder ==
  ASSUME NetTypeOK, NEW p \in Peer, NetTick
  PROVE  /\ \A d \in From(p)' : \E old \in From(p) : old.beat = d.beat /\ d.age = old.age + 1
         /\ \A d \in From(p) : \E new \in From(p)' : new.beat = d.beat /\ new.age = d.age + 1
<1>1. \A d \in net : LET new == [d EXCEPT !.age = @ + 1]
                    IN  new.beat = d.beat /\ new.age = d.age + 1
  BY DEF NetTypeOK, Datagram
<1>2. net' = {[d EXCEPT !.age = @ + 1] : d \in net}
  BY DEF NetTick
<1>3. ASSUME NEW d \in From(p)'
      PROVE  \E old \in From(p) : old.beat = d.beat /\ d.age = old.age + 1
  <2>1. d \in net' /\ d.beat.from = p
    BY <1>3 DEF From
  <2>2. PICK old \in net : d = [old EXCEPT !.age = @ + 1]
    BY <1>2, <2>1
  <2>3. d.beat = old.beat /\ d.age = old.age + 1
    BY <1>1, <2>2
  <2> QED
    BY <2>1, <2>3 DEF From
<1>4. ASSUME NEW d \in From(p)
      PROVE  \E new \in From(p)' : new.beat = d.beat /\ new.age = d.age + 1
  <2> DEFINE new == [d EXCEPT !.age = @ + 1]
  <2>1. d \in net /\ d.beat.from = p
    BY <1>4 DEF From
  <2>2. new \in net' /\ new.beat = d.beat /\ new.age = d.age + 1
    BY <1>1, <1>2, <2>1
  <2> HIDE DEF new
  <2> QED
    BY <2>1, <2>2 DEF From
<1> QED
  BY <1>3, <1>4

\* The steps that leave p, living and undisturbed, its beats.
Leaves(p) ==
  /\ UNCHANGED <<beats[p], nextBeat[p], since[p]>>
  /\ From(p)' = From(p)
  /\ subscribed' = subscribed \/ subscribed'.from # p

\* A living coupler that is not disturbed sends a beat, or one of its beats arrives,
\* or time passes, or the step leaves it its beats.
LEMMA AliveStep ==
  ASSUME TypeOK, NetTypeOK, [NetNext]_allVars, NEW p \in Peer, Peer = {p},
         p \in alive', since'[p] # 0
  PROVE  /\ p \in alive
         /\ \/ Leaves(p)
            \/ PeerBeat(p) /\ since' = since
            \/ \E d \in From(p) : Deliver(d) /\ UNCHANGED <<beats, nextBeat, since>>
            \/ NetTick
<1> USE DEF Leaves, From
<1>0. \A beat \in OWN_BEATS : beat.from # p
  BY DEF OWN_BEATS, Peer
<1>1. CASE NetStart
  <2>1. NO_BEAT.from # p
    BY IdAssumption DEF NO_BEAT, Peer
  <2> QED
    BY <1>1, <2>1 DEF NetStart
<1>2. CASE OwnBeat
  BY <1>0, <1>2 DEF OwnBeat, Sent
<1>3. CASE Sample \/ Check \/ NetElse \/ UNCHANGED allVars
  BY <1>3 DEF Sample, Check, NetElse, netVars, allVars
<1>4. ASSUME NEW q \in Peer, PeerBeat(q) \/ PeerStart(q) \/ PeerStop(q)
      PROVE  PeerBeat(p) /\ since' = since /\ p \in alive
  BY <1>4 DEF PeerBeat, PeerStart, PeerStop, NetTypeOK
<1>5. ASSUME NEW d \in net, Deliver(d) \/ Duplicate(d) \/ Lose(d)
      PROVE  /\ p \in alive
             /\ \/ Leaves(p)
                \/ d \in From(p) /\ Deliver(d) /\ UNCHANGED <<beats, nextBeat, since>>
  <2>1. CASE Deliver(d)
    BY <2>1 DEF Deliver, Arrives
  <2>2. CASE Duplicate(d)
    BY <2>2 DEF Duplicate, Arrives, Disturbed
  <2>3. CASE Lose(d)
    BY <2>3 DEF Lose, ownVars, Disturbed
  <2> QED
    BY <1>5, <2>1, <2>2, <2>3
<1>6. CASE NetTick
  BY <1>6 DEF NetTick
<1> QED
  BY <1>1, <1>2, <1>3, <1>4, <1>5, <1>6 DEF NetNext

\* What a unit of time does to what is measured of a living coupler.
LEMMA TickAges ==
  ASSUME TypeOK, NetTypeOK, RoundIsDue, NEW p \in Peer, p \in alive, NetTick
  PROVE  /\ since'[p] \in Nat /\ since'[p] <= since[p] + 1
         /\ SinceBeat(p)' = SinceBeat(p) + 1
         /\ SampleAge' = SampleAge + 1
         /\ SUBSCRIBER_DICT'[p] <= SUBSCRIBER_DICT[p] + 1
         /\ SUBSCRIBER_DICT'[p] \in Int
         /\ SUBSCRIBER_DICT[p] = NULL => SUBSCRIBER_DICT'[p] = NULL
         /\ UNCHANGED <<beats, subscribed, sampled, alive, ENABLE_HEART_BEAT>>
         /\ \A n \in 0 .. LAST : SinceDue(p, n)' = SinceDue(p, n) + 1
<1>0. /\ nextBeat[p] \in Int /\ since[p] \in 0 .. LONG_AGO
      /\ untilCheck \in Int
      /\ p \in Id
      /\ SUBSCRIBER_DICT[p] \in Age \cup {NULL}
  BY NetFacts DEF NetTypeOK, TypeOK
<1>1. nextBeat'[p] = nextBeat[p] - 1
  BY DEF NetTick
<1>2. since'[p] = IF since[p] < LONG_AGO THEN since[p] + 1 ELSE LONG_AGO
  BY DEF NetTick
<1>3. UNCHANGED <<beats, subscribed, sampled, ran, alive, ENABLE_HEART_BEAT>>
  BY DEF NetTick, ownVars
<1>4. untilCheck' = untilCheck - 1
  BY DEF NetTick, Tick
<1>5. SUBSCRIBER_DICT'[p] = IF SUBSCRIBER_DICT[p] = NULL THEN NULL
                           ELSE IF SUBSCRIBER_DICT[p] = 2 * HALF_WORD - 1 THEN 0
                           ELSE SUBSCRIBER_DICT[p] + 1
  BY <1>0 DEF NetTick, Tick
<1>6. SUBSCRIBER_DICT'[p] \in Int /\ SUBSCRIBER_DICT'[p] <= SUBSCRIBER_DICT[p] + 1
  BY <1>0, <1>5, TimeAssumption DEF Age, NULL
<1>7. SampleAge' = SampleAge + 1
  BY <1>0, <1>3, <1>4, NetFacts DEF SampleAge
<1>8. SinceBeat(p)' = SinceBeat(p) + 1
  BY <1>0, <1>1, NetFacts DEF SinceBeat
<1>9. SinceBeat(p) \in Int
  BY Measures
<1>10. ASSUME NEW n \in 0 .. LAST
       PROVE  SinceDue(p, n)' = SinceDue(p, n) + 1
  <2>1. Ago(p, n)' = Ago(p, n)
    BY <1>3 DEF Ago
  <2>2. HEART_BEAT_INTERVAL * Ago(p, n) \in Int
    BY Measures, NetFacts DEF Ago
  <2> QED
    BY <1>8, <1>9, <2>1, <2>2 DEF SinceDue
<1>11. since'[p] \in Nat /\ since'[p] <= since[p] + 1
  BY <1>0, <1>2, NetFacts
<1>12. SUBSCRIBER_DICT[p] = NULL => SUBSCRIBER_DICT'[p] = NULL
  BY <1>5
<1>13. UNCHANGED <<beats, subscribed, sampled, alive, ENABLE_HEART_BEAT>>
  BY <1>3
<1> QED
  BY <1>6, <1>7, <1>8, <1>10, <1>11, <1>12, <1>13, Zenon

-----------------------------------------------------------------------------
(* The beats on their way. *)

\* All are young when the disturbance is longer ago than a datagram can last.
LEMMA AllYoung ==
  ASSUME NetTypeOK, NEW p \in Peer, since[p] > DELAY
  PROVE  From(p) = Young(p)
<1>1. \A d \in From(p) : d.age < since[p]
  BY FromType, NetFacts DEF NetTypeOK
<1> QED
  BY <1>1 DEF Young

\* Every step keeps the beats of p at the pace of the clock.
LEMMA PacedStep ==
  ASSUME TypeOK, NetTypeOK, NetTypeOK', RoundIsDue, NEW p \in Peer,
         Peer = {p}, Paced(p), [NetNext]_allVars
  PROVE  Paced(p)'
<1> SUFFICES ASSUME p \in alive', NEW d \in Young(p)'
             PROVE  /\ d.beat.n \in 1 .. beats'[p]
                    /\ SinceDue(p, d.beat.n)' <= LATENESS + d.age
  BY DEF Paced
<1>0. d \in From(p)' /\ d.age < since'[p]
  BY DEF Young
<1>1. since'[p] # 0
  BY <1>0, NetFacts DEF From, NetTypeOK, Datagram
<1>a. p \in alive
  BY <1>1, AliveStep
<1>b. beats[p] \in 0 .. LAST
  BY Measures
<1>2. CASE Leaves(p)
  <2>1. d \in Young(p)
    BY <1>0, <1>2 DEF Leaves, Young
  <2>2. SinceDue(p, d.beat.n)' = SinceDue(p, d.beat.n) /\ beats'[p] = beats[p]
    BY <1>2 DEF Leaves, SinceDue, Ago, SinceBeat
  <2> QED
    BY <1>a, <2>1, <2>2 DEF Paced
<1>3. CASE PeerBeat(p) /\ since' = since
  <2>1. beats'[p] = beats[p] + 1 /\ SinceDue(p, beats[p])' \in 0 .. LATENESS
    BY <1>3, NextDue
  <2>2. CASE d \in From(p)
    <3>1. d \in Young(p)
      BY <1>0, <1>3, <2>2 DEF Young
    <3>2. d.beat.n \in 1 .. beats[p] /\ SinceDue(p, d.beat.n) <= LATENESS + d.age
      BY <1>a, <3>1 DEF Paced
    <3>3. SinceDue(p, d.beat.n)' = SinceDue(p, d.beat.n)
      BY <1>3, <2>2, FromType, NextDue
    <3> QED
      BY <1>b, <2>1, <3>2, <3>3
  <2>3. CASE d = [beat |-> [from |-> p, n |-> beats'[p]], age |-> 0]
    <3>1. d.beat.n = beats'[p] /\ d.age = 0
      BY <2>3
    <3>2. SinceDue(p, d.beat.n)' = SinceDue(p, beats[p])'
      BY <3>1 DEF SinceDue, Ago
    <3> QED
      BY <1>b, <2>1, <3>1, <3>2, NetFacts
  <2> QED
    BY <1>0, <1>3, <2>2, <2>3, FromSent
<1>4. ASSUME NEW e \in From(p), Deliver(e), UNCHANGED <<beats, nextBeat, since>>
      PROVE  /\ d.beat.n \in 1 .. beats'[p]
             /\ SinceDue(p, d.beat.n)' <= LATENESS + d.age
  <2>1. d \in Young(p)
    BY <1>0, <1>4, FromDelivered DEF Young, From
  <2>2. SinceDue(p, d.beat.n)' = SinceDue(p, d.beat.n)
    BY <1>4 DEF SinceDue, Ago, SinceBeat
  <2> QED
    BY <1>4, <1>a, <2>1, <2>2 DEF Paced
<1>5. CASE NetTick
  <2>1. PICK old \in From(p) : old.beat = d.beat /\ d.age = old.age + 1
    BY <1>0, <1>5, FromOlder
  <2>2. old.age \in Nat /\ old.beat.n \in 0 .. LAST
    BY FromType, NetFacts
  <2>3. old \in Young(p)
    BY <1>0, <1>a, <1>5, <2>1, <2>2, TickAges, Measures DEF Young
  <2>4. d.beat.n \in 1 .. beats[p] /\ SinceDue(p, d.beat.n) <= LATENESS + old.age
    BY <1>a, <2>1, <2>3 DEF Paced
  <2>5. SinceDue(p, d.beat.n)' = SinceDue(p, d.beat.n) + 1 /\ SinceDue(p, d.beat.n) \in Int
        /\ beats' = beats
    BY <1>5, <1>a, <2>1, <2>2, TickAges, DueType
  <2> QED
    BY <2>1, <2>2, <2>4, <2>5, NetFacts
<1> QED
  BY <1>1, <1>2, <1>3, <1>4, <1>5, AliveStep

\* Every step keeps the numbers of the beats on their way apart.
LEMMA DistinctStep ==
  ASSUME TypeOK, NetTypeOK, NetTypeOK', RoundIsDue, NEW p \in Peer,
         Peer = {p}, Paced(p), Distinct(p), [NetNext]_allVars
  PROVE  Distinct(p)'
<1> SUFFICES ASSUME p \in alive', NEW d \in Young(p)', NEW e \in Young(p)',
                    d.beat.n = e.beat.n
             PROVE  d = e
  BY DEF Distinct
<1>0. /\ d \in From(p)' /\ d.age < since'[p]
      /\ e \in From(p)' /\ e.age < since'[p]
  BY DEF Young
<1>1. since'[p] # 0
  BY <1>0, NetFacts DEF From, NetTypeOK, Datagram
<1>a. p \in alive
  BY <1>1, AliveStep
<1>2. CASE Leaves(p)
  <2>1. d \in Young(p) /\ e \in Young(p)
    BY <1>0, <1>2 DEF Leaves, Young
  <2> QED
    BY <1>a, <2>1 DEF Distinct
<1>3. CASE PeerBeat(p) /\ since' = since
  <2> DEFINE sent == [beat |-> [from |-> p, n |-> beats'[p]], age |-> 0]
  <2>1. ASSUME NEW f \in Young(p)', f \in From(p)
        PROVE  f \in Young(p) /\ f.beat.n # sent.beat.n
    <3>1. f \in Young(p)
      BY <1>3, <2>1 DEF Young
    <3>2. f.beat.n \in 1 .. beats[p]
      BY <1>a, <3>1 DEF Paced
    <3>3. beats'[p] = beats[p] + 1 /\ beats[p] \in Nat
      BY <1>3, NextDue, Measures, NetFacts
    <3> QED
      BY <3>1, <3>2, <3>3
  <2>2. /\ d \in From(p) \/ d = sent
        /\ e \in From(p) \/ e = sent
    BY <1>0, <1>3, FromSent
  <2>3. CASE d \in From(p) /\ e \in From(p)
    <3>1. d \in Young(p) /\ e \in Young(p)
      BY <2>1, <2>3
    <3> QED
      BY <1>a, <3>1 DEF Distinct
  <2> QED
    BY <2>1, <2>2, <2>3
<1>4. ASSUME NEW f \in From(p), Deliver(f), UNCHANGED <<beats, nextBeat, since>>
      PROVE  d = e
  <2>1. d \in Young(p) /\ e \in Young(p)
    BY <1>0, <1>4, FromDelivered DEF Young, From
  <2> QED
    BY <1>a, <2>1 DEF Distinct
<1>5. CASE NetTick
  <2>1. PICK c \in net : d = [c EXCEPT !.age = @ + 1]
    BY <1>0, <1>5 DEF From, NetTick
  <2>2. PICK f \in net : e = [f EXCEPT !.age = @ + 1]
    BY <1>0, <1>5 DEF From, NetTick
  <2>3. /\ d.beat = c.beat /\ d.age = c.age + 1 /\ c.age \in Nat
        /\ e.beat = f.beat /\ e.age = f.age + 1 /\ f.age \in Nat
    BY <2>1, <2>2, NetFacts DEF NetTypeOK, Datagram
  <2>4. since'[p] <= since[p] + 1 /\ since'[p] \in Nat /\ since[p] \in Nat
    BY <1>a, <1>5, TickAges, Measures
  <2>5. c \in Young(p) /\ f \in Young(p)
    BY <1>0, <2>3, <2>4 DEF Young, From
  <2>6. c = f
    BY <1>a, <2>3, <2>5 DEF Distinct
  <2> QED
    BY <2>1, <2>2, <2>6
<1> QED
  BY <1>1, <1>2, <1>3, <1>4, <1>5, AliveStep

-----------------------------------------------------------------------------
(* Node 50000 and what is sampled of it. *)

\* What holds of the beats on their way, long after the disturbance.
LEMMA OnTheWay ==
  ASSUME TypeOK, NetTypeOK, RoundIsDue, NEW p \in Peer, p \in alive, since[p] > DELAY,
         Paced(p), Distinct(p)
  PROVE  /\ \A d \in From(p) : /\ d.beat.n \in 1 .. beats[p]
                               /\ SinceDue(p, d.beat.n) <= LATENESS + d.age
         /\ \A d, e \in From(p) : d.beat.n = e.beat.n => d = e
BY AllYoung DEF Paced, Distinct

\* Every step keeps node 50000 recent.
LEMMA ReadStep ==
  ASSUME TypeOK, NetTypeOK, NetTypeOK', RoundIsDue, NEW p \in Peer,
         Peer = {p}, Paced(p), Distinct(p), Read(p), [NetNext]_allVars
  PROVE  Read(p)'
<1> SUFFICES ASSUME p \in alive', since'[p] > DELAY
             PROVE  \/ subscribed'.from = p => Current(p)'
                    \/ since'[p] <= DELAY + SinceBeat(p)'
                    \/ \E d \in From(p)' : since'[p] <= DELAY + BEAT_WAIT + d.age
  BY DEF Read
<1>1. since'[p] # 0
  BY NetFacts
<1>a. p \in alive
  BY <1>1, AliveStep
<1>b. /\ subscribed.n \in 0 .. LAST /\ SinceDue(p, subscribed.n) \in Int
      /\ beats[p] \in 0 .. LAST
      /\ SinceBeat(p) \in 0 .. BEAT_WAIT
  BY NumberType, DueType, Measures
<1>2. CASE Leaves(p)
  <2>1. /\ beats'[p] = beats[p] /\ SinceBeat(p)' = SinceBeat(p)
        /\ \A n : SinceDue(p, n)' = SinceDue(p, n)
    BY <1>2 DEF Leaves, Ago, SinceDue, SinceBeat
  <2>2. CASE subscribed'.from # p
    BY <2>2
  <2>3. CASE subscribed' = subscribed
    <3>1. SinceDue(p, subscribed.n)' = SinceDue(p, subscribed.n)
      BY <2>1, <2>3 DEF SinceDue, Ago
    <3>2. Current(p) => Current(p)'
      BY <1>2, <2>1, <2>3, <3>1 DEF Leaves, Current
    <3> QED
      BY <1>2, <1>a, <2>1, <2>3, <3>2 DEF Leaves, Read
  <2> QED
    BY <1>2, <2>2, <2>3 DEF Leaves
<1>3. CASE PeerBeat(p) /\ since' = since
  <2> DEFINE sent == [beat |-> [from |-> p, n |-> beats'[p]], age |-> 0]
  <2>1. /\ beats'[p] = beats[p] + 1
        /\ \A n \in 0 .. LAST : SinceDue(p, n)' = SinceDue(p, n)
    BY <1>3, NextDue
  <2>2. From(p)' = From(p) \cup {sent} /\ subscribed' = subscribed
    BY <1>3, FromSent DEF PeerBeat, ownVars
  <2>3. CASE subscribed.from = p => Current(p)
    <3> SUFFICES ASSUME subscribed.from = p, Current(p)
                 PROVE  Current(p)'
      BY <2>2, <2>3
    <3>1. subscribed'.n \in 1 .. beats'[p]
      BY <1>b, <2>1, <2>2 DEF Current
    <3>2. subscribed.n # beats'[p]
      BY <1>b, <2>1 DEF Current
    <3>3. \A d \in From(p)' : d.beat.n # subscribed'.n
      BY <2>2, <3>2 DEF Current
    <3>4. SinceDue(p, subscribed.n)' = SinceDue(p, subscribed.n)
      BY <1>b, <2>1, <2>2 DEF SinceDue, Ago
    <3>5. CASE SinceDue(p, subscribed.n) <= DELAY + LATENESS + SinceBeat(p)
      <4>1. SinceDue(p, subscribed.n)' <= DELAY + LATENESS + BEAT_WAIT + sent.age
        BY <1>b, <3>4, <3>5, NetFacts, SoleFacts
      <4> QED
        BY <2>2, <3>1, <3>3, <4>1 DEF Current
    <3>6. ASSUME NEW d \in From(p),
                 SinceDue(p, subscribed.n) <= DELAY + LATENESS + BEAT_WAIT + d.age
          PROVE  Current(p)'
      BY <2>2, <3>1, <3>3, <3>4, <3>6 DEF Current
    <3> QED
      BY <3>5, <3>6 DEF Current
  <2>4. CASE since[p] <= DELAY + SinceBeat(p)
    <3>1. since'[p] <= DELAY + BEAT_WAIT + sent.age
      BY <1>3, <2>4, Measures, SoleFacts, NetFacts
    <3> QED
      BY <2>2, <3>1
  <2>5. CASE \E d \in From(p) : since[p] <= DELAY + BEAT_WAIT + d.age
    BY <1>3, <2>2, <2>5
  <2> QED
    BY <1>3, <1>a, <2>3, <2>4, <2>5 DEF Read
<1>4. ASSUME NEW d \in From(p), Deliver(d), UNCHANGED <<beats, nextBeat, since>>
      PROVE  Current(p)'
  <2>1. From(p)' = From(p) \ {d} /\ subscribed' = d.beat
    BY <1>4, FromDelivered, FromType DEF Deliver, Arrives
  <2>2. /\ d.beat.n \in 1 .. beats[p]
        /\ SinceDue(p, d.beat.n) <= LATENESS + d.age
        /\ \A e \in From(p) : d.beat.n = e.beat.n => d = e
    BY <1>4, <1>a, OnTheWay
  <2>3. SinceDue(p, subscribed.n)' = SinceDue(p, d.beat.n) /\ SinceBeat(p)' = SinceBeat(p)
    BY <1>4, <2>1 DEF SinceDue, Ago, SinceBeat
  <2>4. d.age \in 0 .. DELAY /\ SinceDue(p, d.beat.n) \in Int
    BY FromType, DueType
  <2>5. SinceDue(p, subscribed.n)' <= DELAY + LATENESS + SinceBeat(p)'
    BY <1>b, <2>2, <2>3, <2>4, NetFacts, SoleFacts
  <2>6. /\ subscribed'.n \in 1 .. beats'[p]
        /\ \A e \in From(p)' : e.beat.n # subscribed'.n
    BY <1>4, <2>1, <2>2
  <2> QED
    BY <2>5, <2>6 DEF Current
<1>5. CASE NetTick
  <2>1. /\ since'[p] <= since[p] + 1 /\ since'[p] \in Nat
        /\ SinceBeat(p)' = SinceBeat(p) + 1
        /\ subscribed' = subscribed /\ beats' = beats
        /\ \A n \in 0 .. LAST : SinceDue(p, n)' = SinceDue(p, n) + 1
    BY <1>5, <1>a, TickAges
  <2>2. since[p] \in Nat /\ SinceBeat(p) \in Nat
    BY Measures, SoleFacts
  <2>3. CASE since[p] <= DELAY
    BY <2>1, <2>2, <2>3, NetFacts
  <2>4. CASE subscribed.from = p => Current(p)
    <3> SUFFICES ASSUME subscribed.from = p, Current(p)
                 PROVE  Current(p)'
      BY <2>1, <2>4
    <3>1. SinceDue(p, subscribed.n)' = SinceDue(p, subscribed.n) + 1
      BY <1>b, <2>1 DEF SinceDue, Ago
    <3>2. /\ \A d \in From(p)' : d.beat.n # subscribed'.n
          /\ subscribed'.n \in 1 .. beats'[p]
      BY <1>5, <2>1, FromOlder DEF Current
    <3>3. CASE SinceDue(p, subscribed.n) <= DELAY + LATENESS + SinceBeat(p)
      <4>1. SinceDue(p, subscribed.n)' <= DELAY + LATENESS + SinceBeat(p)'
        BY <1>b, <2>1, <2>2, <3>1, <3>3, NetFacts
      <4> QED
        BY <3>2, <4>1 DEF Current
    <3>4. ASSUME NEW d \in From(p),
                 SinceDue(p, subscribed.n) <= DELAY + LATENESS + BEAT_WAIT + d.age
          PROVE  Current(p)'
      <4>1. PICK e \in From(p)' : e.age = d.age + 1
        BY <1>5, FromOlder
      <4>2. d.age \in Nat
        BY FromType, NetFacts
      <4>3. SinceDue(p, subscribed.n)' <= DELAY + LATENESS + BEAT_WAIT + e.age
        BY <1>b, <3>1, <3>4, <4>1, <4>2, NetFacts, SoleFacts
      <4> QED
        BY <3>2, <4>3 DEF Current
    <3> QED
      BY <3>3, <3>4 DEF Current
  <2>5. CASE since[p] <= DELAY + SinceBeat(p)
    BY <2>1, <2>2, <2>5, NetFacts
  <2>6. ASSUME NEW d \in From(p), since[p] <= DELAY + BEAT_WAIT + d.age
        PROVE  \E e \in From(p)' : since'[p] <= DELAY + BEAT_WAIT + e.age
    <3>1. PICK e \in From(p)' : e.age = d.age + 1
      BY <1>5, FromOlder
    <3>2. d.age \in Nat
      BY FromType, NetFacts
    <3> QED
      BY <2>1, <2>2, <2>6, <3>1, <3>2, NetFacts, SoleFacts
  <2> QED
    BY <1>a, <2>3, <2>4, <2>5, <2>6, <2>2, NetFacts DEF Read
<1> QED
  BY <1>1, <1>2, <1>3, <1>4, <1>5, AliveStep

\* What is sampled long after the disturbance is recent.
LEMMA SampleIsRecent ==
  ASSUME TypeOK, NetTypeOK, RoundIsDue, NEW p \in Peer, p \in alive, since[p] > READ_BY,
         Read(p), Sample, subscribed.from = p
  PROVE  /\ \A d \in From(p) : d.beat.n # subscribed.n
         /\ subscribed.n \in 1 .. beats[p]
         /\ SinceDue(p, subscribed.n) <= RECENT
<1>0. /\ since[p] \in Nat /\ SinceBeat(p) \in 0 .. BEAT_WAIT
      /\ SinceDue(p, subscribed.n) \in Int
      /\ DELAY \in Nat /\ BEAT_WAIT \in Nat /\ LATENESS \in Nat
  BY Measures, NumberType, DueType, SoleFacts, NetFacts
<1>1. \A d \in From(p) : d.age \in 0 .. DELAY
  BY FromType
<1>2. since[p] > DELAY
  BY <1>0 DEF READ_BY
<1>3. Current(p)
  BY <1>0, <1>1, <1>2 DEF Read, READ_BY
<1>4. \/ SinceDue(p, subscribed.n) <= DELAY + LATENESS + SinceBeat(p)
      \/ \E d \in From(p) : SinceDue(p, subscribed.n) <= DELAY + LATENESS + BEAT_WAIT + d.age
  BY <1>3 DEF Current
<1>5. SinceDue(p, subscribed.n) <= RECENT
  BY <1>0, <1>1, <1>4 DEF RECENT
<1> QED
  BY <1>3, <1>5 DEF Current

\* Every step keeps what was sampled recent.
LEMMA TakenStep ==
  ASSUME TypeOK, NetTypeOK, NetTypeOK', RoundIsDue, NEW p \in Peer,
         Peer = {p}, Read(p), Taken(p), [NetNext]_allVars
  PROVE  Taken(p)'
<1> SUFFICES ASSUME p \in alive', since'[p] > READ_BY
             PROVE  \/ sampled'.from = p =>
                         /\ \A d \in From(p)' : d.beat.n # sampled'.n
                         /\ sampled'.n \in 1 .. beats'[p]
                         /\ SinceDue(p, sampled.n)' <= RECENT + SampleAge'
                    \/ since'[p] <= READ_BY + SampleAge'
  BY DEF Taken
<1>1. since'[p] # 0
  BY SoleFacts
<1>a. p \in alive
  BY <1>1, AliveStep
<1>b. sampled.n \in 0 .. LAST /\ SinceDue(p, sampled.n) \in Int /\ RECENT \in Nat
  BY NumberType, DueType, SoleFacts
<1>c. /\ since[p] \in Nat /\ SampleAge \in 0 .. BEAT_WAIT /\ beats[p] \in 0 .. LAST
      /\ READ_BY \in Nat /\ BEAT_WAIT \in Nat /\ DELAY \in Nat
  BY Measures, SoleFacts, NetFacts
<1>d. CASE NetStart
  BY <1>d, IdAssumption DEF NetStart, NO_BEAT, Peer
<1>2. CASE Leaves(p) /\ ~ NetStart /\ ~ NetTick
  <2>1. /\ beats'[p] = beats[p] /\ nextBeat'[p] = nextBeat[p]
        /\ From(p)' = From(p) /\ since'[p] = since[p]
    BY <1>2 DEF Leaves
  <2>2. CASE Sample
    <3>1. sampled' = subscribed
      BY <2>2 DEF Sample
    <3>2. SampleAge' \in Nat
      BY <2>2, <1>c, Measures DEF Sample, Due, SampleAge, vars, dataChangeNotificationCallback
    <3> SUFFICES ASSUME subscribed.from = p
                 PROVE  /\ \A d \in From(p)' : d.beat.n # sampled'.n
                        /\ sampled'.n \in 1 .. beats'[p]
                        /\ SinceDue(p, sampled.n)' <= RECENT + SampleAge'
      BY <3>1
    <3>3. /\ \A d \in From(p) : d.beat.n # subscribed.n
          /\ subscribed.n \in 1 .. beats[p]
          /\ SinceDue(p, subscribed.n) <= RECENT
      BY <1>a, <2>1, <2>2, SampleIsRecent
    <3>4. SinceDue(p, sampled.n)' = SinceDue(p, subscribed.n)
      BY <2>1, <3>1 DEF SinceDue, Ago, SinceBeat
    <3>5. SinceDue(p, subscribed.n) \in Int
      BY NumberType, DueType
    <3> QED
      BY <1>b, <2>1, <3>1, <3>2, <3>3, <3>4, <3>5
  <2>3. CASE ~ Sample
    <3>1. SampleAge' = SampleAge
      BY <1>2, <2>3, SampleAgeStep
    <3>2. sampled' = sampled
      BY <1>2, <2>3 DEF NetNext, OwnBeat, Check, NetElse, netVars, PeerBeat, PeerStart, PeerStop,
         Deliver, Duplicate, Lose, Arrives, ownVars, allVars
    <3>3. SinceDue(p, sampled.n)' = SinceDue(p, sampled.n)
      BY <2>1, <3>2 DEF SinceDue, Ago, SinceBeat
    <3> QED
      BY <1>a, <2>1, <3>1, <3>2, <3>3 DEF Taken
  <2> QED
    BY <2>2, <2>3
<1>3. CASE PeerBeat(p) /\ since' = since
  <2> DEFINE sent == [beat |-> [from |-> p, n |-> beats'[p]], age |-> 0]
  <2>1. /\ beats'[p] = beats[p] + 1
        /\ \A n \in 0 .. LAST : SinceDue(p, n)' = SinceDue(p, n)
    BY <1>3, NextDue
  <2>2. From(p)' = From(p) \cup {sent} /\ sampled' = sampled
    BY <1>3, FromSent DEF PeerBeat, ownVars
  <2>3. SampleAge' = SampleAge
    BY <1>3 DEF PeerBeat, ownVars, vars, SampleAge
  <2>4. CASE since[p] <= READ_BY + SampleAge
    BY <1>3, <2>3, <2>4
  <2>5. ASSUME sampled.from = p, \A d \in From(p) : d.beat.n # sampled.n,
               sampled.n \in 1 .. beats[p], SinceDue(p, sampled.n) <= RECENT + SampleAge
        PROVE  /\ \A d \in From(p)' : d.beat.n # sampled'.n
               /\ sampled'.n \in 1 .. beats'[p]
               /\ SinceDue(p, sampled.n)' <= RECENT + SampleAge'
    <3>1. sampled.n # beats'[p] /\ sampled.n \in 1 .. beats'[p]
      BY <1>c, <2>1, <2>5
    <3>2. SinceDue(p, sampled.n)' = SinceDue(p, sampled.n)
      BY <1>b, <2>1, <2>2 DEF SinceDue, Ago
    <3> QED
      BY <2>2, <2>3, <2>5, <3>1, <3>2
  <2> QED
    BY <1>3, <1>a, <2>2, <2>4, <2>5 DEF Taken
<1>4. ASSUME NEW d \in From(p), Deliver(d), UNCHANGED <<beats, nextBeat, since>>
      PROVE  Taken(p)'
  <2>1. From(p)' \subseteq From(p) /\ sampled' = sampled
    BY <1>4, FromDelivered, FromType DEF Deliver, Arrives
  <2>2. SampleAge' = SampleAge
    BY <1>4 DEF Deliver, Arrives, vars, SampleAge
  <2>3. SinceDue(p, sampled.n)' = SinceDue(p, sampled.n)
    BY <1>4, <2>1 DEF SinceDue, Ago, SinceBeat
  <2> QED
    BY <1>4, <1>a, <2>1, <2>2, <2>3 DEF Taken
<1>5. CASE NetTick
  <2>1. /\ since'[p] <= since[p] + 1 /\ since'[p] \in Nat
        /\ sampled' = sampled /\ SampleAge' = SampleAge + 1 /\ beats' = beats
        /\ \A n \in 0 .. LAST : SinceDue(p, n)' = SinceDue(p, n) + 1
    BY <1>5, <1>a, TickAges
  <2>2. CASE since[p] <= READ_BY
    BY <1>c, <2>1, <2>2
  <2>3. CASE since[p] <= READ_BY + SampleAge
    BY <1>c, <2>1, <2>3
  <2>4. ASSUME sampled.from = p, \A d \in From(p) : d.beat.n # sampled.n,
               sampled.n \in 1 .. beats[p], SinceDue(p, sampled.n) <= RECENT + SampleAge
        PROVE  /\ \A d \in From(p)' : d.beat.n # sampled'.n
               /\ sampled'.n \in 1 .. beats'[p]
               /\ SinceDue(p, sampled.n)' <= RECENT + SampleAge'
    <3>1. \A d \in From(p)' : d.beat.n # sampled'.n
      BY <1>5, <2>1, <2>4, FromOlder
    <3>2. SinceDue(p, sampled.n)' = SinceDue(p, sampled.n) + 1
      BY <1>b, <2>1 DEF SinceDue, Ago
    <3> QED
      BY <1>b, <1>c, <2>1, <2>4, <3>1, <3>2
  <2> QED
    BY <1>a, <1>c, <2>1, <2>2, <2>3, <2>4 DEF Taken
<1> QED
  BY <1>1, <1>d, <1>2, <1>3, <1>4, <1>5, AliveStep DEF Taken

-----------------------------------------------------------------------------
(* The coupler's own beats. *)

\* Every check begins in time and leaves the rest of the period to the next.
LEMMA WalkIsEarlyStep ==
  ASSUME TypeOK, RoundIsDue, WalkIsEarly, [NetNext]_allVars
  PROVE  WalkIsEarly'
<1> USE DEF WalkIsEarly
<1>0. untilCheck \in -LATENESS .. HEART_BEAT_INTERVAL
  BY DEF TypeOK
<1>1. CASE NetStart \/ OwnBeat \/ Sample
  BY <1>1 DEF NetStart, Start, OwnBeat, Sample, vars, dataChangeNotificationCallback
<1>2. CASE Check
  BY <1>0, <1>2, NetFacts DEF Check, CheckBegins
<1>3. CASE NetElse
  <2>1. untilCheck' = untilCheck
    BY <1>3, ElseKeeps
  <2>2. CASE Signal \/ Exit \/ Client
    BY <2>1, <2>2, QuietStep DEF watchVars
  <2>3. CASE CheckEntry
    <3>1. i # 0
      BY <2>3, WalkStep, ListFacts
    <3> QED
      BY <2>1, <3>1
  <2> QED
    BY <1>3, <2>2, <2>3 DEF NetElse
<1>4. CASE \/ \E p \in Peer : PeerBeat(p) \/ PeerStart(p) \/ PeerStop(p)
           \/ \E d \in net : Deliver(d) \/ Duplicate(d) \/ Lose(d)
           \/ UNCHANGED allVars
  BY <1>4 DEF PeerBeat, PeerStart, PeerStop, Deliver, Duplicate, Lose, Arrives, allVars, vars
<1>5. CASE NetTick
  BY <1>5 DEF NetTick, Tick, Idle
<1> QED
  BY <1>1, <1>2, <1>3, <1>4, <1>5 DEF NetNext

\* While datagrams of the process before are on their way, no round is due.
LEMMA OwnWaits ==
  ASSUME TypeOK, NetTypeOK, TimeoutCoversBeat, OwnIsOld, ~ ENABLE_HEART_BEAT,
         NEW d \in net, d.beat.from = COUPLER_ID
  PROVE  untilCheck > 0
<1>1. d.age \in 0 .. DELAY /\ untilCheck \in Int
  BY DEF NetTypeOK, Datagram, TypeOK
<1>2. d.age >= HEART_BEAT_INTERVAL - untilCheck
  BY DEF OwnIsOld
<1> QED
  BY <1>1, <1>2, NetFacts DEF TimeoutCoversBeat

\* Every step keeps them older than the process.
LEMMA OwnIsOldStep ==
  ASSUME TypeOK, NetTypeOK, NetTypeOK', RoundIsDue, TimeoutCoversBeat, OwnIsOld,
         [NetNext]_allVars
  PROVE  OwnIsOld'
<1> SUFFICES ASSUME NEW d \in net', d.beat.from = COUPLER_ID, ~ ENABLE_HEART_BEAT'
             PROVE  /\ d.age >= HEART_BEAT_INTERVAL - untilCheck'
                    /\ \A p \in Peer : SUBSCRIBER_DICT'[p] = NULL
  BY DEF OwnIsOld
<1>0. d.age \in 0 .. DELAY
  BY DEF NetTypeOK, Datagram
<1>1. CASE NetStart
  BY <1>0, <1>1, NetFacts DEF NetStart, Start, NoStamp
<1>2. CASE OwnBeat
  BY <1>2 DEF OwnBeat, vars, OwnIsOld
<1>3. CASE Sample \/ Check
  <2>1. d \in net /\ ~ ENABLE_HEART_BEAT /\ untilCheck <= 0
    BY <1>3 DEF Sample, Check, CheckBegins, Due
  <2> QED
    BY <2>1, OwnWaits DEF TypeOK
<1>4. CASE NetElse
  BY <1>4, ElseKeeps DEF netVars, OwnIsOld
<1>5. ASSUME NEW p \in Peer, PeerBeat(p)
      PROVE  d \in net /\ UNCHANGED <<SUBSCRIBER_DICT, untilCheck, ENABLE_HEART_BEAT>>
  BY <1>5 DEF PeerBeat, Sent, vars, ownVars, Peer
<1>6. CASE \/ \E p \in Peer : PeerStart(p) \/ PeerStop(p)
           \/ \E e \in net : Deliver(e) \/ Duplicate(e) \/ Lose(e)
           \/ UNCHANGED allVars
  BY <1>6 DEF PeerStart, PeerStop, Deliver, Duplicate, Lose, Arrives, allVars, vars, ownVars,
     OwnIsOld
<1>7. CASE NetTick
  <2>1. PICK old \in net : d = [old EXCEPT !.age = @ + 1]
    BY <1>7 DEF NetTick
  <2>2. old.beat = d.beat /\ d.age = old.age + 1 /\ old.age \in Nat
    BY <2>1, NetFacts DEF NetTypeOK, Datagram
  <2>3. /\ untilCheck' = untilCheck - 1 /\ untilCheck \in Int
        /\ ENABLE_HEART_BEAT' = ENABLE_HEART_BEAT
        /\ \A p \in Peer : SUBSCRIBER_DICT[p] = NULL => SUBSCRIBER_DICT'[p] = NULL
    BY <1>7, NetFacts DEF NetTick, Tick, ownVars, TypeOK
  <2>4. /\ old.age >= HEART_BEAT_INTERVAL - untilCheck
        /\ \A p \in Peer : SUBSCRIBER_DICT[p] = NULL
    BY <2>2, <2>3 DEF OwnIsOld
  <2> QED
    BY <2>2, <2>3, <2>4, NetFacts
<1> QED
  BY <1>1, <1>2, <1>3, <1>4, <1>5, <1>6, <1>7 DEF NetNext, OwnIsOld

\* Every step keeps them the first to be sampled.
LEMMA OwnIsFirstStep ==
  ASSUME TypeOK, NetTypeOK, OwnIsOld, OwnIsFirst, [NetNext]_allVars
  PROVE  OwnIsFirst'
<1> SUFFICES ASSUME ~ ENABLE_HEART_BEAT', subscribed' # sampled', subscribed'.from \notin Peer,
                    NEW p \in Peer
             PROVE  SUBSCRIBER_DICT'[p] = NULL
  BY DEF OwnIsFirst
<1>1. CASE NetStart \/ Sample
  BY <1>1 DEF NetStart, Sample
<1>2. CASE OwnBeat \/ Check
  BY <1>2 DEF OwnBeat, Check, CheckBegins, vars, OwnIsFirst
<1>3. CASE NetElse
  BY <1>3, ElseKeeps DEF netVars, OwnIsFirst
<1>4. CASE \/ \E q \in Peer : PeerBeat(q) \/ PeerStart(q) \/ PeerStop(q)
           \/ \E d \in net : Lose(d)
           \/ UNCHANGED allVars
  BY <1>4 DEF PeerBeat, PeerStart, PeerStop, Lose, allVars, vars, ownVars, OwnIsFirst
<1>5. ASSUME NEW d \in net, Deliver(d) \/ Duplicate(d)
      PROVE  SUBSCRIBER_DICT'[p] = NULL
  <2>1. /\ subscribed' = d.beat
        /\ UNCHANGED <<SUBSCRIBER_DICT, ENABLE_HEART_BEAT>>
    BY <1>5 DEF Deliver, Duplicate, Arrives, vars
  <2>2. d.beat.from = COUPLER_ID
    BY <2>1 DEF NetTypeOK, Datagram, Beat, Peer
  <2> QED
    BY <2>1, <2>2 DEF OwnIsOld
<1>6. CASE NetTick
  <2>1. /\ UNCHANGED <<ENABLE_HEART_BEAT, subscribed, sampled>>
        /\ SUBSCRIBER_DICT[p] = NULL => SUBSCRIBER_DICT'[p] = NULL
    BY <1>6, NetFacts DEF NetTick, Tick, ownVars, TypeOK
  <2> QED
    BY <2>1 DEF OwnIsFirst
<1> QED
  BY <1>1, <1>2, <1>3, <1>4, <1>5, <1>6 DEF NetNext

-----------------------------------------------------------------------------
(* The stamp. *)

\* A stamp within a time is within every longer one.
LEMMA LongerWithin ==
  ASSUME TypeOK, NetTypeOK, RoundIsDue, NEW p \in Peer, NEW t \in Int, NEW u \in Int,
         t <= u, StampWithin(p, t)
  PROVE  StampWithin(p, u)
BY Measures, SoleFacts DEF StampWithin

\* Before the arrival of a beat, the stamp is young enough to wait for the sample.
LEMMA BeforeArrival ==
  ASSUME TypeOK, NetTypeOK, RoundIsDue, NEW p \in Peer, p \in alive, since[p] > TAKEN_BY,
         ~ ENABLE_HEART_BEAT, Renewed(p)
  PROVE  StampWithin(p, BEAT_WAIT + DELAY + SampleAge)
<1>0. /\ SinceBeat(p) \in 0 .. BEAT_WAIT /\ SampleAge \in 0 .. BEAT_WAIT
      /\ BEAT_WAIT \in Nat /\ DELAY \in Nat
  BY Measures, SoleFacts, NetFacts
<1>1. CASE Float(subscribed) # Float(sampled)
  BY <1>1 DEF Renewed
<1>2. CASE StampWithin(p, SinceBeat(p))
  BY <1>0, <1>2, LongerWithin
<1>3. ASSUME NEW d \in From(p), StampWithin(p, BEAT_WAIT + d.age)
      PROVE  StampWithin(p, BEAT_WAIT + DELAY + SampleAge)
  <2>1. d.age \in 0 .. DELAY
    BY FromType
  <2> QED
    BY <1>0, <1>3, <2>1, LongerWithin
<1> QED
  BY <1>1, <1>2, <1>3 DEF Renewed

\* A beat that arrives long after the disturbance is another float than the one
\* sampled last: the two are at most six apart.
LEMMA ArrivalIsNew ==
  ASSUME TypeOK, NetTypeOK, RoundIsDue, TimeoutCoversBeat, NEW p \in Peer, BeatsFit(p, LAST),
         p \in alive, since[p] > TAKEN_BY, Paced(p), Distinct(p), Taken(p), NEW d \in From(p)
  PROVE  Float(d.beat) # Float(sampled)
<1>0. /\ SampleAge \in 0 .. BEAT_WAIT /\ since[p] \in Nat /\ beats[p] \in 0 .. LAST
      /\ READ_BY \in Nat /\ BEAT_WAIT \in Nat /\ RECENT \in Nat
      /\ DELAY \in Nat /\ LATENESS \in Nat /\ HEART_BEAT_INTERVAL \in Nat /\ LAST \in Nat
      /\ LATENESS < HEART_BEAT_INTERVAL /\ DELAY < HEART_BEAT_INTERVAL
  BY Measures, SoleFacts, NetFacts DEF TimeoutCoversBeat
<1>1. /\ d.beat.from = p /\ d.beat \in Beat /\ d.beat.n \in 0 .. LAST /\ d.age \in 0 .. DELAY
  BY FromType
<1>2. /\ p \in FloatId /\ LAST \in FloatBeat
      /\ Float(d.beat) = strtof(p, d.beat.n)
  BY <1>1, FloatOf, NetAssumption
<1>3. since[p] > READ_BY /\ since[p] > DELAY /\ ~ since[p] <= READ_BY + SampleAge
  BY <1>0 DEF TAKEN_BY, READ_BY
<1>4. d.beat.n \in 1 .. beats[p] /\ SinceDue(p, d.beat.n) <= LATENESS + d.age
  BY <1>3, OnTheWay
<1>5. d.beat.n \in 0 .. LAST /\ d.beat.n # 0
  BY <1>1, <1>4
<1>6. CASE sampled = NO_BEAT
  <2>1. Float(d.beat).fraction # 0
    BY <1>2, <1>5, FloatFits
  <2> QED
    BY <1>6, <2>1, FloatOf DEF ZERO
<1>7. CASE sampled \in Beat /\ sampled.from # p
  <2>1. /\ sampled.from \in FloatId /\ sampled.n \in FloatBeat
        /\ Float(sampled) = strtof(sampled.from, sampled.n)
    BY <1>7, FloatOf
  <2> QED
    BY <1>2, <1>5, <1>7, <2>1, OtherFloatDiffers
<1>8. CASE sampled \in Beat /\ sampled.from = p
  <2>1. /\ sampled.n \in 1 .. beats[p] /\ sampled.n \in 0 .. LAST
        /\ SinceDue(p, sampled.n) <= RECENT + SampleAge
        /\ d.beat.n # sampled.n
    BY <1>3, <1>8, NumberType DEF Taken
  <2>2. SinceDue(p, d.beat.n) \in Int /\ SinceDue(p, sampled.n) \in Int
    BY <1>5, <2>1, DueType
  <2>3. /\ SinceDue(p, d.beat.n) < HEART_BEAT_INTERVAL * 2
        /\ SinceDue(p, sampled.n) < HEART_BEAT_INTERVAL * 7
    BY <1>0, <1>1, <1>4, <2>1, <2>2 DEF RECENT, BEAT_WAIT
  <2>4. /\ Ago(p, d.beat.n) \in Nat /\ Ago(p, d.beat.n) < 2
        /\ Ago(p, sampled.n) \in Nat /\ Ago(p, sampled.n) < 7
    BY <1>4, <2>1, <2>3, FewAfter
  <2>5. /\ sampled.n <= d.beat.n + 6 /\ d.beat.n <= sampled.n + 6
        /\ sampled.n # 0
    BY <1>0, <1>4, <2>1, <2>4 DEF Ago
  <2>6. d.beat.n < sampled.n \/ sampled.n < d.beat.n
    BY <1>5, <2>1
  <2>7. Float(sampled) = strtof(p, sampled.n)
    BY <1>8, FloatOf
  <2>8. strtof(p, d.beat.n) # strtof(p, sampled.n)
    BY <1>2, <1>5, <2>1, <2>5, <2>6, NearBeatsDiffer
  <2> QED
    BY <1>2, <2>7, <2>8
<1> QED
  BY <1>6, <1>7, <1>8 DEF NetTypeOK

\* A beat of p in node 50000 names p.
LEMMA FitNames ==
  ASSUME NetTypeOK, NEW p \in Peer, BeatsFit(p, LAST), subscribed.from = p
  PROVE  Sender(Float(subscribed)) = p
<1>1. subscribed # NO_BEAT
  BY FloatOf DEF NO_BEAT
<1>2. subscribed \in Beat
  BY <1>1 DEF NetTypeOK
<1>3. /\ p \in FloatId /\ subscribed.n \in 0 .. LAST /\ LAST \in FloatBeat
      /\ Float(subscribed) = strtof(p, subscribed.n)
  BY <1>2, FloatOf, NetAssumption
<1>4. One(p) \in Nat /\ One(p) >= 1 /\ Power(10)[Digits(LAST)] \in Nat
  <2>1. LAST \in 0 .. LAST
    BY NetFacts
  <2> QED
    BY <1>3, <2>1, BitsLeft, UnitsGrow
<1>5. BeatsStayBelow(p, LAST)
  BY <1>4 DEF BeatsFit, BeatsStayBelow
<1> QED
  BY <1>3, <1>5, FloatStaysBelow

\* Every step keeps the stamp recent.
LEMMA RenewedStep ==
  ASSUME TypeOK, TypeOK', NetTypeOK, NetTypeOK', RoundIsDue, RoundIsDue', TimeoutCoversBeat,
         NEW p \in Peer, Peer = {p}, BeatsFit(p, LAST), OwnIsOld, OwnIsFirst,
         Paced(p), Distinct(p), Taken(p), Renewed(p),
         [NetNext]_allVars
  PROVE  Renewed(p)'
<1> SUFFICES ASSUME p \in alive', since'[p] > TAKEN_BY, ~ ENABLE_HEART_BEAT'
             PROVE  /\ Float(subscribed)' = Float(sampled)' =>
                         \/ StampWithin(p, SinceBeat(p))'
                         \/ \E d \in From(p)' : StampWithin(p, BEAT_WAIT + d.age)'
                    /\ Float(subscribed)' # Float(sampled)' =>
                         StampWithin(p, BEAT_WAIT + DELAY + SampleAge)'
  BY DEF Renewed
<1>1. since'[p] # 0
  BY SoleFacts
<1>a. p \in alive
  BY <1>1, AliveStep
<1>b. /\ since[p] \in Nat /\ SampleAge \in 0 .. BEAT_WAIT /\ SinceBeat(p) \in 0 .. BEAT_WAIT
      /\ TAKEN_BY \in Nat /\ BEAT_WAIT \in Nat /\ DELAY \in Nat
      /\ SUBSCRIBER_DICT[p] \in Int
  BY Measures, SoleFacts, NetFacts
<1>c. SinceBeat(p)' \in 0 .. BEAT_WAIT /\ SampleAge' \in 0 .. BEAT_WAIT
  <2>1. nextBeat'[p] \in -LATENESS .. HEART_BEAT_INTERVAL
    BY DEF NetTypeOK
  <2>2. untilCheck' \in -LATENESS .. HEART_BEAT_INTERVAL
    BY DEF TypeOK
  <2>3. SinceBeat(p)' \in 0 .. BEAT_WAIT
    BY <2>1, NetFacts DEF SinceBeat, BEAT_WAIT
  <2>4. SampleAge' \in 0 .. BEAT_WAIT
    <3>1. ran' # 0 => untilCheck' <= 0
      BY DEF RoundIsDue
    <3> QED
      BY <2>2, <3>1, WaitBounds, Zenon DEF SampleAge
  <2> QED
    BY <2>3, <2>4
<1>d. ASSUME SUBSCRIBER_DICT'[p] = NULL
      PROVE  Renewed(p)'
  <2>1. /\ SUBSCRIBER_DICT'[p] <= SinceBeat(p)'
        /\ SUBSCRIBER_DICT'[p] <= BEAT_WAIT + DELAY + SampleAge'
    BY <1>b, <1>c, <1>d DEF NULL
  <2> QED
    BY <2>1 DEF Renewed, StampWithin
<1>2. CASE NetStart
  BY <1>2, <1>d, NetFacts DEF NetStart, Start, NoStamp, Renewed
<1>3. CASE Sample
  <2>1. /\ sampled' = subscribed /\ subscribed' = subscribed /\ since' = since
        /\ From(p)' = From(p) /\ SinceBeat(p)' = SinceBeat(p)
        /\ ~ ENABLE_HEART_BEAT /\ Float(subscribed)' = Float(sampled)'
    BY <1>3 DEF Sample, From, SinceBeat, Float
  <2>2. CASE IsNew
    <3>1. Sender(Float(subscribed)) = p
      BY <2>2 DEF IsNew
    <3>2. SUBSCRIBER_DICT'[p] = 0
      BY <1>3, <2>2, <3>1, NetFacts DEF Sample, dataChangeNotificationCallback, TypeOK
    <3> QED
      BY <1>c, <2>1, <3>2 DEF StampWithin
  <2>3. CASE ~ IsNew /\ Float(subscribed) = Float(sampled)
    BY <1>3, <1>a, <2>1, <2>3 DEF Sample, vars, Renewed, StampWithin
  <2>4. CASE ~ IsNew /\ Float(subscribed) # Float(sampled)
    <3>1. subscribed.from # p
      BY <2>4, FitNames DEF IsNew
    <3>2. SUBSCRIBER_DICT'[p] = NULL
      BY <1>3, <2>1, <2>4, <3>1 DEF Sample, vars, OwnIsFirst
    <3> QED
      BY <1>d, <2>1, <3>2 DEF Renewed
  <2> QED
    BY <2>2, <2>3, <2>4
<1>4. CASE Leaves(p) /\ ~ NetStart /\ ~ Sample /\ ~ NetTick
  <2>1. /\ SampleAge' = SampleAge /\ From(p)' = From(p) /\ since'[p] = since[p]
        /\ SinceBeat(p)' = SinceBeat(p)
    BY <1>4, SampleAgeStep DEF Leaves, SinceBeat
  <2>2. /\ UNCHANGED <<SUBSCRIBER_DICT, sampled, ENABLE_HEART_BEAT>>
    <3>1. CASE OwnBeat \/ Check \/ UNCHANGED allVars
      BY <3>1 DEF OwnBeat, Check, CheckBegins, allVars, vars
    <3>2. CASE NetElse
      BY <3>2, ElseKeeps DEF netVars
    <3>3. CASE \/ \E q \in Peer : PeerBeat(q) \/ PeerStart(q) \/ PeerStop(q)
               \/ \E d \in net : Deliver(d) \/ Duplicate(d) \/ Lose(d)
      BY <3>3 DEF PeerBeat, PeerStart, PeerStop, Deliver, Duplicate, Lose, Arrives, vars, ownVars
    <3> QED
      BY <1>4, <3>1, <3>2, <3>3 DEF NetNext
  <2>3. CASE subscribed' = subscribed
    BY <1>a, <2>1, <2>2, <2>3 DEF Renewed, StampWithin, Float
  <2>4. CASE subscribed' # subscribed
    <3>1. PICK d \in net : subscribed' = d.beat
      BY <1>4, <2>4 DEF NetNext, OwnBeat, Check, NetElse, netVars, PeerBeat, PeerStart, PeerStop,
         Deliver, Duplicate, Lose, Arrives, ownVars, allVars
    <3>2. d.beat.from = COUPLER_ID
      BY <1>4, <2>4, <3>1 DEF Leaves, NetTypeOK, Datagram, Beat, Peer
    <3>3. SUBSCRIBER_DICT'[p] = NULL
      BY <2>2, <3>2 DEF OwnIsOld
    <3> QED
      BY <1>d, <3>3 DEF Renewed
  <2> QED
    BY <2>3, <2>4
<1>5. CASE PeerBeat(p) /\ since' = since
  <2> DEFINE sent == [beat |-> [from |-> p, n |-> beats'[p]], age |-> 0]
  <2>1. From(p)' = From(p) \cup {sent}
    BY <1>5, FromSent
  <2>2. /\ UNCHANGED <<SUBSCRIBER_DICT, sampled, subscribed, ENABLE_HEART_BEAT>>
        /\ SampleAge' = SampleAge
    BY <1>5 DEF PeerBeat, ownVars, vars, SampleAge
  <2>3. CASE Float(subscribed) # Float(sampled)
    BY <1>5, <1>a, <2>2, <2>3 DEF Renewed, StampWithin, Float
  <2>4. CASE StampWithin(p, SinceBeat(p)) /\ Float(subscribed) = Float(sampled)
    <3>1. StampWithin(p, BEAT_WAIT + sent.age)
      BY <1>b, <2>4, LongerWithin
    <3> QED
      BY <1>5, <2>1, <2>2, <2>4, <3>1 DEF StampWithin, Float
  <2>5. ASSUME NEW d \in From(p), StampWithin(p, BEAT_WAIT + d.age),
               Float(subscribed) = Float(sampled)
        PROVE  Renewed(p)'
    BY <1>5, <2>1, <2>2, <2>5 DEF StampWithin, Renewed, Float
  <2> QED
    BY <1>5, <1>a, <2>2, <2>3, <2>4, <2>5 DEF Renewed
<1>6. ASSUME NEW d \in From(p), Deliver(d), UNCHANGED <<beats, nextBeat, since>>
      PROVE  Renewed(p)'
  <2>1. /\ UNCHANGED <<SUBSCRIBER_DICT, sampled, ENABLE_HEART_BEAT>>
        /\ subscribed' = d.beat /\ SampleAge' = SampleAge
    BY <1>6 DEF Deliver, Arrives, vars, SampleAge
  <2>2. Float(subscribed)' # Float(sampled)'
    <3>1. Float(d.beat) # Float(sampled)
      BY <1>6, <1>a, ArrivalIsNew
    <3> QED
      BY <2>1, <3>1 DEF Float
  <2>3. StampWithin(p, BEAT_WAIT + DELAY + SampleAge)
    BY <1>6, <1>a, <2>1, BeforeArrival
  <2> QED
    BY <1>6, <2>1, <2>2, <2>3 DEF Renewed, StampWithin
<1>7. CASE NetTick
  <2>1. /\ since'[p] <= since[p] + 1 /\ since'[p] \in Nat
        /\ SinceBeat(p)' = SinceBeat(p) + 1 /\ SampleAge' = SampleAge + 1
        /\ SUBSCRIBER_DICT'[p] <= SUBSCRIBER_DICT[p] + 1 /\ SUBSCRIBER_DICT'[p] \in Int
        /\ UNCHANGED <<subscribed, sampled, ENABLE_HEART_BEAT>>
    BY <1>7, <1>a, TickAges
  <2>2. CASE since[p] <= TAKEN_BY
    <3>1. /\ since'[p] <= TAKEN_BY + SinceBeat(p)'
          /\ since'[p] <= TAKEN_BY + (BEAT_WAIT + DELAY + SampleAge')
      BY <1>b, <2>1, <2>2
    <3> QED
      BY <3>1 DEF StampWithin
  <2>3. ASSUME NEW t \in Int, NEW u \in Int, StampWithin(p, t), u >= t + 1
        PROVE  SUBSCRIBER_DICT'[p] <= u \/ since'[p] <= TAKEN_BY + u
    BY <1>b, <2>1, <2>3 DEF StampWithin
  <2>4. CASE Float(subscribed) # Float(sampled) /\ StampWithin(p, BEAT_WAIT + DELAY + SampleAge)
    <3> DEFINE t == BEAT_WAIT + DELAY + SampleAge
               u == BEAT_WAIT + DELAY + SampleAge'
    <3>1. t \in Int /\ u \in Int /\ u >= t + 1
      BY <1>b, <1>c, <2>1
    <3>2. StampWithin(p, t)
      BY <2>4
    <3> HIDE DEF t, u
    <3>3. SUBSCRIBER_DICT'[p] <= u \/ since'[p] <= TAKEN_BY + u
      BY <2>3, <3>1, <3>2
    <3>4. StampWithin(p, BEAT_WAIT + DELAY + SampleAge)'
      BY <3>3 DEF StampWithin, u
    <3> QED
      BY <2>1, <2>4, <3>4 DEF Float
  <2>5. CASE Float(subscribed) = Float(sampled) /\ StampWithin(p, SinceBeat(p))
    <3>1. StampWithin(p, SinceBeat(p))'
      BY <1>b, <1>c, <2>1, <2>3, <2>5 DEF StampWithin
    <3> QED
      BY <2>1, <2>5, <3>1 DEF Float
  <2>6. ASSUME Float(subscribed) = Float(sampled), NEW d \in From(p), StampWithin(p, BEAT_WAIT + d.age)
        PROVE  Renewed(p)'
    <3>1. PICK e \in From(p)' : e.age = d.age + 1
      BY <1>7, FromOlder
    <3>2. d.age \in Nat
      BY FromType, NetFacts
    <3>3. SUBSCRIBER_DICT'[p] <= BEAT_WAIT + e.age \/ since'[p] <= TAKEN_BY + (BEAT_WAIT + e.age)
      BY <1>b, <2>3, <2>6, <3>1, <3>2
    <3> QED
      BY <2>1, <2>6, <3>3 DEF Renewed, StampWithin, Float
  <2> QED
    BY <1>a, <1>b, <2>1, <2>2, <2>4, <2>5, <2>6 DEF Renewed
<1> QED
  BY <1>1, <1>2, <1>3, <1>4, <1>5, <1>6, <1>7, AliveStep DEF Renewed

-----------------------------------------------------------------------------
(* The verdict. *)

\* Long after the disturbance, no check finds p down.
LEMMA NotFoundDown ==
  ASSUME TypeOK, NetTypeOK, RoundIsDue, TimeoutCoversBeat, NEW p \in Peer, p \in alive,
         since[p] > STAMPED_BY, ~ ENABLE_HEART_BEAT, WalkIsEarly, Renewed(p),
         Judged, coupler_id = p
  PROVE  ~ is_down
<1>0. /\ SinceBeat(p) \in 0 .. BEAT_WAIT /\ SampleAge \in 0 .. BEAT_WAIT
      /\ BEAT_WAIT \in Nat /\ DELAY \in Nat /\ LATENESS \in Nat
      /\ since[p] \in Nat /\ SUBSCRIBER_DICT[p] \in Int
      /\ TAKEN_BY \in Nat /\ HEART_BEAT_TIMEOUT_INTERVAL \in Nat
  BY Measures, SoleFacts, NetFacts, TimeAssumption
<1>1. i # 0 /\ untilCheck \in Int /\ untilCheck >= HEART_BEAT_INTERVAL - LATENESS
  BY ListFacts, NetFacts DEF Judged, AtEntry, WalkIsEarly, TypeOK
<1>2. SampleAge <= LATENESS
  BY <1>1, NetFacts DEF SampleAge
<1>3. since[p] > TAKEN_BY /\ since[p] > TAKEN_BY + (BEAT_WAIT + DELAY + SampleAge)
  BY <1>0, <1>2 DEF STAMPED_BY
<1>4. StampWithin(p, BEAT_WAIT + DELAY + SampleAge)
  BY <1>3, BeforeArrival
<1>5. SUBSCRIBER_DICT[p] <= BEAT_WAIT + DELAY + SampleAge
  BY <1>0, <1>3, <1>4 DEF StampWithin
<1>6. SUBSCRIBER_DICT[p] <= HEART_BEAT_TIMEOUT_INTERVAL
  BY <1>0, <1>2, <1>5, NetFacts DEF TimeoutCoversBeat, BEAT_WAIT
<1> QED
  BY <1>6, LateIsDown

\* A walk that has reached the entry of p revises the verdict; one that has not will.
LEMMA WalkRevises ==
  ASSUME TypeOK, NetTypeOK, RoundIsDue, TimeoutCoversBeat, NEW p \in Peer,
         OneWatched, p \in Watched, WalkIsEarly, Renewed(p), Revised(p),
         CheckEntry, UNCHANGED netVars
  PROVE  Revised(p)'
<1> SUFFICES ASSUME p \in alive, since[p] > STAMPED_BY, ~ ENABLE_HEART_BEAT,
                    CURRENT_STATE' = STATE_DOWN, Decided'
             PROVE  i' # 0 /\ \E e \in Entry : e >= i' /\ HEART_BEAT_ID_LIST[e] # 0
  BY DEF Revised, netVars
<1>0. /\ Serving /\ i \in Entry /\ i # 0
      /\ i' = IF i = Len(HEART_BEAT_ID_LIST) THEN 0 ELSE i + 1
      /\ Entry = 1 .. Len(HEART_BEAT_ID_LIST)
      /\ Len(HEART_BEAT_ID_LIST) \in Nat
  BY WalkStep, ListFacts
<1>1. CASE CheckUnused
  <2>1. CURRENT_STATE = STATE_DOWN /\ HEART_BEAT_ID_LIST[i] = 0
    BY <1>1 DEF CheckUnused, coupler_id
  <2>2. Decided
    BY <1>1, UnusedDecides
  <2>3. PICK e \in Entry : e >= i /\ HEART_BEAT_ID_LIST[e] # 0
    BY <1>0, <2>1, <2>2 DEF Revised
  <2>4. e # i
    BY <2>1, <2>3
  <2> QED
    BY <1>0, <2>3, <2>4
<1>2. CASE CheckDown
  <2>1. Judged /\ is_down
    BY <1>2 DEF CheckDown, is_down, Recorded
  <2>2. coupler_id = p
    BY <2>1 DEF Judged, AtEntry, OneWatched, Watched, coupler_id
  <2> QED
    BY <2>1, <2>2, NotFoundDown
<1>3. CASE CheckAlive \/ CheckNotHeard
  BY <1>3 DEF CheckAlive, CheckNotHeard, STATE_DOWN, STATE_UP, STATE_NO_INITIAL_HEART_BEAT
<1> QED
  BY <1>1, <1>2, <1>3 DEF CheckEntry

\* Every step keeps the verdict revised.
LEMMA RevisedStep ==
  ASSUME TypeOK, NetTypeOK, RoundIsDue, TimeoutCoversBeat, NEW p \in Peer, Peer = {p},
         OneWatched, p \in Watched, WalkIsEarly, Renewed(p), Revised(p),
         [NetNext]_allVars
  PROVE  Revised(p)'
<1> USE DEF Revised
<1>0. untilCheck \in -LATENESS .. HEART_BEAT_INTERVAL /\ since[p] \in Nat
  BY Measures
<1>1. CASE NetStart
  BY <1>1, ListFacts DEF NetStart, Start, Decided
<1>2. CASE OwnBeat \/ UNCHANGED allVars
  BY <1>2 DEF OwnBeat, allVars, vars, Decided, Serving
<1>3. CASE Sample
  BY <1>3 DEF Sample, vars, dataChangeNotificationCallback, relayVars, Decided, Serving
<1>4. CASE Check
  <2>1. i' = 1
    BY <1>4 DEF Check, CheckBegins
  <2>2. \E e \in Entry : e >= 1 /\ HEART_BEAT_ID_LIST[e] # 0
    BY ListFacts DEF Watched
  <2> QED
    BY <2>1, <2>2
<1>5. CASE NetElse
  <2>1. CASE Signal \/ Exit \/ Client
    BY <1>5, <2>1, QuietStep DEF NetElse, netVars, watchVars, Decided
  <2>2. CASE CheckEntry
    BY <1>5, <2>2, WalkRevises DEF NetElse
  <2> QED
    BY <1>5, <2>1, <2>2 DEF NetElse
<1>6. ASSUME ~ NetStart, ~ OwnBeat, ~ Sample, ~ Check, ~ NetElse, ~ NetTick,
             ~ UNCHANGED allVars
      PROVE  Revised(p)'
  <2>1. UNCHANGED <<vars, ENABLE_HEART_BEAT>>
    BY <1>6 DEF NetNext, PeerBeat, PeerStart, PeerStop, Deliver, Duplicate, Lose, Arrives,
       ownVars
  <2>2. p \in alive' /\ since'[p] # 0 => p \in alive /\ since'[p] = since[p]
    BY <1>6, <2>1, AliveStep DEF Leaves
  <2>3. since'[p] > STAMPED_BY => since'[p] # 0
    BY SoleFacts
  <2> QED
    BY <2>1, <2>2, <2>3 DEF vars, Decided, Serving
<1>7. CASE NetTick
  <2>1. /\ i = 0 /\ i' = 0 /\ Serving
        /\ UNCHANGED <<CURRENT_STATE, checked, alive, ENABLE_HEART_BEAT>>
        /\ untilCheck' = untilCheck - 1
    BY <1>7 DEF NetTick, Tick, Idle, ownVars
  <2>2. p \in alive => since'[p] <= since[p] + 1 /\ since'[p] \in Nat
    BY <1>7, TickAges
  <2>3. Decided' = Decided
    BY <2>1 DEF Decided
  <2> SUFFICES ASSUME p \in alive, since'[p] > STAMPED_BY, ~ ENABLE_HEART_BEAT,
                      CURRENT_STATE = STATE_DOWN, Decided
               PROVE  since'[p] <= STAMPED_BY + HEART_BEAT_INTERVAL - untilCheck'
    BY <2>1, <2>3
  <2>4. since[p] <= STAMPED_BY + HEART_BEAT_INTERVAL - untilCheck
    BY <1>0, <2>1, <2>2, SoleFacts, NetFacts
  <2> QED
    BY <1>0, <2>1, <2>2, <2>4, SoleFacts, NetFacts
<1> QED
  BY <1>1, <1>2, <1>3, <1>4, <1>5, <1>6, <1>7 DEF NetNext

-----------------------------------------------------------------------------
(* The theorem. *)

\* The beats of a sole living coupler are followed to the verdict.
THEOREM SoleInvCorrect == NetSpec => []SoleInv
<1>1. NetInit => SoleInv
  <2> SUFFICES ASSUME NetInit
               PROVE  SoleInv
    OBVIOUS
  <2>1. WalkIsEarly /\ OwnIsOld /\ OwnIsFirst
    BY DEF NetInit, Init, WalkIsEarly, OwnIsOld, OwnIsFirst
  <2>2. \A p \in Peer : Heard(p) /\ Revised(p)
    BY DEF NetInit, Heard, Paced, Distinct, Read, Taken, Renewed, Revised
  <2> QED
    BY <2>1, <2>2 DEF SoleInv
<1>2. TypeOK /\ TypeOK' /\ NetTypeOK /\ NetTypeOK' /\ TraceInv /\ TraceInv' /\ SoleInv
        /\ [NetNext]_allVars => SoleInv'
  <2> SUFFICES ASSUME TypeOK, TypeOK', NetTypeOK, NetTypeOK', RoundIsDue, RoundIsDue',
                      SoleInv, TimeoutCoversBeat, [NetNext]_allVars
               PROVE  SoleInv'
    BY DEF TraceInv, SoleInv, TimeoutCoversBeat
  <2>1. WalkIsEarly /\ OwnIsOld /\ OwnIsFirst
    BY DEF SoleInv
  <2>2. WalkIsEarly' /\ OwnIsOld' /\ OwnIsFirst'
    BY <2>1, WalkIsEarlyStep, OwnIsOldStep, OwnIsFirstStep
  <2>3. ASSUME NEW p \in Peer, Peer = {p}, BeatsFit(p, LAST)
        PROVE  Heard(p)' /\ (OneWatched /\ p \in Watched => Revised(p)')
    <3>1. Heard(p) /\ (OneWatched /\ p \in Watched => Revised(p))
      BY <2>3 DEF SoleInv
    <3>2. Paced(p) /\ Distinct(p) /\ Read(p) /\ Taken(p) /\ Renewed(p)
      BY <3>1 DEF Heard
    <3>3. Paced(p)' /\ Distinct(p)' /\ Read(p)'
      BY <2>3, <3>2, PacedStep, DistinctStep, ReadStep
    <3>4. Taken(p)' /\ Renewed(p)'
      BY <2>1, <2>3, <3>2, TakenStep, RenewedStep
    <3>5. OneWatched /\ p \in Watched => Revised(p)'
      BY <2>1, <2>3, <3>1, <3>2, RevisedStep
    <3> QED
      BY <3>3, <3>4, <3>5 DEF Heard
  <2> QED
    BY <2>2, <2>3 DEF SoleInv, OneWatched, Watched, Entry, Peer
<1> QED
  BY <1>1, <1>2, CouplerFacts, NetTypeCorrect, TraceCorrect, PTL DEF NetSpec

\* The clock is never set in the network.
LEMMA ClockIsSteady == NetSpec => []~ steppedEarly
<1>1. NetInit => ~ steppedEarly
  BY Zenon DEF NetInit, Init
<1>2. ~ steppedEarly /\ [NetNext]_allVars => ~ steppedEarly'
  <2> SUFFICES ASSUME ~ steppedEarly, [NetNext]_allVars
               PROVE  ~ steppedEarly'
    OBVIOUS
  <2>1. CASE NetStart \/ OwnBeat \/ Sample \/ Check
    BY <2>1 DEF NetStart, Start, OwnBeat, Sample, Check, CheckBegins, vars,
       dataChangeNotificationCallback
  <2>2. CASE NetElse
    BY <2>2, QuietStep DEF NetElse, watchVars, CheckEntry, CheckUnused, CheckDown, CheckAlive,
       CheckNotHeard, Advance
  <2>3. CASE \/ \E p \in Peer : PeerBeat(p) \/ PeerStart(p) \/ PeerStop(p)
             \/ \E d \in net : Deliver(d) \/ Duplicate(d) \/ Lose(d)
             \/ UNCHANGED allVars
    BY <2>3 DEF PeerBeat, PeerStart, PeerStop, Deliver, Duplicate, Lose, Arrives, allVars, vars
  <2>4. CASE NetTick
    BY <2>4 DEF NetTick, Tick
  <2> QED
    BY <2>1, <2>2, <2>3, <2>4 DEF NetNext
<1> QED
  BY <1>1, <1>2, PTL DEF NetSpec

\* A watched coupler that is the only one to beat, whose beats have all come for a
\* while and whose numbers of beats fit into the float beside its ID does not look
\* down, whatever the periods, the latenesses and the delays that TimeoutCoversBeat
\* allows.
THEOREM SoleCorrect == NetSpec => []SoleBeatIsHeard
<1>1. TypeOK /\ NetTypeOK /\ OneInv /\ SoleInv /\ ~ steppedEarly => SoleBeatIsHeard
  <2> SUFFICES ASSUME TypeOK, NetTypeOK, OneInv, SoleInv, ~ steppedEarly,
                      TimeoutCoversBeat, OneWatched,
                      NEW p \in Watched \cap Peer, Undisturbed(p), BeatsFit(p, LAST), Peer = {p},
                      ~ ENABLE_HEART_BEAT, Idle, OPERATIONAL_MODE = 0
               PROVE  I2C_VIRTUAL_MODE = 0
    BY DEF SoleBeatIsHeard
  <2>1. OneCoupler /\ TrustedStart
    BY NetFacts, TimeAssumption DEF OneInv, TrustedStart, TimeoutCoversCheck, TimeoutCoversBeat
  <2>2. /\ since[p] \in Nat /\ untilCheck \in -LATENESS .. HEART_BEAT_INTERVAL
        /\ I2C_VIRTUAL_MODE \in {0, 1}
    BY NetFacts DEF NetTypeOK, TypeOK, RelayTypeOK
  <2>3. p \in alive /\ since[p] > JUDGED_BY
    BY <2>2, SoleFacts DEF Undisturbed
  <2>4. since[p] > STAMPED_BY /\ ~ since[p] <= STAMPED_BY + HEART_BEAT_INTERVAL - untilCheck
    BY <2>2, <2>3, SoleFacts, NetFacts DEF JUDGED_BY, BEAT_WAIT
  <2>5. CURRENT_STATE # STATE_DOWN \/ ~ Decided
    BY <2>3, <2>4 DEF SoleInv, Revised, Idle
  <2> QED
    BY <2>1, <2>2, <2>5 DEF OneCoupler, Idle
<1> QED
  BY <1>1, CouplerFacts, NetTypeCorrect, OneCorrect, NetRefinement, SoleInvCorrect,
     ClockIsSteady, PTL DEF ImplementsCoupler
=============================================================================
