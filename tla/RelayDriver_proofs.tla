------------------------ MODULE RelayDriver_proofs ------------------------
(* Proofs about RelayDriver, for any boards, relays, values and faults. *)
EXTENDS RelayDriver, FiniteSetTheorems, TLAPS

-----------------------------------------------------------------------------
(* What the three accesses to the bus do to the process and the relays. *)

\* Every outcome of setRelayState keeps the relays, or sets one board to the
\* command while the bus is not muted; it may end the process.  A board that is
\* not lost afterwards has got the command.
LEMMA SetRelayState ==
  ASSUME NEW command \in SUBSET Relay, NEW addr \in Addr,
         energized \in [Addr -> SUBSET Relay], lost \subseteq Addr,
         I2C_VIRTUAL_MODE \in {0, 1},
         setRelayState(command, addr)
  PROVE  /\ proc' \in {proc, "aborted"}
         /\ energized' \in [Addr -> SUBSET Relay] /\ lost' \subseteq Addr
         /\ \A a \in Addr \ {addr} : /\ energized'[a] = energized[a]
                                     /\ a \in lost' <=> a \in lost
         /\ I2C_VIRTUAL_MODE = 1 => energized' = energized /\ lost' = lost
         /\ energized'[addr] \in {command, energized[addr]}
         /\ I2C_VIRTUAL_MODE = 0 /\ proc' # "aborted" /\ addr \notin lost'
              => energized'[addr] = command
BY DEF setRelayState

\* A shutdown only switches off.  When it completes and was not muted, every
\* board that is not lost is off.
LEMMA Shutdown ==
  ASSUME NEW virtual \in {0, 1}, NEW done,
         energized \in [Addr -> SUBSET Relay], lost \subseteq Addr,
         safeShutdownI2CSlaveList(virtual, done)
  PROVE  /\ proc' \in {done, "aborted"}
         /\ energized' \in [Addr -> SUBSET Relay] /\ lost' \subseteq Addr
         /\ \A a \in Addr : energized'[a] \in {{}, energized[a]}
         /\ virtual = 1 => proc' = done /\ energized' = energized /\ lost' = lost
         /\ virtual = 0 /\ proc' # "aborted" => DeliveredOff'
<1>1. CASE virtual = 1
  BY <1>1 DEF safeShutdownI2CSlaveList
<1>2. CASE virtual = 0
  <2>1. ASSUME NEW missed, SwitchOff(Addr, missed)
        PROVE  DeliveredOff'
    BY <2>1 DEF SwitchOff, DeliveredOff
  <2>2. ASSUME NEW reached \in SUBSET Addr, NEW missed, SwitchOff(reached, missed)
        PROVE  /\ energized' \in [Addr -> SUBSET Relay] /\ lost' \subseteq Addr
               /\ \A a \in Addr : energized'[a] \in {{}, energized[a]}
    BY <2>2 DEF SwitchOff
  <2>3. ASSUME NEW k \in Registered
        PROVE  {I2C_SLAVE_ADDR_LIST[s] : s \in {t \in Registered : t < k}} \in SUBSET Addr
    BY DEF Addr
  <2>4. CASE proc' = done /\ \E missed \in Missable : SwitchOff(Addr, missed)
    BY <1>2, <2>1, <2>2, <2>4
  <2>5. CASE /\ proc' = "aborted"
             /\ \E k \in Registered, missed \in Missable :
                  SwitchOff({I2C_SLAVE_ADDR_LIST[s] : s \in {t \in Registered : t < k}}, missed)
    BY <1>2, <2>2, <2>3, <2>5
  <2> QED
    BY <1>2, <2>4, <2>5 DEF safeShutdownI2CSlaveList
<1> QED
  BY <1>1, <1>2

\* A slot with nodes is a registered one: the addresses are at the front of the
\* list, so a slot without address has at least all of them before it.
LEMMA NodesAreRegistered ==
  ASSUME NEW s \in Slot, HasNodes(s)
  PROVE  s \in Registered /\ I2C_SLAVE_ADDR_LIST[s] \in Addr
<1>1. SUFFICES ASSUME s \notin Registered
               PROVE  FALSE
  BY DEF Addr
<1>2. s \in Nat /\ N_SLOTS \in Nat
  BY AddressAssumption DEF Slot
<1>3. Registered \subseteq 0 .. (s - 1)
  <2>1. SUFFICES ASSUME NEW t \in Registered
                 PROVE  t \in 0 .. (s - 1)
    OBVIOUS
  <2>2. t \in Slot /\ t # s /\ I2C_SLAVE_ADDR_LIST[t] # 0 /\ I2C_SLAVE_ADDR_LIST[s] = 0
    BY <1>1 DEF Registered
  <2>3. ~ (s < t)
    BY <2>2, AddressAssumption
  <2> QED
    BY <1>2, <2>2, <2>3 DEF Slot
<1>4. IsFiniteSet(0 .. (s - 1)) /\ Cardinality(0 .. (s - 1)) = s
  BY <1>2, FS_Interval, SMTT(20)
<1>5. Cardinality(Registered) \in Nat /\ Cardinality(Registered) <= s
  BY <1>3, <1>4, FS_Subset, FS_CardinalityType
<1> QED
  BY <1>2, <1>5 DEF HasNodes, getI2CSlaveListLength

-----------------------------------------------------------------------------
(* Type correctness. *)

\* Every variable keeps its type, whatever fails.
THEOREM RelayTypeCorrect == RelaySpec => []RelayTypeOK
<1>1. RelayInit => RelayTypeOK
  BY DEF RelayInit, RelayTypeOK
<1>2. RelayTypeOK /\ [RelayNext]_relayVars => RelayTypeOK'
  <2> SUFFICES ASSUME RelayTypeOK, [RelayNext]_relayVars
               PROVE  RelayTypeOK'
    OBVIOUS
  <2> USE DEF RelayTypeOK
  <2>1. CASE RelayStart
    <3>1. OPERATIONAL_MODE' \in {0, 1} /\ I2C_VIRTUAL_MODE' \in {0, 1}
      BY <2>1, ModeAssumption DEF RelayStart
    <3> QED
      BY <2>1, <3>1, Shutdown DEF RelayStart
  <2>2. CASE stopHandler
    BY <2>2 DEF stopHandler
  <2>3. CASE RelayExit
    BY <2>3, Shutdown DEF RelayExit
  <2>4. CASE Access
    <3>1. ASSUME NEW s \in Slot, NEW r \in Relay, NEW v \in Value,
                 afterWriteTime(s, r, v)
          PROVE  RelayTypeOK'
      <4>1. /\ node' \in [Slot -> [Relay -> Value \cup {0}]]
            /\ RELAYS_STATE' \in [Slot -> SUBSET Relay]
            /\ UNCHANGED <<OPERATIONAL_MODE, I2C_VIRTUAL_MODE>>
        BY <3>1 DEF afterWriteTime
      <4>2. I2C_SLAVE_ADDR_LIST[s] \in Addr /\ RELAYS_STATE'[s] \in SUBSET Relay
        BY <3>1, <4>1, NodesAreRegistered DEF afterWriteTime
      <4>3. setRelayState(RELAYS_STATE'[s], I2C_SLAVE_ADDR_LIST[s])
        BY <3>1 DEF afterWriteTime
      <4>4. /\ proc' \in {proc, "aborted"}
            /\ energized' \in [Addr -> SUBSET Relay] /\ lost' \subseteq Addr
        BY <4>2, <4>3, SetRelayState
      <4> QED
        BY <4>1, <4>4
    <3>2. ASSUME NEW s \in Slot, beforeReadTimeFails(s)
          PROVE  RelayTypeOK'
      BY <3>2 DEF beforeReadTimeFails, getInputStateFails
    <3> QED
      BY <2>4, <3>1, <3>2 DEF Access
  <2>5. CASE gotoSafeMode
    <3>1. CASE I2C_VIRTUAL_MODE = 0 /\ OPERATIONAL_MODE = 0
      BY <2>5, <3>1, Shutdown DEF gotoSafeMode
    <3> QED
      BY <2>5, <3>1 DEF gotoSafeMode
  <2>6. CASE gotoNormalMode
    BY <2>6 DEF gotoNormalMode
  <2>7. CASE UNCHANGED relayVars
    BY <2>7 DEF relayVars
  <2> QED
    BY <2>1, <2>2, <2>3, <2>4, <2>5, <2>6, <2>7 DEF RelayNext
<1> QED
  BY <1>1, <1>2, PTL DEF RelaySpec

-----------------------------------------------------------------------------
(* What the relays do. *)

\* The inductive invariant: the three properties of the relays need each other
\* (a clean exit out of safe mode is off because safe mode is), and a board as
\* commanded needs the cache to follow the nodes.
RelayInv ==
  /\ RelayTypeOK
  /\ CacheFollowsNodes
  /\ SafeModeMeansOff
  /\ BoardOffOrAsCommanded
  /\ CleanExitMeansOff

\* A write updates the cache with the node.
LEMMA WriteCache ==
  ASSUME RelayTypeOK, CacheFollowsNodes,
         NEW s \in Slot, NEW r \in Relay, NEW v \in Value, afterWriteTime(s, r, v)
  PROVE  /\ RELAYS_STATE'[s] = Commanded(s)'
         /\ \A t \in Slot \ {s} : /\ Commanded(t)' = Commanded(t)
                                  /\ RELAYS_STATE'[t] = RELAYS_STATE[t]
         /\ CacheFollowsNodes'
<1> USE DEF RelayTypeOK, afterWriteTime, Commanded
<1>1. RELAYS_STATE[s] = Commanded(s)
  BY DEF CacheFollowsNodes
<1>2. v \in Int
  BY ValueAssumption
<1>3. \A q \in Relay : node'[s][q] = IF q = r THEN v ELSE node[s][q]
  OBVIOUS
<1>4. RELAYS_STATE'[s] = IF v > 0 THEN RELAYS_STATE[s] \cup {r} ELSE RELAYS_STATE[s] \ {r}
  OBVIOUS
<1>5. RELAYS_STATE'[s] = {q \in Relay : node'[s][q] > 0}
  BY <1>1, <1>2, <1>3, <1>4
<1>6. \A t \in Slot \ {s} : node'[t] = node[t] /\ RELAYS_STATE'[t] = RELAYS_STATE[t]
  OBVIOUS
<1> QED
  BY <1>5, <1>6 DEF CacheFollowsNodes

\* A write keeps the invariant: the board it addresses becomes as commanded, or
\* keeps its relays because the bus is muted, and then they are off.
LEMMA WriteInv ==
  ASSUME RelayInv, RelayTypeOK',
         NEW s \in Slot, NEW r \in Relay, NEW v \in Value, afterWriteTime(s, r, v)
  PROVE  RelayInv'
<1> DEFINE addr == I2C_SLAVE_ADDR_LIST[s]
<1> USE DEF RelayInv
<1>1. CASE proc' = "aborted"
  <2>1. (CacheFollowsNodes /\ SafeModeMeansOff /\ BoardOffOrAsCommanded /\ CleanExitMeansOff)'
    BY <1>1 DEF Serving, CacheFollowsNodes, SafeModeMeansOff,
       BoardOffOrAsCommanded, CleanExitMeansOff
  <2> QED
    BY <2>1
<1>2. CASE proc' # "aborted"
  <2>1. s \in Registered /\ addr \in Addr
    BY NodesAreRegistered DEF afterWriteTime
  <2>2. /\ Serving
        /\ I2C_VIRTUAL_MODE' = I2C_VIRTUAL_MODE /\ OPERATIONAL_MODE' = OPERATIONAL_MODE
    BY DEF afterWriteTime
  <2>3. /\ proc' = proc
        /\ \A a \in Addr \ {addr} : energized'[a] = energized[a] /\ (a \in lost' <=> a \in lost)
        /\ I2C_VIRTUAL_MODE = 1 => energized' = energized /\ lost' = lost
        /\ I2C_VIRTUAL_MODE = 0 /\ addr \notin lost' => energized'[addr] = RELAYS_STATE'[s]
    <3>1. RELAYS_STATE'[s] \in SUBSET Relay /\ setRelayState(RELAYS_STATE'[s], addr)
      BY DEF afterWriteTime, RelayTypeOK
    <3> QED
      BY <1>2, <2>1, <3>1, SetRelayState DEF RelayTypeOK
  <2>4. CacheFollowsNodes' /\ RELAYS_STATE'[s] = Commanded(s)'
    BY WriteCache
  <2>5. SafeModeMeansOff'
    BY <2>2, <2>3 DEF SafeModeMeansOff, DeliveredOff, Serving
  <2>6. BoardOffOrAsCommanded'
    <3> SUFFICES ASSUME OPERATIONAL_MODE = 0, NEW a \in Addr \ lost'
                 PROVE  \/ energized'[a] = {}
                        \/ \E t \in Registered : /\ I2C_SLAVE_ADDR_LIST[t] = a
                                                 /\ energized'[a] = Commanded(t)'
      BY <2>2 DEF BoardOffOrAsCommanded
    <3>1. CASE I2C_VIRTUAL_MODE = 1
      BY <2>2, <2>3, <3>1 DEF SafeModeMeansOff, DeliveredOff
    <3>2. CASE I2C_VIRTUAL_MODE = 0 /\ a = addr
      BY <2>1, <2>3, <2>4, <3>2
    <3>3. CASE I2C_VIRTUAL_MODE = 0 /\ a # addr
      <4>1. energized'[a] = energized[a] /\ a \notin lost
        BY <2>3, <3>3
      <4>2. ASSUME NEW t \in Registered, I2C_SLAVE_ADDR_LIST[t] = a
            PROVE  Commanded(t)' = Commanded(t)
        <5>1. t \in Slot \ {s}
          BY <3>3, <4>2 DEF Registered
        <5> QED
          BY <5>1, WriteCache
      <4>3. \/ energized[a] = {}
            \/ \E t \in Registered : /\ I2C_SLAVE_ADDR_LIST[t] = a
                                     /\ energized[a] = Commanded(t)
        BY <2>2, <4>1 DEF BoardOffOrAsCommanded
      <4> QED
        BY <4>1, <4>2, <4>3
    <3> QED
      BY <3>1, <3>2, <3>3 DEF RelayTypeOK
  <2>7. CleanExitMeansOff'
    BY <2>2, <2>3 DEF CleanExitMeansOff, Serving
  <2> QED
    BY <2>4, <2>5, <2>6, <2>7
<1> QED
  BY <1>1, <1>2

\* The invariant holds initially and through every step.
THEOREM RelayInvCorrect == RelaySpec => []RelayInv
<1>1. RelayInit => RelayInv
  BY DEF RelayInit, RelayInv, RelayTypeOK, CacheFollowsNodes, SafeModeMeansOff,
     BoardOffOrAsCommanded, CleanExitMeansOff, Serving
<1>2. RelayInv /\ RelayTypeOK' /\ [RelayNext]_relayVars => RelayInv'
  <2> SUFFICES ASSUME RelayInv, RelayTypeOK', [RelayNext]_relayVars
               PROVE  RelayInv'
    OBVIOUS
  <2> USE DEF RelayInv
  <2>1. CASE RelayStart
    <3>1. CacheFollowsNodes'
      BY <2>1 DEF RelayStart, CacheFollowsNodes, Commanded
    <3>2. CASE proc' = "aborted" \/ OPERATIONAL_MODE' # 0
      BY <3>1, <3>2 DEF Serving, SafeModeMeansOff, BoardOffOrAsCommanded, CleanExitMeansOff
    <3>3. CASE proc' # "aborted" /\ OPERATIONAL_MODE' = 0
      <4>1. DeliveredOff'
        BY <2>1, <3>3, Shutdown DEF RelayStart, RelayTypeOK
      <4> QED
        BY <3>1, <4>1 DEF DeliveredOff, SafeModeMeansOff, BoardOffOrAsCommanded,
           CleanExitMeansOff
    <3> QED
      BY <3>2, <3>3
  <2>2. CASE stopHandler
    BY <2>2 DEF stopHandler, Serving, CacheFollowsNodes, SafeModeMeansOff,
       BoardOffOrAsCommanded, CleanExitMeansOff, Commanded, DeliveredOff
  <2>3. CASE RelayExit
    <3>1. proc' \in {"exited", "aborted"} /\ proc = "stopping"
      BY <2>3, Shutdown DEF RelayExit, RelayTypeOK
    <3>2. CacheFollowsNodes' /\ SafeModeMeansOff' /\ BoardOffOrAsCommanded'
      BY <3>1 DEF Serving, CacheFollowsNodes, SafeModeMeansOff, BoardOffOrAsCommanded
    <3>3. CleanExitMeansOff'
      <4>1. CASE I2C_VIRTUAL_MODE = 0
        <5>1. proc' # "aborted" => DeliveredOff'
          BY <2>3, <4>1, Shutdown DEF RelayExit, RelayTypeOK
        <5> QED
          BY <3>1, <5>1 DEF CleanExitMeansOff
      <4>2. CASE I2C_VIRTUAL_MODE = 1
        <5>1. energized' = energized /\ lost' = lost /\ OPERATIONAL_MODE' = OPERATIONAL_MODE
          BY <2>3, <4>2, Shutdown DEF RelayExit, RelayTypeOK
        <5> QED
          BY <3>1, <4>2, <5>1 DEF CleanExitMeansOff, SafeModeMeansOff, Serving, DeliveredOff
      <4> QED
        BY <4>1, <4>2 DEF RelayTypeOK
    <3> QED
      BY <3>2, <3>3
  <2>4. CASE Access
    <3>1. ASSUME NEW s \in Slot, NEW r \in Relay, NEW v \in Value, afterWriteTime(s, r, v)
          PROVE  RelayInv'
      BY <3>1, WriteInv
    <3>2. ASSUME NEW s \in Slot, beforeReadTimeFails(s)
          PROVE  RelayInv'
      BY <3>2 DEF beforeReadTimeFails, getInputStateFails, Serving, CacheFollowsNodes,
         SafeModeMeansOff, BoardOffOrAsCommanded, CleanExitMeansOff
    <3> QED
      BY <2>4, <3>1, <3>2 DEF Access
  <2>5. CASE gotoSafeMode
    <3>1. CacheFollowsNodes'
      BY <2>5 DEF gotoSafeMode, CacheFollowsNodes, Commanded, Serving
    <3>2. CASE I2C_VIRTUAL_MODE = 0 /\ OPERATIONAL_MODE = 0
      <4>1. /\ proc' \in {proc, "aborted"}
            /\ proc' # "aborted" => DeliveredOff'
        BY <2>5, <3>2, Shutdown DEF gotoSafeMode, RelayTypeOK
      <4>2. CASE proc' = "aborted"
        BY <3>1, <4>2 DEF Serving, SafeModeMeansOff, BoardOffOrAsCommanded, CleanExitMeansOff
      <4>3. CASE proc' # "aborted"
        BY <3>1, <4>1, <4>3 DEF DeliveredOff, SafeModeMeansOff, BoardOffOrAsCommanded,
           CleanExitMeansOff
      <4> QED
        BY <4>2, <4>3
    <3>3. CASE I2C_VIRTUAL_MODE = 1
      BY <2>5, <3>1, <3>3 DEF gotoSafeMode, Serving, Commanded, DeliveredOff, SafeModeMeansOff,
         BoardOffOrAsCommanded, CleanExitMeansOff
    <3>4. CASE OPERATIONAL_MODE = 1
      BY <2>5, <3>1, <3>4 DEF gotoSafeMode, SafeModeMeansOff, BoardOffOrAsCommanded,
         CleanExitMeansOff
    <3> QED
      BY <3>2, <3>3, <3>4 DEF RelayTypeOK
  <2>6. CASE gotoNormalMode
    BY <2>6 DEF gotoNormalMode, Serving, CacheFollowsNodes, SafeModeMeansOff,
       BoardOffOrAsCommanded, CleanExitMeansOff, Commanded, DeliveredOff
  <2>7. CASE UNCHANGED relayVars
    BY <2>7 DEF relayVars, Serving, CacheFollowsNodes, SafeModeMeansOff,
       BoardOffOrAsCommanded, CleanExitMeansOff, Commanded, DeliveredOff
  <2> QED
    BY <2>1, <2>2, <2>3, <2>4, <2>5, <2>6, <2>7 DEF RelayNext
<1> QED
  BY <1>1, <1>2, RelayTypeCorrect, PTL DEF RelaySpec

\* The cache of every board is what the nodes of its slot ask for.
THEOREM CacheCorrect == RelaySpec => []CacheFollowsNodes
<1>1. RelayInv => CacheFollowsNodes
  BY DEF RelayInv
<1> QED
  BY <1>1, RelayInvCorrect, PTL

\* In safe mode every relay is off.
THEOREM SafeModeCorrect == RelaySpec => []SafeModeMeansOff
<1>1. RelayInv => SafeModeMeansOff
  BY DEF RelayInv
<1> QED
  BY <1>1, RelayInvCorrect, PTL

\* A board is off or as commanded, never a mixture.
THEOREM BoardCorrect == RelaySpec => []BoardOffOrAsCommanded
<1>1. RelayInv => BoardOffOrAsCommanded
  BY DEF RelayInv
<1> QED
  BY <1>1, RelayInvCorrect, PTL

\* main() returns with every relay off.
THEOREM ExitCorrect == RelaySpec => []CleanExitMeansOff
<1>1. RelayInv => CleanExitMeansOff
  BY DEF RelayInv
<1> QED
  BY <1>1, RelayInvCorrect, PTL

\* A relay comes on in a client's write only, as part of what the nodes ask for.
THEOREM EnergizeCorrect == RelaySpec => OnlyWritesEnergize
<1> DEFINE Asked(a) == /\ Serving /\ I2C_VIRTUAL_MODE = 0
                       /\ \E s \in Registered : /\ I2C_SLAVE_ADDR_LIST[s] = a
                                                /\ energized'[a] = Commanded(s)'
<1>1. ASSUME RelayInv, RelayTypeOK', [RelayNext]_relayVars, NEW a \in Addr,
             ~ (energized'[a] \subseteq energized[a])
      PROVE  Asked(a)
  <2> USE <1>1 DEF RelayInv
  <2>1. CASE RelayStart
    <3>1. I2C_VIRTUAL_MODE' \in {0, 1}
      BY DEF RelayTypeOK
    <3> QED
      BY <2>1, <3>1, Shutdown DEF RelayStart, RelayTypeOK
  <2>2. CASE RelayExit
    BY <2>2, Shutdown DEF RelayExit, RelayTypeOK
  <2>3. CASE gotoSafeMode
    <3>1. CASE I2C_VIRTUAL_MODE = 0 /\ OPERATIONAL_MODE = 0
      BY <2>3, <3>1, Shutdown DEF gotoSafeMode, RelayTypeOK
    <3> QED
      BY <2>3, <3>1 DEF gotoSafeMode, RelayTypeOK
  <2>4. CASE Access
    <3>1. ASSUME NEW s \in Slot, NEW r \in Relay, NEW v \in Value, afterWriteTime(s, r, v)
          PROVE  Asked(a)
      <4>1. s \in Registered /\ I2C_SLAVE_ADDR_LIST[s] \in Addr
        BY <3>1, NodesAreRegistered DEF afterWriteTime
      <4>2. RELAYS_STATE'[s] \in SUBSET Relay /\ RELAYS_STATE'[s] = Commanded(s)'
        BY <3>1, WriteCache DEF RelayTypeOK
      <4>3. setRelayState(RELAYS_STATE'[s], I2C_SLAVE_ADDR_LIST[s]) /\ Serving
        BY <3>1 DEF afterWriteTime
      <4>4. /\ I2C_VIRTUAL_MODE = 0
            /\ I2C_SLAVE_ADDR_LIST[s] = a /\ energized'[a] = RELAYS_STATE'[s]
        <5> DEFINE addr == I2C_SLAVE_ADDR_LIST[s]
                   state == RELAYS_STATE'[s]
        <5>1. addr \in Addr /\ state \in SUBSET Relay /\ setRelayState(state, addr)
          BY <4>1, <4>2, <4>3
        <5>2. RelayTypeOK
          BY DEF RelayInv
        <5> HIDE DEF addr, state
        <5>3. I2C_VIRTUAL_MODE = 0 /\ addr = a /\ energized'[a] = state
          BY <5>1, <5>2, SetRelayState DEF RelayTypeOK
        <5> QED
          BY <5>3 DEF addr, state
      <4>5. energized'[a] = Commanded(s)'
        BY <4>2, <4>4, Zenon
      <4> QED
        BY <4>1, <4>3, <4>4, <4>5, Zenon
    <3>2. ASSUME NEW s \in Slot, beforeReadTimeFails(s)
          PROVE  Asked(a)
      BY <3>2 DEF beforeReadTimeFails
    <3> QED
      BY <2>4, <3>1, <3>2 DEF Access
  <2>5. CASE stopHandler \/ gotoNormalMode \/ UNCHANGED relayVars
    BY <2>5 DEF stopHandler, gotoNormalMode, relayVars
  <2> QED
    BY <2>1, <2>2, <2>3, <2>4, <2>5 DEF RelayNext
<1>2. RelayInv /\ RelayTypeOK' /\ [RelayNext]_relayVars
        => [\A a \in Addr : ~ (energized'[a] \subseteq energized[a]) => Asked(a)]_relayVars
  BY <1>1
<1> QED
  BY <1>2, RelayInvCorrect, RelayTypeCorrect, PTL DEF RelaySpec, OnlyWritesEnergize
=============================================================================
