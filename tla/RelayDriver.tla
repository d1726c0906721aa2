---------------------------- MODULE RelayDriver ----------------------------
(***************************************************************************)
(* The coupler as the driver of its MOD-IO relay boards: the OPC UA nodes  *)
(* of the relays, the cached bitmask per board, the relays themselves, the *)
(* virtual mode that mutes the I2C bus, the start-up and exit shutdowns,   *)
(* and the ways an I2C transaction fails.                                  *)
(*                                                                         *)
(* Sources: coupler/mod_io_i2c.h, coupler/mod_io_opc_ua.h,                 *)
(* gotoSafeMode / gotoNormalMode of coupler/keep_alive.h, and the process  *)
(* life cycle of coupler/server.c.                                         *)
(*                                                                         *)
(* open62541 runs every callback on the one thread of UA_Server_run, so a  *)
(* callback is one atomic step.  What is left out: the values of the input *)
(* nodes (an input read matters here only when its I2C transaction fails), *)
(* authentication, and logging.  A bitmask is the set of its relays.       *)
(***************************************************************************)
EXTENDS Integers, FiniteSets

CONSTANTS
  N_SLOTS,             \* length of I2C_SLAVE_ADDR_LIST (2 in the code)
  I2C_SLAVE_ADDR_LIST, \* the address in each slot, 0 = unused
  Relay,               \* the relays of a board (4 on a MOD-IO)
  Value,               \* Int32 values a client writes to a relay node
  Mode,                \* the "-m" it may be started with: 0 normal, 1 virtual
  Fault                \* what may fail on the bus

Slot == 0 .. N_SLOTS - 1

\* "device": open() or ioctl() fails.  "write": write() does not transfer the
\* whole command.  "read": read() does not return the whole answer.
ASSUME FaultAssumption == Fault \subseteq {"device", "write", "read"}
ASSUME ModeAssumption == Mode \subseteq {0, 1}
ASSUME ValueAssumption == Value \subseteq Int
\* handleCLI fills the list from the front; it is not modelled with a token
\* that parses to 0 before another address.
ASSUME AddressAssumption ==
  /\ N_SLOTS \in Nat
  /\ I2C_SLAVE_ADDR_LIST \in [Slot -> Nat]
  /\ \A s, t \in Slot :
       s < t /\ I2C_SLAVE_ADDR_LIST[t] # 0 => I2C_SLAVE_ADDR_LIST[s] # 0

VARIABLES
  proc,             \* the process: not running, serving, or how it ended
  OPERATIONAL_MODE, \* the "-m" of this process
  I2C_VIRTUAL_MODE, \* 1 mutes every I2C transaction
  RELAYS_STATE,     \* I2C_0_RELAYS_STATE, I2C_1_RELAYS_STATE: cached bitmasks
  node,             \* value of the OPC UA node of each relay
  energized,        \* the relays that are physically on, per I2C address
  \* History, read by properties only:
  lost              \* the boards that did not get the last command sent to them

relayVars == <<proc, OPERATIONAL_MODE, I2C_VIRTUAL_MODE, RELAYS_STATE, node, energized, lost>>

Registered == {s \in Slot : I2C_SLAVE_ADDR_LIST[s] # 0}
Addr == {I2C_SLAVE_ADDR_LIST[s] : s \in Registered}

getI2CSlaveListLength == Cardinality(Registered)

\* The address space has nodes for the first slots only.
HasNodes(s) == s < getI2CSlaveListLength

\* UA_Server_run dispatches callbacks; after a signal it still finishes the
\* iteration it is in.
Serving == proc \in {"running", "stopping"}

\* Nothing is known of the relays before the first start.
RelayInit ==
  /\ proc = "off"
  /\ OPERATIONAL_MODE = 0
  /\ I2C_VIRTUAL_MODE = 0
  /\ RELAYS_STATE = [s \in Slot |-> {}]
  /\ node = [s \in Slot |-> [r \in Relay |-> 0]]
  /\ energized \in [Addr -> SUBSET Relay]
  /\ lost = Addr

-----------------------------------------------------------------------------
(***************************************************************************)
(* Access to the bus.  A failing open() or ioctl() calls exit(1) on the    *)
(* spot; a failing write() is printed and otherwise ignored.               *)
(***************************************************************************)

setRelayState(command, addr) ==
  \/ /\ I2C_VIRTUAL_MODE = 1
     /\ UNCHANGED <<proc, energized, lost>>
  \/ /\ I2C_VIRTUAL_MODE = 0
     /\ energized' = [energized EXCEPT ![addr] = command]
     /\ lost' = lost \ {addr}
     /\ UNCHANGED proc
  \/ /\ I2C_VIRTUAL_MODE = 0
     /\ "write" \in Fault
     /\ lost' = lost \cup {addr}
     /\ UNCHANGED <<proc, energized>>
  \/ /\ I2C_VIRTUAL_MODE = 0
     /\ "device" \in Fault
     /\ proc' = "aborted"
     /\ UNCHANGED <<energized, lost>>

\* getDigitalInputState, getAnalogInputStateAIN: exit(1) on the device, and a
\* short read leaves the caller a null pointer that it dereferences.
getInputStateFails ==
  /\ I2C_VIRTUAL_MODE = 0
  /\ Fault \cap {"device", "read"} # {}
  /\ proc' = "aborted"

\* The boards whose write may be lost during one shutdown.
Missable == IF "write" \in Fault THEN SUBSET Addr ELSE {{}}

\* The boards in "reached" are told to switch off and "missed" do not hear it.
SwitchOff(reached, missed) ==
  /\ energized' = [a \in Addr |-> IF a \in reached \ missed THEN {} ELSE energized[a]]
  /\ lost' = (lost \ reached) \cup (reached \cap missed)

\* The loop over the slots, from front to back: it completes, or the process
\* ends at slot k.  "virtual" is the value of I2C_VIRTUAL_MODE it runs under,
\* "done" the process state it leaves.
safeShutdownI2CSlaveList(virtual, done) ==
  \/ /\ virtual = 1
     /\ proc' = done
     /\ UNCHANGED <<energized, lost>>
  \/ /\ virtual = 0
     /\ proc' = done
     /\ \E missed \in Missable : SwitchOff(Addr, missed)
  \/ /\ virtual = 0
     /\ "device" \in Fault
     /\ proc' = "aborted"
     /\ \E k \in Registered, missed \in Missable :
          SwitchOff({I2C_SLAVE_ADDR_LIST[s] : s \in {t \in Registered : t < k}}, missed)

-----------------------------------------------------------------------------
(***************************************************************************)
(* The life cycle: main() of server.c.  The process may be started again   *)
(* after any end; the relays are as the last process left them.            *)
(***************************************************************************)

RelayStart ==
  /\ proc \in {"off", "exited", "aborted"}
  /\ OPERATIONAL_MODE' \in Mode
  /\ I2C_VIRTUAL_MODE' = OPERATIONAL_MODE'
  /\ RELAYS_STATE' = [s \in Slot |-> {}]
  /\ node' = [s \in Slot |-> [r \in Relay |-> 0]]
  /\ safeShutdownI2CSlaveList(I2C_VIRTUAL_MODE', "running")

stopHandler ==
  /\ proc = "running"
  /\ proc' = "stopping"
  /\ UNCHANGED <<OPERATIONAL_MODE, I2C_VIRTUAL_MODE, RELAYS_STATE, node, energized, lost>>

\* Mutant: the shutdown at exit is forgotten.
RelayExitWithoutShutdown ==
  /\ proc = "stopping"
  /\ proc' = "exited"
  /\ UNCHANGED <<OPERATIONAL_MODE, I2C_VIRTUAL_MODE, RELAYS_STATE, node, energized, lost>>

RelayExit ==
  /\ proc = "stopping"
  /\ safeShutdownI2CSlaveList(I2C_VIRTUAL_MODE, "exited")
  /\ UNCHANGED <<OPERATIONAL_MODE, I2C_VIRTUAL_MODE, RELAYS_STATE, node>>

-----------------------------------------------------------------------------
(***************************************************************************)
(* The callbacks of the OPC UA nodes.                                      *)
(***************************************************************************)

\* Mutant: 0 switches a relay on too.
afterWriteTimeZeroIsOn(s, r, v) ==
  /\ Serving
  /\ HasNodes(s)
  /\ node' = [node EXCEPT ![s][r] = v]
  /\ RELAYS_STATE' = [RELAYS_STATE EXCEPT ![s] = IF v >= 0 THEN @ \cup {r} ELSE @ \ {r}]
  /\ setRelayState(RELAYS_STATE'[s], I2C_SLAVE_ADDR_LIST[s])
  /\ UNCHANGED <<OPERATIONAL_MODE, I2C_VIRTUAL_MODE>>

\* Mutant: the bit of the one relay is sent instead of the board's bitmask.
afterWriteTimeOneBit(s, r, v) ==
  /\ Serving
  /\ HasNodes(s)
  /\ node' = [node EXCEPT ![s][r] = v]
  /\ RELAYS_STATE' = [RELAYS_STATE EXCEPT ![s] = IF v > 0 THEN @ \cup {r} ELSE @ \ {r}]
  /\ setRelayState(IF v > 0 THEN {r} ELSE {}, I2C_SLAVE_ADDR_LIST[s])
  /\ UNCHANGED <<OPERATIONAL_MODE, I2C_VIRTUAL_MODE>>

\* afterWriteTimeI2C<s>_<r>: only a registered slot has nodes.  The whole
\* cached bitmask of the board is sent, not the one relay.
afterWriteTime(s, r, v) ==
  /\ Serving
  /\ HasNodes(s)
  /\ node' = [node EXCEPT ![s][r] = v]
  /\ RELAYS_STATE' = [RELAYS_STATE EXCEPT ![s] = IF v > 0 THEN @ \cup {r} ELSE @ \ {r}]
  /\ setRelayState(RELAYS_STATE'[s], I2C_SLAVE_ADDR_LIST[s])
  /\ UNCHANGED <<OPERATIONAL_MODE, I2C_VIRTUAL_MODE>>

\* beforeReadTimeI2C<s>{In,Ain}<n> when the transaction fails.  A successful
\* read, and any read while the bus is muted, leaves this module's state alone.
beforeReadTimeFails(s) ==
  /\ Serving
  /\ HasNodes(s)
  /\ getInputStateFails
  /\ UNCHANGED <<OPERATIONAL_MODE, I2C_VIRTUAL_MODE, RELAYS_STATE, node, energized, lost>>

-----------------------------------------------------------------------------
(***************************************************************************)
(* The two switches the keep-alive check throws (module Coupler).          *)
(***************************************************************************)

\* Mutant: the flag is set first, so that it mutes the shutdown.
gotoSafeModeFlagFirst ==
  /\ Serving
  /\ I2C_VIRTUAL_MODE' = 1
  /\ \/ /\ I2C_VIRTUAL_MODE = 0 /\ OPERATIONAL_MODE = 0
        /\ safeShutdownI2CSlaveList(I2C_VIRTUAL_MODE', proc)
     \/ /\ I2C_VIRTUAL_MODE = 1 \/ OPERATIONAL_MODE = 1
        /\ UNCHANGED <<proc, energized, lost>>
  /\ UNCHANGED <<OPERATIONAL_MODE, RELAYS_STATE, node>>

\* Mutant: the guard is dropped and the flag counts the calls.
gotoSafeModeNested ==
  /\ Serving
  /\ I2C_VIRTUAL_MODE' = I2C_VIRTUAL_MODE + 1
  /\ UNCHANGED <<proc, OPERATIONAL_MODE, RELAYS_STATE, node, energized, lost>>

gotoSafeMode ==
  /\ Serving
  /\ \/ /\ I2C_VIRTUAL_MODE = 0
        /\ \/ /\ OPERATIONAL_MODE = 0
              /\ safeShutdownI2CSlaveList(I2C_VIRTUAL_MODE, proc)
           \/ /\ OPERATIONAL_MODE = 1
              /\ UNCHANGED <<proc, energized, lost>>
        /\ I2C_VIRTUAL_MODE' = IF proc' = "aborted" THEN 0 ELSE 1
     \/ /\ I2C_VIRTUAL_MODE = 1
        /\ UNCHANGED <<proc, energized, lost, I2C_VIRTUAL_MODE>>
  /\ UNCHANGED <<OPERATIONAL_MODE, RELAYS_STATE, node>>

\* Mutant: the cached bitmasks are sent on the way to normal mode.
gotoNormalModeRestores ==
  /\ Serving
  /\ I2C_VIRTUAL_MODE' = 0
  /\ energized' = [a \in Addr |->
       UNION {RELAYS_STATE[s] : s \in {t \in Registered : I2C_SLAVE_ADDR_LIST[t] = a}}]
  /\ UNCHANGED <<proc, OPERATIONAL_MODE, RELAYS_STATE, node, lost>>

gotoNormalMode ==
  /\ Serving
  /\ I2C_VIRTUAL_MODE' = 0
  /\ UNCHANGED <<proc, OPERATIONAL_MODE, RELAYS_STATE, node, energized, lost>>

-----------------------------------------------------------------------------
\* The callbacks that a client's write or read of a node runs.
Access ==
  \/ \E s \in Slot, r \in Relay, v \in Value : afterWriteTime(s, r, v)
  \/ \E s \in Slot : beforeReadTimeFails(s)

RelayNext ==
  \/ RelayStart
  \/ stopHandler
  \/ RelayExit
  \/ Access
  \/ gotoSafeMode
  \/ gotoNormalMode

RelaySpec == RelayInit /\ [][RelayNext]_relayVars

-----------------------------------------------------------------------------
RelayTypeOK ==
  /\ proc \in {"off", "running", "stopping", "exited", "aborted"}
  /\ OPERATIONAL_MODE \in {0, 1}
  /\ I2C_VIRTUAL_MODE \in {0, 1}
  /\ RELAYS_STATE \in [Slot -> SUBSET Relay]
  /\ node \in [Slot -> [Relay -> Value \cup {0}]]
  /\ energized \in [Addr -> SUBSET Relay]
  /\ lost \subseteq Addr

\* Every board that got its last command is off.
DeliveredOff == \A a \in Addr \ lost : energized[a] = {}

\* The relays of slot s that the OPC UA nodes ask for.
Commanded(s) == {r \in Relay : node[s][r] > 0}

\* The cache is what the nodes say, whatever is written while the bus is muted.
CacheFollowsNodes ==
  Serving => \A s \in Slot : RELAYS_STATE[s] = Commanded(s)

\* A coupler that was not started virtual has the relays off as long as it is in
\* safe mode (keep_alive.h:41-62), whatever clients write and through a signal,
\* on every board that its shutdown reached.
SafeModeMeansOff ==
  Serving /\ OPERATIONAL_MODE = 0 /\ I2C_VIRTUAL_MODE = 1 => DeliveredOff

\* Such a coupler never leaves a board with part of a command: it is all off, or
\* its relays are exactly those that the nodes of a slot with its address ask
\* for - after a recovery the first write brings back the others.
BoardOffOrAsCommanded ==
  Serving /\ OPERATIONAL_MODE = 0 =>
    \A a \in Addr \ lost :
       \/ energized[a] = {}
       \/ \E s \in Registered : /\ I2C_SLAVE_ADDR_LIST[s] = a
                                /\ energized[a] = Commanded(s)

\* Such a coupler leaves the relays off when main() returns (server.c:202),
\* although the shutdown at exit is muted when it was in safe mode.
CleanExitMeansOff ==
  proc = "exited" /\ OPERATIONAL_MODE = 0 => DeliveredOff

\* A relay comes on only in a step of a serving coupler that is not muted, on a
\* board whose nodes ask for exactly that: no recovery, restart, shutdown or
\* failure energizes one by itself (setRelayState, mod_io_i2c.h:47-89).
OnlyWritesEnergize ==
  [][\A a \in Addr : ~ (energized'[a] \subseteq energized[a]) =>
       /\ Serving /\ I2C_VIRTUAL_MODE = 0
       /\ \E s \in Registered :
            /\ I2C_SLAVE_ADDR_LIST[s] = a
            /\ energized'[a] = Commanded(s)']_relayVars

=============================================================================
