# A verification project for the OSIE coupler

OSIE's *coupler* (`src/coupler`) is an OPC UA server, written in C on top of
open62541, that drives one or two OLIMEX MOD-IO relay boards over I2C.  Several
couplers watch each other with heart beats over OPC UA Pub/Sub ("keep-alive"): a
coupler that misses a beat of a coupler it depends on switches its relays off and
goes to *safe mode*, and returns to *normal mode* when the beats come back.

This directory holds TLA+ models of that program, the TLC runs that check them on
small instances, and TLAPS proofs for all instances.  `PROJECT.json` lists the
components, the runs, the mutants that show each property can fail, the source
lines behind each definition, the findings, the hazards and the theorems.

    tlc -config relay_safe.cfg MCRelayDriver     # a run: <name>.cfg and its module
    tlapm Coupler_proofs.tla                     # a proof module

## 1. Inventory

| component | source | state | operations |
| --- | --- | --- | --- |
| MOD-IO relay driver | `mod_io_i2c.h`, `mod_io_opc_ua.h`, `keep_alive.h:41-76` | `I2C_{0,1}_RELAYS_STATE`, `I2C_VIRTUAL_MODE`, `OPERATIONAL_MODE`, the OPC UA nodes, the physical relays | `setRelayState`, `safeShutdownI2CSlaveList`, `afterWriteTimeI2C*`, `gotoSafeMode`, `gotoNormalMode` |
| MOD-IO inputs | `mod_io_i2c.h:91-200`, `mod_io_opc_ua.h:113-453` | the input nodes | `getDigitalInputState`, `getAnalogInputStateAIN`, `beforeReadTimeI2C*` |
| Process life cycle | `server.c` | `running`, the process itself | `main`, `stopHandler`, `exit(1)` from anywhere below |
| Keep-alive subscriber | `keep_alive_subscriber.h`, `keep_alive.h` | `SUBSCRIBER_DICT`, `CURRENT_STATE`, `SAFE_MODE_STATE_COUNTER`, node 50000 and its last sample | the reader, its monitored item, `dataChangeNotificationCallback`, `callbackCheckHeartBeat` |
| Keep-alive publisher | `keep_alive_publisher.h`, `server.c` | `HEART_BEATS`, the node `heart_beat`, the datagrams on their way | `callbackTicHeartBeat`, the writer group's timer |
| Subscriber dictionary | `common.h:93-150` | a linked list of strings on the heap, its head | `dictAlloc`, `addItem`, `getItem`, `delItem` |
| Command line | `cli.h` | `struct arguments`, the scalar globals, `I2C_SLAVE_ADDR_LIST`, `HEART_BEAT_ID_LIST` | `parse_opt`, `handleCLI` |
| Clock and string helpers | `common.h:9-87` | the system's clock | `getMilliSecondsSinceEpoch`, `convert*2Str` |
| GPIO probe | `gpio.h` | a pin | `setGPIO` |
| Test clients, latency tools, Beremiz projects, CAD, SlapOS | `src/tests`, `src/rt_analyzer`, `src/Beremiz`, ... | - | the clients of the OPC UA nodes; no logic of the coupler |

**How they interact.**  Everything runs on the one thread of `UA_Server_run`: a
client's access to a node, the two repeated callbacks (tick and check) and the
data change callback are called from its loop and never preempt each other; only
the signal handler does.  They share plain globals.  The check calls
`gotoSafeMode` and `gotoNormalMode` and thereby throws `I2C_VIRTUAL_MODE`, which
mutes every I2C transaction that a client's write, a start or an exit makes.  Two
couplers interact only through the value of a 32-bit float, multicast over UDP.

**What is hard.**

- *One state for many couplers.*  `CURRENT_STATE` is overwritten by every verdict of
  the walk through the list, and decides whether safe mode is entered and left.
- *Time.*  Stamps are compared by a periodic and possibly late check; differences
  are cut to 32 bits; the wall clock may step.
- *Failures of I2C.*  A failing device ends the process on the spot, in the middle of
  a shutdown if need be; a failing write is ignored; a failing read crashes.
- *One node for every sender.*  All couplers publish to one group with the same IDs, a
  reader writes every beat, its own echo included, to node 50000, and that node is
  sampled once per interval: what is overwritten before the sample is lost.
- *Beats without a time.*  A late or repeated datagram, or the last beat left in the
  node, looks like a new one after the death of its sender.
- *Memory nobody wrote.*  The head of the dictionary is copied from an uninitialised
  block; without `-b`, whether beats are published is read from the stack.
- *Restarts.*  Relays keep their position, everything the program knows is reset.
- *Muted writes.*  A client may write relays while the bus is muted; the cache
  collects these writes and the next write after a recovery sends them.
- *Numbers.*  ID and beat count share the 24 bits of a float's significand.

**What makes each component correct.**

- relay driver: safe mode and a clean exit leave the relays off; a board is never
  left with part of a command; nothing but a client's write energizes a relay.
- subscriber: silence is answered within a deadline, for every recorded "down" the
  relays are off, recovery takes a beat and does happen, statistics are right.
- publisher: a beat names its sender, and each beat is visible to the subscribers.
- network: a stamp is never younger than its sender allows, a dead peer mutes the
  relays in time, a live one raises no alarm.
- dictionary: it is a map whose calls return.
- command line: the flags and lists are what was typed last.

## 2. Modules

    RelayDriver          the boards, the cache, safe and normal mode
      Coupler            + the watch: stamps, the check, the clock      implements RelayDriver
        KeepAliveNet     + peers, multicast, the shared node, sampling  implements Coupler
    StampMap             a map with atomic calls
    SubscriberDict       the linked list on the heap                    implements StampMap
    HeartBeatFloat       a beat as a 32-bit float                       used by KeepAliveNet
      HeartBeatValue     + one coupler's beats, one after the other
    CommandLine          argp's options, the globals, the two lists

### RelayDriver

State: `proc` (the process: off, running, stopping after a signal, exited,
aborted), `OPERATIONAL_MODE`, `I2C_VIRTUAL_MODE`, `RELAYS_STATE` (both bitmask
globals, each as the set of its relays), `node` (the values of the OPC UA relay
nodes), `energized` (the relays that are physically on) and the history variable
`lost` (the boards that did not get the last command sent to them).

| action | code |
| --- | --- |
| `RelayStart` | `main` up to `UA_Server_run`, with the shutdown at start |
| `stopHandler` | the signal handler; the loop finishes its iteration |
| `RelayExit` | the rest of `main`, with the shutdown at exit, muted in safe mode |
| `afterWriteTime(s, r, v)` | a client writes `v` to the node of relay `r` of slot `s`: eight copies of one callback in the code |
| `beforeReadTimeFails(s)` | a read of an input whose I2C transaction ends the process |
| `gotoSafeMode`, `gotoNormalMode` | the two functions of `keep_alive.h` |

`setRelayState` and `safeShutdownI2CSlaveList` are operators that these actions
call, with one disjunct per outcome: muted, delivered, not delivered (`write()`
fails), process ended (`open()` or `ioctl()` fails).  The shutdown is one step, as
no other callback can run inside it, but may end at any slot.  `Fault` selects which
failures an instance has.  Two slots may name the same board.

### Coupler

Extends RelayDriver and composes it with the watch.  Added state:
`SUBSCRIBER_DICT` (per ID, "now - stamp" modulo the int's width instead of the
stamp: the code never uses a stamp in another way), `CURRENT_STATE`,
`SAFE_MODE_STATE_COUNTER`, `i` (where the walk of the check is), `untilCheck` (time
to the next due check, negative when it is late), and the history variables
`checked` (a check was completed), `heard` (a beat came since the last verdict
"down"), `skewed` (the difference of the times is not the silence: it has wrapped
or the clock was set) and `steppedEarly` (the clock was set before the first check
was done).

| action | code |
| --- | --- |
| `Start`, `Signal`, `Exit`, `Client` | the driver's actions, with the globals of the watch reset at a start |
| `Tick` | a unit of time; waits for a check that is `LATENESS` late |
| `ClockStep(d)` | the wall clock is set: every difference shifts, timers do not |
| `dataChangeNotificationCallback(id)` | a beat of `id` is seen; own beats are ignored |
| `CheckBegins` | `callbackCheckHeartBeat` reads the clock |
| `CheckUnused`, `CheckDown`, `CheckAlive`, `CheckNotHeard` | one entry of its walk, with the calls to `gotoSafeMode` and `gotoNormalMode` |

The walk is split so that a signal may come in between; `Tick`, beats and clients
wait for its end.  `ImplementsRelayDriver == RelaySpec` is the refinement: the
composition does nothing to the relays that the driver does not, so that whatever
is proved of the driver holds of the coupler.

### KeepAliveNet

Extends Coupler, in which beats arrive at any time, with what makes them arrive, and
HeartBeatFloat, the value that travels.
Added state: `ENABLE_HEART_BEAT` (`-b`), `subscribed` (node 50000), `sampled` (its
last sample), `ran` (how many of the callbacks of the due round have run), `alive`,
`beats` and `nextBeat` of the peers, `net` (datagrams with their age), and the
history variable `since` (time since a peer started, died or had a beat lost or
repeated, up to `LONG_AGO`, the longer of the two times that properties ask for:
`MUTED_BY` after a death, `SETTLED_BY` after a disturbance).

| action | code |
| --- | --- |
| `NetStart` | a start; `ENABLE_HEART_BEAT` is either value, as `-b` has no default |
| `OwnBeat`, `Sample`, `Check` | the three repeated callbacks of a due round, in the order of their registration |
| `NetElse` | the rest of Coupler, which does not touch the network |
| `PeerBeat(p)`, `PeerStart(p)`, `PeerStop(p)` | a peer's timer, its start, its exit or crash (its beats count from 0 again) |
| `Deliver(d)`, `Duplicate(d)`, `Lose(d)` | the multicast: any order, once, twice or not at all, within `DELAY` |
| `NetTick` | a unit of time for everybody |

A beat is held as the pair of its two numbers, as history; what is published, written
and sampled is `Float(beat)`, the 32-bit float of `"<ID>.<beats>"`, looked up in the
table `FLOATS`.  `Sample` calls `dataChangeNotificationCallback` with the integer part
of the float when the sampled float differs from the one before and names another
coupler (`IsNew`): two beats that round to one float are one value, and a beat that
rounds up to the next integer comes from the next ID.  Of this coupler's own beats
one stands for all that name it (`OWN_BEATS`).  A peer restarts at beat `LAST` at the
latest.
`ImplementsCoupler == Spec` is the refinement: the network is one way for beats to
arrive as Coupler lets them.  `LAG` = delay + interval + lateness is how long after
a death a beat of the dead can still be recorded.

### StampMap and SubscriberDict

`SubscriberDict` has `addItem`, `delItem` and `getItem` one access of a cell at a
time: `dict` (the head), `heap`, the locals `ptr` and `prev`, the place `pc` in the
call.  The four branches of `delItem` are one `Unlink`; `malloc` may return any free
cell, the one just freed included; `Restart` takes the head from uninitialised
memory (`NULL` or `WILD`), and a dereferenced wild pointer is a crash.

`StampMap` is the abstract specification: a map with atomic `Put`, `Get` and `Reset`.
It is `SUBSCRIBER_DICT` as Coupler has it (`Put` of the current time is a difference
of 0, `Get` is the read in the check).  The refinement mapping `Contents` sends the
list to the map; the new value counts from the moment the old cell is unlinked, when
no lookup can run.

`Reachable(c)`, what the links lead to from `c`, is the least set that has `c` and is
closed under `next`: the intersection of all such sets.  No recursion is needed to say
or to prove what is in the list.

### HeartBeatFloat and HeartBeatValue

`strtof(id, n)` is the text `"<id>.<n>"` read back as a 32-bit float with the exact
rounding of the C function (`Divided`: binary long division, `Rounded`: ties to
even), held as its integer part and the number of units in the last place after it,
so that two floats are equal when their records are.  `Sender` is the subscriber's
`(int)`.  Two conditions say what the numbers of beats of an ID may be:
`BeatsStayBelow` (none is rounded up to the next ID) and `BeatsFit` (one in the last
digit is at least a unit in the last place of the float).

`HeartBeatValue` is the publisher's counter and the subscriber's value, beat by beat
with no network in between.  A restart sets the counter to 0 and leaves the value at
the subscriber as it was.

### CommandLine

`argp` hands options over in the order typed (`Parse`, one call of `parse_opt`),
`Transfer` copies the result to the globals, `SlaveToken`, `SlavesDone`,
`WatchedToken` and `WatchedDone` are the two `strtok` loops.  A token is the sequence
of its digits, so that base 10 and base 16 differ; a write past the end of a list is
the outcome `overrun`.

### The MC modules

`MCRelayDriver`, `MCCoupler`, `MCKeepAliveNet`, `MCSubscriberDict`, `MCCommandLine`
and `MCHeartBeatValue` only hold values of constants.

## 3. Properties and runs

| run | what it checks |
| --- | --- |
| `relay_safe` | `CacheFollowsNodes`, `SafeModeMeansOff`, `BoardOffOrAsCommanded`, `CleanExitMeansOff`, `OnlyWritesEnergize`: two boards, every failure, normal and virtual starts, any interleaving |
| `coupler_one` | one watched coupler, failing devices, a clock that is set: `DownMeansSafe`, `LastWatchedDeadline`, `ModeFollowsState`, `RecoveryIsEarned`, `CounterCountsSwitches`, the refinement `ImplementsRelayDriver`, and the liveness property `SteadyBeatsRestoreNormalMode` |
| `coupler_two` | two watched couplers that share one `CURRENT_STATE`: what of the above still holds |
| `net_sole` | one peer that crashes and comes back, a multicast that delays, reorders, repeats and loses: `StampsAreFresh`, `DeadPeerMutes`, `SoleBeatIsHeard`, the refinement `ImplementsCoupler` |
| `dict_calls` | every order of calls on three keys: `ListIsWhole`, `OnlyWildHeadCrashes`, the refinement `ImplementsMap`, the liveness property `CallsReturn` |
| `cli_typed` | every sequence of up to three options out of twenty: `SettingsAsTyped`, `BothHalvesEnable`, `ListsAsTyped` |
| `beat_day` | coupler 100's first 99999 beats (6.9 hours at the default 250 ms), with restarts: `BeatNamesSender`, `EveryBeatShows` (the first beat of a process may repeat what the process before left, 100.1 after 100.10) |

Every run but `coupler_two` and `beat_day` also checks the type invariant of its
module.  Runs in which TLC must find a violation; each is an entry of "findings":

| run | the text of the repository | what the code does |
| --- | --- | --- |
| `coupler_masked` | `keep_alive_subscriber.h:218`, "If a related coupler is down got to safe mode" | a live coupler later in the list takes the coupler out of safe mode in the same check |
| `coupler_virtual` | `cli.h:15`, virtual mode "does NOT set any I2C slaves' state" | the first beat in time meets the initial `STATE_DOWN` and `gotoNormalMode` unmutes the bus |
| `net_hidden` | `keep_alive.h:24`, the timeout "after which a coupler is considered down" | with `-b 1` the coupler's own echo overwrites each beat of its peer before the sample, so that a live peer is considered down |
| `beat_stalls` | the same line | with six-digit beats of ID 100 the float changes at every 7th or 8th beat only |
| `cli_hex` | `cli.h:191`, the list has "INTs representing coupler' ID" | `-l` is read in base 16 and `-i` in base 10: `-l 12` watches coupler 18 |

**Conditions in the properties.**  The comments of the code promise more than it
does.  Each condition excludes a case the code gets wrong or cannot know about:

- *outside `lost`*: a failing `write()` is printed and forgotten, the mode changes all
  the same; no program can switch off a board it does not reach.
- *`OneWatched`*, *the last used entry*: verdicts share `CURRENT_STATE`.  Besides what
  `coupler_masked` shows, a watched coupler that never beat overwrites `STATE_DOWN`
  with `STATE_NO_INITIAL_HEART_BEAT`; when the other one recovers, the relays stay
  muted in `STATE_UP`, and the counter moves at every check.
- *`TimeoutCoversCheck`* (interval + lateness <= timeout; the defaults are 250 and
  1000 ms) and *`~ steppedEarly`*, together `TrustedStart`: `CURRENT_STATE` starts as
  `STATE_DOWN`, so that a coupler found down by the very first check would not mute
  the relays.
- *`~ skewed`*: after 2^31 ms (24.9 days) of silence the difference of the times turns
  negative and the silent coupler looks alive; a clock that was set does the same
  until the next beat.
- *`OPERATIONAL_MODE = 0`* where the relays are concerned: a coupler started with `-m 1`
  never shuts them down.
- *`COUNTER_WORD > 1`* in `CounterCountsSwitches`: a counter of one value never moves.
- *the sole beat* and *`~ ENABLE_HEART_BEAT`* in `SoleBeatIsHeard`: see `net_hidden`; a
  second peer overwrites beats in the same way.
- *`TimeoutCoversBeat`* in `SoleBeatIsHeard`: interval + 2 latenesses + delay <= timeout
  (a late beat on its way, then a late check) and delay < interval (what a process sent
  before its restart is gone at the first sample of the next one).  The defaults
  satisfy both on any local network.
- *`BeatsFit(p, LAST)`* in `SoleBeatIsHeard`: a beat is recorded only if it changes the
  float.  Without the condition the claim is false of the program: coupler 100, alone
  on the air and with the default settings, is found down from beat 100000 on
  (`beat_stalls`).  The table below says what it means for each ID.
- *`Unmistaken(p)`* in `StampsAreFresh` and `DeadPeerMutes`: if the ID below p is
  somebody's, its beats are not rounded up to p.  The text "100.999997" is the float
  101.0, so that coupler 100 would keep a dead coupler 101 alive.
- *`SETTLED_BY`* in `SoleBeatIsHeard`: so long after a lost or repeated beat its last
  trace has left node 50000, the sample, the stamp and the state.
- *the first 99999 beats of coupler 100*: with more digits floats stall
  (`beat_stalls`), and rounding may reach the next integer: the text "1000.99997" is
  the float 1001.0.  `BeatsFit` is the condition for all IDs:

  | ID | 1-15 | 16-127 | 128-1023 | 1024-16383 | 16384-131071 |
  | --- | --- | --- | --- | --- | --- |
  | beats up to | 999999 | 99999 | 9999 | 999 | 99 |
  | at 250 ms | 2.9 days | 6.9 hours | 42 minutes | 4 minutes | 25 seconds |
- *lists that fit* in `ListsAsTyped`, *IDs of one decimal digit*: nothing checks the
  bounds of the arrays, and see `cli_hex`.
- *`-b` is given* in `SettingsAsTyped`: it has no default.

**Bounds, and why they are enough.**

- RelayDriver: two slots (the code's array), one or two relays per board (the bits
  of a bitmask do not interact; two are needed for one write to disturb the other),
  values -1, 0 and 1 (the callback only tests `> 0`).  The relays are
  interchangeable, so `relay_safe` uses symmetry, with invariants and a step property
  only.
- Coupler: `HEART_BEAT_ID_LIST` is cut to two entries instead of eight: used and
  unused, used and used.  Longer walks repeat the step; the proofs cover every
  length.  Interval 2, timeout 3 or 4, lateness 0 or 1: a check may be on time or
  late, and `TimeoutCoversCheck` holds with equality in `coupler_two`.  `HALF_WORD` 8 or
  9 stands for 2^31; it exceeds timeout + interval + lateness (`TimeAssumption`), so
  that a silence is seen by a check before it wraps; the runs go around the word.
  `COUNTER_WORD` 3 stands for 2^32, and wraps.  `CLOCK_STEPS` {-3, 5} and {4}: below
  and above the timeout, in both directions, and repeated as often as one likes.
- KeepAliveNet: one watched peer, no board (`Safe` is then about the mode; what it
  means for boards is the driver's), interval 2, timeout 3, `DELAY` 1, so that
  a datagram comes before or after the sample and the own echo before or after the
  peer's beat: both conjuncts of `TimeoutCoversBeat` hold with the smallest margin there
  is.  The IDs 1000000 and 999999 leave 4 bits to the beats, so that `BeatsFit` and
  `Unmistaken` hold for numbers of one digit and no more.  `LAST` 7: a living peer beats
  once in two units of time, and `SETTLED_BY`, 12 units, is over after six beats.
  `COUNTER_WORD` 1 stops the statistics.  The lateness of the run is 0; the theorems
  below have no bound on it.
- SubscriberDict: three keys and three cells (a list's first, inner and last cell
  differ; the cell just freed is often the only free one), two values.
- CommandLine: three options make a default, a repetition and a third option that
  follows; two slots as in the code, three watched entries instead of eight, with a
  list of four to exceed both.  Deadlock is not checked, because `handleCLI` ends.
- HeartBeatValue: `LAST` is the number of beats that the claim of `beat_day` is about;
  a restart may come at any of them.

**Fairness.**  `FairSpec` has weak fairness of `Tick`, `CheckBegins` and
`CheckEntry`: `UA_Server_run` keeps iterating while `running` is set, the clock
advances, and a due repeated callback is run and returns.  `Tick` is disabled once a
check is `LATENESS` late, so time cannot run past it.  Nothing is assumed of beats,
clients, clock steps or signals.  The liveness property puts its demand on the
environment in its premise: the coupler keeps serving and from some time on the last
beat of the watched coupler is always recent enough.  `FairDict` has weak fairness of
`Step`: a call that was begun is carried on by the thread that is in it; no call has
to be begun.

## 4. Proofs

| proof module | extends | proves |
| --- | --- | --- |
| `RelayDriver_proofs` | RelayDriver | its five invariants and the action property |
| `Coupler_proofs` | `RelayDriver_proofs` | the refinement, the five safety properties and the type invariant |
| `HeartBeatFloat_proofs` | HeartBeatFloat | the lemmas about the float |
| `KeepAliveNet_proofs` | `Coupler_proofs`, `HeartBeatFloat_proofs` | the refinement, `StampsAreFresh`, `DeadPeerMutes`, the type invariant |
| `SoleBeat_proofs` | `KeepAliveNet_proofs` | `SoleBeatIsHeard` |
| `HeartBeatValue_proofs` | `HeartBeatFloat_proofs` | its two invariants |
| `SubscriberDict_proofs` | SubscriberDict | its three invariants and the refinement of the map |
| `CommandLine_proofs` | CommandLine | its four invariants |

So every invariant, every action property and every refinement that a passing run
checks is a theorem.  Assumptions are the `ASSUME`s of the modules: the types of the
constants, that the address list is filled from the front, and `TimeAssumption`.  TLC
evaluates them in every run.  They put no bound on slots, relays, values, watched
couplers, peers, clock steps, delays, times, keys, cells, options or texts.  In
KeepAliveNet and HeartBeatValue the IDs are 1 to 2^23, which a float holds exactly, and the beats have at most nine digits.

**Relay driver.**  `RelayInv` is the inductive invariant: the type invariant,
`CacheFollowsNodes`, `SafeModeMeansOff`, `BoardOffOrAsCommanded`,
`CleanExitMeansOff` together; the cache is needed to know what a write sends, and
the type invariant to know which boards it can reach.  `NodesAreRegistered` shows
that only used slots have nodes (this needs the list to be filled from the front),
`SetRelayState` and `Shutdown` say what one transaction and one pass of the shutdown
do to `energized` and `lost` under any failure.  `EnergizeCorrect` proves the
action property from the same invariant.

**Refinements.**  `StepRefines` shows that every step of `Coupler` is a step of
`RelayDriver` or leaves its variables alone, `NetStepRefines` the same of
`KeepAliveNet` and `Coupler`; `Refinement` and `NetRefinement` follow.  `RelayFacts`
and `CouplerFacts` bring the invariants up one level without proving them again.

**Deadline.**  `DownMeansSafe` and `LastWatchedDeadline` are not inductive: they talk
about the moments between checks, and what holds then depends on what the walk has
judged.  `WatchInv` adds, under `TimeoutCoversCheck`,

- `DownMutes`: once any verdict has been passed since the start (`Decided`), also in
  the middle of a walk, `STATE_DOWN` goes with a muted bus;
- `FirstStamps`: before the first check is done no stamp is older than the process, so
  it can find nobody down - this is where the initial `STATE_DOWN` is harmless;
- `LastLate`: unless the bus is muted, a late coupler in the last used entry has not
  been judged in this walk, and between walks its age exceeds the timeout by no more
  than the time since the last check.

The first two need that the clock was not set early, the third that the entry was
not skewed either.  `LateMutes` is the heart of it: a verdict on a late coupler leaves
the bus muted.  `WatchCorrect` proves the invariant, `DownCorrect` and `DeadlineCorrect`
combine it with `SafeModeMeansOff` of the driver.

**Recovery.**  `SilentIsLate` - a recorded coupler without a new beat is late or
skewed - is inductive and gives `RecoveryCorrect`.

**One watched coupler.**  `OneInv` adds to `WatchInv` the converse of `DownMutes`: before
the first verdict the state is the initial one and the bus is open, after it the bus
is muted exactly in `STATE_DOWN`, and a coupler that was once judged has a stamp, so
that "never heard" cannot overwrite a verdict.  `WalkDecides` is where a single used
entry matters: no second verdict follows in the same walk.  `ModeCorrect` and
`CounterCorrect` follow.

**The last trace of a dead peer.**  `TraceInv` follows the beats of a dead peer from
place to place and bounds the time since the death by the time spent there:
`InFlight` (a datagram is as old as the death or older), `Waiting` (a beat in node
50000 that is not yet sampled was on its way before, and is sampled within an
interval: `RoundIsDue`), `Stamped` (hence a stamp is at most `LAG` younger than the
death), and `NotWrapped` (a difference of the times that measures a silence is one).  That the ID read out of
a float is the sender's is `NamesSender`, which needs `Unmistaken`.
`FreshCorrect` reads it off the sample; `DeathCorrect` combines it with
`LastWatchedDeadline`, brought over by the refinement: whatever the network does,
and whoever else beats, the relays are muted and off `MUTED_BY` after the death.

**The beats of a living peer.**  `SoleBeatIsHeard` compares a mode with everything
that happened to the last few beats, so its invariant `SoleInv` follows each beat of
the one living peer from place to place, as `TraceInv` does for the dead:

| part | place | what it says |
| --- | --- | --- |
| `Paced`, `Distinct` | on its way | the age of a beat tells when it was due (`SinceDue`), and no two have the same number |
| `Read` | node 50000 | the beat there does not come again, and was recent when it arrived |
| `Taken` | the sample | the beat sampled last has not come back, and was recent when it was sampled (`RECENT`) |
| `Renewed` | the stamp | it is as young as the last beat, or as the wait of the next float for its sample, allows |
| `Revised` | the state | no verdict "down" is left, unless the check that corrects it is still to come or still on its way to the entry |
| `OwnIsOld`, `OwnIsFirst`, `WalkIsEarly` | the start | what the process before sent is gone before anything is recorded; a check begins in time |

Every part but the first two and the last says "or the disturbance is too recent":
`READ_BY`, `TAKEN_BY`, `STAMPED_BY` and `JUDGED_BY` are the times by which a trace of it
has left a place, each computed from the place before, and `SETTLED_BY` is one more
than the last.  `DELAY < HEART_BEAT_INTERVAL` is used in `OwnWaits`.  What is sampled is a
float, so a beat that arrives is seen only if its float differs from that of the beat
sampled last.  `ArrivalIsNew` shows that it does: by the times of `Paced` and `Taken` the
two beats are at most six apart, and `NearBeatsDiffer` says that floats of such beats
differ under `BeatsFit`.  (At nine apart they need not: 100.1 is 100.10.)  `SoleCorrect` combines
`SoleInv` with `OneInv`, which turns "not `STATE_DOWN`" into "not muted".

**The dictionary.**  Nothing is proved by walking along the list.  That a cell is
reachable is shown by following one link (`ReachNext`), that it is not by naming a
closed set without it (`ReachLeast`).  `DictInv` adds to `ListIsWhole`: no link leads
back to the head (`HeadIsFirst`), a search has not passed the cell it looks for
(`Searching`), `prev` is the cell before `ptr` (`Trailing`), and while `addItem` is about
to insert no cell has the key (`Replacing`).  `UnlinkReach` computes what is reachable
after the four branches of `delItem`, `InsertStep` after the insertion into a cell that
may be the one just freed.  `MapStep` shows that unlinking an old cell, or inserting a
key that had none, is the `Put` of `StampMap` and every other step leaves the map alone.

**The command line.**  `TextsAreLast` says of each option that its text is that of the
last index parsed with that key; `TextIsLast` turns it into the `CHOOSE` of the
properties.  `Splitting` and `Split` say how far `strtok` has come: the first `i`
entries are the first `i` tokens, the others are left.  `ParsingCorrect` proves both at
every moment.  What a token is worth is a recursive function: `ReadsExists` shows by
induction that a function as in its definition exists, so that the definition holds
of it (`ReadingReads`), and `ValueIsNumber` and `ValueOfDigit` follow.  Values of longer
tokens need no theorem, as the properties compare `strtol` with itself.

**The float.**  Induction over the digits and the bits gives the powers (`PowerStep`,
`PowerGrows`) and the long division: `DividedIs` says that after all the bits n times
`One` is quotient times unit plus rest, whatever the ID and the number of digits.  The
rest is arithmetic on quotient and rest.  `FloatStaysBelow`: a fraction of at most
(unit - 1)/unit is not rounded up to 1 if unit < 2 `One`.  `SameUnitDiffers`: two beats
over the same unit <= `One` differ by a unit in the last place before rounding, and by
more unless both are exact, so that ties to even cannot bring them together.
`NextUnitDiffers`: from 9 to 10, or 99 to 100, the fraction falls from nearly one to
one tenth, and the next few beats stay below.  `NearBeatsDiffer` puts the two together,
and `OtherFloatDiffers` tells the beats of two couplers apart.

TLC agrees that the strengthened invariants hold: `WatchInv`, `OneInv` and `TraceInv` on
the instances of `coupler_one`, `coupler_two` and `net_sole`, `SoleInv` on that of
`net_sole` and, in part, with lateness 1 and timeout 5, `DictInv` on `dict_calls`,
`ParseInv` and `ListInv` on `cli_typed`.

**Only model-checked:** the two liveness properties, `SteadyBeatsRestoreNormalMode` and
`CallsReturn` (liveness under fairness is out of the prover's reach), and the
violations.

## 5. Not modelled

- Values of the input nodes (only the failing reads are there): the pointer to a
  buffer of a function that returned, and the bytes of an analog value.  No state
  but the node depends on them.
- Strings: those of every beat and check are never freed, and `strcat` appends to a
  block that was allocated for less.  The heap of SubscriberDict has cells only.
- What a write past the end of an array, or through a wild pointer, does next: the
  models stop there.
- User names, X.509, certificates read from files, logging and the GPIO probe: no
  modelled state depends on them.
- Time while the process does not run; the event loop's duration of a callback.
- `open62541`, `argp` and `strtok`, except through the order and arguments with which
  they call back.
- Everything outside `src/coupler`.

## 6. Plan

Done: RelayDriver, Coupler, HeartBeatFloat, HeartBeatValue, KeepAliveNet, StampMap, SubscriberDict,
CommandLine and the proofs above, in an order that puts first what the coupler is
for: relays off when a peer is lost.

Left, in this order:

1. Two couplers that both run `callbackCheckHeartBeat` and watch each other.  Beats do
   not depend on the mode of their sender, so that neither can hold the other in
   safe mode; the composition would say so.
2. What of `SoleBeatIsHeard` holds for a coupler that beats itself but whose echo comes
   before the peer's beat in every round.
3. Values of the inputs, with the buffer as a nondeterministic choice.
