# Formal models of fledge-south-hnz

fledge-south-hnz is a Fledge south plugin: it speaks HNZ to one remote station
(RTU, called PA in the code) over one or two TCP paths, hands what it receives to
the north as readings, and sends the RTU commands, date, time and general
interrogations. This directory holds TLA+ models of the plugin's own logic,
translated from `src/src` and `src/include`, the TLC configurations that check
them, and proofs checked by TLAPS.

## 1. Inventory

| Component | State | Operations | Source |
|---|---|---|---|
| Protocol automaton | `m_protocol_state` | `protocolStateTransition` and its table | `hnzpath.h` 523-546, `hnzpath.cpp` 55-105 |
| Paths and active path | `m_connection_state`, `m_active_path`, `m_first_input_connected`, `m_connStatus`, `m_sendInitNexConnection`, quality timer, audits | `requestConnectionState`, `tryActivateOtherPath`, `setConnectionState`, `connect`, `disconnect`, `updateConnectionStatus` | `hnzconnection.cpp`, `hnzpath.cpp`, `hnz.cpp` |
| Transmit window | `m_ns`, `m_NRR`, `m_repeat`, `msg_sent`, `msg_waiting` | `m_sendInfo`, `m_receivedRR`, `m_NRAccepted`, `sendBackInfo`, `m_check_timer`, `discardMessages` | `hnzpath.cpp`, `hnzconnection.cpp` 196-221 |
| Reception | `m_nr`, `m_last_msg_time`, `m_last_connected` | `m_receivedINFO`, `m_sendRR`, `m_receivedSARM`, `m_extract_messages` | `hnzpath.cpp` 393-721 |
| SARM, BULLE and inactivity | `m_nbr_sarm_sent`, times | `m_manageHNZProtocolState` | `hnzpath.cpp` 276-349 |
| General interrogation (GI) | `m_giStatus`, `m_gi_repeat`, `m_giInQueue`, `m_gi_addresses_received`, schedule | `sendGeneralInterrogation`, `notifyGIsent`, `m_check_GI`, `checkGICompleted`, `GICompleted`, `m_handleTSCE`, `m_handleTSCG`, `operation` | `hnzconnection.cpp`, `hnz.cpp` |
| Remote control | `command_sent` | `processCommandOperation`, `sendTCCommand`, `sendTVCCommand`, `receivedCommandACK`, `m_check_command_timer` | `hnz.cpp`, `hnzpath.cpp` 850-907 |
| Start, stop, reconfiguration | `m_is_running` (of the plugin, the connection and each path), `m_should_run`, threads | `HNZ::start`, `stop`, `reconfigure`, `setJsonConfig`, `HNZConnection::stop`, `HNZPath::connect`, `disconnect` | `hnz.cpp` 28-223, `hnzconnection.cpp` 67-106, `hnzpath.cpp` 213-302 |
| Decoding | none of its own | `m_handleTM4`, `m_handleTMN`, `m_handleTSCE`, `m_handleTSCG`, `m_handleATC`, `m_handleATVC`, `m_prepare_reading` | `hnz.cpp` 238-620 |
| Timestamps | `m_daySection` | `m_handleModuloCode`, `m_send_time_setting`, `getEpochMsTimestamp` | `hnz.cpp`, `hnzpath.cpp` 817-840 |
| Configuration | message table, settings, completeness | `importConfigJson`, `importExchangedDataJson`, look-ups | `hnzconf.cpp`, `hnzconf.h` |
| Plugin interface, logging | none of their own | entry points, logs | `plugin.cpp`, `hnzutility.h` |
| libhnz client (external) | TCP connection | `connect_Server`, `receiveFr`, `createAndSendFr` | not in the repository |

**Interaction.** `HNZ` owns the `HNZConnection`, which owns one `HNZPath` per
configured address. One receive thread per path runs `HNZ::receive`: it connects,
reads frames, applies the transitions that SARM and UA cause and handles the
messages. One connection thread per path sends SARM and BULLE and watches the
inactivity. One messages thread watches the repetitions, the commands, the GI and
the quality timer every 100 ms. Fledge threads call `operation`, `reconfigure`
and `stop`. They meet on `m_active_path_mutex` (the connection),
`m_protocol_state_mutex` and `m_connection_state_mutex` (each path),
`m_connexionGiMutex` and `m_configMutex`; but the transition table is consulted
before the locks are taken, and the message queues, the list of commands and the
GI variables are reached without a common lock.

**What is hard.** Transitions looked up in a state that is gone when they are
applied; stopping while receivers connect or apply transitions; the modulo-8
window with repetitions that move frames back into the queue, acknowledgements
that are late or of another numbering; GI requests from four threads while a GI
runs, times out or loses its path; commands whose acknowledgement comes before
their registration or on another path; SARM that are ignored, or that restart one
end only; joins under a mutex that the joined thread needs; dates put together
from two clocks around midnight. `PROJECT.json` lists each hazard at its
line.

**What makes each component correct.** Paths: one active path at most, taken over
by a passive one as soon as it is lost; status, timer, init messages and audits
that follow it. Window: no more frames than the ratio, no message stuck, nothing
delivered twice or acknowledged without being received. Reception: no
acknowledgement of what was not handled, and both ends connected again after any
disturbance. Start and stop: a plugin that was asked to run runs, no thread
outlives what it uses, stop ends. Readings: exactly the configured points that the
RTU stated, with value, validity and date. GI: a GI that is
supervised is reported, its repetitions end, nothing waits for a GI that does not
run. Commands: only what was sent is awaited, and nothing for ever.

## 2. Modules

| Module | Models | Run by | Proofs |
|---|---|---|---|
| `HNZAutomaton` | the transition table and its lookup, used by the next three | - | - |
| `HNZConnection` | paths, active path, threads, stop and restart | `MCHNZConnection` | `HNZConnectionProofs` |
| `HNZWindow` | transmit window of one path, with an external RTU | `MCHNZWindow` | `HNZWindowProofs` |
| `HNZReception` | reception on one path, SARM and UA of both ends | `MCHNZReception` | `HNZReceptionProofs` |
| `ActivePath` | abstract: what the connection promises to the plugin | `MCHNZConnection`, as a property | `HNZConnectionProofs` |
| `HNZLifecycle` | threads, flags, mutexes and joins of start, stop and reconfiguration | `MCHNZLifecycle` | `HNZLifecycleProofs` |
| `GeneralInterrogation` | the GI | `MCGeneralInterrogation` | `GeneralInterrogationProofs` |
| `HNZCommands` | remote control on all paths | `MCHNZCommands` | `HNZCommandsProofs` |
| `HNZConfiguration` | import of the configuration and its tables, as functions | `MCHNZReadings` | `HNZReadingsProofs` |
| `HNZReadings` | from a message and the tables to the readings, end of a GI | `MCHNZReadings` | `HNZReadingsProofs` |
| `HNZTime` | `m_daySection` and the date of a TSCE | `MCHNZTime` | `HNZTimeProofs` |

Variables carry the name of the C++ member they stand for; those that do not
exist in the code (where a thread is, what is in a channel, histories) are
marked in the declarations. Actions carry the name of the method, or say in
their comment which part of which method they are. A definition whose comment
begins with "Bug:" is a plausible error of the code beside the definition it would
replace; no specification uses it. The map in `PROJECT.json` gives the lines each
definition stands for.

**HNZConnection.** A critical section of `m_active_path_mutex` is one step: every
writer of the variables of the module takes it, except for the link variables
and flags, which are separate steps. A receiver that calls
`protocolStateTransition` goes through `find`, `lookup` and `apply`
(`hnzpath.cpp` 57-60, 61 and 65-84), and the state may change between them; the
other callers hold the mutex throughout. `HNZ::stop` is a sequence of steps
(flags, lock, one `disconnect` per path, joins, destruction), and the plugin may be
started again afterwards, with fresh objects. Durations are left out: a timeout may
happen whenever the code tests for it.

**HNZWindow.** The channels are FIFO, bounded, and lose frames (a damaged frame is
dropped by its CRC). The RTU accepts the number it expects, acknowledges it, and
repeats its last RR for a repeated frame; it may send SARM and information frames
at any time. The run starts in state CONNECTED with number 7, so that the
numbers wrap around at once; an earlier history would only shift them.

**ActivePath.** Of the paths that are ready one is active, the first to be; when it
is lost another takes over in the same step, and the north is told
`NOT_CONNECTED` exactly when none can. `HNZConnection` implements it under `ready` =
the paths whose protocol state is CONNECTED, `active` = `m_active_path`, `status` =
`m_connStatus` and `open` = `HNZConnection::m_is_running`.

**HNZReception.** One path whose input and output have been up for some time,
against an RTU with its own window, which repeats its first unacknowledged
frame and sends a SARM when the repetitions run out, when the plugin sends no BULLE
or when it restarts. `pending` is a transition looked up and not applied,
`analysing` a frame that `m_analyze_frame` has let through by a state it read
without a lock. What the plugin itself sends appears as its disturbances
(`Timeout("MAX_SEND")`, invalid NR).

**HNZLifecycle.** Every thread is a program counter, and who holds a mutex follows
from the counters; a step that takes a mutex or joins a thread is enabled only
when it can proceed, so that circular waits are states. The configurations are
told apart by what start() does with them: incomplete, without IP address, without
any TM or TS, complete.

**HNZConfiguration, HNZReadings.** A JSON document is a record whose fields may be
absent or wrong; the import is a function from the two documents to the state of
`HNZConf`. A message is its octets, decoded with the arithmetic of the code; the RTU
encodes what it states (`points`) by the rules of the protocol, and the property
compares the two ends. A reconfiguration imports any other pair of documents;
`stack` and `data` remember which. The loops of the code (over the datapoints, over
the sixteen TS of a TSCG) are recursive functions, so that they can be reasoned
about. `DocumentsAssumption` says what a JSON document can hold: each field is absent,
wrong, or of its type. `GIEndsAtLastTS` has two halves: `EndHasLastTS` (not too early) and
`EndIsRecognised` (not too late). `m_address_PA` and `m_address_ARP` are the octets that
`HNZPath` makes of the station address; `CompleteIsAsConfigured` says that 64 is the only
address accepted that they cannot carry.

**HNZTime.** Time is in minutes, the local time one hour ahead of UTC. The RTU's
clock is slow until the time setting arrives and may then run fast; MODULO, TSCE and
the time setting are on their way for up to `MaxDelay`, and the clock is fast by up to
`MaxAdvance`.

**GeneralInterrogation.** Threads that test `m_giStatus` and send or queue
afterwards are in several steps; the window is abstracted to "full or not" and the
answer of the RTU to a sequence of TSCG frames. `known` remembers what the
north has been told of each TS since the GI began.

**HNZCommands.** One thread per command; the frame of a command keeps the bits
of its address that the code encodes. `terminated` marks the states in which a
thread has used a null `getActivePath()`; nothing is claimed after it (also in
`GeneralInterrogation`).

## 3. Runs

| Run | Shows | Distinct states |
|---|---|---|
| `connection` | eight invariants, one action property, and the refinement of `ActivePath` | 459 k |
| `window` | queues, numbers, delivery, acknowledgement; every message leaves the queues | 524 k |
| `reception` | a RR acknowledges what was handled, SARM are bounded, both ends come together | 586 k |
| `lifecycle` | no thread outlives what it uses, a start that was asked for takes place, stop ends | 92 k |
| `lifecycle_stop` | violation: a reconfiguration joins receivers that wait for its mutex | |
| `gi` | status, bound and end of the repetitions, loss of the path | 243 k |
| `gi_stale` | violation: addresses of an earlier GI complete the next one | |
| `commands` | awaited commands were sent, acknowledged on any path, expire | 86 k |
| `readings` | readings, completeness of the configuration, end of a GI | 16 k |
| `readings_address` | violation: the address 64, accepted as "on 6 bits", becomes station 0 in the frames | |
| `time` | the date of an event, around local and UTC midnight | 398 k |
| `time_local` | violation: a date in local time is 24 hours late after local midnight | |

The violated properties state a comment or a message of the code, quoted with its line in
`PROJECT.json`; TLC's counterexample is an execution of the code that contradicts it.

**What the models show besides.** These behaviours are in the state spaces above; no
run is spent on them.

- A transition looked up before `stop()` may be applied after it
  (`hnzpath.cpp` 61): the stopped plugin then reports a started connection
  until it is freed.
- `connect()` may start the connection thread of a path that `stop()` has just
  disconnected (`hnzpath.cpp` 236). Nothing joins it, and the destructor of a
  joinable thread ends the process (`terminated` in `HNZLifecycle`).
- `stop()` waits for itself in two more ways than `lifecycle_stop` shows:
  `ActivePathCycle` (`hnzconnection.cpp` 88, `hnzpath.cpp` 285) and `ThreadCycle`
  (`hnzpath.cpp` 261). `StopEnds` says that there is no fourth.
- A repetition moves frames back to `msg_waiting` without taking their numbers
  back, so that more frames than the anticipation ratio can be on the way.
- A RR of an older numbering can remove a message that the RTU did not get
  (the plugin restarts its numbers alone after TO_RECV); `AckedInStep` is stated for
  the executions without it.
- A frame is extracted before its number is compared: messages may be handed over
  twice.
- Without any TM or TS in the configuration the quality readings of `start()` throw
  after `m_is_running` is set (`hnz.cpp` 50): the plugin counts as running, without a
  thread, until it is reconfigured.
- A GI request that finds the GI just ended waits in `m_giInQueue` for a later one.
- A command that finds the window full is reported as not sent and sent later.
- With a TM or command address above those of the TS, the end of a GI is not
  recognised (`getLastTSAddress`); `GIEndsAtLastTS` names the condition.
- `setJsonConfig` does not clear `m_gi_addresses_received`. When a reconfiguration
  interrupts a GI whose last address becomes the highest of the new configuration,
  and the first TSCG of the next GI holds no configured TS, that TSCG ends it
  (`hnz.cpp` 285-287). With a frame 49 before 51 and 53 in `TSCGFrames`, TLC finds a
  trace of ten states that violates `EndHasLastTS`.
- The test for INPUT_CONNECTED in `m_handleTSCE` is never true, since the active path
  is CONNECTED: an event that comes before the first time setting has a date.

**Bounds.** `HNZConnection` has no bound: two paths are all the code allows
(`MAXPATHS`), and its state is finite. They are symmetric, since the order in which
`m_paths` is visited only matters when there are three. `HNZWindow`: three
messages and two frames per channel are enough for a full
window, a queue, a repetition, and a late acknowledgement behind a new one; the
settings cover one frame at a time, anticipation without repetition, and both
(`MCHNZWindow`). `OneAnswerAtATime` leaves out two frames on the way from the RTU with
the setting that has both, and once the third message is there: late answers behind
new ones are explored with two messages under the two other settings, for which
delivery is stated. The constraint stands beside a liveness property: it cuts steps of
the RTU and of the senders only, of which no fairness is assumed, so what is checked is
the liveness of the plugin with a slower RTU. The proofs cover every ratio from 1 to 7.
`GeneralInterrogation`: two frames, so that a GI may be answered in part; two
repetitions; `WaitingBound`, `ComingBound` and `ReceivedBound` cut the queue,
the answers on their way and the vector of addresses, which the code does not
bound. `HNZCommands`: three commands, of both types, one of them with an address
beyond its field, on two paths; no other bound. `HNZReception`: the number begins
at 7 and wraps around at the first frame; two messages, so that one can be repeated
behind, or lost before, the other; any two disturbances (`MaxFaults`), one of which
may fall into the recovery from the first; `MaxSarm` = 2, so that the limit is
reached. `HNZLifecycle` has no bound but its two paths: any number of starts and
reconfigurations. `HNZReadings`: each field wrong in turn, 16 patterns that make
every TS differ from its neighbours, extreme and ordinary values for each type of
measurement; `ReceivedBound` cuts the addresses that outlive a reconfiguration.
`HNZTime`: both values of `modulo_use_utc`, steps of five minutes, so that a section
is two of them; `MaxDelay` and `MaxAdvance` = 5 put a frame or the RTU's clock
on the other side of midnight.

**Fairness.** `HNZWindow`: the messages thread reaches `m_check_timer` and the
receive thread its next step, since both are loops that wait on nothing but time
and the socket, whose reading has a timeout. `GeneralInterrogation` and
`HNZCommands`: the messages thread reaches `m_check_GI` and `m_check_command_timer`
every 100 ms. Nothing is assumed of the network, the RTU, Fledge or the order of
locks in these; `RepetitionsEnd` is stated for paths that stay active with room in the
window, because a full window makes `m_check_GI` append uncounted requests.
`CommandsExpire` and `RepetitionsEnd` except executions that end at a null pointer.
`HNZReception`: the receive thread goes on (it is one disjunction: a loop whose
socket has a timeout), the RTU answers, repeats and sends its BULLE as the protocol
demands. `ManageSarm` has strong fairness: its timer runs on while frames come in
and is not put off by a reception that disables it for a moment. Disturbances are
finite (`MaxFaults`): `ComesTogether` is about what follows the last one.
`HNZLifecycle`: each thread runs when it can, a call that Fledge has made goes on;
that Fledge calls anything is not assumed, nor in which order a mutex is granted.

Deadlock is checked everywhere but in `HNZLifecycle`: there the process ends after a
shutdown, and the circular waits of the code stop a part of it.

## 4. Proofs

Every theorem holds for all values of the constants under the named assumptions
(`PathsAssumption`, `WindowAssumption`, `GIAssumption`, `CommandsAssumption`,
`ReceptionAssumption`, `TimeAssumption`, `DocumentsAssumption`, `StationAssumption`), which
TLC evaluates in the runs; they say what the constants are, that the anticipation
ratio is one of 1 to 7, and that the frames of a GI come in the order of their
addresses. Only `DatesAreRight` and `GIEndsWithLastTS` have a hypothesis of their own. TLC has checked each inductive
invariant on small instances before it was proved.

**`HNZConnectionProofs`.** `IInv` adds to the invariants what a receiver holds
between lookup and update (its transition is in the table and, if it leads to
CONNECTED, was looked up in a state that only this receiver leaves towards
CONNECTED), that the connection is stopped with the plugin, and that
`m_first_input_connected` names a path whose input is connected. Without the first part
a stale transition could set states that do not agree. One lemma per step of
`protocolStateTransition` and per operation of the connection; the action property
follows from the same invariant. So does `ConnectionImplementsPromise`: under the
invariant every step of the connection is a step of `ActivePath` or leaves its four
variables alone, one lemma for the update of a transition and one for all other steps.

**`HNZWindowProofs`.** `IInv` joins types, the bound of the window, the state in
which messages may be queued and the numbering of `msg_sent`. It needs to know
that the queues are empty in the states in which nothing may be sent, because
a late UA or SARM reaches CONNECTED and OUTPUT_CONNECTED from there. Sequence
lemmas (append, drop, concatenate) are stated once. `NRTestIsCorrect`: the
cases of `m_isNRValid` are the test m_NRR <= nr <= m_ns modulo 8.

Its second part goes on with both channels. `DeliveredOnceInOrder` is not
inductive: `OrderInv` says that what the RTU has, what is on its way, `msg_sent` and
`msg_waiting` are one sequence in the order of `m_sendInfo`, and that copies of a
message carry one number with no SARM between them, so that the RTU never expects a
copy of what it has. A new message could overtake those that wait, were it not that
a queue that is not empty means a full window (`WaitingMeansFull`); with renumbering
(a ratio above 1 and repetitions) that fails, because a repetition moves all of
`msg_sent` but its first frame back into the queue, and the next new message overtakes them. Hence the condition `NoRenumbering` in the
property. `AckedInStep` takes `StepFacts`: numbers are counted as distances from `m_NRR`
modulo 8, the RTU expects a number of the window and has what is before it, answers
on their way acknowledge no more than that and never go back, and a frame on its way
is either one the RTU has or carries the number of its message in the window. A SARM
of the plugin that is still on its way then changes nothing: the RTU expects 0 already.

**`HNZReceptionProofs`.** Types and the bound on the SARM are inductive once the receive
thread is known to hold entries of the table. `AckedWasHandled` follows the same idea
from the other end (`ReceptionInv`): distances from the first frame that the RTU has
not had acknowledged; a frame the receiver analyses comes before those on their way;
while a SARM is looked up and not yet applied, what counts is the number it will
leave (`Expected`), since the RTU has restarted and the plugin not yet.

**`GeneralInterrogationProofs`.** `IInv` bounds `m_gi_repeat` by a budget: each
thread caught between `m_sendInfo` and `notifyGIsent`, the schedule and the init
messages may add one, and the repetition stops at its limit. With it
the bound of `TypeOK` and `LostPathStopsGI` are inductive.

**`HNZCommandsProofs`.** `IInv` tells from where the thread of a command is whether it
was transmitted, and says that a queued command was refused (its thread is done and
will not register it) and that a command is registered once. The loops of the code over
`command_sent` are recursive functions on the length of the list; that they are well
defined, and what they keep and remove, is proved by induction (`LeastElement`).

**`HNZLifecycleProofs`.** `IInv` relates the positions of all threads to that of the
Fledge thread: where the connection is created, replaced or freed there is no thread
(`CallInv`), what the configuration implies for the connection and the threads
(`ConfigurationInv`), how far a stop has come (`StopInv`), and which connection threads
a stop may have missed (`SpawnInv`): those of paths that it has marked as not running,
where the destructor ends the process (`terminated`).

**`HNZTimeProofs`.** `TimeInv`: the section that the plugin will have when it has handled
the MODULO before an event is the section of the event, and when it has handled all of
them that of the RTU's clock (`SectionsAgree`); no dated event is on its way before the
clock is set (`SettingIsAlone`). Thus the time of day is right for every delay. The day
needs more: the correction around midnight looks at one section before it and one
after, so `DatesAreRight` assumes for `modulo_use_utc` (`DelaysAssumption`)
that a frame is on its way for five minutes at most, since a late setting makes the
clock slow and a late event adds to it, and that the clock is fast by ten minutes at most. Both bounds are sharp: TLC
finds an event with the date of another day when the delay is 6 or the advance 11.

**`HNZReadingsProofs`.** The documents are arbitrary. The import of the datapoints and the
loop over a TSCG are functions defined by recursion; that they are defined for every
length, and what they leave in the tables, is proved by induction on the natural numbers
(`UpTo`): the keys are exactly the mentions of the documents read so far, each with the
label of the last one, and `lastTSAddr` is the greatest address
(`ImportFacts`, `LabelsAreConfigured`). One lemma per encoding says that decoding
an octet of the RTU gives back value, sign and validity (`TSCGIsDecoded`, `TSCEIsDecoded`,
`TM4IsDecoded`, ... ): bits, ones' and two's complement for all values, not for patterns.
`BaseInv` joins them: a message on its way decodes to its points, the tables are those of
the imported documents, and what was read are the labelled points.

The end of a GI takes the order of the frames. `AskedInv`: while a GI runs, the frame
that holds the last address is still to be sent or to be handled; hence
`EndIsNotMissed`, without a hypothesis. `GIInv` is about the opposite error: the frames left
are a suffix of `TSAddresses`, and addresses received that end with the last one
can only be those of an earlier configuration, until the first frame hides them.
It hides them only if it adds an address of its own: this is `FirstFrameIsConfigured`,
the hypothesis of `GIEndsWithLastTS`. The code does not ensure it (section 3 has the
counterexample); in the run `readings`, which checks `GIEndsAtLastTS` itself, it is true.

**Only model-checked.** The liveness properties (`EveryMessageLeaves`, `RepetitionsEnd`,
`CommandsExpire`, `ComesTogether`, `StopEnds`): liveness under fairness and ENABLED
are out of the prover's reach. Every invariant and every action property of the passing
runs, and the refinement of `ActivePath`, is a theorem.

## 5. Not modelled

Logs; the layout of data objects and of the south event; JSON text, and the
conversion of the numbers and hexadecimal digits in it; the split of a frame into
messages by their lengths (`m_extract_messages`); the date setting, which the plugin
does not use itself; registration of the callback and `plugin_info`; libhnz, which is
not in the repository. Data races proper (two unlocked accesses at the same instant)
are outside the models: each module says at its head which accesses it takes as not
overlapping. Durations are order, not numbers: a timeout may happen whenever the
code tests for it. Waiting for locks and joins is in `HNZLifecycle` only, which in
return leaves out the protocol states. One remote station address is assumed,
as the code has.

## 6. State of the work

All modules of the table above are written and checked, and every safety property and
action property of the passing runs is proved. What could be added: an abstract link per
direction (messages accepted, delivered or dropped in order) that `HNZWindow` without
renumbering implements, and the split of a frame into messages
(`m_extract_messages`).
