# A verification project for hyy_controller

TLA+ models of the controller's own logic, checked with TLC and, for the results
that matter most, proved with TLAPS. Paths are relative to the repository; `PROJECT.json`
names for every definition the lines it translates.

## The system

The repository builds a plugin for a robot controller (`libJEServer.so`) and a test
program; the other programs are plugins and demonstrations over the same SDK
(`HYYRobotBase`, headers only). The plugin takes orders from a remote client over
ZeroMQ, moves the robots through the SDK, drives an end effector per robot (a serial
hand, a DH gripper on Modbus RTU, a Piper gripper on CAN), and publishes their state.

### Inventory

| Component | State | Operations | Talks to | Hard behaviour | Correct when |
|---|---|---|---|---|---|
| `JEServer.cpp` | socket options, `is_stop`, the recorder threads, the JSON object of the publisher | `PluginMain`, `subscriber_loop` (Switch, Joint, Cartesian, MoveA, MoveL, Gripper), `publisher_loop`, `save_data` | ZeroMQ pipe, SDK, end effector manager | detached threads, a pause as synchronisation, one blocking subscriber, exceptions nobody catches, option order | one recorder at a time; the last order about each robot and tool is obeyed; reports follow the robots |
| `piper/gripper_client.cpp`, `can_socket.cpp`, `fps_counter.cpp` | three atomics, four thread objects, the socket, the configuration, the last feedback, the rate window | `Start`, `Stop`, setters, `GripperCtrl`, getters; the reader, monitor and FPS loops | CAN interface, the Piper slot | start/stop races, a start that fails half way, blocking reads, separate locks, `abs(INT32_MIN)` | `Stop` leaves nothing behind and returns; the health flag follows the bus; limits hold after a setter |
| `end_effector_device.cpp` | `last_reinit_ms_`, serial port | presets, positions, `Reinit` | serial port, serial slot | lock-free cool-down, spurious CAS failures, checksums | executions are spaced, no needless refusal; the hand takes the frame for the command |
| `robot_control.cpp` | command queue, control mode, the loop's clock and batch | `SetMessageData`, `GetMessageData`, `ClearMessageData`, `SetControlMode`, `LoopControl`, `is_run`, `move` | SDK (`MultiMove*`, `MoveSyncStart`), a client thread | modes changed between checks, unlocked read, refused motions, faults | order kept; bounded motion after stop or pause; stop settles |
| `end_effector_manager.cpp`, `end_effector_slot.cpp` | slots, ready flags, last positions and angles | `LoadAndInit`, dispatch, `AcceptCommand`, state | JEServer, the device classes | a slot failing after others have started, polling, stale positions, partial writes | all or nothing at initialisation; what is reported was measured or written |
| `dh_modbus_rtu.cpp`, `dh_modbus_gripper.cpp` | the port's input | register read and write with retries | transport | late, partial, damaged and lost replies | a value read answers the request sent |
| `dh_transport.cpp`, `dh_device.cpp` | descriptor, rate, VMIN | open, close, write, read | kernel | steps that fail half way, partial writes, interrupted `select` | no descriptor lost or another's closed; every byte once; calls return |
| `piper/internal/protocol_codec.cpp`, `inspire.cpp` | none | encode, decode, register frames | gripper client, CAN | widths, signs, byte order, identifiers | decode inverts encode; the frame reaches the register |
| `BscanServer.cpp` | `server_state_`, `input_feedback`, points, threads by event slot | the event loop, `cmd_server`, `feedback_server`, `state_server` | clients, SDK with force control | three kinds of threads, joins, one client served at a time, edge-triggered events | one measurement at a time; every point visited; refusals reported; leaving frees the server |
| `SUPCONPlugin.cpp`, `JSMovePlugin.cpp` | `isstop`, `isshow`, the show thread | message handler, show loop | TCP client, SDK | flags set by two threads, stop and recovery under a running show | a stopped show does not move again and ends |
| `game.cpp`, `RemoteContol.cpp` | current direction, recovery pose | remote control loop | TCP peer, SDK | silence, garbage, faults at any time | the newest command counts; silence stops; the constraint is on in motion |
| `JoystickDemo.cpp` | `IsRunMoveOut`, outputs | joystick loop, fetching thread | joystick, SDK | plain flag between threads, pulses in order | a fetch is undisturbed; outputs exclusive |
| `TeachComm.cpp` | schedule position, two flags | scripted client and its receiver thread | controller | interrupted sends, join of a blocked receiver | script kept; nothing left moving; it ends |
| `JEEndEffectorTest.cpp` | mailbox, joints, tools, report time | receive, publish | ZeroMQ | conflation, timeouts, signals | the newest message is obeyed in full; it reports on and ends |
| `piano_server.cpp` | a score | queues it and runs the control loop | `robot_control` | commands written for one moment queued one by one | played together, as written |

## How the modules are laid out

One module per component, with its state as variables and one action per step between
two accesses of shared state. `CONSTANTS` carry the data, named assumptions what the
code requires of it. Operators commented "Mutant" are plausible bugs of the definition
that follows them; no specification uses them. They show that a property can fail: with
the mutant in place of the definition TLC finds the property violated.

| Module | Models | Proofs |
|---|---|---|
| `GripperClient` | the Piper client and its three worker threads | `GripperClient_proofs` |
| `ClientLifecycle`, `GripperRefinement` | what the owner of the client relies on, and the mapping | `GripperClient_proofs` |
| `PiperSlot` | the Piper slot's commands and reports, `GripperCtrl`, `GetArmGripperMsgs` | `EndEffectors_proofs` |
| `PiperCodec` | the CAN frames as bytes | `EndEffectors_proofs` |
| `EndEffectorManager` | `LoadAndInit` with the `Init` of every kind of slot | `EndEffectors_proofs` |
| `ReinitCooldown` | the compare-exchange loop of preset 99 | `EndEffectors_proofs` |
| `SerialSlot` | the serial slot, its frames and the hand that parses them | `EndEffectors_proofs` |
| `InspireHand` | the register writes to the hands | `EndEffectors_proofs` |
| `DhSlot` | the DH slot's command on the gripper's registers | `Devices_proofs` |
| `RegisterAccess` | abstract: a register access that takes effect while it runs | |
| `ModbusRtu` | requests, retries and replies over a faulty serial line | `ModbusRtu_proofs` |
| `Crc16` | the table-driven CRC against its bitwise definition | `EndEffectors_proofs` |
| `DeviceTransport` | the serial and TCP transports on the kernel's descriptors | `Devices_proofs` |
| `LoopControl` | `RobotControl::LoopControl` and `MessageServer` | `LoopControl_proofs` |
| `PianoServer` | the piano program, composed with `LoopControl` | `LoopControl_proofs` |
| `JEServer` | the plugin: setup, subscriber, recorders, publisher | `JEServer_proofs` |
| `BscanServer` | event loop, command loop, feedback threads and measuring thread | `Servers_proofs` |
| `ShowPlugin` | the handler and the show threads | `Servers_proofs` |
| `Teleop`, `Joystick`, `TeachClient`, `EndEffectorTest` | the programs around the controller | `Programs_proofs` |
| `EndEffectors`, `Devices`, `Servers`, `Programs` | the compositions below | their own |

How they rest on each other:

- `GripperClient` implements `ClientLifecycle` (`ImplementsLifecycle`), which is what
  `EndEffectorManager` assumes of a Piper slot's `Start`.
- `ModbusRtu` implements `RegisterAccess` as long as no reply is late
  (`CalmAccess`, and `RefinesAccess` for a line that never is). `DhSlot` instantiates
  `RegisterAccess` for its writes, `EndEffectorManager` assumes it for its reads.
- `PianoServer` extends `LoopControl`: the same loop, another client.
- Crossing into `RegisterAccess`, the DH slot inherits the assumption that replies
  come in time. What happens otherwise is under "Other disagreements" below.

`EndEffectors`, `Devices`, `Servers` and `Programs` each put several components into one
specification; the theorems about those components speak of it, and the MC module of the
same name gives its constants values. `MCLoopClients` puts the two clients of
the loop into one run. The components in such a specification share no state: the initial
state chooses the one a behaviour is about (`subject`, `layer`, `program`, `part`,
`line`), and the others stand still in their initial states. The state space is the sum
of theirs, not the product, and a property that conjoins theirs says exactly what each
says alone. Fairness is stated for the part in hand, so that a part that stands still is
not asked to move.

## The models

### GripperClient

The caller walks through `Start` (`StartCall`, `OpenSocket`, `ResetHealth`, `StartFps`,
`SetRunning`, `SpawnReader`, `SpawnMonitor`, `Connect`), its catch block (`FailRun`,
`StopFps`, `JoinFps`, `FailClose`) and `Stop` (`StopRun` to `StopClose`). A thread
variable is the C++ thread object together with its program counter, so "returned but
not joined" and "not joinable" differ: assigning to a joinable thread ends the process
(`Terminated`). A frame is the angle it carries; the FPS counters are reduced to whether
a frame came since the last tick and whether the rate is above zero. `ctl` stands for
one calling thread: `Start` and `Stop` take no lock, and their one caller in `src/`, the
Piper slot, calls them from its initialisation and destruction only.

`ClientLifecycle` sees of all this the phase of the client and whether it holds
anything: stopped, starting, serving, broken, stopping. A broken client (a `Start` that
failed half way) may hold threads, and only `Stop` is sure to bring it back.

### End effectors

`EndEffectorManager` builds and starts the slots of a configuration one after another;
any step of any of them may fail, and destructors give back what it took. The DH slot
polls its gripper at most `MaxTry` times. `PiperSlot` separates the three accesses of a
command (send, store, read back) because the gripper's feedback arrives between them.
`ReinitCooldown` has any number of threads; the clock is read before the loop, and
`Retry` is always possible at the exchange because `compare_exchange_weak` may fail
spuriously. `SerialSlot`, `PiperCodec`, `InspireHand` and `Crc16` are operators on bytes
with their widths, each checked against a receiver or a reference definition of its own:
the hand's parser, two's complement, the register numbers, the bitwise CRC.

### DH gripper

`DhSlot` makes up to four register writes per command, each of which may fail with or
without effect. `ModbusRtu` is a master with retries and a slave on a line that loses
requests and damages, splits and delays replies; nothing ever empties the port's input.
A byte is the frame it belongs to and its place in it, which is what the CRC tells
apart (that it does is `Crc16`'s part). `calm` is true from an opening with an empty
line until a reply is late or split. `DeviceTransport` opens a descriptor in steps that
may each fail, next to another part of the process that opens descriptors of its own.

### LoopControl and PianoServer

The calls of `MessageServer` are atomic because of its mutex; every read of the mode,
of the queue and of the robot is a step of its own. `Move` issues the calls of `Calls`
in order until one that is looked at is refused: in the `_both_j` and `_robot_j`
commands the result of the left arm is overwritten by the next call's. The groups of
accepted calls are `armed` until the next `MoveSyncStart`. Times are counted in control
cycles; `time_` is capped at `MaxTime`, the largest time a command can have, beyond
which `time_ >= time_ns` no longer changes. `late`, `done` and `stopped` are history
variables. The piano program queues its score before it runs the loop in its own
thread; one cycle of the model's loop stands for a second of the score.

### JEServer

`PluginMain` connects the socket before it sets `conflate`, and the model of the pipe
reads the option at `Connect`, as ZeroMQ does. The robots are represented by what was
last asked of them (`asked`, `target`, `tool`); results are ignored as in the code.
`want...` are history variables that say what the messages that arrived ask for. A
malformed message ends the process (`dead`).

### BscanServer and ShowPlugin

`BscanServer` keeps the arrays of the event loop by place: feedback threads belong to
the place of an event in its batch, which is how the code indexes them. Assumed: a
command is received whole, and the 2 ms after a start are enough for the new thread to
take its points. `ShowPlugin` has one thread per show command; `settled` says that the
latest stop found no show, or one that was running: a stop that comes before the new
thread has lowered `isstop` is overtaken, which the code allows, so `HandlerAlone` and
`StopIsObeyed` are claimed of settled stops. `JSMovePlugin.cpp` is the same program
with buttons for commands and other poses.

### Programs

`Teleop` covers `game.cpp` and `RemoteContol.cpp`, which differ in where a recovery
goes; `DeviceStopRun` is complete when it returns. `TeachClient` follows the schedule of
`TeachComm.cpp` second by second. `Joystick` steps through a fetch and its output
pulses. `EndEffectorTest` sets its options before it connects, unlike `JEServer`.

## Runs

| Run | Instance and bounds | What it shows |
|---|---|---|
| `client_lifecycle` | window of 2 samples, default configuration, every start failure, bus up, silent, down | types, what `Start` and `Stop` leave behind, who can abort, `Stop` returns, the health flag follows the bus, refinement of `ClientLifecycle` |
| `client_limits` | four angles (in range, above, beyond the filter, INT32_MIN), all switches, two ranges | `RangeConverges`; the constraint `Undisturbed` leaves failing starts and receive errors to the other run |
| `loop_safety` | 3 commands of 4 types at 2 times, every mode change | order, late batches, empty batches, one clearing per stop |
| `loop_clients` | 2 commands of known and unknown types from any client; the piano's whole score, 13 commands to second 28 | batches are moved, a stop settles, a fault ends the loop, the score is played as written |
| `server_orders` | 2 robots, 3 messages of every kind, pipe of 2 | `OneRecorder`, `CaughtUp` |
| `server_progress` | 2 robots, 2 messages, pipe of 1 | recording, publishing and the mailbox settle |
| `server_conflate` | 1 robot, 2 messages | a violation, see Findings |
| `end_effectors` | 3 threads, cool-down 2, clock to 3; 2 robots, all configurations of up to 3 slots, 2 polls; 4 angles; bytes and words at their edges; every byte of the CRC table | `ClaimsSpaced`, `AllOrNothing`, `CommandsKept`, `DamageSeen`, `CallsEnd` |
| `devices` | every command of the slot with positions below and above the range; all faults of the line, 2 tries, 3 stale bytes; both serial profiles and TCP, writes of 3 bytes, 3 descriptors | `RepliesSound`, `ReportHolds`, `CalmAccess`, `TransportSafe`, `EveryCallEnds` |
| `servers` | 3 show commands at any moment, with faults; one client with 5 commands, two clients with 2 | `ShowsYield`, `MeasurementsWhole`, `ServersServe` |
| `programs` | 3 directions, every input, faults at any time; the whole teach script with 2 lost commands; 3 fetches; 2 messages for 2 robots | `NewestCounts`, `ScriptsKept`, `ProgramsEnd` |
| `teleop_recovery` | the same programs | a violation, see Findings |

Bounds. `MaxPush`, `MaxMessages`, `MaxCommands` and the clocks cap how much the
environment does. Two robots are enough for one robot's round to disturb the other's
recorder; three commands are enough for one batch at hand, one waiting and one arriving
late; a pipe of one or two messages stands for ZeroMQ's default of 1000. A cool-down of
two and a clock to three allow two executions and readings that are stale by up to the
whole cool-down. Two tries are one retry, whose late predecessor can answer it; three
stale bytes are one echo left over. Two slots of three kinds that can fail put a failure
before, between and after others that started. Five commands measure four points, the
smallest scan that visits every kind of point (`VisitsEach`), and start it. Frames take
a byte of four values: two bits are enough to tell a sign from a carry and one byte from
the next; the serial slot's positions are its real ones where rounding decides.

### The properties that conjoin

| Property | Parts |
|---|---|
| `CommandsKept` | `ReinitCooldown`: `NoIdleDrop`; `PiperSlot`: `KeepsTarget`, `TargetKnown`, `PositionIsMeasured`; `PiperCodec`: `EncodeIsExact`, `DecodeIsExact`; `SerialSlot`: `AllUnderstood`, `PositionArrives`, `PresetsDiffer`; `InspireHand`: `FingersReached` |
| `DamageSeen` | `Crc16`: `TableIsPolynomial`, `DamageDetected` |
| `CallsEnd` | `ReinitCooldown`: `CallsReturn`; `EndEffectorManager`: `LoadReturns`; `PiperSlot`: `PollingReports` |
| `TransportSafe` | `NoDescriptorLost`, `ReadyIsConfigured`, `WrittenWhole`, `NeverClosesOthers` |
| `EveryCallEnds` | `ModbusRtu`: `CallsEnd`; `DeviceTransport`: `CallsReturn` |
| `MeasurementsWhole` | one client: `OneMeasurement`, `StopMeansIdle`, `VisitsEach`; two: `OneMeasurement`, `VisitsEach` |
| `ServersServe` | `StopIsObeyed`; one client: `RefusalReported`, `CommandsServed`; two: `LeavingFreesServer` |
| `NewestCounts` | `Teleop`: `StoppedBetween`, `ObeysLast`, `ConstrainedMotion`, `SilenceStops`; `EndEffectorTest`: `OnlyNewest`, `NewestObeyed` |
| `ScriptsKept` | `TeachClient`: `ScriptKept`, `LeftSafe`, `ClosedUnread`; `Joystick`: `FetchBlocks`, `OutputsExclusive`, `OpenBetween` |
| `ProgramsEnd` | `LostLinkEnds`, `ClientEnds`, `FetchReturns`, `SignalEnds`, `ReportsCatchUp` |
| `PlayedAsWritten` | `PlayedTogether`, `ScorePlayed` |

### Fairness

Threads are scheduled by the operating system: weak fairness for each of them. Callers,
clients, peers, the CAN bus and the serial line owe nothing. Motions end (`MoveEnds`,
the subscriber's `MotionEnds`, the motions within `Measure`, `Show` and `MoveOut`), which is what the SDK promises of
a motion it started. A request on the line is processed by the slave or lost. The
transport's `select` ends after its timeout. `PollingReports` needs that the gripper
moves and sends feedback. `ReinitCooldown` needs strong fairness of `Claim`: a weak
compare-exchange that could succeed again and again does not fail for ever.

`OneRecorder` needs that a recorder, whose cycle is one tick of the controller, looks
at `is_stop` within the subscriber's 100 ms pause (`PollsInTime`). Nothing in the code
enforces it; without it two recorders can run at once.

Deadlock is checked wherever the system runs for ever. The runs that compose components
whose calls, scripts or programs come to an end turn it off; their liveness properties
say what must be reached instead.

## Findings

`JEServer.cpp:456` says that only the last message is kept. The option is set after
the socket is connected, so the connection does not have it, and `server_conflate`
shows two messages waiting. The queue is what makes `CaughtUp` hold: with the option in
force a Switch can be overwritten by the setpoint behind it (the mutant
`ConnectConflating`).

`RemoteContol.cpp:137` recovers to `joint`, which is declared without a value at line
109 and set only after a command was handled without a fault. `teleop_recovery` shows a
fault at the first frame and the motion to an uninitialised joint vector, with the
spatial constraint off.

### Other disagreements

Met while modelling, and represented in the models, without a run of their own:

- A Modbus reply that comes after the read's timeout stays in the port's input and
  answers the next read, of another register (`dh_modbus_rtu.cpp:71`). `RepliesSound`
  says what an answer is worth all the same, `CalmAccess` when it is exact.
- The DH slot writes positions modulo 2^16 and does not enforce the 0..1000 of
  `dh_modbus_gripper.h:40`. `ReportHolds` compares modulo 2^16.
- `BscanServer.cpp:711` joins the feedback thread at the place of the event in this
  batch, not the thread of the client that left; `LeavingFreesServer` holds nevertheless.
- The "concurrent server" of `BscanServer.cpp:35` serves one client until it leaves;
  `CommandsServed` is stated of a client that is alone.

### Hazards without a property

What the code does and no document forbids, or what the models leave out:

- `BscanServer.cpp`: of two connections that come with one event the second waits for a
  third (685, modelled); a pause when nothing is measured makes a later start be refused
  (125, modelled); `state_server` converts its angles in place and reads them without
  the lock (225, 230, floating point); two commands in one segment are read as one (56).
- `robot_control.cpp:328`: a refused call ends a batch after earlier calls were
  accepted; they stay armed and start with the next batch (modelled).
- `SUPCONPlugin.cpp:72`: a power-off and a power-on let the show go on by itself;
  `JSMovePlugin.cpp:116`: `home` arms motions that the next command starts.
- `end_effector_slot.cpp:809`: two millisecond settings are used as VTIME and VMIN.
- `game.cpp:161`: frames queued during a recovery are handled when it ends.
- `JoystickDemo.cpp:106, 138`: a fetch starts where the robot passes; a thread that
  cannot be created leaves the joystick dead. `JETestV2.cpp:121` reads past its fields.

## Proofs

TLAPS checks all of them for every value of the constants that meets the named
assumptions. Every safety property of the passing runs has a theorem.

- `GripperClient_proofs`. `TypeCorrect`, from the assumptions on the configurations,
  one lemma per part of the type invariant. `LifecycleCorrect` proves an invariant
  that ties the caller's position to what the workers may be doing; none of the
  four lifecycle properties is inductive, since each speaks of the caller at rest.
  `StopIsClean`, `StartedIsServed`, `AbortIsExplained` and `SocketIsOwned` follow.
  `PublishedAngleConverges` has its own invariant on the frame in flight: between the
  limit step, the filter step and the store, the angle obeys the current configuration
  unless a setter came in between, in which case nothing was published since.
  `RefinesLifecycle`: every step of the client is a step of `ClientLifecycle` or a
  stutter. It needs `Lifecycle` and one invariant more, on what a failed start can
  still hold.
- `EndEffectors_proofs`. `CooldownHolds`, from the invariant that the last claim is what
  `last_reinit_ms_` holds and that a thread about to exchange has tested the value it
  expects; `IgnoredInCooldown` adds what a thread may have read since (`IgnoreInv`).
  `LoadIsAtomic`, for any number of slots and any kinds: the slots before the one in
  hand are served, nothing behind it is held, and a destructor unwinds from it to none.
  `CommandsAreKept` joins an invariant for each of the parts. The Piper slot's
  (`SlotInv`) says what it knows at each point between its store and the message that
  comes back. The rest is arithmetic: the bytes of a Piper frame are the digits of two's
  complement (`BytesAreDigits`, `AngleIsRead`), from Euclid's division alone and so for
  any base; the checksum of a serial frame adds its bytes up whatever their number
  (`ChecksumAddsUp`), every command sends a frame that tells its own length
  (`SentReadable`), and so a hand that reads byte by byte is always in the middle of one
  (`SerialInv`, `ReadOne`); the identifier of an Inspire frame keeps its fields although
  its text drops zeros, because the address has eleven bits (`Identifier`, `FrameTaken`).
  `DamageIsSeen` is about the CRC. No prover here knows bits, and the community module
  for them is recursive, so a word is sixteen digits and the exclusive or the sum of the
  weights where they differ (`Xor`); words with the same bits are equal (`SameBits`). A
  step of the polynomial loses nothing, since the highest bit of its result says which
  way it went (`ShiftInjective`), so two different bytes give two different sums and
  two different sums stay different under the same byte (`UpdateTells`). Each
  of the 256 entries is eight such steps of its index (`TableIsEightShifts`), and the
  low byte that looks the entry up and the high byte that is shifted past it do not
  meet (`UpdateIsByBits`). The invariant `CrcInv` says that the sum is the reference's
  and that the two sums differ exactly when a byte was damaged. `ModbusRtu` relies on
  this when it tells a damaged byte from a whole one.
- `ModbusRtu_proofs`. `CalmAnswersExact`: while the line is calm the port's input, the
  wire and the request are tied together, so an accepted frame is the reply to this
  request. `CalmRefinesAccess` turns that into the refinement step by step, under any
  faults; `RefinesAccess` is its consequence for a line without late or split replies.
  `AnswersReal` follows each byte: a frame in the input carries a value that some
  register has held. `RepliesAreSound` joins the two.
- `Devices_proofs`. `PositionIsKept`: a register write that is under way is the first of
  those the command still has to make, and once it has had its effect the register holds
  it, whether or not the answer says so (`PendingInv`, `PositionInv`). `TransportIsSafe`:
  what is open is what the transport holds or what the rest of the process opened, and
  never both (`DescriptorInv`); what was written is the beginning of the frame
  (`WriteInv`).
- `LoopControl_proofs`. `OneLateBatch` says where the loop can be once it has moved a
  batch under a stop or a pause; `StopClearsOnce` that it is about to clear only under
  a stop it has not obeyed. `OrderKept` and `BatchHasCommand` share an invariant on the
  queue and the batch at hand; `TakeSplits` says what taking a batch does to the
  numbering. `TypeCorrect` uses it for the clock, which is set from a batch.
  `PianoIsAClient`: every step of the piano program is a step of the loop with its
  arbitrary client, so all of this holds of the program. `ScoreTogether` needs that the
  score is queued before the loop runs and that the queue is cut only where the time
  changes (`PianoInv`, `TakeCuts`).
- `JEServer_proofs`. `RecordersSerial`, under `PollsInTime`: in the pause every
  recorder that has looked has ended, so none is left when the next one is started.
  `OrdersKept`: what a robot was last asked, followed by the orders still in the message
  in hand, in the mailbox and in the pipe, is what the messages that arrived ask for
  (`OrdersInv`); while a message is handled, the robots already served differ from the
  others by it alone (`AlikeInv`); and no message is lost because the connection was made
  before `conflate` was set (`SetupInv`). `TypeCorrect` bounds the subscriber's place in
  a message.
- `Servers_proofs`. `ShowYields`, for any number of commands: a settled stop leaves
  the handler waiting for the one show it found, the robot's stop stands while it waits,
  and a show that was asked to stop lives only as long as it is waited for. `NumberInv`
  (shows are numbered by their commands) keeps a new show apart from those.
  `MeasurementsAreWhole`: the points visited are those before the measuring thread's place
  (`MeasureInv`; `ScanVisits` says that the points of a scan are each visited once). A
  client that is alone has at most one feedback thread that has yet to reset the state,
  and none does once a measurement is started, so a state of stop means that none runs
  (`AloneInv`).
- `Programs_proofs`. `NewestIsObeyed`: between two receives the robot does what the last
  command said or stands after a fault (`FollowInv`, `FreshInv`); the test program's
  mailbox holds the newest message (`MailInv`). `ScriptsAreKept`: what the controller has
  received is what was due, in order, without what was lost (`DueInv`, `SentInv`); the
  claw is open whenever the rest of a fetch no longer opens it (`GripInv`).

Only model-checked: all liveness properties, and with them `ScorePlayed`, the liveness
half of `PlayedAsWritten`: the prover does not reason about fairness.

## Not modelled

- The arithmetic of `BscanServer.cpp` on rotations (`tr2rpy`, `rpy2tr`) and every other
  floating-point value: joint vectors, poses, speeds. Nothing in the control depends on
  them except through comparisons that the models keep.
- `JETest.cpp`, `JETestV2.cpp`: scripted test clients; they replay a file or a list of
  messages, and no answer changes what they do.
- `SubwayPlugin.cpp`, `ExternalPlugin.cpp`, `TeachDemo.cpp`, `io_teach.cpp`: one SDK
  call per message or input, no state between them.
- `MoveDemo`, `MultiMoveDemo`, `ServoDemo`, `EGMDemo`, `EgmDemoExternal`,
  `EgmGuideDemoExternal`, `ForceControlDemo`, `SocketDemo`, `ThreeRobot`,
  `PluginTemplate`: linear scripts over the SDK.
- `scripts/`: offline plotting.
- `include/nlohmann` is a vendored library, `include/Base`, `include/Move`,
  `include/DeviceDriver` and `lib/` are the SDK: declarations without code here. They
  are most of the repository's lines; what the code in `src/` asks of them is
  represented where it is asked. Of the 24 files that hold the logic above, the models
  stand for about three fifths of the lines; what is left there is printing, parsing of
  configuration text and constant poses.
- Printing, JSON field names and logging, everywhere. The feedback thread of
  `MessageServer` changes no state. `ClearRobotError` and `RobotStopRecover` in
  `JEServer.cpp` have no effect on what the properties speak of.

## What is left

Models: the backlog of frames behind a recovery in `Teleop`, and several connections per
event in `BscanServer` as a property. Proofs: the steps that make progress (a step that
is due stays due until it is taken) could be proved as lemmas under the liveness
properties, although those themselves cannot.
