# A verification of odrive_ros2_control

TLA+ models of the ROS 2 hardware component that drives ODrive motor controllers over
USB, the TLC configurations that check them on small instances, and TLAPS proofs for
every number of joints and every range of values. Everything is translated from the C++ sources under
`src/odrive_hardware_interface/`; where the documentation says something else, the code
is what is modelled. `HW` below is
`src/odrive_hardware_interface/src/odrive_hardware_interface.cpp`.

    tlc -config HardwareSafety.cfg ODriveHardwareInterface.tla     # likewise for every run
    tlapm HardwareProofs.tla          # and AsyncProofs, SignalsProofs, StartupProofs,
                                      # DiagnosticsProofs, ErrorProofs, AxisProofs, UsbProofs

## The system and its parts

The controller manager of ros2_control loads `ODriveHardwareInterface` as a plugin. Its
real-time loop calls, in every period and for an inactive as well as an active component,
`read()`, the update of the controllers (in which a prepared mode switch is performed) and
`write()`. A service thread calls the lifecycle callbacks and
`prepare_command_mode_switch()`. The component talks to the drives through an
`ODriveTransport`; every parameter it reads or writes is one request and one response
packet on a bulk endpoint.

| Part | State | Operations | Meets |
|---|---|---|---|
| **Hardware component** (`HW`, `odrive_hardware_interface.hpp`) | `transport_`, `outputs_enabled_`; per joint the state and command interfaces, `control_level`, `joint_claimed_`, `idle_requested_on_fault_`, `last_sent_command_sequence_` | `on_activate`, `on_deactivate`, `on_cleanup`, `recover`, `prepare_`/`perform_command_mode_switch`, `read`, `write` | two threads, serialised by the framework and by `state_mutex_`; the transport; the drives |
| **Asynchronous I/O** (`HW` 2286-2891) | worker thread, `async_io_stop_`, `_request_pending_`, `_in_flight_`, two snapshots, the worker's memory of what it sent | start, stop and join, one cycle; `read()` and `write()` become copies | mutex, condition variable, the two threads above |
| **Axis control** (`axis_control.cpp`) | none of its own: it orders the requests to one axis | `perform_axis_mode_switch`, `write_axis_command` | the drive's mode, inputs, watchdog |
| **Signal path** (`HW` 1773-1955, 2022-2259; `command_validation.cpp`) | per joint `position`, `last_valid_position`, `command_position`, `last_command_position` | feedback validation, hold, inversion, priming, rate limit, range validation, fallback | encoder samples, the controllers, the drive |
| **USB transport** (`odrive_usb.cpp`) | `odrive_map_`, `sequence_number_`, `sticky_error_` | `initialize` (scan, match), `endpointOperation`, destructor | devices that answer late or never, or vanish |
| **Telemetry, error monitoring** (`axis_telemetry.cpp`, `error_monitoring.cpp`, `HW` 1899-1928) | the registers last logged | read one axis, log a change, decode the bits | `read()` with synchronous I/O |
| **Transport retry** (`transport_error.hpp`, `HW` 148-225) | counters | classify a status code, retry a transfer | `initialize_transport()` only |
| **Health and diagnostics** (`HW` 744-833, 1278-1580) | `transport_log_state_`, time of the last update | log a loss and a recovery, collect a status per drive, sensor and joint | `state_mutex_`, both I/O modes |
| **Configuration and set-up** (`odrive_configuration.cpp`, `config_validator.hpp`, `HW` 321-742) | the parsed configuration | parse and validate in `on_init`; open, find, configure in `initialize_transport()` | the transport, the drives |

The **drives** are outside the repository. What the models say of them is what the code
and its tests rely on: an axis is idle or in closed loop, refuses closed loop while an
error is latched, stops and latches an error when its enabled watchdog was not fed, and
carries out each request at once. A request that is not acknowledged was carried out or
was not.

### What is hard, and what makes each part correct

* **Two threads, one transport.** `on_deactivate` runs while the control loop is in the
  middle of `read()` or `write()`; both dereference `transport_` after one null check.
  Correct: nobody resets it meanwhile, on any interleaving.
* **A gate that is read once.** `write()` looks at `outputs_enabled_` at its start and then
  serves every joint; the service thread closes the gate in between. Correct: no feed or
  setpoint reaches a drive whose component is not active any more.
* **Watchdogs.** Claiming a joint arms its watchdog, unclaiming and activation disarm it,
  any of the requests may fail. Correct: an axis in closed loop is armed, and an armed axis
  that nobody feeds stops, wherever the host hangs or dies.
* **Faults.** A faulted axis is masked, and asked to stop once per fault. Correct: no
  command goes to an axis known to be faulted; a fault does lead to an IDLE request.
* **Lost transport.** A fail-fast status drops the transport in the middle of the loops.
  Correct: every joint is reported unhealthy afterwards.
* **A worker that must be stopped around everything.** The mode switch and the lifecycle
  callbacks use the transport without a lock, after stopping and joining the worker.
  Correct: never two users; no worker left behind; stop always returns; a command sequence
  is sent once; a worker that hangs is noticed.
* **Order of the requests to one axis**, any of which may fail. Correct: closed loop is
  entered only with every input primed; half a command does not feed the watchdog.
* **Values.** Infinities, not-a-number, inversion, rate limit, fallback and hold act on the
  same few variables, some in place. Correct: the setpoint stays within limits and rate,
  the reported position never jumps, a valid command is reached in the end.
* **One mutex, taken twice.** `read()` with synchronous I/O keeps its shared lock of
  `state_mutex_` while every status takes another, and `on_deactivate` waits for the
  exclusive one. Correct: somebody always gets on; the statuses of one update agree.
* **Who says that the transport is lost.** Several places find it, some of them tell nobody.
  Correct: the log and the diagnostics say so in the end, and say nothing that is not so.
* **A set-up in steps**, each of which may fail for good, fail and be retried, or be carried
  out without an answer. Correct: success means that every drive is configured; what the
  log said too early is taken back.
* **Late answers.** A response is matched with a request only by being the next packet.
  Correct: no operation takes another's answer; nothing stays claimed unaccounted.

## Modules

| Module | Models | Extends |
|---|---|---|
| `ODriveHardwareInterface` | the component with synchronous I/O, the drives' axes | |
| `DocumentedBehaviour` | statements of the documentation about it | `ODriveHardwareInterface` |
| `HardwareProofs` | proofs of its types and safety properties | `ODriveHardwareInterface` |
| `AsyncIo` | the component with asynchronous I/O | |
| `DocumentedAsync` | statements of the documentation about it | `AsyncIo` |
| `AsyncProofs` | proofs of its safety properties | `AsyncIo` |
| `AxisControl` | the request sequences of a mode switch and of a command | |
| `AxisService` | what the two calls promise; implemented by `AxisControl` | |
| `AxisProofs` | proofs of its safety properties and of the refinement | `AxisControl` |
| `JointSignals` | the values of one joint | |
| `SignalsProofs` | proofs of its safety properties | `JointSignals` |
| `ODriveUsb` | the transport: discovery, sessions, packets | |
| `UsbProofs` | proofs of its safety properties | `ODriveUsb` |
| `Diagnostics` | `state_mutex_`, the log of losses, the statuses, in both I/O modes | |
| `DocumentedDiagnostics` | statements of the documentation about it | `Diagnostics` |
| `DiagnosticsProofs` | proofs of its safety properties | `Diagnostics` |
| `Startup` | parsing and validation, `initialize_transport()` with its retries | |
| `StartupProofs` | proofs of its safety properties | `Startup` |
| `ErrorMonitoring` | what the log says of the error registers | |
| `ErrorProofs` | proof that shown errors are logged | `ErrorMonitoring` |

### ODriveHardwareInterface

One action is one USB transaction, or one step of a handler between two of them; `rt` and
`svc` say where the control loop and the service thread are, and at which joint. `Transfer`
is a transaction: acknowledged, lost before or after it took effect ("soft"), or with a
status that sticks to the transport ("fatal": time-out, no device).

* `read()` is `StartRead` (health flags cleared, the sensors and drive registers) and one
  `ReadJoint` per joint (telemetry, hold on a fault or rejected sample, early return that
  marks all joints).
* `perform_command_mode_switch()` is `PerformJoint`, the claim steps (`ClaimEnableWatchdog`,
  `ClaimFeedWatchdog`, `ClaimReadError`, `ClaimClearErrors`), the unclaim steps
  (`UnclaimIdle`, `UnclaimDisableWatchdog`), `MaskFaultedJoint` and `SwitchAxisMode`.
  `prepare_command_mode_switch()` is one step: it only writes `control_level`.
* `write()` is `StartWrite` (null check, lifecycle gate) and one of `WriteMasked`,
  `WriteIdleOnFault`, `WriteNothing`, `WriteCommand` per joint.
* `on_activate` is `ActivateOpen`, one `ActivateConfigure` per joint, `ActivateEnable`, one
  `ActivateClear` per joint; `on_deactivate` is `DeactivateGate` (before the lock),
  `DeactivateLock` and one `DeactivateIdle` per joint. `OnCleanup` and `Recover` are single
  steps. `HostRestart` is the end of the process: the drives go on.

Framework rules the guards state: mode switches and lifecycle callbacks of a component are
serialised with each other; callbacks other than `on_deactivate` are serialised with
`read()` and `write()`; both are called for inactive and active components; an error of
`on_activate` finalises the component. The values of the signals are not in this module
(they are in `JointSignals`); `new_command` stands for "the command sequence differs from
the last one sent". `lapse` and `missed` are history variables used by properties only.

### AsyncIo

A critical section of `async_io_mutex_` or `state_mutex_` is one step, and so is a
transaction of the worker. What the other threads do with the transport while the worker
is stopped is one step here and detailed in `ODriveHardwareInterface`; `PerformSwitch` is the
mode switch, of which the joints keep what the other threads see: a claim reads the axis error
into its interface and may clear the drive's (`ClaimReads`), a joint that shows an error loses
its level (`Masks`). The command snapshot holds the control levels and sequences, the telemetry
snapshot the health and error flags, which `read()` copies back. A sequence is a number that
counts the commands, or not finite (`Commands`): such a command is never sent with
`gate_stale_commands`. `SpuriousWakeup` and notifications before the wait are modelled;
`DeadlinePasses` is the clock.

### AxisControl and AxisService

`todo` is the list of requests the call has still to make, in the order of the source;
`Request(s)` makes the next one and a failure ends the call. `AxisService` does each call
in a single step; `ImplementsService` is the refinement, with the step placed at the last
request of the call. It is what allows `ODriveHardwareInterface` to take
`perform_axis_mode_switch` and `write_axis_command` as one transaction each.

### JointSignals

The position signal of one joint, cycle by cycle: `Drive`, `Read`, `Switch`/`KeepLevel`,
`Update`/`NoUpdate`, `Write`, and `Reset` for `reset_runtime_state()`. `Switch` includes what a
claim reads of the error registers (`Reread`), and `ClaimFails` the claim that returns before the
drive is switched. A write ends complete, before `INPUT_POS` or behind it ("half": the setpoint
has moved, the code remembers nothing); `unremembered` is the history of the last kind. The velocity and
effort commands take the same path and are reduced to "in range or not". Positions are
integers; infinity and not-a-number are values outside them that behave as floating point
does in the comparisons the code makes. `AxisCommandState` holds references to the command
interfaces, so what priming, limiter, fallback and inversion assign stays in the command
interface for the next cycle.

### ODriveUsb

`initialize()` scans, reads the serial number of every device it could claim, and keeps the
configured ones; `endpointOperation()` sends a packet and takes the next packet of the
device. The owner of a packet is a ghost: the program drops the sequence number of a
response unread. `DeviceForgets` says whether a device that is claimed anew still has old
packets to send; the code clears nothing, and the run assumes nothing of the device. `left_over`
is the history of the devices on which an operation was given up while the session went on, or
which were claimed with old packets: the ones of which a late answer must be expected.

### Diagnostics

The component with everything left out that is not told to somebody. `state_mutex_` is a
shared mutex: `LockShared`, `LockExclusive`, and `WaitExclusive` for a thread that stands in
the queue. `WritersPreferred` says whether a waiting writer keeps new readers out.

* Synchronous `read()` is `StartRead` (takes the share), `ReadWithoutTransport` or
  `ReadRegisters` and `ReadJoint`, `MaybeUpdate` with the two tasks of `force_update()`
  (`LockTask`, `PopulateDrive`, `LockTask`, `PopulateJoint`), `EndRead`; `write()` is
  `StartWrite`, `LoopLocks`, `Write`. An early return goes to `EndRead` directly, without
  an update.
* Asynchronous `read()` is `ReadSnapshot`, `LoopLocks`, `ReadApply`, `ReadHealth` and the same
  update; `write()` is `WritePost`. The worker is `WorkerStart`, one `WorkerCycle` (or
  `WorkerWithoutTransport`, or `WorkerLoses` and `PublishLoss`).
* `Activate`, `StopAndJoin`, `DeactivateWants`, `DeactivateLocks`, `DeactivateAxes` and `Recover`
  are the callbacks. `Health(ok)` is `update_transport_health()`, and stands in exactly the
  actions whose code calls it.

One joint on one drive: `known` is what `joints_` and `drives_` hold of it (a
mode switch writes the axis error and the write error too), `status` what was published last.

### Startup

`ParseJoint` and `ParseParameters` are `on_init`: a parameter is absent, unreadable, or a
value, and each kind of check stands once (a required watchdog time-out, optional limits, a
runtime parameter that falls back to its default, a safety parameter that fails). Comparisons
with not-a-number are those of C++; `UsbTimeout` wraps as `stoul` and the assignment do.
`Activate` opens the transport and finds the devices; `Request(s, applied)` is one transfer
of `initialize_transport()`, by its status and by whether the drive carried it out, followed
by what the caller does with the status: `Answered`, `Retried` or `Fail`. `Fail` makes the component
active all the same, as `on_activate` does, with the gate closed. `Enable` opens the gate,
`ClearErrors` is the loop behind it, which ends in the framework's `finalized` if a request fails.
`Claim`, `Lose` and `OperateWithout` are what an active component does to the same state,
`Deactivate` is `on_deactivate`, and `Reset` is `recover()`, of an active component as of an inactive
one, which keeps its lifecycle (and `on_cleanup` with the configuration that follows).

### ErrorMonitoring

A register is the set of its bits. `Accept` is the tail of `read()` for a sample that was
accepted: the error interfaces take the registers over, and each register that is not zero
and differs from the one logged last gets a line (`Logged`) with the names of its bits and
the bits without a name. `ClaimReads` and `ClaimClears` are the mode switch, which writes the axis
error without the log; `claimed` is the history of it.

## Runs

Sizes are distinct states. A run whose name starts with `Doc` refutes a statement of the
documentation; the others pass. Every property of a passing run is broken by a mutant, a
plausible bug written as a variant of one definition directly before it.

| Run | Shows | States |
|---|---|---|
| `HardwareSafety` | the transport stays while used; the lifecycle gate; no unwatched closed loop; no feed of an axis known to be faulted | 871 k |
| `HardwareLive` | an armed axis that is not fed stops, with no fairness of the host; with it, faults are answered by IDLE, repeated until it gets through, a lost transport is reported | 99 k |
| `AsyncSafety` | one user of the transport, no worker left behind, no lost wake-up, a sequence is sent once, masking through the snapshots | 9.9 M |
| `AsyncLive` | stop returns, a hanging cycle is reported | 306 k |
| `AxisControl` | order and completeness of the requests; what a switch that succeeds leaves behind, whatever failed before; refinement of `AxisService` | 3 k |
| `SignalsSafe` | limits, rate limit and continuity for every command and sample, with writes and claims that fail on the way | 4.9 M |
| `SignalsLive` | a valid command of a slow controller is reached through the rate limit, from up to one step outside the limits | 85 k |
| `UsbSession` | another's answer is taken only where an operation was given up on by an error that does not stick, or from a device claimed with old packets; interfaces are accounted for, the configured devices are kept | 47 k |
| `Diagnostics` | nobody waits for `state_mutex_` in a circle, the statuses of one update agree, a loss gets to the log and the last line about it is true, a loss is published with asynchronous I/O, `on_deactivate` gets its lock and returns | 397 k |
| `Startup` | what is parsed is in range; success of `initialize_transport()` means every drive is configured; a dead session is not retried; a premature "online" is taken back; the activation ends | 277 k |
| `ErrorMonitoring` | the error shown to the controllers is the one logged last, but for what a claim has just read; a latched error is logged | 16 k |
| `DocInvertedPrime` | an inverted axis is primed at minus its position, see "Where the code and its documentation differ" | |

### Bounds, and why they are enough

* `N = 1` in `HardwareSafety` and `HardwareLive`: the hazards of one joint are
  interleavings of the two threads and the drive at that joint. Joints share only the
  transport, the gate and the position in the loops, and the theorems below cover all the
  safety properties for every `N`. The documentation runs that are about the joint behind
  a failed one use `N = 2`.
* Faults are one bit of the watchdog, one other axis bit and one of the other registers:
  the code distinguishes exactly whether a register is zero, and whether the axis register
  holds the watchdog bit. Two control levels let a switch go from one to another.
* `HostRestarts`, failing transfers and faults are unbounded: the state is finite without.
* `MaxSequence` bounds the command sequence: two values are enough for "changed or not",
  and not-a-number is the value that equals none. Sequences that are not finite are left out of
  `AsyncLive` (`FiniteSequences`), whose properties are about the worker alone. The async runs take one joint; with two,
  the worker's loop exceeds twenty million states.
* `Bound = 2` in `JointSignals`: limits, rate limit and discontinuity limit at 1 or 2 leave
  room for a value inside, at and beyond each. The period is constant (the code replaces a
  non-positive one), so a rate is a step per cycle. `SignalsLive` has `Bound = 3` and limits from -3
  to 2, so that the axis can be one step outside them: farther outside, the code does not find
  back (`DocOutside`).
* `MaxFailures = 2` in `ODriveUsb`: one failure leaves an answer behind, the second meets it.
  Three devices: two configured, and one that is not. One client, because two whose operations
  overlap are refuted (`DocConcurrent`); the theorem is for any number that take turns.
* `Diagnostics` has no bound. One joint: the statuses of other joints are collected by more
  tasks of the same kind, and a drive with several joints is nominal only if all of them are.
* `Startup`: two joints, so that a failure may come before or behind a joint that is set up;
  codes 1, 4, 5 and 7, one of each class (taken for a permission, sticky, retried, sticky and
  looking like none); three attempts, the only number the code knows. `UnsignedRange` is 16
  instead of 2^32, so that 18 wraps into the range of the time-out, which ends at 10.
* `ErrorMonitoring`: two registers, a bit with a name and one without.

`CHECK_DEADLOCK FALSE` stands in the runs of `AsyncIo`, because a finalised component whose
joints are all faulted really stops, and in that of `Startup`, where a configuration may be
refused for good.

### Fairness, and why the code justifies it

* The drive's timers run by themselves (`DriveFairness`). `UnfedAxisStops` uses nothing
  else: the host may hang anywhere, die and restart.
* `GetsThrough(j)`, in `FaultedAxisIsIdled` alone: of the samples and IDLE requests that the
  control loop tries again and again, not every one is lost on a transport that works.
* `HostFairness`: the control loop is periodic and every transfer ends with its time-out;
  a callback that was entered goes on. `DeactivateLock` gets strong fairness, because the
  control loop releases and takes `state_mutex_` in every cycle and the operating
  system's mutex does not starve a waiter for ever; with weak fairness alone the service
  thread could miss every gap. The properties that need it say so.
* `WorkerFairness`: each transfer of the worker ends with its time-out.
  `HangIsReported` is checked without it, with the clock (`DeadlinePasses`) alone.
* `Diagnostics`: every step that a thread has begun to take is taken (each transfer ends with
  its time-out), `LoopCall` with strong fairness because the loop is periodic whatever
  callbacks come in between, and a thread that waits for `state_mutex_` gets it if it is free
  again and again. The mutex prefers readers, as glibc's `pthread_rwlock_t`, on which
  `std::shared_mutex` is built, does by default; with the other preference, which the C++
  standard allows, `read()` and `on_deactivate` wait for each other (`DocWritersFirst`).
* `Startup` and `ErrorMonitoring`: transfers end; a sample is accepted again and again. The
  latter holds only while the drive answers believable values, and is needed by
  `LatchedErrorIsLogged` alone.
* `JointSignals`' `FairSpec`: the loop keeps calling, and `reset_runtime_state()` is not
  called for ever between two of its calls.

## Proofs

TLAPS proves every safety invariant and every action property that the runs check, and the
refinement of `AxisService`, from the modules' assumptions on the constants. About
`ODriveHardwareInterface`, for every number of joints, every set of control levels and
faults, and every way transfers can fail:

| Theorem of `HardwareProofs` | States |
|---|---|
| `Typing` | `Spec => []TypeOK` |
| `TransportStays` | `Spec => []TransportStaysWhileUsed` |
| `GateHolds` | `Spec => CommandsOnlyWhileActive` |
| `WatchHolds` | `Spec => []ClosedLoopIsWatched` |
| `MaskHolds` | `Spec => FaultedAxisIsMasked` |

about `AsyncIo`, for every number of joints, configuration and length of the command sequence
(the one bound of the model):

| Theorem of `AsyncProofs` | States |
|---|---|
| `AsyncTyping` | `Spec => []TypeOK` |
| `ExclusiveHolds` | `Spec => []TransportIsExclusive` |
| `NoWorkerHolds` | `Spec => []NoWorkerLeftBehind` |
| `WakeupHolds` | `Spec => []NoLostWakeup` |
| `SentHolds` | `Spec => SentOnce` |
| `WorkerMaskHolds` | `Spec => FaultedAxisIsMasked` |

about `AxisControl`, for every set of control levels and every outcome of the requests:

| Theorem of `AxisProofs` | States |
|---|---|
| `EntersPrimedHolds` | `Spec => EntersPrimed` |
| `FedHolds` | `Spec => FedByWholeCommands` |
| `SwitchLeavesPrimedHolds` | `Spec => []SwitchLeavesPrimed` |
| `ServiceImplemented` | `Spec => ImplementsService`: initial states map to initial states of `AxisService`, every step to a step of it or a stutter |

about `JointSignals`, for every range of positions, limits, rate, discontinuity limit and
movement of the axis:

| Theorem of `SignalsProofs` | States |
|---|---|
| `SignalsTyping` | `Spec => []TypeOK` |
| `SetpointHolds` | `Spec => SetpointIsAllowed`, inverted axes included |
| `RateHolds` | `Spec => RateLimitHolds`, for an axis that is not inverted, whatever the writes end with |
| `ReportHolds` | `Spec => ReportedPositionIsContinuous`, for an axis that is not inverted |

about `ODriveUsb`, for every finite set of devices, every set of threads that use the
transport and every bound of the failures:

| Theorem of `UsbProofs` | States |
|---|---|
| `UsbTyping` | `Spec => []TypeOK` |
| `ClaimedHolds` | `Spec => []ClaimedIsAccounted`, overlapping operations included |
| `ReadyHolds` | `Spec => []ReadyHasTheConfigured` |
| `AnswersHold` | `Spec /\ []OneAtATime => AnswersOwnRequest` |
| `LoneAnswersHold` | `Spec => AnswersOwnRequest`, if there is one user |

about `Startup`, for every number of joints and attempts, every set of parameters and codes
and every width of `unsigned int`:

| Theorem of `StartupProofs` | States |
|---|---|
| `StartupTyping` | `Spec => []TypeOK`, which holds the ranges of what was parsed |
| `ReadyHolds` | `Spec => []ReadyIsConfigured` |
| `DeadSessionHolds` | `Spec => []DeadSessionIsLeft` |
| `OnlineHolds` | `Spec => OnlineIsConfigured` |
| `AdvanceHolds` | `Spec => SetupAdvances`: a set-up makes a bounded number of transfers |

and about `Diagnostics` (both modes, both preferences of the mutex) and `ErrorMonitoring`
(every set of registers and bits):

| Theorem | States |
|---|---|
| `DiagnosticsProofs!DiagnosticsTyping` | `Spec => []TypeOK`, with the exclusion of the lock's holders |
| `DiagnosticsProofs!NoCircularWaitHolds` | `Spec => []NoCircularWait` |
| `DiagnosticsProofs!DriveStatusHolds` | `Spec => []DriveStatusCoversItsJoint` |
| `DiagnosticsProofs!OfflineHolds` | `Spec => []OfflineIsTrue` |
| `ErrorProofs!ErrorsAreLogged` | `Spec => []ShownErrorIsLogged` |

The assumptions are `ConstantsAssumption` (there is a joint; levels, faults and joints
are what their names say; "watchdog" is a fault), `SignalsAssumption` (the limits lie in
the range of positions, which lies below infinity), `AsyncAssumption` (the like for
`AsyncIo`), `StartupAssumption` (the default time-out is within its own range, codes are not
zero), `AxisAssumption` (levels and outcomes are what their names say), `UsbAssumption`
(there is a user and a configured device, the devices are finitely many, and the statuses are
those of `endpointOperation()`), `DiagnosticsAssumption` and `ErrorsAssumption` (not-a-number
is no register). The arguments:

* **Types.** One lemma per handler; the helpers of the loops (`NextJoint`,
  `PerformNextJoint`) and of the axes (`AxisOperations`) have lemmas of their own.
* **Serialisation.** `TransportStaysWhileUsed` is not inductive: that no callback resets
  the transport under a mode switch depends on who may be where. `SerialInv` says so: a
  mode switch is being performed only while it is prepared, a callback runs only without
  one, and besides `read()` or `write()` only `on_deactivate` before its lock. The two
  together are inductive (`SerialInductive`).
* **Gate.** `GateInv` ties the gate, the lifecycle and the place of both threads together:
  an open gate means an active component (or the last phase of activation, or a finalised
  one), and a `write()` that passed the gate keeps the component active, because
  `on_deactivate` returns only behind `state_mutex_`.
* **Watchdogs.** `WatchJoint(j)`: a joint in closed loop is watched; so is a claimed joint
  with a transport, except between the disarming of its watchdog and the end of its mode
  switch; the steps of the switch carry the fact from the arming request to the
  closed-loop request, and from the IDLE request to the disarming one. There is one lemma
  per group of handlers, with the joints other than the one served as a case of its own.
* **Masking.** That a joint's error interfaces cover the errors latched in its drive, except
  those no accepted sample has shown yet, is not invariant: `reset_runtime_state()` forgets
  the errors while the drive keeps them. `MaskJoint(j)` says it only while there is a
  transport, the component is not finalised and the activation under way, if any, has
  passed `j`. A reset drops the transport; only activation opens it again, and it clears
  every drive's errors or finalises the component. The proof then needs that `write()` is
  never inside those windows (`SerialInv`, `TransportStaysWhileUsed`), and that during
  `write()` only the end of `write_axis_command()` feeds (`FeedsByCommand`).
* **Signals.** `CheckedCommand`: what survives the rate limiter, the validation and the
  fallback is within the limits or is the measured position, whatever the command was.
  The rate limit needs `RateInv`: until the next mode switch the drive's setpoint is
  `last_command_*`, or at most one step from it while writes fail behind `INPUT_POS`, or was
  sent by the fallback. An inverted axis breaks it by the sign (`DocInvertedRate`).
* **Asynchronous I/O.** `SerialInv` says who excludes whom: a mode switch is performed only
  while it is prepared, no callback is under way then, and both come to their work only behind
  the join. `LifeInv` adds that a worker, or the promise to start one again after the mode
  switch, exists only in an active component. `SentInv` and `OrderInv` order the sequences on
  their way to the drive: written, remembered as sent, in the worker's copy, posted, at the
  joint; each is no newer than the next, except that activation forgets what was written and
  the resets, which happen without a worker, begin again. `MaskInv` follows the error flags:
  those of the worker's snapshot in a cycle, of the published one otherwise, cover each fault a
  sample has shown. `ValuesCarried` disposes of the steps that touch none of it.
* **Wake-ups.** The code notifies after it released `async_io_mutex_`, so that a request and its
  notification are two steps, and the control loop and the service thread may be between them
  at the same time. `NoLostWakeup` is not inductive: whoever notifies in order to stop must
  find the worker that was there when the stop was decided, and nobody takes the order back
  before the join. `WakeInv` says so for each place of the two threads. This is the safety
  behind `StopReturns`; what is left to TLC is that the worker that is awake goes on.
* **Axis requests.** `Progress(k)`: `todo` is the call's sequence without its first `k` requests,
  and these have done what they are for. From it follows what closed loop and the feed find,
  without unrolling the sequences of the levels more than once (`SwitchShape`,
  `CommandShape`). The refinement adds that only the last request of a call is a step
  of `AxisService`, all before it stutter. For `SwitchLeavesPrimed` the inputs
  written by this call must be among those written since the mode was set, which a
  failed call before it may have left in any state.
* **USB.** `MapInv` says what the map may hold in each phase and that an operation is on a device
  of the session; that is all `ClaimedIsAccounted` needs, whoever uses the transport. For the
  answers, `WireInv` says that a claimed device holds the packets of at most the one operation
  that waits for it, its request or its response, and nothing otherwise, until an error sticks;
  `StickyInv`, that nobody waits afterwards. `OneAtATime` is what
  `AsyncProofs!ExclusiveHolds` provides for the transport as a whole. A device in `left_over` is
  excepted from `WireInv`, and is what `AnswersOwnRequest` allows: the errors that do not stick
  and the packets of an older session are what the code does nothing about (`DocLateAnswer`).
* **Set-up.** `SetupInv`: at any request, the joints behind the current one are configured
  and disarmed, the current one as far as the request says, and the gate is closed. The
  argument for `DeadSessionIsLeft` is that none of the retried classes contains a code that
  makes the error of the session sticky (`RetryIsAlive`), a fact about the two lists of codes.
  `TransfersLeft`, three requests for each joint left times the attempts of each, falls with
  every transfer that does not end the set-up (`SetupAdvances`): the safety behind `SetupEnds`.
* **Diagnostics.** `LockInv` counts the shares of `state_mutex_` by where the loop is;
  `CollectInv` carries the level of the drive from its task to the joint's; `ModeInv` separates
  the two modes, without which neither log property holds. `NoCircularWait` follows from
  `LockInv` place by place: whoever waits holds no share, and the thread it waits for is in
  its critical section, where it waits for nobody, or is free to enter it. Synchronous `read()` on a mutex that prefers writers is
  excepted because it does wait in a circle (`DocWritersFirst`). It is the safety behind
  `DeactivationReturns`.

Only model-checked: the liveness properties (`UnfedAxisStops`, `FaultedAxisIsIdled`,
`LostTransportIsReported`, `StopReturns`, `HangIsReported`, `ValidCommandIsFollowed`,
`LossIsLogged`, `LossStaysLogged`, `LossIsPublished`, `DeactivationReturns`, `SetupEnds`,
`LatchedErrorIsLogged`). They need fairness, and with it ENABLED, which is out of the prover's
reach. For three of them the safety argument beneath is a theorem
(`WakeupHolds`, `NoCircularWaitHolds`, `AdvanceHolds`).

## Where the code and its documentation differ

`DocInvertedPrime` is a run; each of the others was refuted in the same way, by the
configuration of its name and the module that holds its property (`grep` the property),
which are kept for a reader who wants the trace.

| Configuration | Statement refuted | What the code does |
|---|---|---|
| `DocInactive` | "motor commands are ONLY sent when the hardware component is in ACTIVE state" (safety-design.md:107) | `perform_command_mode_switch` has no lifecycle gate: it starts the motor of an inactive component whose transport is still open |
| `DocLatched` | `healthy` "cannot remain stale/latched" (README.md:214) | with asynchronous I/O the last snapshot is copied for ever once the worker is gone |
| `DocOrder` | "Commands exceeding limits are **rejected**" (safety-design.md:203) | the rate limit is applied before the validation, and turns any command into a valid step |
| `DocInvertedPrime` | "primes position to current position" (axis_control.hpp:66) | an inverted axis is primed at minus its position |
| `DocInvertedRate` | a valid command of an inverted axis is followed | `last_command_*` has the drive's sign, the next command the controller's |
| `DocInvertedSign` | inversion does not depend on how often `write()` is called | the command interface itself is inverted, so a command that is not renewed alternates |
| `DocInvertedGlitch` | a standing inverted axis is reported | the raw sample is compared with the inverted position |
| `DocGlitch` | an axis that stands still is reported | the reference of the discontinuity check moves only with accepted samples |
| `DocPrimedRate` | the rate limit holds from the mode switch on | priming does not touch `last_command_*` |
| `DocOutside` | an axis outside its limits can be commanded back | the first rate-limited steps are out of range themselves |
| `DocUnclaimed` | an unclaimed joint's watchdog is off (comment, HW:1199) | masking a faulted joint unclaims it without disarming |
| `DocStopped` | a motor without commands stops (safety-design.md:33) | activation disarms an axis found running, and nothing arms it before the next switch |
| `DocDeactivate` | `on_deactivate()` "transitions all motors to IDLE" (safety-design.md:143) | its loop ends at the first request that fails |
| `DocWriteTimeout`, `DocReadTimeout` | time-outs are joint-specific (safety-design.md:270-271) | a time-out ends the cycle for all joints |
| `DocRejected` | faulted axes are masked (safety-design.md:59) | the error interfaces keep their old values when the feedback is rejected |
| `DocPriming` | setpoints are primed before use (axis_control.hpp:65) | a running axis changes its mode first |
| `DocResent` | a sequence is written only when it changed (odrive_hardware_interface.hpp:125) | activation forgets what was sent |
| `DocConcurrent` | a transport is thread-safe (odrive_transport.hpp:30) | two operations take each other's packets |
| `DocLateAnswer` | a read returns what it asked for (odrive_transport.hpp:57) | after an I/O error that does not stick the late answer is taken by the next operation |
| `DocSyncLoss` | status level "`ERROR` (2): Joint unhealthy" (error-reference.md:249) | with synchronous I/O every early return of `read()` skips the update: a lost transport is never published, the last status stays |
| `DocJointStatus` | the same line, of the status of a joint | only its error registers and temperatures decide the level; telemetry that is not valid does not |
| `DocRecovered` | "deactivate+activate to reconnect" (log of a loss, HW:759) | with asynchronous I/O a snapshot of before the loss, read after it, logs "recovered" |
| `DocTransitions` | "error transitions are logged" (README.md:203) | `last_*_error` keeps its value when a register returns to zero: the same error coming back is not logged |
| `DocRetry` | "retry attempts for transient read errors" (README.md:155) | codes of libusb are classified as codes of errno: its I/O error (-1) is taken for -EPERM and never retried |
| `DocWritersFirst` | a `shared_mutex` may be shared again by a holder | only where it prefers readers; otherwise `read()` and `on_deactivate` deadlock |

Seen while reading, without a run: `usb_read_retries` and `usb_write_retries` (README.md:155)
are parameters that no code parses; the diagnostics period is documented as
`diagnostics_period_sec` and read as `diagnostics_period`; the default limits of the
configuration guide's summary exist nowhere in the code, a limit that is not given is no
limit; a watchdog time-out of not-a-number passes both checks (`odrive_configuration.cpp:209`);
a USB time-out beyond 32 bits wraps before its range is checked (`config_validator.hpp:93`).

## Not modelled, and why

* The values of velocity, effort, temperatures and voltages: they take the path of the
  position, or are only published.
* Statistics of cycles and retries, and the status of a sensor: counters and values that
  are published as they are and decide nothing. The node of the diagnostics is never spun, so
  that statuses come from `force_update()` only, which is what `Diagnostics` models.
* The tables of error names are a constant of `ErrorMonitoring`. The parameters of one kind,
  names and serial numbers are represented by one of each kind in `Startup`.
* The worker's own copy of the signal path (`HW` 2590-2868): it repeats the one of the control
  loop on a snapshot, and `JointSignals` describes the latter.
* The drive's control mode beside the level of a command: see the plan.
* `libusb_init` and the listing of devices: they fail before any state is kept.
* Two devices that report one serial number: the map keeps the handle of the first and
  the other is lost (`odrive_usb.cpp:115`); in `ODriveUsb` a device is its serial number.
* The endpoint table is generated; the RAII wrappers of libusb are used by nothing; the
  demo packages are launch files and robot descriptions; the ROS plugin package constructs
  the parts above.

## Plan

Done: `ODriveHardwareInterface` first, because every safety feature of the documentation
meets in it, then `AxisControl` with the service it takes the place of, `AsyncIo`,
`JointSignals`, `ODriveUsb`, `Startup` (parsing, validation, set-up and retries),
`Diagnostics` (`state_mutex_`, log, statuses) and `ErrorMonitoring`; their safety properties
and the refinement of `AxisService` proved.

Left, in this order:

1. `AsyncIo` with the worker's signal path (`HW` 2590-2868) and the control mode of the drive,
   for the command snapshot that is served again after a mode switch (`HW` 2366) and the
   control level that changes before the drive does (`HW` 1105).
2. Several joints on one drive in `Diagnostics`, with the sensors' status.
3. Proofs: the safety beneath the remaining liveness properties, as for `StopReturns`: that an
   armed axis that nobody feeds has no step but its time-out, that a lost transport is not
   forgotten before it is reported.
