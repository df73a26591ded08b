-------------------------------- MODULE AsyncIo --------------------------------
(***************************************************************************)
(* enable_async_io = true: a worker thread does the USB I/O; the control   *)
(* loop's read() and write() exchange snapshots with it, and whoever else  *)
(* uses the transport stops and joins it first.  A critical section of     *)
(* async_io_mutex_ or state_mutex_ is one step, and so is a transaction of *)
(* the worker.  What the other threads do with the transport while the     *)
(* worker is stopped is detailed in ODriveHardwareInterface: one step here.*)
(***************************************************************************)
EXTENDS Naturals

CONSTANTS
    N,                                \* number of joints
    Levels,                           \* command interfaces that are exported
    gate_outputs_with_lifecycle,
    mask_faulted_axes,
    request_idle_on_axis_fault,
    gate_stale_commands,              \* gate_stale_commands_with_command_sequence
    Statuses,                         \* ways a USB transaction may end
    FeedbackLimits,                   \* feedback limits are configured
    FiniteSequences,                  \* no controller writes a command_sequence that is not finite
    MaxSequence                       \* bound on command_sequence

Joint == 1..N
UNDEFINED == "UNDEFINED"
NaN == MaxSequence + 1                \* a sequence that equals no command's
Sequence == 0..MaxSequence

ASSUME AsyncAssumption ==
    /\ N \in Nat \ {0}
    /\ UNDEFINED \notin Levels
    /\ gate_outputs_with_lifecycle \in BOOLEAN
    /\ mask_faulted_axes \in BOOLEAN
    /\ request_idle_on_axis_fault \in BOOLEAN
    /\ gate_stale_commands \in BOOLEAN
    /\ Statuses \subseteq {"ok", "soft", "fatal"}
    /\ FeedbackLimits \in BOOLEAN /\ FiniteSequences \in BOOLEAN
    /\ MaxSequence \in Nat

VARIABLES
    lifecycle, mode_switch, transport, outputs_enabled,  \* as in ODriveHardwareInterface
    rt, svc,                          \* the control loop; the lifecycle callback
    restart_async_after,              \* of perform_command_mode_switch()
    control_level, healthy,           \* of the joints
    errors,                           \* an error interface of the joint is set
    command_sequence, finite,         \* the last number written, and nothing else since then
    async_io_thread,                  \* where the worker is; "none" unless joinable
    stop, pending, in_flight,         \* async_io_stop_, async_io_request_pending_, ...
    overdue,                          \* the cycle in flight passed its deadline
    async_latest_command, async_latest_telemetry,
    rt_healthy, rt_errors,            \* read()'s copy of the health flags and the errors
    command, snapshot,                \* the worker's copies
    last_sent, idle_requested,        \* async_last_sent_command_sequence_, ...
    faulted,                          \* external: the axes that hold an error
    missed,                           \* history: a fault arose since the sample read
    written,                          \* history: the last sequence that was acknowledged,
    reactivated                       \* and whether on_activate ran since

joints == <<control_level, command_sequence, finite, healthy, errors>>
control == <<lifecycle, mode_switch, svc, outputs_enabled>>
flags == <<stop, pending, in_flight, overdue>>
exchange == <<async_latest_command, async_latest_telemetry>>
cycle == <<command, snapshot>>
memory == <<last_sent, idle_requested>>
rtlocals == <<rt_healthy, rt_errors, restart_async_after>>
world == <<faulted, missed, written, reactivated>>
vars == <<control, transport, rt, rtlocals, joints, async_io_thread, flags, exchange, cycle,
          memory, world>>

Command == [level : [Joint -> Levels \cup {UNDEFINED}], seq : [Joint -> Sequence],
            finite : [Joint -> BOOLEAN]]
Telemetry == [healthy : [Joint -> BOOLEAN], errors : [Joint -> BOOLEAN]]

All(b) == [j \in Joint |-> b]
NoCommand == [level |-> All(UNDEFINED), seq |-> All(0), finite |-> All(TRUE)]
NoTelemetry == [healthy |-> All(FALSE), errors |-> All(FALSE)]

WorkerPc == {"none", "check", "waiting", "sensors", "read", "start_write", "write", "publish",
             "finished"}
RtPc == {"idle", "apply", "update", "stop", "stop_notify", "stop_join", "perform", "restart",
         "write", "notify"}
Calls == {"none", "activate", "deactivate", "cleanup", "recover"}
SvcPc == {"stop", "notify", "join", "body"}

At(pc, i) == [pc |-> pc, i |-> i]
Calling(call, pc) == [call |-> call, pc |-> pc]
NoCall == Calling("none", "body")

Joinable == async_io_thread.pc # "none"
InCycle == async_io_thread.pc \in {"sensors", "read", "start_write", "write", "publish"}
Outputs == ~gate_outputs_with_lifecycle \/ outputs_enabled
Running == lifecycle \in {"inactive", "active"}
Answers == IF transport = "dead" THEN {"fatal"} ELSE Statuses
Worn(s) == IF s = "fatal" THEN "dead" ELSE transport

Init ==
    /\ lifecycle = "inactive" /\ mode_switch = "none" /\ rt = "idle" /\ svc = NoCall
    /\ transport = "null" /\ outputs_enabled = FALSE /\ restart_async_after = FALSE
    /\ control_level = All(UNDEFINED) /\ command_sequence = All(0) /\ finite = All(TRUE)
    /\ healthy = All(FALSE) /\ errors = All(FALSE)
    /\ async_io_thread = At("none", 1)
    /\ stop = FALSE /\ pending = FALSE /\ in_flight = FALSE /\ overdue = FALSE
    /\ async_latest_command = NoCommand /\ async_latest_telemetry = NoTelemetry
    /\ rt_healthy = All(FALSE) /\ rt_errors = All(FALSE) /\ command = NoCommand /\ snapshot = NoTelemetry
    /\ last_sent = All(NaN) /\ idle_requested = All(FALSE)
    /\ faulted = All(FALSE) /\ missed = All(FALSE)
    /\ written = All(NaN) /\ reactivated = All(FALSE)

-----------------------------------------------------------------------------
(* Starting, waking, stopping and joining the worker.                      *)

\* async_io_start(): the command that is still there is served at once.
Start ==
    /\ async_io_thread' = At("check", 1)
    /\ stop' = FALSE /\ pending' = TRUE /\ in_flight' = FALSE /\ overdue' = FALSE

\* Mutant: the mutex is released without a notification.
Notify_Lost == UNCHANGED async_io_thread

\* async_io_cv_.notify_one(), after the mutex was released.
Notify ==
    async_io_thread' = IF async_io_thread.pc = "waiting" THEN At("check", 1) ELSE async_io_thread

\* async_io_stop_and_join(): the request, and the join.
RequestStop == stop' = TRUE /\ pending' = TRUE /\ UNCHANGED <<in_flight, overdue, async_io_thread>>
ResetFlags == stop' = FALSE /\ pending' = FALSE /\ in_flight' = FALSE /\ overdue' = FALSE
Join == async_io_thread.pc = "finished" /\ async_io_thread' = At("none", 1) /\ ResetFlags

\* The worker holds the mutex, fresh from its last cycle or woken.  Nobody else
\* writes the telemetry while it runs, so it copies it here.
StartCycle ==
    /\ async_io_thread' = At("sensors", 1)
    /\ pending' = FALSE /\ in_flight' = TRUE
    /\ command' = async_latest_command /\ snapshot' = async_latest_telemetry

CheckKeeps == UNCHANGED <<control, transport, rt, rtlocals, joints, stop, overdue, exchange, memory,
                          world>>

WorkerCheck ==
    /\ async_io_thread.pc = "check"
    /\ \/ stop /\ async_io_thread' = At("finished", 1) /\ UNCHANGED <<pending, in_flight, cycle>>
       \/ ~stop /\ pending /\ StartCycle
       \/ /\ ~stop /\ ~pending
          /\ async_io_thread' = At("waiting", 1) /\ UNCHANGED <<pending, in_flight, cycle>>
    /\ CheckKeeps

\* A condition variable may wake without being notified.
SpuriousWakeup ==
    /\ async_io_thread.pc = "waiting"
    /\ async_io_thread' = At("check", 1)
    /\ UNCHANGED <<control, transport, rt, rtlocals, joints, flags, exchange, cycle, memory, world>>

-----------------------------------------------------------------------------
(* One cycle of the worker: async_io_thread_main().                        *)

WorkerKeeps == UNCHANGED <<control, rt, rtlocals, joints, flags, exchange, command, faulted>>

\* The cycle goes on at next with snapshot s1, or a fail-fast status drops the
\* transport and every joint of the snapshot is unhealthy.
CycleGoesOn(s, next, s1) ==
    IF s = "fatal"
      THEN /\ async_io_thread' = At("publish", 1) /\ transport' = "null"
           /\ snapshot' = [snapshot EXCEPT !.healthy = All(FALSE)]
      ELSE async_io_thread' = next /\ snapshot' = s1 /\ UNCHANGED transport

NextJoint(loop, i, done) == IF i < N THEN At(loop, i + 1) ELSE At(done, 1)

\* The sensors' and the drives' own registers.
WorkerSensors(s) ==
    /\ async_io_thread.pc = "sensors"
    /\ \/ /\ transport = "null" /\ s = "ok"
          /\ CycleGoesOn("ok", At("start_write", 1), [snapshot EXCEPT !.healthy = All(FALSE)])
       \/ transport # "null" /\ s \in Answers /\ CycleGoesOn(s, At("read", 1), snapshot)
    /\ WorkerKeeps
    /\ UNCHANGED <<memory, missed, written, reactivated>>

\* A sample that is accepted, or one that is rejected or not received: then the
\* error registers of the last one stay.
WorkerRead(i, s) ==
    /\ async_io_thread = At("read", i) /\ s \in Answers
    /\ \/ /\ s = "ok"
          /\ CycleGoesOn(s, NextJoint("read", i, "start_write"),
                         [healthy |-> [snapshot.healthy EXCEPT ![i] = ~faulted[i]],
                          errors |-> [snapshot.errors EXCEPT ![i] = faulted[i]]])
          /\ missed' = [missed EXCEPT ![i] = FALSE]
       \/ /\ s # "ok" \/ FeedbackLimits
          /\ CycleGoesOn(s, NextJoint("read", i, "start_write"),
                         [snapshot EXCEPT !.healthy[i] = FALSE])
          /\ UNCHANGED missed
    /\ WorkerKeeps
    /\ UNCHANGED <<memory, written, reactivated>>

\* The lifecycle gate is read once in a cycle.
WorkerStartWrite ==
    /\ async_io_thread.pc = "start_write"
    /\ CycleGoesOn("ok", IF transport # "null" /\ Outputs THEN At("write", 1) ELSE At("publish", 1),
                   snapshot)
    /\ WorkerKeeps
    /\ UNCHANGED <<memory, missed, written, reactivated>>

\* Mutant: a joint that is not healthy any more is not masked.
HasFault_Healthy(j) == mask_faulted_axes /\ snapshot.errors[j] /\ snapshot.healthy[j]

HasFault(j) == mask_faulted_axes /\ snapshot.errors[j]
MustRequestIdle(i) == request_idle_on_axis_fault /\ ~idle_requested[i]
WriteGoesOn(i, s) == CycleGoesOn(s, NextJoint("write", i, "publish"), snapshot)

WorkerIdleOnFault(i, s) ==
    /\ async_io_thread = At("write", i) /\ HasFault(i) /\ MustRequestIdle(i)
    /\ s \in Answers
    /\ idle_requested' = [idle_requested EXCEPT ![i] = s = "ok"]
    /\ WriteGoesOn(i, s)
    /\ WorkerKeeps
    /\ UNCHANGED <<last_sent, missed, written, reactivated>>

WorkerMasked(i) ==
    /\ async_io_thread = At("write", i) /\ HasFault(i) /\ ~MustRequestIdle(i)
    /\ WriteGoesOn(i, "ok")
    /\ WorkerKeeps
    /\ UNCHANGED <<memory, missed, written, reactivated>>

Stale(i) == gate_stale_commands /\ (~command.finite[i] \/ command.seq[i] = last_sent[i])
Sends(i) == ~HasFault(i) /\ ~Stale(i) /\ command.level[i] # UNDEFINED

\* Mutant: only a command of no level counts as sent.
Remember_NothingOnly(i) ==
    last_sent' = IF gate_stale_commands /\ command.level[i] = UNDEFINED
                   THEN [last_sent EXCEPT ![i] = command.seq[i]] ELSE last_sent

Remember(i) == last_sent' = IF gate_stale_commands THEN [last_sent EXCEPT ![i] = command.seq[i]]
                                                   ELSE last_sent

\* A stale command is skipped; one of no level counts as sent.
WorkerNothing(i) ==
    /\ async_io_thread = At("write", i) /\ ~HasFault(i) /\ ~Sends(i)
    /\ idle_requested' = [idle_requested EXCEPT ![i] = FALSE]
    /\ IF Stale(i) THEN UNCHANGED last_sent ELSE Remember(i)
    /\ WriteGoesOn(i, "ok")
    /\ WorkerKeeps
    /\ UNCHANGED <<missed, written, reactivated>>

\* write_axis_command(): setpoints and watchdog feed.
WorkerCommand(i, s) ==
    /\ async_io_thread = At("write", i) /\ Sends(i)
    /\ s \in Answers
    /\ idle_requested' = [idle_requested EXCEPT ![i] = FALSE]
    /\ IF s = "ok"
         THEN /\ Remember(i)
              /\ written' = [written EXCEPT ![i] = command.seq[i]]
              /\ reactivated' = [reactivated EXCEPT ![i] = FALSE]
         ELSE UNCHANGED <<last_sent, written, reactivated>>
    /\ WriteGoesOn(i, s)
    /\ WorkerKeeps
    /\ UNCHANGED missed

\* The locals of the cycle are gone after it.
WorkerPublish ==
    /\ async_io_thread.pc = "publish"
    /\ async_io_thread' = At("check", 1)
    /\ in_flight' = FALSE /\ overdue' = FALSE
    /\ async_latest_telemetry' = snapshot
    /\ command' = NoCommand /\ snapshot' = NoTelemetry
    /\ UNCHANGED <<control, transport, rt, rtlocals, joints, stop, pending, async_latest_command,
                   memory, world>>

-----------------------------------------------------------------------------
(* The control loop.  A critical section of state_mutex_ is one step, so   *)
(* nobody is seen to wait for it.                                          *)

InRtCall == rt \notin {"idle", "update", "write"}
\* The framework serialises the callbacks but on_deactivate with read() and write().
MayCallFromRt == svc.call \in {"none", "deactivate"}
RtKeeps == UNCHANGED <<lifecycle, svc, outputs_enabled, cycle, memory, missed, written, reactivated>>

\* Mutant: a cycle that does not end is not noticed.
ReadSnapshot_NoDeadline ==
    /\ rt = "idle" /\ Running /\ MayCallFromRt
    /\ rt_healthy' = async_latest_telemetry.healthy
    /\ rt_errors' = async_latest_telemetry.errors
    /\ rt' = "apply"
    /\ RtKeeps
    /\ UNCHANGED <<mode_switch, transport, restart_async_after, joints, async_io_thread, flags,
                   exchange, faulted>>

\* read(): the snapshot, and whether the cycle in flight is too old; then the
\* joints' state interfaces.
ReadSnapshot ==
    /\ rt = "idle" /\ Running /\ MayCallFromRt
    /\ rt_healthy' = IF in_flight /\ overdue THEN All(FALSE) ELSE async_latest_telemetry.healthy
    /\ rt_errors' = async_latest_telemetry.errors
    /\ rt' = "apply"
    /\ RtKeeps
    /\ UNCHANGED <<mode_switch, transport, restart_async_after, joints, async_io_thread, flags,
                   exchange, faulted>>

ReadApply ==
    /\ rt = "apply"
    /\ healthy' = rt_healthy /\ errors' = rt_errors
    /\ rt_healthy' = All(FALSE) /\ rt_errors' = All(FALSE)
    /\ rt' = "update"
    /\ RtKeeps
    /\ UNCHANGED <<mode_switch, transport, restart_async_after, control_level, command_sequence,
                   finite, async_io_thread, flags, exchange, faulted>>

\* The controllers' commands: each has the next number, or a sequence that is not finite.
Commands(numbered, unnumbered) ==
    /\ numbered \cup unnumbered \subseteq {j \in Joint : control_level[j] # UNDEFINED}
    /\ \A j \in numbered : command_sequence[j] < MaxSequence
    /\ numbered \cap unnumbered = {} /\ (FiniteSequences => unnumbered = {})
    /\ command_sequence' = [j \in Joint |-> command_sequence[j] + IF j \in numbered THEN 1 ELSE 0]
    /\ finite' = [j \in Joint |-> (finite[j] \/ j \in numbered) /\ j \notin unnumbered]

\* Mutant: the worker is started whether it ran or not.
Update_AlwaysRestart(numbered, unnumbered) ==
    /\ rt = "update"
    /\ Commands(numbered, unnumbered)
    /\ restart_async_after' = (mode_switch = "prepared")
    /\ rt' = IF mode_switch = "none" THEN "write" ELSE IF Joinable THEN "stop" ELSE "perform"
    /\ RtKeeps
    /\ UNCHANGED <<mode_switch, transport, rt_healthy, rt_errors, control_level, healthy, errors,
                   async_io_thread, flags, exchange, faulted>>

\* The controllers write; then perform_command_mode_switch() if it is due.
Update(numbered, unnumbered) ==
    /\ rt = "update"
    /\ Commands(numbered, unnumbered)
    /\ restart_async_after' = (mode_switch = "prepared" /\ Joinable)
    /\ rt' = IF mode_switch = "none" THEN "write" ELSE IF Joinable THEN "stop" ELSE "perform"
    /\ RtKeeps
    /\ UNCHANGED <<mode_switch, transport, rt_healthy, rt_errors, control_level, healthy, errors,
                   async_io_thread, flags, exchange, faulted>>

StopKeeps == UNCHANGED <<mode_switch, transport, rtlocals, joints, exchange, faulted>>

PerformStop ==
    /\ rt = "stop" /\ RequestStop
    /\ rt' = "stop_notify" /\ RtKeeps /\ StopKeeps
PerformNotify ==
    /\ rt = "stop_notify" /\ Notify
    /\ rt' = "stop_join" /\ RtKeeps /\ StopKeeps /\ UNCHANGED flags
PerformJoin ==
    /\ rt = "stop_join" /\ Join
    /\ rt' = "perform" /\ RtKeeps /\ StopKeeps

\* A claim reads the axis error into its interface, and an error that is only the watchdog's is
\* cleared. An error that is still shown may be in a register that is not read here.
ClaimReads(reread, cleared) ==
    /\ faulted' = [j \in Joint |-> faulted[j] /\ j \notin cleared]
    /\ errors' \in {e \in [Joint -> BOOLEAN] : \A j \in Joint :
                        IF j \in reread THEN e[j] => faulted'[j] \/ errors[j]
                                        ELSE e[j] = errors[j]}

\* A joint with an error loses its level, when the switch gets as far as it.
Masks(passed) ==
    control_level' = [j \in Joint |-> IF mask_faulted_axes /\ errors'[j] /\ j <= passed
                                        THEN UNDEFINED ELSE control_level[j]]

\* Its transactions, unless there is no transport. It returns at the first that fails, but for
\* those of an unclaim; the last one may find the transport lost.
PerformSwitch(passed, s) ==
    /\ rt = "perform"
    /\ s = "ok" => passed = N
    /\ \/ /\ transport = "null" /\ s = "ok"
          /\ UNCHANGED <<transport, faulted, control_level, errors>>
       \/ /\ transport # "null" /\ s \in Answers /\ transport' = Worn(s)
          /\ \E reread \in SUBSET {j \in Joint : control_level[j] # UNDEFINED /\ j <= passed + 1} :
                \E cleared \in SUBSET reread : ClaimReads(reread, cleared)
          /\ Masks(passed)
    /\ rt' = "restart"
    /\ RtKeeps
    /\ UNCHANGED <<mode_switch, rtlocals, command_sequence, finite, healthy, async_io_thread, flags,
                   exchange>>

\* ~RestartAsyncGuard().
PerformRestart ==
    /\ rt = "restart"
    /\ IF restart_async_after THEN Start ELSE UNCHANGED <<async_io_thread, flags>>
    /\ restart_async_after' = FALSE
    /\ mode_switch' = "none"
    /\ rt' = "write"
    /\ RtKeeps
    /\ UNCHANGED <<transport, rt_healthy, rt_errors, joints, exchange, faulted>>

\* write(): the command snapshot, posted as a request.
WritePost ==
    /\ rt = "write" /\ MayCallFromRt
    /\ IF Running
         THEN /\ async_latest_command' = [level |-> control_level, seq |-> command_sequence,
                                      finite |-> finite]
              /\ pending' = TRUE
              /\ rt' = "notify"
         ELSE rt' = "idle" /\ UNCHANGED <<async_latest_command, pending>>
    /\ RtKeeps
    /\ UNCHANGED <<mode_switch, transport, rtlocals, joints, async_io_thread, stop, in_flight,
                   overdue, async_latest_telemetry, faulted>>

WriteNotify ==
    /\ rt = "notify" /\ Notify
    /\ rt' = "idle" /\ RtKeeps /\ StopKeeps /\ UNCHANGED flags

-----------------------------------------------------------------------------
(* Mode switches and lifecycle callbacks, in the service thread.           *)

MayCall == svc = NoCall /\ mode_switch = "none"
SvcKeeps == UNCHANGED <<rt, rtlocals, async_latest_command, cycle, missed>>
Returns(state) == svc' = NoCall /\ lifecycle' = state
GatedOutputs(on) == outputs_enabled' = IF gate_outputs_with_lifecycle THEN on ELSE outputs_enabled

PrepareCommandModeSwitch(levels) ==
    /\ Running /\ MayCall
    /\ control_level' = levels
    /\ mode_switch' = "prepared"
    /\ SvcKeeps
    /\ UNCHANGED <<lifecycle, svc, transport, outputs_enabled, command_sequence, finite, healthy,
                   errors, async_io_thread, flags, async_latest_telemetry, memory, faulted, written,
                   reactivated>>

\* initialize_transport(), which may find no device or fail on the way.
ActivateOpen(found) ==
    /\ lifecycle = "inactive" /\ MayCall /\ ~InRtCall
    /\ IF found
         THEN /\ transport' = "open" /\ svc' = Calling("activate", "body")
              /\ GatedOutputs(TRUE) /\ UNCHANGED lifecycle
         ELSE /\ transport' = "null" /\ Returns("active")
              /\ GatedOutputs(FALSE)
    /\ SvcKeeps
    /\ UNCHANGED <<mode_switch, joints, async_io_thread, flags, async_latest_telemetry, memory,
                   faulted, written, reactivated>>

\* async_io_init_buffers().
InitBuffers ==
    /\ async_latest_command' = NoCommand /\ async_latest_telemetry' = NoTelemetry
    /\ last_sent' = All(NaN) /\ idle_requested' = All(FALSE)
    /\ reactivated' = All(TRUE)

\* The axes' errors are cleared, or a transaction fails; then the worker starts.
ActivateClear(cleared, s) ==
    /\ svc = Calling("activate", "body")
    /\ s \in Answers /\ transport' = Worn(s)
    /\ s = "ok" => cleared = Joint
    /\ faulted' = [j \in Joint |-> faulted[j] /\ j \notin cleared]
    /\ IF s = "ok"
         THEN Returns("active") /\ InitBuffers /\ Start
         ELSE /\ Returns("finalized")
              /\ UNCHANGED <<async_io_thread, flags, exchange, memory, reactivated>>
    /\ UNCHANGED <<mode_switch, outputs_enabled, rt, rtlocals, joints, cycle, missed, written>>

\* on_deactivate, on_cleanup and recover begin with async_io_stop_and_join().
Due(call) == CASE call = "deactivate" -> lifecycle = "active"
               [] call = "cleanup" -> lifecycle = "inactive" /\ ~InRtCall
               [] call = "recover" -> Running /\ ~InRtCall

CallKeeps == UNCHANGED <<lifecycle, mode_switch, outputs_enabled, transport, joints,
                         async_latest_telemetry, memory, faulted, written, reactivated>>

CallStop(call) ==
    /\ MayCall /\ Due(call)
    /\ IF Joinable
         THEN RequestStop /\ svc' = Calling(call, "notify")
         ELSE ResetFlags /\ svc' = Calling(call, "body") /\ UNCHANGED async_io_thread
    /\ SvcKeeps /\ CallKeeps
CallNotify ==
    /\ svc.pc = "notify" /\ Notify
    /\ svc' = [svc EXCEPT !.pc = "join"]
    /\ SvcKeeps /\ CallKeeps /\ UNCHANGED flags
CallJoin ==
    /\ svc.pc = "join" /\ Join
    /\ svc' = [svc EXCEPT !.pc = "body"]
    /\ SvcKeeps /\ CallKeeps

\* Every axis is asked to idle; the first error drops the transport.
OnDeactivate(s) ==
    /\ svc = Calling("deactivate", "body")
    /\ GatedOutputs(FALSE)
    /\ \/ transport = "null" /\ s = "ok" /\ UNCHANGED transport
       \/ /\ transport # "null" /\ s \in Answers
          /\ transport' = IF s = "ok" THEN transport ELSE "null"
    /\ Returns("inactive")
    /\ SvcKeeps
    /\ UNCHANGED <<mode_switch, joints, async_io_thread, flags, async_latest_telemetry, memory,
                   faulted, written, reactivated>>

\* on_cleanup and recover: reset_runtime_state() leaves the worker's side alone.
OnCleanup ==
    /\ svc.call \in {"cleanup", "recover"} /\ svc.pc = "body"
    /\ transport' = "null" /\ outputs_enabled' = FALSE
    /\ control_level' = All(UNDEFINED) /\ command_sequence' = All(0) /\ finite' = All(TRUE)
    /\ healthy' = All(FALSE) /\ errors' = All(FALSE)
    /\ written' = All(NaN)
    /\ Returns(IF svc.call = "cleanup" THEN "unconfigured" ELSE lifecycle)
    /\ SvcKeeps
    /\ UNCHANGED <<mode_switch, async_io_thread, flags, async_latest_telemetry, memory, faulted,
                   reactivated>>

OnConfigure ==
    /\ lifecycle = "unconfigured"
    /\ lifecycle' = "inactive"
    /\ UNCHANGED <<mode_switch, svc, outputs_enabled, transport, rt, rtlocals, joints,
                   async_io_thread, flags, exchange, cycle, memory, world>>

-----------------------------------------------------------------------------
(* The drives and the clock.                                               *)

AxisFault(j) ==
    /\ ~faulted[j]
    /\ faulted' = [faulted EXCEPT ![j] = TRUE] /\ missed' = [missed EXCEPT ![j] = TRUE]
    /\ UNCHANGED <<control, transport, rt, rtlocals, joints, async_io_thread, flags, exchange, cycle,
                   memory, written, reactivated>>

\* async_cycle_deadline_sec passes in a cycle.
DeadlinePasses ==
    /\ in_flight /\ ~overdue
    /\ overdue' = TRUE
    /\ UNCHANGED <<control, transport, rt, rtlocals, joints, async_io_thread, stop, pending,
                   in_flight, exchange, cycle, memory, world>>

-----------------------------------------------------------------------------

Status == {"ok", "soft", "fatal"}

Worker ==
    \/ WorkerCheck
    \/ \E s \in Status : WorkerSensors(s)
    \/ \E i \in Joint, s \in Status : WorkerRead(i, s) \/ WorkerIdleOnFault(i, s) \/ WorkerCommand(i, s)
    \/ WorkerStartWrite
    \/ \E i \in Joint : WorkerMasked(i) \/ WorkerNothing(i)
    \/ WorkerPublish

ControlLoop ==
    \/ ReadSnapshot \/ ReadApply
    \/ \E numbered, unnumbered \in SUBSET Joint : Update(numbered, unnumbered)
    \/ PerformStop \/ PerformNotify \/ PerformJoin
    \/ \E passed \in 0..N, s \in Status : PerformSwitch(passed, s)
    \/ PerformRestart
    \/ WritePost \/ WriteNotify

Callback ==
    \/ CallNotify \/ CallJoin
    \/ \E cleared \in SUBSET Joint, s \in Status : ActivateClear(cleared, s)
    \/ \E s \in Status : OnDeactivate(s)
    \/ OnCleanup

Framework ==
    \/ \E levels \in [Joint -> Levels \cup {UNDEFINED}] : PrepareCommandModeSwitch(levels)
    \/ \E found \in BOOLEAN : ActivateOpen(found)
    \/ \E call \in {"deactivate", "cleanup", "recover"} : CallStop(call)
    \/ OnConfigure

Environment == SpuriousWakeup \/ DeadlinePasses \/ \E j \in Joint : AxisFault(j)

Next == Worker \/ ControlLoop \/ Callback \/ Framework \/ Environment

Spec == Init /\ [][Next]_vars

HostFairness == WF_vars(ControlLoop) /\ WF_vars(Callback)

\* Every transaction ends, at the latest with its timeout, so the worker goes on.
WorkerFairness == WF_vars(Worker)
FairSpec == Spec /\ HostFairness /\ WorkerFairness

\* A transaction may hang, but the clock goes on.
HangSpec == Spec /\ HostFairness /\ WF_vars(DeadlinePasses)

-----------------------------------------------------------------------------
(* Properties.                                                             *)

\* Every variable holds a value of its type.
TypeOK ==
    /\ lifecycle \in {"unconfigured", "inactive", "active", "finalized"}
    /\ mode_switch \in {"none", "prepared"}
    /\ transport \in {"null", "open", "dead"}
    /\ rt \in RtPc
    /\ svc \in [call : Calls, pc : SvcPc]
    /\ {outputs_enabled, restart_async_after, stop, pending, in_flight, overdue} \subseteq BOOLEAN
    /\ control_level \in [Joint -> Levels \cup {UNDEFINED}]
    /\ command_sequence \in [Joint -> Sequence]
    /\ async_io_thread \in [pc : WorkerPc, i : Joint]
    /\ {async_latest_command, command} \subseteq Command
    /\ {async_latest_telemetry, snapshot} \subseteq Telemetry
    /\ {last_sent, written} \subseteq [Joint -> Sequence \cup {NaN}]
    /\ {finite, healthy, errors, rt_healthy, rt_errors, idle_requested, faulted, missed, reactivated}
         \subseteq [Joint -> BOOLEAN]

\* transport_ and the device are used without a lock by the worker in its cycle,
\* by perform_command_mode_switch() and by the lifecycle callbacks: the mode
\* switch and the callbacks never run their bodies while a cycle is under way.
TransportIsExclusive ==
    InCycle => rt # "perform" /\ (svc # NoCall => svc.pc # "body")

\* The worker outlives neither on_deactivate, nor a failed activation, nor
\* on_cleanup, although a mode switch in between stops and starts it; and the
\* cycle flags that read() looks at are down when there is no worker.
NoWorkerLeftBehind == (Joinable => lifecycle = "active") /\ (in_flight => Joinable)

\* async_io_cv_ is notified after async_io_mutex_ was released, by two threads that may be
\* in between at once: a worker that sleeps on a request has a notification coming, and
\* whoever joins it has a worker to join that was told to stop and does not sleep.
Joining == rt = "stop_join" \/ svc.pc = "join"
NoLostWakeup ==
    /\ async_io_thread.pc = "waiting" /\ pending
         => rt \in {"stop_notify", "notify"} \/ svc.pc = "notify"
    /\ Joining => stop /\ async_io_thread.pc \notin {"none", "waiting"}

\* gate_stale_commands: a sequence that the drive has acknowledged is not sent
\* again by the worker, whatever stops, restarts and lost acknowledgements there
\* are between the two cycles, until on_activate forgets what was sent.
SentOnce ==
    [][gate_stale_commands =>
         \A j \in Joint : WorkerCommand(j, "ok") => command.seq[j] # written[j] \/ reactivated[j]]_vars

\* mask_faulted_axes: the worker commands a faulted axis only if the fault came
\* after the last sample of the axis that it accepted, although the error
\* registers pass through the published snapshot and back.
FaultedAxisIsMasked ==
    [][mask_faulted_axes =>
         \A j \in Joint : WorkerCommand(j, "ok") /\ faulted[j] => missed[j]]_vars

\* async_io_stop_and_join() returns, in the control loop and in the service
\* thread, whatever the worker was doing when it was called, if it does not hang.
StopReturns ==
    WorkerFairness =>
    /\ rt \in {"stop", "stop_notify", "stop_join"} ~> rt = "perform"
    /\ svc.pc \in {"notify", "join"} ~> svc.pc = "body"

\* A cycle that hangs is reported: read() shows every joint unhealthy from some
\* time on, unless the control loop itself is stuck behind the worker, in the
\* join of a mode switch or of a callback that is serialised with it.
RtIsStuck == rt = "stop_join" \/ ~MayCallFromRt
HangIsReported ==
    <>[](in_flight /\ overdue) => <>[]RtIsStuck \/ \A j \in Joint : <>[]~healthy[j]
=============================================================================
