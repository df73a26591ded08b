------------------------ MODULE ODriveHardwareInterface ------------------------
(***************************************************************************)
(* The hardware component of odrive_hardware_interface, synchronous I/O    *)
(* (enable_async_io = false): the control loop's read(), mode switch and   *)
(* write(), the lifecycle callbacks of the service thread, and the drive's *)
(* axes with their watchdogs.  One action is one USB transaction, or one   *)
(* step of a handler between two of them.                                  *)
(***************************************************************************)
EXTENDS Naturals, FiniteSets

CONSTANTS
    N,                                \* number of joints
    Levels,                           \* command interfaces that are exported
    Faults,                           \* faults the drives may report
    WatchdogJoints,                   \* joints with enable_watchdog = true
    gate_outputs_with_lifecycle,
    mask_faulted_axes,
    request_idle_on_axis_fault,
    gate_stale_commands,              \* gate_stale_commands_with_command_sequence
    Statuses,                         \* ways a USB transaction may end
    FeedbackLimits,                   \* feedback limits are configured
    HostRestarts                      \* the host process may die and be started again

Joint == 1..N
UNDEFINED == "UNDEFINED"
AxisControlLevel == {"EFFORT", "VELOCITY", "POSITION"}

\* The registers a fault shows in: AXIS__ERROR holds the watchdog bit and the
\* other axis bits; "motor" stands for the motor, encoder and controller ones.
AxisRegister == {"watchdog", "axis"}

ASSUME ConstantsAssumption ==
    /\ N \in Nat \ {0}
    /\ Levels \subseteq AxisControlLevel
    /\ Faults \subseteq AxisRegister \cup {"motor"}
    /\ "watchdog" \in Faults
    /\ WatchdogJoints \subseteq Joint
    /\ gate_outputs_with_lifecycle \in BOOLEAN
    /\ mask_faulted_axes \in BOOLEAN
    /\ request_idle_on_axis_fault \in BOOLEAN
    /\ gate_stale_commands \in BOOLEAN
    /\ Statuses \subseteq {"ok", "soft", "fatal"}
    /\ FeedbackLimits \in BOOLEAN
    /\ HostRestarts \in BOOLEAN

VARIABLES
    lifecycle,        \* state of the component, kept by the framework
    mode_switch,      \* "prepared": perform_command_mode_switch is due
    rt,               \* control-loop thread: where it is, and at which joint
    svc,              \* service thread inside a lifecycle callback, likewise
    transport,        \* transport_: "null", "open", or "dead" (sticky error)
    outputs_enabled,
    control_level,
    joint_claimed,
    errors,           \* the joint's error interfaces that hold a fault
    healthy,
    idle_requested_on_fault,
    new_command,      \* command_sequence differs from last_sent_command_sequence
    drive,            \* external: each axis as its firmware holds it
    lapse,            \* history: an IDLE request of this axis was not acknowledged, or
                      \* on_activate found it running, and it was not armed since
    missed            \* history: a fault arose since the last telemetry accepted

host == <<control_level, joint_claimed, errors, healthy, idle_requested_on_fault, new_command>>
threads == <<lifecycle, mode_switch, svc>>
vars == <<lifecycle, mode_switch, rt, svc, transport, outputs_enabled, host, drive, lapse, missed>>

PerformPc == {"perform", "claim_wd", "claim_feed", "claim_read", "claim_clear",
              "unclaim_idle", "unclaim_wd", "mask", "switch"}
RtPc == {"idle", "read", "update", "await_write", "write"} \cup PerformPc
DeactivatePc == {"deactivate_lock", "deactivate_idle"}
SvcPc == {"none", "activate_configure", "activate_enable", "activate_clear"} \cup DeactivatePc

-----------------------------------------------------------------------------
(* The axes.  An axis holds its state, whether ENABLE_WATCHDOG is set,     *)
(* whether it was fed since the last tick, and its faults.                 *)

Axis == [state : {"idle", "closed"}, wd : BOOLEAN, fed : BOOLEAN, err : SUBSET Faults]

RequestIdle(a) == [a EXCEPT !.state = "idle"]
\* Closed loop is refused while an error is latched.
RequestClosedLoop(a) == IF a.err = {} THEN [a EXCEPT !.state = "closed"] ELSE a
EnableWatchdog(a, on) == [a EXCEPT !.wd = on]
FeedWatchdog(a) == [a EXCEPT !.fed = TRUE]
ClearErrors(a) == [a EXCEPT !.err = {}]
Latch(a, f) == [a EXCEPT !.err = @ \cup {f}]

\* One transaction with axis j ends with status s.  Without an acknowledgement
\* the request may or may not have reached the drive; a fatal status (timeout,
\* no device) sticks to the transport, which then answers it to every call.
Transfer(j, after, s) ==
    \/ /\ transport = "open"
       /\ s \in Statuses
       /\ \/ drive' = [drive EXCEPT ![j] = after]
          \/ s # "ok" /\ drive' = drive
    \/ /\ transport = "dead"
       /\ s = "fatal"
       /\ drive' = drive

Worn(s) == IF s = "fatal" THEN "dead" ELSE transport

-----------------------------------------------------------------------------
(* Helpers.                                                                *)

At(pc, i) == [pc |-> pc, i |-> i]

\* The loop over the joints goes on, or the handler is left for pc.
NextJoint(loop, i, done) == IF i < N THEN At(loop, i + 1) ELSE At(done, 1)

\* Mutant: only the axis error register masks a joint.
HasFault_AxisRegisterOnly(j) == mask_faulted_axes /\ errors[j] \cap AxisRegister # {}

HasFault(j) == mask_faulted_axes /\ errors[j] # {}
Outputs == ~gate_outputs_with_lifecycle \/ outputs_enabled
AllUnhealthy == [j \in Joint |-> FALSE]
Running == lifecycle \in {"inactive", "active"}

\* reset_runtime_state(): command_sequence becomes 0 and the last sent one NaN.
ResetRuntimeState ==
    /\ outputs_enabled' = FALSE
    /\ control_level' = [j \in Joint |-> UNDEFINED]
    /\ joint_claimed' = [j \in Joint |-> FALSE]
    /\ errors' = [j \in Joint |-> {}]
    /\ healthy' = AllUnhealthy
    /\ idle_requested_on_fault' = [j \in Joint |-> FALSE]
    /\ new_command' = [j \in Joint |-> gate_stale_commands]

Init ==
    /\ lifecycle = "inactive"
    /\ mode_switch = "none"
    /\ rt = At("idle", 1)
    /\ svc = At("none", 1)
    /\ transport = "null"
    /\ outputs_enabled = FALSE
    /\ control_level = [j \in Joint |-> UNDEFINED]
    /\ joint_claimed = [j \in Joint |-> FALSE]
    /\ errors = [j \in Joint |-> {}]
    /\ healthy = AllUnhealthy
    /\ idle_requested_on_fault = [j \in Joint |-> FALSE]
    /\ new_command = [j \in Joint |-> gate_stale_commands]
    /\ drive = [j \in Joint |-> [state |-> "idle", wd |-> FALSE, fed |-> FALSE, err |-> {}]]
    /\ lapse = [j \in Joint |-> FALSE]
    /\ missed = [j \in Joint |-> FALSE]

-----------------------------------------------------------------------------
(* read(): the shared lock of state_mutex_ is held from StartRead until    *)
(* the last joint.                                                         *)

InRtCall == rt.pc \in RtPc \ {"idle", "update", "await_write"}
\* Only on_deactivate overlaps read() and write(); the framework serialises the
\* other callbacks with the control loop's calls.
MayCallFromRt == svc.pc \in {"none"} \cup DeactivatePc
DeactivateHoldsLock == svc.pc = "deactivate_idle"
RtHoldsLock == rt.pc \in {"read", "write"}

\* Mutant: read() returns for want of a transport before it clears the health flags.
StartRead_EarlyReturn(s) ==
    /\ rt.pc = "idle" /\ Running /\ MayCallFromRt /\ ~DeactivateHoldsLock
    /\ \/ /\ transport = "null" /\ s = "ok"
          /\ rt' = At("update", 1)
          /\ UNCHANGED <<transport, healthy>>
       \/ /\ transport # "null"
          /\ healthy' = AllUnhealthy
          /\ s \in IF transport = "dead" THEN {"fatal"} ELSE Statuses
          /\ transport' = Worn(s)
          /\ rt' = IF s = "fatal" THEN At("update", 1) ELSE At("read", 1)
    /\ UNCHANGED <<threads, outputs_enabled, control_level, joint_claimed, errors,
                   idle_requested_on_fault, new_command, drive, lapse, missed>>

StartRead(s) ==
    /\ rt.pc = "idle" /\ Running /\ MayCallFromRt /\ ~DeactivateHoldsLock
    /\ healthy' = AllUnhealthy
    /\ \/ transport = "null" /\ s = "ok" /\ rt' = At("update", 1) /\ UNCHANGED transport
       \/ \* the sensors' and the drives' own registers
          /\ transport # "null"
          /\ s \in IF transport = "dead" THEN {"fatal"} ELSE Statuses
          /\ transport' = Worn(s)
          /\ rt' = IF s = "fatal" THEN At("update", 1) ELSE At("read", 1)
    /\ UNCHANGED <<threads, outputs_enabled, control_level, joint_claimed, errors,
                   idle_requested_on_fault, new_command, drive, lapse, missed>>

\* read_axis_telemetry() and the feedback checks of one joint.
ReadJoint(i, s) ==
    /\ rt = At("read", i)
    /\ Transfer(i, drive[i], s)
    /\ transport' = Worn(s)
    /\ rt' = IF s = "fatal" THEN At("update", 1) ELSE NextJoint("read", i, "update")
    /\ \/ /\ s = "ok"
          /\ errors' = [errors EXCEPT ![i] = drive[i].err]
          /\ healthy' = [healthy EXCEPT ![i] = drive[i].err = {}]
          /\ missed' = [missed EXCEPT ![i] = FALSE]
       \/ \* rejected sample: the registers of the sample are dropped with it
          /\ s = "ok" /\ FeedbackLimits
          /\ healthy' = [healthy EXCEPT ![i] = FALSE]
          /\ UNCHANGED <<errors, missed>>
       \/ /\ s = "soft"
          /\ healthy' = [healthy EXCEPT ![i] = FALSE]
          /\ UNCHANGED <<errors, missed>>
       \/ /\ s = "fatal"
          /\ healthy' = AllUnhealthy
          /\ UNCHANGED <<errors, missed>>
    /\ UNCHANGED <<threads, outputs_enabled, control_level, joint_claimed,
                   idle_requested_on_fault, new_command, lapse>>

-----------------------------------------------------------------------------
(* update(): the controllers run; a prepared mode switch is performed by   *)
(* the control loop.                                                       *)

Update(commanded) ==
    /\ rt.pc = "update"
    /\ commanded \subseteq {j \in Joint : gate_stale_commands /\ control_level[j] # UNDEFINED}
    /\ new_command' = [j \in Joint |-> new_command[j] \/ j \in commanded]
    /\ \/ /\ mode_switch = "prepared" /\ transport # "null"
          /\ rt' = At("perform", 1)
          /\ UNCHANGED mode_switch
       \/ /\ mode_switch = "none" \/ transport = "null"
          /\ rt' = At("await_write", 1)
          /\ mode_switch' = "none"
    /\ UNCHANGED <<lifecycle, svc, transport, outputs_enabled, control_level, joint_claimed,
                   errors, healthy, idle_requested_on_fault, drive, lapse, missed>>

\* prepare_command_mode_switch() in the service thread.
Requested(interfaces) ==
    CASE "POSITION" \in interfaces -> "POSITION"
      [] "VELOCITY" \in interfaces -> "VELOCITY"
      [] OTHER -> "EFFORT"

PrepareCommandModeSwitch(stop, start) ==
    /\ Running /\ svc.pc = "none" /\ mode_switch = "none"
    /\ control_level' = [j \in Joint |-> IF start[j] # {} THEN Requested(start[j])
                                         ELSE IF j \in stop THEN UNDEFINED
                                         ELSE control_level[j]]
    /\ mode_switch' = "prepared"
    /\ UNCHANGED <<lifecycle, rt, svc, transport, outputs_enabled, joint_claimed, errors, healthy,
                   idle_requested_on_fault, new_command, drive, lapse, missed>>

-----------------------------------------------------------------------------
(* perform_command_mode_switch(): the loop over the joints.                *)

InPerform(pc, i) == rt = At(pc, i)
PerformReturns == rt' = At("await_write", 1) /\ mode_switch' = "none"
PerformGoesOn(pc, i) == rt' = At(pc, i) /\ UNCHANGED mode_switch
PerformNextJoint(i) ==
    IF i < N THEN PerformGoesOn("perform", i + 1) ELSE PerformReturns

SetLapse(j, b) == lapse' = [lapse EXCEPT ![j] = b]

PerformKeeps == UNCHANGED <<lifecycle, svc, outputs_enabled, healthy, idle_requested_on_fault,
                            new_command, missed>>

\* Mutant: unclaiming disarms the watchdog without the request to stop before it.
PerformJoint_NoIdle(i) ==
    /\ InPerform("perform", i)
    /\ LET is_claimed == control_level[i] # UNDEFINED
           was_claimed == joint_claimed[i]
       IN PerformGoesOn(IF is_claimed /\ ~was_claimed
                          THEN IF i \in WatchdogJoints THEN "claim_wd" ELSE "claim_read"
                        ELSE IF ~is_claimed /\ was_claimed THEN "unclaim_wd"
                        ELSE "mask", i)
    /\ PerformKeeps
    /\ UNCHANGED <<transport, control_level, joint_claimed, errors, drive, lapse>>

\* Mutant: a claimed joint is not armed.
PerformJoint_NotArmed(i) ==
    /\ InPerform("perform", i)
    /\ PerformGoesOn(IF control_level[i] # UNDEFINED /\ ~joint_claimed[i] THEN "claim_read"
                     ELSE IF control_level[i] = UNDEFINED /\ joint_claimed[i] THEN "unclaim_idle"
                     ELSE "mask", i)
    /\ PerformKeeps
    /\ UNCHANGED <<transport, control_level, joint_claimed, errors, drive, lapse>>

PerformJoint(i) ==
    /\ InPerform("perform", i)
    /\ LET is_claimed == control_level[i] # UNDEFINED
           was_claimed == joint_claimed[i]
       IN PerformGoesOn(IF is_claimed /\ ~was_claimed
                          THEN IF i \in WatchdogJoints THEN "claim_wd" ELSE "claim_read"
                        ELSE IF ~is_claimed /\ was_claimed THEN "unclaim_idle"
                        ELSE "mask", i)
    /\ PerformKeeps
    /\ UNCHANGED <<transport, control_level, joint_claimed, errors, drive, lapse>>

ClaimEnableWatchdog(i, s) ==
    /\ InPerform("claim_wd", i)
    /\ Transfer(i, EnableWatchdog(drive[i], TRUE), s)
    /\ transport' = Worn(s)
    /\ IF s = "ok" THEN PerformGoesOn("claim_feed", i) /\ SetLapse(i, FALSE)
                   ELSE PerformReturns /\ UNCHANGED lapse
    /\ PerformKeeps
    /\ UNCHANGED <<control_level, joint_claimed, errors>>

ClaimFeedWatchdog(i, s) ==
    /\ InPerform("claim_feed", i)
    /\ Transfer(i, FeedWatchdog(drive[i]), s)
    /\ transport' = Worn(s)
    /\ IF s = "ok" THEN PerformGoesOn("claim_read", i) ELSE PerformReturns
    /\ PerformKeeps
    /\ UNCHANGED <<control_level, joint_claimed, errors, lapse>>

\* AXIS__ERROR only: the other registers stay as the last read() left them.
ClaimReadError(i, s) ==
    /\ InPerform("claim_read", i)
    /\ Transfer(i, drive[i], s)
    /\ transport' = Worn(s)
    /\ LET axis_error == drive[i].err \cap AxisRegister
       IN IF s = "ok"
            THEN /\ errors' = [errors EXCEPT ![i] = (@ \ AxisRegister) \cup axis_error]
                 /\ PerformGoesOn(IF axis_error = {"watchdog"} THEN "claim_clear" ELSE "mask", i)
            ELSE PerformReturns /\ UNCHANGED errors
    /\ PerformKeeps
    /\ UNCHANGED <<control_level, joint_claimed, lapse>>

ClaimClearErrors(i, s) ==
    /\ InPerform("claim_clear", i)
    /\ Transfer(i, ClearErrors(drive[i]), s)
    /\ transport' = Worn(s)
    /\ IF s = "ok"
         THEN /\ errors' = [errors EXCEPT ![i] = @ \ AxisRegister]
              /\ PerformGoesOn("mask", i)
         ELSE PerformReturns /\ UNCHANGED errors
    /\ PerformKeeps
    /\ UNCHANGED <<control_level, joint_claimed, lapse>>

\* Unclaiming is best effort: both requests are made whatever becomes of them.
UnclaimIdle(i, s) ==
    /\ InPerform("unclaim_idle", i)
    /\ Transfer(i, RequestIdle(drive[i]), s)
    /\ transport' = Worn(s)
    /\ SetLapse(i, lapse[i] \/ s # "ok")
    /\ PerformGoesOn("unclaim_wd", i)
    /\ PerformKeeps
    /\ UNCHANGED <<control_level, joint_claimed, errors>>

UnclaimDisableWatchdog(i, s) ==
    /\ InPerform("unclaim_wd", i)
    /\ Transfer(i, EnableWatchdog(drive[i], FALSE), s)
    /\ transport' = Worn(s)
    /\ PerformGoesOn("mask", i)
    /\ PerformKeeps
    /\ UNCHANGED <<control_level, joint_claimed, errors, lapse>>

MaskFaultedJoint(i) ==
    /\ InPerform("mask", i)
    /\ IF HasFault(i)
         THEN /\ control_level' = [control_level EXCEPT ![i] = UNDEFINED]
              /\ joint_claimed' = [joint_claimed EXCEPT ![i] = FALSE]
              /\ PerformNextJoint(i)
         ELSE /\ PerformGoesOn("switch", i)
              /\ UNCHANGED <<control_level, joint_claimed>>
    /\ PerformKeeps
    /\ UNCHANGED <<transport, errors, drive, lapse>>

\* perform_axis_mode_switch(): only its last request changes the axis state
\* (AxisControl has the requests before it).
SwitchAxisMode(i, s) ==
    /\ InPerform("switch", i)
    /\ LET idle == control_level[i] = UNDEFINED
       IN /\ Transfer(i, IF idle THEN RequestIdle(drive[i]) ELSE RequestClosedLoop(drive[i]), s)
          /\ SetLapse(i, lapse[i] \/ (idle /\ s # "ok"))
          /\ IF s = "ok"
               THEN /\ joint_claimed' = [joint_claimed EXCEPT ![i] = ~idle]
                    /\ PerformNextJoint(i)
               ELSE PerformReturns /\ UNCHANGED joint_claimed
    /\ transport' = Worn(s)
    /\ PerformKeeps
    /\ UNCHANGED <<control_level, errors>>

-----------------------------------------------------------------------------
(* write(): the unique lock of state_mutex_ is held from StartWrite until  *)
(* the last joint.                                                         *)

\* Mutant: write() does not look at the lifecycle gate.
StartWrite_Ungated ==
    /\ rt.pc = "await_write" /\ MayCallFromRt /\ ~DeactivateHoldsLock
    /\ rt' = IF Running /\ transport # "null" THEN At("write", 1) ELSE At("idle", 1)
    /\ UNCHANGED <<threads, transport, outputs_enabled, host, drive, lapse, missed>>

StartWrite ==
    /\ rt.pc = "await_write" /\ MayCallFromRt /\ ~DeactivateHoldsLock
    /\ rt' = IF Running /\ transport # "null" /\ Outputs THEN At("write", 1) ELSE At("idle", 1)
    /\ UNCHANGED <<threads, transport, outputs_enabled, host, drive, lapse, missed>>

\* A fail-fast status drops the transport and ends write().
WriteGoesOn(i, s) ==
    IF s = "fatal" THEN rt' = At("idle", 1) /\ transport' = "null"
                   ELSE rt' = NextJoint("write", i, "idle") /\ UNCHANGED transport

WriteKeeps == UNCHANGED <<threads, outputs_enabled, control_level, joint_claimed, errors, healthy,
                          lapse, missed>>

MustRequestIdle(i) == request_idle_on_axis_fault /\ ~idle_requested_on_fault[i]

\* Mutant: a request that failed counts as made.
WriteIdleOnFault_Once(i, s) ==
    /\ rt = At("write", i) /\ HasFault(i) /\ MustRequestIdle(i)
    /\ Transfer(i, RequestIdle(drive[i]), s)
    /\ idle_requested_on_fault' = [idle_requested_on_fault EXCEPT ![i] = TRUE]
    /\ WriteGoesOn(i, s)
    /\ WriteKeeps
    /\ UNCHANGED new_command

WriteIdleOnFault(i, s) ==
    /\ rt = At("write", i) /\ HasFault(i) /\ MustRequestIdle(i)
    /\ Transfer(i, RequestIdle(drive[i]), s)
    /\ idle_requested_on_fault' = [idle_requested_on_fault EXCEPT ![i] = s = "ok"]
    /\ WriteGoesOn(i, s)
    /\ WriteKeeps
    /\ UNCHANGED new_command

WriteMasked(i) ==
    /\ rt = At("write", i) /\ HasFault(i) /\ ~MustRequestIdle(i)
    /\ WriteGoesOn(i, "ok")
    /\ WriteKeeps
    /\ UNCHANGED <<idle_requested_on_fault, new_command, drive>>

Stale(i) == gate_stale_commands /\ ~new_command[i]

\* A stale command is skipped; a joint without a control level sends nothing.
WriteNothing(i) ==
    /\ rt = At("write", i) /\ ~HasFault(i)
    /\ Stale(i) \/ control_level[i] = UNDEFINED
    /\ idle_requested_on_fault' = [idle_requested_on_fault EXCEPT ![i] = FALSE]
    /\ new_command' = [new_command EXCEPT ![i] = FALSE]
    /\ WriteGoesOn(i, "ok")
    /\ WriteKeeps
    /\ UNCHANGED drive

\* write_axis_command(): the setpoints and, last, the watchdog feed.
WriteCommand(i, s) ==
    /\ rt = At("write", i) /\ ~HasFault(i)
    /\ ~Stale(i) /\ control_level[i] # UNDEFINED
    /\ Transfer(i, IF i \in WatchdogJoints THEN FeedWatchdog(drive[i]) ELSE drive[i], s)
    /\ idle_requested_on_fault' = [idle_requested_on_fault EXCEPT ![i] = FALSE]
    /\ new_command' = [new_command EXCEPT ![i] = @ /\ s # "ok"]
    /\ WriteGoesOn(i, s)
    /\ WriteKeeps

-----------------------------------------------------------------------------
(* Lifecycle callbacks, in the service thread.                             *)

MayCallLifecycle == svc.pc = "none" /\ mode_switch = "none"
CallbackKeeps == UNCHANGED <<mode_switch, rt>>
Returns(state) == svc' = At("none", 1) /\ lifecycle' = state
GatedOutputs(on) == outputs_enabled' = IF gate_outputs_with_lifecycle THEN on ELSE outputs_enabled

\* on_activate: initialize_transport() opens the devices, or leaves the
\* component active without a transport.
ActivateOpen(found) ==
    /\ lifecycle = "inactive" /\ MayCallLifecycle /\ ~InRtCall
    /\ IF found
         THEN /\ transport' = "open"
              /\ svc' = At("activate_configure", 1)
              /\ UNCHANGED <<lifecycle, outputs_enabled>>
         ELSE /\ transport' = "null"
              /\ Returns("active")
              /\ GatedOutputs(FALSE)
    /\ CallbackKeeps
    /\ UNCHANGED <<host, drive, lapse, missed>>

\* initialize_transport() for one joint; its last write disarms the watchdog.
ActivateConfigure(i, s) ==
    /\ svc = At("activate_configure", i)
    /\ Transfer(i, EnableWatchdog(drive[i], FALSE), s)
    /\ SetLapse(i, lapse[i] \/ drive[i].state = "closed")
    /\ IF s = "ok"
         THEN /\ svc' = NextJoint("activate_configure", i, "activate_enable")
              /\ UNCHANGED <<lifecycle, outputs_enabled, transport>>
         ELSE /\ transport' = "null"
              /\ Returns("active")
              /\ GatedOutputs(FALSE)
    /\ CallbackKeeps
    /\ UNCHANGED <<host, missed>>

ActivateEnable ==
    /\ svc.pc = "activate_enable"
    /\ GatedOutputs(TRUE)
    /\ idle_requested_on_fault' = [j \in Joint |-> FALSE]
    /\ joint_claimed' = [j \in Joint |-> FALSE]
    /\ svc' = At("activate_clear", 1)
    /\ CallbackKeeps
    /\ UNCHANGED <<lifecycle, transport, control_level, errors, healthy, new_command, drive, lapse,
                   missed>>

\* An error here fails the activation; the framework finalises the component.
ActivateClear(i, s) ==
    /\ svc = At("activate_clear", i)
    /\ Transfer(i, ClearErrors(drive[i]), s)
    /\ transport' = Worn(s)
    /\ IF s # "ok" THEN Returns("finalized")
       ELSE IF i < N THEN svc' = At("activate_clear", i + 1) /\ UNCHANGED lifecycle
       ELSE Returns("active")
    /\ CallbackKeeps
    /\ UNCHANGED <<outputs_enabled, host, lapse, missed>>

\* on_deactivate: close the gate, then wait for state_mutex_.
DeactivateGate ==
    /\ lifecycle = "active" /\ MayCallLifecycle
    /\ GatedOutputs(FALSE)
    /\ svc' = At("deactivate_lock", 1)
    /\ CallbackKeeps
    /\ UNCHANGED <<lifecycle, transport, host, drive, lapse, missed>>

\* Mutant: on_deactivate does not take state_mutex_.
DeactivateLock_NoLock ==
    /\ svc.pc = "deactivate_lock"
    /\ IF transport = "null" THEN Returns("inactive")
       ELSE svc' = At("deactivate_idle", 1) /\ UNCHANGED lifecycle
    /\ CallbackKeeps
    /\ UNCHANGED <<transport, outputs_enabled, host, drive, lapse, missed>>

DeactivateLock ==
    /\ svc.pc = "deactivate_lock" /\ ~RtHoldsLock
    /\ IF transport = "null" THEN Returns("inactive")
       ELSE svc' = At("deactivate_idle", 1) /\ UNCHANGED lifecycle
    /\ CallbackKeeps
    /\ UNCHANGED <<transport, outputs_enabled, host, drive, lapse, missed>>

\* The first error drops the transport and ends the loop.
DeactivateIdle(i, s) ==
    /\ svc = At("deactivate_idle", i)
    /\ Transfer(i, RequestIdle(drive[i]), s)
    /\ transport' = IF s = "ok" THEN transport ELSE "null"
    /\ IF s = "ok" /\ i < N THEN svc' = At("deactivate_idle", i + 1) /\ UNCHANGED lifecycle
       ELSE Returns("inactive")
    /\ CallbackKeeps
    /\ UNCHANGED <<outputs_enabled, host, lapse, missed>>

OnCleanup ==
    /\ lifecycle = "inactive" /\ MayCallLifecycle /\ ~InRtCall
    /\ lifecycle' = "unconfigured"
    /\ transport' = "null"
    /\ ResetRuntimeState
    /\ UNCHANGED <<mode_switch, rt, svc, drive, lapse, missed>>

OnConfigure ==
    /\ lifecycle = "unconfigured"
    /\ lifecycle' = "inactive"
    /\ UNCHANGED <<mode_switch, rt, svc, transport, outputs_enabled, host, drive, lapse, missed>>

Recover ==
    /\ Running /\ MayCallLifecycle /\ ~InRtCall
    /\ transport' = "null"
    /\ ResetRuntimeState
    /\ UNCHANGED <<lifecycle, mode_switch, rt, svc, drive, lapse, missed>>

\* The host process dies and is started again; the drives go on meanwhile.
HostRestart ==
    /\ HostRestarts
    /\ lifecycle' = "inactive"
    /\ mode_switch' = "none"
    /\ rt' = At("idle", 1)
    /\ svc' = At("none", 1)
    /\ transport' = "null"
    /\ ResetRuntimeState
    /\ UNCHANGED <<drive, lapse, missed>>

-----------------------------------------------------------------------------
(* The drives.                                                             *)

\* Part of the watchdog timeout passes without a feed.
WatchdogTick(j) ==
    /\ drive[j].fed
    /\ drive' = [drive EXCEPT ![j].fed = FALSE]
    /\ UNCHANGED <<threads, rt, transport, outputs_enabled, host, lapse, missed>>

\* The timeout has passed: the axis latches WATCHDOG_TIMER_EXPIRED and stops.
WatchdogExpire(j) ==
    /\ drive[j].wd /\ ~drive[j].fed /\ "watchdog" \notin drive[j].err
    /\ drive' = [drive EXCEPT ![j] = RequestIdle(Latch(@, "watchdog"))]
    /\ missed' = [missed EXCEPT ![j] = TRUE]
    /\ UNCHANGED <<threads, rt, transport, outputs_enabled, host, lapse>>

\* Any other fault; the axis stops, or is left to the host to stop.
AxisFault(j, f, stops) ==
    /\ f \notin drive[j].err
    /\ drive' = [drive EXCEPT ![j] = IF stops THEN RequestIdle(Latch(@, f)) ELSE Latch(@, f)]
    /\ missed' = [missed EXCEPT ![j] = TRUE]
    /\ UNCHANGED <<threads, rt, transport, outputs_enabled, host, lapse>>

-----------------------------------------------------------------------------

RtTransaction(i, s) ==
    \/ ReadJoint(i, s)
    \/ ClaimEnableWatchdog(i, s) \/ ClaimFeedWatchdog(i, s)
    \/ ClaimReadError(i, s) \/ ClaimClearErrors(i, s)
    \/ UnclaimIdle(i, s) \/ UnclaimDisableWatchdog(i, s)
    \/ SwitchAxisMode(i, s)
    \/ WriteIdleOnFault(i, s) \/ WriteCommand(i, s)

ControlLoop ==
    \/ \E s \in {"ok", "soft", "fatal"} :
         \/ StartRead(s)
         \/ \E i \in Joint : RtTransaction(i, s)
    \/ \E commanded \in SUBSET Joint : Update(commanded)
    \/ \E i \in Joint : PerformJoint(i) \/ MaskFaultedJoint(i)
    \/ StartWrite
    \/ \E i \in Joint : WriteMasked(i) \/ WriteNothing(i)

\* The steps inside a callback that has been called.
Callback ==
    \/ \E i \in Joint, s \in {"ok", "soft", "fatal"} :
         ActivateConfigure(i, s) \/ ActivateClear(i, s) \/ DeactivateIdle(i, s)
    \/ ActivateEnable
    \/ DeactivateLock

Framework ==
    \/ \E stop \in SUBSET Joint, start \in [Joint -> SUBSET Levels] :
         PrepareCommandModeSwitch(stop, start)
    \/ \E found \in BOOLEAN : ActivateOpen(found)
    \/ DeactivateGate
    \/ OnCleanup \/ OnConfigure \/ Recover
    \/ HostRestart

Drives ==
    \E j \in Joint :
        \/ WatchdogTick(j)
        \/ WatchdogExpire(j)
        \/ \E f \in Faults \ {"watchdog"}, stops \in BOOLEAN : AxisFault(j, f, stops)

Next == ControlLoop \/ Callback \/ Framework \/ Drives

Spec == Init /\ [][Next]_vars

\* The drives' timers run by themselves.
DriveFairness == \A j \in Joint : WF_vars(WatchdogTick(j)) /\ WF_vars(WatchdogExpire(j))

\* Nothing is assumed of the host: its threads may hang, or the process die.
DriveFairSpec == Spec /\ DriveFairness

\* The control loop is periodic, a callback that was called goes on, and the
\* service thread is not starved of state_mutex_.
HostFairness == WF_vars(ControlLoop) /\ WF_vars(Callback) /\ SF_vars(DeactivateLock)
FairSpec == DriveFairSpec /\ HostFairness

-----------------------------------------------------------------------------
(* Properties.                                                             *)

\* Every variable holds a value of its type.
TypeOK ==
    /\ lifecycle \in {"unconfigured", "inactive", "active", "finalized"}
    /\ mode_switch \in {"none", "prepared"}
    /\ rt \in [pc : RtPc, i : Joint]
    /\ svc \in [pc : SvcPc, i : Joint]
    /\ transport \in {"null", "open", "dead"}
    /\ outputs_enabled \in BOOLEAN
    /\ control_level \in [Joint -> Levels \cup {UNDEFINED}]
    /\ joint_claimed \in [Joint -> BOOLEAN]
    /\ errors \in [Joint -> SUBSET Faults]
    /\ healthy \in [Joint -> BOOLEAN]
    /\ idle_requested_on_fault \in [Joint -> BOOLEAN]
    /\ new_command \in [Joint -> BOOLEAN]
    /\ drive \in [Joint -> Axis]
    /\ lapse \in [Joint -> BOOLEAN]
    /\ missed \in [Joint -> BOOLEAN]

\* transport_ is dereferenced all through read(), write(), the mode switch and
\* the callbacks after one null check at their start: nobody resets it meanwhile.
TransportStaysWhileUsed ==
    /\ rt.pc \in {"read", "write"} \cup PerformPc => transport # "null"
    /\ svc.pc \in {"activate_configure", "activate_enable", "activate_clear", "deactivate_idle"}
         => transport # "null"

\* With gate_outputs_with_lifecycle a watchdog is fed by write() only between the
\* component's activation and the return of on_deactivate, although the gate is
\* read once at the start of write() and closed by another thread.
Feeds(j) == rt.pc = "write" /\ ~drive[j].fed /\ drive'[j].fed
CommandsOnlyWhileActive ==
    [][gate_outputs_with_lifecycle => \A j \in Joint : Feeds(j) => lifecycle = "active"]_vars

\* An axis with enable_watchdog never runs in closed loop with its watchdog off,
\* unless an IDLE request for it was not acknowledged or it was found running at
\* activation, and it was not armed again since.
Watched(j) == drive[j].wd \/ lapse[j]
ClosedLoopIsWatched ==
    \A j \in WatchdogJoints : drive[j].state = "closed" => Watched(j)

\* mask_faulted_axes: the watchdog of a faulted axis is fed by write() only if
\* the fault came after the last telemetry of the axis that was accepted.
FaultedAxisIsMasked ==
    [][mask_faulted_axes =>
         \A j \in Joint : Feeds(j) /\ drive[j].err # {} => missed[j]]_vars

\* Whatever the host does or stops doing: an axis whose watchdog is not fed any
\* more does not run for ever, but for the lapses of ClosedLoopIsWatched.
UnfedAxisStops ==
    \A j \in WatchdogJoints :
        <>[]~drive[j].fed => []<>(drive[j].state = "idle" \/ lapse[j])

\* The drive does not lose every sample, nor every IDLE request, of a transport that works.
GetsThrough(j) == SF_vars(ReadJoint(j, "ok")) /\ SF_vars(WriteIdleOnFault(j, "ok"))

\* request_idle_on_axis_fault: an axis that runs with a fault is stopped, however often its
\* sample and write()'s IDLE request are lost, as long as the component is active with its
\* transport and the host's threads go on.
FaultedAxisIsIdled ==
    HostFairness => \A j \in Joint :
        GetsThrough(j)
          => (drive[j].state = "closed" /\ drive[j].err # {})
               ~> (drive[j].state = "idle" \/ transport # "open" \/ lifecycle # "active")

\* Once the transport is lost every joint is reported unhealthy, until the
\* transport is opened again or the component is no longer read.
LostTransportIsReported ==
    HostFairness => \A j \in Joint :
        transport # "open" ~> (~healthy[j] \/ transport = "open" \/ ~Running)
=============================================================================
