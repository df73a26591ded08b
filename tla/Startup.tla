-------------------------------- MODULE Startup --------------------------------
(***************************************************************************)
(* From the parameters of the robot description to drives that are set up: *)
(* on_init() with the parsing and validation of the configuration, and     *)
(* initialize_transport(), which on_activate() calls, with its retries.    *)
(*                                                                         *)
(* A parameter is absent, a text that cannot be read as what it should be, *)
(* or a value; times are in milliseconds. What discovers the devices is in *)
(* ODriveUsb, what an active component does in ODriveHardwareInterface.    *)
(***************************************************************************)
EXTENDS Integers, Sequences

CONSTANTS
    N,                     \* joints
    Absent, Unreadable, NaN,
    TimeoutParameters,     \* what watchdog_timeout may say
    LimitParameters,       \* what command_position_min and _max may say
    UsbParameters,         \* what usb_timeout_ms may say
    MIN_USB_TIMEOUT_MS, MAX_USB_TIMEOUT_MS, DEFAULT_USB_TIMEOUT_MS,
    UnsignedRange,         \* 2^32, the values of an unsigned int
    Codes,                 \* status codes the transport may return, without their sign
    MaxAttempts            \* usb_read_retries and usb_write_retries, which are never parsed

Readable == Int \cup {NaN}

ASSUME StartupAssumption ==
    /\ N \in Nat \ {0} /\ MaxAttempts \in Nat \ {0} /\ UnsignedRange \in Nat \ {0}
    /\ {Absent, Unreadable, NaN} \cap (Int \cup BOOLEAN) = {}
    /\ Absent # Unreadable /\ Absent # NaN /\ Unreadable # NaN
    /\ TimeoutParameters \subseteq Readable \cup {Absent, Unreadable}
    /\ LimitParameters \subseteq Readable \cup {Absent, Unreadable}
    /\ UsbParameters \subseteq Int \cup {Absent, Unreadable}
    /\ MIN_USB_TIMEOUT_MS \in Nat /\ MAX_USB_TIMEOUT_MS \in Nat
    /\ DEFAULT_USB_TIMEOUT_MS \in MIN_USB_TIMEOUT_MS .. MAX_USB_TIMEOUT_MS
    /\ Codes \subseteq Nat \ {0}

Joint == 1..N

VARIABLES
    stage,                        \* where the component is
    joints,                       \* joints_, as far as they are parsed
    usb_timeout_ms, gate_outputs_with_lifecycle,
    outputs_enabled,
    transport,                    \* there is one,
    sticky,                       \* and its sticky_error_
    joint, attempt,               \* where initialize_transport() or on_activate() is
    torque_known,                 \* joints whose torque constant was read
    log,                          \* transport_log_state_
    drive                         \* the axes: watchdog armed, its timeout

configuration == <<joints, usb_timeout_ms, gate_outputs_with_lifecycle>>
session == <<transport, sticky>>
place == <<stage, joint, attempt>>
vars == <<place, configuration, outputs_enabled, session, torque_known, log, drive>>

Init ==
    /\ stage = "joints" /\ joints = <<>>
    /\ usb_timeout_ms = DEFAULT_USB_TIMEOUT_MS /\ gate_outputs_with_lifecycle = TRUE
    /\ outputs_enabled = FALSE
    /\ transport = FALSE /\ sticky = 0
    /\ joint = 1 /\ attempt = 0 /\ torque_known = {}
    /\ log = "unknown"
    /\ drive \in [Joint -> [armed : BOOLEAN, timeout : {Absent}]]

-----------------------------------------------------------------------------
(* on_init()                                                               *)

\* Comparisons of C++: with not-a-number every one is false.
Less(a, b) == a \in Int /\ b \in Int /\ a < b

BoolParameters == BOOLEAN \cup {Absent, Unreadable}

\* Mutant: "too short" is tested as "at most zero" only.
TimeoutIsAccepted_NonZero(timeout, enabled) == enabled => ~Less(timeout, 1)

\* The two checks of watchdog_timeout, in force when the watchdog is enabled.
TimeoutIsAccepted(timeout, enabled) == enabled => ~Less(timeout, 10)

\* parse_hardware_configuration(), one joint. The limits of velocity and effort are parsed
\* and compared as those of the position are.
JointIsAccepted(p) ==
    /\ p.watchdog_timeout \in Readable
    /\ p.enable_watchdog \in BOOLEAN
    /\ TimeoutIsAccepted(p.watchdog_timeout, p.enable_watchdog)
    /\ {p.position_min, p.position_max} \subseteq Readable \cup {Absent}
    /\ ~Less(p.position_max, p.position_min)

JointParameters ==
    [watchdog_timeout : TimeoutParameters, enable_watchdog : BoolParameters,
     position_min : LimitParameters, position_max : LimitParameters]

ParseJoint(p) ==
    /\ stage = "joints"
    /\ IF JointIsAccepted(p)
       THEN /\ joints' = Append(joints, p)
            /\ stage' = IF Len(joints) + 1 = N THEN "parameters" ELSE "joints"
       ELSE stage' = "failed" /\ UNCHANGED joints
    /\ UNCHANGED <<joint, attempt, usb_timeout_ms, gate_outputs_with_lifecycle, outputs_enabled,
                   session, torque_known, log, drive>>

\* ConfigValidator::parse_unsigned_int(): stoul() accepts signs, trailing text and values
\* that the assignment to an unsigned int then wraps.
UsbTimeout(p) ==
    LET parsed == p % UnsignedRange
    IN IF p \in Int /\ parsed \in MIN_USB_TIMEOUT_MS .. MAX_USB_TIMEOUT_MS
       THEN parsed ELSE DEFAULT_USB_TIMEOUT_MS

\* configure_from_info(): a runtime parameter that is wrong gives way to its default, a safety
\* parameter that is wrong fails. The other parameters of both kinds go the same way.
ParseParameters(usb, gate) ==
    /\ stage = "parameters"
    /\ usb_timeout_ms' = UsbTimeout(usb)
    /\ stage' = IF gate = Unreadable THEN "failed" ELSE "inactive"
    /\ gate_outputs_with_lifecycle' = IF gate \in BOOLEAN THEN gate ELSE TRUE
    /\ UNCHANGED <<joint, attempt, joints, outputs_enabled, session, torque_known, log, drive>>

-----------------------------------------------------------------------------
(* Transfers and their retries.                                            *)

LIBUSB_ERROR_NO_DEVICE == 4
LIBUSB_ERROR_TIMEOUT == 7

StickyCodes == {LIBUSB_ERROR_NO_DEVICE, LIBUSB_ERROR_TIMEOUT}

\* Mutant: a time-out of libusb is taken for a transient error.
errno_to_transport_error_Libusb(code) ==
    CASE code = 19 -> "DEVICE_NOT_FOUND"
      [] code = 1 -> "PERMISSION_DENIED"
      [] code = 22 -> "INVALID_PARAMETER"
      [] code \in {110, LIBUSB_ERROR_TIMEOUT} -> "TIMEOUT"
      [] code = 16 -> "BUSY"
      [] code = 5 -> "IO_ERROR"
      [] OTHER -> "UNKNOWN"

\* The codes are compared with those of errno: of libusb's, 1 (an I/O error) becomes
\* PERMISSION_DENIED and 5 (not found) becomes IO_ERROR, the others are unknown.
errno_to_transport_error(code) ==
    CASE code = 19 -> "DEVICE_NOT_FOUND"
      [] code = 1 -> "PERMISSION_DENIED"
      [] code = 22 -> "INVALID_PARAMETER"
      [] code = 110 -> "TIMEOUT"
      [] code = 16 -> "BUSY"
      [] code = 5 -> "IO_ERROR"
      [] OTHER -> "UNKNOWN"

is_retryable(error) == error \in {"TIMEOUT", "BUSY", "IO_ERROR"}

\* read_with_retry(), write_with_retry(): is a transfer that ended with this code tried again?
\* No fatal error is retryable.
Again(code) == is_retryable(errno_to_transport_error(code)) /\ attempt + 1 < MaxAttempts

-----------------------------------------------------------------------------
(* initialize_transport()                                                  *)

Requests == {"torque", "timeout", "disarm"}

\* Mutant: a joint that cannot be set up is not logged.
Fail_Silent ==
    /\ stage' = "active"
    /\ transport' = FALSE /\ sticky' = 0
    /\ outputs_enabled' = IF gate_outputs_with_lifecycle THEN FALSE ELSE outputs_enabled
    /\ UNCHANGED log

\* on_activate() when initialize_transport() failed: the component becomes active all the same.
Fail ==
    /\ stage' = "active"
    /\ transport' = FALSE /\ sticky' = 0
    /\ log' = "offline"
    /\ outputs_enabled' = IF gate_outputs_with_lifecycle THEN FALSE ELSE outputs_enabled

\* A new transport with the configured time-out; it finds every configured device or fails.
Activate(s) ==
    /\ stage = "inactive"
    /\ joint' = 1 /\ attempt' = 0
    /\ IF s = 0
       THEN /\ stage' = "torque" /\ transport' = TRUE /\ sticky' = 0 /\ log' = "online"
            /\ UNCHANGED outputs_enabled
       ELSE Fail
    /\ UNCHANGED <<configuration, torque_known, drive>>

\* A transfer, by the code it ends with; a write that is not acknowledged may have taken effect.
Ends(s) == s \in {0} \cup Codes /\ (sticky # 0 => s = sticky)
Stuck(s) == IF s \in StickyCodes THEN s ELSE sticky

Transfer(s, applied) ==
    /\ stage \in Requests
    /\ Ends(s)
    /\ s = 0 => applied
    /\ sticky # 0 => ~applied

Written(applied) ==
    drive' = IF ~applied \/ stage = "torque" THEN drive
             ELSE IF stage = "timeout"
             THEN [drive EXCEPT ![joint].timeout = joints[joint].watchdog_timeout]
             ELSE [drive EXCEPT ![joint].armed = FALSE]

\* Mutant: the loop over the joints does not advance.
Answered_SameJoint ==
    /\ attempt' = 0
    /\ stage' = IF stage = "torque" THEN "disarm" ELSE "torque"
    /\ torque_known' = IF stage = "torque" THEN torque_known \cup {joint} ELSE torque_known
    /\ UNCHANGED <<joint, outputs_enabled, session, log>>

Answered ==
    /\ attempt' = 0
    /\ \/ /\ stage = "torque"
          /\ torque_known' = torque_known \cup {joint}
          /\ stage' = IF joints[joint].enable_watchdog THEN "timeout" ELSE "disarm"
          /\ UNCHANGED joint
       \/ /\ stage = "timeout" /\ stage' = "disarm"
          /\ UNCHANGED <<joint, torque_known>>
       \/ /\ stage = "disarm"
          /\ IF joint < N
             THEN stage' = "torque" /\ joint' = joint + 1
             ELSE stage' = "ready" /\ UNCHANGED joint
          /\ UNCHANGED torque_known
    /\ UNCHANGED <<outputs_enabled, session, log>>

Retried(s) ==
    /\ Again(s)
    /\ attempt' = attempt + 1
    /\ sticky' = Stuck(s)
    /\ UNCHANGED <<stage, joint, outputs_enabled, transport, torque_known, log>>

\* Mutant: a request that failed for no fatal reason is skipped, as read() would do.
Request_GoesOn(s, applied) ==
    /\ Transfer(s, applied)
    /\ Written(applied)
    /\ IF s \notin StickyCodes THEN Answered ELSE Fail /\ UNCHANGED <<joint, attempt, torque_known>>
    /\ UNCHANGED configuration

Request(s, applied) ==
    /\ Transfer(s, applied)
    /\ Written(applied)
    /\ CASE s = 0 -> Answered
         [] s # 0 /\ Again(s) -> Retried(s)
         [] OTHER -> Fail /\ UNCHANGED <<joint, attempt, torque_known>>
    /\ UNCHANGED configuration

\* on_activate() after initialize_transport(): the gate is opened, then the errors of every axis
\* are cleared, with no retry. A request that fails is an error of the callback, after which the
\* framework finalises the component, with the gate and the transport as they are.
Enable ==
    /\ stage = "ready" /\ stage' = "clear" /\ joint' = 1
    /\ outputs_enabled' = IF gate_outputs_with_lifecycle THEN TRUE ELSE outputs_enabled
    /\ UNCHANGED <<attempt, configuration, session, torque_known, log, drive>>

ClearErrors(s) ==
    /\ stage = "clear" /\ Ends(s)
    /\ stage' = IF s # 0 THEN "finalized" ELSE IF joint = N THEN "active" ELSE "clear"
    /\ joint' = IF s = 0 /\ joint < N THEN joint + 1 ELSE joint
    /\ sticky' = Stuck(s)
    /\ UNCHANGED <<attempt, configuration, outputs_enabled, transport, torque_known, log, drive>>

ActiveKeeps == UNCHANGED <<place, configuration, outputs_enabled, torque_known>>

\* An active component: a joint is claimed and its watchdog armed.
Claim(j) ==
    /\ stage = "active" /\ transport /\ sticky = 0
    /\ joints[j].enable_watchdog
    /\ drive' = [drive EXCEPT ![j].armed = TRUE]
    /\ ActiveKeeps /\ UNCHANGED <<session, log>>

\* A transfer finds the device lost: write() drops the transport and tells the log, read() tells
\* the log, the mode switch does neither.
Lose(s) ==
    /\ stage = "active" /\ transport /\ Ends(s) /\ s \in StickyCodes
    /\ \/ transport' = FALSE /\ sticky' = 0 /\ log' = "offline"
       \/ transport' = TRUE /\ sticky' = s /\ log' \in {"offline", log}
    /\ ActiveKeeps /\ UNCHANGED drive

\* read() and write() without a transport.
OperateWithout ==
    /\ stage = "active" /\ ~transport
    /\ log' = "offline"
    /\ ActiveKeeps /\ UNCHANGED <<session, drive>>

\* on_deactivate() keeps a transport whose axes it could reach.
Deactivate(reached) ==
    /\ stage = "active" /\ stage' = "inactive"
    /\ outputs_enabled' = IF gate_outputs_with_lifecycle THEN FALSE ELSE outputs_enabled
    /\ reached => sticky = 0
    /\ IF reached THEN UNCHANGED session ELSE transport' = FALSE /\ sticky' = 0
    /\ UNCHANGED <<joint, attempt, configuration, torque_known, log, drive>>

\* recover(), of an active component as of an inactive one, and on_cleanup() with the
\* configuration that follows it: the component stays what it is, the log is told nothing.
Reset ==
    /\ stage \in {"inactive", "active"}
    /\ torque_known' = {} /\ outputs_enabled' = FALSE
    /\ transport' = FALSE /\ sticky' = 0
    /\ UNCHANGED <<place, configuration, log, drive>>

-----------------------------------------------------------------------------

OnInit ==
    \/ \E p \in JointParameters : ParseJoint(p)
    \/ \E usb \in UsbParameters, gate \in BoolParameters : ParseParameters(usb, gate)

Setup == \E s \in {0} \cup Codes, applied \in BOOLEAN : Request(s, applied)

Finish == Enable \/ \E s \in {0} \cup Codes : ClearErrors(s)

Operate ==
    \/ \E j \in Joint : Claim(j)
    \/ \E s \in Codes : Lose(s)
    \/ OperateWithout

Next ==
    \/ OnInit
    \/ \E s \in {0} \cup Codes : Activate(s)
    \/ Setup \/ Finish \/ Operate
    \/ \E reached \in BOOLEAN : Deactivate(reached)
    \/ Reset

Spec == Init /\ [][Next]_vars

\* Every transfer ends, by its answer or by its time-out.
FairSpec == Spec /\ WF_vars(Setup) /\ WF_vars(Finish)

-----------------------------------------------------------------------------
(* Properties *)

\* Types, and what survives on_init(): a USB time-out within its range whatever was wrapped,
\* watchdogs that are not set below ten milliseconds, limits that leave room for a command.
TypeOK ==
    /\ stage \in {"joints", "parameters", "failed", "inactive", "ready", "clear", "active", "finalized"}
              \cup Requests
    /\ joints \in Seq(JointParameters) /\ Len(joints) <= N
    /\ stage \notin {"joints", "failed"} => Len(joints) = N
    /\ \A j \in DOMAIN joints :
        LET p == joints[j] IN
        /\ p.enable_watchdog => p.watchdog_timeout = NaN \/ p.watchdog_timeout >= 10
        /\ {p.position_min, p.position_max} \subseteq Int => p.position_min <= p.position_max
    /\ usb_timeout_ms \in MIN_USB_TIMEOUT_MS .. MAX_USB_TIMEOUT_MS
    /\ {gate_outputs_with_lifecycle, outputs_enabled, transport} \subseteq BOOLEAN
    /\ sticky \in {0} \cup StickyCodes
    /\ joint \in Joint /\ attempt \in 0 .. MaxAttempts - 1
    /\ torque_known \subseteq Joint /\ log \in {"unknown", "online", "offline"}
    /\ drive \in [Joint -> [armed : BOOLEAN, timeout : Readable \cup {Absent}]]

\* The time-out that guards a joint is the configured one.
TimeoutIsSet(j) ==
    joints[j].enable_watchdog => drive[j].timeout = joints[j].watchdog_timeout

\* initialize_transport() reports success only when every drive was reached at every step,
\* whatever failed and was tried again: the torque constant is known, the time-out is the
\* configured one, and no watchdog is armed that was before. The gate opens for no less, and
\* stays open for no less: who forgets the set-up closes it.
ReadyIsConfigured ==
    /\ stage = "ready" => transport /\ \A j \in Joint : ~drive[j].armed
    /\ stage = "ready" \/ outputs_enabled =>
        torque_known = Joint /\ \A j \in Joint : TimeoutIsSet(j)

\* No transfer is tried again on a session that is dead: a retry of what cannot succeed would
\* only hold up the activation. It depends on how the codes of libusb look as errno.
DeadSessionIsLeft == stage \in Requests => sticky = 0

\* The log says online as soon as the devices are found; when a joint then cannot be set up it
\* must be taken back. An active component whose log says online has a transport and every drive
\* set up, or has lost both to recover() and not called read() or write() since: the log does not
\* become so by an activation, and does not stay so by anything else.
DrivesAreSetUp == transport /\ torque_known = Joint /\ \A j \in Joint : TimeoutIsSet(j)
RuntimeIsReset == ~transport /\ torque_known = {}
OnlineIsConfigured ==
    [][stage' = "active" /\ log' = "online" =>
           DrivesAreSetUp' \/ (stage = "active" /\ RuntimeIsReset')]_vars

\* on_activate() returns, however often transfers fail.
SetupEnds == stage \in Requests \cup {"ready", "clear"} ~> stage \in {"active", "finalized"}

\* README.md:155: "Number of retry attempts for transient read errors". A setup does not fail
\* before its request was tried that often.
TransientIsRetried ==
    [][(stage \in Requests /\ stage' = "active") => attempt + 1 = MaxAttempts]_vars
=============================================================================
