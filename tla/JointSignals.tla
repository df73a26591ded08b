---------------------------- MODULE JointSignals ----------------------------
(***************************************************************************)
(* The values that pass through one joint of ODriveHardwareInterface while *)
(* the component is active in synchronous mode: read() turns the encoder   *)
(* sample into the position state interface (discontinuity check,          *)
(* inversion, hold), perform_command_mode_switch() primes the drive, and   *)
(* write() turns the command interface into the setpoint of the drive      *)
(* (rate limiting, validation, fallback, inversion).                       *)
(*                                                                         *)
(* Position stands for the three signals, which take the same path; the    *)
(* velocity and effort commands are reduced to whether they are valid.     *)
(* AxisCommandState holds REFERENCES to the command interfaces, so every   *)
(* change write() or the priming makes to a command is made in the command *)
(* interface itself; the controller sees nothing of it and the next cycle  *)
(* starts from it unless the controller writes again. The error registers  *)
(* are reduced to whether one of them is set: a claim reads the one of the *)
(* axis, and what the other three hold then stays to be seen.              *)
(***************************************************************************)
EXTENDS Integers

CONSTANTS
    Bound,            \* positions are -Bound..Bound
    PositionBelow, PositionAbove,  \* command_limits: from -PositionBelow to PositionAbove
    MaxDelta,         \* max_position_rate * dt
    MaxDiscontinuity, \* feedback_limits.max_position_discontinuity
    Travel,           \* the axis moves at most this far between two reads
    invert_axis,
    mask_faulted_axes,
    Levels,           \* control levels the controllers ask for
    Readings,         \* {"ok"}, or with "rejected": a lost or implausible sample
    Statuses,         \* how a write to the drive can end: "ok", "none", "half"
    Faults,           \* {FALSE}, or BOOLEAN: the error registers may be set
    OthersValid,      \* {TRUE}, or BOOLEAN: velocity and effort commands in range
    ControllerSkips   \* the controller runs slower than the read/write loop

Infinity == 100
NaN == 1000
None == 2000

PositionMin == -PositionBelow
PositionMax == PositionAbove

Positions == -Bound..Bound
Commands == Positions \cup {Infinity, -Infinity, NaN}

ASSUME SignalsAssumption ==
    /\ Bound \in Nat \ {0} /\ Bound < Infinity
    /\ PositionBelow \in Nat /\ PositionBelow <= Bound
    /\ PositionAbove \in Nat /\ PositionAbove <= Bound
    /\ MaxDelta \in Nat /\ MaxDiscontinuity \in Nat /\ Travel \in Nat
    /\ invert_axis \in BOOLEAN /\ mask_faulted_axes \in BOOLEAN
    /\ ControllerSkips \in BOOLEAN
    /\ Levels \subseteq {"UNDEFINED", "EFFORT", "VELOCITY", "POSITION"}
    /\ Statuses \subseteq {"ok", "none", "half"}
    /\ Faults \subseteq BOOLEAN /\ OthersValid \subseteq BOOLEAN

VARIABLES
    turn,           \* the next call of the control loop
    raw, fault,     \* the drive: encoder position, error registers set
    setpoint,       \* the drive: INPUT_POS, None before the first
    position,       \* joints_[i].position
    last_valid,     \* joints_[i].last_valid_position
    healthy,        \* joints_[i].healthy
    errors,         \* joints_[i].*_error: "unknown" (NaN), "clear", "set"
    command,        \* joints_[i].command_position
    last_command,   \* joints_[i].last_command_position
    control_level,  \* joints_[i].control_level
    wanted,         \* what the controller last asked for, None at other levels
    joint_claimed,  \* joint_claimed_[i]
    switched,       \* no write() has succeeded since the last mode switch
    unremembered    \* history: what a write() that failed behind INPUT_POS has sent since the
                    \* last one that succeeded: "nothing", a "step", or the "position"

drive == <<raw, fault>>
feedback == <<position, last_valid, healthy, errors>>
sent == <<setpoint, last_command, switched, unremembered>>
level_of_joint == <<control_level, joint_claimed>>
vars == <<turn, drive, feedback, sent, command, level_of_joint, wanted>>

Distance(a, b) == IF a > b THEN a - b ELSE b - a
Finite(x) == x \notin {Infinity, -Infinity, NaN}
Negated(x) == IF x = NaN THEN NaN ELSE -x
Signed(x) == IF invert_axis THEN Negated(x) ELSE x

-----------------------------------------------------------------------------
(* Configuration and reset *)

Init ==
    /\ turn = "drive"
    /\ raw = 0 /\ fault \in Faults
    /\ setpoint = None /\ switched = TRUE /\ unremembered = "nothing"
    /\ position = 0 /\ last_valid = 0 /\ healthy = FALSE /\ errors = "unknown"
    /\ command = 0 /\ last_command = 0
    /\ control_level = "UNDEFINED" /\ joint_claimed = FALSE /\ wanted = None

\* reset_runtime_state(): the position is kept, everything starts again from it.
Reset ==
    /\ turn = "drive"
    /\ last_valid' = position /\ healthy' = FALSE /\ errors' = "unknown"
    /\ command' = position /\ last_command' = position
    /\ control_level' = "UNDEFINED" /\ joint_claimed' = FALSE /\ wanted' = None
    /\ UNCHANGED <<turn, drive, position, setpoint, switched, unremembered>>

\* The motor turns and the drive finds or clears a fault between two reads.
Drive ==
    /\ turn = "drive"
    /\ turn' = "read"
    /\ raw' \in {x \in Positions : Distance(x, raw) <= Travel}
    /\ fault' \in Faults
    /\ UNCHANGED <<feedback, sent, command, level_of_joint, wanted>>

-----------------------------------------------------------------------------
(* read() *)

\* Mutant: read() takes every sample over.
Believable_Anything == TRUE

\* The sample is taken over: abs(sample.position - last_valid_position) is small.
Believable == Distance(raw, last_valid) <= MaxDiscontinuity

\* hold_joint_state(): the reported position stays at the last valid one.
Hold ==
    /\ position' = last_valid
    /\ healthy' = FALSE
    /\ UNCHANGED last_valid

Accept ==
    /\ errors' = IF fault THEN "set" ELSE "clear"
    /\ IF fault
       THEN Hold
       ELSE /\ position' = Signed(raw)
            /\ last_valid' = Signed(raw)
            /\ healthy' = TRUE

Read(reading) ==
    /\ turn = "read"
    /\ turn' = "switch"
    /\ IF reading = "ok" /\ Believable
       THEN Accept
       ELSE Hold /\ UNCHANGED errors
    /\ UNCHANGED <<drive, sent, command, level_of_joint, wanted>>

-----------------------------------------------------------------------------
(* prepare_command_mode_switch() and perform_command_mode_switch() *)

HasFault == mask_faulted_axes /\ errors = "set"

\* Priming assigns the state to the command through the reference and sends it as it
\* is, without inversion. last_command keeps the value of the last write().
Prime(status) ==
    /\ command' = position
    /\ setpoint' = IF status = "none" THEN setpoint ELSE position

\* On a claim the axis error is read, and a watchdog that expired and nothing else is cleared.
\* An error that is set may be in a register that is not read here.
Shown == {"clear"} \cup IF fault' \/ errors = "set" THEN {"set"} ELSE {}
Claims(level) == level # "UNDEFINED" /\ ~joint_claimed

Reread(level) ==
    IF Claims(level)
    THEN fault' \in {fault, FALSE} /\ errors' \in Shown
    ELSE UNCHANGED <<fault, errors>>

\* A fault masks the joint whatever was asked for; a switch that fails leaves joint_claimed.
Switch(level, status) ==
    /\ turn = "switch"
    /\ turn' = "update"
    /\ Reread(level)
    /\ control_level' = IF HasFault' THEN "UNDEFINED" ELSE level
    /\ joint_claimed' = IF HasFault' \/ status = "ok" THEN control_level' # "UNDEFINED"
                        ELSE joint_claimed
    /\ wanted' = IF control_level' = "POSITION" THEN wanted ELSE None
    /\ switched' = TRUE
    /\ IF control_level' = "POSITION" THEN Prime(status) ELSE UNCHANGED <<command, setpoint>>
    /\ UNCHANGED <<raw, position, last_valid, healthy, last_command, unremembered>>

\* A claim that fails before the drive is switched: prepare_command_mode_switch() has set the
\* level all the same, and the next write() goes by it.
ClaimFails(level) ==
    /\ turn = "switch" /\ Claims(level)
    /\ turn' = "update"
    /\ \/ UNCHANGED <<fault, errors>>
       \/ fault' = fault /\ errors' \in Shown
    /\ control_level' = level
    /\ wanted' = IF level = "POSITION" THEN wanted ELSE None
    /\ switched' = TRUE
    /\ UNCHANGED <<raw, position, last_valid, healthy, joint_claimed, command, setpoint,
                   last_command, unremembered>>

KeepLevel ==
    /\ turn = "switch"
    /\ turn' = "update"
    /\ UNCHANGED <<drive, feedback, sent, command, level_of_joint, wanted>>

\* A position controller writes its command interface.
Update(c) ==
    /\ turn = "update" /\ control_level = "POSITION"
    /\ turn' = "write"
    /\ command' = c /\ wanted' = c
    /\ UNCHANGED <<drive, feedback, sent, level_of_joint>>

\* No controller writes it: none has claimed it, or it is not its turn.
NoUpdate ==
    /\ turn = "update"
    /\ control_level # "POSITION" \/ ControllerSkips
    /\ turn' = "write"
    /\ UNCHANGED <<drive, feedback, sent, command, level_of_joint, wanted>>

-----------------------------------------------------------------------------
(* write() *)

\* apply_rate_limiting(): not a number passes, infinity becomes a finite step.
RateLimited(c, last) ==
    IF c = NaN \/ ~Finite(last) \/ Distance(c, last) <= MaxDelta
    THEN c
    ELSE IF c > last THEN last + MaxDelta ELSE last - MaxDelta

\* Mutant: the maximum is not checked.
Valid_NoMaximum(c, others) ==
    CASE control_level = "UNDEFINED" -> TRUE
      [] control_level = "POSITION" -> Finite(c) /\ PositionMin <= c /\ others
      [] OTHER -> others

\* validate_joint_command()
Valid(c, others) ==
    CASE control_level = "UNDEFINED" -> TRUE
      [] control_level = "POSITION" ->
            Finite(c) /\ PositionMin <= c /\ c <= PositionMax /\ others
      [] OTHER -> others

\* What is left of the command after rate limiting, validation and fallback.
Limited == IF control_level = "POSITION" THEN RateLimited(command, last_command) ELSE command
Checked(others) == IF Valid(Limited, others) THEN Limited ELSE position

\* Mutant: write() does not update last_command.
Remember_Nothing(value) == last_command' = last_command

\* What the next call compares with: the value as it was sent, inversion included.
Remember(value) == last_command' = value

\* The command is inverted in the command interface and sent. At UNDEFINED nothing is
\* sent, and the write counts as a success.
Send(value, status) ==
    /\ command' = value
    /\ IF control_level = "POSITION" /\ status # "none"
       THEN setpoint' = value
       ELSE UNCHANGED setpoint
    /\ IF status = "ok" \/ control_level = "UNDEFINED"
       THEN Remember(value) /\ switched' = (switched /\ control_level # "POSITION")
       ELSE UNCHANGED <<last_command, switched>>

Write(others, status) ==
    /\ turn = "write"
    /\ turn' = "drive"
    /\ IF HasFault
       THEN command' = Checked(others) /\ UNCHANGED sent
       ELSE /\ Send(Signed(Checked(others)), status)
            /\ unremembered' = IF control_level # "POSITION" \/ status = "none" THEN unremembered
                               ELSE IF status = "ok" THEN "nothing"
                               ELSE IF Valid(Limited, others) THEN "step" ELSE "position"
    /\ UNCHANGED <<drive, feedback, level_of_joint, wanted>>

-----------------------------------------------------------------------------

Next ==
    \/ Reset
    \/ Drive
    \/ \E reading \in Readings : Read(reading)
    \/ \E level \in Levels, status \in Statuses :
        Switch(level, status) \/ (status = "none" /\ ClaimFails(level))
    \/ KeepLevel
    \/ \E c \in Commands : Update(c)
    \/ NoUpdate
    \/ \E others \in OthersValid, status \in Statuses : Write(others, status)

Spec == Init /\ [][Next]_vars

\* The control loop keeps calling: Reset cannot hold up the drive for ever.
FairSpec ==
    /\ Spec
    /\ WF_vars(Drive)
    /\ WF_vars(\E reading \in Readings : Read(reading))
    /\ WF_vars(KeepLevel \/ \E level \in Levels, status \in Statuses : Switch(level, status))
    /\ WF_vars(NoUpdate \/ \E c \in Commands : Update(c))
    /\ WF_vars(\E others \in OthersValid, status \in Statuses : Write(others, status))

-----------------------------------------------------------------------------
(* Properties *)

\* Types; the reported position is finite and always the last valid one.
TypeOK ==
    /\ turn \in {"drive", "read", "switch", "update", "write"}
    /\ raw \in Positions /\ fault \in BOOLEAN
    /\ setpoint \in Positions \cup {None}
    /\ {switched, joint_claimed} \subseteq BOOLEAN
    /\ unremembered \in {"nothing", "step", "position"}
    /\ position \in Positions /\ last_valid = position
    /\ healthy \in BOOLEAN /\ errors \in {"unknown", "clear", "set"}
    /\ command \in Commands /\ last_command \in Commands
    /\ control_level \in Levels \cup {"UNDEFINED"}
    /\ wanted \in Commands \cup {None}

Allowed == {x \in Positions : PositionMin <= x /\ x <= PositionMax}

\* write() moves the setpoint only to a position the limits allow, or, when it rejects
\* the command, to the measured position (validate_joint_command and the fallback).
SetpointIsAllowed ==
    [][turn = "write" /\ setpoint' # setpoint
        => setpoint' \in {Signed(x) : x \in Allowed \cup {position}}]_vars

\* Between two writes without a mode switch the setpoint moves by at most the rate limit, or, to
\* and from the measured position, when a command is rejected (apply_rate_limiting). A write that
\* fails behind INPUT_POS has moved the setpoint and is not remembered: the next step is limited
\* from the one before, and is at most twice as long however many writes have failed so.
RateLimitHolds ==
    [][turn = "write" /\ ~switched /\ setpoint # None /\ setpoint' # setpoint
        => \/ Distance(setpoint', setpoint)
                <= IF unremembered = "nothing" THEN MaxDelta ELSE 2 * MaxDelta
           \/ setpoint' = Signed(position)
           \/ unremembered = "position"]_vars

\* Whatever the encoder delivers, the reported position never jumps: a sample beyond
\* max_position_discontinuity of the last valid position is not reported by read().
ReportedPositionIsContinuous ==
    [][Distance(position', position) <= MaxDiscontinuity]_vars

\* A command within the limits that the controller keeps asking for is reached, however slowly the
\* rate limit lets the setpoint move, when no fault, failure or mode switch interferes; also when
\* the controller is slower than the loop, and write() meets its own limited value in between.
ValidCommandIsFollowed ==
    \A c \in Allowed :
        <>[](control_level = "POSITION" /\ errors = "clear" /\ ~switched /\ wanted = c)
            => (([]<>(turn = "write" /\ command = c)) => []<>(setpoint = Signed(c)))

-----------------------------------------------------------------------------
(* Statements of the documentation that the code does not keep *)

\* An axis without errors that stands still is in the end reported healthy by read(). It is not
\* once a sample was rejected: the samples behind it are compared with the one before it, and with
\* the sign applied, and may all be rejected like it.
StandingAxisIsReported ==
    \A x \in Positions :
        <>[](raw = x /\ ~fault) => <>(healthy /\ position = Signed(x))

\* docs/safety-design.md: a command out of range or not finite is rejected, never followed.
OutOfRangeIsRejected ==
    [][turn = "write" /\ setpoint' # setpoint /\ wanted \notin Allowed
        => setpoint' = Signed(position)]_vars

\* hardware_configuration.hpp: invert_axis inverts the sign of the command; the sign does
\* not depend on how often write() is called for one command of the controller.
InversionKeepsTheSign ==
    [][turn = "write" /\ setpoint' # setpoint /\ wanted \in Allowed
        => setpoint' \in {Signed(wanted), Signed(position)}]_vars

\* docs/configuration-guide.md: the rate limit bounds every change of the setpoint, the first
\* one after a mode switch included.
RateLimitHoldsFromPriming ==
    [][turn = "write" /\ setpoint # None /\ setpoint' # setpoint
        => \/ Distance(setpoint', setpoint) <= MaxDelta
           \/ setpoint' = Signed(position)]_vars

\* axis_control.hpp: position mode is primed with the current position, so that the setpoint
\* of a healthy axis that does not move is where the axis is.
PrimedWhereTheAxisIs ==
    [][turn = "switch" /\ setpoint' # setpoint /\ healthy => setpoint' = raw]_vars
=============================================================================
