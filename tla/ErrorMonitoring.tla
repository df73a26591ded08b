---------------------------- MODULE ErrorMonitoring ----------------------------
(***************************************************************************)
(* What the log says of the error registers of one axis: read() with       *)
(* synchronous I/O takes them over with an accepted sample and logs, for   *)
(* each register that is not zero, a change since it was last logged, with *)
(* the names of its bits. The mode switch reads the register of the axis   *)
(* on its own when a controller claims the joint, and logs nothing. A      *)
(* register is the set of its bits.                                        *)
(***************************************************************************)
CONSTANTS
    Register,   \* axis_error, motor_error, encoder_error, controller_error
    AxisError,  \* the first of them
    Bits,       \* bits a register may have
    Watchdog,   \* the one kAxisErrorWatchdogTimerExpired stands for
    Named,      \* those the table of its names has
    NaN         \* what an interface holds before the first sample

Value == SUBSET Bits

ASSUME ErrorsAssumption ==
    /\ AxisError \in Register /\ Watchdog \in Bits
    /\ Named \subseteq Bits /\ \A v \in Value : NaN # v

VARIABLES
    register,   \* the registers in the drive
    error,      \* the error interfaces of the joint
    last,       \* last_axis_error, ...: what was logged of each register
    entry,      \* the last line of the log
    claimed     \* history: a claim wrote the axis error after the last accepted sample

vars == <<register, error, last, entry, claimed>>

Entry == [of : Register, from : Value, to : Value, names : Value, unknown_bits : Value]

NoEntry == [of |-> AxisError, from |-> {}, to |-> {}, names |-> {},
            unknown_bits |-> {}]

Init ==
    /\ register \in [Register -> {{}} \cup {{b} : b \in Bits}]
    /\ error = [r \in Register |-> NaN]
    /\ last = [r \in Register |-> {}]
    /\ entry = NoEntry
    /\ claimed = FALSE

\* extract_error_value(): a value to log is finite and not zero. Conversion to double and back
\* is exact: no firmware bit lies beyond the 53 of a double.
extract_error_value(value) == value # NaN /\ value # {}

\* The line log_error_transition() writes, with describe_error_bits().
Logged(r, value) ==
    [of |-> r, from |-> last[r], to |-> value, names |-> value \cap Named,
     unknown_bits |-> value \ Named]

\* Mutant: a change is logged when it sets a bit.
Changed_NewBits ==
    {r \in Register : extract_error_value(register[r]) /\ ~(register[r] \subseteq last[r])}

\* The registers of a sample that are logged.
Changed == {r \in Register : extract_error_value(register[r]) /\ register[r] # last[r]}

\* Mutant: a sample with an error is rejected like one that is not believable.
Accept_Healthy ==
    /\ \A r \in Register : register[r] = {}
    /\ error' = register /\ claimed' = FALSE
    /\ UNCHANGED <<register, last, entry>>

\* read(): an accepted sample; the registers that changed are logged one after the other.
Accept ==
    /\ error' = register /\ claimed' = FALSE
    /\ last' = [r \in Register |-> IF r \in Changed THEN register[r] ELSE last[r]]
    /\ entry' \in IF Changed = {} THEN {entry} ELSE {Logged(r, register[r]) : r \in Changed}
    /\ UNCHANGED register

\* perform_command_mode_switch() on a claim: the axis error is read into its interface, and a
\* watchdog that expired and nothing else is cleared, with all other errors of the axis. The
\* request to clear may fail; a claim that fails before has written no interface.
ClaimReads ==
    /\ error' = [error EXCEPT ![AxisError] = register[AxisError]]
    /\ claimed' = TRUE
    /\ UNCHANGED <<register, last, entry>>

ClaimClears ==
    /\ register[AxisError] = {Watchdog}
    /\ register' = [r \in Register |-> {}]
    /\ error' = [error EXCEPT ![AxisError] = {}]
    /\ claimed' = TRUE
    /\ UNCHANGED <<last, entry>>

\* A failed or rejected sample leaves before the errors are looked at: no step. The drive
\* latches errors, and forgets them on request or by a restart.
DriveLatches(r, b) ==
    /\ b \notin register[r]
    /\ register' = [register EXCEPT ![r] = @ \cup {b}]
    /\ UNCHANGED <<error, last, entry, claimed>>

DriveClears ==
    /\ register' = [r \in Register |-> {}]
    /\ UNCHANGED <<error, last, entry, claimed>>

\* reset_runtime_state()
ResetRuntimeState ==
    /\ error' = [r \in Register |-> NaN]
    /\ last' = [r \in Register |-> {}]
    /\ claimed' = FALSE
    /\ UNCHANGED <<register, entry>>

Next ==
    \/ Accept \/ ClaimReads \/ ClaimClears \/ DriveClears \/ ResetRuntimeState
    \/ \E r \in Register, b \in Bits : DriveLatches(r, b)

Spec == Init /\ [][Next]_vars

\* A sample is accepted again and again.
FairSpec == Spec /\ WF_vars(Accept)

-----------------------------------------------------------------------------
(* Properties *)

\* What the error interfaces show to the controllers is what the log said last of the register:
\* an operator who reads the log sees every error a controller sees, all of its bits included.
\* There is one exception, and it ends with the next accepted sample: the axis error that a claim
\* read is shown before it is logged, and only that one of the registers.
ShownErrorIsLogged ==
    \A r \in Register : error[r] \notin {NaN, {}} =>
        last[r] = error[r] \/ (claimed /\ r = AxisError)

\* An error that is latched reaches the log, or is cleared before.
LatchedErrorIsLogged ==
    \A r \in Register, b \in Bits : b \in register[r] ~> b \in last[r] \/ b \notin register[r]

\* README.md:203: "error transitions are logged". An error that a sample shows the controllers
\* anew, after they were shown none, is such a transition.
TransitionsAreLogged ==
    [][(\E r \in Register : error[r] = {} /\ error'[r] \notin {NaN, {}}) /\ ~claimed'
           => entry' # entry]_vars
=============================================================================
