------------------------------ MODULE AxisControl ------------------------------
(***************************************************************************)
(* axis_control.cpp: the requests that perform_axis_mode_switch() and      *)
(* write_axis_command() make of one axis, one USB transaction at a time.   *)
(* ODriveHardwareInterface takes each of the two calls as one step, which  *)
(* AxisService states and this module is shown to implement.               *)
(***************************************************************************)
EXTENDS Naturals, Sequences, SequencesExt

CONSTANTS
    Levels,           \* control levels that may be requested, but UNDEFINED
    enable_watchdog,
    Statuses          \* ways a transaction may end

UNDEFINED == "UNDEFINED"
AxisControlLevel == {"EFFORT", "VELOCITY", "POSITION"}

ASSUME AxisAssumption ==
    /\ Levels \subseteq AxisControlLevel
    /\ enable_watchdog \in BOOLEAN
    /\ Statuses \subseteq {"ok", "failed"}

VARIABLES
    call,     \* "none", "switch" or "command": the call that is being served
    level,    \* control level it was called with
    todo,     \* requests it has still to make, in order
    result,   \* what the last call returned: "none", "ok" or "failed"
    state,    \* external: the axis's state,
    mode,     \* its control mode,
    current,  \* its inputs that were written since the last call began,
    primed,   \* its inputs that were written since it got this control mode,
    fed       \* and whether its watchdog was fed since the last tick

vars == <<call, level, todo, result, state, mode, current, primed, fed>>

Inputs == {"INPUT_POS", "INPUT_VEL", "INPUT_TORQUE"}

-----------------------------------------------------------------------------
(* The two sequences of requests.                                          *)

\* The inputs of a control level, in the order in which they are written.
Setpoints(l) ==
    CASE l = "POSITION" -> <<"INPUT_POS", "INPUT_VEL", "INPUT_TORQUE">>
      [] l = "VELOCITY" -> <<"INPUT_VEL", "INPUT_TORQUE">>
      [] l = "EFFORT" -> <<"INPUT_TORQUE">>
      [] OTHER -> <<>>

\* Mutant: closed loop is entered before the inputs are primed.
SwitchRequests_CloseFirst(l) ==
    IF l = UNDEFINED THEN <<"idle">>
    ELSE <<"mode", "closed">> \o Setpoints(l)

\* Mutant: the inputs are primed in the mode the axis still has.
SwitchRequests_ModeLast(l) ==
    IF l = UNDEFINED THEN <<"idle">>
    ELSE Setpoints(l) \o <<"mode", "closed">>

SwitchRequests(l) ==
    IF l = UNDEFINED THEN <<"idle">>
    ELSE <<"mode">> \o Setpoints(l) \o <<"closed">>

\* Mutant: the watchdog is fed before the command is written.
CommandRequests_FeedFirst(l) ==
    IF enable_watchdog /\ l # UNDEFINED THEN <<"feed">> \o Setpoints(l) ELSE Setpoints(l)

CommandRequests(l) ==
    Setpoints(l) \o (IF enable_watchdog /\ l # UNDEFINED THEN <<"feed">> ELSE <<>>)

-----------------------------------------------------------------------------
(* The axis.                                                               *)

\* The axis carries out request r; closed loop is refused while an error is latched.
Apply(r) ==
    /\ state' \in CASE r = "idle" -> {"idle"}
                    [] r = "closed" -> {"closed", state}
                    [] OTHER -> {state}
    /\ mode' = IF r = "mode" THEN level ELSE mode
    /\ current' = IF r \in Inputs THEN current \cup {r} ELSE current
    /\ primed' = CASE r \in Inputs -> primed \cup {r}
                   [] r = "mode" /\ mode # level -> {}
                   [] OTHER -> primed
    /\ fed' = (fed \/ r = "feed")

AxisKeeps == UNCHANGED <<state, mode, current, primed, fed>>

Init ==
    /\ call = "none" /\ level = UNDEFINED /\ todo = <<>> /\ result = "none"
    /\ state = "idle" /\ mode \in AxisControlLevel
    /\ current = {} /\ primed = {} /\ fed = FALSE

-----------------------------------------------------------------------------

Begin(c, l, requests) ==
    /\ call = "none"
    /\ call' = c /\ level' = l /\ todo' = requests
    /\ current' = {}
    /\ UNCHANGED <<result, state, mode, primed, fed>>

perform_axis_mode_switch(l) == Begin("switch", l, SwitchRequests(l))

\* write() calls it for the level of the last switch that succeeded or failed.
write_axis_command == Begin("command", level, CommandRequests(level))

\* Mutant: a failed request does not end the call.
Request_GoesOn(s) ==
    /\ todo # <<>>
    /\ Apply(Head(todo)) \/ (s # "ok" /\ AxisKeeps)
    /\ todo' = Tail(todo)
    /\ UNCHANGED <<call, level, result>>

\* The next request ends with status s; unacknowledged, it may have been carried
\* out or not, and the call returns the status at once.
Request(s) ==
    /\ todo # <<>>
    /\ Apply(Head(todo)) \/ (s # "ok" /\ AxisKeeps)
    /\ IF s = "ok" THEN todo' = Tail(todo) /\ UNCHANGED <<call, result>>
                   ELSE todo' = <<>> /\ call' = "none" /\ result' = "failed"
    /\ UNCHANGED level

\* The last request was acknowledged.
Return ==
    /\ call # "none" /\ todo = <<>>
    /\ call' = "none" /\ result' = "ok"
    /\ UNCHANGED <<level, todo>>
    /\ AxisKeeps

\* Part of the watchdog timeout passes.
Tick ==
    /\ fed
    /\ fed' = FALSE
    /\ UNCHANGED <<call, level, todo, result, state, mode, current, primed>>

\* The watchdog expires, or a fault arises: the axis stops.
Stop ==
    /\ state = "closed"
    /\ state' = "idle"
    /\ UNCHANGED <<call, level, todo, result, mode, current, primed, fed>>

Next ==
    \/ \E l \in Levels \cup {UNDEFINED} : perform_axis_mode_switch(l)
    \/ write_axis_command
    \/ \E s \in Statuses : Request(s)
    \/ Return
    \/ Tick
    \/ Stop

Spec == Init /\ [][Next]_vars

-----------------------------------------------------------------------------
(* Properties.                                                             *)

\* perform_axis_mode_switch(): an axis enters closed loop in the mode that was
\* asked for, with every input of the mode primed during the call, whichever of
\* the requests before were lost or not acknowledged.
EntersPrimed ==
    [][state = "idle" /\ state' = "closed"
         => mode = level /\ ToSet(Setpoints(mode)) \subseteq current]_vars

\* write_axis_command(): the watchdog is fed only when all the inputs of the level
\* were written by the same call: a half-written command does not keep it alive.
FedByWholeCommands ==
    [][~fed /\ fed' => call = "command" /\ level # UNDEFINED
                        /\ ToSet(Setpoints(level)) \subseteq current]_vars

\* The two calls do to the axis, and report of it, what one step does that happens
\* at their last request: this is how ODriveHardwareInterface takes them.
Service == INSTANCE AxisService WITH done <- call # "none" /\ todo = <<>>
ImplementsService == Service!Spec

\* perform_axis_mode_switch(): when it returns success, the axis is in the mode that was
\* asked for and every input of the mode was written since it got that mode, although the
\* mode of a running axis changes before its inputs do, and earlier calls failed half-way.
SwitchLeavesPrimed ==
    call = "switch" /\ todo = <<>> /\ level # UNDEFINED
      => mode = level /\ ToSet(Setpoints(level)) \subseteq primed

\* axis_control.hpp:60 "The initial setpoints are primed to minimize sudden jumps":
\* an axis in closed loop follows inputs that were written in its control mode.
RunningAxisIsPrimed == state = "closed" => ToSet(Setpoints(mode)) \subseteq primed
=============================================================================
