------------------------------ MODULE AxisService ------------------------------
(***************************************************************************)
(* What the two calls of axis_control.hpp promise of one axis, whatever    *)
(* becomes of their requests: the axis changes once in a call, as the call *)
(* asks, and a call that returns success has had its effect.               *)
(* ODriveHardwareInterface takes each call as this one step.               *)
(***************************************************************************)

CONSTANTS Levels, enable_watchdog

UNDEFINED == "UNDEFINED"

VARIABLES call, level, result, state, fed,
          done    \* the effect of the call took place

vars == <<call, level, result, state, fed, done>>

Init ==
    /\ call = "none" /\ level = UNDEFINED /\ result = "none" /\ done = FALSE
    /\ state = "idle" /\ fed = FALSE

\* perform_axis_mode_switch() or write_axis_command() is called; a command of no
\* level has nothing to do.
Call ==
    /\ call = "none"
    /\ \/ call' = "switch" /\ level' \in Levels \cup {UNDEFINED} /\ done' = FALSE
       \/ call' = "command" /\ level' = level /\ done' = (level = UNDEFINED)
    /\ UNCHANGED <<result, state, fed>>

\* The effect takes place, known to the caller or not.
Effect ==
    /\ call # "none" /\ ~done
    /\ state' \in IF call = "command" THEN {state}
                  ELSE IF level = UNDEFINED THEN {"idle"} ELSE {"closed", state}
    /\ fed' = (fed \/ (call = "command" /\ enable_watchdog))
    /\ UNCHANGED level
    /\ \/ done' = TRUE /\ UNCHANGED <<call, result>>
       \/ done' = FALSE /\ call' = "none" /\ result' = "failed"

Fail ==
    /\ call # "none" /\ ~done
    /\ call' = "none" /\ result' = "failed"
    /\ UNCHANGED <<level, state, fed, done>>

Return ==
    /\ call # "none" /\ done
    /\ call' = "none" /\ result' = "ok" /\ done' = FALSE
    /\ UNCHANGED <<level, state, fed>>

\* The axis by itself: its watchdog runs down, and it may stop.
Tick == fed' = FALSE /\ UNCHANGED <<call, level, result, state, done>>
Stop == state' = "idle" /\ UNCHANGED <<call, level, result, fed, done>>

Next == Call \/ Effect \/ Fail \/ Return \/ Tick \/ Stop

Spec == Init /\ [][Next]_vars
=============================================================================
