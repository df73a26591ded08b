-------------------------- MODULE DocumentedBehaviour --------------------------
(***************************************************************************)
(* What the documentation and the comments say of the hardware component,  *)
(* stated of the model of its code.  Each is refuted by a run of its own.  *)
(***************************************************************************)
EXTENDS ODriveHardwareInterface

\* odrive_hardware_interface.cpp:1199: the watchdog is disabled on unclaim "so it
\* won't expire while no controller is commanding".
UnclaimedJointIsDisarmed ==
    \A j \in Joint :
        lifecycle = "active" /\ svc.pc = "none" /\ mode_switch = "none" /\ transport = "open"
          /\ control_level[j] = UNDEFINED
        => ~drive[j].wd

\* safety-design.md:33: "If the controller stops commanding (crashed, blocked,
\* etc.), the watchdog expires and the motor stops".
Undisturbed == lifecycle = "active" /\ transport = "open" /\ mode_switch = "none"
StoppedControllerStopsMotor ==
    \A j \in WatchdogJoints :
        <>[](Undisturbed /\ ~drive[j].fed) => []<>(drive[j].state = "idle")

\* safety-design.md:107: "motor commands are ONLY sent when the hardware component
\* is in ACTIVE state" - here the command to enter closed loop.
ClosedLoopOnlyWhenActive ==
    [][\A j \in Joint :
          drive[j].state = "idle" /\ drive'[j].state = "closed" => lifecycle = "active"]_vars

\* safety-design.md:143: "on_deactivate() transitions all motors to IDLE".
DeactivateAsksEveryAxis ==
    [][\A i \in Joint, s \in Statuses :
          DeactivateIdle(i, s) /\ svc'.pc = "none" => i = N]_vars

\* safety-design.md:271: a timeout on write is joint-specific, "other joints
\* continue".
WriteTimeoutIsJointSpecific ==
    [][\A i \in 1..(N - 1) : WriteCommand(i, "fatal") => rt' = At("write", i + 1)]_vars

\* safety-design.md:270: a timeout on read is joint-specific, "that joint marked
\* unhealthy, others continue".
ReadTimeoutIsJointSpecific ==
    [][\A i \in 1..(N - 1) : ReadJoint(i, "fatal") => rt' = At("read", i + 1)]_vars

\* safety-design.md:59: "faulted axes are automatically masked - commands are
\* skipped": an axis that stays faulted is not commanded for ever.
FaultedAxisIsNotFedForEver ==
    \A j \in Joint :
        <>[](Undisturbed /\ drive[j].err # {}) => <>[]~drive[j].fed
=============================================================================
