CONSTANTS
    N = 1
    Levels = {"VELOCITY", "POSITION"}
    Faults = {"watchdog", "axis", "motor"}
    WatchdogJoints = {1}
    gate_outputs_with_lifecycle = TRUE
    mask_faulted_axes = TRUE
    request_idle_on_axis_fault = TRUE
    gate_stale_commands = TRUE
    Statuses = {"ok", "soft", "fatal"}
    FeedbackLimits = FALSE
    HostRestarts = TRUE
SPECIFICATION Spec
INVARIANTS TransportStaysWhileUsed ClosedLoopIsWatched
PROPERTIES CommandsOnlyWhileActive FaultedAxisIsMasked
