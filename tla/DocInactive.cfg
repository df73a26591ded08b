CONSTANTS
    N = 1
    Levels = {"VELOCITY"}
    Faults = {"watchdog"}
    WatchdogJoints = {1}
    gate_outputs_with_lifecycle = TRUE
    mask_faulted_axes = TRUE
    request_idle_on_axis_fault = TRUE
    gate_stale_commands = FALSE
    Statuses = {"ok"}
    FeedbackLimits = FALSE
    HostRestarts = FALSE
SPECIFICATION Spec
PROPERTIES ClosedLoopOnlyWhenActive
