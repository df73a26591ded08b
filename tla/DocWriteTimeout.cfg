CONSTANTS
    N = 2
    Levels = {"VELOCITY"}
    Faults = {"watchdog"}
    WatchdogJoints = {}
    gate_outputs_with_lifecycle = TRUE
    mask_faulted_axes = TRUE
    request_idle_on_axis_fault = TRUE
    gate_stale_commands = FALSE
    Statuses = {"ok", "fatal"}
    FeedbackLimits = FALSE
    HostRestarts = FALSE
SPECIFICATION Spec
PROPERTIES WriteTimeoutIsJointSpecific
CHECK_DEADLOCK FALSE
