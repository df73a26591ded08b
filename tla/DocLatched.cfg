CONSTANTS
    N = 1
    Levels = {"POSITION"}
    gate_outputs_with_lifecycle = TRUE
    mask_faulted_axes = TRUE
    request_idle_on_axis_fault = TRUE
    gate_stale_commands = FALSE
    Statuses = {"ok"}
    FeedbackLimits = FALSE
    FiniteSequences = TRUE
    MaxSequence = 0
SPECIFICATION FairSpec
PROPERTIES HealthyIsNotLatched
CHECK_DEADLOCK FALSE
