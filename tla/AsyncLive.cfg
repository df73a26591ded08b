SPECIFICATION HangSpec
CONSTANTS
    N = 1
    Levels = {"POSITION"}
    gate_outputs_with_lifecycle = TRUE
    mask_faulted_axes = TRUE
    request_idle_on_axis_fault = TRUE
    gate_stale_commands = FALSE
    Statuses = {"ok", "fatal"}
    FeedbackLimits = FALSE
    FiniteSequences = TRUE
    MaxSequence = 0
PROPERTIES StopReturns HangIsReported
CHECK_DEADLOCK FALSE
