CONSTANTS
    N = 1
    Levels = {"POSITION"}
    gate_outputs_with_lifecycle = TRUE
    mask_faulted_axes = TRUE
    request_idle_on_axis_fault = TRUE
    gate_stale_commands = TRUE
    Statuses = {"ok"}
    FeedbackLimits = FALSE
    FiniteSequences = TRUE
    MaxSequence = 0
SPECIFICATION Spec
PROPERTIES SequenceChangesBetweenWrites
CHECK_DEADLOCK FALSE
