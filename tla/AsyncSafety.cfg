SPECIFICATION Spec
CONSTANTS
    N = 1
    Levels = {"POSITION"}
    gate_outputs_with_lifecycle = TRUE
    mask_faulted_axes = TRUE
    request_idle_on_axis_fault = TRUE
    gate_stale_commands = TRUE
    Statuses = {"ok", "soft", "fatal"}
    FeedbackLimits = TRUE
    FiniteSequences = FALSE
    MaxSequence = 1
INVARIANTS TransportIsExclusive NoWorkerLeftBehind NoLostWakeup
PROPERTIES SentOnce FaultedAxisIsMasked
CHECK_DEADLOCK FALSE
