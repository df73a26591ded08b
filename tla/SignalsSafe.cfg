SPECIFICATION Spec
CONSTANTS
    invert_axis = FALSE
    mask_faulted_axes = TRUE
    Bound = 2
    PositionBelow = 2
    PositionAbove = 1
    MaxDelta = 1
    MaxDiscontinuity = 2
    Travel = 4
    Levels = {"UNDEFINED", "VELOCITY", "POSITION"}
    Readings = {"ok", "rejected"}
    Statuses = {"ok", "none", "half"}
    Faults = {TRUE, FALSE}
    OthersValid = {TRUE, FALSE}
    ControllerSkips = TRUE
PROPERTIES SetpointIsAllowed RateLimitHolds ReportedPositionIsContinuous
