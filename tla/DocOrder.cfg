SPECIFICATION Spec
CONSTANTS
    invert_axis = FALSE
    mask_faulted_axes = TRUE
    Bound = 2
    PositionBelow = 1
    PositionAbove = 1
    MaxDelta = 1
    MaxDiscontinuity = 4
    Travel = 4
    Levels = {"UNDEFINED", "POSITION"}
    Readings = {"ok"}
    Statuses = {"ok"}
    Faults = {FALSE}
    OthersValid = {TRUE}
    ControllerSkips = FALSE
PROPERTIES OutOfRangeIsRejected
