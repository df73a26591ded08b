SPECIFICATION FairSpec
CONSTANTS
    invert_axis = FALSE
    mask_faulted_axes = TRUE
    Bound = 3
    PositionBelow = 3
    PositionAbove = 2
    MaxDelta = 1
    MaxDiscontinuity = 1
    Travel = 1
    Levels = {"UNDEFINED", "VELOCITY", "POSITION"}
    Readings = {"ok", "rejected"}
    Statuses = {"ok"}
    Faults = {FALSE}
    OthersValid = {TRUE}
    ControllerSkips = TRUE
PROPERTIES ValidCommandIsFollowed
