SPECIFICATION FairSpec
CONSTANTS
    invert_axis = FALSE
    mask_faulted_axes = TRUE
    Bound = 3
    PositionBelow = 0
    PositionAbove = 0
    MaxDelta = 1
    MaxDiscontinuity = 6
    Travel = 1
    Levels = {"UNDEFINED", "POSITION"}
    Readings = {"ok"}
    Statuses = {"ok"}
    Faults = {FALSE}
    OthersValid = {TRUE}
    ControllerSkips = FALSE
PROPERTIES ValidCommandIsFollowed
