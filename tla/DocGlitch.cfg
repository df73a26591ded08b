SPECIFICATION FairSpec
CONSTANTS
    invert_axis = FALSE
    mask_faulted_axes = TRUE
    Bound = 2
    PositionBelow = 2
    PositionAbove = 2
    MaxDelta = 1
    MaxDiscontinuity = 1
    Travel = 1
    Levels = {"UNDEFINED", "POSITION"}
    Readings = {"ok"}
    Statuses = {"ok"}
    Faults = {TRUE, FALSE}
    OthersValid = {TRUE}
    ControllerSkips = FALSE
PROPERTIES StandingAxisIsReported
