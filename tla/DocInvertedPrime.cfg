SPECIFICATION Spec
CONSTANTS
    invert_axis = TRUE
    mask_faulted_axes = TRUE
    Bound = 2
    PositionBelow = 2
    PositionAbove = 2
    MaxDelta = 4
    MaxDiscontinuity = 4
    Travel = 1
    Levels = {"UNDEFINED", "POSITION"}
    Readings = {"ok"}
    Statuses = {"ok"}
    Faults = {FALSE}
    OthersValid = {TRUE}
    ControllerSkips = FALSE
PROPERTIES PrimedWhereTheAxisIs
