CONSTANTS
    Levels = {"VELOCITY", "POSITION"}
    enable_watchdog = FALSE
    Statuses = {"ok"}
SPECIFICATION Spec
INVARIANTS RunningAxisIsPrimed
