CONSTANTS
    Levels = {"EFFORT", "VELOCITY", "POSITION"}
    enable_watchdog = TRUE
    Statuses = {"ok", "failed"}
SPECIFICATION Spec
INVARIANTS SwitchLeavesPrimed
PROPERTIES EntersPrimed FedByWholeCommands ImplementsService
