SPECIFICATION Spec
CONSTANTS
    Devices = {"a"}
    Configured = {"a"}
    Clients = {"main", "worker"}
    Statuses = {"timeout"}
    DeviceForgets = TRUE
    MaxFailures = 0
INVARIANTS ReadReturnsWhatItAskedFor
