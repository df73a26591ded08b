SPECIFICATION Spec
CONSTANTS
    Devices = {"a"}
    Configured = {"a"}
    Clients = {"main"}
    Statuses = {"io"}
    DeviceForgets = TRUE
    MaxFailures = 1
INVARIANTS ReadReturnsWhatItAskedFor
