SPECIFICATION Spec
CONSTANTS
    Devices = {"a", "b", "c"}
    Configured = {"a", "b"}
    Clients = {"main"}
    Statuses = {"io", "timeout", "gone"}
    DeviceForgets = FALSE
    MaxFailures = 2
PROPERTIES AnswersOwnRequest
INVARIANTS ClaimedIsAccounted ReadyHasTheConfigured
