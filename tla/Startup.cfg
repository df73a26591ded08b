SPECIFICATION FairSpec
CONSTANTS
    N = 2
    Absent = Absent
    Unreadable = Unreadable
    NaN = NaN
    TimeoutParameters = {Absent, Unreadable, 9, 10, NaN}
    LimitParameters = {Unreadable, 1, 2}
    UsbParameters = {Absent, Unreadable, 0, 5, 11, 18}
    MIN_USB_TIMEOUT_MS = 1
    MAX_USB_TIMEOUT_MS = 10
    DEFAULT_USB_TIMEOUT_MS = 5
    UnsignedRange = 16
    Codes = {1, 4, 5, 7}
    MaxAttempts = 3
INVARIANTS TypeOK ReadyIsConfigured DeadSessionIsLeft
PROPERTIES OnlineIsConfigured SetupEnds
CHECK_DEADLOCK FALSE
