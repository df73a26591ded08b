SPECIFICATION FairSpec
CONSTANTS
    Register = {axis_error, motor_error}
    AxisError = axis_error
    Bits = {"named", "unknown"}
    Watchdog = "named"
    Named = {"named"}
    NaN = NaN
INVARIANTS ShownErrorIsLogged
PROPERTIES LatchedErrorIsLogged
