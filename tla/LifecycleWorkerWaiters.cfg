CONSTANTS
    Tasks = {c1, c2, c3, shutdown}
    Shutdown = shutdown
SPECIFICATION Spec
INVARIANT OneWaitingCaller
CHECK_DEADLOCK FALSE
