SPECIFICATION Spec
CONSTANTS
    Senders = {s1, s2}
    PartCount = 2
    MaxAttempts = 2
    MaxCrashes = 0
    ServerErrorMayAccept = FALSE
PROPERTY TerminalIsExcluded
CHECK_DEADLOCK FALSE
