CONSTANTS
    PartCount = 1
    MaxAttempts = 2
    Senders = {s1, s2}
    MaxCrashes = 1
    ServerErrorMayAccept = TRUE
SPECIFICATION Spec
INVARIANT AtMostOnce
CHECK_DEADLOCK FALSE
