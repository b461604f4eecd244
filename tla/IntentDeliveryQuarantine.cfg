CONSTANTS
    PartCount = 2
    MaxAttempts = 2
    Senders = {s1, s2}
    MaxCrashes = 0
    ServerErrorMayAccept = FALSE
SPECIFICATION Spec
PROPERTY UncertainIsQuarantined
CHECK_DEADLOCK FALSE
