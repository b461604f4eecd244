CONSTANTS
    PartCount = 2
    MaxAttempts = 2
    Senders = {s1, s2, s3}
    MaxCrashes = 1
    ServerErrorMayAccept = FALSE
SPECIFICATION Spec
SYMMETRY SenderSymmetry
INVARIANTS TypeOK AtMostOnce SentIsPublished NoSendIsSilent ProjectionsAgree ClaimIsDeliverable SingleHolder DeliveryInv
PROPERTIES SettledIsFinal ImplementsAlert
CHECK_DEADLOCK FALSE
