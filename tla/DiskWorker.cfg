CONSTANTS
    Tasks = {c1, c2, settler, closer}
    Settler = settler
    Closer = closer
SPECIFICATION FairSpec
INVARIANTS TypeOK AdmissionCoversWork NothingBehindSentinel
PROPERTIES SettleIsQuiet EveryCallEnds
CHECK_DEADLOCK FALSE
