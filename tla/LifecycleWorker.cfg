CONSTANTS
    Tasks = {c1, c2, c3, shutdown}
    Shutdown = shutdown
SPECIFICATION FairSpec
INVARIANTS TypeOK AdmissionCoversWork NothingBehindSentinel PlaceIsGivenBack JoinedBeforeReturn WorkerInv
PROPERTIES EveryCallEnds CloseEnds
CHECK_DEADLOCK FALSE
