SPECIFICATION Spec
CONSTANTS
    Prices <- MCPrices
    FirstBook <- MCFirstBook
    MaxQuantity = 1
    SnapshotLimit = 1
    BufferSize = 2
    MaxUpdates = 5
INVARIANTS TypeOK SynchronizedIsExact SynchronizedIsReadable
PROPERTIES NeverBackInTime ImplementsControl
CHECK_DEADLOCK FALSE
