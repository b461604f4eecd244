SPECIFICATION Spec
CONSTANTS
    BootstrapAttempts = 2
    MaxConnections = 2
    MaxBooks = 2
INVARIANTS TypeOK NeverAbandoned FreshSnapshot NothingSurvivesExpiry TrustNeedsConnection
CHECK_DEADLOCK FALSE
