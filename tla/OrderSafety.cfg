SPECIFICATION Spec
CONSTANTS
    Orders = {o1}
    MaxAttempts = 3
    SlowRequests = TRUE
    Lossy = TRUE
INVARIANTS
    TypeOK
    ChargedOrderExists
    PaidWasCharged
    NoticesFollowPayment
PROPERTIES
    PaidOverriddenOnlyOnRetry
    Implements
