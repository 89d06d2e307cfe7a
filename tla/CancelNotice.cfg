SPECIFICATION Spec
CONSTANTS
    Orders = {o1}
    MaxAttempts = 1
    SlowRequests = FALSE
    Lossy = FALSE
INVARIANTS
    CancelNoticeTruthful
