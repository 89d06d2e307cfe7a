SPECIFICATION Spec
CONSTANTS
    Orders = {o1}
    MaxAttempts = 2
    SlowRequests = FALSE
    Lossy = FALSE
PROPERTIES
    AlreadyPaidIsRefused
