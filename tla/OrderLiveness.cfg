SPECIFICATION FairSpec
CONSTANTS
    Orders = {o1}
    MaxAttempts = 2
    SlowRequests = FALSE
    Lossy = FALSE
INVARIANTS
    OpenOrderWillExpire
PROPERTIES
    Settles
    InvoiceJobEnds
    ChargesAnnounced
