CONSTANTS
    Clients = {"c1", "c2"}
    KindOf <- KindOfClient
    Events = {"e1", "e2"}
    Readable <- SomeReadable
    Lets <- FilterLets
    Files <- SomeFiles
    Reloads <- SomeReloads
    Reported = {"e1"}
    MaxAttempts = 2
    MaxRequests = 1
SPECIFICATION Spec
INVARIANTS
    EachHearsAll
    HandledOnce
    FilterMeans
PROPERTIES
    ImplementsBroadcast
    PushesReturn
CHECK_DEADLOCK FALSE
