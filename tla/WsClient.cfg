CONSTANTS
    Events = {e1, e2}
    MaxConns = 8
    MaxFaults = 3
SPECIFICATION FairSpec
INVARIANTS
    LinksAreSound
    NoDuplicate
PROPERTIES
    HandlersReturn
    Reattached
CHECK_DEADLOCK FALSE
