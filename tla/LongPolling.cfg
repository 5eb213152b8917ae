SPECIFICATION FairSpec
CONSTANTS
    Requests = {r1, r2, r3}
    MaxSize = 2
    Limits = {0, 1}
    Timeouts = {TRUE, FALSE}
    MaxEvents = 3
INVARIANTS
    TypeOK
    AtMostOnce
    NoSendOnClosed
    LostOnlyByTimeout
PROPERTIES
    ImplementsFeed
    WaitingServed
\* Without a timeout a call may wait for ever when nothing is pushed.
CHECK_DEADLOCK FALSE
