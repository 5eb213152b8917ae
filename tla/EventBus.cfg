CONSTANTS
    Events = {e1, e2, e3}
    Handlers = {http, poll}
    Raw = {poll}
    Large = {e2}
    Buffers = {b1, b2, b3}
    None = None
SPECIFICATION BusFairSpec
INVARIANTS
    BufferBelongs
    BuffersReturned
    NoHandlerSkipped
PROPERTIES
    Dispatched
CHECK_DEADLOCK FALSE
