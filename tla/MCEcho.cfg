CONSTANTS
    Confs <- SomeConfs
    Received <- All
    Composed <- Written
    MaxMessageSize = 4
    Wide <- WideOf
    ElementSize = 2
SPECIFICATION Spec
INVARIANTS
    EchoSays
    ReplyLeads
    SplitIsExact
