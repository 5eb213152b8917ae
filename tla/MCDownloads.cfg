CONSTANTS
    Calls = {c1, c2}
    c1 = c1
    c2 = c2
    Cases <- SomeCases
    Limit = 4
    Large = 3
    Slack = 0
    MaxMissed = 2
SPECIFICATION Spec
INVARIANTS
    TypeOK
    QuietIsWhole
SYMMETRY
    AnyCall
