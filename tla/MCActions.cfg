CONSTANTS
    Callers = {c1, c2}
    Users = {u}
    Self = self
    Requests = {r}
    Flags = {f}
    MaxChanges = 2
    MaxAnswers = 3
SYMMETRY Symmetry
SPECIFICATION Spec
INVARIANTS
    RequestAnswers
    FailedDidNothing
PROPERTY
    AdminIsFresh
CHECK_DEADLOCK FALSE
