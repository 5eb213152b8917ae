CONSTANTS
    Groups = {g}
    Users = {u}
    Self = self
    Led = {g}
    Backends = {"leveldb", "mongodb"}
    MaxMessages = 2
    NoGroup = NoGroup
    NoId = NoId
SPECIFICATION Spec
INVARIANTS
    IdsStayGood
    AnswersAreTrue
PROPERTY
    RecallsAreMeant
CHECK_DEADLOCK FALSE
