CONSTANTS
    m1 = m1
    m2 = m2
    m3 = m3
    Messages = {m1, m2}
    Msg <- TwoOfOneSender
    Rules <- CommandHelpAndAbuse
    MaxApply <- LimitedHelp
    WarmTypes = {}
    WarmGroups = {}
    StartTime = 2
    MaxTime = 4
    Nil = Nil
    Warm = Warm
SPECIFICATION Spec
INVARIANTS
    MaxApplyRespected
    CdUnlessLost
    TriggersSorted
    AdminNeverMuted
CHECK_DEADLOCK FALSE
