CONSTANTS
    m1 = m1
    m2 = m2
    m3 = m3
    Messages = {m1, m2, m3}
    Msg <- ThreeMessages
    Rules <- HelpAndFood
    MaxApply <- LimitedHelp
    WarmTypes = {"help", "fun"}
    WarmGroups = {}
    StartTime = 2
    MaxTime = 3
    Nil = Nil
    Warm = Warm
SPECIFICATION Spec
INVARIANT
    CdSpacing
CHECK_DEADLOCK FALSE
