CONSTANTS
    m1 = m1
    m2 = m2
    m3 = m3
    Messages = {m1, m2}
    Msg <- TwoSenders
    Rules <- FoodAndRepeat
    MaxApply <- LimitedHelp
    WarmTypes = {}
    WarmGroups = {}
    StartTime = 2
    MaxTime = 2
    Nil = Nil
    Warm = Warm
SPECIFICATION FairSpec
INVARIANTS
    OneHandlerPerRule
PROPERTY
    MessageHandled
CHECK_DEADLOCK FALSE
