SPECIFICATION FairSpec
CONSTANTS
    MaxPid = 2
    Binary = {"a", "b", "i"}
    Groups <- MCGroups
    Partition <- MCPartition
    Root = Root
    None = None
    fg = fg
    bg = bg
    A = A
    B = B
    Running = {1}
    StartBinary <- MCStartBinary
    GroupPartition <- MCGroupPartition
    GroupPriority <- MCGroupPriority
    Rules <- MCRules
    Fallback <- MCFallback
    ArgBinary = {"b"}
    Switches <- MCSwitches
    Decisions <- MCDecisions
    AlwaysFallback = FALSE
    Preserve = "low"
    ReclassifyMax = 2
    MaxEntries = 3
    MaxCalls = 60
    MaxQueue = 1
    MaxInputs = 3
INVARIANTS
    PolicyKnowsActiveGroup
    TablesAgree
PROPERTIES
    ReclassifyEnds
    ListensAgain
CHECK_DEADLOCK FALSE
