\* one policy, all kinds of targets, failing lists
SPECIFICATION Spec
CONSTANTS
    n1 = n1  a = a  b = b
    Keys = {p1}
    Namespaces <- OneNamespace
    Labels <- OneLabel
    Targets <- BadTargets
    Watching = {}
    Templates = 2
    ChanCap = 1
    MaxChanges = 2
    MaxEdits = 3
    MaxFails = 1
    Absent = Absent  NoTarget = NoTarget  NoSelection = NoSelection
    Free = Free  Rec = Rec
INVARIANTS TypeOK StaleIsPending ChangeIsFlagged FlagIsAnnounced
CHECK_DEADLOCK FALSE
