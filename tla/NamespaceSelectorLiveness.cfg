\* two policies share the lock and a channel of capacity one
SPECIFICATION FairSpec
CONSTANTS
    n1 = n1  a = a  b = b
    Keys = {p1, p2}
    Namespaces <- OneNamespace
    Labels <- TwoLabels
    Targets <- TwoTargets
    Watching = {p1}
    Templates = 2
    ChanCap = 1
    MaxChanges = 1
    MaxEdits = 2
    MaxFails = 0
    Absent = Absent  NoTarget = NoTarget  NoSelection = NoSelection
    Free = Free  Rec = Rec
PROPERTIES GetReturns StoppedForGood FollowsUnlessRaced
CHECK_DEADLOCK FALSE
