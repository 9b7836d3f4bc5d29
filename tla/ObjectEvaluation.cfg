\* every kind of template, changes by others, edits, failures, restarts
SPECIFICATION FairSpec
CONSTANTS
    Kinds <- AllKinds
    Values = {1, 2}
    MaxChanges = 1
    MaxEdits = 1
    MaxFaults = 1
    Unset = 0
    None = None
INVARIANTS VerdictIsTrue
PROPERTIES Enforced
CHECK_DEADLOCK FALSE
