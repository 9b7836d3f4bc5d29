\* two objects; edits and users race with the evaluation; deletions hang, namespaces
\* are missing, kinds can not be watched
SPECIFICATION Spec
CONSTANTS
    a = a
    b = b
    Names = {a, b}
    Specs <- PruneSpecs
    Faults = {"hang", "createFail", "namespaceGone", "unwatchable"}
    MaxUid = 3
    MaxEdits = 2
    MaxFaults = 1
    None = None
    Absent = Absent
    NoProperties = NoProperties
INVARIANTS TypeOK NothingLeftBehind CreatedIsReported
CHECK_DEADLOCK FALSE
