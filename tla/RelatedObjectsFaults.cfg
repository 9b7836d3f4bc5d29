\* every failure, every kind of pruning
SPECIFICATION FairSpec
CONSTANTS
    a = a
    b = b
    Names = {a}
    Specs <- MixedSpecs
    Faults = {"templateError", "unwatchable", "getFail", "createFail",
              "namespaceGone", "deleteFail", "statusFail", "crash", "hang",
              "uninstall"}
    MaxUid = 3
    MaxEdits = 2
    MaxFaults = 2
    None = None
    Absent = Absent
    NoProperties = NoProperties
 
PROPERTIES  DeletionCompletes
CHECK_DEADLOCK FALSE
