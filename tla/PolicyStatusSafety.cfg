\* edits, recreation, compliance resets, restarts, every call that can fail
SPECIFICATION Spec
CONSTANTS
    Specs <- SafetySpecs
    MaxTemplates = 1
    Faults = {"reset", "delete", "templateError", "updateError", "statusFail", "eventFail",
              "crash"}
    MaxUid = 2
    MaxGen = 2
    MaxTime = 2
    MaxChanges = 0
    MaxFaults = 2
    None = None
INVARIANTS TypeOK StatusBelongsToPolicy ParentAgrees
PROPERTIES FreshStart
CHECK_DEADLOCK FALSE
