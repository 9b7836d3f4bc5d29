\* up to two templates, mixed intervals, edits, resets, and calls that fail
SPECIFICATION FairSpec
CONSTANTS
    Specs <- ReportSpecs
    MaxTemplates = 2
    Faults = {"reset", "templateError", "eventFail", "statusFail"}
    MaxUid = 1
    MaxGen = 2
    MaxTime = 2
    MaxChanges = 1
    MaxFaults = 1
    None = None
PROPERTIES EventuallyReported
CHECK_DEADLOCK FALSE
