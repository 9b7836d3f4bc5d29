\* installation, removal and upgrades with edits, changes by others and failures
SPECIFICATION FairSpec
CONSTANTS
    Specs <- LifeSpecs
    MaxVersion = 2
    CatalogStates = {"sick", "unknown"}
    GroupStates = {"differs", "other", "many"}
    Deployments = {"down"}
    Finalizers = {"sub", "csv"}
    MaxDisturbances = 1
    None = None
INVARIANTS TypeOK StatusIsAccurate ParentAgrees OnlyAllowedInstalled EnforcedIsDone
PROPERTY Settles
CHECK_DEADLOCK FALSE
