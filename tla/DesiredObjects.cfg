\* templates of every form over two namespaces, and pairs of a template and an object
SPECIFICATION Spec
CONSTANTS
    NameKey = 110
    LastApplied = 1
    SccKey = 2
    Namespaces = {"n1", "n2"}
    Names = {"a", "b"}
    FixedName = "b"
    NamesThatMatch <- BuildNameList
    HasFields <- HasAll
    Scenarios <- AllScenarios
    MaxChanges = 1
    MaxFaults = 1
    None = None
INVARIANTS SelectedIsDesired DesiredIsOwn MatchIsSound Converges
CHECK_DEADLOCK FALSE
