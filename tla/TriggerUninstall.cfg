\* two policies in two namespaces, an edit, another controller, a failure
SPECIFICATION FairSpec
CONSTANTS
    p1 = p1  p2 = p2
    Policies = {p1, p2}
    NumNamespaces = 2
    Namespace <- TwoNamespaces
    MaxDisturbances = 1
    None = None
INVARIANTS DoneMeansClean
PROPERTIES TriggerEnds
CHECK_DEADLOCK FALSE
