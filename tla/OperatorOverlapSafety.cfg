\* three policies, an edit or deletion, stale caches, conflicts, a failure or restart
SPECIFICATION Spec
CONSTANTS
    s1 = s1
    Policies = {p1, p2, p3}
    Subs = {s1}
    Specs <- AllSpecs
    StartSpecs <- FirstSpecs
    MaxEdits = 1
    MaxFaults = 1
    None = None  NoSub = NoSub  Absent = Absent  Unmanaged = Unmanaged
SYMMETRY Symmetry
INVARIANTS TypeOK OverlapSeen AloneManages StaleOnlyIfSlipped
CHECK_DEADLOCK FALSE
