\* a policy edited and created again, outages, changing answers, failures, restarts
SPECIFICATION FairSpec
CONSTANTS
    MaxUid = 2
    MaxGen = 2
    MaxAnswers = 2
    MaxOutages = 2
    MaxFaults = 1
    None = None
INVARIANTS TypeOK SavedBeforeUsed
PROPERTIES Implements FollowsHub
CHECK_DEADLOCK FALSE
