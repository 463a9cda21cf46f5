SPECIFICATION FairSpec
CONSTANTS
    Limit = 2
    Bound = 4
INVARIANTS TypeOK CountersExact StuckOnlyCrossed
PROPERTIES NothingBreaksDeadlock EndsSomehow SurvivorRunsOn
CHECK_DEADLOCK FALSE
