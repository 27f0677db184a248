\* Lanes, a control thread and publishers of host completions.
SPECIFICATION FairSpec
CONSTANTS
    c1 = c1
    c2 = c2
    c3 = c3
    Channels <- ThreeLanes
    MaxCompletions = 2
INVARIANTS TypeOK NoMissedCompletion
PROPERTIES Implements RunReturns StopEnds
