\* Two lanes and a host thread contend for one page.
SPECIFICATION FairSpec
CONSTANTS
    l1 = l1
    l2 = l2
    h = h
    p1 = p1
    NoThread = NoThread
    NoPage = NoPage
    Threads <- LanesAndHost
    Lanes <- TwoLanes
    Pages <- OnePage
INVARIANTS TypeOK Exclusion
PROPERTIES Implements TransactionEnds
