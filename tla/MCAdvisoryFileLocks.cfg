\* Two processes lock the whole file or its middle.
SPECIFICATION Spec
CONSTANTS
    a = a  b = b  t1 = t1  t2 = t2  u1 = u1  d1 = d1  d2 = d2
    None = None
    Processes <- TwoProcesses
    Threads <- ThreeThreads
    ProcessOf <- ThreadProcess
    Descriptions <- TwoDescriptions
    Opened <- OneEach
    LastByte = 2
    Ranges <- WholeAndMiddle
    Asks <- Calls
CHECK_DEADLOCK FALSE
INVARIANTS TypeOK Exclusion
PROPERTIES Implements WakesWaiters
