\* Two Mach semaphores and a POSIX one, three threads in two processes.
SPECIFICATION FairSpec
CONSTANTS
    a = a  b = b  t1 = t1  t2 = t2  u1 = u1  m1 = m1  m2 = m2  q1 = q1
    None = None
    Processes <- TwoProcesses
    Threads <- ThreeThreads
    ProcessOf <- ThreadProcess
    MachSems <- TwoMach
    PosixSems <- OnePosix
    Uses <- Named
    MaxCount = 1
CHECK_DEADLOCK FALSE
INVARIANTS TypeOK ResultsOwned NoTokenIdle
PROPERTIES Implements WakeReturns
