\* Receivers on a port and on a port set compete for kernel and display messages.
SPECIFICATION Spec
CONSTANTS
    p1 = p1  p2 = p2  t1 = t1  t2 = t2  s1 = s1  s2 = s2  r1 = r1  r2 = r2
    Ports = {p1}
    Sets = {t1}
    Senders = {}
    Receivers = {r1, r2}
    VsyncPorts = {p1}
    Limits = {1}
    DefaultLimit = 1
    Sizes = {FALSE, TRUE}
    MaxPosts = 3
    MaxFailures = 2
SYMMETRY Threads
CHECK_DEADLOCK FALSE
INVARIANTS NoMissedReceive ReceiveOrder
