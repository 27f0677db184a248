\* Two ports in two port sets: members come and go while messages are queued.
SPECIFICATION Spec
CONSTANTS
    p1 = p1  p2 = p2  t1 = t1  t2 = t2  s1 = s1  s2 = s2  r1 = r1  r2 = r2
    Ports = {p1, p2}
    Sets = {t1, t2}
    Senders = {}
    Receivers = {r1}
    VsyncPorts = {p1}
    Limits = {1}
    DefaultLimit = 1
    Sizes = {FALSE}
    MaxPosts = 1
    MaxFailures = 0
CHECK_DEADLOCK FALSE
INVARIANTS PrepostsCover
