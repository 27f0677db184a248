\* Senders compete for the slots of one port; one receiver drains it.
SPECIFICATION Spec
CONSTANTS
    p1 = p1  p2 = p2  t1 = t1  t2 = t2  s1 = s1  s2 = s2  r1 = r1  r2 = r2
    Ports = {p1}
    Sets = {}
    Senders = {s1, s2}
    Receivers = {r1}
    VsyncPorts = {}
    Limits = {0, 1, 2}
    DefaultLimit = 1
    Sizes = {FALSE}
    MaxPosts = 3
    MaxFailures = 0
SYMMETRY Threads
CHECK_DEADLOCK FALSE
INVARIANTS TypeOK ReservationsAgree NoStrandedSender GrantedInOrder ArmedListed
