-------------------------- MODULE MCGuestMemoryGate --------------------------
(* Two lanes and a host thread that only makes checked accesses.           *)
EXTENDS GuestMemoryGate
CONSTANTS l1, l2, h, p1
TwoLanes == {l1, l2}
LanesAndHost == {l1, l2, h}
OnePage == {p1}
=============================================================================
