--------------------- MODULE MCGuestExecutionCoordinator ---------------------
(* Three lanes.                                                            *)
EXTENDS GuestExecutionCoordinator
CONSTANTS c1, c2, c3
ThreeLanes == {c1, c2, c3}
=============================================================================
