------------------------- MODULE MCMachMessageQueue -------------------------
(***************************************************************************)
(* Small instances of MachMessageQueue.                                    *)
(***************************************************************************)
EXTENDS MachMessageQueue, TLC

CONSTANTS p1, p2, t1, t2, s1, s2, r1, r2

Threads == Permutations(Senders) \cup Permutations(Receivers)
=============================================================================
