------------------------- MODULE MCAdvisoryFileLocks -------------------------
(* One file of a middle byte, what precedes and what follows it, open in   *)
(* two processes, one of which has two threads.                            *)
EXTENDS AdvisoryFileLocks
CONSTANTS a, b, t1, t2, u1, d1, d2
TwoProcesses == {a, b}
ThreeThreads == {t1, t2, u1}
TwoDescriptions == {d1, d2}
ThreadProcess == [t \in Threads |-> IF t = u1 THEN b ELSE a]
OneEach == [d \in Descriptions |-> IF d = d1 THEN {a} ELSE {b}]
WholeAndMiddle == {[start |-> 0, end |-> 3], [start |-> 1, end |-> 2]}
(* t1 locks ranges for its process, t2 the file; u1 locks ranges for its   *)
(* description, with and without a deadline, and the file.                 *)
Calls ==
    [t \in Threads |->
        CASE t = t1 -> {Fcntl(d1, a, r, k, FALSE) : r \in Ranges, k \in Kinds}
          [] t = t2 -> {Flock(d1, k) : k \in Kinds}
          [] OTHER -> {Fcntl(d2, d2, r, k, r = Whole) : r \in Ranges, k \in Kinds}
                         \cup {Flock(d2, k) : k \in Kinds}]
=============================================================================
