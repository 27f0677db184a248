--------------------------- MODULE MCMachSemaphores ---------------------------
(* Two threads of one process and one of another.                          *)
EXTENDS MachSemaphores
CONSTANTS a, b, t1, t2, u1, m1, m2, q1
TwoProcesses == {a, b}
ThreeThreads == {t1, t2, u1}
ThreadProcess == [t \in Threads |-> IF t = u1 THEN b ELSE a]
TwoMach == {m1, m2}
OnePosix == {q1}
(* t1 waits on one Mach semaphore and signals another; t2 and u1 share the *)
(* POSIX semaphore, and each a Mach semaphore with t1.                     *)
Named == [t \in Threads |-> CASE t = t1 -> {m1, m2} [] t = t2 -> {m1, q1} [] OTHER -> {m2, q1}]
=============================================================================
