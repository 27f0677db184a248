-------------------------- MODULE CountingSemaphores --------------------------
(* What semaphores promise: a wait succeeds only against a token that a    *)
(* signal or the initial value made, and uses it up; a broadcast makes one *)
(* for each waiting thread and keeps none.  A thread that runs loses no    *)
(* token: only a terminated thread takes one with it.                      *)
EXTENDS Naturals, FiniteSets
CONSTANTS Sems, Threads, None

VARIABLES tokens,   \* signals that no wait has used up yet
          waiting,  \* the semaphore each thread waits on
          exists,   \* semaphores that can be signalled
          running,  \* threads that have not been terminated
          passed    \* whether the last step was the success of a wait

avars == <<tokens, waiting, exists, running, passed>>

AInit ==
    /\ tokens = [s \in Sems |-> 0]
    /\ waiting = [t \in Threads |-> None]
    /\ exists = {}
    /\ running = Threads
    /\ passed = FALSE

WaitersOf(s) == {t \in Threads : waiting[t] = s}

(* A call uses the tokens of U, none or one, and may make one.             *)
One(s, S) == IF s \in S THEN 1 ELSE 0
Spends(U) ==
    \E M \in {{}} \cup {{s} : s \in exists} :
        tokens' = [s \in Sems |-> tokens[s] + One(s, M) - One(s, U)]

Create(s) ==
    /\ s \notin exists
    /\ WaitersOf(s) = {}
    /\ exists' = exists \cup {s}
    /\ \A r \in Sems \ {s} : tokens'[r] = tokens[r]
    /\ UNCHANGED <<waiting, running>>

Signal ==
    /\ UNCHANGED <<waiting, exists, running>>
    /\ Spends({})

Block(t) ==
    /\ t \in running
    /\ waiting[t] = None
    /\ waiting' = [waiting EXCEPT ![t] = waiting'[t]]
    /\ UNCHANGED <<exists, running>>
    /\ Spends({})

Pass(t, s) ==
    /\ t \in running
    /\ waiting[t] \in {None, s}
    /\ tokens[s] > 0
    /\ waiting' = [waiting EXCEPT ![t] = None]
    /\ exists' \subseteq exists
    /\ running' = running
    /\ Spends({s})

Broadcast(s) ==
    /\ tokens' = [tokens EXCEPT ![s] = Cardinality(WaitersOf(s))]
    /\ UNCHANGED <<waiting, exists, running>>

(* A deadline passes, a signal interrupts, the semaphore was destroyed.    *)
Fail(t) ==
    /\ waiting' = [waiting EXCEPT ![t] = None]
    /\ exists' \subseteq exists
    /\ UNCHANGED <<tokens, running>>

(* Threads go, and with them semaphores; each may take one token along.    *)
Leave ==
    /\ running' \subseteq running
    /\ exists' \subseteq exists
    /\ waiting' = [t \in Threads |-> IF t \in running' THEN waiting[t] ELSE None]
    /\ \A s \in Sems :
          /\ tokens'[s] <= tokens[s]
          /\ s \in exists' =>
                tokens[s] - tokens'[s] <= Cardinality(WaitersOf(s) \ running')

(* The caller's last step may be a signal.                                 *)
Quit(t) ==
    /\ waiting[t] = None
    /\ running' = running \ {t}
    /\ UNCHANGED <<waiting, exists>>
    /\ Spends({})

Start(t) ==
    /\ running' = running \cup {t}
    /\ UNCHANGED <<tokens, waiting, exists>>

ANext ==
    \/ /\ passed' = TRUE
       /\ \E t \in Threads, s \in Sems : Pass(t, s)
    \/ /\ passed' = FALSE
       /\ \/ Signal \/ Leave
          \/ \E t \in Threads : Block(t) \/ Fail(t) \/ Quit(t) \/ Start(t)
          \/ \E s \in Sems : Create(s) \/ Broadcast(s)

ASpec == AInit /\ [][ANext]_avars
=============================================================================
