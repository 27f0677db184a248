---------------------------- MODULE MachSemaphores ----------------------------
(* Semaphores of the compatibility kernel: those a Mach port names and the *)
(* POSIX named ones share SemaphoreState, the signal and the wait, and the *)
(* continuation of a blocked thread.  A wake is handed over in two sets of *)
(* thread identities that all processes share, and is taken by the poll of *)
(* the thread.  The kernel is serial: a call, and a poll, is one step.     *)
EXTENDS Naturals, FiniteSets, Sequences, SequencesExt, Queues

CONSTANTS Processes, Threads, ProcessOf,
          MachSems, PosixSems,  \* PosixSems: objects one name may stand for
          Uses,                 \* the semaphores each thread's calls name
          MaxCount,             \* bound on the value of a semaphore
          None

Sems == MachSems \cup PosixSems

ASSUME SemaphoreAssumption ==
    /\ ProcessOf \in [Threads -> Processes]
    /\ Uses \in [Threads -> SUBSET Sems]
    /\ IsFiniteSet(Threads)
    /\ MaxCount \in Nat \ {0}
    /\ MachSems \cap PosixSems = {}
    /\ None \notin Sems \cup Processes \cup [on: Sems, timed: BOOLEAN]

VARIABLES sem,      \* values, queues of waiters, wakeups and terminations
          owner,    \* the task each Mach semaphore is charged to
          linked,   \* the object the POSIX name stands for
          fds,      \* the processes with a descriptor for each POSIX semaphore
          wait,     \* PendingSemaphoreWait of each thread
          cached,   \* threads whose last poll failed and is still current
          live,     \* processes that have not exited
          running,  \* threads that have not been terminated
          passed    \* whether the last step was the success of a wait

vars == <<sem, owner, linked, fds, wait, cached, live, running, passed>>
lifetime == <<owner, linked, fds>>
tasks == <<live, running>>

Init ==
    /\ sem = [count |-> [s \in Sems |-> 0], waiters |-> [s \in Sems |-> <<>>],
              wakeups |-> {}, terminations |-> {}]
    /\ owner = [s \in MachSems |-> None]
    /\ linked = None
    /\ fds = [s \in PosixSems |-> {}]
    /\ wait = [t \in Threads |-> None]
    /\ cached = {}
    /\ live = Processes
    /\ running = Threads
    /\ passed = FALSE

ThreadsOf(p) == {t \in Threads : ProcessOf[t] = p}
Runs(t) == t \in running /\ wait[t] = None
Usable(t, s) ==
    IF s \in MachSems THEN owner[s] # None ELSE ProcessOf[t] \in fds[s]
Waiting(s) == ToSet(sem.waiters[s])

-----------------------------------------------------------------------------
(* SemaphoreState.                                                         *)

\* Mutant: the value is raised even when a waiter is woken.
SignalledAlways(K, s) ==
    LET R == [K EXCEPT !.count[s] = @ + 1]
    IN  IF K.waiters[s] = <<>> THEN R
        ELSE [R EXCEPT !.wakeups = @ \cup {Head(K.waiters[s])},
                       !.waiters[s] = Tail(@)]

(* signal_semaphore_state_locked for one thread.                           *)
Signalled(K, s) ==
    IF K.waiters[s] # <<>>
    THEN [K EXCEPT !.wakeups = @ \cup {Head(K.waiters[s])},
                   !.waiters[s] = Tail(@)]
    ELSE [K EXCEPT !.count[s] = @ + 1]

(* The bound: a signal that nobody waits for needs room.                   *)
Room(K, s) == K.waiters[s] # <<>> \/ K.count[s] < MaxCount

(* A thread that was woken is announced to the polls.                      *)
Announced(K) == IF K.wakeups \subseteq sem.wakeups THEN cached ELSE {}

(* The paired signal of wait_signal, after the wait.                       *)
Paired(K, g) == IF g = None THEN K ELSE Signalled(K, g)
PairAllowed(K, g) == g # None => owner[g] # None /\ Room(K, g)

Signal(t, s) ==
    /\ Runs(t)
    /\ Usable(t, s)
    /\ Room(sem, s)
    /\ sem' = Signalled(sem, s)
    /\ cached' = Announced(sem')
    /\ UNCHANGED <<lifetime, wait, tasks>>

(* semaphore_signal_all leaves no value behind.                            *)
SignalAll(t, s) ==
    /\ Runs(t)
    /\ s \in MachSems
    /\ owner[s] # None
    /\ sem' = [sem EXCEPT !.wakeups = @ \cup Waiting(s),
                          !.waiters[s] = <<>>, !.count[s] = 0]
    /\ cached' = Announced(sem')
    /\ UNCHANGED <<lifetime, wait, tasks>>

\* Mutant: the scheduler is told of the wake, the polls are not.
SignalThreadQuietly(t, s, u) ==
    /\ Runs(t)
    /\ s \in MachSems
    /\ u \in Waiting(s)
    /\ sem' = [sem EXCEPT !.wakeups = @ \cup {u}, !.waiters[s] = Erased(@, {u})]
    /\ UNCHANGED <<lifetime, wait, cached, tasks>>

(* semaphore_signal_thread fails when the thread does not wait.            *)
SignalThread(t, s, u) ==
    /\ Runs(t)
    /\ s \in MachSems
    /\ u \in Waiting(s)
    /\ sem' = [sem EXCEPT !.wakeups = @ \cup {u}, !.waiters[s] = Erased(@, {u})]
    /\ cached' = {}
    /\ UNCHANGED <<lifetime, wait, tasks>>

(* wait_on_semaphore_object.                                               *)
WaitTakes(t, s, g) ==
    LET K == [sem EXCEPT !.count[s] = @ - 1]
    IN  /\ Runs(t)
        /\ Usable(t, s)
        /\ s \in PosixSems => g = None
        /\ sem.count[s] > 0
        /\ PairAllowed(K, g)
        /\ sem' = Paired(K, g)
        /\ cached' = Announced(sem')
        /\ passed' = TRUE
        /\ UNCHANGED <<lifetime, wait, tasks>>

(* A wait with no time to spare still signals; sem_trywait has no pair.    *)
WaitRefused(t, s, g) ==
    /\ Runs(t)
    /\ Usable(t, s)
    /\ s \in PosixSems => g = None
    /\ sem.count[s] = 0
    /\ PairAllowed(sem, g)
    /\ sem' = Paired(sem, g)
    /\ cached' = Announced(sem')
    /\ UNCHANGED <<lifetime, wait, tasks>>

WaitBlocks(t, s, g, timed) ==
    LET K == [sem EXCEPT !.waiters[s] = Append(@, t)]
    IN  /\ Runs(t)
        /\ Usable(t, s)
        /\ s \in PosixSems => g = None /\ ~timed
        /\ sem.count[s] = 0
        /\ PairAllowed(K, g)
        /\ sem' = Paired(K, g)
        /\ wait' = [wait EXCEPT ![t] = [on |-> s, timed |-> timed]]
        /\ cached' = Announced(sem')
        /\ UNCHANGED <<lifetime, tasks>>

-----------------------------------------------------------------------------
(* Lifetimes.                                                              *)

(* An identity is reused only when no wait refers to it: ports are new.    *)
Fresh(s) == \A t \in Threads : wait[t] # None => wait[t].on # s
Made(s, n) == [sem EXCEPT !.count[s] = n, !.waiters[s] = <<>>]

Create(t, s, p, n) ==
    /\ Runs(t)
    /\ owner[s] = None
    /\ Fresh(s)
    /\ p \in live
    /\ owner' = [owner EXCEPT ![s] = p]
    /\ sem' = Made(s, n)
    /\ UNCHANGED <<linked, fds, wait, cached, tasks>>

Open(t, s, n) ==
    /\ Runs(t)
    /\ \/ linked = s /\ UNCHANGED sem
       \/ linked = None /\ fds[s] = {} /\ Fresh(s) /\ sem' = Made(s, n)
    /\ linked' = s
    /\ fds' = [fds EXCEPT ![s] = @ \cup {ProcessOf[t]}]
    /\ UNCHANGED <<owner, wait, cached, tasks>>

(* sem_close: the name, and a blocked wait, keep the object.               *)
Close(t, s) ==
    /\ Runs(t)
    /\ ProcessOf[t] \in fds[s]
    /\ fds' = [fds EXCEPT ![s] = @ \ {ProcessOf[t]}]
    /\ cached' = {}
    /\ UNCHANGED <<sem, owner, linked, wait, tasks>>

(* fork, or a descriptor sent through a socket.                            *)
Share(t, s, p) ==
    /\ Runs(t)
    /\ ProcessOf[t] \in fds[s]
    /\ p \in live \ fds[s]
    /\ fds' = [fds EXCEPT ![s] = @ \cup {p}]
    /\ UNCHANGED <<sem, owner, linked, wait, cached, tasks>>

Unlink(t) ==
    /\ Runs(t)
    /\ linked # None
    /\ linked' = None
    /\ UNCHANGED <<sem, owner, fds, wait, cached, tasks>>

(* The port and the object go; its waiters return KERN_TERMINATED.         *)
Terminated(D) ==
    [sem EXCEPT !.terminations = @ \cup UNION {Waiting(s) : s \in D},
                !.waiters = [s \in Sems |-> IF s \in D THEN <<>> ELSE @[s]],
                !.count = [s \in Sems |-> IF s \in D THEN 0 ELSE @[s]]]

Destroy(t, s) ==
    /\ Runs(t)
    /\ owner[s] # None
    /\ owner' = [owner EXCEPT ![s] = None]
    /\ sem' = Terminated({s})
    /\ cached' = {}
    /\ UNCHANGED <<linked, fds, wait, tasks>>

Forgotten(K, S, T) ==
    [K EXCEPT !.waiters = [s \in Sems |-> IF s \in S THEN Erased(@[s], T) ELSE @[s]],
              !.wakeups = @ \ T, !.terminations = @ \ T]

Registered(T) == {wait[t].on : t \in {u \in T : wait[u] # None}}
Unwaited(T) == [t \in Threads |-> IF t \in T THEN None ELSE wait[t]]

\* Mutant: an exit looks for waiters at the Mach semaphores only.
ExitOfMachWaits(p) ==
    LET Charged == {s \in MachSems : owner[s] = p}
    IN  /\ p \in live
        /\ sem' = Forgotten(Terminated(Charged), MachSems, ThreadsOf(p))
        /\ wait' = Unwaited(ThreadsOf(p))
        /\ owner' = [s \in MachSems |-> IF s \in Charged THEN None ELSE owner[s]]
        /\ fds' = [s \in PosixSems |-> fds[s] \ {p}]
        /\ cached' = {}
        /\ live' = live \ {p}
        /\ running' = running \ ThreadsOf(p)
        /\ UNCHANGED linked

(* Task exit: the waits of its threads are dropped with their places on    *)
(* the semaphores, POSIX ones included; then its own semaphores are        *)
(* destroyed, and its identities leave the results.                        *)
Exit(p) ==
    LET Charged == {s \in MachSems : owner[s] = p}
        T == ThreadsOf(p)
    IN  /\ p \in live
        /\ sem' = Forgotten(Terminated(Charged), MachSems \cup Registered(T), T)
        /\ wait' = Unwaited(T)
        /\ owner' = [s \in MachSems |-> IF s \in Charged THEN None ELSE owner[s]]
        /\ fds' = [s \in PosixSems |-> fds[s] \ {p}]
        /\ cached' = {}
        /\ live' = live \ {p}
        /\ running' = running \ T
        /\ UNCHANGED linked

-----------------------------------------------------------------------------
(* Threads.                                                                *)

(* exec: the other threads end.                                            *)
Exec(t) ==
    LET Others == ThreadsOf(ProcessOf[t]) \ {t}
    IN  /\ Runs(t)
        /\ Others \cap running # {}
        /\ sem' = Forgotten(sem, Registered(Others), Others)
        /\ wait' = Unwaited(Others)
        /\ cached' = cached \ Others
        /\ running' = running \ Others
        /\ UNCHANGED <<lifetime, live>>

(* retire_thread_continuations, for a thread that another one terminates.  *)
RetireThread(t) ==
    /\ t \in running
    /\ sem' = Forgotten(sem, Registered({t}), {t})
    /\ wait' = [wait EXCEPT ![t] = None]
    /\ cached' = cached \ {t}
    /\ running' = running \ {t}
    /\ UNCHANGED <<lifetime, live>>

(* bsdthread_terminate may signal the thread that joins; the end of the    *)
(* thread's port, if it has one, makes every poll stale.                   *)
ThreadExits(t, g) ==
    LET K == Forgotten(sem, {}, {t})
    IN  /\ Runs(t)
        /\ g # None
        /\ PairAllowed(K, g)
        /\ sem' = Paired(K, g)
        /\ cached' \in {{}, Announced(sem')}
        /\ running' = running \ {t}
        /\ UNCHANGED <<lifetime, wait, live>>

(* A new thread in the slot of an old one.                                 *)
StartThread(t) ==
    /\ t \notin running
    /\ ProcessOf[t] \in live
    /\ sem' = Forgotten(sem, {}, {t})
    /\ running' = running \cup {t}
    /\ UNCHANGED <<lifetime, wait, cached, live>>

-----------------------------------------------------------------------------
(* The continuation of a blocked thread.                                   *)

\* Mutant: the negative poll of an ended wait is kept.
EndWaitRemembered(t, success) ==
    /\ wait' = [wait EXCEPT ![t] = None]
    /\ passed' = success
    /\ UNCHANGED <<lifetime, cached, tasks>>

(* The thread returns from its call.                                       *)
EndWait(t, success) ==
    /\ wait' = [wait EXCEPT ![t] = None]
    /\ cached' = cached \ {t}
    /\ passed' = success
    /\ UNCHANGED <<lifetime, tasks>>

Ready(t) == t \in sem.wakeups \cup sem.terminations
Taken(t) ==
    IF t \in sem.terminations THEN [sem EXCEPT !.terminations = @ \ {t}]
    ELSE [sem EXCEPT !.wakeups = @ \ {t}]
Dequeued(t) == [sem EXCEPT !.waiters[wait[t].on] = Erased(@, {t})]

(* A semaphore deadline makes the poll required however old it is.         *)
CompleteWait(t) ==
    /\ wait[t] # None
    /\ t \notin cached \/ wait[t].timed
    /\ Ready(t)
    /\ sem' = Taken(t)
    /\ EndWait(t, t \notin sem.terminations)

\* Mutant: the deadline is looked at before the wake.
TimeOutFirst(t) ==
    /\ wait[t] # None
    /\ wait[t].timed
    /\ t \notin sem.terminations
    /\ sem' = [Dequeued(t) EXCEPT !.wakeups = @ \ {t}]
    /\ EndWait(t, FALSE)

TimeOut(t) ==
    /\ wait[t] # None
    /\ wait[t].timed
    /\ ~Ready(t)
    /\ sem' = Dequeued(t)
    /\ EndWait(t, FALSE)

ObserveBlocked(t) ==
    /\ wait[t] # None
    /\ t \notin cached
    /\ ~Ready(t)
    /\ cached' = cached \cup {t}
    /\ UNCHANGED <<sem, lifetime, wait, tasks>>

(* interrupt_thread_wait looks once more before it gives up.               *)
Interrupt(t) ==
    /\ wait[t] # None
    /\ sem' = IF Ready(t) THEN Taken(t) ELSE Dequeued(t)
    /\ EndWait(t, Ready(t) /\ t \notin sem.terminations)

(* Any other I/O event, and any Mach message, makes every poll stale.      *)
OtherEvent ==
    /\ cached # {}
    /\ cached' = {}
    /\ UNCHANGED <<sem, lifetime, wait, tasks>>

Calls(t, s) ==
    \/ Signal(t, s) \/ SignalAll(t, s)
    \/ \E u \in Threads : SignalThread(t, s, u)
    \/ \E g \in (Uses[t] \cap MachSems) \cup {None} :
          \/ WaitRefused(t, s, g)
          \/ \E timed \in BOOLEAN : WaitBlocks(t, s, g, timed)
    \/ /\ s \in MachSems
       /\ \/ \E p \in Processes, n \in 0..MaxCount : Create(t, s, p, n)
          \/ Destroy(t, s) \/ ThreadExits(t, s)
    \/ /\ s \in PosixSems
       /\ \/ \E n \in 0..MaxCount : Open(t, s, n)
          \/ \E p \in Processes : Share(t, s, p)
          \/ Close(t, s) \/ Unlink(t)

Next ==
    \/ \E t \in Threads :
          \/ \E s \in Uses[t], g \in (Uses[t] \cap MachSems) \cup {None} :
                WaitTakes(t, s, g)
          \/ CompleteWait(t) \/ TimeOut(t) \/ Interrupt(t)
    \/ /\ passed' = FALSE
       /\ \/ \E t \in Threads :
                \/ \E s \in Uses[t] : Calls(t, s)
                \/ Exec(t) \/ RetireThread(t) \/ StartThread(t) \/ ObserveBlocked(t)
          \/ \E p \in Processes : Exit(p)
          \/ OtherEvent

Spec == Init /\ [][Next]_vars

(* Every round of the session polls the threads with a pending event.      *)
FairSpec == Spec /\ \A t \in Threads : WF_vars(CompleteWait(t))

-----------------------------------------------------------------------------
TypeOK ==
    /\ sem \in [count: [Sems -> 0..MaxCount], waiters: [Sems -> Seq(Threads)],
               wakeups: SUBSET Threads, terminations: SUBSET Threads]
    /\ \A s \in Sems : IsInjective(sem.waiters[s])
    /\ owner \in [MachSems -> live \cup {None}]
    /\ linked \in PosixSems \cup {None}
    /\ fds \in [PosixSems -> SUBSET live]
    /\ wait \in [Threads -> {None} \cup [on: Sems, timed: BOOLEAN]]
    /\ cached \subseteq {t \in Threads : wait[t] # None}
    /\ running \subseteq {t \in Threads : ProcessOf[t] \in live}
    /\ passed \in BOOLEAN

(* A waiting thread is in exactly one place: queued on its semaphore, woken *)
(* or told of the end.  A thread that does not wait is in none, so that    *)
(* nothing names the threads of a process that has exited, and a thread    *)
(* that later takes a slot is not woken by what was meant for the old one. *)
Places(t) ==
    {<<"queue", s>> : s \in {r \in Sems : t \in Waiting(r)}}
    \cup {<<"wakeups">> : x \in {t} \cap sem.wakeups}
    \cup {<<"terminations">> : x \in {t} \cap sem.terminations}
ResultsOwned ==
    \A t \in Threads :
        IF wait[t] = None THEN Places(t) = {}
        ELSE \E x \in {<<"queue", wait[t].on>>, <<"wakeups">>, <<"terminations">>} :
                Places(t) = {x}

(* No thread sleeps on a semaphore that has a value to take.               *)
NoTokenIdle == \A s \in Sems : sem.waiters[s] # <<>> => sem.count[s] = 0

AbstractWait(t) == IF wait[t] # None THEN wait[t].on ELSE None
Woken(s) == {t \in sem.wakeups : AbstractWait(t) = s}
Reachable(s) ==
    IF s \in MachSems THEN owner[s] # None
    ELSE \/ linked = s \/ fds[s] # {}
         \/ \E t \in Threads : AbstractWait(t) = s

Tokens == [s \in Sems |-> sem.count[s] + Cardinality(Woken(s))]
WaitingOn == [t \in Threads |-> AbstractWait(t)]
Existing == {s \in Sems : Reachable(s)}

Abstract == INSTANCE CountingSemaphores WITH
    tokens <- Tokens, waiting <- WaitingOn, exists <- Existing

(* The queue, the two sets of results and the polls together implement     *)
(* counting semaphores: no wait passes twice on one signal, and no thread  *)
(* that runs on loses a signal that was spent on it, whether its deadline  *)
(* passes, a signal interrupts it or the semaphore is destroyed.           *)
Implements == Abstract!ASpec

(* A thread whose wait is over returns: the announcement of a wake makes   *)
(* its poll required.                                                      *)
WakeReturns == \A t \in Threads : Ready(t) ~> ~Ready(t)
=============================================================================
