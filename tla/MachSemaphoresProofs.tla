-------------------------- MODULE MachSemaphoresProofs --------------------------
(* For any number of processes, threads and semaphores: a waiting thread   *)
(* is in one place, no value is idle while a thread waits, and the queues, *)
(* results and polls implement counting semaphores.                        *)
EXTENDS MachSemaphores, QueueTheorems, FiniteSetTheorems, TLAPS

-----------------------------------------------------------------------------
(* The invariant, of semaphores K and waits W.                             *)
SemType == [count: [Sems -> 0..MaxCount], waiters: [Sems -> Seq(Threads)],
            wakeups: SUBSET Threads, terminations: SUBSET Threads]
WaitType == [Threads -> {None} \cup [on: Sems, timed: BOOLEAN]]
Queued(K, s) == ToSet(K.waiters[s])

(* A thread is queued once, and only while there is no value to take.      *)
Queues(K) ==
    /\ K \in SemType
    /\ \A s \in Sems : IsInjective(K.waiters[s])
    /\ \A s \in Sems : K.waiters[s] # <<>> => K.count[s] = 0

(* A thread with the wait w is queued on its semaphore, woken or told of   *)
(* the end, one of the three; a thread without a wait is in no place.      *)
Settled(K, w, t) ==
    /\ \A s \in Sems : t \in Queued(K, s) => w # None /\ w.on = s
    /\ t \in K.wakeups \cup K.terminations => w # None
    /\ w # None =>
          /\ w.on \in Sems
          /\ t \in Queued(K, w.on) \cup K.wakeups \cup K.terminations
          /\ t \in Queued(K, w.on) => t \notin K.wakeups \cup K.terminations
          /\ t \in K.wakeups => t \notin K.terminations
Placed(K, W) == \A t \in Threads : Settled(K, W[t], t)

(* A thread that was terminated, or whose process has exited, waits for    *)
(* nothing.                                                                *)
Retired(W, R) == \A t \in Threads : t \notin R => W[t] = None

(* The thread that is told of the end waits on a semaphore that has ended. *)
Ended(K, W, O) ==
    \A t \in Threads : t \in K.terminations =>
        W[t].on \in MachSems /\ O[W[t].on] = None

(* Nobody is queued on a Mach semaphore that does not exist.               *)
Owned(K, O) == \A s \in MachSems : O[s] = None => Queued(K, s) = {}

Lives ==
    /\ live \subseteq Processes
    /\ owner \in [MachSems -> live \cup {None}]
    /\ linked \in PosixSems \cup {None}
    /\ fds \in [PosixSems -> SUBSET live]
Waits ==
    /\ wait \in WaitType
    /\ cached \subseteq {t \in Threads : wait[t] # None}
    /\ running \subseteq {t \in Threads : ProcessOf[t] \in live}
    /\ passed \in BOOLEAN

SemInv ==
    /\ Lives /\ Waits
    /\ Queues(sem) /\ Placed(sem, wait)
    /\ Retired(wait, running) /\ Ended(sem, wait, owner)
    /\ Owned(sem, owner)

(* No queue of R is longer than that of K.                                 *)
Shrinks(K, R) == \A s \in Sems : Queued(R, s) \subseteq Queued(K, s)

\* The types of the parts.
LEMMA SemFacts ==
  ASSUME NEW K \in SemType, NEW s \in Sems
  PROVE  /\ K.count \in [Sems -> 0..MaxCount] /\ K.count[s] \in 0..MaxCount
         /\ K.waiters \in [Sems -> Seq(Threads)] /\ K.waiters[s] \in Seq(Threads)
         /\ Queued(K, s) \in SUBSET Threads /\ (Queued(K, s) = {} <=> K.waiters[s] = <<>>)
         /\ K.wakeups \in SUBSET Threads /\ K.terminations \in SUBSET Threads
<1>1. /\ K.count \in [Sems -> 0..MaxCount] /\ K.waiters \in [Sems -> Seq(Threads)]
      /\ K.wakeups \in SUBSET Threads /\ K.terminations \in SUBSET Threads
  BY DEF SemType
<1>2. PICK q \in Seq(Threads) : q = K.waiters[s]
  BY <1>1
<1>3. ToSet(q) \in SUBSET Threads /\ (ToSet(q) = {} <=> q = <<>>)
  BY EmptyQueue
<1> QED
  BY <1>1, <1>2, <1>3 DEF Queued

\* A signal wakes the first waiter, or raises the value.
LEMMA SignalledIs ==
  ASSUME NEW K \in SemType, NEW s \in Sems, Room(K, s),
         NEW R, R = Signalled(K, s)
  PROVE  /\ R \in SemType /\ R.terminations = K.terminations
         /\ \A r \in Sems \ {s} : R.count[r] = K.count[r] /\ R.waiters[r] = K.waiters[r]
         /\ K.waiters[s] # <<>> =>
               /\ R.count[s] = K.count[s] /\ R.waiters[s] = Tail(K.waiters[s])
               /\ R.wakeups = K.wakeups \cup {Head(K.waiters[s])}
         /\ K.waiters[s] = <<>> =>
               /\ R.count[s] = K.count[s] + 1 /\ R.waiters[s] = K.waiters[s]
               /\ R.wakeups = K.wakeups
<1>1. /\ K.count \in [Sems -> 0..MaxCount] /\ K.waiters \in [Sems -> Seq(Threads)]
      /\ K.wakeups \in SUBSET Threads /\ K.terminations \in SUBSET Threads
  BY DEF SemType
<1>2. CASE K.waiters[s] # <<>>
  <2>1. R = [K EXCEPT !.wakeups = @ \cup {Head(K.waiters[s])}, !.waiters[s] = Tail(@)]
    BY <1>2 DEF Signalled
  <2>2. Tail(K.waiters[s]) \in Seq(Threads) /\ Head(K.waiters[s]) \in Threads
    BY <1>1, <1>2, HeadTailProperties
  <2>3. /\ R.count = K.count /\ R.terminations = K.terminations
        /\ R.wakeups = K.wakeups \cup {Head(K.waiters[s])}
        /\ R.waiters = [K.waiters EXCEPT ![s] = Tail(@)]
    BY <2>1 DEF SemType
  <2>4. R \in SemType
    <3> DEFINE q == Tail(K.waiters[s])
               x == Head(K.waiters[s])
    <3>1. q \in Seq(Threads) /\ x \in Threads
      BY <2>2
    <3>2. R = [K EXCEPT !.wakeups = @ \cup {x}, !.waiters[s] = q]
      BY <2>1
    <3> HIDE DEF q, x
    <3>3. PICK w : w = [K.waiters EXCEPT ![s] = q]
      OBVIOUS
    <3>4. R = [K EXCEPT !.wakeups = @ \cup {x}, !.waiters = w]
      BY <3>2, <3>3
    <3>5. w \in [Sems -> Seq(Threads)]
      BY <1>1, <3>1, <3>3
    <3> QED
      BY <1>1, <3>1, <3>4, <3>5 DEF SemType
  <2> QED
    BY <1>1, <1>2, <2>3, <2>4
<1>3. CASE K.waiters[s] = <<>>
  <2>1. R = [K EXCEPT !.count[s] = @ + 1]
    BY <1>3 DEF Signalled
  <2>2. K.count[s] + 1 \in 0..MaxCount
    BY <1>1, <1>3, SemaphoreAssumption DEF Room
  <2>3. /\ R.waiters = K.waiters /\ R.terminations = K.terminations
        /\ R.wakeups = K.wakeups /\ R.count = [K.count EXCEPT ![s] = @ + 1]
    BY <2>1 DEF SemType
  <2>4. R \in SemType
    BY <1>1, <2>1, <2>2 DEF SemType
  <2> QED
    BY <1>1, <1>3, <2>3, <2>4
<1> QED
  BY <1>2, <1>3

LEMMA SignalledGood ==
  ASSUME NEW K, Queues(K), NEW s \in Sems, Room(K, s),
         NEW R, R = Signalled(K, s)
  PROVE  /\ Queues(R)
         /\ \A W : Placed(K, W) => Placed(R, W)
         /\ R.terminations = K.terminations /\ Shrinks(K, R)
<1>1. /\ K \in SemType /\ \A r \in Sems : IsInjective(K.waiters[r])
      /\ \A r \in Sems : K.waiters[r] # <<>> => K.count[r] = 0
  BY DEF Queues
<1>2. /\ R \in SemType /\ R.terminations = K.terminations
      /\ \A r \in Sems \ {s} : R.count[r] = K.count[r] /\ R.waiters[r] = K.waiters[r]
      /\ K.waiters[s] # <<>> =>
            /\ R.count[s] = K.count[s] /\ R.waiters[s] = Tail(K.waiters[s])
            /\ R.wakeups = K.wakeups \cup {Head(K.waiters[s])}
      /\ K.waiters[s] = <<>> =>
            /\ R.count[s] = K.count[s] + 1 /\ R.waiters[s] = K.waiters[s]
            /\ R.wakeups = K.wakeups
  BY <1>1, SignalledIs
<1>3. K.waiters[s] \in Seq(Threads)
  BY <1>1, SemFacts
<1>4. K.waiters[s] # <<>> =>
         /\ Head(K.waiters[s]) \in Queued(K, s)
         /\ Queued(R, s) = Queued(K, s) \ {Head(K.waiters[s])}
         /\ IsInjective(R.waiters[s])
  BY <1>1, <1>2, <1>3, TailQueue DEF Queued
<1>5. Queues(R)
  BY <1>1, <1>2, <1>4 DEF Queues
<1>6. ASSUME NEW W, Placed(K, W), NEW t \in Threads
      PROVE  Settled(R, W[t], t)
  <2>1. Settled(K, W[t], t)
    BY <1>6 DEF Placed
  <2>2. \A r \in Sems \ {s} : Queued(R, r) = Queued(K, r)
    BY <1>2 DEF Queued
  <2>3. CASE K.waiters[s] = <<>>
    <3>1. \A r \in Sems : R.waiters[r] = K.waiters[r]
      BY <1>2, <2>3
    <3>3. \A r \in Sems : Queued(R, r) = Queued(K, r)
      BY <3>1 DEF Queued
    <3> QED
      BY <1>2, <2>1, <2>3, <3>3 DEF Settled
  <2>4. CASE K.waiters[s] # <<>>
    BY <1>2, <1>4, <2>1, <2>2, <2>4 DEF Settled
  <2> QED
    BY <2>3, <2>4
<1>7. Shrinks(K, R)
  BY <1>2, <1>4 DEF Shrinks, Queued
<1> QED
  BY <1>2, <1>5, <1>6, <1>7 DEF Placed

\* The signal that follows a wait, if there is one.
LEMMA PairedGood ==
  ASSUME NEW K, Queues(K), NEW g \in MachSems \cup {None}, PairAllowed(K, g),
         NEW R, R = Paired(K, g)
  PROVE  /\ Queues(R)
         /\ \A W : Placed(K, W) => Placed(R, W)
         /\ R.terminations = K.terminations /\ Shrinks(K, R)
<1>1. CASE g = None
  BY <1>1 DEF Paired, Shrinks
<1>2. CASE g # None
  <2>1. g \in Sems /\ Room(K, g) /\ R = Signalled(K, g)
    BY <1>2 DEF PairAllowed, Paired, Sems
  <2> QED
    BY <2>1, SignalledGood
<1> QED
  BY <1>1, <1>2

(* In R the waiters N of the semaphore s are woken.                        *)
Wakes(K, R, s, N) ==
    /\ R \in SemType /\ IsInjective(R.waiters[s])
    /\ R.waiters[s] # <<>> => R.count[s] = 0
    /\ Queued(R, s) = Queued(K, s) \ N
    /\ \A r \in Sems \ {s} : R.count[r] = K.count[r] /\ R.waiters[r] = K.waiters[r]
    /\ R.wakeups = K.wakeups \cup N /\ R.terminations = K.terminations

\* Waiters of a semaphore are woken.
LEMMA WokenGood ==
  ASSUME NEW K, Queues(K), NEW s \in Sems, NEW N, N \subseteq Queued(K, s),
         NEW R, Wakes(K, R, s, N)
  PROVE  /\ Queues(R)
         /\ \A W : Placed(K, W) => Placed(R, W)
         /\ Shrinks(K, R)
<1>1. Queues(R)
  BY DEF Queues, Wakes
<1>2. ASSUME NEW W, Placed(K, W), NEW t \in Threads
      PROVE  Settled(R, W[t], t)
  <2>1. Settled(K, W[t], t)
    BY <1>2 DEF Placed
  <2>2. \A r \in Sems \ {s} : Queued(R, r) = Queued(K, r)
    BY DEF Queued, Wakes
  <2>3. \A r \in Sems : t \in Queued(R, r) <=> t \in Queued(K, r) /\ ~ (r = s /\ t \in N)
    BY <2>2 DEF Wakes
  <2>4. t \in N => t \in Queued(K, s)
    OBVIOUS
  <2>5. R.wakeups = K.wakeups \cup N /\ R.terminations = K.terminations
    BY DEF Wakes
  <2> QED
    BY <2>1, <2>3, <2>4, <2>5 DEF Settled
<1>3. Shrinks(K, R)
  BY DEF Shrinks, Wakes, Queued
<1> QED
  BY <1>1, <1>2, <1>3 DEF Placed

\* semaphore_signal_all.
LEMMA SignalAllGood ==
  ASSUME Queues(sem), NEW s \in Sems,
         NEW R, R = [sem EXCEPT !.wakeups = @ \cup Waiting(s), !.waiters[s] = <<>>, !.count[s] = 0]
  PROVE  /\ Queues(R) /\ Shrinks(sem, R) /\ R.terminations = sem.terminations
         /\ \A W : Placed(sem, W) => Placed(R, W)
         /\ R.wakeups = sem.wakeups \cup Queued(sem, s)
         /\ R.count[s] = 0 /\ \A r \in Sems \ {s} : R.count[r] = sem.count[r]
<1>1. sem \in SemType /\ Waiting(s) = Queued(sem, s)
  BY DEF Queues, Waiting, Queued
<1>2. /\ sem.count \in [Sems -> 0..MaxCount] /\ sem.waiters \in [Sems -> Seq(Threads)]
      /\ Waiting(s) \in SUBSET Threads /\ sem.wakeups \in SUBSET Threads
  BY <1>1, SemFacts
<1>3. PICK c, w : c = [sem.count EXCEPT ![s] = 0] /\ w = [sem.waiters EXCEPT ![s] = <<>>]
  OBVIOUS
<1>4. R = [sem EXCEPT !.wakeups = @ \cup Waiting(s), !.waiters = w, !.count = c]
  BY <1>3
<1>5. /\ w \in [Sems -> Seq(Threads)] /\ w[s] = <<>> /\ \A r \in Sems \ {s} : w[r] = sem.waiters[r]
      /\ c \in [Sems -> 0..MaxCount] /\ c[s] = 0 /\ \A r \in Sems \ {s} : c[r] = sem.count[r]
  <2>1. <<>> \in Seq(Threads) /\ 0 \in 0..MaxCount
    BY EmptySeq, SemaphoreAssumption
  <2> QED
    BY <1>2, <1>3, <2>1
<1>6. R \in SemType
  <2>1. PICK a \in SUBSET Threads : a = sem.wakeups \cup Waiting(s)
    BY <1>2
  <2>2. R = [sem EXCEPT !.wakeups = a, !.waiters = w, !.count = c]
    BY <1>4, <2>1
  <2> QED
    BY <1>1, <1>5, <2>2 DEF SemType
<1>7. /\ R.waiters = w /\ R.count = c /\ R.wakeups = sem.wakeups \cup Waiting(s)
      /\ R.terminations = sem.terminations
  BY <1>1, <1>4 DEF SemType
<1>8. Queued(R, s) = {} /\ IsInjective(R.waiters[s])
  <2>1. R.waiters[s] = <<>>
    BY <1>5, <1>7
  <2>2. ToSet(<<>>) = {} /\ IsInjective(<<>>)
    BY <1>5, EmptyQueue
  <2> QED
    BY <2>1, <2>2 DEF Queued
<1>9. Wakes(sem, R, s, Queued(sem, s))
  BY <1>1, <1>5, <1>6, <1>7, <1>8 DEF Wakes
<1>10. Queues(R) /\ Shrinks(sem, R) /\ \A W : Placed(sem, W) => Placed(R, W)
  BY <1>9, WokenGood
<1> QED
  BY <1>1, <1>5, <1>7, <1>10

\* semaphore_signal_thread.
LEMMA SignalThreadIs ==
  ASSUME Queues(sem), NEW s \in Sems, NEW u \in Waiting(s),
         NEW R, R = [sem EXCEPT !.wakeups = @ \cup {u}, !.waiters[s] = Erased(@, {u})]
  PROVE  /\ Wakes(sem, R, s, {u}) /\ {u} \subseteq Queued(sem, s)
         /\ Queues(R) /\ R.terminations = sem.terminations
         /\ R.wakeups = sem.wakeups \cup {u} /\ R.count = sem.count
<1>1. sem \in SemType /\ u \in Queued(sem, s) /\ u \in Threads
  BY SemFacts DEF Queues, Waiting, Queued
<1>2. /\ sem.waiters \in [Sems -> Seq(Threads)] /\ sem.wakeups \in SUBSET Threads
      /\ sem.waiters[s] \in Seq(Threads)
  BY <1>1, SemFacts
<1>3. PICK q : q = Erased(sem.waiters[s], {u})
  OBVIOUS
<1>4. PICK w, x : w = [sem.waiters EXCEPT ![s] = q] /\ x = sem.wakeups \cup {u}
  OBVIOUS
<1>5. R = [sem EXCEPT !.wakeups = x, !.waiters = w]
  BY <1>3, <1>4
<1>6. /\ q \in Seq(Threads) /\ ToSet(q) = ToSet(sem.waiters[s]) \ {u}
      /\ IsInjective(sem.waiters[s]) => IsInjective(q)
  BY <1>2, <1>3, ErasedIs
<1>7. /\ w \in [Sems -> Seq(Threads)] /\ w[s] = q /\ x \in SUBSET Threads
      /\ \A r \in Sems \ {s} : w[r] = sem.waiters[r]
  BY <1>1, <1>2, <1>4, <1>6
<1>8. R \in SemType
  BY <1>1, <1>2, <1>5, <1>7 DEF SemType
<1>9. /\ R.waiters = w /\ R.count = sem.count /\ R.wakeups = sem.wakeups \cup {u}
      /\ R.terminations = sem.terminations
  BY <1>1, <1>4, <1>5 DEF SemType
<1>10. /\ Queued(R, s) = Queued(sem, s) \ {u} /\ IsInjective(R.waiters[s])
       /\ \A r \in Sems \ {s} : R.count[r] = sem.count[r] /\ R.waiters[r] = sem.waiters[r]
       /\ R.waiters[s] # <<>> => R.count[s] = 0
  <2>1. IsInjective(R.waiters[s]) /\ Queued(R, s) = Queued(sem, s) \ {u}
    BY <1>6, <1>7, <1>9 DEF Queued, Queues
  <2>2. sem.waiters[s] # <<>>
    BY <1>1, SemFacts
  <2> QED
    BY <1>7, <1>9, <2>1, <2>2 DEF Queues
<1>11. Wakes(sem, R, s, {u}) /\ {u} \subseteq Queued(sem, s)
  BY <1>1, <1>8, <1>9, <1>10 DEF Wakes
<1>12. Queues(R)
  BY <1>11, WokenGood
<1> QED
  BY <1>9, <1>11, <1>12

LEMMA SignalThreadGood ==
  ASSUME Queues(sem), NEW s \in Sems, NEW u \in Waiting(s),
         NEW R, R = [sem EXCEPT !.wakeups = @ \cup {u}, !.waiters[s] = Erased(@, {u})]
  PROVE  /\ Queues(R) /\ Shrinks(sem, R) /\ R.terminations = sem.terminations
         /\ \A W : Placed(sem, W) => Placed(R, W)
<1>1. /\ Wakes(sem, R, s, {u}) /\ {u} \subseteq Queued(sem, s)
      /\ R.terminations = sem.terminations
  BY SignalThreadIs
<1> QED
  BY <1>1, WokenGood

\* A wait takes one from the value.
LEMMA TakesGood ==
  ASSUME NEW K, Queues(K), NEW s \in Sems, K.count[s] > 0,
         NEW R, R = [K EXCEPT !.count[s] = @ - 1]
  PROVE  /\ Queues(R) /\ Shrinks(K, R) /\ R.terminations = K.terminations /\ R.wakeups = K.wakeups
         /\ R.count[s] = K.count[s] - 1 /\ \A r \in Sems \ {s} : R.count[r] = K.count[r]
         /\ R.waiters = K.waiters
         /\ \A W : Placed(K, W) => Placed(R, W)
<1>1. K \in SemType /\ K.count \in [Sems -> 0..MaxCount] /\ K.count[s] \in 0..MaxCount
  BY SemFacts DEF Queues
<1>2. K.count[s] - 1 \in 0..MaxCount
  BY <1>1, SemaphoreAssumption
<1>3. PICK c : c = [K.count EXCEPT ![s] = @ - 1]
  OBVIOUS
<1>4. R = [K EXCEPT !.count = c]
  BY <1>3
<1>5. c \in [Sems -> 0..MaxCount] /\ c[s] = K.count[s] - 1 /\ \A r \in Sems \ {s} : c[r] = K.count[r]
  BY <1>1, <1>2, <1>3
<1>6. R \in SemType
  BY <1>1, <1>4, <1>5 DEF SemType
<1>7. /\ R.count = c /\ R.waiters = K.waiters /\ R.wakeups = K.wakeups
      /\ R.terminations = K.terminations
  BY <1>1, <1>4 DEF SemType
<1>8. Queues(R)
  <2>1. K.waiters[s] = <<>>
    BY <1>1 DEF Queues
  <2> QED
    BY <1>5, <1>6, <1>7, <2>1 DEF Queues
<1>9. \A W : Placed(K, W) => Placed(R, W)
  BY <1>7 DEF Placed, Settled, Queued
<1>10. Shrinks(K, R)
  BY <1>7 DEF Shrinks, Queued
<1> QED
  BY <1>5, <1>7, <1>8, <1>9, <1>10

\* A record of semaphores with other queues and results.
LEMMA Rebuilt ==
  ASSUME NEW K \in SemType, NEW c \in [Sems -> 0..MaxCount], NEW w \in [Sems -> Seq(Threads)],
         NEW x \in SUBSET Threads, NEW z \in SUBSET Threads,
         NEW R, R = [K EXCEPT !.count = c, !.waiters = w, !.wakeups = x, !.terminations = z]
  PROVE  /\ R \in SemType
         /\ R.count = c /\ R.waiters = w /\ R.wakeups = x /\ R.terminations = z
BY DEF SemType

(* The thread t joins the queue of s, and its wait begins.                 *)
Enqueued(K, s, t) == [K EXCEPT !.waiters[s] = Append(@, t)]
Begun(W, t, s, b) == [W EXCEPT ![t] = [on |-> s, timed |-> b]]

\* A thread that does not wait yet joins the queue of a semaphore.
LEMMA EnqueuedGood ==
  ASSUME NEW K, Queues(K), NEW s \in Sems, K.count[s] = 0, NEW t \in Threads,
         NEW W \in WaitType, W[t] = None, Placed(K, W),
         NEW b \in BOOLEAN, NEW V, V = Begun(W, t, s, b),
         NEW R, R = Enqueued(K, s, t)
  PROVE  /\ Queues(R) /\ R.terminations = K.terminations /\ R.wakeups = K.wakeups
         /\ R.count = K.count /\ Placed(R, V)
         /\ Queued(R, s) = Queued(K, s) \cup {t}
         /\ \A r \in Sems \ {s} : Queued(R, r) = Queued(K, r)
<1>1. K \in SemType /\ K.waiters \in [Sems -> Seq(Threads)] /\ K.waiters[s] \in Seq(Threads)
  BY SemFacts DEF Queues
<1>2. PICK q, w : q = Append(K.waiters[s], t) /\ w = [K.waiters EXCEPT ![s] = q]
  OBVIOUS
<1>3. R = [K EXCEPT !.waiters = w]
  BY <1>2 DEF Enqueued
<1>4. Settled(K, W[t], t)
  BY DEF Placed
<1>5. t \notin ToSet(K.waiters[s]) /\ t \notin K.wakeups \cup K.terminations
      /\ \A r \in Sems : t \notin Queued(K, r)
  BY <1>4 DEF Settled, Queued
<1>6. /\ q \in Seq(Threads) /\ ToSet(q) = ToSet(K.waiters[s]) \cup {t}
      /\ IsInjective(K.waiters[s]) => IsInjective(q)
  BY <1>1, <1>2, <1>5, AppendQueue
<1>7. /\ w \in [Sems -> Seq(Threads)] /\ w[s] = q
      /\ \A r \in Sems \ {s} : w[r] = K.waiters[r]
  BY <1>1, <1>2, <1>6
<1>8. R \in SemType
  BY <1>1, <1>3, <1>7 DEF SemType
<1>9. /\ R.waiters = w /\ R.count = K.count /\ R.wakeups = K.wakeups
      /\ R.terminations = K.terminations
  BY <1>1, <1>3 DEF SemType
<1>10. Queues(R)
  BY <1>6, <1>7, <1>8, <1>9 DEF Queues
<1>11. /\ Queued(R, s) = Queued(K, s) \cup {t}
       /\ \A r \in Sems \ {s} : Queued(R, r) = Queued(K, r)
  BY <1>6, <1>7, <1>9 DEF Queued
<1>12. ASSUME NEW u \in Threads PROVE Settled(R, V[u], u)
  <2>1. CASE u = t
    <3>1. V[t] = [on |-> s, timed |-> b]
      BY DEF WaitType, Begun
    <3>2. V[t].on = s /\ V[t] \in [on: Sems, timed: BOOLEAN]
      BY <3>1
    <3>3. V[t] # None
      BY <3>2, SemaphoreAssumption
    <3> QED
      BY <1>5, <1>9, <1>11, <2>1, <3>2, <3>3 DEF Settled
  <2>2. CASE u # t
    <3>1. V[u] = W[u] /\ Settled(K, W[u], u)
      BY <1>12, <2>2 DEF Placed, WaitType, Begun
    <3>2. \A r \in Sems : u \in Queued(R, r) <=> u \in Queued(K, r)
      BY <1>11, <2>2
    <3> QED
      BY <1>9, <3>1, <3>2 DEF Settled
  <2> QED
    BY <2>1, <2>2
<1> QED
  BY <1>9, <1>10, <1>11, <1>12 DEF Placed

\* A new semaphore: no wait refers to its identity.
LEMMA MadeGood ==
  ASSUME Queues(sem), Waits, NEW s \in Sems, Fresh(s), NEW n \in 0..MaxCount,
         NEW R, R = Made(s, n)
  PROVE  /\ Queues(R) /\ Shrinks(sem, R) /\ R.terminations = sem.terminations /\ R.wakeups = sem.wakeups
         /\ R.count[s] = n /\ \A r \in Sems \ {s} : R.count[r] = sem.count[r]
         /\ Placed(sem, wait) => Placed(R, wait)
<1>1. /\ sem \in SemType /\ sem.count \in [Sems -> 0..MaxCount]
      /\ sem.waiters \in [Sems -> Seq(Threads)]
  BY SemFacts DEF Queues
<1>2. PICK c, w : c = [sem.count EXCEPT ![s] = n] /\ w = [sem.waiters EXCEPT ![s] = <<>>]
  OBVIOUS
<1>3. R = [sem EXCEPT !.count = c, !.waiters = w]
  BY <1>2 DEF Made
<1>4. <<>> \in Seq(Threads) /\ ToSet(<<>>) = {} /\ IsInjective(<<>>)
  BY <1>1, EmptyQueue
<1>5. /\ c \in [Sems -> 0..MaxCount] /\ w \in [Sems -> Seq(Threads)]
      /\ c[s] = n /\ w[s] = <<>>
      /\ \A r \in Sems \ {s} : c[r] = sem.count[r] /\ w[r] = sem.waiters[r]
  BY <1>1, <1>2, <1>4
<1>6. R \in SemType
  BY <1>1, <1>3, <1>5 DEF SemType
<1>7. /\ R.count = c /\ R.waiters = w /\ R.wakeups = sem.wakeups
      /\ R.terminations = sem.terminations
  BY <1>1, <1>3 DEF SemType
<1>8. Queues(R)
  BY <1>4, <1>5, <1>6, <1>7 DEF Queues
<1>9. /\ Queued(R, s) = {}
      /\ \A r \in Sems \ {s} : Queued(R, r) = Queued(sem, r)
  BY <1>4, <1>5, <1>7 DEF Queued
<1>10. ASSUME Placed(sem, wait), NEW t \in Threads
       PROVE  Settled(R, wait[t], t)
  <2>1. Settled(sem, wait[t], t)
    BY <1>10 DEF Placed
  <2>2. wait[t] # None => wait[t].on # s
    BY DEF Fresh
  <2>3. \A r \in Sems : t \in Queued(R, r) <=> t \in Queued(sem, r)
    BY <1>9, <2>1, <2>2 DEF Settled
  <2> QED
    BY <1>7, <2>1, <2>3 DEF Settled
<1>11. Shrinks(sem, R)
  BY <1>9 DEF Shrinks
<1> QED
  BY <1>5, <1>7, <1>8, <1>10, <1>11 DEF Placed

\* The end of semaphores: their waiters are told.
LEMMA TerminatedGood ==
  ASSUME Queues(sem), NEW D \in SUBSET Sems, NEW R, R = Terminated(D)
  PROVE  /\ Queues(R) /\ R.wakeups = sem.wakeups
         /\ R.count = [s \in Sems |-> IF s \in D THEN 0 ELSE sem.count[s]]
         /\ R.terminations = sem.terminations \cup UNION {Queued(sem, s) : s \in D}
         /\ Shrinks(sem, R) /\ \A s \in D : Queued(R, s) = {}
         /\ \A W : Placed(sem, W) => Placed(R, W)
<1>1. /\ sem \in SemType /\ sem.count \in [Sems -> 0..MaxCount]
      /\ sem.waiters \in [Sems -> Seq(Threads)] /\ sem.terminations \in SUBSET Threads
      /\ \A s \in Sems : sem.waiters[s] \in Seq(Threads)
      /\ \A s \in Sems : Queued(sem, s) \in SUBSET Threads
  BY SemFacts DEF Queues, SemType
<1>2. PICK c, w, z :
         /\ c = [s \in Sems |-> IF s \in D THEN 0 ELSE sem.count[s]]
         /\ w = [s \in Sems |-> IF s \in D THEN <<>> ELSE sem.waiters[s]]
         /\ z = sem.terminations \cup UNION {Queued(sem, s) : s \in D}
  OBVIOUS
<1>3. R = [sem EXCEPT !.terminations = z, !.waiters = w, !.count = c]
  BY <1>2 DEF Terminated, Waiting, Queued
<1>4. <<>> \in Seq(Threads) /\ ToSet(<<>>) = {} /\ IsInjective(<<>>) /\ 0 \in 0..MaxCount
  <2>1. <<>> \in Seq(Threads)
    BY EmptySeq
  <2> QED
    <3>1. 0 \in 0..MaxCount
      BY SemaphoreAssumption
    <3>2. ToSet(<<>>) = {} /\ IsInjective(<<>>)
      BY <2>1, EmptyQueue
    <3> QED
      BY <2>1, <3>1, <3>2
<1>5. /\ c \in [Sems -> 0..MaxCount] /\ w \in [Sems -> Seq(Threads)] /\ z \in SUBSET Threads
      /\ \A s \in Sems : w[s] = IF s \in D THEN <<>> ELSE sem.waiters[s]
  BY <1>1, <1>2, <1>4
<1>6. R \in SemType
  BY <1>1, <1>3, <1>5 DEF SemType
<1>7. /\ R.count = c /\ R.waiters = w /\ R.wakeups = sem.wakeups /\ R.terminations = z
  BY <1>1, <1>3 DEF SemType
<1>8. Queues(R)
  BY <1>2, <1>4, <1>5, <1>6, <1>7 DEF Queues
<1>9. \A s \in Sems : Queued(R, s) = IF s \in D THEN {} ELSE Queued(sem, s)
  BY <1>4, <1>5, <1>7 DEF Queued
<1>10. ASSUME NEW W, Placed(sem, W), NEW t \in Threads
       PROVE  Settled(R, W[t], t)
  <2>1. Settled(sem, W[t], t)
    BY <1>10 DEF Placed
  <2>2. t \in R.terminations <=> t \in sem.terminations \/ \E s \in D : t \in Queued(sem, s)
    BY <1>2, <1>7
  <2> QED
    BY <1>7, <1>9, <2>1, <2>2 DEF Settled
<1>11. Shrinks(sem, R) /\ \A s \in D : Queued(R, s) = {}
  BY <1>9 DEF Shrinks
<1> QED
  BY <1>2, <1>7, <1>8, <1>10, <1>11 DEF Placed

(* The threads T are forgotten: the waits V are what is left of W when the  *)
(* queues S are searched.                                                  *)
Forgets(W, V, S, T) ==
    \A t \in Threads :
        /\ t \notin T => V[t] = W[t]
        /\ t \in T => V[t] = None /\ (W[t] # None => W[t].on \in S)
KeepsPlaces(K, R, S, T) ==
    \A W, V : Placed(K, W) /\ Forgets(W, V, S, T) => Placed(R, V)

\* Threads leave the queues of the semaphores S and the results.
LEMMA ForgottenGood ==
  ASSUME NEW K, Queues(K), NEW S \in SUBSET Sems, NEW T, NEW R, R = Forgotten(K, S, T)
  PROVE  /\ Queues(R) /\ R.count = K.count
         /\ R.wakeups = K.wakeups \ T /\ R.terminations = K.terminations \ T
         /\ Shrinks(K, R)
         /\ KeepsPlaces(K, R, S, T)
<1>1. /\ K \in SemType /\ K.count \in [Sems -> 0..MaxCount]
      /\ K.waiters \in [Sems -> Seq(Threads)] /\ K.wakeups \in SUBSET Threads
      /\ K.terminations \in SUBSET Threads
      /\ \A s \in Sems : K.waiters[s] \in Seq(Threads)
  BY SemFacts DEF Queues, SemType
<1>2. PICK w, x, z :
         /\ w = [s \in Sems |-> IF s \in S THEN Erased(K.waiters[s], T) ELSE K.waiters[s]]
         /\ x = K.wakeups \ T /\ z = K.terminations \ T
  OBVIOUS
<1>3. R = [K EXCEPT !.waiters = w, !.wakeups = x, !.terminations = z]
  BY <1>2 DEF Forgotten
<1>4. \A s \in Sems :
         /\ w[s] \in Seq(Threads)
         /\ ToSet(w[s]) = IF s \in S THEN ToSet(K.waiters[s]) \ T ELSE ToSet(K.waiters[s])
         /\ IsInjective(K.waiters[s]) => IsInjective(w[s])
  BY <1>1, <1>2, ErasedIs
<1>5. w \in [Sems -> Seq(Threads)] /\ x \in SUBSET Threads /\ z \in SUBSET Threads
  BY <1>1, <1>2, <1>4
<1>6. R \in SemType
  BY <1>1, <1>3, <1>5 DEF SemType
<1>7. /\ R.count = K.count /\ R.waiters = w /\ R.wakeups = x /\ R.terminations = z
  BY <1>1, <1>3 DEF SemType
<1>8. \A s \in Sems : K.waiters[s] = <<>> => w[s] = <<>>
  <2>1. \A s \in Sems : K.waiters[s] = <<>> => ToSet(K.waiters[s]) = {}
    BY <1>1, EmptyQueue
  <2>2. \A s \in Sems : K.waiters[s] = <<>> => ToSet(w[s]) = {}
    BY <1>4, <2>1
  <2>3. ASSUME NEW s \in Sems, ToSet(w[s]) = {} PROVE w[s] = <<>>
    <3>1. w[s] \in Seq(Threads)
      BY <1>4
    <3> QED
      BY <2>3, <3>1, EmptyQueue
  <2> QED
    BY <2>2, <2>3
<1>9. Queues(R)
  BY <1>4, <1>6, <1>7, <1>8 DEF Queues
<1>10. \A s \in Sems : Queued(R, s) = IF s \in S THEN Queued(K, s) \ T ELSE Queued(K, s)
  BY <1>4, <1>7 DEF Queued
<1>11. ASSUME NEW W, NEW V, Placed(K, W), Forgets(W, V, S, T),
              NEW t \in Threads
       PROVE  Settled(R, V[t], t)
  <2>1. /\ Settled(K, W[t], t)
        /\ t \notin T => V[t] = W[t]
        /\ t \in T => V[t] = None /\ (W[t] # None => W[t].on \in S)
    BY <1>11 DEF Placed, Forgets
  <2>2. R.wakeups = K.wakeups \ T /\ R.terminations = K.terminations \ T
    BY <1>2, <1>7
  <2>3. \A s \in Sems : t \in Queued(R, s) <=> t \in Queued(K, s) /\ ~ (s \in S /\ t \in T)
    BY <1>10
  <2>4. CASE t \notin T
    BY <2>1, <2>2, <2>3, <2>4 DEF Settled
  <2>5. CASE t \in T
    <3>1. \A s \in Sems : t \in Queued(K, s) => s \in S
      BY <2>1, <2>5 DEF Settled
    <3>2. \A s \in Sems : t \notin Queued(R, s)
      BY <2>3, <2>5, <3>1
    <3> QED
      BY <2>1, <2>2, <2>5, <3>2 DEF Settled
  <2> QED
    BY <2>4, <2>5
<1>12. KeepsPlaces(K, R, S, T)
  BY <1>11 DEF Placed, KeepsPlaces
<1>13. Shrinks(K, R)
  BY <1>10 DEF Shrinks
<1> QED
  BY <1>2, <1>7, <1>9, <1>12, <1>13

(* The wait of the thread t is over.                                       *)
Over(W, V, t) == V = [W EXCEPT ![t] = None]

\* The wait of t ends and t is in no place any more.
LEMMA SettledErased ==
  ASSUME NEW K, NEW R, NEW t \in Threads, NEW W \in WaitType, NEW V, Over(W, V, t),
         Placed(K, W),
         \A s \in Sems : Queued(R, s) \in {Queued(K, s), Queued(K, s) \ {t}},
         R.wakeups \in {K.wakeups, K.wakeups \ {t}},
         R.terminations \in {K.terminations, K.terminations \ {t}},
         \A s \in Sems : t \notin Queued(R, s), t \notin R.wakeups \cup R.terminations
  PROVE  Placed(R, V)
<1>1. ASSUME NEW u \in Threads PROVE Settled(R, V[u], u)
  <2>1. CASE u = t
    <3>1. V[t] = None
      BY DEF Over, WaitType
    <3> QED
      BY <1>1, <2>1, <3>1 DEF Settled
  <2>2. CASE u # t
    <3>1. V[u] = W[u] /\ Settled(K, W[u], u)
      BY <1>1, <2>2 DEF Placed, Over, WaitType
    <3>2. \A s \in Sems : u \in Queued(R, s) <=> u \in Queued(K, s)
      BY <2>2
    <3>3. /\ u \in R.wakeups <=> u \in K.wakeups
          /\ u \in R.terminations <=> u \in K.terminations
      BY <2>2
    <3> QED
      BY <3>1, <3>2, <3>3 DEF Settled
  <2> QED
    BY <2>1, <2>2
<1> QED
  BY <1>1 DEF Placed

\* A thread takes the result of its wait.
LEMMA TakenGood ==
  ASSUME Queues(sem), Waits, Placed(sem, wait), NEW t \in Threads, Ready(t),
         NEW R, R = Taken(t), NEW V, Over(wait, V, t)
  PROVE  /\ Queues(R) /\ Shrinks(sem, R) /\ R.count = sem.count /\ R.waiters = sem.waiters
         /\ R.terminations \subseteq sem.terminations
         /\ t \in sem.terminations => R.wakeups = sem.wakeups
         /\ t \notin sem.terminations =>
               R.wakeups = sem.wakeups \ {t} /\ R.terminations = sem.terminations
         /\ Placed(R, V)
<1>1. sem \in SemType /\ wait \in WaitType
  BY DEF Queues, Waits
<1>2. R.waiters = sem.waiters => Shrinks(sem, R)
  BY DEF Shrinks, Queued
<1>3. /\ \A s \in Sems : t \notin Queued(sem, s)
      /\ t \in sem.terminations => t \notin sem.wakeups
  <2>1. Settled(sem, wait[t], t)
    BY DEF Placed
  <2> QED
    BY <2>1 DEF Settled, Ready
<1>4. CASE t \in sem.terminations
  <2>1. R = [sem EXCEPT !.terminations = @ \ {t}]
    BY <1>4 DEF Taken
  <2>2. /\ R \in SemType /\ R.count = sem.count /\ R.waiters = sem.waiters
        /\ R.wakeups = sem.wakeups /\ R.terminations = sem.terminations \ {t}
    BY <1>1, <2>1 DEF SemType
  <2>3. Queues(R)
    BY <2>2 DEF Queues
  <2>4. \A s \in Sems : Queued(R, s) = Queued(sem, s)
    BY <2>2 DEF Queued
  <2>5. (\A s \in Sems : t \notin Queued(R, s)) /\ t \notin R.wakeups \cup R.terminations
    BY <1>4, <1>3, <2>2, <2>4
  <2>6. /\ \A s \in Sems : Queued(R, s) \in {Queued(sem, s), Queued(sem, s) \ {t}}
        /\ R.wakeups \in {sem.wakeups, sem.wakeups \ {t}}
        /\ R.terminations \in {sem.terminations, sem.terminations \ {t}}
    BY <2>2, <2>4
  <2>7. Placed(R, V)
    BY <1>1, <2>5, <2>6, SettledErased
  <2> QED
    BY <1>4, <1>2, <2>2, <2>3, <2>7
<1>5. CASE t \notin sem.terminations
  <2>1. R = [sem EXCEPT !.wakeups = @ \ {t}] /\ t \in sem.wakeups
    BY <1>5 DEF Taken, Ready
  <2>2. /\ R \in SemType /\ R.count = sem.count /\ R.waiters = sem.waiters
        /\ R.wakeups = sem.wakeups \ {t} /\ R.terminations = sem.terminations
    BY <1>1, <2>1 DEF SemType
  <2>3. Queues(R)
    BY <2>2 DEF Queues
  <2>4. \A s \in Sems : Queued(R, s) = Queued(sem, s)
    BY <2>2 DEF Queued
  <2>5. (\A s \in Sems : t \notin Queued(R, s)) /\ t \notin R.wakeups \cup R.terminations
    BY <1>5, <1>3, <2>2, <2>4
  <2>6. /\ \A s \in Sems : Queued(R, s) \in {Queued(sem, s), Queued(sem, s) \ {t}}
        /\ R.wakeups \in {sem.wakeups, sem.wakeups \ {t}}
        /\ R.terminations \in {sem.terminations, sem.terminations \ {t}}
    BY <2>2, <2>4
  <2>7. Placed(R, V)
    BY <1>1, <2>5, <2>6, SettledErased
  <2> QED
    BY <1>5, <1>2, <2>2, <2>3, <2>7
<1> QED
  BY <1>4, <1>5

\* A thread that has no result leaves the queue it waits in.
LEMMA DequeuedGood ==
  ASSUME Queues(sem), Waits, Placed(sem, wait), NEW t \in Threads, wait[t] # None,
         ~ Ready(t), NEW R, R = Dequeued(t), NEW V, Over(wait, V, t)
  PROVE  /\ Queues(R) /\ Shrinks(sem, R) /\ R.count = sem.count /\ R.wakeups = sem.wakeups
         /\ R.terminations = sem.terminations
         /\ Placed(R, V)
<1>1. sem \in SemType /\ wait \in WaitType
  BY DEF Queues, Waits
<1>2. PICK s \in Sems : s = wait[t].on
  BY <1>1 DEF WaitType
<1>3. sem.waiters \in [Sems -> Seq(Threads)] /\ sem.waiters[s] \in Seq(Threads)
  BY <1>1, SemFacts
<1>4. PICK q, w : q = Erased(sem.waiters[s], {t}) /\ w = [sem.waiters EXCEPT ![s] = q]
  OBVIOUS
<1>5. R = [sem EXCEPT !.waiters = w]
  BY <1>2, <1>4 DEF Dequeued
<1>6. /\ q \in Seq(Threads) /\ ToSet(q) = ToSet(sem.waiters[s]) \ {t}
      /\ IsInjective(sem.waiters[s]) => IsInjective(q)
  BY <1>3, <1>4, ErasedIs
<1>7. /\ w \in [Sems -> Seq(Threads)] /\ w[s] = q
      /\ \A r \in Sems \ {s} : w[r] = sem.waiters[r]
  BY <1>3, <1>4, <1>6
<1>8. /\ R \in SemType /\ R.waiters = w /\ R.count = sem.count /\ R.wakeups = sem.wakeups
      /\ R.terminations = sem.terminations
  BY <1>1, <1>5, <1>7 DEF SemType
<1>9. sem.waiters[s] = <<>> => q = <<>>
  <2>1. sem.waiters[s] = <<>> => ToSet(sem.waiters[s]) = {}
    BY <1>3, EmptyQueue
  <2> QED
    BY <1>6, <2>1, EmptyQueue
<1>10. Queues(R)
  BY <1>6, <1>7, <1>8, <1>9 DEF Queues
<1>11. /\ Queued(R, s) = Queued(sem, s) \ {t}
       /\ \A r \in Sems \ {s} : Queued(R, r) = Queued(sem, r)
  BY <1>6, <1>7, <1>8 DEF Queued
<1>12. (\A r \in Sems : t \notin Queued(R, r)) /\ t \notin R.wakeups \cup R.terminations
  BY <1>2, <1>8, <1>11 DEF Placed, Settled, Ready
<1>13. Placed(R, V)
  BY <1>1, <1>8, <1>11, <1>12, SettledErased
<1>14. Shrinks(sem, R)
  BY <1>11 DEF Shrinks
<1> QED
  BY <1>8, <1>10, <1>13, <1>14

-----------------------------------------------------------------------------
(* The steps keep the invariant.                                           *)

\* What a call leaves alone when it only signals or takes a value.
LEMMA CallKeeps ==
  ASSUME SemInv, Queues(sem'), Placed(sem', wait), Shrinks(sem, sem'),
          sem'.terminations = sem.terminations,
         cached' \in {cached, {}}, passed' \in BOOLEAN, UNCHANGED <<lifetime, wait, tasks>>
  PROVE  SemInv'
<1>1. /\ owner' = owner /\ linked' = linked /\ fds' = fds /\ wait' = wait
      /\ live' = live /\ running' = running
  BY DEF lifetime, tasks
<1>2. Lives' /\ Waits'
  BY <1>1 DEF SemInv, Lives, Waits
<1>3. /\ Retired(wait', running') /\ Ended(sem', wait', owner')
      /\ Owned(sem', owner')
  BY <1>1 DEF SemInv, Ended, Owned, Shrinks, Sems
<1> QED
  BY <1>1, <1>2, <1>3 DEF SemInv

\* Announcing a wake either keeps what the polls remember or forgets it all.
LEMMA AnnouncedIs ==
  ASSUME NEW K
  PROVE  Announced(K) \in {cached, {}}
BY DEF Announced

LEMMA SignalStep ==
  ASSUME SemInv, NEW t \in Threads, NEW s \in Sems, Signal(t, s), passed' = FALSE
  PROVE  SemInv'
<1>1. sem' = Signalled(sem, s) /\ Room(sem, s) /\ cached' \in {cached, {}}
  BY AnnouncedIs DEF Signal
<1>2. Queues(sem) /\ Placed(sem, wait)
  BY DEF SemInv
<1>3. Shrinks(sem, sem') /\ Queues(sem') /\ Placed(sem', wait) /\ sem'.terminations = sem.terminations
  BY <1>1, <1>2, SignalledGood
<1> QED
  BY <1>1, <1>3, CallKeeps DEF Signal

LEMMA SignalAllStep ==
  ASSUME SemInv, NEW t \in Threads, NEW s \in Sems, SignalAll(t, s), passed' = FALSE
  PROVE  SemInv'
<1>1. /\ sem' = [sem EXCEPT !.wakeups = @ \cup Waiting(s), !.waiters[s] = <<>>, !.count[s] = 0]
      /\ cached' \in {cached, {}}
  BY AnnouncedIs DEF SignalAll
<1>2. Queues(sem) /\ Placed(sem, wait)
  BY DEF SemInv
<1>3. Shrinks(sem, sem') /\ Queues(sem') /\ Placed(sem', wait) /\ sem'.terminations = sem.terminations
  BY <1>1, <1>2, SignalAllGood
<1> QED
  BY <1>1, <1>3, CallKeeps DEF SignalAll

LEMMA SignalThreadStep ==
  ASSUME SemInv, NEW t \in Threads, NEW s \in Sems, NEW u \in Threads, SignalThread(t, s, u),
         passed' = FALSE
  PROVE  SemInv'
<1>1. /\ sem' = [sem EXCEPT !.wakeups = @ \cup {u}, !.waiters[s] = Erased(@, {u})]
      /\ u \in Waiting(s) /\ cached' \in {cached, {}}
  BY DEF SignalThread
<1>2. Queues(sem) /\ Placed(sem, wait)
  BY DEF SemInv
<1>3. Shrinks(sem, sem') /\ Queues(sem') /\ Placed(sem', wait) /\ sem'.terminations = sem.terminations
  BY <1>1, <1>2, SignalThreadGood
<1> QED
  BY <1>1, <1>3, CallKeeps DEF SignalThread

LEMMA WaitTakesStep ==
  ASSUME SemInv, NEW t \in Threads, NEW s \in Sems, NEW g \in MachSems \cup {None},
         WaitTakes(t, s, g)
  PROVE  SemInv'
<1>1. PICK K : K = [sem EXCEPT !.count[s] = @ - 1]
  OBVIOUS
<1>2. /\ sem.count[s] > 0 /\ PairAllowed(K, g) /\ sem' = Paired(K, g)
      /\ cached' \in {cached, {}} /\ passed' \in BOOLEAN
  BY <1>1, AnnouncedIs DEF WaitTakes
<1>3. Queues(sem) /\ Placed(sem, wait)
  BY DEF SemInv
<1>4. Shrinks(sem, K) /\ Queues(K) /\ Placed(K, wait) /\ K.terminations = sem.terminations
  BY <1>1, <1>2, <1>3, TakesGood
<1>5. Queues(sem') /\ Placed(sem', wait) /\ sem'.terminations = sem.terminations
  BY <1>2, <1>4, PairedGood
<1>6. Shrinks(K, sem')
  BY <1>2, <1>4, PairedGood
<1>7. Shrinks(sem, sem')
  BY <1>4, <1>6 DEF Shrinks
<1> QED
  BY <1>2, <1>5, <1>7, CallKeeps DEF WaitTakes

LEMMA WaitRefusedStep ==
  ASSUME SemInv, NEW t \in Threads, NEW s \in Sems, NEW g \in MachSems \cup {None},
         WaitRefused(t, s, g), passed' = FALSE
  PROVE  SemInv'
<1>1. /\ PairAllowed(sem, g) /\ sem' = Paired(sem, g)
      /\ cached' \in {cached, {}}
  BY AnnouncedIs DEF WaitRefused
<1>2. Queues(sem) /\ Placed(sem, wait)
  BY DEF SemInv
<1>3. Shrinks(sem, sem') /\ Queues(sem') /\ Placed(sem', wait) /\ sem'.terminations = sem.terminations
  BY <1>1, <1>2, PairedGood
<1> QED
  BY <1>1, <1>3, CallKeeps DEF WaitRefused

LEMMA WaitBlocksStep ==
  ASSUME SemInv, NEW t \in Threads, NEW s \in Sems, NEW g \in MachSems \cup {None},
         NEW b \in BOOLEAN, WaitBlocks(t, s, g, b), passed' = FALSE
  PROVE  SemInv'
<1>1. PICK K : K = Enqueued(sem, s, t)
  OBVIOUS
<1>2. /\ t \in running /\ wait[t] = None /\ sem.count[s] = 0
      /\ PairAllowed(K, g) /\ sem' = Paired(K, g)
      /\ wait' = Begun(wait, t, s, b)
      /\ cached' \in {cached, {}}
      /\ owner' = owner /\ linked' = linked /\ fds' = fds
      /\ live' = live /\ running' = running
  BY <1>1, AnnouncedIs DEF WaitBlocks, Runs, lifetime, tasks, Enqueued, Begun
<1>3. /\ Queues(sem) /\ Placed(sem, wait) /\ wait \in WaitType
      /\ ProcessOf[t] \in live
  BY <1>2 DEF SemInv, Waits
<1>4. /\ Queues(K) /\ Placed(K, wait') /\ K.terminations = sem.terminations
      /\ Queued(K, s) = Queued(sem, s) \cup {t}
      /\ \A r \in Sems \ {s} : Queued(K, r) = Queued(sem, r)
  BY <1>1, <1>2, <1>3, EnqueuedGood
<1>5. Shrinks(K, sem') /\ Queues(sem') /\ Placed(sem', wait') /\ sem'.terminations = sem.terminations
  BY <1>2, <1>4, PairedGood
<1>6. PICK e \in [on: Sems, timed: BOOLEAN] : e = [on |-> s, timed |-> b]
  OBVIOUS
<1>7. e # None
  BY SemaphoreAssumption
<1>8. wait' \in WaitType /\ wait'[t] = e /\ \A u \in Threads \ {t} : wait'[u] = wait[u]
  BY <1>2, <1>3, <1>6 DEF WaitType, Begun
<1>9. Lives' /\ Waits'
  BY <1>2, <1>7, <1>8 DEF SemInv, Lives, Waits
<1>10. Retired(wait', running')
  BY <1>2, <1>8 DEF SemInv, Retired
<1>11. Ended(sem', wait', owner')
  <2>1. t \notin sem.terminations
    BY <1>2, <1>3 DEF Placed, Settled
  <2> QED
    BY <1>2, <1>5, <1>8, <2>1 DEF SemInv, Ended
<1>12. Owned(sem', owner')
  <2>1. s \in MachSems => owner[s] # None
    BY DEF WaitBlocks, Usable
  <2> QED
    BY <1>2, <1>4, <1>5, <2>1 DEF SemInv, Owned, Shrinks, Sems
<1> QED
  BY <1>5, <1>9, <1>10, <1>11, <1>12 DEF SemInv

LEMMA CreateStep ==
  ASSUME SemInv, NEW t \in Threads, NEW s \in MachSems, NEW p \in Processes, NEW n \in 0..MaxCount,
         Create(t, s, p, n), passed' = FALSE
  PROVE  SemInv'
<1>1. /\ s \in Sems /\ Fresh(s) /\ sem' = Made(s, n) /\ p \in live
      /\ owner' = [owner EXCEPT ![s] = p] /\ linked' = linked /\ fds' = fds
      /\ wait' = wait /\ cached' = cached /\ live' = live /\ running' = running
  BY DEF Create, tasks, Sems
<1>2. Queues(sem) /\ Placed(sem, wait) /\ Waits
  BY DEF SemInv
<1>3. Shrinks(sem, sem') /\ Queues(sem') /\ Placed(sem', wait) /\ sem'.terminations = sem.terminations
  BY <1>1, <1>2, MadeGood
<1>4. Lives' /\ Waits'
  BY <1>1 DEF SemInv, Lives, Waits
<1>5. ASSUME NEW u \in Threads, u \in sem'.terminations
      PROVE  wait[u].on \in MachSems /\ owner'[wait[u].on] = None
  <2>1. wait[u].on \in MachSems /\ owner[wait[u].on] = None
    BY <1>3, <1>5 DEF SemInv, Ended
  <2>2. wait[u] # None
    BY <1>2, <1>3, <1>5 DEF Placed, Settled
  <2>3. wait[u].on # s
    BY <1>1, <2>2 DEF Fresh
  <2> QED
    BY <1>1, <2>1, <2>3 DEF SemInv, Lives
<1>6. Ended(sem', wait', owner') /\ Retired(wait', running')
  BY <1>1, <1>5 DEF SemInv, Ended
<1>7. Owned(sem', owner')
  <2>1. \A r \in MachSems \ {s} : owner'[r] = owner[r]
    BY <1>1 DEF SemInv, Lives
  <2>2. owner'[s] # None
    BY <1>1, SemaphoreAssumption DEF SemInv, Lives
  <2> QED
    BY <1>3, <2>1, <2>2 DEF SemInv, Owned, Shrinks, Sems
<1> QED
  BY <1>1, <1>3, <1>4, <1>6, <1>7 DEF SemInv

LEMMA OpenStep ==
  ASSUME SemInv, NEW t \in Threads, NEW s \in PosixSems, NEW n \in 0..MaxCount,
         Open(t, s, n), passed' = FALSE
  PROVE  SemInv'
<1>1. /\ s \in Sems /\ t \in running /\ linked' = s /\ owner' = owner
      /\ fds' = [fds EXCEPT ![s] = @ \cup {ProcessOf[t]}]
      /\ wait' = wait /\ cached' = cached /\ live' = live /\ running' = running
      /\ \/ sem' = sem
         \/ Fresh(s) /\ sem' = Made(s, n)
  BY DEF Open, Runs, tasks, Sems
<1>2. Queues(sem) /\ Placed(sem, wait) /\ Waits
  BY DEF SemInv
<1>3. Shrinks(sem, sem') /\ Queues(sem') /\ Placed(sem', wait) /\ sem'.terminations = sem.terminations
  BY <1>1, <1>2, MadeGood DEF Shrinks
<1>4. Lives'
  <2>1. ProcessOf[t] \in live /\ fds \in [PosixSems -> SUBSET live]
    BY <1>1 DEF SemInv, Lives, Waits
  <2>2. fds' \in [PosixSems -> SUBSET live]
    BY <1>1, <2>1
  <2> QED
    BY <1>1, <2>2 DEF SemInv, Lives
<1>5. Waits'
  BY <1>1 DEF SemInv, Waits
<1>6. Ended(sem', wait', owner') /\ Retired(wait', running')
  BY <1>1, <1>3 DEF SemInv, Ended
<1>7. Owned(sem', owner')
  BY <1>1, <1>3 DEF SemInv, Owned, Shrinks, Sems
<1> QED
  BY <1>1, <1>3, <1>4, <1>5, <1>6, <1>7 DEF SemInv

\* Closing, sharing and unlinking a name touch no queue.
LEMMA NameStep ==
  ASSUME SemInv, sem' = sem, owner' = owner, linked' \in {linked, None},
         fds' \in [PosixSems -> SUBSET live], cached' \in {cached, {}},
         passed' = FALSE, UNCHANGED <<wait, tasks>>
  PROVE  SemInv'
<1>1. wait' = wait /\ live' = live /\ running' = running
  BY DEF tasks
<1>2. Lives' /\ Waits'
  BY <1>1 DEF SemInv, Lives, Waits
<1> QED
  BY <1>1, <1>2 DEF SemInv

LEMMA CloseShareUnlinkStep ==
  ASSUME SemInv, NEW t \in Threads, NEW s \in PosixSems, passed' = FALSE,
         Close(t, s) \/ (\E p \in Processes : Share(t, s, p)) \/ Unlink(t)
  PROVE  SemInv'
<1>1. fds \in [PosixSems -> SUBSET live]
  BY DEF SemInv, Lives
<1>2. CASE Close(t, s)
  <2>1. fds' \in [PosixSems -> SUBSET live]
    BY <1>1, <1>2 DEF Close
  <2> QED
    BY <1>2, <2>1, NameStep DEF Close
<1>3. ASSUME NEW p \in Processes, Share(t, s, p) PROVE SemInv'
  <2>1. fds' \in [PosixSems -> SUBSET live]
    BY <1>1, <1>3 DEF Share
  <2> QED
    BY <1>3, <2>1, NameStep DEF Share
<1>4. CASE Unlink(t)
  BY <1>1, <1>4, NameStep DEF Unlink
<1> QED
  BY <1>2, <1>3, <1>4

LEMMA DestroyStep ==
  ASSUME SemInv, NEW t \in Threads, NEW s \in MachSems, Destroy(t, s), passed' = FALSE
  PROVE  SemInv'
<1>1. /\ s \in Sems /\ sem' = Terminated({s}) /\ cached' = {}
      /\ owner' = [owner EXCEPT ![s] = None] /\ linked' = linked /\ fds' = fds
      /\ wait' = wait /\ live' = live /\ running' = running
  BY DEF Destroy, tasks, Sems
<1>2. Queues(sem) /\ Placed(sem, wait)
  BY DEF SemInv
<1>3. PICK D : D = {s} /\ D \in SUBSET Sems
  BY <1>1
<1>4. /\ Queues(sem') /\ Placed(sem', wait)
      /\ Shrinks(sem, sem') /\ \A r \in D : Queued(sem', r) = {}
      /\ sem'.terminations = sem.terminations \cup UNION {Queued(sem, r) : r \in D}
  BY <1>1, <1>2, <1>3, TerminatedGood
<1>5. Lives' /\ Waits'
  BY <1>1 DEF SemInv, Lives, Waits
<1>6. ASSUME NEW u \in Threads, u \in sem'.terminations
      PROVE  wait[u].on \in MachSems /\ owner'[wait[u].on] = None
  <2>1. owner'[s] = None /\ \A r \in MachSems \ {s} : owner'[r] = owner[r]
    BY <1>1 DEF SemInv, Lives
  <2>2. CASE u \in sem.terminations
    BY <1>6, <2>1, <2>2 DEF SemInv, Ended
  <2>3. CASE u \in Queued(sem, s)
    BY <1>1, <1>2, <1>6, <2>1, <2>3 DEF Placed, Settled
  <2> QED
    BY <1>3, <1>4, <1>6, <2>2, <2>3
<1>7. Ended(sem', wait', owner') /\ Retired(wait', running')
  BY <1>1, <1>6 DEF SemInv, Ended
<1>8. Owned(sem', owner')
  <2>1. \A r \in MachSems \ {s} : owner'[r] = owner[r]
    BY <1>1 DEF SemInv, Lives
  <2> QED
    BY <1>3, <1>4, <2>1 DEF SemInv, Owned, Shrinks, Sems
<1> QED
  BY <1>1, <1>4, <1>5, <1>7, <1>8 DEF SemInv

\* The semaphores that threads are registered on.
LEMMA RegisteredIs ==
  ASSUME SemInv, NEW T \in SUBSET Threads
  PROVE  /\ Registered(T) \in SUBSET Sems
         /\ \A t \in T : wait[t] # None => wait[t].on \in Registered(T)
BY DEF SemInv, Waits, WaitType, Registered

\* The task's semaphores end, and its threads are forgotten with their waits.
LEMMA ExitStep ==
  ASSUME SemInv, NEW p \in Processes, Exit(p), passed' = FALSE
  PROVE  SemInv'
<1>1. PICK D, T, K, S :
         /\ D = {s \in MachSems : owner[s] = p} /\ T = ThreadsOf(p) /\ K = Terminated(D)
         /\ S = MachSems \cup Registered(T)
  OBVIOUS
<1>2. /\ D \in SUBSET MachSems /\ D \in SUBSET Sems /\ S \in SUBSET Sems
      /\ T \in SUBSET Threads /\ \A t \in Threads : t \in T <=> ProcessOf[t] = p
      /\ \A t \in T : wait[t] # None => wait[t].on \in S
  <2>1. T \in SUBSET Threads
    BY <1>1 DEF ThreadsOf
  <2> QED
    BY <1>1, <2>1, RegisteredIs DEF Sems, ThreadsOf
<1>3. /\ sem' = Forgotten(K, S, T) /\ cached' = {} /\ linked' = linked
      /\ owner' = [s \in MachSems |-> IF s \in D THEN None ELSE owner[s]]
      /\ fds' = [s \in PosixSems |-> fds[s] \ {p}]
      /\ wait' = Unwaited(T) /\ live' = live \ {p} /\ running' = running \ T
  BY <1>1 DEF Exit
<1>4. Queues(sem) /\ Placed(sem, wait)
  BY DEF SemInv
<1>5. /\ Queues(K) /\ Placed(K, wait)
      /\ Shrinks(sem, K) /\ \A s \in D : Queued(K, s) = {}
      /\ K.terminations = sem.terminations \cup UNION {Queued(sem, s) : s \in D}
  BY <1>1, <1>2, <1>4, TerminatedGood
<1>6. Forgets(wait, wait', S, T)
  BY <1>2, <1>3 DEF Forgets, Unwaited
<1>7. /\ Queues(sem') /\ Placed(sem', wait') /\ Shrinks(K, sem')
      /\ sem'.terminations = K.terminations \ T
  <2>1. PICK R : R = Forgotten(K, S, T)
    OBVIOUS
  <2>2. /\ Queues(R) /\ R.terminations = K.terminations \ T
        /\ KeepsPlaces(K, R, S, T)
    <3>1. S \in SUBSET Sems /\ Queues(K)
      BY <1>2, <1>5
    <3>2. Queues(R)
      BY <3>1, <2>1, ForgottenGood
    <3>3. KeepsPlaces(K, R, S, T)
      BY <3>1, <2>1, ForgottenGood
    <3>4. R.terminations = K.terminations \ T
      BY <3>1, <2>1 DEF Forgotten, Queues, SemType
    <3> QED
      BY <3>2, <3>3, <3>4
  <2>3. Shrinks(K, R)
    BY <1>2, <1>5, <2>1, ForgottenGood
  <2> QED
    BY <1>3, <1>5, <1>6, <2>1, <2>2, <2>3 DEF KeepsPlaces
<1>8. Lives'
  <2>1. /\ owner \in [MachSems -> live \cup {None}] /\ fds \in [PosixSems -> SUBSET live]
        /\ live \subseteq Processes /\ linked \in PosixSems \cup {None}
    BY DEF SemInv, Lives
  <2>2. \A s \in MachSems \ D : owner[s] # p
    BY <1>1
  <2>3. owner' \in [MachSems -> live' \cup {None}]
    BY <1>3, <2>1, <2>2
  <2>4. fds' \in [PosixSems -> SUBSET live']
    BY <1>3, <2>1
  <2> QED
    BY <1>3, <2>1, <2>3, <2>4 DEF Lives
<1>9. Waits'
  BY <1>2, <1>3 DEF SemInv, Waits, WaitType, Unwaited
<1>10. ASSUME NEW u \in Threads, u \in sem'.terminations
       PROVE  wait'[u].on \in MachSems /\ owner'[wait'[u].on] = None
  <2>1. u \notin T /\ u \in K.terminations /\ wait'[u] = wait[u]
    BY <1>3, <1>7, <1>10 DEF Unwaited
  <2>2. CASE u \in sem.terminations
    <3>1. wait[u].on \in MachSems /\ owner[wait[u].on] = None
      BY <2>1, <2>2 DEF SemInv, Ended
    <3> QED
      BY <1>3, <2>1, <3>1
  <2>3. ASSUME NEW s \in D, u \in Queued(sem, s)
        PROVE  wait'[u].on \in MachSems /\ owner'[wait'[u].on] = None
    <3>1. wait[u].on = s
      BY <1>2, <1>4, <2>1, <2>3 DEF Placed, Settled
    <3> QED
      BY <1>2, <1>3, <2>1, <3>1
  <2> QED
    BY <1>5, <2>1, <2>2, <2>3
<1>11. Ended(sem', wait', owner') /\ Retired(wait', running')
  BY <1>2, <1>3, <1>10 DEF SemInv, Ended, Retired, Unwaited
<1>12. Owned(sem', owner')
  <2> SUFFICES ASSUME NEW s \in MachSems, owner'[s] = None PROVE Queued(sem', s) = {}
    BY DEF Owned
  <2>1. s \in Sems /\ Queued(sem', s) \subseteq Queued(K, s)
    BY <1>7 DEF Shrinks, Sems
  <2>2. CASE s \in D
    BY <1>5, <2>1, <2>2
  <2>3. CASE s \notin D
    <3>1. Queued(sem, s) = {}
      BY <1>3, <2>3 DEF SemInv, Owned
    <3> QED
      BY <1>5, <2>1, <3>1 DEF Shrinks
  <2> QED
    BY <2>2, <2>3
<1> QED
  BY <1>3, <1>7, <1>8, <1>9, <1>11, <1>12 DEF SemInv

\* Threads are forgotten, with or without their waits.
LEMMA ForgetKeeps ==
  ASSUME SemInv, NEW S \in SUBSET Sems, NEW T, NEW K, K = Forgotten(sem, S, T),
         NEW V, Forgets(wait, V, S, T)
  PROVE  Queues(K) /\ Placed(K, V) /\ Ended(K, V, owner) /\ Owned(K, owner)
<1>1. Queues(sem) /\ Placed(sem, wait)
  BY DEF SemInv
<1>2. Queues(K)
  BY <1>1, ForgottenGood
<1>3. KeepsPlaces(sem, K, S, T)
  BY <1>1, ForgottenGood
<1>4. K.terminations = sem.terminations \ T
  BY <1>1 DEF Forgotten, Queues, SemType
<1>5. Placed(K, V)
  BY <1>1, <1>3 DEF KeepsPlaces
<1>6. ASSUME NEW t \in Threads, t \in K.terminations
      PROVE  V[t].on \in MachSems /\ owner[V[t].on] = None
  <2>1. t \notin T /\ t \in sem.terminations
    BY <1>4, <1>6
  <2>2. V[t] = wait[t]
    BY <1>6, <2>1 DEF Forgets
  <2> QED
    BY <1>6, <2>1, <2>2 DEF SemInv, Ended
<1>7. Shrinks(sem, K)
  BY <1>1, ForgottenGood
<1>8. Owned(K, owner)
  BY <1>7 DEF SemInv, Owned, Shrinks, Sems
<1> QED
  BY <1>2, <1>5, <1>6, <1>8 DEF Ended

\* Threads end while their process lives on: exec, or the end of one thread.
LEMMA EndThreads ==
  ASSUME SemInv, NEW T \in SUBSET Threads, sem' = Forgotten(sem, Registered(T), T),
         wait' = Unwaited(T), cached' = cached \ T, running' = running \ T, passed' = FALSE,
         UNCHANGED <<lifetime, live>>
  PROVE  SemInv'
<1>1. owner' = owner /\ linked' = linked /\ fds' = fds /\ live' = live
  BY DEF lifetime
<1>2. PICK S \in SUBSET Sems : S = Registered(T)
  BY RegisteredIs
<1>3. Forgets(wait, wait', S, T)
  BY <1>2, RegisteredIs DEF Forgets, Unwaited
<1>4. /\ Queues(sem') /\ Placed(sem', wait') /\ Ended(sem', wait', owner')
      /\ Owned(sem', owner')
  BY <1>1, <1>2, <1>3, ForgetKeeps
<1>5. Lives' /\ Waits'
  BY <1>1 DEF SemInv, Lives, Waits, WaitType, Unwaited
<1>6. Retired(wait', running')
  BY <1>1 DEF SemInv, Retired, Unwaited
<1> QED
  BY <1>4, <1>5, <1>6 DEF SemInv

LEMMA ExecStep ==
  ASSUME SemInv, NEW t \in Threads, Exec(t), passed' = FALSE
  PROVE  SemInv'
<1>1. PICK T \in SUBSET Threads : T = ThreadsOf(ProcessOf[t]) \ {t}
  BY DEF ThreadsOf
<1> QED
  BY <1>1, EndThreads DEF Exec

LEMMA RetireStep ==
  ASSUME SemInv, NEW t \in Threads, RetireThread(t), passed' = FALSE
  PROVE  SemInv'
<1>1. wait' = Unwaited({t})
  BY DEF RetireThread, SemInv, Waits, WaitType, Unwaited
<1>2. PICK T \in SUBSET Threads : T = {t}
  OBVIOUS
<1> QED
  BY <1>1, <1>2, EndThreads DEF RetireThread

\* The thread that exits does not wait; it may signal the one that joins it.
LEMMA ThreadExitsStep ==
  ASSUME SemInv, NEW t \in Threads, NEW g \in MachSems, ThreadExits(t, g), passed' = FALSE
  PROVE  SemInv'
<1>1. PICK K, T, S : T = {t} /\ S = {} /\ K = Forgotten(sem, S, T)
  OBVIOUS
<1>2. /\ wait[t] = None /\ PairAllowed(K, g) /\ sem' = Paired(K, g)
      /\ cached' \in {cached, {}} /\ running' = running \ T
      /\ owner' = owner /\ linked' = linked /\ fds' = fds /\ live' = live /\ wait' = wait
  BY <1>1, AnnouncedIs DEF ThreadExits, Runs, lifetime
<1>3. Forgets(wait, wait, S, T)
  BY <1>1, <1>2 DEF Forgets
<1>4. Queues(K) /\ Placed(K, wait) /\ Ended(K, wait, owner) /\ Owned(K, owner)
  BY <1>1, <1>3, ForgetKeeps
<1>5. Shrinks(K, sem') /\ Queues(sem') /\ Placed(sem', wait') /\ sem'.terminations = K.terminations
  BY <1>2, <1>4, PairedGood
<1>6. Ended(sem', wait', owner') /\ Owned(sem', owner')
  BY <1>2, <1>4, <1>5 DEF Ended, Owned, Shrinks, Sems
<1>7. Lives' /\ Waits' /\ Retired(wait', running')
  BY <1>1, <1>2 DEF SemInv, Lives, Waits, Retired
<1> QED
  BY <1>5, <1>6, <1>7 DEF SemInv

LEMMA StartStep ==
  ASSUME SemInv, NEW t \in Threads, StartThread(t), passed' = FALSE
  PROVE  SemInv'
<1>1. PICK T, S : T = {t} /\ S = {}
  OBVIOUS
<1>2. /\ ProcessOf[t] \in live /\ sem' = Forgotten(sem, S, T) /\ running' = running \cup {t}
      /\ wait[t] = None /\ cached' = cached
      /\ owner' = owner /\ linked' = linked /\ fds' = fds /\ live' = live /\ wait' = wait
  BY <1>1 DEF StartThread, lifetime, SemInv, Retired
<1>3. Forgets(wait, wait, S, T)
  BY <1>1, <1>2 DEF Forgets
<1>4. /\ Queues(sem') /\ Placed(sem', wait') /\ Ended(sem', wait', owner')
      /\ Owned(sem', owner')
  BY <1>1, <1>2, <1>3, ForgetKeeps
<1>5. Lives' /\ Waits' /\ Retired(wait', running')
  BY <1>1, <1>2 DEF SemInv, Lives, Waits, Retired
<1> QED
  BY <1>4, <1>5 DEF SemInv

\* A wait ends, with its result or without.
LEMMA WaitEnds ==
  ASSUME SemInv, NEW t \in Threads, NEW b \in BOOLEAN, EndWait(t, b),
         Queues(sem'), sem'.terminations \subseteq sem.terminations,
         Placed(sem', wait'), Shrinks(sem, sem')
  PROVE  SemInv'
<1>1. /\ wait' = [wait EXCEPT ![t] = None] /\ cached' = cached \ {t} /\ passed' \in BOOLEAN
      /\ owner' = owner /\ linked' = linked /\ fds' = fds /\ live' = live
      /\ running' = running
  BY DEF EndWait, lifetime, tasks
<1>2. wait \in WaitType
  BY DEF SemInv, Waits
<1>3. wait' \in WaitType /\ wait'[t] = None /\ \A u \in Threads \ {t} : wait'[u] = wait[u]
  BY <1>1, <1>2 DEF WaitType
<1>4. Lives' /\ Waits'
  BY <1>1, <1>3 DEF SemInv, Lives, Waits
<1>5. Retired(wait', running')
  BY <1>1, <1>3 DEF SemInv, Retired
<1>6. ASSUME NEW u \in Threads, u \in sem'.terminations
      PROVE  wait'[u].on \in MachSems /\ owner[wait'[u].on] = None
  <2>1. wait'[u] # None
    BY <1>6 DEF Placed, Settled
  <2>2. wait'[u] = wait[u] /\ u \in sem.terminations
    BY <1>3, <1>6, <2>1
  <2> QED
    BY <1>6, <2>2 DEF SemInv, Ended
<1>7. Owned(sem', owner')
  BY <1>1 DEF SemInv, Owned, Shrinks, Sems
<1> QED
  BY <1>1, <1>4, <1>5, <1>6, <1>7 DEF SemInv, Ended

LEMMA TakesResult ==
  ASSUME SemInv, NEW t \in Threads, wait[t] # None, Ready(t), sem' = Taken(t),
         EndWait(t, t \notin sem.terminations)
  PROVE  SemInv'
<1>1. Over(wait, wait', t)
  BY DEF EndWait, Over
<1>2. /\ Queues(sem') /\ sem'.terminations \subseteq sem.terminations
      /\ Placed(sem', wait') /\ Shrinks(sem, sem')
  BY <1>1, TakenGood DEF SemInv
<1>3. PICK b \in BOOLEAN : b = (t \notin sem.terminations)
  OBVIOUS
<1>4. EndWait(t, b)
  BY <1>3 DEF EndWait
<1> QED
  BY <1>2, <1>4, WaitEnds

LEMMA GivesUp ==
  ASSUME SemInv, NEW t \in Threads, wait[t] # None, ~ Ready(t), sem' = Dequeued(t),
         EndWait(t, FALSE)
  PROVE  SemInv'
<1>1. Over(wait, wait', t)
  BY DEF EndWait, Over
<1>2. /\ Queues(sem') /\ sem'.terminations = sem.terminations
      /\ Placed(sem', wait') /\ Shrinks(sem, sem')
  BY <1>1, DequeuedGood DEF SemInv
<1> QED
  BY <1>2, WaitEnds

LEMMA InterruptStep ==
  ASSUME SemInv, NEW t \in Threads, Interrupt(t)
  PROVE  SemInv'
<1>1. CASE Ready(t)
  <2>1. sem' = Taken(t) /\ wait[t] # None
    BY <1>1 DEF Interrupt
  <2>2. EndWait(t, t \notin sem.terminations)
    BY <1>1 DEF Interrupt, EndWait
  <2> QED
    BY <1>1, <2>1, <2>2, TakesResult
<1>2. CASE ~ Ready(t)
  <2>1. sem' = Dequeued(t) /\ wait[t] # None
    BY <1>2 DEF Interrupt
  <2>2. EndWait(t, FALSE)
    BY <1>2 DEF Interrupt, EndWait
  <2> QED
    BY <1>2, <2>1, <2>2, GivesUp
<1> QED
  BY <1>1, <1>2

\* What a poll remembers changes no place.
LEMMA PollStep ==
  ASSUME SemInv, passed' = FALSE,
         (\E t \in Threads : ObserveBlocked(t)) \/ OtherEvent
  PROVE  SemInv'
<1>1. /\ sem' = sem /\ wait' = wait /\ owner' = owner /\ linked' = linked /\ fds' = fds
      /\ live' = live /\ running' = running
  BY DEF ObserveBlocked, OtherEvent, lifetime, tasks
<1>2. cached' \subseteq {t \in Threads : wait[t] # None}
  BY DEF ObserveBlocked, OtherEvent, SemInv, Waits
<1>3. Lives' /\ Waits'
  BY <1>1, <1>2 DEF SemInv, Lives, Waits
<1> QED
  BY <1>1, <1>3 DEF SemInv

\* Nothing is queued and nobody waits at the start.
LEMMA SemInit ==
  ASSUME Init
  PROVE  SemInv
<1>1. sem = [count |-> [s \in Sems |-> 0], waiters |-> [s \in Sems |-> <<>>],
             wakeups |-> {}, terminations |-> {}]
  BY DEF Init
<1>2. <<>> \in Seq(Threads) /\ 0 \in 0..MaxCount
  BY EmptySeq, SemaphoreAssumption
<1>3. ToSet(<<>>) = {} /\ IsInjective(<<>>)
  BY <1>2, EmptyQueue
<1>4. /\ sem.count = [s \in Sems |-> 0] /\ sem.waiters = [s \in Sems |-> <<>>]
      /\ sem.wakeups = {} /\ sem.terminations = {}
  BY <1>1
<1>5. sem \in SemType
  <2>1. PICK c, w : c = [s \in Sems |-> 0] /\ w = [s \in Sems |-> <<>>]
    OBVIOUS
  <2>2. c \in [Sems -> 0..MaxCount] /\ w \in [Sems -> Seq(Threads)]
    BY <1>2, <2>1
  <2>3. sem = [count |-> c, waiters |-> w, wakeups |-> {}, terminations |-> {}]
    BY <1>1, <2>1
  <2> QED
    BY <2>2, <2>3 DEF SemType
<1>6. Queues(sem)
  BY <1>3, <1>4, <1>5 DEF Queues
<1>7. /\ wait = [t \in Threads |-> None] /\ cached = {} /\ live = Processes
      /\ running = Threads /\ passed = FALSE
      /\ owner = [s \in MachSems |-> None] /\ linked = None /\ fds = [s \in PosixSems |-> {}]
  BY DEF Init
<1>8. Placed(sem, wait)
  <2>1. \A s \in Sems : Queued(sem, s) = {}
    BY <1>3, <1>4 DEF Queued
  <2> QED
    BY <1>4, <1>7, <2>1 DEF Placed, Settled
<1>9. ProcessOf \in [Threads -> Processes]
  BY SemaphoreAssumption
<1>10. Lives /\ Waits
  BY <1>7, <1>9 DEF Lives, Waits, WaitType
<1>11. Retired(wait, running) /\ Ended(sem, wait, owner) /\ Owned(sem, owner)
  <2>1. \A s \in Sems : Queued(sem, s) = {}
    BY <1>3, <1>4 DEF Queued
  <2> QED
    BY <1>4, <1>7, <2>1 DEF Retired, Ended, Owned, Sems
<1> QED
  BY <1>6, <1>8, <1>10, <1>11 DEF SemInv

LEMMA CallsStep ==
  ASSUME SemInv, NEW t \in Threads, NEW s \in Uses[t], Calls(t, s), passed' = FALSE
  PROVE  SemInv'
<1>1. s \in Sems
  BY SemaphoreAssumption
<1>2. \A g \in (Uses[t] \cap MachSems) \cup {None} : g \in MachSems \cup {None}
  OBVIOUS
<1>3. ASSUME Signal(t, s) \/ SignalAll(t, s) \/ \E u \in Threads : SignalThread(t, s, u)
      PROVE  SemInv'
  BY <1>1, <1>3, SignalStep, SignalAllStep, SignalThreadStep
<1>4. ASSUME NEW g \in MachSems \cup {None},
             WaitRefused(t, s, g) \/ \E timed \in BOOLEAN : WaitBlocks(t, s, g, timed)
      PROVE  SemInv'
  BY <1>1, <1>4, WaitRefusedStep, WaitBlocksStep
<1>5. ASSUME s \in MachSems,
             \/ \E p \in Processes, n \in 0..MaxCount : Create(t, s, p, n)
             \/ Destroy(t, s) \/ ThreadExits(t, s)
      PROVE  SemInv'
  BY <1>5, CreateStep, DestroyStep, ThreadExitsStep
<1>6. ASSUME s \in PosixSems,
             \/ \E n \in 0..MaxCount : Open(t, s, n)
             \/ \E p \in Processes : Share(t, s, p)
             \/ Close(t, s) \/ Unlink(t)
      PROVE  SemInv'
  BY <1>6, OpenStep, CloseShareUnlinkStep
<1> QED
  BY <1>2, <1>3, <1>4, <1>5, <1>6 DEF Calls

LEMMA SemStep ==
  ASSUME SemInv, [Next]_vars
  PROVE  SemInv'
<1>1. CASE UNCHANGED vars
  BY <1>1 DEF vars, SemInv, Lives, Waits
<1>2. ASSUME NEW t \in Threads, NEW s \in Uses[t], NEW g \in (Uses[t] \cap MachSems) \cup {None},
             WaitTakes(t, s, g)
      PROVE  SemInv'
  <2>1. s \in Sems /\ g \in MachSems \cup {None}
    BY SemaphoreAssumption
  <2> QED
    BY <1>2, <2>1, WaitTakesStep
<1>3. ASSUME NEW t \in Threads, CompleteWait(t) \/ TimeOut(t) \/ Interrupt(t) PROVE SemInv'
  <2>1. CASE CompleteWait(t)
    BY <2>1, TakesResult DEF CompleteWait
  <2>2. CASE TimeOut(t)
    BY <2>2, GivesUp DEF TimeOut
  <2>3. CASE Interrupt(t)
    BY <2>3, InterruptStep
  <2> QED
    BY <1>3, <2>1, <2>2, <2>3
<1>4. ASSUME passed' = FALSE, NEW t \in Threads,
             \/ \E s \in Uses[t] : Calls(t, s)
             \/ Exec(t) \/ RetireThread(t) \/ StartThread(t) \/ ObserveBlocked(t)
      PROVE  SemInv'
  BY <1>4, CallsStep, ExecStep, RetireStep, StartStep, PollStep
<1>5. ASSUME passed' = FALSE, NEW p \in Processes, Exit(p) PROVE SemInv'
  BY <1>5, ExitStep
<1>6. ASSUME passed' = FALSE, OtherEvent PROVE SemInv'
  BY <1>6, PollStep
<1>7. ASSUME Next PROVE SemInv'
  BY <1>2, <1>3, <1>4, <1>5, <1>6, <1>7 DEF Next
<1> QED
  BY <1>1, <1>7

-----------------------------------------------------------------------------
\* In every behaviour a thread waits in one place, and no value is idle.
THEOREM SemaphoreInvariant == Spec => []SemInv
<1>1. Init => SemInv
  BY SemInit
<1>2. SemInv /\ [Next]_vars => SemInv'
  BY SemStep
<1> QED
  BY <1>1, <1>2, PTL DEF Spec

\* Every queue holds a thread at most once, only a living task owns a
\* semaphore, and only a thread that waits has a poll to remember.
THEOREM SemaphoresTyped == Spec => []TypeOK
<1>1. SemInv => TypeOK
  BY DEF SemInv, Lives, Waits, WaitType, Queues, SemType, TypeOK
<1> QED
  BY <1>1, SemaphoreInvariant, PTL

\* A waiting thread is in exactly one of the queue of its semaphore, the wakes and
\* the ends; a thread that does not wait, or whose process has exited, is in none.
THEOREM ResultsAreOwned == Spec => []ResultsOwned
<1>1. ASSUME SemInv, NEW t \in Threads
      PROVE  IF wait[t] = None THEN Places(t) = {}
             ELSE \E x \in {<<"queue", wait[t].on>>, <<"wakeups">>, <<"terminations">>} :
                     Places(t) = {x}
  <2>1. Settled(sem, wait[t], t)
    BY <1>1 DEF SemInv, Placed
  <2>2. PICK Q : Q = {r \in Sems : t \in Queued(sem, r)}
    OBVIOUS
  <2>3. Places(t) = {<<"queue", s>> : s \in Q}
                    \cup {<<"wakeups">> : x \in {t} \cap sem.wakeups}
                    \cup {<<"terminations">> : x \in {t} \cap sem.terminations}
    BY <2>2 DEF Places, Waiting, Queued
  <2>4. CASE wait[t] = None
    <3>1. Q = {} /\ t \notin sem.wakeups /\ t \notin sem.terminations
      BY <2>1, <2>2, <2>4 DEF Settled
    <3> QED
      BY <2>3, <2>4, <3>1
  <2>5. CASE wait[t] # None
    <3>1. /\ Q \in {{}, {wait[t].on}}
          /\ Q # {} => t \notin sem.wakeups /\ t \notin sem.terminations
          /\ t \in sem.wakeups => t \notin sem.terminations
          /\ Q # {} \/ t \in sem.wakeups \/ t \in sem.terminations
      BY <2>1, <2>2, <2>5 DEF Settled
    <3>2. CASE Q = {wait[t].on}
      <4>1. Places(t) = {<<"queue", wait[t].on>>}
        BY <2>3, <3>1, <3>2
      <4> QED
        BY <2>5, <4>1
    <3>3. CASE t \in sem.wakeups
      <4>1. Places(t) = {<<"wakeups">>}
        BY <2>3, <3>1, <3>3
      <4> QED
        BY <2>5, <4>1
    <3>4. CASE t \in sem.terminations
      <4>1. Places(t) = {<<"terminations">>}
        BY <2>3, <3>1, <3>4
      <4> QED
        BY <2>5, <4>1
    <3> QED
      BY <3>1, <3>2, <3>3, <3>4
  <2> QED
    BY <2>4, <2>5
<1>2. SemInv => ResultsOwned
  BY <1>1 DEF ResultsOwned
<1> QED
  BY <1>2, SemaphoreInvariant, PTL

\* No thread sleeps on a semaphore that has a value to take.
THEOREM NoValueIsIdle == Spec => []NoTokenIdle
<1>1. SemInv => NoTokenIdle
  BY DEF SemInv, Queues, NoTokenIdle
<1> QED
  BY <1>1, SemaphoreInvariant, PTL

-----------------------------------------------------------------------------
(* The refinement.  What the abstract semaphores see of semaphores K and   *)
(* waits W.                                                                *)
AWait(W, t) == IF W[t] # None THEN W[t].on ELSE None
WokenIn(K, W, s) == {t \in K.wakeups : AWait(W, t) = s}
Toks(K, W) == [s \in Sems |-> K.count[s] + Cardinality(WokenIn(K, W, s))]
AWaits(W) == [t \in Threads |-> AWait(W, t)]
ExistsIn(O, k, F, A) ==
    {s \in Sems : IF s \in MachSems THEN O[s] # None
                  ELSE k = s \/ F[s] # {} \/ \E t \in Threads : A[t] = s}
Unit(s, S) == IF s \in S THEN 1 ELSE 0

\* The mapping, before a step and after it.
LEMMA Mapping ==
  /\ Tokens = Toks(sem, wait) /\ WaitingOn = AWaits(wait)
  /\ Existing = ExistsIn(owner, linked, fds, WaitingOn)
  /\ Tokens' = Toks(sem', wait') /\ WaitingOn' = AWaits(wait')
  /\ Existing' = ExistsIn(owner', linked', fds', WaitingOn')
<1>1. \A s \in Sems : Woken(s) = WokenIn(sem, wait, s)
  BY DEF Woken, WokenIn, AbstractWait, AWait
<1>2. \A s \in Sems : Woken(s)' = WokenIn(sem', wait', s)
  BY DEF Woken, WokenIn, AbstractWait, AWait
<1>3. Tokens = Toks(sem, wait)
  BY <1>1 DEF Tokens, Toks
<1>4. Tokens' = Toks(sem', wait')
  BY <1>2 DEF Tokens, Toks
<1>5. WaitingOn = AWaits(wait)
  BY DEF WaitingOn, AWaits, AbstractWait, AWait
<1>6. WaitingOn' = AWaits(wait')
  BY DEF WaitingOn, AWaits, AbstractWait, AWait
<1>7. Existing = ExistsIn(owner, linked, fds, WaitingOn)
  BY DEF Existing, ExistsIn, Reachable, WaitingOn
<1>8. Existing' = ExistsIn(owner', linked', fds', WaitingOn')
  BY DEF Existing, ExistsIn, Reachable, WaitingOn
<1> QED
  BY <1>3, <1>4, <1>5, <1>6, <1>7, <1>8

\* The tokens of a semaphore are a number.
LEMMA ToksFacts ==
  ASSUME NEW K \in SemType, NEW W, NEW s \in Sems
  PROVE  /\ IsFiniteSet(WokenIn(K, W, s)) /\ Cardinality(WokenIn(K, W, s)) \in Nat
         /\ K.count[s] \in Nat
         /\ Toks(K, W)[s] = K.count[s] + Cardinality(WokenIn(K, W, s))
         /\ Toks(K, W)[s] \in Nat
<1>1. WokenIn(K, W, s) \in SUBSET Threads /\ IsFiniteSet(Threads)
  BY SemFacts, SemaphoreAssumption DEF WokenIn
<1>2. IsFiniteSet(WokenIn(K, W, s))
  BY <1>1, FS_Subset
<1>3. Cardinality(WokenIn(K, W, s)) \in Nat
  BY <1>2, FS_CardinalityType
<1>4. K.count[s] \in Nat
  <2>1. K.count[s] \in 0..MaxCount /\ MaxCount \in Nat
    BY SemFacts, SemaphoreAssumption
  <2> QED
    BY <2>1
<1>5. Toks(K, W)[s] = K.count[s] + Cardinality(WokenIn(K, W, s))
  BY DEF Toks
<1> QED
  BY <1>2, <1>3, <1>4, <1>5

\* The tokens depend on the values and on the woken threads only.
LEMMA ToksSame ==
  ASSUME NEW K, NEW N, NEW W, NEW V, NEW s \in Sems,
         N.count[s] = K.count[s], WokenIn(N, V, s) = WokenIn(K, W, s)
  PROVE  Toks(N, V)[s] = Toks(K, W)[s]
BY DEF Toks

(* From T to V the tokens grow by one in each semaphore of M.              *)
Adds(T, V, M) == \A r \in Sems : V[r] = T[r] + Unit(r, M)
Numbers(T) == \A r \in Sems : T[r] \in Nat
Elsewhere(T, V, s) == \A r \in Sems \ {s} : V[r] = T[r]

\* One more for one semaphore, or none more.
LEMMA AddsOne ==
  ASSUME NEW T, NEW V, NEW s \in Sems, Numbers(T), V[s] = T[s] + 1, Elsewhere(T, V, s)
  PROVE  Adds(T, V, {s})
<1>1. ASSUME NEW r \in Sems PROVE  V[r] = T[r] + Unit(r, {s})
  <2>1. CASE r = s
    BY <2>1 DEF Unit
  <2>2. CASE r # s
    <3>1. Unit(r, {s}) = 0 /\ V[r] = T[r] /\ T[r] \in Nat
      BY <2>2 DEF Unit, Numbers, Elsewhere
    <3> QED
      BY <3>1
  <2> QED
    BY <2>1, <2>2
<1> QED
  BY <1>1 DEF Adds

LEMMA AddsNone ==
  ASSUME NEW T, NEW V, Numbers(T), \A r \in Sems : V[r] = T[r]
  PROVE  Adds(T, V, {})
<1>1. ASSUME NEW r \in Sems PROVE  V[r] = T[r] + Unit(r, {})
  <2>1. Unit(r, {}) = 0 /\ V[r] = T[r] /\ T[r] \in Nat
    BY DEF Unit, Numbers
  <2> QED
    BY <2>1
<1> QED
  BY <1>1 DEF Adds

\* Waking a waiter makes one token.
LEMMA WakesToks ==
  ASSUME NEW K, Queues(K), NEW W, Placed(K, W),
         NEW s \in Sems, NEW h \in Queued(K, s),
         NEW N \in SemType, N.wakeups = K.wakeups \cup {h}, \A r \in Sems : N.count[r] = K.count[r]
  PROVE  Adds(Toks(K, W), Toks(N, W), {s})
<1>1. K \in SemType /\ h \in Threads
  BY SemFacts DEF Queues
<1>2. Settled(K, W[h], h)
  BY <1>1 DEF Placed
<1>3. AWait(W, h) = s /\ h \notin K.wakeups
  BY <1>1, <1>2 DEF Settled, AWait
<1>4. \A r \in Sems \ {s} : WokenIn(N, W, r) = WokenIn(K, W, r)
  BY <1>3 DEF WokenIn
<1>5. WokenIn(N, W, s) = WokenIn(K, W, s) \cup {h} /\ h \notin WokenIn(K, W, s)
  BY <1>3 DEF WokenIn
<1>6. Cardinality(WokenIn(N, W, s)) = Cardinality(WokenIn(K, W, s)) + 1
  <2>1. IsFiniteSet(WokenIn(K, W, s))
    BY <1>1, ToksFacts
  <2> QED
    BY <1>5, <2>1, FS_AddElement
<1>7. Toks(N, W)[s] = Toks(K, W)[s] + 1
  <2>1. /\ Toks(K, W)[s] = K.count[s] + Cardinality(WokenIn(K, W, s))
        /\ K.count[s] \in Nat /\ Cardinality(WokenIn(K, W, s)) \in Nat
    BY <1>1, ToksFacts
  <2>2. Toks(N, W)[s] = N.count[s] + Cardinality(WokenIn(N, W, s))
    BY ToksFacts
  <2> QED
    BY <1>6, <2>1, <2>2
<1>8. Elsewhere(Toks(K, W), Toks(N, W), s)
  BY <1>4, ToksSame DEF Elsewhere
<1>9. Numbers(Toks(K, W))
  BY <1>1, ToksFacts DEF Numbers
<1> QED
  BY <1>7, <1>8, <1>9, AddsOne

\* A signal makes one token.
LEMMA SignalledToks ==
  ASSUME NEW K, Queues(K), NEW W, Placed(K, W),
         NEW s \in Sems, Room(K, s), NEW N, N = Signalled(K, s)
  PROVE  Adds(Toks(K, W), Toks(N, W), {s})
<1>1. K \in SemType
  BY DEF Queues
<1>2. /\ N \in SemType /\ N.terminations = K.terminations
      /\ \A r \in Sems \ {s} : N.count[r] = K.count[r] /\ N.waiters[r] = K.waiters[r]
      /\ K.waiters[s] # <<>> =>
            /\ N.count[s] = K.count[s] /\ N.waiters[s] = Tail(K.waiters[s])
            /\ N.wakeups = K.wakeups \cup {Head(K.waiters[s])}
      /\ K.waiters[s] = <<>> =>
            /\ N.count[s] = K.count[s] + 1 /\ N.waiters[s] = K.waiters[s]
            /\ N.wakeups = K.wakeups
  BY <1>1, SignalledIs
<1>3. CASE K.waiters[s] # <<>>
  <2>1. PICK h \in Queued(K, s) : h = Head(K.waiters[s])
    <3>1. K.waiters[s] \in Seq(Threads)
      BY <1>1, SemFacts
    <3> QED
      BY <1>3, <3>1, TailQueue DEF Queued
  <2>2. N.wakeups = K.wakeups \cup {h} /\ \A r \in Sems : N.count[r] = K.count[r]
    BY <1>2, <1>3, <2>1
  <2> QED
    BY <1>2, <2>2, WakesToks
<1>4. CASE K.waiters[s] = <<>>
  <2>1. \A r \in Sems : WokenIn(N, W, r) = WokenIn(K, W, r)
    BY <1>2, <1>4 DEF WokenIn
  <2>2. Elsewhere(Toks(K, W), Toks(N, W), s)
    BY <1>2, <2>1, ToksSame DEF Elsewhere
  <2>3. Toks(N, W)[s] = Toks(K, W)[s] + 1
    <3>1. /\ Toks(K, W)[s] = K.count[s] + Cardinality(WokenIn(K, W, s))
          /\ K.count[s] \in Nat /\ Cardinality(WokenIn(K, W, s)) \in Nat
      BY <1>1, ToksFacts
    <3>2. Toks(N, W)[s] = N.count[s] + Cardinality(WokenIn(N, W, s))
      BY <1>2, ToksFacts
    <3> QED
      BY <1>2, <1>4, <2>1, <3>1, <3>2
  <2>4. Numbers(Toks(K, W))
    BY <1>1, ToksFacts DEF Numbers
  <2> QED
    BY <2>2, <2>3, <2>4, AddsOne
<1> QED
  BY <1>3, <1>4

(* The tokens change from T to V: those of U are used, one of E may be made. *)
Spent(T, V, E, U) ==
    \E M \in {{}} \cup {{s} : s \in E} :
        \A r \in Sems : V[r] = T[r] + Unit(r, M) - Unit(r, U)

\* The signal that goes with a wait.
LEMMA PairedToks ==
  ASSUME NEW K, Queues(K), NEW W, Placed(K, W),
         NEW g \in MachSems \cup {None}, PairAllowed(K, g), NEW N, N = Paired(K, g),
         NEW U, NEW T, \A r \in Sems : Toks(K, W)[r] = T[r] - Unit(r, U) /\ T[r] \in Nat,
         NEW E, \A r \in MachSems : owner[r] # None => r \in E
  PROVE  Spent(T, Toks(N, W), E, U)
<1>1. K \in SemType /\ \A r \in Sems : Toks(K, W)[r] \in Nat
  BY ToksFacts DEF Queues
<1>2. \A r \in Sems : Unit(r, U) \in {0, 1}
  BY DEF Unit
<1>3. PICK M \in {{}} \cup {{s} : s \in E} :
         Adds(Toks(K, W), Toks(N, W), M)
  <2>1. CASE g = None
    <3>1. Adds(Toks(K, W), Toks(N, W), {})
      BY <1>1, <2>1, AddsNone DEF Paired, Numbers
    <3> QED
      BY <3>1
  <2>2. CASE g # None
    <3>1. g \in Sems /\ g \in E /\ Room(K, g) /\ N = Signalled(K, g)
      BY <2>2 DEF PairAllowed, Paired, Sems
    <3>2. Adds(Toks(K, W), Toks(N, W), {g})
      BY <3>1, SignalledToks
    <3> QED
      BY <3>1, <3>2
  <2> QED
    BY <2>1, <2>2
<1>4. ASSUME NEW r \in Sems PROVE Toks(N, W)[r] = T[r] + Unit(r, M) - Unit(r, U)
  <2>1. Unit(r, M) \in {0, 1} /\ Unit(r, U) \in {0, 1} /\ T[r] \in Nat
    BY <1>2 DEF Unit
  <2>2. Toks(N, W)[r] = (T[r] - Unit(r, U)) + Unit(r, M)
    BY <1>3 DEF Adds
  <2> QED
    BY <2>1, <2>2
<1> QED
  BY <1>3, <1>4 DEF Spent

-----------------------------------------------------------------------------
(* The abstract steps, from what they say of the mapping.                  *)

\* The abstract specification counts as this one does.
LEMMA SameCardinality ==
  ASSUME NEW S
  PROVE  Abstract!Cardinality(S) = Cardinality(S)
BY DEF Abstract!Cardinality, Cardinality

\* Tokens are used and made as in an abstract step.
LEMMA SpendsIs ==
  ASSUME NEW U, Spent(Tokens, Tokens', Existing, U)
  PROVE  Abstract!Spends(U)
<1>1. PICK M \in {{}} \cup {{s} : s \in Existing} :
         \A r \in Sems : Tokens'[r] = Tokens[r] + Unit(r, M) - Unit(r, U)
  BY DEF Spent
<1>2. Tokens' = [r \in Sems |-> Tokens'[r]]
  BY DEF Tokens
<1>3. \A r, S : Unit(r, S) = Abstract!One(r, S)
  BY DEF Unit, Abstract!One
<1>4. Tokens' = [r \in Sems |-> Tokens[r] + Abstract!One(r, M) - Abstract!One(r, U)]
  <2>1. \A r \in Sems : Tokens'[r] = Tokens[r] + Abstract!One(r, M) - Abstract!One(r, U)
    BY <1>1, <1>3
  <2> QED
    BY <1>2, <2>1
<1> QED
  BY <1>4 DEF Abstract!Spends

LEMMA IsSignal ==
  ASSUME passed' = FALSE, running' = running, WaitingOn' = WaitingOn, Existing' = Existing,
         Spent(Tokens, Tokens', Existing, {})
  PROVE  Abstract!ANext
<1>1. Abstract!Spends({})
  BY SpendsIs
<1>2. Abstract!Signal
  BY <1>1 DEF Abstract!Signal
<1> QED
  BY <1>2 DEF Abstract!ANext

LEMMA IsCreate ==
  ASSUME passed' = FALSE, running' = running, WaitingOn' = WaitingOn,
         NEW s \in Sems, s \notin Existing, \A t \in Threads : WaitingOn[t] # s,
         Existing' = Existing \cup {s}, \A r \in Sems \ {s} : Tokens'[r] = Tokens[r]
  PROVE  Abstract!ANext
<1>1. Abstract!WaitersOf(s) = {}
  BY DEF Abstract!WaitersOf
<1>2. Abstract!Create(s)
  BY <1>1 DEF Abstract!Create
<1> QED
  BY <1>2 DEF Abstract!ANext

LEMMA IsBlock ==
  ASSUME passed' = FALSE, running' = running, Existing' = Existing,
         NEW t \in Threads, t \in running, WaitingOn[t] = None,
         WaitingOn' = [WaitingOn EXCEPT ![t] = WaitingOn'[t]],
         Spent(Tokens, Tokens', Existing, {})
  PROVE  Abstract!ANext
<1>1. Abstract!Spends({})
  BY SpendsIs
<1>2. Abstract!Block(t)
  BY <1>1 DEF Abstract!Block
<1> QED
  BY <1>2 DEF Abstract!ANext

LEMMA IsPass ==
  ASSUME passed' = TRUE, running' = running, Existing' \subseteq Existing,
         NEW t \in Threads, t \in running, NEW s \in Sems, WaitingOn[t] \in {None, s},
         Tokens[s] > 0, WaitingOn' = [WaitingOn EXCEPT ![t] = None],
         Spent(Tokens, Tokens', Existing, {s})
  PROVE  Abstract!ANext
<1>1. Abstract!Spends({s})
  BY SpendsIs
<1>2. Abstract!Pass(t, s)
  BY <1>1 DEF Abstract!Pass
<1> QED
  BY <1>2 DEF Abstract!ANext

LEMMA IsBroadcast ==
  ASSUME passed' = FALSE, running' = running, WaitingOn' = WaitingOn, Existing' = Existing,
         NEW s \in Sems, \A r \in Sems \ {s} : Tokens'[r] = Tokens[r],
         Tokens'[s] = Cardinality({t \in Threads : WaitingOn[t] = s})
  PROVE  Abstract!ANext
<1>1. Tokens' = [Tokens EXCEPT ![s] = Cardinality(Abstract!WaitersOf(s))]
  <2>1. Tokens'[s] = Cardinality(Abstract!WaitersOf(s))
    BY DEF Abstract!WaitersOf
  <2>2. Tokens' = [r \in Sems |-> Tokens'[r]] /\ Tokens = [r \in Sems |-> Tokens[r]]
    BY DEF Tokens
  <2> QED
    BY <2>1, <2>2
<1>2. Abstract!Broadcast(s)
  BY <1>1, SameCardinality DEF Abstract!Broadcast
<1> QED
  BY <1>2 DEF Abstract!ANext

LEMMA IsFail ==
  ASSUME passed' = FALSE, running' = running, Existing' \subseteq Existing,
         NEW t \in Threads, WaitingOn' = [WaitingOn EXCEPT ![t] = None],
         \A r \in Sems : Tokens'[r] = Tokens[r]
  PROVE  Abstract!ANext
<1>1. Tokens' = Tokens
  <2>1. Tokens' = [r \in Sems |-> Tokens'[r]] /\ Tokens = [r \in Sems |-> Tokens[r]]
    BY DEF Tokens
  <2> QED
    BY <2>1
<1>2. Abstract!Fail(t)
  BY <1>1 DEF Abstract!Fail
<1> QED
  BY <1>2 DEF Abstract!ANext

(* Semaphores end, and each thread that ends takes at most one token.      *)
Released(T, V, E, A, R) ==
    \A s \in Sems :
        /\ V[s] <= T[s]
        /\ s \in E => T[s] - V[s] <= Cardinality({t \in Threads : A[t] = s} \ R)

LEMMA IsLeave ==
  ASSUME passed' = FALSE, running' \subseteq running, Existing' \subseteq Existing,
         WaitingOn' = [t \in Threads |-> IF t \in running' THEN WaitingOn[t] ELSE None],
         Released(Tokens, Tokens', Existing', WaitingOn, running')
  PROVE  Abstract!ANext
<1>1. \A s \in Sems : Abstract!WaitersOf(s) = {t \in Threads : WaitingOn[t] = s}
  BY DEF Abstract!WaitersOf
<1>2. \A s \in Sems :
         /\ Tokens'[s] <= Tokens[s]
         /\ s \in Existing' =>
               Tokens[s] - Tokens'[s] <= Cardinality(Abstract!WaitersOf(s) \ running')
  BY <1>1 DEF Released
<1>3. Abstract!Leave
  BY <1>2, SameCardinality DEF Abstract!Leave
<1> QED
  BY <1>3 DEF Abstract!ANext

LEMMA IsQuit ==
  ASSUME passed' = FALSE, NEW t \in Threads, WaitingOn[t] = None, running' = running \ {t},
         WaitingOn' = WaitingOn, Existing' = Existing, Spent(Tokens, Tokens', Existing, {})
  PROVE  Abstract!ANext
<1>1. Abstract!Spends({})
  BY SpendsIs
<1>2. Abstract!Quit(t)
  BY <1>1 DEF Abstract!Quit
<1> QED
  BY <1>2 DEF Abstract!ANext

LEMMA IsStart ==
  ASSUME passed' = FALSE, NEW t \in Threads, running' = running \cup {t},
         WaitingOn' = WaitingOn, Existing' = Existing, \A r \in Sems : Tokens'[r] = Tokens[r]
  PROVE  Abstract!ANext
<1>1. Tokens' = Tokens
  <2>1. Tokens' = [r \in Sems |-> Tokens'[r]] /\ Tokens = [r \in Sems |-> Tokens[r]]
    BY DEF Tokens
  <2> QED
    BY <2>1
<1>2. Abstract!Start(t)
  BY <1>1 DEF Abstract!Start
<1> QED
  BY <1>2 DEF Abstract!ANext

-----------------------------------------------------------------------------
(* The steps of the semaphores are abstract steps.                         *)

\* What the invariant says of the mapping.
LEMMA MapFacts ==
  ASSUME SemInv
  PROVE  /\ Queues(sem) /\ sem \in SemType /\ Placed(sem, wait)
         /\ Numbers(Tokens) /\ Numbers(Toks(sem, wait))
         /\ \A t \in Threads : Settled(sem, wait[t], t)
         /\ \A t \in Threads : t \notin running => wait[t] = None
         /\ \A t \in Threads : WaitingOn[t] = AWait(wait, t)
         /\ wait \in WaitType
<1>1. Queues(sem) /\ sem \in SemType /\ Placed(sem, wait)
  BY DEF SemInv, Queues
<1>2. wait \in WaitType /\ \A t \in Threads : t \notin running => wait[t] = None
  BY DEF SemInv, Waits, Retired
<1>3. Numbers(Toks(sem, wait))
  BY <1>1, ToksFacts DEF Numbers
<1>4. Tokens = Toks(sem, wait)
  BY Mapping
<1>5. \A t \in Threads : Settled(sem, wait[t], t)
  BY <1>1 DEF Placed
<1>6. \A t \in Threads : WaitingOn[t] = AWait(wait, t)
  BY DEF WaitingOn, AbstractWait, AWait
<1> QED
  BY <1>1, <1>2, <1>3, <1>4, <1>5, <1>6

\* A step that leaves the waits and the lifetimes alone.
LEMMA SameMap ==
  ASSUME UNCHANGED <<lifetime, wait, tasks>>
  PROVE  /\ WaitingOn' = WaitingOn /\ Existing' = Existing /\ running' = running
         /\ Tokens' = Toks(sem', wait)
<1>1. /\ owner' = owner /\ linked' = linked /\ fds' = fds /\ wait' = wait /\ running' = running
  BY DEF lifetime, tasks
<1>2. WaitingOn' = WaitingOn
  BY <1>1 DEF WaitingOn, AbstractWait
<1>3. Existing' = Existing
  <2>1. /\ Existing = ExistsIn(owner, linked, fds, WaitingOn)
        /\ Existing' = ExistsIn(owner', linked', fds', WaitingOn')
    BY Mapping
  <2> QED
    BY <1>1, <1>2, <2>1
<1>4. Tokens' = Toks(sem', wait)
  BY <1>1, Mapping
<1> QED
  BY <1>1, <1>2, <1>3, <1>4

\* A semaphore that a call can use exists.
LEMMA UsableExists ==
  /\ \A t \in Threads, s \in Sems : Usable(t, s) => s \in Existing
  /\ \A s \in MachSems : owner[s] # None => s \in Existing
BY DEF Usable, Existing, Reachable, Sems

\* Tokens that only grow.
LEMMA SpentFrom ==
  ASSUME NEW T, NEW V, NEW M, Numbers(T), Adds(T, V, M), NEW E,
         M \in {{}} \cup {{s} : s \in E}
  PROVE  Spent(T, V, E, {})
<1>1. ASSUME NEW r \in Sems PROVE V[r] = T[r] + Unit(r, M) - Unit(r, {})
  <2>1. Unit(r, {}) = 0 /\ Unit(r, M) \in {0, 1} /\ T[r] \in Nat /\ V[r] = T[r] + Unit(r, M)
    BY DEF Unit, Adds, Numbers
  <2> QED
    BY <2>1
<1> QED
  BY <1>1 DEF Spent

LEMMA SpentNone ==
  ASSUME NEW T, NEW V, Numbers(T), \A r \in Sems : V[r] = T[r], NEW E
  PROVE  Spent(T, V, E, {})
BY AddsNone, SpentFrom

LEMMA SignalImplements ==
  ASSUME SemInv, NEW t \in Threads, NEW s \in Sems, Signal(t, s), passed' = FALSE
  PROVE  Abstract!ANext
<1>1. Room(sem, s) /\ sem' = Signalled(sem, s) /\ s \in Existing
  BY UsableExists DEF Signal
<1>2. Adds(Toks(sem, wait), Toks(sem', wait), {s})
  BY <1>1, MapFacts, SignalledToks
<1>3. /\ WaitingOn' = WaitingOn /\ Existing' = Existing /\ running' = running
      /\ Tokens' = Toks(sem', wait) /\ Tokens = Toks(sem, wait)
  BY SameMap, Mapping DEF Signal
<1>4. Spent(Tokens, Tokens', Existing, {})
  BY <1>1, <1>2, <1>3, MapFacts, SpentFrom
<1> QED
  BY <1>3, <1>4, IsSignal

LEMMA SignalThreadImplements ==
  ASSUME SemInv, NEW t \in Threads, NEW s \in Sems, NEW u \in Threads, SignalThread(t, s, u),
         passed' = FALSE
  PROVE  Abstract!ANext
<1>1. /\ sem' = [sem EXCEPT !.wakeups = @ \cup {u}, !.waiters[s] = Erased(@, {u})]
      /\ u \in Waiting(s) /\ s \in MachSems
  BY DEF SignalThread
<1>2. sem'.wakeups = sem.wakeups \cup {u} /\ sem'.count = sem.count /\ Queues(sem')
  <2>1. Queues(sem) /\ s \in Sems /\ u \in Waiting(s)
    BY <1>1, MapFacts
  <2>2. PICK K : K = sem'
    OBVIOUS
  <2>3. K = [sem EXCEPT !.wakeups = @ \cup {u}, !.waiters[s] = Erased(@, {u})]
    BY <1>1, <2>2
  <2>4. K.wakeups = sem.wakeups \cup {u} /\ K.count = sem.count /\ Queues(K)
    BY <2>1, <2>3, SignalThreadIs
  <2> QED
    BY <2>2, <2>4
<1>3. u \in Queued(sem, s) /\ sem' \in SemType /\ \A r \in Sems : sem'.count[r] = sem.count[r]
  BY <1>1, <1>2 DEF Waiting, Queued, Queues
<1>4. owner[s] # None
  BY <1>1, <1>3 DEF SemInv, Owned
<1>5. Adds(Toks(sem, wait), Toks(sem', wait), {s})
  BY <1>2, <1>3, MapFacts, WakesToks
<1>6. /\ WaitingOn' = WaitingOn /\ Existing' = Existing /\ running' = running
      /\ Tokens' = Toks(sem', wait) /\ Tokens = Toks(sem, wait)
  BY SameMap, Mapping DEF SignalThread
<1>7. Spent(Tokens, Tokens', Existing, {})
  <2>1. s \in Existing
    BY <1>1, <1>4, UsableExists
  <2> QED
    BY <1>5, <1>6, <2>1, MapFacts, SpentFrom
<1> QED
  BY <1>6, <1>7, IsSignal

\* Every waiter is woken, and no value is left.
LEMMA SignalAllImplements ==
  ASSUME SemInv, NEW t \in Threads, NEW s \in Sems, SignalAll(t, s), passed' = FALSE
  PROVE  Abstract!ANext
<1>1. /\ sem' = [sem EXCEPT !.wakeups = @ \cup Waiting(s), !.waiters[s] = <<>>, !.count[s] = 0]
      /\ s \in MachSems /\ owner[s] # None
  BY DEF SignalAll
<1>2. /\ sem'.wakeups = sem.wakeups \cup Queued(sem, s) /\ sem'.count[s] = 0
      /\ \A r \in Sems \ {s} : sem'.count[r] = sem.count[r]
      /\ sem' \in SemType
  <2>1. Queues(sem)
    BY MapFacts
  <2>2. sem'.wakeups = sem.wakeups \cup Queued(sem, s)
    BY <1>1, <2>1, SignalAllGood
  <2>3. sem'.count[s] = 0 /\ \A r \in Sems \ {s} : sem'.count[r] = sem.count[r]
    BY <1>1, MapFacts DEF SemType
  <2>4. Queues(sem')
    BY <1>1, <2>1, SignalAllGood
  <2> QED
    BY <2>2, <2>3, <2>4 DEF Queues
<1>3. /\ WaitingOn' = WaitingOn /\ Existing' = Existing /\ running' = running
      /\ Tokens' = Toks(sem', wait) /\ Tokens = Toks(sem, wait)
  BY SameMap, Mapping DEF SignalAll
<1>4. ASSUME NEW u \in Threads
      PROVE  /\ AWait(wait, u) = s => u \in sem.wakeups \cup Queued(sem, s)
             /\ \A r \in Sems \ {s} : u \in Queued(sem, s) => AWait(wait, u) # r
  <2>1. CASE wait[u] # None
    <3>1. Settled(sem, wait[u], u) /\ AWait(wait, u) = wait[u].on
      BY <2>1, MapFacts DEF AWait
    <3>2. u \in sem.terminations => wait[u].on # s
      BY <1>1, <3>1 DEF SemInv, Ended
    <3> QED
      BY <2>1, <3>1, <3>2 DEF Settled
  <2>2. CASE wait[u] = None
    BY <2>2, SemaphoreAssumption DEF AWait
  <2> QED
    BY <2>1, <2>2
<1>5. \A r \in Sems \ {s} : WokenIn(sem', wait, r) = WokenIn(sem, wait, r)
  <2>1. Queued(sem, s) \in SUBSET Threads
    BY MapFacts, SemFacts
  <2> QED
    BY <1>2, <1>4, <2>1 DEF WokenIn
<1>6. \A r \in Sems \ {s} : Tokens'[r] = Tokens[r]
  BY <1>2, <1>3, <1>5, ToksSame
<1>7. WokenIn(sem', wait, s) = {u \in Threads : WaitingOn[u] = s}
  <2>1. sem.wakeups \cup Queued(sem, s) \subseteq Threads
    BY MapFacts, SemFacts
  <2>2. \A u \in Threads : WaitingOn[u] = AWait(wait, u)
    BY MapFacts
  <2> QED
    BY <1>2, <1>4, <2>1, <2>2 DEF WokenIn
<1>8. Tokens'[s] = Cardinality({u \in Threads : WaitingOn[u] = s})
  <2>1. /\ Tokens'[s] = sem'.count[s] + Cardinality(WokenIn(sem', wait, s))
        /\ Cardinality(WokenIn(sem', wait, s)) \in Nat
    BY <1>2, <1>3, ToksFacts
  <2> QED
    BY <1>2, <1>7, <2>1
<1> QED
  BY <1>3, <1>6, <1>8, IsBroadcast

\* A wait that finds a value passes at once.
LEMMA WaitTakesImplements ==
  ASSUME SemInv, NEW t \in Threads, NEW s \in Sems, NEW g \in MachSems \cup {None},
         WaitTakes(t, s, g)
  PROVE  Abstract!ANext
<1>1. PICK K : K = [sem EXCEPT !.count[s] = @ - 1]
  OBVIOUS
<1>2. /\ sem.count[s] > 0 /\ PairAllowed(K, g) /\ sem' = Paired(K, g)
      /\ t \in running /\ wait[t] = None /\ passed' = TRUE
  BY <1>1 DEF WaitTakes, Runs
<1>3. Queues(sem) /\ Placed(sem, wait)
  BY DEF SemInv
<1>4. Queues(K) /\ Placed(K, wait)
  BY <1>1, <1>2, <1>3, TakesGood
<1>5. K.wakeups = sem.wakeups /\ K.count = [sem.count EXCEPT ![s] = @ - 1]
      /\ sem.count \in [Sems -> 0..MaxCount]
  BY <1>1, MapFacts DEF SemType
<1>6. /\ WaitingOn' = WaitingOn /\ Existing' = Existing /\ running' = running
      /\ Tokens' = Toks(sem', wait) /\ Tokens = Toks(sem, wait)
  BY SameMap, Mapping DEF WaitTakes
<1>7. \A r \in Sems : WokenIn(K, wait, r) = WokenIn(sem, wait, r)
  BY <1>5 DEF WokenIn
<1>8. ASSUME NEW r \in Sems
      PROVE  Toks(K, wait)[r] = Tokens[r] - Unit(r, {s}) /\ Tokens[r] \in Nat
  <2>1. /\ Tokens[r] = sem.count[r] + Cardinality(WokenIn(sem, wait, r))
        /\ sem.count[r] \in Nat /\ Cardinality(WokenIn(sem, wait, r)) \in Nat
    BY <1>6, MapFacts, ToksFacts
  <2>2. Toks(K, wait)[r] = K.count[r] + Cardinality(WokenIn(sem, wait, r))
    BY <1>7 DEF Toks
  <2>3. K.count[r] = sem.count[r] - Unit(r, {s})
    <3>1. CASE r = s
      BY <1>5, <3>1 DEF Unit
    <3>2. CASE r # s
      <4>1. K.count[r] = sem.count[r] /\ Unit(r, {s}) = 0
        BY <1>5, <3>2 DEF Unit
      <4> QED
        BY <2>1, <4>1
    <3> QED
      BY <3>1, <3>2
  <2>4. Unit(r, {s}) \in {0, 1}
    BY DEF Unit
  <2> QED
    BY <2>1, <2>2, <2>3, <2>4
<1>9. Spent(Tokens, Tokens', Existing, {s})
  <2>1. Spent(Tokens, Toks(sem', wait), Existing, {s})
    BY <1>2, <1>4, <1>8, MapFacts, UsableExists, PairedToks
  <2> QED
    BY <1>6, <2>1
<1>10. Tokens[s] > 0
  <2>1. /\ Tokens[s] = sem.count[s] + Cardinality(WokenIn(sem, wait, s))
        /\ sem.count[s] \in Nat /\ Cardinality(WokenIn(sem, wait, s)) \in Nat
    BY <1>6, MapFacts, ToksFacts
  <2> QED
    BY <1>2, <2>1
<1>11. WaitingOn[t] = None
  BY <1>2 DEF WaitingOn, AbstractWait
<1>12. WaitingOn' = [WaitingOn EXCEPT ![t] = None]
  BY <1>6, <1>11 DEF WaitingOn
<1> QED
  BY <1>2, <1>6, <1>9, <1>10, <1>11, <1>12, IsPass

LEMMA WaitRefusedImplements ==
  ASSUME SemInv, NEW t \in Threads, NEW s \in Sems, NEW g \in MachSems \cup {None},
         WaitRefused(t, s, g), passed' = FALSE
  PROVE  Abstract!ANext
<1>1. PairAllowed(sem, g) /\ sem' = Paired(sem, g)
  BY DEF WaitRefused
<1>2. /\ WaitingOn' = WaitingOn /\ Existing' = Existing /\ running' = running
      /\ Tokens' = Toks(sem', wait) /\ Tokens = Toks(sem, wait)
  BY SameMap, Mapping DEF WaitRefused
<1>3. ASSUME NEW r \in Sems
      PROVE  Toks(sem, wait)[r] = Tokens[r] - Unit(r, {}) /\ Tokens[r] \in Nat
  <2>1. Unit(r, {}) = 0 /\ Tokens[r] \in Nat
    BY MapFacts DEF Unit, Numbers
  <2> QED
    BY <1>2, <2>1
<1>4. Spent(Tokens, Toks(sem', wait), Existing, {})
  BY <1>1, <1>3, MapFacts, UsableExists, PairedToks
<1> QED
  BY <1>2, <1>4, IsSignal

\* The thread joins the queue, then signals; it is in no set of results.
LEMMA WaitBlocksImplements ==
  ASSUME SemInv, NEW t \in Threads, NEW s \in Sems, NEW g \in MachSems \cup {None},
         NEW b \in BOOLEAN, WaitBlocks(t, s, g, b), passed' = FALSE
  PROVE  Abstract!ANext
<1>1. PICK K : K = Enqueued(sem, s, t)
  OBVIOUS
<1>2. /\ t \in running /\ wait[t] = None /\ sem.count[s] = 0 /\ Usable(t, s)
      /\ PairAllowed(K, g) /\ sem' = Paired(K, g)
      /\ wait' = Begun(wait, t, s, b)
      /\ owner' = owner /\ linked' = linked /\ fds' = fds
      /\ live' = live /\ running' = running
  BY <1>1 DEF WaitBlocks, Runs, lifetime, tasks, Enqueued, Begun
<1>3. Queues(sem) /\ Placed(sem, wait) /\ wait \in WaitType
  BY <1>2 DEF SemInv, Waits
<1>4. /\ Queues(K) /\ Placed(K, wait') /\ K.wakeups = sem.wakeups
      /\ K.count = sem.count
  BY <1>1, <1>2, <1>3, EnqueuedGood
<1>5. PICK e \in [on: Sems, timed: BOOLEAN] : e = [on |-> s, timed |-> b]
  OBVIOUS
<1>6. /\ wait'[t] = e /\ e.on = s /\ e # None /\ \A u \in Threads \ {t} : wait'[u] = wait[u]
  BY <1>2, <1>3, <1>5, SemaphoreAssumption DEF WaitType, Begun
<1>7. /\ AWait(wait', t) = s /\ AWait(wait, t) = None
      /\ \A u \in Threads \ {t} : AWait(wait', u) = AWait(wait, u)
  BY <1>2, <1>6 DEF AWait
<1>8. t \notin sem.wakeups
  BY <1>2, MapFacts DEF Settled
<1>9. \A r \in Sems : WokenIn(K, wait', r) = WokenIn(sem, wait, r)
  <2>1. sem.wakeups \in SUBSET Threads
    BY MapFacts DEF SemType
  <2> QED
    BY <1>4, <1>7, <1>8, <2>1 DEF WokenIn
<1>10. ASSUME NEW r \in Sems
       PROVE  Toks(K, wait')[r] = Tokens[r] - Unit(r, {}) /\ Tokens[r] \in Nat
  <2>1. Unit(r, {}) = 0 /\ Tokens[r] \in Nat
    BY MapFacts DEF Unit, Numbers
  <2>2. Toks(K, wait')[r] = Toks(sem, wait)[r]
    BY <1>4, <1>9, ToksSame
  <2>3. Tokens = Toks(sem, wait)
    BY Mapping
  <2> QED
    BY <2>1, <2>2, <2>3
<1>11. Spent(Tokens, Tokens', Existing, {})
  <2>1. Spent(Tokens, Toks(sem', wait'), Existing, {})
    BY <1>2, <1>4, <1>10, MapFacts, UsableExists, PairedToks
  <2>2. Tokens' = Toks(sem', wait')
    BY <1>2, Mapping
  <2> QED
    BY <2>1, <2>2
<1>12. /\ WaitingOn[t] = None /\ WaitingOn'[t] = s
       /\ \A u \in Threads \ {t} : WaitingOn'[u] = WaitingOn[u]
  BY <1>2, <1>7 DEF WaitingOn, AbstractWait, AWait
<1>13. WaitingOn' = [WaitingOn EXCEPT ![t] = WaitingOn'[t]]
  <2>1. WaitingOn = [u \in Threads |-> WaitingOn[u]] /\ WaitingOn' = [u \in Threads |-> WaitingOn'[u]]
    BY DEF WaitingOn
  <2> QED
    BY <1>12, <2>1
<1>14. Existing' = Existing
  <2>1. s \in Existing
    BY <1>2, UsableExists
  <2>2. s \in MachSems \/ fds[s] # {}
    BY <1>2 DEF Usable
  <2>3. /\ Existing = ExistsIn(owner, linked, fds, WaitingOn)
        /\ Existing' = ExistsIn(owner, linked, fds, WaitingOn')
    BY <1>2, Mapping
  <2>4. None \notin Sems
    BY SemaphoreAssumption
  <2>5. \A r \in Sems \ {s} : (\E u \in Threads : WaitingOn'[u] = r) <=> (\E u \in Threads : WaitingOn[u] = r)
    BY <1>12, <2>4
  <2> QED
    BY <2>2, <2>3, <2>5 DEF ExistsIn
<1> QED
  BY <1>2, <1>11, <1>12, <1>13, <1>14, IsBlock

\* What a poll remembers, and a name that is shared, are not seen.
LEMMA UnseenImplements ==
  ASSUME SemInv, passed' = FALSE, running' = running, WaitingOn' = WaitingOn,
         Existing' = Existing, \A r \in Sems : Tokens'[r] = Tokens[r]
  PROVE  Abstract!ANext
<1>1. Spent(Tokens, Tokens', Existing, {})
  BY MapFacts, SpentNone
<1> QED
  BY <1>1, IsSignal

LEMMA PollImplements ==
  ASSUME SemInv, passed' = FALSE,
         (\E t \in Threads : ObserveBlocked(t)) \/ OtherEvent
  PROVE  Abstract!ANext
<1>1. sem' = sem /\ UNCHANGED <<lifetime, wait, tasks>>
  BY DEF ObserveBlocked, OtherEvent
<1>2. /\ WaitingOn' = WaitingOn /\ Existing' = Existing /\ running' = running
      /\ Tokens' = Toks(sem', wait) /\ Tokens = Toks(sem, wait)
  BY <1>1, SameMap, Mapping
<1> QED
  BY <1>1, <1>2, UnseenImplements

\* The tokens that go are those of woken threads that end, or of semaphores
\* that end.
LEMMA ReleasedToks ==
  ASSUME NEW K \in SemType, NEW N \in SemType, NEW W, NEW V, NEW Q, NEW E, NEW X,
         X \cap Q = {},
         \A s \in Sems : WokenIn(N, V, s) = WokenIn(K, W, s) \ X,
         \A s \in Sems : N.count[s] <= K.count[s],
         \A s \in E : N.count[s] = K.count[s]
  PROVE  Released(Toks(K, W), Toks(N, V), E, AWaits(W), Q)
<1>1. ASSUME NEW s \in Sems
      PROVE  /\ Toks(N, V)[s] <= Toks(K, W)[s]
             /\ s \in E => Toks(K, W)[s] - Toks(N, V)[s]
                              <= Cardinality({t \in Threads : AWaits(W)[t] = s} \ Q)
  <2>1. PICK A, B, D, C :
           /\ A = WokenIn(K, W, s) /\ B = WokenIn(N, V, s) /\ D = A \cap X
           /\ C = {t \in Threads : AWaits(W)[t] = s} \ Q
    OBVIOUS
  <2>2. /\ Toks(K, W)[s] = K.count[s] + Cardinality(A) /\ IsFiniteSet(A)
        /\ Toks(N, V)[s] = N.count[s] + Cardinality(B) /\ IsFiniteSet(B)
        /\ K.count[s] \in Nat /\ N.count[s] \in Nat
        /\ Cardinality(A) \in Nat /\ Cardinality(B) \in Nat
    BY <2>1, ToksFacts
  <2>3. B = A \ X
    BY <2>1
  <2>4. Cardinality(B) = Cardinality(A) - Cardinality(D) /\ Cardinality(D) \in Nat
    <3>1. Cardinality(A \ X) = Cardinality(A) - Cardinality(A \cap X)
      BY <2>2, FS_Difference
    <3>2. IsFiniteSet(D)
      BY <2>1, <2>2, FS_Subset
    <3> QED
      BY <2>1, <2>3, <3>1, <3>2, FS_CardinalityType
  <2>5. Cardinality(D) <= Cardinality(C)
    <3>1. A \in SUBSET Threads /\ \A t \in A : AWaits(W)[t] = s
      BY <2>1, SemFacts DEF WokenIn, AWaits
    <3>2. D \subseteq C
      BY <2>1, <3>1
    <3>3. IsFiniteSet(C)
      BY <2>1, SemaphoreAssumption, FS_Subset
    <3> QED
      BY <3>2, <3>3, FS_Subset
  <2>6. Cardinality(C) \in Nat
    <3>1. IsFiniteSet(C)
      BY <2>1, SemaphoreAssumption, FS_Subset
    <3> QED
      BY <3>1, FS_CardinalityType
  <2>7. N.count[s] <= K.count[s] /\ (s \in E => N.count[s] = K.count[s])
    OBVIOUS
  <2>8. /\ Toks(N, V)[s] <= Toks(K, W)[s]
        /\ s \in E => Toks(K, W)[s] - Toks(N, V)[s] <= Cardinality(C)
    BY <2>2, <2>4, <2>5, <2>6, <2>7
  <2> QED
    BY <2>1, <2>8
<1> QED
  BY <1>1 DEF Released

\* Semaphores go when tasks, descriptors, names and waits go.
LEMMA ExistingShrinks ==
  ASSUME SemInv, \A s \in MachSems : owner'[s] # None => owner[s] # None,
         linked' \in {linked, None}, \A s \in PosixSems : fds'[s] \subseteq fds[s],
         \A t \in Threads : WaitingOn'[t] \in {WaitingOn[t], None}
  PROVE  Existing' \subseteq Existing
<1>1. /\ Existing = ExistsIn(owner, linked, fds, WaitingOn)
      /\ Existing' = ExistsIn(owner', linked', fds', WaitingOn')
  BY Mapping
<1>2. None \notin Sems
  BY SemaphoreAssumption
<1>3. ASSUME NEW s \in Sems, s \notin MachSems, s \in Existing' PROVE s \in Existing
  <2>1. s \in PosixSems
    BY <1>3 DEF Sems
  <2>2. linked' = s \/ fds'[s] # {} \/ \E t \in Threads : WaitingOn'[t] = s
    BY <1>1, <1>3 DEF ExistsIn
  <2>3. linked = s \/ fds[s] # {} \/ \E t \in Threads : WaitingOn[t] = s
    BY <1>2, <2>1, <2>2
  <2> QED
    BY <1>1, <1>3, <2>3 DEF ExistsIn
<1>4. ASSUME NEW s \in MachSems, s \in Existing' PROVE s \in Existing
  BY <1>1, <1>4 DEF ExistsIn, Sems
<1> QED
  BY <1>1, <1>3, <1>4 DEF ExistsIn

\* Threads X end, values of semaphores that do not exist any more are dropped.
LEMMA LeaveImplements ==
  ASSUME SemInv, passed' = FALSE, sem' \in SemType, NEW X, running' = running \ X,
         sem'.wakeups \in {sem.wakeups, sem.wakeups \ X},
         \A t \in Threads : wait'[t] = IF t \in X THEN None ELSE wait[t],
         \A s \in Sems : sem'.count[s] <= sem.count[s],
         \A s \in Existing' : sem'.count[s] = sem.count[s],
         \A s \in MachSems : owner'[s] # None => owner[s] # None,
         linked' \in {linked, None}, \A s \in PosixSems : fds'[s] \subseteq fds[s]
  PROVE  Abstract!ANext
<1>1. ASSUME NEW t \in Threads
      PROVE  AWait(wait', t) = IF t \in running' THEN AWait(wait, t) ELSE None
  BY MapFacts DEF AWait
<1>2. \A t \in Threads : /\ WaitingOn'[t] = AWait(wait', t)
                         /\ WaitingOn[t] = AWait(wait, t)
  BY DEF WaitingOn, AbstractWait, AWait
<1>3. WaitingOn' = [t \in Threads |-> IF t \in running' THEN WaitingOn[t] ELSE None]
  <2>1. WaitingOn' = [t \in Threads |-> WaitingOn'[t]]
    BY DEF WaitingOn
  <2> QED
    BY <1>1, <1>2, <2>1
<1>4. Existing' \subseteq Existing
  <2>1. \A t \in Threads : WaitingOn'[t] \in {WaitingOn[t], None}
    BY <1>1, <1>2
  <2> QED
    BY <2>1, ExistingShrinks
<1>5. ASSUME NEW s \in Sems
      PROVE  WokenIn(sem', wait', s) = WokenIn(sem, wait, s) \ X
  <2>1. sem.wakeups \in SUBSET Threads /\ s # None
    BY MapFacts, SemaphoreAssumption DEF SemType
  <2>2. ASSUME NEW t \in Threads, t \in X PROVE AWait(wait', t) # s
    BY <2>1, <2>2 DEF AWait
  <2>3. ASSUME NEW t \in Threads, t \notin X
        PROVE  AWait(wait', t) = s <=> AWait(wait, t) = s
    BY <2>3 DEF AWait
  <2> QED
    BY <2>1, <2>2, <2>3 DEF WokenIn
<1>6. Released(Tokens, Tokens', Existing', WaitingOn, running')
  <2>1. sem \in SemType /\ X \cap running' = {}
    BY MapFacts
  <2>2. Released(Toks(sem, wait), Toks(sem', wait'), Existing',
                 AWaits(wait), running')
    BY <1>5, <2>1, ReleasedToks
  <2> QED
    BY <2>2, Mapping
<1> QED
  BY <1>3, <1>4, <1>6, IsLeave

\* Values and names go, no thread does.
LEMMA LifetimeImplements ==
  ASSUME SemInv, passed' = FALSE, sem' \in SemType, running' = running, wait' = wait,
         sem'.wakeups = sem.wakeups,
         \A s \in Sems : sem'.count[s] <= sem.count[s],
         \A s \in Existing' : sem'.count[s] = sem.count[s],
         \A s \in MachSems : owner'[s] # None => owner[s] # None,
         linked' \in {linked, None}, \A s \in PosixSems : fds'[s] \subseteq fds[s]
  PROVE  Abstract!ANext
<1>1. PICK X : X = {}
  OBVIOUS
<1>2. /\ running' = running \ X
      /\ \A t \in Threads : wait'[t] = IF t \in X THEN None ELSE wait[t]
  BY <1>1
<1> QED
  BY <1>2, LeaveImplements

LEMMA CreateImplements ==
  ASSUME SemInv, NEW t \in Threads, NEW s \in MachSems, NEW p \in Processes, NEW n \in 0..MaxCount,
         Create(t, s, p, n), passed' = FALSE
  PROVE  Abstract!ANext
<1>1. /\ s \in Sems /\ owner[s] = None /\ Fresh(s) /\ sem' = Made(s, n)
      /\ owner' = [owner EXCEPT ![s] = p] /\ linked' = linked /\ fds' = fds
      /\ wait' = wait /\ running' = running
  BY DEF Create, tasks, Sems
<1>2. sem'.wakeups = sem.wakeups /\ \A r \in Sems \ {s} : sem'.count[r] = sem.count[r]
  BY <1>1, MadeGood DEF SemInv
<1>3. \A r \in Sems \ {s} : Tokens'[r] = Tokens[r]
  <2>1. \A r \in Sems : WokenIn(sem', wait, r) = WokenIn(sem, wait, r)
    BY <1>2 DEF WokenIn
  <2> QED
    BY <1>1, <1>2, <2>1, ToksSame, Mapping
<1>4. WaitingOn' = WaitingOn
  BY <1>1 DEF WaitingOn, AbstractWait
<1>5. /\ Existing = ExistsIn(owner, linked, fds, WaitingOn)
      /\ Existing' = ExistsIn(owner', linked, fds, WaitingOn)
  BY <1>1, <1>4, Mapping
<1>6. /\ owner'[s] = p /\ p # None /\ \A r \in MachSems \ {s} : owner'[r] = owner[r]
  BY <1>1, SemaphoreAssumption DEF SemInv, Lives
<1>7. s \notin Existing /\ Existing' = Existing \cup {s}
  BY <1>1, <1>5, <1>6 DEF ExistsIn
<1>8. \A u \in Threads : WaitingOn[u] # s
  BY <1>1, SemaphoreAssumption DEF WaitingOn, AbstractWait, Fresh
<1> QED
  BY <1>1, <1>3, <1>4, <1>7, <1>8, IsCreate

LEMMA OpenImplements ==
  ASSUME SemInv, NEW t \in Threads, NEW s \in PosixSems, NEW n \in 0..MaxCount,
         Open(t, s, n), passed' = FALSE
  PROVE  Abstract!ANext
<1>1. /\ s \in Sems /\ s \notin MachSems /\ s # None /\ linked' = s /\ owner' = owner
      /\ fds' = [fds EXCEPT ![s] = @ \cup {ProcessOf[t]}]
      /\ wait' = wait /\ running' = running
  BY SemaphoreAssumption DEF Open, tasks, Sems
<1>2. WaitingOn' = WaitingOn
  BY <1>1 DEF WaitingOn, AbstractWait
<1>3. /\ Existing = ExistsIn(owner, linked, fds, WaitingOn)
      /\ Existing' = ExistsIn(owner, s, fds', WaitingOn)
  BY <1>1, <1>2, Mapping
<1>4. \A r \in PosixSems \ {s} : fds'[r] = fds[r]
  BY <1>1 DEF SemInv, Lives
<1>5. CASE linked = s /\ sem' = sem
  <2>1. Existing' = Existing
    BY <1>3, <1>4, <1>5 DEF ExistsIn, Sems
  <2>2. \A r \in Sems : Tokens'[r] = Tokens[r]
    BY <1>1, <1>5, Mapping
  <2> QED
    BY <1>1, <1>2, <2>1, <2>2, UnseenImplements
<1>6. CASE linked = None /\ fds[s] = {} /\ Fresh(s) /\ sem' = Made(s, n)
  <2>1. sem'.wakeups = sem.wakeups /\ \A r \in Sems \ {s} : sem'.count[r] = sem.count[r]
    BY <1>1, <1>6, MadeGood DEF SemInv
  <2>2. \A r \in Sems \ {s} : Tokens'[r] = Tokens[r]
    <3>1. \A r \in Sems : WokenIn(sem', wait, r) = WokenIn(sem, wait, r)
      BY <2>1 DEF WokenIn
    <3> QED
      BY <1>1, <2>1, <3>1, ToksSame, Mapping
  <2>3. \A u \in Threads : WaitingOn[u] # s
    BY <1>1, <1>6 DEF WaitingOn, AbstractWait, Fresh
  <2>4. s \notin Existing /\ Existing' = Existing \cup {s}
    <3>1. \A r \in Sems : linked = r <=> FALSE
      BY <1>6, SemaphoreAssumption
    <3> QED
      BY <1>1, <1>3, <1>4, <1>6, <2>3, <3>1 DEF ExistsIn, Sems
  <2> QED
    BY <1>1, <1>2, <2>2, <2>3, <2>4, IsCreate
<1> QED
  BY <1>5, <1>6 DEF Open

LEMMA CloseShareUnlinkImplements ==
  ASSUME SemInv, NEW t \in Threads, NEW s \in PosixSems, passed' = FALSE,
         Close(t, s) \/ (\E p \in Processes : Share(t, s, p)) \/ Unlink(t)
  PROVE  Abstract!ANext
<1>1. fds \in [PosixSems -> SUBSET live] /\ sem \in SemType
  BY MapFacts DEF SemInv, Lives
<1>2. \A r \in Sems : sem.count[r] <= sem.count[r]
  BY MapFacts, ToksFacts
<1>3. CASE Close(t, s)
  <2>1. /\ sem' = sem /\ owner' = owner /\ linked' = linked /\ wait' = wait
        /\ running' = running /\ \A r \in PosixSems : fds'[r] \subseteq fds[r]
    BY <1>1, <1>3 DEF Close, tasks
  <2> QED
    BY <1>1, <1>2, <2>1, LifetimeImplements
<1>4. ASSUME NEW p \in Processes, Share(t, s, p) PROVE Abstract!ANext
  <2>1. /\ sem' = sem /\ owner' = owner /\ linked' = linked /\ wait' = wait
        /\ running' = running /\ ProcessOf[t] \in fds[s] /\ fds' = [fds EXCEPT ![s] = @ \cup {p}]
    BY <1>4 DEF Share, tasks
  <2>2. \A r \in PosixSems : fds'[r] # {} <=> fds[r] # {}
    BY <1>1, <2>1
  <2>3. WaitingOn' = WaitingOn
    BY <2>1 DEF WaitingOn, AbstractWait
  <2>4. Existing' = Existing
    <3>1. /\ Existing = ExistsIn(owner, linked, fds, WaitingOn)
          /\ Existing' = ExistsIn(owner, linked, fds', WaitingOn)
      BY <2>1, <2>3, Mapping
    <3> QED
      BY <2>2, <3>1 DEF ExistsIn, Sems
  <2>5. \A r \in Sems : Tokens'[r] = Tokens[r]
    BY <2>1, Mapping
  <2> QED
    BY <2>1, <2>3, <2>4, <2>5, UnseenImplements
<1>5. CASE Unlink(t)
  <2>1. /\ sem' = sem /\ owner' = owner /\ linked' = None /\ wait' = wait
        /\ running' = running /\ fds' = fds
    BY <1>5 DEF Unlink, tasks
  <2> QED
    BY <1>1, <1>2, <2>1, LifetimeImplements
<1> QED
  BY <1>3, <1>4, <1>5

\* The value of a semaphore that is destroyed is dropped.
LEMMA TerminatedCounts ==
  ASSUME sem \in SemType, NEW D \in SUBSET Sems, NEW R, R = Terminated(D)
  PROVE  /\ R.wakeups = sem.wakeups
         /\ \A s \in Sems : R.count[s] <= sem.count[s]
         /\ \A s \in Sems \ D : R.count[s] = sem.count[s]
<1>1. /\ R.wakeups = sem.wakeups
      /\ R.count = [s \in Sems |-> IF s \in D THEN 0 ELSE sem.count[s]]
  BY DEF Terminated, SemType
<1>2. \A s \in Sems : sem.count[s] \in Nat
  BY ToksFacts
<1> QED
  BY <1>1, <1>2

LEMMA DestroyImplements ==
  ASSUME SemInv, NEW t \in Threads, NEW s \in MachSems, Destroy(t, s), passed' = FALSE
  PROVE  Abstract!ANext
<1>1. /\ s \in Sems /\ sem' = Terminated({s})
      /\ owner' = [owner EXCEPT ![s] = None] /\ linked' = linked /\ fds' = fds
      /\ wait' = wait /\ running' = running
  BY DEF Destroy, tasks, Sems
<1>2. PICK D \in SUBSET Sems : D = {s}
  BY <1>1
<1>3. sem' \in SemType
  BY <1>1, <1>2, MapFacts, TerminatedGood DEF Queues
<1>4. /\ sem'.wakeups = sem.wakeups
      /\ \A r \in Sems : sem'.count[r] <= sem.count[r]
      /\ \A r \in Sems \ D : sem'.count[r] = sem.count[r]
  BY <1>1, <1>2, MapFacts, TerminatedCounts
<1>5. owner'[s] = None /\ \A r \in MachSems \ {s} : owner'[r] = owner[r]
  BY <1>1 DEF SemInv, Lives
<1>6. s \notin Existing' /\ Existing' \subseteq Sems
  BY <1>5 DEF Existing, Reachable
<1>7. \A r \in Existing' : sem'.count[r] = sem.count[r]
  BY <1>2, <1>4, <1>6
<1>8. \A r \in MachSems : owner'[r] # None => owner[r] # None
  BY <1>5
<1> QED
  BY <1>1, <1>3, <1>4, <1>7, <1>8, LifetimeImplements

LEMMA ExitImplements ==
  ASSUME SemInv, NEW p \in Processes, Exit(p), passed' = FALSE
  PROVE  Abstract!ANext
<1>1. PICK D, T, K, S :
         /\ D = {s \in MachSems : owner[s] = p} /\ T = ThreadsOf(p) /\ K = Terminated(D)
         /\ S = MachSems \cup Registered(T)
  OBVIOUS
<1>2. D \in SUBSET MachSems /\ D \in SUBSET Sems /\ S \in SUBSET Sems
  BY <1>1, RegisteredIs DEF Sems, ThreadsOf
<1>3. /\ sem' = Forgotten(K, S, T) /\ linked' = linked
      /\ owner' = [s \in MachSems |-> IF s \in D THEN None ELSE owner[s]]
      /\ fds' = [s \in PosixSems |-> fds[s] \ {p}]
      /\ wait' = Unwaited(T) /\ running' = running \ T
  BY <1>1 DEF Exit
<1>4. Queues(sem) /\ sem \in SemType
  BY MapFacts
<1>5. Queues(K)
  BY <1>1, <1>2, <1>4, TerminatedGood
<1>6. /\ K.wakeups = sem.wakeups
      /\ \A s \in Sems : K.count[s] <= sem.count[s]
      /\ \A s \in Sems \ D : K.count[s] = sem.count[s]
  BY <1>1, <1>2, <1>4, TerminatedCounts
<1>7. K \in SemType
  BY <1>5 DEF Queues
<1>8. sem'.wakeups = K.wakeups \ T /\ sem'.count = K.count
  BY <1>3, <1>7 DEF Forgotten, SemType
<1>9. sem' \in SemType
  <2>1. PICK R : R = Forgotten(K, S, T)
    OBVIOUS
  <2>2. Queues(R)
    BY <1>2, <1>5, <2>1, ForgottenGood
  <2> QED
    BY <1>3, <2>1, <2>2 DEF Queues
<1>10. \A s \in D : s \notin Existing'
  BY <1>2, <1>3 DEF Existing, Reachable
<1>11. \A s \in Existing' : s \in Sems \ D
  BY <1>10 DEF Existing
<1>12. \A s \in Existing' : sem'.count[s] = sem.count[s]
  BY <1>6, <1>8, <1>11
<1>13. \A s \in Sems : sem'.count[s] <= sem.count[s]
  BY <1>6, <1>8
<1>14. sem'.wakeups = sem.wakeups \ T
  BY <1>6, <1>8
<1>15. \A s \in MachSems : owner'[s] # None => owner[s] # None
  BY <1>3
<1>16. \A s \in PosixSems : fds'[s] \subseteq fds[s]
  BY <1>3
<1>17. \A t \in Threads : wait'[t] = IF t \in T THEN None ELSE wait[t]
  BY <1>3 DEF Unwaited
<1> QED
  BY <1>3, <1>9, <1>12, <1>13, <1>14, <1>15, <1>16, <1>17, LeaveImplements

\* Threads of a process that lives on end.
LEMMA EndThreadsImplements ==
  ASSUME SemInv, NEW T \in SUBSET Threads, sem' = Forgotten(sem, Registered(T), T),
         wait' = Unwaited(T), running' = running \ T, passed' = FALSE, UNCHANGED lifetime
  PROVE  Abstract!ANext
<1>1. owner' = owner /\ linked' = linked /\ fds' = fds
  BY DEF lifetime
<1>2. PICK S \in SUBSET Sems : S = Registered(T)
  BY RegisteredIs
<1>3. sem' \in SemType
  BY <1>2, MapFacts, ForgottenGood DEF Queues
<1>4. sem'.wakeups = sem.wakeups \ T /\ sem'.count = sem.count
  BY MapFacts DEF Forgotten, SemType
<1>5. \A s \in Sems : sem'.count[s] <= sem.count[s]
  BY <1>4, MapFacts, ToksFacts
<1>6. \A t \in Threads : wait'[t] = IF t \in T THEN None ELSE wait[t]
  BY DEF Unwaited
<1>7. \A s \in Existing' : sem'.count[s] = sem.count[s]
  BY <1>4
<1> QED
  BY <1>1, <1>3, <1>4, <1>5, <1>6, <1>7, LeaveImplements

LEMMA ExecImplements ==
  ASSUME SemInv, NEW t \in Threads, Exec(t), passed' = FALSE
  PROVE  Abstract!ANext
<1>1. PICK T \in SUBSET Threads : T = ThreadsOf(ProcessOf[t]) \ {t}
  BY DEF ThreadsOf
<1> QED
  BY <1>1, EndThreadsImplements DEF Exec

LEMMA RetireImplements ==
  ASSUME SemInv, NEW t \in Threads, RetireThread(t), passed' = FALSE
  PROVE  Abstract!ANext
<1>1. wait' = Unwaited({t})
  BY DEF RetireThread, SemInv, Waits, WaitType, Unwaited
<1>2. PICK T \in SUBSET Threads : T = {t}
  OBVIOUS
<1> QED
  BY <1>1, <1>2, EndThreadsImplements DEF RetireThread

\* A thread that does not wait, and is in no set of results, comes or goes.
LEMMA SlotKept ==
  ASSUME SemInv, NEW t \in Threads, wait[t] = None, wait' = wait,
         owner' = owner, linked' = linked, fds' = fds, NEW K \in SemType, K.count = sem.count, K.wakeups = sem.wakeups \ {t}
  PROVE  /\ WaitingOn' = WaitingOn /\ Existing' = Existing /\ WaitingOn[t] = None
         /\ \A r \in Sems : Toks(K, wait)[r] = Tokens[r]
<1>1. WaitingOn' = WaitingOn /\ WaitingOn[t] = None
  BY DEF WaitingOn, AbstractWait
<1>2. Existing' = Existing
  BY <1>1, Mapping
<1>3. AWait(wait, t) = None /\ None \notin Sems /\ sem.wakeups \in SUBSET Threads
  BY MapFacts, SemaphoreAssumption DEF AWait, SemType
<1>4. \A r \in Sems : WokenIn(K, wait, r) = WokenIn(sem, wait, r)
  BY <1>3 DEF WokenIn
<1>5. \A r \in Sems : Toks(K, wait)[r] = Tokens[r]
  BY <1>4, ToksSame, Mapping
<1> QED
  BY <1>1, <1>2, <1>5

LEMMA ThreadExitsImplements ==
  ASSUME SemInv, NEW t \in Threads, NEW g \in MachSems, ThreadExits(t, g), passed' = FALSE
  PROVE  Abstract!ANext
<1>1. PICK K, T, S : T = {t} /\ S = {} /\ K = Forgotten(sem, S, T)
  OBVIOUS
<1>2. /\ wait[t] = None /\ PairAllowed(K, g) /\ sem' = Paired(K, g)
      /\ running' = running \ {t}
      /\ owner' = owner /\ linked' = linked /\ fds' = fds /\ live' = live /\ wait' = wait
  BY <1>1 DEF ThreadExits, Runs, lifetime
<1>3. Forgets(wait, wait, S, T)
  BY <1>1, <1>2 DEF Forgets
<1>4. Queues(K) /\ Placed(K, wait)
  BY <1>1, <1>3, ForgetKeeps
<1>5. K \in SemType /\ K.wakeups = sem.wakeups \ {t} /\ K.count = sem.count
  BY <1>1, <1>4, MapFacts DEF Forgotten, SemType, Queues
<1>6. /\ WaitingOn' = WaitingOn /\ Existing' = Existing /\ WaitingOn[t] = None
      /\ \A r \in Sems : Toks(K, wait)[r] = Tokens[r]
  BY <1>2, <1>5, SlotKept
<1>7. ASSUME NEW r \in Sems
      PROVE  Toks(K, wait)[r] = Tokens[r] - Unit(r, {}) /\ Tokens[r] \in Nat
  <2>1. Unit(r, {}) = 0 /\ Tokens[r] \in Nat
    BY MapFacts DEF Unit, Numbers
  <2> QED
    BY <1>6, <2>1
<1>8. Spent(Tokens, Tokens', Existing, {})
  <2>1. Spent(Tokens, Toks(sem', wait), Existing, {})
    BY <1>2, <1>4, <1>7, UsableExists, PairedToks
  <2> QED
    BY <1>2, <2>1, Mapping
<1> QED
  BY <1>2, <1>6, <1>8, IsQuit

LEMMA StartImplements ==
  ASSUME SemInv, NEW t \in Threads, StartThread(t), passed' = FALSE
  PROVE  Abstract!ANext
<1>1. /\ sem' = Forgotten(sem, {}, {t}) /\ running' = running \cup {t} /\ wait[t] = None
      /\ owner' = owner /\ linked' = linked /\ fds' = fds /\ wait' = wait
  BY DEF StartThread, lifetime, SemInv, Retired
<1>2. sem'.wakeups = sem.wakeups \ {t} /\ sem'.count = sem.count
  BY <1>1, MapFacts DEF Forgotten, SemType
<1>3. sem' \in SemType
  <2>1. PICK T, S : T = {t} /\ S = {}
    OBVIOUS
  <2>2. S \in SUBSET Sems /\ Queues(sem) /\ sem' = Forgotten(sem, S, T)
    BY <1>1, <2>1, MapFacts
  <2>3. Queues(sem')
    BY <2>2, ForgottenGood
  <2> QED
    BY <2>3 DEF Queues
<1>4. /\ WaitingOn' = WaitingOn /\ Existing' = Existing
      /\ \A r \in Sems : Toks(sem', wait)[r] = Tokens[r]
  BY <1>1, <1>2, <1>3, SlotKept
<1>5. \A r \in Sems : Tokens'[r] = Tokens[r]
  BY <1>1, <1>4, Mapping
<1> QED
  BY <1>1, <1>4, <1>5, IsStart

\* The waits of the thread t have ended.
LEMMA EndMap ==
  ASSUME SemInv, NEW t \in Threads, NEW b \in BOOLEAN, EndWait(t, b)
  PROVE  /\ WaitingOn' = [WaitingOn EXCEPT ![t] = None] /\ Existing' \subseteq Existing
         /\ running' = running /\ passed' = b
         /\ AWait(wait', t) = None
         /\ \A u \in Threads \ {t} : AWait(wait', u) = AWait(wait, u)
<1>1. /\ wait' = [wait EXCEPT ![t] = None] /\ passed' = b
      /\ owner' = owner /\ linked' = linked /\ fds' = fds /\ running' = running
  BY DEF EndWait, lifetime, tasks
<1>2. wait'[t] = None /\ \A u \in Threads \ {t} : wait'[u] = wait[u]
  BY <1>1, MapFacts DEF WaitType
<1>3. /\ AWait(wait', t) = None
      /\ \A u \in Threads \ {t} : AWait(wait', u) = AWait(wait, u)
  BY <1>2 DEF AWait
<1>4. \A u \in Threads : /\ WaitingOn'[u] = AWait(wait', u)
                         /\ WaitingOn[u] = AWait(wait, u)
  BY <1>1 DEF WaitingOn, AbstractWait, AWait
<1>5. WaitingOn' = [WaitingOn EXCEPT ![t] = None]
  <2>1. WaitingOn = [u \in Threads |-> WaitingOn[u]] /\ WaitingOn' = [u \in Threads |-> WaitingOn'[u]]
    BY DEF WaitingOn
  <2> QED
    BY <1>3, <1>4, <2>1
<1>6. Existing' \subseteq Existing
  <2>1. \A u \in Threads : WaitingOn'[u] \in {WaitingOn[u], None}
    BY <1>3, <1>4
  <2> QED
    BY <1>1, <2>1, ExistingShrinks
<1> QED
  BY <1>1, <1>3, <1>5, <1>6

\* A wait fails: the thread had not been woken.
LEMMA FailImplements ==
  ASSUME SemInv, NEW t \in Threads, EndWait(t, FALSE), t \notin sem.wakeups,
         sem'.count = sem.count, sem'.wakeups = sem.wakeups
  PROVE  Abstract!ANext
<1>1. /\ WaitingOn' = [WaitingOn EXCEPT ![t] = None] /\ Existing' \subseteq Existing
      /\ running' = running /\ passed' = FALSE
      /\ AWait(wait', t) = None
      /\ \A u \in Threads \ {t} : AWait(wait', u) = AWait(wait, u)
  BY EndMap
<1>2. sem.wakeups \in SUBSET Threads
  BY MapFacts DEF SemType
<1>3. \A r \in Sems : WokenIn(sem', wait', r) = WokenIn(sem, wait, r)
  BY <1>1, <1>2 DEF WokenIn
<1>4. \A r \in Sems : Tokens'[r] = Tokens[r]
  BY <1>1, <1>3, ToksSame, Mapping
<1> QED
  BY <1>1, <1>4, IsFail

\* A wait passes: the thread was woken, and uses up one token.
LEMMA PassImplements ==
  ASSUME SemInv, NEW t \in Threads, wait[t] # None, t \in sem.wakeups, EndWait(t, TRUE),
         sem' \in SemType, sem'.count = sem.count, sem'.wakeups = sem.wakeups \ {t}
  PROVE  Abstract!ANext
<1>1. t \in running /\ Settled(sem, wait[t], t)
  BY MapFacts
<1>2. PICK s \in Sems : s = wait[t].on
  BY <1>1 DEF Settled
<1>3. /\ WaitingOn' = [WaitingOn EXCEPT ![t] = None] /\ Existing' \subseteq Existing
      /\ running' = running /\ passed' = TRUE
      /\ AWait(wait', t) = None
      /\ \A u \in Threads \ {t} : AWait(wait', u) = AWait(wait, u)
  BY EndMap
<1>4. AWait(wait, t) = s /\ WaitingOn[t] = s
  BY <1>1, <1>2, MapFacts DEF AWait
<1>5. sem.wakeups \in SUBSET Threads /\ None \notin Sems /\ sem \in SemType
  BY MapFacts, SemaphoreAssumption DEF SemType
<1>6. \A r \in Sems \ {s} : WokenIn(sem', wait', r) = WokenIn(sem, wait, r)
  BY <1>3, <1>4, <1>5 DEF WokenIn
<1>7. /\ WokenIn(sem', wait', s) = WokenIn(sem, wait, s) \ {t}
      /\ t \in WokenIn(sem, wait, s)
  BY <1>3, <1>4, <1>5 DEF WokenIn
<1>8. \A r \in Sems \ {s} : Tokens'[r] = Tokens[r]
  BY <1>3, <1>6, ToksSame, Mapping
<1>9. Tokens'[s] = Tokens[s] - 1 /\ Tokens[s] > 0 /\ Tokens[s] \in Nat
  <2>1. /\ Tokens[s] = sem.count[s] + Cardinality(WokenIn(sem, wait, s))
        /\ IsFiniteSet(WokenIn(sem, wait, s))
        /\ sem.count[s] \in Nat /\ Cardinality(WokenIn(sem, wait, s)) \in Nat
    BY <1>5, ToksFacts, Mapping
  <2>2. /\ Tokens'[s] = sem'.count[s] + Cardinality(WokenIn(sem', wait', s))
        /\ Cardinality(WokenIn(sem', wait', s)) \in Nat
    BY <1>3, ToksFacts, Mapping
  <2>3. Cardinality(WokenIn(sem', wait', s))
           = Cardinality(WokenIn(sem, wait, s)) - 1
    BY <1>7, <2>1, FS_RemoveElement
  <2> QED
    BY <2>1, <2>2, <2>3
<1>10. ASSUME NEW r \in Sems PROVE Tokens'[r] = Tokens[r] + Unit(r, {}) - Unit(r, {s})
  <2>1. Tokens[r] \in Nat /\ Unit(r, {}) = 0
    BY MapFacts DEF Numbers, Unit
  <2>2. CASE r = s
    <3>1. Unit(r, {s}) = 1
      BY <2>2 DEF Unit
    <3> QED
      BY <1>9, <2>1, <2>2, <3>1
  <2>3. CASE r # s
    <3>1. Unit(r, {s}) = 0 /\ Tokens'[r] = Tokens[r]
      BY <1>8, <2>3 DEF Unit
    <3> QED
      BY <2>1, <3>1
  <2> QED
    BY <2>2, <2>3
<1>11. Spent(Tokens, Tokens', Existing, {s})
  BY <1>10 DEF Spent
<1> QED
  BY <1>1, <1>3, <1>4, <1>9, <1>11, IsPass

LEMMA ResultImplements ==
  ASSUME SemInv, NEW t \in Threads, wait[t] # None, Ready(t), sem' = Taken(t),
         EndWait(t, t \notin sem.terminations)
  PROVE  Abstract!ANext
<1>1. sem \in SemType
  BY MapFacts
<1>2. CASE t \in sem.terminations
  <2>1. sem' = [sem EXCEPT !.terminations = @ \ {t}] /\ EndWait(t, FALSE)
    BY <1>2 DEF Taken, EndWait
  <2>2. sem'.count = sem.count /\ sem'.wakeups = sem.wakeups
    BY <1>1, <2>1 DEF SemType
  <2>3. t \notin sem.wakeups
    BY <1>2, MapFacts DEF Settled
  <2> QED
    BY <2>1, <2>2, <2>3, FailImplements
<1>3. CASE t \notin sem.terminations
  <2>1. sem' = [sem EXCEPT !.wakeups = @ \ {t}] /\ t \in sem.wakeups /\ EndWait(t, TRUE)
    BY <1>3 DEF Taken, Ready, EndWait
  <2>2. sem' \in SemType /\ sem'.count = sem.count /\ sem'.wakeups = sem.wakeups \ {t}
    BY <1>1, <2>1 DEF SemType
  <2> QED
    BY <2>1, <2>2, PassImplements
<1> QED
  BY <1>2, <1>3

LEMMA GivesUpImplements ==
  ASSUME SemInv, NEW t \in Threads, ~ Ready(t), sem' = Dequeued(t), EndWait(t, FALSE)
  PROVE  Abstract!ANext
<1>1. sem'.count = sem.count /\ sem'.wakeups = sem.wakeups
  BY MapFacts DEF Dequeued, SemType
<1>2. t \notin sem.wakeups
  BY DEF Ready
<1> QED
  BY <1>1, <1>2, FailImplements

LEMMA InterruptImplements ==
  ASSUME SemInv, NEW t \in Threads, Interrupt(t)
  PROVE  Abstract!ANext
<1>1. CASE Ready(t)
  <2>1. sem' = Taken(t) /\ wait[t] # None
    BY <1>1 DEF Interrupt
  <2>2. EndWait(t, t \notin sem.terminations)
    BY <1>1 DEF Interrupt, EndWait
  <2> QED
    BY <1>1, <2>1, <2>2, ResultImplements
<1>2. CASE ~ Ready(t)
  <2>1. sem' = Dequeued(t)
    BY <1>2 DEF Interrupt
  <2>2. EndWait(t, FALSE)
    BY <1>2 DEF Interrupt, EndWait
  <2> QED
    BY <1>2, <2>1, <2>2, GivesUpImplements
<1> QED
  BY <1>1, <1>2

LEMMA CallsImplements ==
  ASSUME SemInv, NEW t \in Threads, NEW s \in Uses[t], Calls(t, s), passed' = FALSE
  PROVE  Abstract!ANext
<1>1. s \in Sems
  BY SemaphoreAssumption
<1>2. \A g \in (Uses[t] \cap MachSems) \cup {None} : g \in MachSems \cup {None}
  OBVIOUS
<1>3. ASSUME Signal(t, s) \/ SignalAll(t, s) \/ \E u \in Threads : SignalThread(t, s, u)
      PROVE  Abstract!ANext
  BY <1>1, <1>3, SignalImplements, SignalAllImplements, SignalThreadImplements
<1>4. ASSUME NEW g \in MachSems \cup {None},
             WaitRefused(t, s, g) \/ \E timed \in BOOLEAN : WaitBlocks(t, s, g, timed)
      PROVE  Abstract!ANext
  BY <1>1, <1>4, WaitRefusedImplements, WaitBlocksImplements
<1>5. ASSUME s \in MachSems,
             \/ \E p \in Processes, n \in 0..MaxCount : Create(t, s, p, n)
             \/ Destroy(t, s) \/ ThreadExits(t, s)
      PROVE  Abstract!ANext
  BY <1>5, CreateImplements, DestroyImplements, ThreadExitsImplements
<1>6. ASSUME s \in PosixSems,
             \/ \E n \in 0..MaxCount : Open(t, s, n)
             \/ \E p \in Processes : Share(t, s, p)
             \/ Close(t, s) \/ Unlink(t)
      PROVE  Abstract!ANext
  BY <1>6, OpenImplements, CloseShareUnlinkImplements
<1> QED
  BY <1>2, <1>3, <1>4, <1>5, <1>6 DEF Calls

LEMMA StepImplements ==
  ASSUME SemInv, [Next]_vars
  PROVE  [Abstract!ANext]_(Abstract!avars)
<1>1. CASE UNCHANGED vars
  <2>1. /\ sem' = sem /\ owner' = owner /\ linked' = linked /\ fds' = fds /\ wait' = wait
        /\ running' = running /\ passed' = passed
    BY <1>1 DEF vars
  <2>2. WaitingOn' = WaitingOn
    BY <2>1 DEF WaitingOn, AbstractWait
  <2>3. Tokens' = Tokens /\ Existing' = Existing
    BY <2>1, <2>2, Mapping
  <2> QED
    BY <2>1, <2>2, <2>3 DEF Abstract!avars
<1>2. ASSUME NEW t \in Threads, NEW s \in Uses[t], NEW g \in (Uses[t] \cap MachSems) \cup {None},
             WaitTakes(t, s, g)
      PROVE  Abstract!ANext
  <2>1. s \in Sems /\ g \in MachSems \cup {None}
    BY SemaphoreAssumption
  <2> QED
    BY <1>2, <2>1, WaitTakesImplements
<1>3. ASSUME NEW t \in Threads, CompleteWait(t) \/ TimeOut(t) \/ Interrupt(t)
      PROVE  Abstract!ANext
  <2>1. CASE CompleteWait(t)
    BY <2>1, ResultImplements DEF CompleteWait
  <2>2. CASE TimeOut(t)
    BY <2>2, GivesUpImplements DEF TimeOut
  <2>3. CASE Interrupt(t)
    BY <2>3, InterruptImplements
  <2> QED
    BY <1>3, <2>1, <2>2, <2>3
<1>4. ASSUME passed' = FALSE, NEW t \in Threads,
             \/ \E s \in Uses[t] : Calls(t, s)
             \/ Exec(t) \/ RetireThread(t) \/ StartThread(t) \/ ObserveBlocked(t)
      PROVE  Abstract!ANext
  BY <1>4, CallsImplements, ExecImplements, RetireImplements, StartImplements, PollImplements
<1>5. ASSUME passed' = FALSE, NEW p \in Processes, Exit(p) PROVE Abstract!ANext
  BY <1>5, ExitImplements
<1>6. ASSUME passed' = FALSE, OtherEvent PROVE Abstract!ANext
  BY <1>6, PollImplements
<1>7. ASSUME Next PROVE Abstract!ANext
  BY <1>2, <1>3, <1>4, <1>5, <1>6, <1>7 DEF Next
<1> QED
  BY <1>1, <1>7

\* At the start there is no token, no waiter and no semaphore.
LEMMA InitImplements ==
  ASSUME Init
  PROVE  Abstract!AInit
<1>1. /\ wait = [t \in Threads |-> None] /\ running = Threads /\ passed = FALSE
      /\ owner = [s \in MachSems |-> None] /\ linked = None /\ fds = [s \in PosixSems |-> {}]
      /\ sem.count = [s \in Sems |-> 0] /\ sem.wakeups = {}
  BY DEF Init
<1>2. WaitingOn = [t \in Threads |-> None]
  BY <1>1 DEF WaitingOn, AbstractWait
<1>3. Tokens = [s \in Sems |-> 0]
  <2>1. \A s \in Sems : Woken(s) = {}
    BY <1>1 DEF Woken
  <2>2. Cardinality({}) = 0
    BY FS_EmptySet
  <2>3. \A s \in Sems : sem.count[s] + Cardinality(Woken(s)) = 0
    BY <1>1, <2>1, <2>2
  <2> QED
    BY <2>3 DEF Tokens
<1>4. Existing = {}
  <2>1. None \notin Sems
    BY SemaphoreAssumption
  <2>2. \A t \in Threads : AbstractWait(t) = None
    BY <1>1 DEF AbstractWait
  <2> QED
    BY <1>1, <2>1, <2>2 DEF Existing, Reachable, Sems
<1> QED
  BY <1>1, <1>2, <1>3, <1>4 DEF Abstract!AInit

\* The queues, the results and the polls implement counting semaphores.
THEOREM SemaphoresImplement == Spec => Implements
<1>1. SemInv /\ [Next]_vars => [Abstract!ANext]_(Abstract!avars)
  BY StepImplements
<1>2. Init => Abstract!AInit
  BY InitImplements
<1> QED
  BY <1>1, <1>2, SemaphoreInvariant, PTL DEF Spec, Implements, Abstract!ASpec

-----------------------------------------------------------------------------
(* The results and the polls.                                              *)
Results(K) == K.wakeups \cup K.terminations

\* A poll that found nothing is remembered only while there is nothing to find.
PollsCurrent == \A t \in cached : t \notin Results(sem)

\* A wake stays a wake, and an end an end, until the wait ends.
ResultKept ==
    \A t \in Threads : t \in Results(sem) =>
        \/ /\ t \in sem'.wakeups <=> t \in sem.wakeups
           /\ t \in sem'.terminations <=> t \in sem.terminations
        \/ wait[t] # None /\ wait'[t] = None /\ t \notin Results(sem')
ResultsAreKept == [][ResultKept]_vars

(* R has the results of K, but for those of the threads T.                 *)
Without(K, R, T) ==
    /\ K.wakeups \ T \subseteq R.wakeups
    /\ K.terminations \ T \subseteq R.terminations
(* A step that loses no result of a thread that waits on.                  *)
Loses(T) ==
    /\ Without(sem, sem', T)
    /\ \A t \in T : wait'[t] = None

(* A step after which the polls are as current as before.                  *)
Quiet == cached' = {} \/ (cached' \subseteq cached /\ Results(sem') \subseteq Results(sem))

\* An announcement leaves no poll that a new wake makes stale.
LEMMA AnnouncedQuiet ==
  ASSUME cached' \in {{}, Announced(sem')}, sem'.terminations \subseteq sem.terminations
  PROVE  Quiet
BY DEF Announced, Quiet, Results

LEMMA QuietPolls ==
  ASSUME PollsCurrent, Quiet
  PROVE  PollsCurrent'
BY DEF PollsCurrent, Quiet, Results

\* A signal adds a wake at most.
LEMMA SignalledAdds ==
  ASSUME NEW K, Queues(K), NEW s \in Sems, Room(K, s), NEW R, R = Signalled(K, s)
  PROVE  Without(K, R, {})
<1>1. K \in SemType
  BY DEF Queues
<1>2. /\ R.terminations = K.terminations
      /\ K.waiters[s] # <<>> => R.wakeups = K.wakeups \cup {Head(K.waiters[s])}
      /\ K.waiters[s] = <<>> => R.wakeups = K.wakeups
  BY <1>1, SignalledIs
<1> QED
  BY <1>2 DEF Without

LEMMA PairedAdds ==
  ASSUME NEW K, Queues(K), NEW g \in MachSems \cup {None}, PairAllowed(K, g),
         NEW R, R = Paired(K, g)
  PROVE  Without(K, R, {})
<1>1. CASE g = None
  BY <1>1 DEF Paired, Without
<1>2. CASE g # None
  <2>1. g \in Sems /\ Room(K, g) /\ R = Signalled(K, g)
    BY <1>2 DEF PairAllowed, Paired, Sems
  <2> QED
    BY <2>1, SignalledAdds
<1> QED
  BY <1>1, <1>2

(* What a step does for the results and the polls.                         *)
Tells == Quiet /\ \E T \in SUBSET Threads : Loses(T)

LEMMA AddsTells ==
  ASSUME Without(sem, sem', {}), Quiet
  PROVE  Tells
BY DEF Tells, Loses

LEMMA SignalTells ==
  ASSUME SemInv, NEW t \in Threads, NEW s \in Sems,
         Signal(t, s) \/ SignalAll(t, s) \/ \E u \in Threads : SignalThread(t, s, u)
  PROVE  Tells
<1>1. Queues(sem)
  BY DEF SemInv
<1>2. CASE Signal(t, s)
  <2>1. sem' = Signalled(sem, s) /\ Room(sem, s) /\ cached' = Announced(sem')
    BY <1>2 DEF Signal
  <2>2. sem'.terminations = sem.terminations /\ Without(sem, sem', {})
    BY <1>1, <2>1, SignalledGood, SignalledAdds
  <2> QED
    BY <2>1, <2>2, AnnouncedQuiet, AddsTells
<1>3. CASE SignalAll(t, s)
  <2>1. /\ sem' = [sem EXCEPT !.wakeups = @ \cup Waiting(s), !.waiters[s] = <<>>, !.count[s] = 0]
        /\ cached' = Announced(sem')
    BY <1>3 DEF SignalAll
  <2>2. sem'.terminations = sem.terminations /\ sem'.wakeups = sem.wakeups \cup Queued(sem, s)
    BY <1>1, <2>1, SignalAllGood
  <2> QED
    BY <2>1, <2>2, AnnouncedQuiet, AddsTells DEF Without
<1>4. ASSUME NEW u \in Threads, SignalThread(t, s, u) PROVE Tells
  <2>1. /\ sem' = [sem EXCEPT !.wakeups = @ \cup {u}, !.waiters[s] = Erased(@, {u})]
        /\ u \in Waiting(s) /\ cached' = {}
    BY <1>4 DEF SignalThread
  <2>2. sem'.terminations = sem.terminations /\ sem'.wakeups = sem.wakeups \cup {u}
    BY <1>1, <2>1, SignalThreadIs
  <2> QED
    BY <2>1, <2>2, AddsTells DEF Quiet, Without
<1> QED
  BY <1>2, <1>3, <1>4

LEMMA WaitTells ==
  ASSUME SemInv, NEW t \in Threads, NEW s \in Sems, NEW g \in MachSems \cup {None},
         \/ WaitTakes(t, s, g) \/ WaitRefused(t, s, g)
         \/ \E b \in BOOLEAN : WaitBlocks(t, s, g, b)
  PROVE  Tells
<1>1. Queues(sem) /\ Placed(sem, wait) /\ wait \in WaitType
  BY DEF SemInv, Waits
<1>2. ASSUME NEW K, Queues(K), K.wakeups = sem.wakeups, K.terminations = sem.terminations,
             PairAllowed(K, g), sem' = Paired(K, g), cached' = Announced(sem')
      PROVE  Tells
  <2>1. sem'.terminations = K.terminations /\ Without(K, sem', {})
    BY <1>2, PairedGood, PairedAdds
  <2>2. Without(sem, sem', {})
    BY <1>2, <2>1 DEF Without
  <2> QED
    BY <1>2, <2>1, <2>2, AnnouncedQuiet, AddsTells
<1>3. CASE WaitTakes(t, s, g)
  <2>1. PICK K : K = [sem EXCEPT !.count[s] = @ - 1]
    OBVIOUS
  <2>2. /\ sem.count[s] > 0 /\ PairAllowed(K, g) /\ sem' = Paired(K, g)
        /\ cached' = Announced(sem')
    BY <1>3, <2>1 DEF WaitTakes
  <2>3. Queues(K) /\ K.terminations = sem.terminations /\ K.wakeups = sem.wakeups
    BY <1>1, <2>1, <2>2, TakesGood
  <2> QED
    BY <1>2, <2>2, <2>3
<1>4. CASE WaitRefused(t, s, g)
  BY <1>1, <1>2, <1>4 DEF WaitRefused
<1>5. ASSUME NEW b \in BOOLEAN, WaitBlocks(t, s, g, b) PROVE Tells
  <2>1. PICK K, V : K = Enqueued(sem, s, t) /\ V = Begun(wait, t, s, b)
    OBVIOUS
  <2>2. /\ t \in running /\ wait[t] = None /\ sem.count[s] = 0
        /\ PairAllowed(K, g) /\ sem' = Paired(K, g) /\ cached' = Announced(sem')
    BY <1>5, <2>1 DEF WaitBlocks, Runs, Enqueued
  <2>3. Queues(K) /\ K.terminations = sem.terminations /\ K.wakeups = sem.wakeups
    BY <1>1, <2>1, <2>2, EnqueuedGood
  <2> QED
    BY <1>2, <2>2, <2>3
<1> QED
  BY <1>3, <1>4, <1>5

\* A new semaphore, or a name of one, changes no result.
LEMMA LifetimeTells ==
  ASSUME SemInv, NEW t \in Threads,
         \/ \E s \in MachSems, p \in Processes, n \in 0..MaxCount : Create(t, s, p, n)
         \/ \E s \in PosixSems, n \in 0..MaxCount : Open(t, s, n)
         \/ \E s \in PosixSems : \/ Close(t, s) \/ \E p \in Processes : Share(t, s, p)
         \/ Unlink(t)
         \/ \E s \in MachSems : Destroy(t, s)
  PROVE  Tells
<1>1. Queues(sem) /\ Waits
  BY DEF SemInv
<1>2. ASSUME sem' = sem, cached' = cached \/ cached' = {} PROVE Tells
  BY <1>2, AddsTells DEF Without, Quiet
<1>3. ASSUME NEW s \in Sems, NEW n \in 0..MaxCount, Fresh(s), sem' = Made(s, n), cached' = cached
      PROVE  Tells
  <2>1. sem'.terminations = sem.terminations /\ sem'.wakeups = sem.wakeups
    BY <1>1, <1>3, MadeGood
  <2> QED
    BY <1>3, <2>1, AddsTells DEF Without, Quiet, Results
<1>4. ASSUME NEW s \in MachSems, Destroy(t, s) PROVE Tells
  <2>1. s \in Sems /\ sem' = Terminated({s}) /\ cached' = {}
    BY <1>4 DEF Destroy, Sems
  <2>2. PICK D : D = {s} /\ D \in SUBSET Sems
    BY <2>1
  <2>3. /\ sem'.wakeups = sem.wakeups
        /\ sem'.terminations = sem.terminations \cup UNION {Queued(sem, r) : r \in D}
    BY <1>1, <2>1, <2>2, TerminatedGood
  <2> QED
    BY <2>1, <2>3, AddsTells DEF Without, Quiet
<1>5. ASSUME NEW s \in MachSems, NEW p \in Processes, NEW n \in 0..MaxCount, Create(t, s, p, n)
      PROVE  Tells
  BY <1>3, <1>5 DEF Create, Sems
<1>6. ASSUME NEW s \in PosixSems, NEW n \in 0..MaxCount, Open(t, s, n) PROVE Tells
  BY <1>2, <1>3, <1>6 DEF Open, Sems
<1>7. ASSUME NEW s \in PosixSems, Close(t, s) \/ \E p \in Processes : Share(t, s, p) PROVE Tells
  BY <1>2, <1>7 DEF Close, Share
<1>8. CASE Unlink(t)
  BY <1>2, <1>8 DEF Unlink
<1> QED
  BY <1>4, <1>5, <1>6, <1>7, <1>8

\* A thread that ends loses its results, and the wait they were for.
LEMMA ForgottenLoses ==
  ASSUME NEW K, Queues(K), NEW S \in SUBSET Sems, NEW T, NEW R, R = Forgotten(K, S, T)
  PROVE  /\ Without(K, R, T)
         /\ Results(R) \subseteq Results(K) /\ R.terminations \subseteq K.terminations
<1>1. R.wakeups = K.wakeups \ T /\ R.terminations = K.terminations \ T
  BY DEF Forgotten, Queues, SemType
<1> QED
  BY <1>1 DEF Without, Results

LEMMA EndsTell ==
  ASSUME SemInv, NEW T \in SUBSET Threads, NEW S \in SUBSET Sems, sem' = Forgotten(sem, S, T),
         \A t \in T : wait'[t] = None, cached' \subseteq cached
  PROVE  Tells
<1>1. Without(sem, sem', T) /\ Results(sem') \subseteq Results(sem)
  BY ForgottenLoses DEF SemInv
<1> QED
  BY <1>1 DEF Tells, Loses, Quiet

LEMMA ThreadTells ==
  ASSUME SemInv, NEW t \in Threads, Exec(t) \/ RetireThread(t) \/ StartThread(t)
  PROVE  Tells
<1>1. wait \in WaitType
  BY DEF SemInv, Waits
<1>2. CASE Exec(t)
  <2>1. PICK T, S : T = ThreadsOf(ProcessOf[t]) \ {t} /\ S = Registered(T)
    OBVIOUS
  <2>2. T \in SUBSET Threads
    BY <2>1 DEF ThreadsOf
  <2>3. S \in SUBSET Sems
    BY <2>1, <2>2, RegisteredIs
  <2>4. /\ sem' = Forgotten(sem, S, T) /\ cached' = cached \ T
        /\ wait' = Unwaited(T)
    BY <1>2, <2>1 DEF Exec
  <2>5. \A u \in T : wait'[u] = None
    BY <2>2, <2>4 DEF Unwaited
  <2>6. cached' \subseteq cached
    BY <2>4
  <2>7. sem' = Forgotten(sem, S, T)
    BY <2>4
  <2> QED
    BY <2>2, <2>3, <2>5, <2>6, <2>7, EndsTell
<1>3. CASE RetireThread(t)
  <2>1. PICK T, S : T = {t} /\ S = Registered(T)
    OBVIOUS
  <2>2. S \in SUBSET Sems /\ T \in SUBSET Threads
    BY <2>1, RegisteredIs
  <2>3. sem' = Forgotten(sem, S, T) /\ cached' \subseteq cached
    BY <1>3, <2>1 DEF RetireThread
  <2>4. \A u \in T : wait'[u] = None
    BY <1>1, <1>3, <2>1 DEF RetireThread, WaitType
  <2> QED
    BY <2>2, <2>3, <2>4, EndsTell
<1>4. CASE StartThread(t)
  <2>0. PICK T, S : T = {t} /\ S = {}
    OBVIOUS
  <2>1. T = {t} /\ S = {} /\ S \in SUBSET Sems /\ T \in SUBSET Threads
    BY <2>0
  <2>2. sem' = Forgotten(sem, S, T) /\ cached' \subseteq cached /\ wait' = wait
    BY <1>4, <2>1 DEF StartThread
  <2>3. wait[t] = None
    BY <1>4 DEF StartThread, SemInv, Retired
  <2>4. \A u \in T : wait'[u] = None
    BY <2>1, <2>2, <2>3
  <2> QED
    BY <2>1, <2>2, <2>4, EndsTell
<1> QED
  BY <1>2, <1>3, <1>4

\* The thread that exits may signal the one that joins it.
LEMMA ThreadExitsTells ==
  ASSUME SemInv, NEW t \in Threads, NEW g \in MachSems, ThreadExits(t, g)
  PROVE  Tells
<1>0. PICK K, T, S : T = {t} /\ S = {} /\ K = Forgotten(sem, S, T)
  OBVIOUS
<1>1. T = {t} /\ S = {} /\ K = Forgotten(sem, S, T) /\ S \in SUBSET Sems
  BY <1>0
<1>2. /\ wait[t] = None /\ wait' = wait /\ PairAllowed(K, g) /\ sem' = Paired(K, g)
      /\ cached' \in {{}, Announced(sem')}
  BY <1>1 DEF ThreadExits, Runs
<1>3. Queues(sem)
  BY DEF SemInv
<1>4. Queues(K)
  BY <1>1, <1>3, ForgottenGood
<1>5. Without(sem, K, T) /\ K.terminations \subseteq sem.terminations
  BY <1>1, <1>3, ForgottenLoses
<1>6. Without(K, sem', {}) /\ sem'.terminations = K.terminations
  BY <1>2, <1>4, PairedGood, PairedAdds
<1>7. Without(sem, sem', T) /\ sem'.terminations \subseteq sem.terminations
  BY <1>5, <1>6 DEF Without
<1>8. Loses(T)
  BY <1>1, <1>2, <1>7 DEF Loses
<1> QED
  BY <1>1, <1>2, <1>7, <1>8, AnnouncedQuiet DEF Tells

\* The threads of a process that exits lose their results.
LEMMA ExitTells ==
  ASSUME SemInv, NEW p \in Processes, Exit(p)
  PROVE  Tells
<1>1. PICK D, T, K, S :
         /\ D = {s \in MachSems : owner[s] = p} /\ T = ThreadsOf(p) /\ K = Terminated(D)
         /\ S = MachSems \cup Registered(T)
  OBVIOUS
<1>2. D \in SUBSET Sems /\ T \in SUBSET Threads /\ S \in SUBSET Sems
  BY <1>1, RegisteredIs DEF Sems, ThreadsOf
<1>3. sem' = Forgotten(K, S, T) /\ cached' = {} /\ wait' = Unwaited(T)
  BY <1>1 DEF Exit
<1>4. Queues(sem)
  BY DEF SemInv
<1>5. /\ Queues(K) /\ K.wakeups = sem.wakeups
      /\ K.terminations = sem.terminations \cup UNION {Queued(sem, s) : s \in D}
  BY <1>1, <1>2, <1>4, TerminatedGood
<1>6. Without(K, sem', T)
  BY <1>2, <1>3, <1>5, ForgottenLoses
<1>7. Without(sem, sem', T)
  BY <1>5, <1>6 DEF Without
<1>8. \A t \in T : wait'[t] = None
  BY <1>2, <1>3 DEF Unwaited
<1> QED
  BY <1>2, <1>3, <1>7, <1>8 DEF Tells, Quiet, Loses

\* A wait that ends takes its result, or leaves its queue.
LEMMA EndWaitTells ==
  ASSUME SemInv, NEW t \in Threads, CompleteWait(t) \/ TimeOut(t) \/ Interrupt(t)
  PROVE  Tells
<1>1. /\ Queues(sem) /\ Waits /\ Placed(sem, wait) /\ wait \in WaitType
  BY DEF SemInv, Waits
<1>2. /\ wait[t] # None /\ wait' = [wait EXCEPT ![t] = None] /\ cached' = cached \ {t}
      /\ \/ Ready(t) /\ sem' = Taken(t)
         \/ ~ Ready(t) /\ sem' = Dequeued(t)
  BY DEF CompleteWait, TimeOut, Interrupt, EndWait
<1>3. Over(wait, wait', t) /\ wait'[t] = None
  BY <1>1, <1>2 DEF Over, WaitType
<1>4. Without(sem, sem', {t}) /\ Results(sem') \subseteq Results(sem)
  <2>1. CASE Ready(t) /\ sem' = Taken(t)
    <3>1. sem'.wakeups \in {sem.wakeups, sem.wakeups \ {t}}
          /\ sem'.terminations \in {sem.terminations, sem.terminations \ {t}}
      <4>1. sem \in SemType
        BY <1>1 DEF Queues
      <4> QED
        BY <2>1, <4>1 DEF Taken, SemType
    <3> QED
      BY <3>1 DEF Without, Results
  <2>2. CASE ~ Ready(t) /\ sem' = Dequeued(t)
    <3>1. sem'.wakeups = sem.wakeups /\ sem'.terminations = sem.terminations
      BY <1>1, <1>2, <1>3, <2>2, DequeuedGood
    <3> QED
      BY <3>1 DEF Without, Results
  <2> QED
    BY <1>2, <2>1, <2>2
<1>5. PICK T \in SUBSET Threads : T = {t}
  OBVIOUS
<1>6. Loses(T)
  BY <1>3, <1>4, <1>5 DEF Loses
<1> QED
  BY <1>2, <1>4, <1>6 DEF Tells, Quiet

\* Every step tells the polls what it adds; only a poll itself adds to what they
\* remember, and only when it finds nothing.
LEMMA StepTells ==
  ASSUME SemInv, Next
  PROVE  Tells \/ \E t \in Threads : ObserveBlocked(t)
<1>1. ASSUME NEW t \in Threads, NEW s \in Uses[t], NEW g \in (Uses[t] \cap MachSems) \cup {None},
             WaitTakes(t, s, g)
      PROVE  Tells
  BY <1>1, WaitTells, SemaphoreAssumption
<1>2. ASSUME NEW t \in Threads, CompleteWait(t) \/ TimeOut(t) \/ Interrupt(t) PROVE Tells
  BY <1>2, EndWaitTells
<1>3. ASSUME NEW t \in Threads, NEW s \in Uses[t], Calls(t, s) PROVE Tells
  <2>1. s \in Sems
    BY SemaphoreAssumption
  <2>2. CASE Signal(t, s) \/ SignalAll(t, s) \/ \E u \in Threads : SignalThread(t, s, u)
    BY <2>1, <2>2, SignalTells
  <2>3. ASSUME NEW g \in (Uses[t] \cap MachSems) \cup {None},
               WaitRefused(t, s, g) \/ \E timed \in BOOLEAN : WaitBlocks(t, s, g, timed)
        PROVE  Tells
    BY <2>1, <2>3, WaitTells
  <2>4. ASSUME s \in MachSems,
               \/ \E p \in Processes, n \in 0..MaxCount : Create(t, s, p, n)
               \/ Destroy(t, s) \/ ThreadExits(t, s)
        PROVE  Tells
    BY <2>4, LifetimeTells, ThreadExitsTells
  <2>5. ASSUME s \in PosixSems,
               \/ \E n \in 0..MaxCount : Open(t, s, n)
               \/ \E p \in Processes : Share(t, s, p)
               \/ Close(t, s) \/ Unlink(t)
        PROVE  Tells
    BY <2>5, LifetimeTells
  <2> QED
    BY <1>3, <2>2, <2>3, <2>4, <2>5 DEF Calls
<1>4. ASSUME NEW t \in Threads, Exec(t) \/ RetireThread(t) \/ StartThread(t) PROVE Tells
  BY <1>4, ThreadTells
<1>5. ASSUME NEW p \in Processes, Exit(p) PROVE Tells
  BY <1>5, ExitTells
<1>6. ASSUME OtherEvent PROVE Tells
  BY <1>6, AddsTells DEF OtherEvent, Without, Quiet
<1> QED
  BY <1>1, <1>2, <1>3, <1>4, <1>5, <1>6 DEF Next

\* What that means for the result of a thread.
LEMMA TellsKeeps ==
  ASSUME SemInv, SemInv', Tells
  PROVE  ResultKept
<1> SUFFICES ASSUME NEW t \in Threads, t \in Results(sem)
             PROVE  \/ /\ t \in sem'.wakeups <=> t \in sem.wakeups
                       /\ t \in sem'.terminations <=> t \in sem.terminations
                    \/ wait[t] # None /\ wait'[t] = None /\ t \notin Results(sem')
  BY DEF ResultKept
<1>1. Settled(sem, wait[t], t) /\ Settled(sem', wait'[t], t)
  BY DEF SemInv, Placed
<1>2. wait[t] # None /\ (wait'[t] = None => t \notin Results(sem'))
  BY <1>1 DEF Settled, Results
<1>3. PICK T \in SUBSET Threads : Loses(T)
  BY DEF Tells
<1>4. CASE t \in T
  BY <1>2, <1>3, <1>4 DEF Loses
<1>5. CASE t \notin T
  <2>1. /\ t \in sem.wakeups => t \in sem'.wakeups
        /\ t \in sem.terminations => t \in sem'.terminations
    BY <1>3, <1>5 DEF Loses, Without
  <2>2. ~ (t \in sem'.wakeups /\ t \in sem'.terminations)
    BY <1>1 DEF Settled
  <2> QED
    BY <2>1, <2>2 DEF Results
<1> QED
  BY <1>4, <1>5

\* No wake and no end of a semaphore is missed: as long as the round may skip the
\* poll of a thread (thread_may_make_progress), there is no result for it, although
\* only the announcements of the signalling calls make a poll stale.
THEOREM NegativePollsCurrent == Spec => []PollsCurrent
<1>1. Init => PollsCurrent
  BY DEF Init, PollsCurrent
<1>2. SemInv /\ PollsCurrent /\ [Next]_vars => PollsCurrent'
  <2> SUFFICES ASSUME SemInv, PollsCurrent, [Next]_vars PROVE PollsCurrent'
    OBVIOUS
  <2>1. CASE UNCHANGED vars
    BY <2>1 DEF vars, PollsCurrent, Results
  <2>2. CASE Tells
    BY <2>2, QuietPolls DEF Tells
  <2>3. ASSUME NEW t \in Threads, ObserveBlocked(t) PROVE PollsCurrent'
    BY <2>3 DEF ObserveBlocked, PollsCurrent, Ready, Results
  <2> QED
    BY <2>1, <2>2, <2>3, StepTells
<1> QED
  BY <1>1, <1>2, SemaphoreInvariant, PTL DEF Spec

\* A result is not lost and not exchanged: a thread that was woken is not told of an
\* end instead, nor the other way round, and its wakeup or termination is erased only
\* with its wait (semaphore continuation, exec, the end of the thread or process).
THEOREM ResultsStay == Spec => ResultsAreKept
<1>1. SemInv /\ SemInv' /\ [Next]_vars => ResultKept \/ UNCHANGED vars
  <2> SUFFICES ASSUME SemInv, SemInv', [Next]_vars PROVE ResultKept \/ UNCHANGED vars
    OBVIOUS
  <2>1. CASE Tells
    BY <2>1, TellsKeeps
  <2>2. ASSUME NEW t \in Threads, ObserveBlocked(t) PROVE ResultKept
    BY <2>2 DEF ObserveBlocked, ResultKept
  <2> QED
    BY <2>1, <2>2, StepTells
<1> QED
  BY <1>1, SemaphoreInvariant, PTL DEF Spec, ResultsAreKept
=============================================================================
