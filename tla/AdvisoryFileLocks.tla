-------------------------- MODULE AdvisoryFileLocks --------------------------
(* flock and fcntl byte-range locks on one file: AdvisoryFileLockRegistry, *)
(* the system calls, the continuations of blocked callers and the cache of *)
(* negative polls that decides whether a blocked caller is looked at.  The *)
(* kernel is serial: a system call, and the poll of one thread, is a step. *)
EXTENDS Naturals, FiniteSets

CONSTANTS Processes, Threads, ProcessOf,
          Descriptions,  \* open file descriptions of the file
          Opened,        \* the processes that have each one open at first
          LastByte,      \* offsets 0..LastByte; the last one stands for the rest
          Ranges,        \* ranges that are unlocked
          Asks,          \* the requests each thread makes
          None

Eof == LastByte + 1      \* an end that is not given
Bytes == 0..LastByte
AllRanges == {r \in [start: Bytes, end: 1..Eof] : r.start < r.end}
Whole == [start |-> 0, end |-> Eof]
Kinds == {"shared", "exclusive"}
Owners == Processes \cup Descriptions

(* A request: flock on a description, or a range for a process or for the  *)
(* description itself (OFD), the latter perhaps with a deadline.           *)
Flock(d, k) ==
    [what |-> "flock", desc |-> d, owner |-> d, range |-> Whole, kind |-> k,
     timed |-> FALSE]
Fcntl(d, o, r, k, timed) ==
    [what |-> "record", desc |-> d, owner |-> o, range |-> r, kind |-> k,
     timed |-> timed]
Requests(p) ==
    {q \in [what: {"flock", "record"}, desc: Descriptions, owner: Owners,
            range: AllRanges, kind: Kinds, timed: BOOLEAN] :
        /\ q.what = "flock" => q.owner = q.desc /\ q.range = Whole
        /\ q.owner \in {q.desc, p}
        /\ q.timed => q.what = "record" /\ q.owner = q.desc}

ASSUME FileLockAssumption ==
    /\ LastByte \in Nat
    /\ Ranges \subseteq AllRanges
    /\ ProcessOf \in [Threads -> Processes]
    /\ \A t \in Threads : Asks[t] \subseteq Requests(ProcessOf[t])
    /\ Opened \in [Descriptions -> SUBSET Processes]
    /\ None \notin Descriptions
    /\ Processes \cap Descriptions = {}

VARIABLES refs,    \* the processes with a descriptor for each description
          live,    \* processes that have not exited
          locks,   \* the registry: exclusive and shared owners, record locks
          wait,    \* PendingFlock or PendingRecordLock of each thread
          cached   \* threads whose last poll failed and is still current

vars == <<refs, live, locks, wait, cached>>

Init ==
    /\ refs = Opened
    /\ live = Processes
    /\ locks = [exclusive |-> None, shared |-> {}, records |-> {}]
    /\ wait = [t \in Threads |-> None]
    /\ cached = {}

-----------------------------------------------------------------------------
(* The registry.                                                           *)
Overlap(r, s) == ~(r.end <= s.start) /\ ~(s.end <= r.start)
Conflict(k, l) == k = "exclusive" \/ l = "exclusive"

Record(o, k, s, e) == [owner |-> o, kind |-> k, start |-> s, end |-> e]

RecordFree(o, r, k) ==
    \A c \in locks.records : c.owner # o /\ Overlap(c, r) => ~Conflict(c.kind, k)

\* Mutant: what follows the range is not preserved.
CarvePrefix(R, o, r) ==
    LET Mine == {c \in R : c.owner = o /\ Overlap(c, r)}
    IN  (R \ Mine)
        \cup {Record(o, c.kind, c.start, r.start) : c \in {d \in Mine : d.start < r.start}}

\* Mutant: a suffix is kept without looking whether there is one.
CarveAlways(R, o, r) ==
    LET Mine == {c \in R : c.owner = o /\ Overlap(c, r)}
    IN  (R \ Mine)
        \cup {Record(o, c.kind, c.start, r.start) : c \in {d \in Mine : d.start < r.start}}
        \cup {Record(o, c.kind, r.end, c.end) : c \in Mine}

(* The owner's locks within the range go; what they cover before and after *)
(* it stays.                                                               *)
Carve(R, o, r) ==
    LET Mine == {c \in R : c.owner = o /\ Overlap(c, r)}
    IN  (R \ Mine)
        \cup {Record(o, c.kind, c.start, r.start) : c \in {d \in Mine : d.start < r.start}}
        \cup {Record(o, c.kind, r.end, c.end) : c \in {d \in Mine : r.end < d.end}}

SetRecord(L, o, r, k) ==
    [L EXCEPT !.records = Carve(@, o, r) \cup {Record(o, k, r.start, r.end)}]
UnlockRecords(L, o, r) == [L EXCEPT !.records = Carve(@, o, r)]

\* Mutant: a sole shared owner may be anybody.
FlockFreeForOne(d, k) ==
    /\ locks.exclusive \in {None, d}
    /\ k = "exclusive" => Cardinality(locks.shared) <= 1

(* try_acquire: a description's own lock never excludes its conversion.    *)
FlockFree(d, k) ==
    /\ locks.exclusive \in {None, d}
    /\ k = "exclusive" => locks.shared \subseteq {d}

SetFlock(L, d, k) ==
    IF k = "shared"
    THEN [L EXCEPT !.exclusive = None, !.shared = @ \cup {d}]
    ELSE [L EXCEPT !.exclusive = d, !.shared = @ \ {d}]
ReleaseFlock(L, d) ==
    [L EXCEPT !.exclusive = IF @ = d THEN None ELSE @, !.shared = @ \ {d}]

Grantable(q) ==
    IF q.what = "flock" THEN FlockFree(q.desc, q.kind)
    ELSE RecordFree(q.owner, q.range, q.kind)
Taken(q) ==
    IF q.what = "flock" THEN SetFlock(locks, q.desc, q.kind)
    ELSE SetRecord(locks, q.owner, q.range, q.kind)

(* ~RegularFileOpenDescription: a description no descriptor and no blocked *)
(* call refers to is destroyed, with the locks it owns.                    *)
Dead(F, w) ==
    {d \in Descriptions : F[d] = {} /\ ~\E t \in Threads : w[t] # None /\ w[t].desc = d}
Destruct(L, D) ==
    [exclusive |-> IF L.exclusive \in D THEN None ELSE L.exclusive,
     shared |-> L.shared \ D,
     records |-> {c \in L.records : c.owner \notin D}]

-----------------------------------------------------------------------------
(* System calls of a thread that is not blocked.                           *)
Runs(t) == ProcessOf[t] \in live /\ wait[t] = None

Lock(t, q) ==
    /\ Runs(t)
    /\ ProcessOf[t] \in refs[q.desc]
    /\ Grantable(q)
    /\ locks' = Taken(q)
    /\ UNCHANGED <<refs, live, wait, cached>>

LockBlocks(t, q) ==
    /\ Runs(t)
    /\ ProcessOf[t] \in refs[q.desc]
    /\ ~Grantable(q)
    /\ wait' = [wait EXCEPT ![t] = q]
    /\ UNCHANGED <<refs, live, locks, cached>>

UnlockFlock(t, d) ==
    /\ Runs(t)
    /\ ProcessOf[t] \in refs[d]
    /\ locks' = ReleaseFlock(locks, d)
    /\ cached' = {}
    /\ UNCHANGED <<refs, live, wait>>

\* Mutant: an unlock of part of a file is not announced.
UnlockQuietly(t, d, o, r) ==
    /\ Runs(t)
    /\ ProcessOf[t] \in refs[d]
    /\ o \in {d, ProcessOf[t]}
    /\ locks' = UnlockRecords(locks, o, r)
    /\ cached' = IF r = Whole THEN {} ELSE cached
    /\ UNCHANGED <<refs, live, wait>>

Unlock(t, d, o, r) ==
    /\ Runs(t)
    /\ ProcessOf[t] \in refs[d]
    /\ o \in {d, ProcessOf[t]}
    /\ locks' = UnlockRecords(locks, o, r)
    /\ cached' = {}
    /\ UNCHANGED <<refs, live, wait>>

(* close: every record lock of the process on the file goes, whichever     *)
(* descriptor it was taken through.                                        *)
Closed(p, C, w) ==
    LET F == [d \in Descriptions |-> IF d \in C THEN refs[d] \ {p} ELSE refs[d]]
    IN  /\ refs' = F
        /\ locks' = Destruct(IF C = {} THEN locks ELSE UnlockRecords(locks, p, Whole),
                             Dead(F, w))

Close(t, d) ==
    /\ Runs(t)
    /\ ProcessOf[t] \in refs[d]
    /\ Closed(ProcessOf[t], {d}, wait)
    /\ cached' = {}
    /\ UNCHANGED <<live, wait>>

(* fork, or a descriptor sent through a socket.                            *)
Share(t, d, p) ==
    /\ Runs(t)
    /\ ProcessOf[t] \in refs[d]
    /\ p \in live \ refs[d]
    /\ refs' = [refs EXCEPT ![d] = @ \cup {p}]
    /\ UNCHANGED <<live, locks, wait, cached>>

(* exec: the waits of the other threads go, and descriptors marked so are  *)
(* closed.  Record locks of the process stay otherwise.                    *)
Exec(t, C) ==
    LET p == ProcessOf[t]
        w == [u \in Threads |-> IF ProcessOf[u] = p THEN None ELSE wait[u]]
    IN  /\ Runs(t)
        /\ \A d \in C : p \in refs[d]
        /\ wait' = w
        /\ Closed(p, C, w)
        /\ cached' = IF C = {} THEN {u \in cached : ProcessOf[u] # p} ELSE {}
        /\ live' = live

(* exit_process: the waits of the other threads stay behind.               *)
Exit(p) ==
    LET F == [d \in Descriptions |-> refs[d] \ {p}]
    IN  /\ p \in live
        /\ live' = live \ {p}
        /\ refs' = F
        /\ locks' = Destruct([locks EXCEPT !.records = {c \in @ : c.owner # p}],
                             Dead(F, wait))
        /\ cached' = {}
        /\ wait' = wait

-----------------------------------------------------------------------------
(* Blocked callers.                                                        *)
EndWait(t, L) ==
    LET w == [wait EXCEPT ![t] = None]
    IN  /\ wait' = w
        /\ locks' = Destruct(L, Dead(refs, w))
        /\ cached' = cached \ {t}
        /\ UNCHANGED <<refs, live>>

(* pending_io_poll_required: the poll cache is stale, or the deadline has  *)
(* passed.                                                                 *)
PollRequired(t) == wait[t] # None /\ (t \notin cached \/ wait[t].timed)

CompleteLock(t) ==
    /\ PollRequired(t)
    /\ Grantable(wait[t])
    /\ EndWait(t, Taken(wait[t]))

TimeOut(t) ==
    /\ wait[t] # None
    /\ wait[t].timed
    /\ ~Grantable(wait[t])
    /\ EndWait(t, locks)

ObserveBusy(t) ==
    /\ wait[t] # None
    /\ t \notin cached
    /\ ~Grantable(wait[t])
    /\ cached' = cached \cup {t}
    /\ UNCHANGED <<refs, live, locks, wait>>

(* interrupt_thread_wait looks once more before it gives up.               *)
Interrupt(t) ==
    /\ wait[t] # None
    /\ ProcessOf[t] \in live
    /\ EndWait(t, IF Grantable(wait[t]) THEN Taken(wait[t]) ELSE locks)

(* retire_thread_continuations: the thread is terminated.                  *)
RetireThread(t) ==
    /\ wait[t] # None
    /\ ProcessOf[t] \in live
    /\ EndWait(t, locks)

(* The kernel object of an exited process is destroyed.                    *)
Reap(p) ==
    LET w == [u \in Threads |-> IF ProcessOf[u] = p THEN None ELSE wait[u]]
    IN  /\ p \notin live
        /\ w # wait
        /\ wait' = w
        /\ locks' = Destruct(locks, Dead(refs, w))
        /\ cached' = {u \in cached : ProcessOf[u] # p}
        /\ UNCHANGED <<refs, live>>

(* Any other I/O event, and any Mach message, makes every poll stale.      *)
OtherEvent ==
    /\ cached # {}
    /\ cached' = {}
    /\ UNCHANGED <<refs, live, locks, wait>>

Next ==
    \/ \E t \in Threads :
          \/ \E q \in Asks[t] : Lock(t, q) \/ LockBlocks(t, q)
          \/ \E d \in Descriptions : UnlockFlock(t, d) \/ Close(t, d)
          \/ \E d \in Descriptions, o \in Owners, r \in Ranges : Unlock(t, d, o, r)
          \/ \E d \in Descriptions, p \in Processes : Share(t, d, p)
          \/ \E C \in SUBSET Descriptions : Exec(t, C)
          \/ CompleteLock(t) \/ TimeOut(t) \/ ObserveBusy(t)
          \/ Interrupt(t) \/ RetireThread(t)
    \/ \E p \in Processes : Exit(p) \/ Reap(p)
    \/ OtherEvent

Spec == Init /\ [][Next]_vars

-----------------------------------------------------------------------------
Records ==
    {c \in [owner: Owners, kind: Kinds, start: Bytes, end: 1..Eof] : c.start < c.end}

Registries ==
    [exclusive: Descriptions \cup {None}, shared: SUBSET Descriptions,
     records: SUBSET Records]

TypeOK ==
    /\ refs \in [Descriptions -> SUBSET Processes]
    /\ live \subseteq Processes
    /\ locks \in Registries
    /\ wait \in [Threads -> {None} \cup UNION {Asks[t] : t \in Threads}]
    /\ \A t \in Threads : wait[t] \in {None} \cup Asks[t]
    /\ cached \subseteq {t \in Threads : wait[t] # None}

(* No two owners hold locks that exclude each other, whatever was split,   *)
(* converted, granted late or left by a closed description.                *)
Exclusion ==
    /\ locks.exclusive # None => locks.shared = {}
    /\ \A b, c \in locks.records :
          b.owner # c.owner /\ Overlap(b, c) => ~Conflict(b.kind, c.kind)

(* How an owner holds a byte, read from the list of records.               *)
HeldRecord(o, b) ==
    LET Mine == {c \in locks.records : c.owner = o /\ c.start <= b /\ b < c.end}
    IN  CASE Mine = {} -> "none"
          [] \E c \in Mine : c.kind = "exclusive" -> "exclusive"
          [] OTHER -> "shared"
HeldFlock(d) ==
    CASE locks.exclusive = d -> "exclusive"
      [] d \in locks.shared -> "shared"
      [] OTHER -> "none"

RecordTable == INSTANCE ByteLockTable WITH
    held <- [o \in Owners |-> [b \in Bytes |-> HeldRecord(o, b)]]
FlockTable == INSTANCE ByteLockTable WITH
    Owners <- Descriptions, Bytes <- {0},
    held <- [d \in Descriptions |-> [b \in {0} |-> HeldFlock(d)]]

(* Splitting and replacing ranges implements a table of bytes, and the two *)
(* owner fields a table with one entry: a call changes its own owner's     *)
(* bytes in its range and no others.                                       *)
Implements == RecordTable!ASpec /\ FlockTable!ASpec

(* A step that gives up a lock makes the kernel look again at every caller *)
(* it lets through.  Two kinds of step do not: one that weakens a lock its *)
(* owner keeps, and the end of another wait.                               *)
Weakens ==
    \/ \E d \in Descriptions : HeldFlock(d) = "exclusive" /\ HeldFlock(d)' = "shared"
    \/ \E o \in Owners, b \in Bytes :
          HeldRecord(o, b) = "exclusive" /\ HeldRecord(o, b)' = "shared"
WakesWaiters ==
    [][\A t \in cached' :
          /\ wait[t] # None /\ wait'[t] = wait[t]
          /\ ~Grantable(wait[t]) /\ Grantable(wait[t])'
          => \/ Weakens
             \/ \E u \in Threads : wait[u] # None /\ wait'[u] = None]_vars
=============================================================================
