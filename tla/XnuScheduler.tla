---------------------------- MODULE XnuScheduler ----------------------------
(***************************************************************************)
(* The thread state machine of mach/xnu_scheduler.cpp, driven by the       *)
(* rounds of runtime/emulator_session.cpp.                                 *)
(*                                                                         *)
(* A round chooses at most one thread per emulated processor, executes the *)
(* batch and then completes its slices in processor order.  The scheduler  *)
(* itself runs on one host thread, but the guest's system calls run        *)
(* between a thread's choose_next and its complete_slice, so a wake, a     *)
(* hold, a release, a termination or the reuse of a thread slot can reach  *)
(* a thread whose slice is still in flight.                                *)
(*                                                                         *)
(* Which queued thread choose_next prefers (priority, FIFO order, realtime *)
(* deadline) is the subject of XnuRunQueue; here any queued thread may be  *)
(* chosen.  A quantum is reduced to whether the slice used it up.          *)
(***************************************************************************)
EXTENDS Integers, FiniteSets

CONSTANTS Threads,        \* thread slots, XnuThreadId
          Processes,      \* process identifiers
          ProcessOf,      \* the process part of a thread's identifier
          NumProcessors,  \* guest_processor_count
          MaxHolds,       \* numeric_limits<uint32_t>::max(), the limit of suspend_count
          NoThread        \* an empty std::optional<XnuThreadId>

Processors == 1 .. NumProcessors
NoProcessor == 0
Reasons == {"User", "Process", "Preparation"}
States == {"Runnable", "Running", "HostAwait", "Waiting"}
Completions == {"Continue", "HostCooperate", "Yield", "Block", "HostAwait"}

ASSUME ThreadsAssumption == /\ IsFiniteSet(Threads)
                            /\ NoThread \notin Threads
                            /\ ProcessOf \in [Threads -> Processes]
ASSUME BoundsAssumption == NumProcessors \in Nat \ {0} /\ MaxHolds \in Nat \ {0}

VARIABLES threads,                  \* the keys of threads_: the registered slots
          record,                   \* ThreadRecord of every slot
          waiting_count,            \* waiting_count_
          runnable_count,           \* runnable_count_
          host_await_count,         \* host_await_count_
          process_runnable_counts,  \* process_runnable_counts_; an absent entry is 0
          processor_contexts,       \* processor_contexts_
          batch,     \* scheduled_batch: the slice in flight on each processor
          cursor,    \* the processor the dispatch loop is at, NoProcessor outside it
          stale,     \* history: processors whose slice lost its thread in flight
          owed       \* history: threads woken and not dispatched since

counters == <<waiting_count, runnable_count, host_await_count,
              process_runnable_counts>>
vars == <<threads, record, counters, processor_contexts, batch, cursor,
          stale, owed>>

Records == [state : States,
            queued : BOOLEAN,
            execution_pending : BOOLEAN,
            wake_pending : BOOLEAN,
            suspend_count : 0 .. MaxHolds,
            suspension_counts : [Reasons -> Nat],
            resume_runnable : BOOLEAN,
            host_await : BOOLEAN,
            host_resume_allowed : BOOLEAN,
            last_processor : Processors \cup {NoProcessor}]

\* A default-constructed ThreadRecord.
NewRecord == [state |-> "Waiting",
              queued |-> FALSE,
              execution_pending |-> FALSE,
              wake_pending |-> FALSE,
              suspend_count |-> 0,
              suspension_counts |-> [r \in Reasons |-> 0],
              resume_runnable |-> FALSE,
              host_await |-> FALSE,
              host_resume_allowed |-> FALSE,
              last_processor |-> NoProcessor]

IsRunnableState(s) == s \in {"Runnable", "Running"}

ThreadsOf(p) == {t \in threads : ProcessOf[t] = p}

(***************************************************************************)
(* The counters that follow a field of the record wherever it is written:  *)
(* enqueue and remove_from_queue keep runnable_count_, finish_host_await   *)
(* and the HostAwait completion keep host_await_count_, transition_state   *)
(* keeps process_runnable_counts_.  waiting_count_ has no such helper, and *)
(* every operation below adjusts it by itself.                             *)
(***************************************************************************)
SetRecords(Ts, new) ==
  /\ record' = [t \in Threads |-> IF t \in Ts THEN new[t] ELSE record[t]]
  /\ runnable_count' =
       runnable_count
         + Cardinality({t \in Ts : new[t].queued /\ ~record[t].queued})
         - Cardinality({t \in Ts : record[t].queued /\ ~new[t].queued})
  /\ host_await_count' =
       host_await_count
         + Cardinality({t \in Ts : new[t].host_await /\ ~record[t].host_await})
         - Cardinality({t \in Ts : record[t].host_await /\ ~new[t].host_await})
  /\ process_runnable_counts' =
       [p \in Processes |->
          process_runnable_counts[p]
            + Cardinality({t \in Ts : /\ ProcessOf[t] = p
                                      /\ IsRunnableState(new[t].state)
                                      /\ ~IsRunnableState(record[t].state)})
            - Cardinality({t \in Ts : /\ ProcessOf[t] = p
                                      /\ IsRunnableState(record[t].state)
                                      /\ ~IsRunnableState(new[t].state)})]

SetRecord(t, r) == SetRecords({t}, [u \in {t} |-> r])

\* release_processor_context for every thread of Ts.
ReleasedContexts(Ts) ==
  [p \in Processors |->
     IF /\ processor_contexts[p] \in Ts
        /\ record[processor_contexts[p]].last_processor = p
     THEN NoThread
     ELSE processor_contexts[p]]

-----------------------------------------------------------------------------
(* Operations on one record, as the methods of XnuScheduler perform them.  *)

MadeRunnable(r) ==
  LET done == [r EXCEPT !.host_await = FALSE] IN
  IF r.suspend_count # 0 THEN [done EXCEPT !.resume_runnable = TRUE]
  ELSE IF r.state = "Running" \/ r.queued THEN done
  ELSE [done EXCEPT !.state = "Runnable", !.queued = TRUE]

\* Whether make_runnable takes the thread out of waiting_count_.
EndsWait(r) == r.suspend_count = 0 /\ ~r.queued /\ r.state = "Waiting"

Blocked(r) ==
  [r EXCEPT !.host_resume_allowed = FALSE,
            !.host_await = FALSE,
            !.queued = FALSE,
            !.state = "Waiting",
            !.resume_runnable = IF r.suspend_count # 0 THEN FALSE ELSE @]

\* Mutant: the limit of suspend_count is not checked.
CanSuspendPastLimit(r) == TRUE

CanSuspend(r) == r.suspend_count # MaxHolds

\* The first hold of a thread that is not already waiting stops it.
SuspendStops(r) == r.suspend_count = 0 /\ r.state # "Waiting"

\* Mutant: a hold leaves a host continuation allowed.
SuspendedKeepsContinuation(r, reason) ==
  LET held == [r EXCEPT !.suspension_counts[reason] = @ + 1,
                        !.suspend_count = @ + 1] IN
  IF r.suspend_count # 0 THEN held
  ELSE [held EXCEPT !.resume_runnable = IsRunnableState(r.state),
                    !.queued = FALSE,
                    !.state = "Waiting"]

Suspended(r, reason) ==
  LET held == [r EXCEPT !.host_resume_allowed = FALSE,
                        !.suspension_counts[reason] = @ + 1,
                        !.suspend_count = @ + 1] IN
  IF r.suspend_count # 0 THEN held
  ELSE [held EXCEPT !.resume_runnable = IsRunnableState(r.state),
                    !.queued = FALSE,
                    !.state = "Waiting"]

CanResume(r, reason) == r.suspension_counts[reason] # 0

\* Whether dropping one hold makes the thread leave waiting_count_.
ResumeReleases(r) == r.suspend_count = 1 /\ (r.resume_runnable \/ r.host_await)

\* Mutant: the last hold of one reason releases a thread that others still hold.
ResumedByReason(r, reason) ==
  LET dropped == [r EXCEPT !.suspension_counts[reason] = @ - 1,
                           !.suspend_count = @ - 1] IN
  IF r.suspension_counts[reason] # 1 THEN dropped
  ELSE IF r.resume_runnable
       THEN [dropped EXCEPT !.resume_runnable = FALSE,
                            !.state = "Runnable",
                            !.queued = TRUE]
       ELSE IF r.host_await THEN [dropped EXCEPT !.state = "HostAwait"]
            ELSE dropped

Resumed(r, reason) ==
  LET dropped == [r EXCEPT !.suspension_counts[reason] = @ - 1,
                           !.suspend_count = @ - 1] IN
  IF r.suspend_count # 1 THEN dropped
  ELSE IF r.resume_runnable
       THEN [dropped EXCEPT !.resume_runnable = FALSE,
                            !.state = "Runnable",
                            !.queued = TRUE]
       ELSE IF r.host_await THEN [dropped EXCEPT !.state = "HostAwait"]
            ELSE dropped

Woken(r) ==
  IF r.host_await THEN r
  ELSE IF r.execution_pending
       THEN [r EXCEPT !.resume_runnable = @ \/ r.suspend_count # 0,
                      !.wake_pending = TRUE]
       ELSE MadeRunnable(r)

-----------------------------------------------------------------------------
(* Kernel requests.  The session serves them while it polls for events and *)
(* while slices are in flight, never inside the dispatch loop.             *)

Serving == cursor = NoProcessor
Polling == Serving /\ \A p \in Processors : batch[p] = NoThread

\* Slices whose thread is removed before they are completed.
Orphaned(Ts) == stale \cup {p \in Processors : batch[p] \in Ts}

RegisterThread(t, runnable) ==
  /\ Serving
  /\ t \notin threads
  /\ threads' = threads \cup {t}
  /\ SetRecord(t, IF runnable
                  THEN [NewRecord EXCEPT !.state = "Runnable", !.queued = TRUE]
                  ELSE NewRecord)
  /\ waiting_count' = IF runnable THEN waiting_count ELSE waiting_count + 1
  /\ UNCHANGED <<processor_contexts, batch, cursor, stale, owed>>

\* Mutant: a removed thread stays installed on its processor.
RemoveThreadsKeepContexts(Ts) ==
  /\ threads' = threads \ Ts
  /\ SetRecords(Ts, [t \in Ts |-> NewRecord])
  /\ waiting_count' = waiting_count
                        - Cardinality({t \in Ts : record[t].state = "Waiting"})
  /\ owed' = owed \ Ts
  /\ UNCHANGED processor_contexts

\* remove_thread for every thread of Ts.
RemoveThreads(Ts) ==
  /\ threads' = threads \ Ts
  /\ SetRecords(Ts, [t \in Ts |-> NewRecord])
  /\ waiting_count' = waiting_count
                        - Cardinality({t \in Ts : record[t].state = "Waiting"})
  /\ processor_contexts' = ReleasedContexts(Ts)
  /\ owed' = owed \ Ts

RemoveThread(t) ==
  /\ Serving
  /\ t \in threads
  /\ RemoveThreads({t})
  /\ stale' = Orphaned({t})
  /\ UNCHANGED <<batch, cursor>>

RemoveProcess(p) ==
  /\ Serving
  /\ ThreadsOf(p) # {}
  /\ RemoveThreads(ThreadsOf(p))
  /\ stale' = Orphaned(ThreadsOf(p))
  /\ UNCHANGED <<batch, cursor>>

\* The event poll completes a guest wait or a host ticket: make_runnable.
MakeRunnable(t) ==
  /\ Polling
  /\ t \in threads
  /\ SetRecord(t, MadeRunnable(record[t]))
  /\ waiting_count' = IF EndsWait(record[t]) THEN waiting_count - 1
                                             ELSE waiting_count
  /\ owed' = owed \cup {t}
  /\ UNCHANGED <<threads, processor_contexts, batch, cursor, stale>>

WakeThread(t) ==
  /\ Serving
  /\ t \in threads
  /\ SetRecord(t, Woken(record[t]))
  /\ waiting_count' = IF /\ ~record[t].host_await
                         /\ ~record[t].execution_pending
                         /\ EndsWait(record[t])
                      THEN waiting_count - 1
                      ELSE waiting_count
  /\ owed' = IF record[t].host_await THEN owed ELSE owed \cup {t}
  /\ UNCHANGED <<threads, processor_contexts, batch, cursor, stale>>

\* suspend_thread for every thread of Ts that can take another hold.
Suspend(Ts, reason) ==
  LET held == {t \in Ts : CanSuspend(record[t])}
      stopped == {t \in held : SuspendStops(record[t])} IN
  /\ SetRecords(held, [t \in held |-> Suspended(record[t], reason)])
  /\ waiting_count' = waiting_count + Cardinality(stopped)
  /\ processor_contexts' =
       ReleasedContexts({t \in stopped : ~record[t].execution_pending})
  /\ UNCHANGED <<threads, batch, cursor, stale, owed>>

SuspendThread(t, reason) ==
  /\ Serving
  /\ t \in threads
  /\ CanSuspend(record[t])
  /\ Suspend({t}, reason)

SuspendProcess(p) ==
  /\ Serving
  /\ ThreadsOf(p) # {}
  /\ Suspend(ThreadsOf(p), "Process")

\* resume_thread for every thread of Ts that has a hold of that reason.
Resume(Ts, reason) ==
  LET freed == {t \in Ts : CanResume(record[t], reason)} IN
  /\ SetRecords(freed, [t \in freed |-> Resumed(record[t], reason)])
  /\ waiting_count' =
       waiting_count - Cardinality({t \in freed : ResumeReleases(record[t])})
  /\ UNCHANGED <<threads, processor_contexts, batch, cursor, stale, owed>>

ResumeThread(t, reason) ==
  /\ Serving
  /\ t \in threads
  /\ CanResume(record[t], reason)
  /\ Resume({t}, reason)

ResumeProcess(p) ==
  /\ Serving
  /\ ThreadsOf(p) # {}
  /\ Resume(ThreadsOf(p), "Process")

-----------------------------------------------------------------------------
(* A round: the dispatch loop, then the completion of the batch.           *)

BeginRound ==
  /\ Polling
  /\ cursor' = 1
  /\ UNCHANGED <<threads, record, counters, processor_contexts, batch, stale,
                 owed>>

NextProcessor(p) == IF p = NumProcessors THEN NoProcessor ELSE p + 1

ChooseNext(p, t) ==
  /\ cursor = p
  /\ record[t].queued
  /\ SetRecord(t, [record[t] EXCEPT !.queued = FALSE,
                                    !.state = "Running",
                                    !.execution_pending = TRUE,
                                    !.last_processor = p])
  /\ processor_contexts' =
       IF processor_contexts[p] = t THEN processor_contexts
       ELSE [ReleasedContexts({t}) EXCEPT ![p] = t]
  /\ batch' = [batch EXCEPT ![p] = t]
  /\ cursor' = NextProcessor(p)
  /\ owed' = owed \ {t}
  /\ UNCHANGED <<threads, waiting_count, stale>>

\* No eligible thread, an exhausted tick bound, or a debugger stepping another one.
ChooseNothing(p) ==
  /\ cursor = p
  /\ cursor' = NextProcessor(p)
  /\ UNCHANGED <<threads, record, counters, processor_contexts, batch, stale,
                 owed>>

\* The completion loop reaches processor p: every earlier slice is done.
AtSlice(p) == /\ Serving
              /\ batch[p] # NoThread
              /\ \A q \in 1 .. p - 1 : batch[q] = NoThread

FinishSlice(p) == /\ batch' = [batch EXCEPT ![p] = NoThread]
                  /\ stale' = stale \ {p}
                  /\ cursor' = cursor

\* Mutant: a slot that has been registered again accepts the old slice.
SliceUnregistered(t) == t \notin threads

\* The slice outlived its thread: complete_slice must not be obeyed.
SliceRejected(t) == t \notin threads \/ ~record[t].execution_pending

DropSlice(p) ==
  /\ AtSlice(p)
  /\ SliceRejected(batch[p])
  /\ FinishSlice(p)
  /\ UNCHANGED <<threads, record, counters, processor_contexts, owed>>

\* Mutants: the completion keeps the resumption a hold has remembered, or the slice.
AwaitsHostKeepsResumption(r, expired) ==
  [r EXCEPT !.execution_pending = FALSE,
            !.host_resume_allowed = ~expired /\ r.suspend_count = 0
                                             /\ r.state = "Running",
            !.host_await = TRUE,
            !.wake_pending = FALSE,
            !.queued = FALSE,
            !.state = IF r.suspend_count = 0 THEN "HostAwait" ELSE @]

AwaitsHostKeepsSlice(r, expired) ==
  [r EXCEPT !.host_resume_allowed = ~expired /\ r.suspend_count = 0
                                             /\ r.state = "Running",
            !.host_await = TRUE,
            !.wake_pending = FALSE,
            !.resume_runnable = FALSE,
            !.queued = FALSE,
            !.state = IF r.suspend_count = 0 THEN "HostAwait" ELSE @]

\* completion == HostAwait
AwaitsHost(r, expired) ==
  [r EXCEPT !.execution_pending = FALSE,
            !.host_resume_allowed = ~expired /\ r.suspend_count = 0
                                             /\ r.state = "Running",
            !.host_await = TRUE,
            !.wake_pending = FALSE,
            !.resume_runnable = FALSE,
            !.queued = FALSE,
            !.state = IF r.suspend_count = 0 THEN "HostAwait" ELSE @]

\* Mutant: a Block completion overlooks a wake that came while the slice ran.
CompletedForgetsWake(r, c, expired) ==
  LET done == [r EXCEPT !.execution_pending = FALSE,
                        !.wake_pending = FALSE,
                        !.host_resume_allowed = @ /\ c = "Continue" /\ ~expired]
  IN IF r.state # "Running"
     THEN IF c = "Block" THEN Blocked(done)
          ELSE IF r.wake_pending THEN MadeRunnable(done) ELSE done
     ELSE IF c = "Block"
          THEN [done EXCEPT !.state = "Waiting"]
          ELSE [done EXCEPT !.state = "Runnable", !.queued = TRUE]

\* Every other completion; c is the completion, expired that the quantum is used up.
Completed(r, c, expired) ==
  LET done == [r EXCEPT !.execution_pending = FALSE,
                        !.wake_pending = FALSE,
                        !.host_resume_allowed = @ /\ c = "Continue" /\ ~expired]
  IN IF r.state # "Running"
     THEN IF c = "Block" /\ ~r.wake_pending THEN Blocked(done)
          ELSE IF r.wake_pending THEN MadeRunnable(done) ELSE done
     ELSE IF c = "Block" /\ ~r.wake_pending
          THEN [done EXCEPT !.state = "Waiting"]
          ELSE [done EXCEPT !.state = "Runnable", !.queued = TRUE]

\* Mutant: blocking a thread that a hold has already stopped counts it twice.
CompletedWaitingTwice(r, c) ==
  IF c = "HostAwait"
  THEN IF r.suspend_count = 0 /\ r.state = "Waiting" THEN -1 ELSE 0
  ELSE IF c = "Block" /\ ~r.wake_pending THEN 1
       ELSE IF r.wake_pending /\ EndsWait(r) THEN -1 ELSE 0

CompletedWaiting(r, c) ==
  IF c = "HostAwait"
  THEN IF r.suspend_count = 0 /\ r.state = "Waiting" THEN -1 ELSE 0
  ELSE IF c = "Block" /\ ~r.wake_pending
       THEN IF r.state = "Waiting" THEN 0 ELSE 1
       ELSE IF r.wake_pending /\ EndsWait(r) THEN -1 ELSE 0

CompleteSlice(p, c, expired) ==
  LET t == batch[p]
      r == record[t]
      new == IF c = "HostAwait" THEN AwaitsHost(r, expired)
                                ELSE Completed(r, c, expired) IN
  /\ AtSlice(p)
  /\ ~SliceRejected(t)
  /\ SetRecord(t, new)
  /\ waiting_count' = waiting_count + CompletedWaiting(r, c)
  /\ processor_contexts' = IF c # "HostAwait" /\ new.state = "Waiting"
                           THEN ReleasedContexts({t})
                           ELSE processor_contexts
  /\ owed' = IF c = "HostAwait" THEN owed \ {t} ELSE owed
  /\ FinishSlice(p)
  /\ UNCHANGED threads

(***************************************************************************)
(* completion == Terminate; when the process has exited its other threads  *)
(* go too, and then even complete_slice's refusal does not save the slot.  *)
(***************************************************************************)
TerminateSlice(p, exited) ==
  LET t == batch[p]
      Ts == IF exited THEN ThreadsOf(ProcessOf[t]) ELSE {t} IN
  /\ AtSlice(p)
  /\ IF exited THEN t \in threads ELSE ~SliceRejected(t)
  /\ RemoveThreads(Ts)
  /\ batch' = [batch EXCEPT ![p] = NoThread]
  /\ stale' = Orphaned(Ts) \ {p}
  /\ UNCHANGED cursor

(***************************************************************************)
(* A successful exec: the slice completes as Block, every thread of the    *)
(* process is removed and the caller is registered again, runnable, its    *)
(* context reinstated if the Block completion has left it installed.  The  *)
(* session does not look at whether the Block completion was accepted.     *)
(***************************************************************************)
ExecSlice(p) ==
  LET t == batch[p]
      r == record[t]
      Ts == ThreadsOf(ProcessOf[t])
      q == r.last_processor
      released == /\ r.execution_pending
                  /\ Completed(r, "Block", FALSE).state = "Waiting"
      installed == ~released /\ q # NoProcessor /\ processor_contexts[q] = t
      fresh == [NewRecord EXCEPT
                  !.state = "Runnable",
                  !.queued = TRUE,
                  !.last_processor = IF installed THEN q ELSE NoProcessor] IN
  /\ AtSlice(p)
  /\ t \in threads
  /\ threads' = (threads \ Ts) \cup {t}
  /\ SetRecords(Ts, [u \in Ts |-> IF u = t THEN fresh ELSE NewRecord])
  /\ waiting_count' = waiting_count
                        - Cardinality({u \in Ts : record[u].state = "Waiting"})
  /\ processor_contexts' = IF installed
                           THEN [ReleasedContexts(Ts) EXCEPT ![q] = t]
                           ELSE ReleasedContexts(Ts)
  /\ batch' = [batch EXCEPT ![p] = NoThread]
  /\ stale' = Orphaned(Ts \ {t}) \ {p}
  /\ owed' = owed \ (Ts \ {t})
  /\ UNCHANGED cursor

-----------------------------------------------------------------------------
Init ==
  /\ threads = {}
  /\ record = [t \in Threads |-> NewRecord]
  /\ waiting_count = 0
  /\ runnable_count = 0
  /\ host_await_count = 0
  /\ process_runnable_counts = [p \in Processes |-> 0]
  /\ processor_contexts = [p \in Processors |-> NoThread]
  /\ batch = [p \in Processors |-> NoThread]
  /\ cursor = NoProcessor
  /\ stale = {}
  /\ owed = {}

Request ==
  \/ \E t \in Threads :
       \/ \E runnable \in BOOLEAN : RegisterThread(t, runnable)
       \/ RemoveThread(t)
       \/ MakeRunnable(t)
       \/ WakeThread(t)
       \/ \E reason \in Reasons : SuspendThread(t, reason)
       \/ \E reason \in Reasons : ResumeThread(t, reason)
  \/ \E p \in Processes :
       \/ RemoveProcess(p)
       \/ SuspendProcess(p)
       \/ ResumeProcess(p)

Dispatch ==
  \/ BeginRound
  \/ \E p \in Processors :
       \/ \E t \in threads : ChooseNext(p, t)
       \/ ChooseNothing(p)

Completion ==
  \E p \in Processors :
    \/ DropSlice(p)
    \/ \E c \in Completions, expired \in BOOLEAN : CompleteSlice(p, c, expired)
    \/ \E exited \in BOOLEAN : TerminateSlice(p, exited)
    \/ ExecSlice(p)

Next == Request \/ Dispatch \/ Completion

Spec == Init /\ [][Next]_vars

-----------------------------------------------------------------------------
(* Properties.                                                             *)

\* Every variable has the shape of the field it models; counts may only be naturals.
TypeOK ==
  /\ threads \subseteq Threads
  /\ record \in [Threads -> Records]
  /\ waiting_count \in Nat
  /\ runnable_count \in Nat
  /\ host_await_count \in Nat
  /\ process_runnable_counts \in [Processes -> Nat]
  /\ processor_contexts \in [Processors -> Threads \cup {NoThread}]
  /\ batch \in [Processors -> Threads \cup {NoThread}]
  /\ cursor \in 0 .. NumProcessors
  /\ stale \subseteq Processors
  /\ owed \subseteq threads

(***************************************************************************)
(* The four incrementally kept counters equal what a scan of threads_      *)
(* would count, whatever order of holds, wakes, completions, exits and     *)
(* execs led here.  transition_state throws "XNU process runnable count is *)
(* inconsistent" when its part of this fails.                              *)
(***************************************************************************)
WaitingThreads == {t \in threads : record[t].state = "Waiting"}
QueuedThreads == {t \in Threads : record[t].queued}
AwaitingThreads == {t \in Threads : record[t].host_await}
RunnableThreads(p) == {t \in Threads : /\ ProcessOf[t] = p
                                       /\ IsRunnableState(record[t].state)}

CountersAgree ==
  /\ waiting_count = Cardinality(WaitingThreads)
  /\ runnable_count = Cardinality(QueuedThreads)
  /\ host_await_count = Cardinality(AwaitingThreads)
  /\ \A p \in Processes :
       process_runnable_counts[p] = Cardinality(RunnableThreads(p))

(***************************************************************************)
(* A thread is in a run queue exactly while it is Runnable, and executing  *)
(* only while a slice of it is in flight.  A held thread is Waiting,       *)
(* whichever holds of whichever reasons were taken and dropped meanwhile,  *)
(* and an unheld thread remembers no resumption.                           *)
(***************************************************************************)
HoldsRespected ==
  \A t \in Threads :
    LET r == record[t] IN
    /\ r.queued <=> r.state = "Runnable"
    /\ r.state = "Running" => r.execution_pending
    /\ r.suspend_count # 0 => r.state = "Waiting"
    /\ r.resume_runnable => r.suspend_count # 0
    /\ r.suspend_count = r.suspension_counts["User"]
                          + r.suspension_counts["Process"]
                          + r.suspension_counts["Preparation"]

(***************************************************************************)
(* A wake is never lost: from the wake to the next dispatch the thread is  *)
(* queued, or held with resume_runnable set, or still executing with       *)
(* wake_pending set for its completion to see.  Only a completion that     *)
(* hands the thread to a host ticket gives the wake up.                    *)
(***************************************************************************)
NoLostWake ==
  \A t \in owed :
    LET r == record[t] IN
    IF r.execution_pending THEN r.wake_pending
    ELSE r.queued \/ (r.suspend_count # 0 /\ r.resume_runnable)

(***************************************************************************)
(* A thread with a host ticket is neither queued nor executing, and no     *)
(* release of a hold makes it runnable: it is in HostAwait, or Waiting     *)
(* under a hold that remembers nothing to resume.                          *)
(***************************************************************************)
HostTicketOwnsThread ==
  \A t \in Threads :
    LET r == record[t] IN
    /\ r.state = "HostAwait" => r.host_await
    /\ r.host_await => /\ r.state = "HostAwait" \/ r.suspend_count # 0
                       /\ ~r.execution_pending
                       /\ ~r.resume_runnable

(***************************************************************************)
(* host_continuation_allowed is never answered for a thread that has been  *)
(* held or has blocked since the slice that earned it.                     *)
(***************************************************************************)
HostContinuationCurrent ==
  \A t \in Threads :
    record[t].host_resume_allowed => /\ record[t].suspend_count = 0
                                     /\ record[t].state # "Waiting"

(***************************************************************************)
(* "Its execution must still be accounted exactly once": execution_pending *)
(* is set exactly for the threads with a slice in flight that was          *)
(* dispatched to this incarnation of the slot, and there is one such slice.*)
(***************************************************************************)
SlicesAccountedOnce ==
  /\ \A t \in Threads :
       record[t].execution_pending <=>
         \E p \in Processors : batch[p] = t /\ p \notin stale
  /\ \A p, q \in Processors : (batch[p] = batch[q] /\ batch[p] # NoThread) => p = q
  /\ \A t \in Threads : record[t].wake_pending => record[t].execution_pending

(***************************************************************************)
(* The context installed on a processor belongs to a registered thread     *)
(* that last ran there, so no thread is installed on two processors; and   *)
(* a thread with a slice in flight is installed where the slice runs.      *)
(***************************************************************************)
ContextsCurrent ==
  \A p \in Processors :
    /\ processor_contexts[p] # NoThread =>
         /\ processor_contexts[p] \in threads
         /\ record[processor_contexts[p]].last_processor = p
    /\ batch[p] # NoThread /\ p \notin stale => processor_contexts[p] = batch[p]

(***************************************************************************)
(* A slice whose thread was removed in flight is not charged to the thread *)
(* that now has the slot: its completion changes nothing, unless the whole *)
(* process exits or execs by it, and it never touches another process.     *)
(***************************************************************************)
StaleSliceHarmless ==
  [][\A p \in Processors :
       (p \in stale /\ batch[p] # NoThread /\ batch'[p] = NoThread)
         => \/ UNCHANGED <<threads, record, counters, processor_contexts>>
            \/ /\ \A t \in threads' :
                    ProcessOf[t] = ProcessOf[batch[p]] => t = batch[p]
               /\ \A t \in Threads :
                    ProcessOf[t] # ProcessOf[batch[p]] => record'[t] = record[t]]_vars

=============================================================================
