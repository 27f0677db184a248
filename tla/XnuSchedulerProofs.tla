------------------------- MODULE XnuSchedulerProofs -------------------------
(***************************************************************************)
(* Proofs about XnuScheduler, for every finite set of threads, every       *)
(* number of processors and every limit of the hold count.                 *)
(***************************************************************************)
EXTENDS XnuScheduler, FiniteSetTheorems, TLAPS

(***************************************************************************)
(* What every ThreadRecord satisfies, whatever its thread is.  It          *)
(* strengthens the per-thread invariants by the fact that a slice in       *)
(* flight only finds its thread Waiting under a hold that will resume it.  *)
(***************************************************************************)
RecordInv(r) ==
  /\ r.queued <=> r.state = "Runnable"
  /\ r.state = "Running" => r.execution_pending
  /\ r.suspend_count # 0 => r.state = "Waiting"
  /\ r.resume_runnable => r.suspend_count # 0
  /\ r.suspend_count = r.suspension_counts["User"]
                        + r.suspension_counts["Process"]
                        + r.suspension_counts["Preparation"]
  /\ r.state = "HostAwait" => r.host_await
  /\ r.host_await => /\ r.state = "HostAwait" \/ r.suspend_count # 0
                     /\ ~r.execution_pending
                     /\ ~r.resume_runnable
  /\ r.host_resume_allowed => r.suspend_count = 0 /\ r.state # "Waiting"
  /\ r.wake_pending => r.execution_pending
  /\ r.execution_pending /\ r.state = "Waiting" => r.resume_runnable

GoodRecord(r) == r \in Records /\ RecordInv(r)

-----------------------------------------------------------------------------
(* The operations on one record.                                           *)

\* A default-constructed record satisfies the record invariant.
LEMMA NewRecordGood == GoodRecord(NewRecord)
  BY BoundsAssumption DEF GoodRecord, RecordInv, NewRecord, Records, States, Reasons,
     NoProcessor

\* So does a newly registered runnable one, wherever it last ran.
LEMMA NewRunnableGood ==
  /\ GoodRecord([NewRecord EXCEPT !.state = "Runnable", !.queued = TRUE])
  /\ \A q \in Processors \cup {NoProcessor} :
       GoodRecord([NewRecord EXCEPT !.state = "Runnable", !.queued = TRUE,
                                    !.last_processor = q])
<1> DEFINE plain == [NewRecord EXCEPT !.state = "Runnable", !.queued = TRUE]
           at(q) == [NewRecord EXCEPT !.state = "Runnable", !.queued = TRUE,
                                      !.last_processor = q]
<1>1. GoodRecord(NewRecord)
  BY NewRecordGood
<1>2. plain \in Records
  BY <1>1 DEF GoodRecord, Records, States
<1>3. RecordInv(plain)
  BY <1>1 DEF GoodRecord, RecordInv, NewRecord
<1>4. ASSUME NEW q \in Processors \cup {NoProcessor}
      PROVE  GoodRecord(at(q))
  <2>1. at(q) \in Records
    BY <1>1 DEF GoodRecord, Records, States
  <2>2. RecordInv(at(q))
    BY <1>1 DEF GoodRecord, RecordInv, NewRecord
  <2> QED
    BY <2>1, <2>2 DEF GoodRecord
<1> QED
  BY <1>2, <1>3, <1>4 DEF GoodRecord

\* make_runnable on a thread that is not executing keeps the record invariant.
LEMMA MadeRunnableGood ==
  ASSUME NEW r, GoodRecord(r), ~r.execution_pending
  PROVE  GoodRecord(MadeRunnable(r))
  BY BoundsAssumption DEF GoodRecord, RecordInv, MadeRunnable, Records, States, Reasons,
     NoProcessor

\* The sum of the holds of a record, by reason.
HoldSum(c) == c["User"] + c["Process"] + c["Preparation"]

\* A hold keeps the record invariant.
LEMMA SuspendedGood ==
  ASSUME NEW r, GoodRecord(r), CanSuspend(r), NEW reason \in Reasons
  PROVE  GoodRecord(Suspended(r, reason))
<1> DEFINE c == [r.suspension_counts EXCEPT ![reason] = @ + 1]
           n == r.suspend_count + 1
           held == [r EXCEPT !.host_resume_allowed = FALSE,
                             !.suspension_counts = c,
                             !.suspend_count = n]
           revive == IsRunnableState(r.state)
           stopped == [held EXCEPT !.resume_runnable = revive,
                                   !.queued = FALSE,
                                   !.state = "Waiting"]
<1>1. r \in Records /\ RecordInv(r) /\ r.suspension_counts \in [Reasons -> Nat]
  BY DEF GoodRecord, Records
<1>2. c \in [Reasons -> Nat] /\ HoldSum(c) = HoldSum(r.suspension_counts) + 1
  BY <1>1 DEF HoldSum, Reasons
<1>3. n \in 0 .. MaxHolds /\ n # 0 /\ n = HoldSum(c)
  <2>1. r.suspend_count \in 0 .. MaxHolds /\ r.suspend_count # MaxHolds
    BY <1>1, BoundsAssumption DEF Records, CanSuspend
  <2>2. r.suspend_count = HoldSum(r.suspension_counts)
    BY <1>1 DEF RecordInv, HoldSum
  <2> QED
    BY <1>2, <2>1, <2>2, BoundsAssumption
<1>4. Suspended(r, reason) = IF r.suspend_count # 0 THEN held ELSE stopped
  BY <1>1 DEF Suspended, Records
<1> HIDE DEF c, n
<1>a. /\ revive \in BOOLEAN
      /\ r.state \in {"Runnable", "Running"} => revive
      /\ r.state \in {"HostAwait", "Waiting"} => ~revive
  BY DEF IsRunnableState
<1> HIDE DEF revive
<1>5. held \in Records /\ stopped \in Records
  BY <1>1, <1>2, <1>3, <1>a DEF Records, States
<1>6. r.suspend_count # 0 => RecordInv(held)
  BY <1>1, <1>2, <1>3 DEF RecordInv, Records, HoldSum
<1>7. r.suspend_count = 0 => RecordInv(stopped)
  BY <1>1, <1>2, <1>3, <1>a DEF RecordInv, Records, States, HoldSum
<1> QED
  BY <1>4, <1>5, <1>6, <1>7 DEF GoodRecord

\* So does the release of a hold.
LEMMA ResumedGood ==
  ASSUME NEW r, GoodRecord(r), NEW reason \in Reasons, CanResume(r, reason)
  PROVE  GoodRecord(Resumed(r, reason))
<1> DEFINE c == [r.suspension_counts EXCEPT ![reason] = @ - 1]
           n == r.suspend_count - 1
           dropped == [r EXCEPT !.suspension_counts = c,
                                !.suspend_count = n]
           revived == [dropped EXCEPT !.resume_runnable = FALSE,
                                      !.state = "Runnable",
                                      !.queued = TRUE]
           awaiting == [dropped EXCEPT !.state = "HostAwait"]
<1>1. r \in Records /\ RecordInv(r) /\ r.suspension_counts \in [Reasons -> Nat]
  BY DEF GoodRecord, Records
<1>2. c \in [Reasons -> Nat] /\ HoldSum(c) = HoldSum(r.suspension_counts) - 1
  BY <1>1 DEF CanResume, HoldSum, Reasons
<1>3. /\ r.suspend_count \in Nat \ {0}
      /\ n \in 0 .. MaxHolds
      /\ n = HoldSum(c)
      /\ r.suspend_count = 1 <=> n = 0
  <2>1. r.suspend_count \in 0 .. MaxHolds
    BY <1>1, BoundsAssumption DEF Records
  <2>2. r.suspend_count = HoldSum(r.suspension_counts)
    BY <1>1 DEF RecordInv, HoldSum
  <2>3. HoldSum(c) \in Nat
    BY <1>2 DEF HoldSum, Reasons
  <2> QED
    BY <1>2, <2>1, <2>2, <2>3, BoundsAssumption
<1>4. Resumed(r, reason) = IF r.suspend_count # 1 THEN dropped
                           ELSE IF r.resume_runnable THEN revived
                           ELSE IF r.host_await THEN awaiting
                           ELSE dropped
  BY <1>1 DEF Resumed, Records
<1> HIDE DEF c, n
<1>5. dropped \in Records /\ revived \in Records /\ awaiting \in Records
  BY <1>1, <1>2, <1>3 DEF Records, States
<1>6. r.suspend_count # 1 \/ ~(r.host_await \/ r.resume_runnable)
        => RecordInv(dropped)
  BY <1>1, <1>2, <1>3 DEF RecordInv, Records, HoldSum
<1>7. (r.suspend_count = 1 /\ r.resume_runnable) => RecordInv(revived)
  BY <1>1, <1>2, <1>3 DEF RecordInv, Records, States, HoldSum
<1>8. (r.suspend_count = 1 /\ r.host_await) => RecordInv(awaiting)
  BY <1>1, <1>2, <1>3 DEF RecordInv, Records, States, HoldSum
<1> QED
  BY <1>4, <1>5, <1>6, <1>7, <1>8 DEF GoodRecord

\* So does a wake.
LEMMA WokenGood ==
  ASSUME NEW r, GoodRecord(r)
  PROVE  GoodRecord(Woken(r))
  BY BoundsAssumption DEF GoodRecord, RecordInv, Woken, MadeRunnable, Records, States, Reasons,
     NoProcessor

\* So does the choice of a queued thread.
LEMMA ChosenGood ==
  ASSUME NEW r, GoodRecord(r), r.queued, NEW p \in Processors
  PROVE  GoodRecord([r EXCEPT !.queued = FALSE,
                              !.state = "Running",
                              !.execution_pending = TRUE,
                              !.last_processor = p])
  BY BoundsAssumption DEF GoodRecord, RecordInv, Records, States, Reasons,
     NoProcessor

\* So does every completion of a slice.
LEMMA CompletedGood ==
  ASSUME NEW r, GoodRecord(r), r.execution_pending,
         NEW c \in Completions, NEW expired \in BOOLEAN
  PROVE  /\ GoodRecord(AwaitsHost(r, expired))
         /\ GoodRecord(Completed(r, c, expired))
<1>1. GoodRecord(AwaitsHost(r, expired))
  <2>1. PICK b, s : /\ b = (~expired /\ r.suspend_count = 0 /\ r.state = "Running")
                    /\ s = IF r.suspend_count = 0 THEN "HostAwait" ELSE r.state
    OBVIOUS
  <2>2. PICK a : a = [r EXCEPT !.execution_pending = FALSE, !.host_resume_allowed = b,
                               !.host_await = TRUE, !.wake_pending = FALSE,
                               !.resume_runnable = FALSE, !.queued = FALSE, !.state = s]
    OBVIOUS
  <2>3. r \in Records /\ RecordInv(r)
    BY DEF GoodRecord
  <2>4. /\ b \in BOOLEAN /\ (b => r.suspend_count = 0)
        /\ s \in States
        /\ IF r.suspend_count = 0 THEN s = "HostAwait" ELSE s = "Waiting"
    BY <2>1, <2>3 DEF RecordInv, Records, States
  <2>5. a \in Records
    BY <2>2, <2>3, <2>4 DEF Records
  <2>6. RecordInv(a)
    BY <2>2, <2>3, <2>4 DEF RecordInv, Records
  <2>7. AwaitsHost(r, expired) = a
    BY <2>1, <2>2 DEF AwaitsHost
  <2> QED
    BY <2>5, <2>6, <2>7 DEF GoodRecord
<1> DEFINE allowed == r.host_resume_allowed /\ c = "Continue" /\ ~expired
           done == [r EXCEPT !.execution_pending = FALSE,
                             !.wake_pending = FALSE,
                             !.host_resume_allowed = allowed]
<1>2. allowed \in BOOLEAN /\ (allowed => r.host_resume_allowed)
  BY DEF GoodRecord, Records
<1>3. Completed(r, c, expired)
        = IF r.state # "Running"
          THEN IF c = "Block" /\ ~r.wake_pending THEN Blocked(done)
               ELSE IF r.wake_pending THEN MadeRunnable(done) ELSE done
          ELSE IF c = "Block" /\ ~r.wake_pending
               THEN [done EXCEPT !.state = "Waiting"]
               ELSE [done EXCEPT !.state = "Runnable", !.queued = TRUE]
  BY DEF Completed
<1> HIDE DEF allowed
<1>4. ASSUME r.state # "Running" PROVE GoodRecord(Completed(r, c, expired))
  <2>1. done \in Records
    BY <1>2 DEF GoodRecord, Records
  <2>2. RecordInv(done)
    BY <1>2, <1>4 DEF GoodRecord, RecordInv, Records
  <2>3. PICK d : d = done
    OBVIOUS
  <2>4. GoodRecord(d) /\ ~d.execution_pending
    BY <2>1, <2>2, <2>3 DEF GoodRecord, Records
  <2>5. GoodRecord(Blocked(d))
    <3>1. PICK b : b = IF d.suspend_count # 0 THEN FALSE ELSE d.resume_runnable
      OBVIOUS
    <3>2. PICK a : a = [d EXCEPT !.host_resume_allowed = FALSE, !.host_await = FALSE,
                                 !.queued = FALSE, !.state = "Waiting",
                                 !.resume_runnable = b]
      OBVIOUS
    <3>3. /\ d \in Records /\ RecordInv(d) /\ b = FALSE
          /\ ~d.execution_pending
      BY <2>4, <3>1 DEF GoodRecord, RecordInv, Records
    <3>4. a \in Records
      BY <3>2, <3>3 DEF Records, States
    <3>5. RecordInv(a)
      BY <3>2, <3>3 DEF RecordInv, Records
    <3>6. Blocked(d) = a
      BY <3>1, <3>2 DEF Blocked
    <3> QED
      BY <3>4, <3>5, <3>6 DEF GoodRecord
  <2>6. GoodRecord(MadeRunnable(d))
    BY <2>4 DEF GoodRecord, RecordInv, MadeRunnable, Records, States
  <2> QED
    BY <1>3, <1>4, <2>3, <2>4, <2>5, <2>6
<1>5. ASSUME r.state = "Running" PROVE GoodRecord(Completed(r, c, expired))
  <2>1. /\ r.suspend_count = 0 /\ ~r.queued /\ ~r.host_await /\ ~r.resume_runnable
        /\ r \in Records /\ RecordInv(r)
    BY <1>5 DEF GoodRecord, RecordInv, Records
  <2>2. CASE c = "Block" /\ ~r.wake_pending
    <3>1. ~allowed
      BY <2>2 DEF allowed
    <3>2. [done EXCEPT !.state = "Waiting"] \in Records
      BY <1>2, <2>1 DEF Records, States
    <3>3. RecordInv([done EXCEPT !.state = "Waiting"])
      BY <1>2, <2>1, <3>1 DEF RecordInv, Records
    <3> QED
      BY <1>3, <1>5, <2>2, <3>2, <3>3 DEF GoodRecord
  <2>3. CASE ~(c = "Block" /\ ~r.wake_pending)
    <3>1. [done EXCEPT !.state = "Runnable", !.queued = TRUE] \in Records
      BY <1>2, <2>1 DEF Records, States
    <3>2. RecordInv([done EXCEPT !.state = "Runnable", !.queued = TRUE])
      BY <1>2, <2>1 DEF RecordInv, Records
    <3> QED
      BY <1>3, <1>5, <2>3, <3>1, <3>2 DEF GoodRecord
  <2> QED
    BY <2>2, <2>3
<1> QED
  BY <1>1, <1>4, <1>5

-----------------------------------------------------------------------------
(* Shapes and records.                                                     *)

(***************************************************************************)
(* TypeOK with counters that might be negative: that they are not follows  *)
(* from CountersAgree.  A slot without a thread has a default record.      *)
(***************************************************************************)
Shape ==
  /\ threads \subseteq Threads
  /\ record \in [Threads -> Records]
  /\ waiting_count \in Int
  /\ runnable_count \in Int
  /\ host_await_count \in Int
  /\ process_runnable_counts \in [Processes -> Int]
  /\ processor_contexts \in [Processors -> Threads \cup {NoThread}]
  /\ batch \in [Processors -> Threads \cup {NoThread}]
  /\ cursor \in 0 .. NumProcessors
  /\ stale \subseteq Processors
  /\ owed \subseteq threads

GoodRecords ==
  /\ \A t \in Threads : RecordInv(record[t])
  /\ \A t \in Threads \ threads : record[t] = NewRecord

RecordsInv == Shape /\ GoodRecords

\* A set that gains and loses elements changes its cardinality by how many.
LEMMA CardinalityStep ==
  ASSUME NEW S, NEW T, IsFiniteSet(S), IsFiniteSet(T)
  PROVE  /\ Cardinality(T) = Cardinality(S) + Cardinality(T \ S)
                                            - Cardinality(S \ T)
         /\ Cardinality(S) \in Nat
         /\ Cardinality(T) \in Nat
         /\ Cardinality(T \ S) \in Nat
         /\ Cardinality(S \ T) \in Nat
<1> DEFINE gained == Cardinality(T \ S)
           lost == Cardinality(S \ T)
           kept == Cardinality(S \cap T)
<1>1. T \cap S = S \cap T
  OBVIOUS
<1>2. Cardinality(T \ S) = Cardinality(T) - Cardinality(T \cap S)
  BY FS_Difference
<1>3. Cardinality(S \ T) = Cardinality(S) - Cardinality(S \cap T)
  BY FS_Difference
<1>4. IsFiniteSet(S \cap T) /\ IsFiniteSet(S \ T) /\ IsFiniteSet(T \ S)
  BY FS_Difference, FS_Intersection
<1>5. /\ Cardinality(S) \in Nat /\ Cardinality(T) \in Nat
      /\ kept \in Nat /\ lost \in Nat /\ gained \in Nat
  BY <1>4, FS_CardinalityType
<1>6. Cardinality(T) = Cardinality(S) + gained - lost
  <2>1. gained = Cardinality(T) - kept /\ lost = Cardinality(S) - kept
    BY <1>1, <1>2, <1>3
  <2> HIDE DEF gained, lost, kept
  <2> QED
    BY <1>5, <2>1
<1> QED
  BY <1>5, <1>6

\* Every set of threads is finite and has a natural cardinality.
LEMMA ThreadSetFinite ==
  ASSUME NEW S, S \subseteq Threads
  PROVE  IsFiniteSet(S) /\ Cardinality(S) \in Nat
  BY ThreadsAssumption, FS_Subset, FS_CardinalityType

\* What SetRecords writes, and that the counters stay integers.
LEMMA SetRecordsShape ==
  ASSUME Shape, NEW Ts \in SUBSET Threads, NEW new \in [Ts -> Records],
         SetRecords(Ts, new)
  PROVE  /\ record' \in [Threads -> Records]
         /\ \A t \in Threads : record'[t] = IF t \in Ts THEN new[t] ELSE record[t]
         /\ runnable_count' \in Int
         /\ host_await_count' \in Int
         /\ process_runnable_counts' \in [Processes -> Int]
<1>1. /\ record' \in [Threads -> Records]
      /\ \A t \in Threads : record'[t] = IF t \in Ts THEN new[t] ELSE record[t]
  BY DEF SetRecords, Shape
<1>2. runnable_count' \in Int
  <2>1. /\ Cardinality({t \in Ts : new[t].queued /\ ~record[t].queued}) \in Nat
        /\ Cardinality({t \in Ts : record[t].queued /\ ~new[t].queued}) \in Nat
    BY ThreadSetFinite
  <2> QED
    BY <2>1 DEF SetRecords, Shape
<1>3. host_await_count' \in Int
  <2>1. /\ Cardinality({t \in Ts : new[t].host_await /\ ~record[t].host_await}) \in Nat
        /\ Cardinality({t \in Ts : record[t].host_await /\ ~new[t].host_await}) \in Nat
    BY ThreadSetFinite
  <2> QED
    BY <2>1 DEF SetRecords, Shape
<1>4. process_runnable_counts' \in [Processes -> Int]
  <2> DEFINE In(p) == {t \in Ts : /\ ProcessOf[t] = p
                                  /\ IsRunnableState(new[t].state)
                                  /\ ~IsRunnableState(record[t].state)}
             Out(p) == {t \in Ts : /\ ProcessOf[t] = p
                                   /\ IsRunnableState(record[t].state)
                                   /\ ~IsRunnableState(new[t].state)}
  <2>1. ASSUME NEW p \in Processes
        PROVE  Cardinality(In(p)) \in Nat /\ Cardinality(Out(p)) \in Nat
    <3>1. In(p) \subseteq Threads /\ Out(p) \subseteq Threads
      OBVIOUS
    <3> QED
      BY <3>1, ThreadSetFinite
  <2>2. process_runnable_counts' =
          [p \in Processes |-> process_runnable_counts[p]
                                + Cardinality(In(p)) - Cardinality(Out(p))]
    BY DEF SetRecords
  <2> HIDE DEF In, Out
  <2> QED
    BY <2>1, <2>2 DEF Shape
<1> QED
  BY <1>1, <1>2, <1>3, <1>4

RecordPart ==
  /\ record \in [Threads -> Records]
  /\ runnable_count \in Int
  /\ host_await_count \in Int
  /\ process_runnable_counts \in [Processes -> Int]
  /\ GoodRecords

(***************************************************************************)
(* An operation that writes good records, and default ones into the slots  *)
(* it leaves without a thread, keeps all records good.                     *)
(***************************************************************************)
LEMMA RecordsWritten ==
  ASSUME RecordsInv, NEW Ts \in SUBSET Threads, NEW new, new = [t \in Ts |-> new[t]],
         \A t \in Ts : GoodRecord(new[t]),
         SetRecords(Ts, new),
         \A t \in Threads \ threads' : IF t \in Ts THEN new[t] = NewRecord
                                                   ELSE t \notin threads
  PROVE  RecordPart'
<1>1. new \in [Ts -> Records]
  BY DEF GoodRecord
<1>2. \A t \in Threads : record'[t] = IF t \in Ts THEN new[t] ELSE record[t]
  BY <1>1, SetRecordsShape DEF RecordsInv
<1>3. GoodRecords'
  BY <1>2 DEF RecordsInv, GoodRecords, GoodRecord
<1> QED
  BY <1>1, <1>3, SetRecordsShape DEF RecordsInv, RecordPart

\* The same for an operation on one registered thread.
LEMMA RecordWritten ==
  ASSUME RecordsInv, NEW t \in Threads, NEW r, GoodRecord(r), SetRecord(t, r),
         \A u \in Threads \ threads' : u # t /\ u \notin threads
  PROVE  RecordPart' /\ record' = [record EXCEPT ![t] = r]
<1> DEFINE new == [u \in {t} |-> r]
<1>1. SetRecords({t}, new)
  BY DEF SetRecord
<1>2. new = [u \in {t} |-> new[u]] /\ new[t] = r
  OBVIOUS
<1> HIDE DEF new
<1>3. RecordPart'
  BY <1>1, <1>2, RecordsWritten
<1>4. record' = [record EXCEPT ![t] = r]
  BY <1>1, <1>2 DEF SetRecords, RecordsInv, Shape
<1> QED
  BY <1>3, <1>4

\* Releasing contexts keeps their shape.
LEMMA ReleasedShape ==
  ASSUME Shape, NEW Ts
  PROVE  ReleasedContexts(Ts) \in [Processors -> Threads \cup {NoThread}]
  BY DEF Shape, ReleasedContexts

\* An operation that only writes records and counters keeps the rest of Shape.
LEMMA ShapeRest ==
  ASSUME RecordsInv, RecordPart', threads' \subseteq Threads,
         waiting_count' \in Int,
         processor_contexts' \in [Processors -> Threads \cup {NoThread}],
         batch' \in [Processors -> Threads \cup {NoThread}],
         cursor' \in 0 .. NumProcessors,
         stale' \subseteq Processors,
         owed' \subseteq threads'
  PROVE  RecordsInv'
  BY DEF RecordsInv, Shape, RecordPart

-----------------------------------------------------------------------------
(* Every action keeps shapes and records.                                  *)

\* register_thread: the new record is a default or a queued one.
LEMMA RegisterRecords ==
  ASSUME RecordsInv, NEW t \in Threads, NEW runnable \in BOOLEAN,
         RegisterThread(t, runnable)
  PROVE  RecordsInv'
<1> DEFINE r == IF runnable
                THEN [NewRecord EXCEPT !.state = "Runnable", !.queued = TRUE]
                ELSE NewRecord
<1>1. GoodRecord(r)
  BY NewRecordGood, NewRunnableGood
<1>2. RecordPart'
  BY <1>1, RecordWritten DEF RegisterThread
<1> QED
  BY <1>2, ShapeRest DEF RegisterThread, RecordsInv, Shape

\* remove_thread, for one thread or for all of a process.
LEMMA RemoveRecords ==
  ASSUME RecordsInv, NEW Ts \in SUBSET threads, RemoveThreads(Ts),
         batch' \in [Processors -> Threads \cup {NoThread}],
         cursor' = cursor,
         stale' \subseteq Processors
  PROVE  RecordsInv'
<1> DEFINE new == [t \in Ts |-> NewRecord]
<1>1. Ts \in SUBSET Threads
  BY DEF RecordsInv, Shape
<1>2. SetRecords(Ts, new)
  BY DEF RemoveThreads
<1>3. /\ new = [t \in Ts |-> new[t]]
      /\ \A t \in Ts : new[t] = NewRecord /\ GoodRecord(new[t])
  BY NewRecordGood
<1> HIDE DEF new
<1>4. \A t \in Threads \ threads' : IF t \in Ts THEN new[t] = NewRecord
                                                ELSE t \notin threads
  BY <1>3 DEF RemoveThreads
<1>5. RecordPart'
  BY <1>1, <1>2, <1>3, <1>4, RecordsWritten
<1>6. waiting_count' \in Int
  <2>1. Cardinality({t \in Ts : record[t].state = "Waiting"}) \in Nat
    BY <1>1, ThreadSetFinite
  <2> QED
    BY <2>1 DEF RemoveThreads, RecordsInv, Shape
<1>7. processor_contexts' \in [Processors -> Threads \cup {NoThread}]
  BY ReleasedShape DEF RemoveThreads, RecordsInv
<1> QED
  BY <1>5, <1>6, <1>7, ShapeRest DEF RemoveThreads, RecordsInv, Shape

\* make_runnable, which the session only calls while the thread is not executing.
LEMMA MakeRunnableRecords ==
  ASSUME RecordsInv, NEW t \in Threads, MakeRunnable(t), ~record[t].execution_pending
  PROVE  RecordsInv'
<1>1. GoodRecord(record[t])
  BY DEF RecordsInv, Shape, GoodRecords, GoodRecord
<1>2. RecordPart'
  BY <1>1, MadeRunnableGood, RecordWritten DEF MakeRunnable
<1> QED
  BY <1>2, ShapeRest DEF MakeRunnable, RecordsInv, Shape

\* wake_thread.
LEMMA WakeRecords ==
  ASSUME RecordsInv, NEW t \in Threads, WakeThread(t)
  PROVE  RecordsInv'
<1>1. GoodRecord(record[t])
  BY DEF RecordsInv, Shape, GoodRecords, GoodRecord
<1>2. RecordPart'
  BY <1>1, WokenGood, RecordWritten DEF WakeThread
<1> QED
  BY <1>2, ShapeRest DEF WakeThread, RecordsInv, Shape

\* suspend_thread and suspend_process.
LEMMA SuspendRecords ==
  ASSUME RecordsInv, NEW Ts \in SUBSET threads, NEW reason \in Reasons,
         Suspend(Ts, reason)
  PROVE  RecordsInv'
<1> DEFINE held == {t \in Ts : CanSuspend(record[t])}
           new == [t \in held |-> Suspended(record[t], reason)]
           stopped == {t \in held : SuspendStops(record[t])}
<1>1. held \in SUBSET Threads /\ stopped \subseteq Threads
  BY DEF RecordsInv, Shape
<1>2. SetRecords(held, new)
  BY DEF Suspend
<1>3. new = [t \in held |-> new[t]] /\ \A t \in held : GoodRecord(new[t])
  BY <1>1, SuspendedGood DEF RecordsInv, Shape, GoodRecords, GoodRecord
<1>4. \A t \in Threads \ threads' : t \notin held /\ t \notin threads
  BY DEF Suspend
<1> HIDE DEF new, held
<1>5. RecordPart'
  BY <1>1, <1>2, <1>3, <1>4, RecordsWritten
<1>6. waiting_count' \in Int
  <2>1. waiting_count' = waiting_count + Cardinality(stopped)
    BY DEF Suspend, held
  <2> QED
    BY <1>1, <2>1, ThreadSetFinite DEF RecordsInv, Shape
<1>7. processor_contexts' \in [Processors -> Threads \cup {NoThread}]
  BY ReleasedShape DEF Suspend, RecordsInv
<1> QED
  BY <1>5, <1>6, <1>7, ShapeRest DEF Suspend, RecordsInv, Shape

\* resume_thread and resume_process.
LEMMA ResumeRecords ==
  ASSUME RecordsInv, NEW Ts \in SUBSET threads, NEW reason \in Reasons,
         Resume(Ts, reason)
  PROVE  RecordsInv'
<1> DEFINE freed == {t \in Ts : CanResume(record[t], reason)}
           new == [t \in freed |-> Resumed(record[t], reason)]
           released == {t \in freed : ResumeReleases(record[t])}
<1>1. freed \in SUBSET Threads /\ released \subseteq Threads
  BY DEF RecordsInv, Shape
<1>2. SetRecords(freed, new)
  BY DEF Resume
<1>3. new = [t \in freed |-> new[t]] /\ \A t \in freed : GoodRecord(new[t])
  BY <1>1, ResumedGood DEF RecordsInv, Shape, GoodRecords, GoodRecord
<1>4. \A t \in Threads \ threads' : t \notin freed /\ t \notin threads
  BY DEF Resume
<1> HIDE DEF new, freed
<1>5. RecordPart'
  BY <1>1, <1>2, <1>3, <1>4, RecordsWritten
<1>6. waiting_count' \in Int
  <2>1. waiting_count' = waiting_count - Cardinality(released)
    BY DEF Resume, freed
  <2> QED
    BY <1>1, <2>1, ThreadSetFinite DEF RecordsInv, Shape
<1> QED
  BY <1>5, <1>6, ShapeRest DEF Resume, RecordsInv, Shape

\* choose_next.
LEMMA ChooseRecords ==
  ASSUME RecordsInv, NEW p \in Processors, NEW t \in threads, ChooseNext(p, t)
  PROVE  RecordsInv'
<1>1. t \in Threads /\ GoodRecord(record[t]) /\ record[t].queued
  BY DEF RecordsInv, Shape, GoodRecords, GoodRecord, ChooseNext
<1>2. RecordPart'
  BY <1>1, ChosenGood, RecordWritten DEF ChooseNext
<1>3. processor_contexts' \in [Processors -> Threads \cup {NoThread}]
  BY <1>1, ReleasedShape DEF ChooseNext, RecordsInv, Shape
<1>4. cursor' \in 0 .. NumProcessors
  BY BoundsAssumption DEF ChooseNext, NextProcessor, NoProcessor, Processors
<1> QED
  BY <1>1, <1>2, <1>3, <1>4, ShapeRest DEF ChooseNext, RecordsInv, Shape

\* The thread of a slice that is obeyed.
LEMMA ObeyedSlice ==
  ASSUME RecordsInv, NEW p \in Processors, ~SliceRejected(batch[p])
  PROVE  /\ batch[p] \in threads
         /\ batch[p] \in Threads
         /\ GoodRecord(record[batch[p]])
         /\ record[batch[p]].execution_pending
  BY DEF RecordsInv, Shape, GoodRecords, GoodRecord, SliceRejected

\* complete_slice, for every completion but Terminate.
LEMMA CompleteRecords ==
  ASSUME RecordsInv, NEW p \in Processors, NEW c \in Completions,
         NEW expired \in BOOLEAN, CompleteSlice(p, c, expired)
  PROVE  RecordsInv'
<1> DEFINE t == batch[p]
           r == record[t]
           new == IF c = "HostAwait" THEN AwaitsHost(r, expired)
                                     ELSE Completed(r, c, expired)
<1>1. t \in threads /\ t \in Threads /\ GoodRecord(r) /\ r.execution_pending
  BY ObeyedSlice DEF CompleteSlice
<1>2. GoodRecord(new)
  BY <1>1, CompletedGood
<1>3. SetRecord(t, new)
  BY DEF CompleteSlice
<1>4. threads' = threads
  BY DEF CompleteSlice
<1> HIDE DEF new
<1>5. RecordPart'
  BY <1>1, <1>2, <1>3, <1>4, RecordWritten
<1>6. processor_contexts' \in [Processors -> Threads \cup {NoThread}]
  BY ReleasedShape DEF CompleteSlice, RecordsInv, Shape
<1>7. waiting_count' \in Int
  <2>1. CompletedWaiting(r, c) \in {-1, 0, 1}
    BY DEF CompletedWaiting
  <2> QED
    BY <2>1 DEF CompleteSlice, RecordsInv, Shape
<1> QED
  BY <1>4, <1>5, <1>6, <1>7, ShapeRest
     DEF CompleteSlice, FinishSlice, RecordsInv, Shape

\* replace_process_threads after a successful exec.
LEMMA ExecRecords ==
  ASSUME RecordsInv, NEW p \in Processors, ExecSlice(p)
  PROVE  RecordsInv'
<1> DEFINE t == batch[p]
           Ts == ThreadsOf(ProcessOf[t])
           q == record[t].last_processor
           released == /\ record[t].execution_pending
                       /\ Completed(record[t], "Block", FALSE).state = "Waiting"
           installed == ~released /\ q # NoProcessor /\ processor_contexts[q] = t
           fresh == [NewRecord EXCEPT
                       !.state = "Runnable",
                       !.queued = TRUE,
                       !.last_processor = IF installed THEN q ELSE NoProcessor]
           new == [u \in Ts |-> IF u = t THEN fresh ELSE NewRecord]
<1>1. t \in threads /\ t \in Threads /\ GoodRecord(record[t])
  BY DEF ExecSlice, RecordsInv, Shape, GoodRecords, GoodRecord
<1>2. t \in Ts /\ Ts \in SUBSET Threads
  BY <1>1 DEF ThreadsOf, RecordsInv, Shape
<1>3. q \in Processors \cup {NoProcessor}
  BY <1>1 DEF GoodRecord, Records
<1>4. GoodRecord(fresh)
  BY <1>3, NewRunnableGood
<1>5. SetRecords(Ts, new) /\ threads' = (threads \ Ts) \cup {t}
  BY DEF ExecSlice
<1> HIDE DEF fresh
<1>6. /\ new = [u \in Ts |-> new[u]]
      /\ \A u \in Ts : GoodRecord(new[u])
      /\ \A u \in Ts \ {t} : new[u] = NewRecord
  BY <1>4, NewRecordGood
<1> HIDE DEF new
<1>7. RecordPart'
  BY <1>2, <1>5, <1>6, RecordsWritten
<1>8. waiting_count' \in Int
  <2>1. Cardinality({u \in Ts : record[u].state = "Waiting"}) \in Nat
    BY <1>2, ThreadSetFinite
  <2>2. waiting_count' = waiting_count
                          - Cardinality({u \in Ts : record[u].state = "Waiting"})
    BY DEF ExecSlice
  <2> QED
    BY <2>1, <2>2 DEF RecordsInv, Shape
<1>9. processor_contexts' \in [Processors -> Threads \cup {NoThread}]
  <2>1. ReleasedContexts(Ts) \in [Processors -> Threads \cup {NoThread}]
    BY ReleasedShape DEF RecordsInv
  <2>2. \/ processor_contexts' = ReleasedContexts(Ts)
        \/ processor_contexts' = [ReleasedContexts(Ts) EXCEPT ![q] = t]
    BY DEF ExecSlice
  <2> QED
    BY <1>1, <2>1, <2>2
<1>10. /\ batch' \in [Processors -> Threads \cup {NoThread}]
       /\ cursor' \in 0 .. NumProcessors
       /\ stale' \subseteq Processors
  BY DEF ExecSlice, Orphaned, RecordsInv, Shape
<1>11. owed' \subseteq threads' /\ threads' \subseteq Threads
  BY <1>1, <1>2 DEF ExecSlice, RecordsInv, Shape
<1> QED
  BY <1>7, <1>8, <1>9, <1>10, <1>11, ShapeRest

-----------------------------------------------------------------------------
(* Slices and contexts.                                                    *)

(***************************************************************************)
(* The slices in flight and the contexts, with what the rounds of the      *)
(* session guarantee: inside the dispatch loop every slice is on an        *)
(* earlier processor, untouched, so no thread is chosen twice.             *)
(***************************************************************************)
SliceInv ==
  /\ SlicesAccountedOnce
  /\ ContextsCurrent
  /\ \A p \in stale : batch[p] # NoThread
  /\ cursor # NoProcessor =>
       \A p \in Processors :
         batch[p] # NoThread => /\ p < cursor
                                /\ p \notin stale
                                /\ record[batch[p]].state = "Running"

\* Requests that leave execution_pending and last_processor alone.
LEMMA SlicesKept ==
  ASSUME RecordsInv, RecordsInv', SliceInv, Serving, UNCHANGED <<batch, cursor, stale>>,
         threads \subseteq threads',
         \A t \in Threads :
           /\ record'[t].execution_pending = record[t].execution_pending
           /\ record'[t].last_processor = record[t].last_processor,
         \A p \in Processors :
           \/ processor_contexts'[p] = processor_contexts[p]
           \/ /\ processor_contexts'[p] = NoThread
              /\ ~record[processor_contexts[p]].execution_pending
  PROVE  SliceInv'
<1>1. SlicesAccountedOnce'
  BY DEF SliceInv, SlicesAccountedOnce, RecordsInv, GoodRecords, RecordInv
<1>2. ContextsCurrent'
  <2> SUFFICES ASSUME NEW p \in Processors
               PROVE  /\ processor_contexts'[p] # NoThread =>
                           /\ processor_contexts'[p] \in threads'
                           /\ record'[processor_contexts'[p]].last_processor = p
                      /\ batch'[p] # NoThread /\ p \notin stale'
                           => processor_contexts'[p] = batch'[p]
    BY DEF ContextsCurrent
  <2>1. processor_contexts[p] # NoThread =>
          processor_contexts[p] \in Threads
    BY DEF RecordsInv, Shape
  <2>2. batch[p] # NoThread /\ p \notin stale =>
          record[processor_contexts[p]].execution_pending
    BY DEF SliceInv, SlicesAccountedOnce, ContextsCurrent, RecordsInv, Shape
  <2> QED
    BY <2>1, <2>2 DEF SliceInv, ContextsCurrent
<1> QED
  BY <1>1, <1>2 DEF SliceInv, Serving

\* A registration, or an operation on one record, keeps the slices.
LEMMA RegisterSlices ==
  ASSUME RecordsInv, RecordsInv', SliceInv, NEW t \in Threads,
         NEW runnable \in BOOLEAN, RegisterThread(t, runnable)
  PROVE  SliceInv'
<1>1. record[t] = NewRecord
  BY DEF RegisterThread, RecordsInv, GoodRecords
<1>2. \A u \in Threads :
        record'[u] = IF u = t
                     THEN IF runnable
                          THEN [NewRecord EXCEPT !.state = "Runnable", !.queued = TRUE]
                          ELSE NewRecord
                     ELSE record[u]
  BY DEF RegisterThread, SetRecord, SetRecords
<1>3. \A u \in Threads :
        /\ record'[u].execution_pending = record[u].execution_pending
        /\ record'[u].last_processor = record[u].last_processor
  <2>1. NewRecord \in Records
    BY NewRecordGood DEF GoodRecord
  <2>2. /\ [NewRecord EXCEPT !.state = "Runnable", !.queued = TRUE].execution_pending
             = NewRecord.execution_pending
        /\ [NewRecord EXCEPT !.state = "Runnable", !.queued = TRUE].last_processor
             = NewRecord.last_processor
    BY <2>1 DEF Records
  <2> QED
    BY <1>1, <1>2, <2>2, Zenon
<1> QED
  BY <1>3, SlicesKept DEF RegisterThread

\* make_runnable leaves the slice in flight alone.
LEMMA MadeRunnableFields ==
  ASSUME NEW r \in Records
  PROVE  /\ MadeRunnable(r).execution_pending = r.execution_pending
         /\ MadeRunnable(r).last_processor = r.last_processor
         /\ MadeRunnable(r).wake_pending = r.wake_pending
  BY DEF MadeRunnable, Records

\* make_runnable and wake_thread keep slices and contexts.
LEMMA WakeSlices ==
  ASSUME RecordsInv, RecordsInv', SliceInv, NEW t \in Threads,
         MakeRunnable(t) \/ WakeThread(t)
  PROVE  SliceInv'
<1>1. record[t] \in Records
  BY DEF RecordsInv, Shape
<1>2. /\ Woken(record[t]).execution_pending = record[t].execution_pending
      /\ Woken(record[t]).last_processor = record[t].last_processor
  BY <1>1, MadeRunnableFields DEF Woken, Records
<1>3. \A u \in Threads \ {t} : record'[u] = record[u]
  BY DEF MakeRunnable, WakeThread, SetRecord, SetRecords
<1>4. record'[t] = MadeRunnable(record[t]) \/ record'[t] = Woken(record[t])
  BY DEF MakeRunnable, WakeThread, SetRecord, SetRecords
<1>5. \A u \in Threads :
        /\ record'[u].execution_pending = record[u].execution_pending
        /\ record'[u].last_processor = record[u].last_processor
  <2>1. /\ record'[t].execution_pending = record[t].execution_pending
        /\ record'[t].last_processor = record[t].last_processor
    BY <1>1, <1>2, <1>4, MadeRunnableFields
  <2> QED
    BY <1>3, <2>1
<1>6. /\ Serving
      /\ UNCHANGED <<batch, cursor, stale, processor_contexts, threads>>
  BY DEF MakeRunnable, WakeThread, Polling
<1> QED
  BY <1>5, <1>6, SlicesKept

\* A hold releases contexts of threads without a slice only.
LEMMA SuspendSlices ==
  ASSUME RecordsInv, RecordsInv', SliceInv, Serving, NEW Ts \in SUBSET threads,
         NEW reason \in Reasons, Suspend(Ts, reason)
  PROVE  SliceInv'
<1> DEFINE held == {t \in Ts : CanSuspend(record[t])}
           stopped == {t \in held : SuspendStops(record[t])}
<1>1. \A t \in Threads :
        /\ record[t] \in Records
        /\ record'[t] = IF t \in held THEN Suspended(record[t], reason) ELSE record[t]
  BY DEF RecordsInv, Shape, Suspend, SetRecords
<1>2. ASSUME NEW r \in Records
      PROVE  /\ Suspended(r, reason).execution_pending = r.execution_pending
             /\ Suspended(r, reason).last_processor = r.last_processor
  BY <1>2 DEF Suspended, Records
<1>3. \A p \in Processors :
        \/ processor_contexts'[p] = processor_contexts[p]
        \/ /\ processor_contexts'[p] = NoThread
           /\ ~record[processor_contexts[p]].execution_pending
  BY DEF Suspend, ReleasedContexts
<1> HIDE DEF held
<1>4. \A t \in Threads :
        /\ record'[t].execution_pending = record[t].execution_pending
        /\ record'[t].last_processor = record[t].last_processor
  BY <1>1, <1>2
<1>5. UNCHANGED <<batch, cursor, stale, threads>>
  BY DEF Suspend
<1> QED
  BY <1>3, <1>4, <1>5, SlicesKept

\* Releasing a hold keeps slices and contexts.
LEMMA ResumeSlices ==
  ASSUME RecordsInv, RecordsInv', SliceInv, Serving, NEW Ts \in SUBSET threads,
         NEW reason \in Reasons, Resume(Ts, reason)
  PROVE  SliceInv'
<1> DEFINE freed == {t \in Ts : CanResume(record[t], reason)}
<1>1. \A t \in Threads :
        /\ record[t] \in Records
        /\ record'[t] = IF t \in freed THEN Resumed(record[t], reason) ELSE record[t]
  BY DEF RecordsInv, Shape, Resume, SetRecords
<1>2. ASSUME NEW r \in Records
      PROVE  /\ Resumed(r, reason).execution_pending = r.execution_pending
             /\ Resumed(r, reason).last_processor = r.last_processor
  BY <1>2 DEF Resumed, Records
<1> HIDE DEF freed
<1>3. \A t \in Threads :
        /\ record'[t].execution_pending = record[t].execution_pending
        /\ record'[t].last_processor = record[t].last_processor
  BY <1>1, <1>2
<1>4. UNCHANGED <<batch, cursor, stale, threads, processor_contexts>>
  BY DEF Resume
<1> QED
  BY <1>3, <1>4, SlicesKept

\* Removing threads orphans their slices, apart from those the step completes.
LEMMA RemoveSlices ==
  ASSUME RecordsInv, RecordsInv', SliceInv, Serving, cursor' = cursor,
         NEW Ts \in SUBSET threads, RemoveThreads(Ts),
         NEW done \in SUBSET Processors, \A p \in done : batch[p] \in Ts,
         batch' = [p \in Processors |-> IF p \in done THEN NoThread ELSE batch[p]],
         stale' = Orphaned(Ts) \ done
  PROVE  SliceInv'
<1>1. /\ Ts \subseteq Threads
      /\ NoThread \notin Threads
      /\ ~NewRecord.execution_pending
  BY ThreadsAssumption DEF RecordsInv, Shape, NewRecord
<1>2. \A t \in Threads : record'[t] = IF t \in Ts THEN NewRecord ELSE record[t]
  BY DEF RemoveThreads, SetRecords
<1>3. \A p \in Processors :
        (batch'[p] # NoThread /\ p \notin stale')
          <=> (batch[p] # NoThread /\ batch[p] \notin Ts /\ p \notin stale)
  BY <1>1 DEF Orphaned
<1>4. SlicesAccountedOnce'
  <2>1. ASSUME NEW t \in Threads
        PROVE  record'[t].execution_pending <=>
                 \E p \in Processors : batch'[p] = t /\ p \notin stale'
    <3>1. CASE t \in Ts
      BY <1>1, <1>2, <1>3, <3>1
    <3>2. CASE t \notin Ts
      BY <1>1, <1>2, <1>3, <3>2 DEF SliceInv, SlicesAccountedOnce
    <3> QED
      BY <3>1, <3>2
  <2>2. \A p, q \in Processors :
          (batch'[p] = batch'[q] /\ batch'[p] # NoThread) => p = q
    BY DEF SliceInv, SlicesAccountedOnce
  <2>3. \A t \in Threads : record'[t].wake_pending => record'[t].execution_pending
    BY DEF RecordsInv, GoodRecords, RecordInv
  <2> QED
    BY <2>1, <2>2, <2>3 DEF SlicesAccountedOnce
<1>5. ContextsCurrent'
  <2> SUFFICES ASSUME NEW p \in Processors
               PROVE  /\ processor_contexts'[p] # NoThread =>
                           /\ processor_contexts'[p] \in threads'
                           /\ record'[processor_contexts'[p]].last_processor = p
                      /\ batch'[p] # NoThread /\ p \notin stale'
                           => processor_contexts'[p] = batch'[p]
    BY DEF ContextsCurrent
  <2>1. processor_contexts'[p] = IF /\ processor_contexts[p] \in Ts
                                    /\ record[processor_contexts[p]].last_processor = p
                                 THEN NoThread ELSE processor_contexts[p]
    BY DEF RemoveThreads, ReleasedContexts
  <2>2. processor_contexts[p] # NoThread =>
          /\ processor_contexts[p] \in threads
          /\ record[processor_contexts[p]].last_processor = p
    BY DEF SliceInv, ContextsCurrent
  <2>3. processor_contexts'[p] # NoThread =>
          /\ processor_contexts'[p] = processor_contexts[p]
          /\ processor_contexts[p] \in threads \ Ts
    BY <2>1, <2>2
  <2>4. batch'[p] # NoThread /\ p \notin stale' =>
          processor_contexts[p] = batch[p] /\ batch'[p] = batch[p] /\ batch[p] \notin Ts
    BY <1>3 DEF SliceInv, ContextsCurrent
  <2> QED
    BY <1>1, <1>2, <2>1, <2>2, <2>3, <2>4 DEF RemoveThreads, RecordsInv, Shape
<1>6. \A p \in stale' : batch'[p] # NoThread
  BY <1>1 DEF Orphaned, SliceInv, RecordsInv, Shape
<1> QED
  BY <1>4, <1>5, <1>6 DEF SliceInv, Serving

\* A dispatch starts the only slice of its thread and installs its context.
LEMMA ChooseSlices ==
  ASSUME RecordsInv, RecordsInv', SliceInv, NEW p \in Processors,
         NEW t \in threads, ChooseNext(p, t)
  PROVE  SliceInv'
<1>1. /\ t \in Threads
      /\ t # NoThread
      /\ record[t] \in Records
      /\ record[t].state = "Runnable"
      /\ cursor = p
      /\ cursor # NoProcessor
  BY ThreadsAssumption, BoundsAssumption
     DEF RecordsInv, Shape, GoodRecords, RecordInv, ChooseNext, Processors, NoProcessor
<1>2. /\ \A u \in Threads \ {t} : record'[u] = record[u]
      /\ record'[t] = [record[t] EXCEPT !.queued = FALSE,
                                        !.state = "Running",
                                        !.execution_pending = TRUE,
                                        !.last_processor = p]
  BY <1>1 DEF ChooseNext, SetRecord, SetRecords
<1>3. /\ record'[t].execution_pending
      /\ record'[t].state = "Running"
      /\ record'[t].last_processor = p
  BY <1>1, <1>2 DEF Records
<1>4. \A q \in Processors :
        batch[q] # NoThread => q < p /\ q \notin stale /\ batch[q] # t
  BY <1>1 DEF SliceInv
<1>5. batch[p] = NoThread /\ stale = {}
  BY <1>1, <1>4, BoundsAssumption DEF Processors, SliceInv, RecordsInv, Shape
<1>6. /\ batch' = [batch EXCEPT ![p] = t]
      /\ stale' = stale
      /\ threads' = threads
      /\ batch \in [Processors -> Threads \cup {NoThread}]
  BY DEF ChooseNext, RecordsInv, Shape
<1>7. SlicesAccountedOnce'
  <2>1. ASSUME NEW u \in Threads
        PROVE  record'[u].execution_pending <=>
                 \E q \in Processors : batch'[q] = u /\ q \notin stale'
    <3>1. CASE u = t
      BY <1>3, <1>5, <1>6, <3>1
    <3>2. CASE u # t
      <4>1. record'[u].execution_pending <=> record[u].execution_pending
        BY <1>2, <3>2
      <4>2. record[u].execution_pending <=>
              \E q \in Processors : batch[q] = u /\ q \notin stale
        BY DEF SliceInv, SlicesAccountedOnce
      <4>3. \A q \in Processors : batch'[q] = u <=> batch[q] = u
        BY <1>5, <1>6, <3>2, ThreadsAssumption
      <4> QED
        BY <1>6, <4>1, <4>2, <4>3
    <3> QED
      BY <3>1, <3>2
  <2>2. \A q, s \in Processors :
          (batch'[q] = batch'[s] /\ batch'[q] # NoThread) => q = s
    BY <1>4, <1>6 DEF SliceInv, SlicesAccountedOnce
  <2>3. \A u \in Threads : record'[u].wake_pending => record'[u].execution_pending
    BY DEF RecordsInv, GoodRecords, RecordInv
  <2> QED
    BY <2>1, <2>2, <2>3 DEF SlicesAccountedOnce
<1>8. ContextsCurrent'
  <2> SUFFICES ASSUME NEW q \in Processors
               PROVE  /\ processor_contexts'[q] # NoThread =>
                           /\ processor_contexts'[q] \in threads'
                           /\ record'[processor_contexts'[q]].last_processor = q
                      /\ batch'[q] # NoThread /\ q \notin stale'
                           => processor_contexts'[q] = batch'[q]
    BY DEF ContextsCurrent
  <2>1. processor_contexts'[p] = t
    BY DEF ChooseNext, ReleasedContexts
  <2>2. CASE q = p
    BY <1>3, <1>6, <2>1, <2>2
  <2>3. CASE q # p
    <3>1. /\ processor_contexts[q] # NoThread =>
               /\ processor_contexts[q] \in threads
               /\ record[processor_contexts[q]].last_processor = q
          /\ batch[q] # NoThread /\ q \notin stale => processor_contexts[q] = batch[q]
      BY DEF SliceInv, ContextsCurrent
    <3>2. \/ processor_contexts'[q] = NoThread /\ processor_contexts[q] = t
          \/ processor_contexts'[q] = processor_contexts[q]
      BY <2>3 DEF ChooseNext, ReleasedContexts
    <3>3. processor_contexts[q] = t => processor_contexts'[q] = NoThread
      <4>1. CASE processor_contexts[p] = t
        <5>1. processor_contexts[q] # t
          BY <1>1, <2>3, <3>1, <4>1 DEF SliceInv, ContextsCurrent
        <5> QED
          BY <5>1
      <4>2. CASE processor_contexts[p] # t
        BY <1>1, <2>3, <3>1, <4>2 DEF ChooseNext, ReleasedContexts
      <4> QED
        BY <4>1, <4>2
    <3>4. batch'[q] = batch[q]
      BY <1>6, <2>3
    <3> QED
      BY <1>1, <1>2, <1>4, <1>6, <3>1, <3>2, <3>3, <3>4 DEF RecordsInv, Shape
  <2> QED
    BY <2>2, <2>3
<1>9. cursor' # NoProcessor =>
        \A q \in Processors :
          batch'[q] # NoThread => /\ q < cursor'
                                  /\ q \notin stale'
                                  /\ record'[batch'[q]].state = "Running"
  <2> SUFFICES ASSUME cursor' # NoProcessor, NEW q \in Processors, batch'[q] # NoThread
               PROVE  q < cursor' /\ q \notin stale' /\ record'[batch'[q]].state = "Running"
    OBVIOUS
  <2>1. cursor' = p + 1
    BY DEF ChooseNext, NextProcessor
  <2>2. CASE q = p
    BY <1>3, <1>5, <1>6, <2>1, <2>2 DEF Processors
  <2>3. CASE q # p
    <3>1. batch'[q] = batch[q] /\ batch[q] \in Threads \ {t}
      BY <1>4, <1>6, <2>3
    <3>2. q < p /\ q \notin stale /\ record[batch[q]].state = "Running"
      BY <1>1, <3>1, ThreadsAssumption DEF SliceInv
    <3> QED
      BY <1>2, <1>6, <2>1, <3>1, <3>2, BoundsAssumption DEF Processors
  <2> QED
    BY <2>2, <2>3
<1> QED
  BY <1>5, <1>6, <1>7, <1>8, <1>9 DEF SliceInv

\* What the completion of a slice writes.
LEMMA CompletedFields ==
  ASSUME NEW r \in Records, NEW c, NEW expired
  PROVE  /\ ~AwaitsHost(r, expired).execution_pending
         /\ AwaitsHost(r, expired).last_processor = r.last_processor
         /\ ~Completed(r, c, expired).execution_pending
         /\ Completed(r, c, expired).last_processor = r.last_processor
<1>1. /\ ~AwaitsHost(r, expired).execution_pending
      /\ AwaitsHost(r, expired).last_processor = r.last_processor
  BY DEF AwaitsHost, Records
<1>2. /\ ~Completed(r, c, expired).execution_pending
      /\ Completed(r, c, expired).last_processor = r.last_processor
  BY DEF Completed, MadeRunnable, Blocked, Records
<1> QED
  BY <1>1, <1>2

\* A completion ends the only slice of its thread.
LEMMA CompleteSlices ==
  ASSUME RecordsInv, RecordsInv', SliceInv, NEW p \in Processors,
         NEW c \in Completions, NEW expired \in BOOLEAN, CompleteSlice(p, c, expired)
  PROVE  SliceInv'
<1> DEFINE t == batch[p]
<1>1. /\ t \in Threads /\ t \in threads /\ t # NoThread
      /\ record[t] \in Records /\ record[t].execution_pending
  BY ObeyedSlice, ThreadsAssumption DEF CompleteSlice, GoodRecord
<1>2. /\ \A u \in Threads \ {t} : record'[u] = record[u]
      /\ ~record'[t].execution_pending
      /\ record'[t].last_processor = record[t].last_processor
  <2>1. PICK r, new : /\ r = record[t]
                      /\ new = IF c = "HostAwait" THEN AwaitsHost(r, expired)
                                                  ELSE Completed(r, c, expired)
    OBVIOUS
  <2>2. SetRecord(t, new)
    BY <2>1 DEF CompleteSlice
  <2>3. record' = [u \in Threads |-> IF u = t THEN new ELSE record[u]]
    BY <2>2 DEF SetRecord, SetRecords
  <2>4. r \in Records
    BY <1>1, <2>1
  <2>5. ~new.execution_pending /\ new.last_processor = r.last_processor
    BY <2>1, <2>4, CompletedFields
  <2> QED
    BY <1>1, <2>1, <2>3, <2>5
<1>3. /\ batch' = [batch EXCEPT ![p] = NoThread]
      /\ stale' = stale \ {p}
      /\ cursor' = cursor /\ cursor = NoProcessor
      /\ threads' = threads
      /\ batch \in [Processors -> Threads \cup {NoThread}]
  BY DEF CompleteSlice, FinishSlice, AtSlice, Serving, RecordsInv, Shape
<1>4. p \notin stale
  BY <1>1 DEF SliceInv, SlicesAccountedOnce
<1>5. \A q \in Processors \ {p} : batch[q] = t => q = p
  BY <1>1 DEF SliceInv, SlicesAccountedOnce
<1>6. SlicesAccountedOnce'
  <2>1. ASSUME NEW u \in Threads
        PROVE  record'[u].execution_pending <=>
                 \E q \in Processors : batch'[q] = u /\ q \notin stale'
    <3>1. CASE u = t
      BY <1>1, <1>2, <1>3, <1>5, <3>1
    <3>2. CASE u # t
      <4>1. record'[u].execution_pending <=> record[u].execution_pending
        BY <1>2, <3>2
      <4>2. record[u].execution_pending <=>
              \E q \in Processors : batch[q] = u /\ q \notin stale
        BY DEF SliceInv, SlicesAccountedOnce
      <4>3. \A q \in Processors : batch'[q] = u <=> batch[q] = u
        BY <1>3, <3>2, ThreadsAssumption
      <4> QED
        BY <1>3, <1>4, <4>1, <4>2, <4>3
    <3> QED
      BY <3>1, <3>2
  <2>2. \A q, s \in Processors :
          (batch'[q] = batch'[s] /\ batch'[q] # NoThread) => q = s
    BY <1>3 DEF SliceInv, SlicesAccountedOnce
  <2>3. \A u \in Threads : record'[u].wake_pending => record'[u].execution_pending
    BY DEF RecordsInv, GoodRecords, RecordInv
  <2> QED
    BY <2>1, <2>2, <2>3 DEF SlicesAccountedOnce
<1>7. ContextsCurrent'
  <2> SUFFICES ASSUME NEW q \in Processors
               PROVE  /\ processor_contexts'[q] # NoThread =>
                           /\ processor_contexts'[q] \in threads'
                           /\ record'[processor_contexts'[q]].last_processor = q
                      /\ batch'[q] # NoThread /\ q \notin stale'
                           => processor_contexts'[q] = batch'[q]
    BY DEF ContextsCurrent
  <2>1. /\ processor_contexts[q] # NoThread =>
             /\ processor_contexts[q] \in threads
             /\ record[processor_contexts[q]].last_processor = q
        /\ batch[q] # NoThread /\ q \notin stale => processor_contexts[q] = batch[q]
    BY DEF SliceInv, ContextsCurrent
  <2>2. \/ processor_contexts'[q] = NoThread /\ processor_contexts[q] = t
        \/ processor_contexts'[q] = processor_contexts[q]
    BY DEF CompleteSlice, ReleasedContexts
  <2>3. batch'[q] # NoThread /\ q \notin stale' =>
          q # p /\ batch'[q] = batch[q] /\ q \notin stale /\ batch[q] # t
    BY <1>3, <1>5
  <2> QED
    BY <1>1, <1>2, <1>3, <2>1, <2>2, <2>3 DEF RecordsInv, Shape
<1> QED
  BY <1>3, <1>6, <1>7 DEF SliceInv, RecordsInv, Shape

\* A rejected completion belongs to a slice that lost its thread.
LEMMA DropSlices ==
  ASSUME RecordsInv, SliceInv, NEW p \in Processors, DropSlice(p)
  PROVE  RecordsInv' /\ SliceInv'
<1>1. /\ UNCHANGED <<threads, record, counters, processor_contexts, owed>>
      /\ batch' = [batch EXCEPT ![p] = NoThread]
      /\ stale' = stale \ {p}
      /\ cursor' = cursor /\ cursor = NoProcessor
      /\ batch \in [Processors -> Threads \cup {NoThread}]
      /\ batch[p] \in Threads
  BY DEF DropSlice, FinishSlice, AtSlice, Serving, RecordsInv, Shape
<1>2. RecordsInv'
  BY <1>1 DEF RecordsInv, Shape, GoodRecords, RecordInv, counters
<1>3. p \in stale
  <2>1. ~record[batch[p]].execution_pending
    BY <1>1 DEF DropSlice, SliceRejected, RecordsInv, GoodRecords, NewRecord
  <2> QED
    BY <1>1, <2>1 DEF SliceInv, SlicesAccountedOnce
<1>4. \A q \in Processors : q \notin stale' /\ batch'[q] # NoThread
                             <=> q \notin stale /\ batch[q] # NoThread
  BY <1>1, <1>3
<1>5. SlicesAccountedOnce'
  <2>1. ASSUME NEW u \in Threads
        PROVE  record'[u].execution_pending <=>
                 \E q \in Processors : batch'[q] = u /\ q \notin stale'
    <3>1. \A q \in Processors : batch'[q] = u /\ q \notin stale'
                                 <=> batch[q] = u /\ q \notin stale
      BY <1>1, <1>3, ThreadsAssumption
    <3> QED
      BY <1>1, <3>1 DEF SliceInv, SlicesAccountedOnce
  <2> QED
    BY <1>1, <2>1 DEF SliceInv, SlicesAccountedOnce
<1>6. ContextsCurrent'
  BY <1>1, <1>4 DEF SliceInv, ContextsCurrent
<1> QED
  BY <1>1, <1>2, <1>5, <1>6 DEF SliceInv, RecordsInv, Shape

\* An exec ends the caller's slice and orphans those of its siblings.
LEMMA ExecSlices ==
  ASSUME RecordsInv, RecordsInv', SliceInv, NEW p \in Processors, ExecSlice(p)
  PROVE  SliceInv'
<1> DEFINE t == batch[p]
           Ts == ThreadsOf(ProcessOf[t])
           home == record[t].last_processor
           released == /\ record[t].execution_pending
                       /\ Completed(record[t], "Block", FALSE).state = "Waiting"
           installed == ~released /\ home # NoProcessor /\ processor_contexts[home] = t
           fresh == [NewRecord EXCEPT
                       !.state = "Runnable",
                       !.queued = TRUE,
                       !.last_processor = IF installed THEN home ELSE NoProcessor]
<1>1. /\ t \in Threads /\ t \in threads /\ t # NoThread
      /\ record[t] \in Records
  BY ThreadsAssumption DEF ExecSlice, RecordsInv, Shape
<1>2. \A q \in Processors \ {p} : batch[q] # t
  BY <1>1 DEF SliceInv, SlicesAccountedOnce
<1>3. installed => home \in Processors /\ processor_contexts[home] = t
  BY <1>1 DEF Records
<1>4. t \in Ts /\ Ts \subseteq threads /\ Ts \subseteq Threads
  BY <1>1 DEF ThreadsOf, RecordsInv, Shape
<1>5. /\ ~fresh.execution_pending
      /\ fresh.last_processor = IF installed THEN home ELSE NoProcessor
      /\ ~NewRecord.execution_pending
  BY DEF NewRecord
<1>6. /\ \A u \in Threads :
           record'[u] = IF u = t THEN fresh
                        ELSE IF u \in Ts THEN NewRecord ELSE record[u]
      /\ processor_contexts' = IF installed
                               THEN [ReleasedContexts(Ts) EXCEPT ![home] = t]
                               ELSE ReleasedContexts(Ts)
      /\ threads' = (threads \ Ts) \cup {t}
      /\ batch' = [batch EXCEPT ![p] = NoThread]
      /\ stale' = Orphaned(Ts \ {t}) \ {p}
      /\ cursor' = cursor /\ cursor = NoProcessor
      /\ batch \in [Processors -> Threads \cup {NoThread}]
  BY <1>4 DEF ExecSlice, SetRecords, AtSlice, Serving, RecordsInv, Shape
<1> HIDE DEF fresh, installed, Ts
<1>7. \A q \in Processors :
        (batch'[q] # NoThread /\ q \notin stale')
          <=> (batch[q] # NoThread /\ batch[q] \notin Ts /\ q \notin stale)
  BY <1>2, <1>4, <1>6, ThreadsAssumption DEF Orphaned
<1>8. SlicesAccountedOnce'
  <2>1. ASSUME NEW u \in Threads
        PROVE  record'[u].execution_pending <=>
                 \E q \in Processors : batch'[q] = u /\ q \notin stale'
    <3>1. CASE u \in Ts
      <4>1. ~record'[u].execution_pending
        BY <1>5, <1>6, <3>1
      <4>2. \A q \in Processors : ~(batch'[q] = u /\ q \notin stale')
        BY <1>2, <1>6, <1>7, <3>1, ThreadsAssumption
      <4> QED
        BY <4>1, <4>2
    <3>2. CASE u \notin Ts
      <4>1. record'[u] = record[u]
        BY <1>4, <1>6, <3>2
      <4>2. \A q \in Processors : batch'[q] = u /\ q \notin stale'
                                    <=> batch[q] = u /\ q \notin stale
        BY <1>4, <1>6, <1>7, <3>2, ThreadsAssumption
      <4> QED
        BY <4>1, <4>2 DEF SliceInv, SlicesAccountedOnce
    <3> QED
      BY <3>1, <3>2
  <2>2. \A q, w \in Processors :
          (batch'[q] = batch'[w] /\ batch'[q] # NoThread) => q = w
    BY <1>6 DEF SliceInv, SlicesAccountedOnce
  <2>3. \A u \in Threads : record'[u].wake_pending => record'[u].execution_pending
    BY DEF RecordsInv, GoodRecords, RecordInv
  <2> QED
    BY <2>1, <2>2, <2>3 DEF SlicesAccountedOnce
<1>9. ContextsCurrent'
  <2> SUFFICES ASSUME NEW q \in Processors
               PROVE  /\ processor_contexts'[q] # NoThread =>
                           /\ processor_contexts'[q] \in threads'
                           /\ record'[processor_contexts'[q]].last_processor = q
                      /\ batch'[q] # NoThread /\ q \notin stale'
                           => processor_contexts'[q] = batch'[q]
    BY DEF ContextsCurrent
  <2>1. /\ processor_contexts[q] # NoThread =>
             /\ processor_contexts[q] \in threads
             /\ record[processor_contexts[q]].last_processor = q
        /\ batch[q] # NoThread /\ q \notin stale => processor_contexts[q] = batch[q]
    BY DEF SliceInv, ContextsCurrent
  <2>2. batch'[q] # NoThread /\ q \notin stale' =>
          batch'[q] = batch[q] /\ batch[q] \notin Ts /\ processor_contexts[q] = batch[q]
    BY <1>6, <1>7, <2>1
  <2>3. CASE installed /\ q = home
    <3>1. processor_contexts'[q] = t
      BY <1>6, <2>3 DEF ReleasedContexts
    <3>2. record'[t].last_processor = q /\ t \in threads'
      BY <1>1, <1>5, <1>6, <2>3
    <3> QED
      BY <1>3, <1>4, <2>2, <2>3, <3>1, <3>2
  <2>4. CASE ~(installed /\ q = home)
    <3>1. processor_contexts'[q] = IF /\ processor_contexts[q] \in Ts
                                      /\ record[processor_contexts[q]].last_processor = q
                                   THEN NoThread ELSE processor_contexts[q]
      BY <1>6, <2>4 DEF ReleasedContexts
    <3>2. processor_contexts'[q] # NoThread =>
            /\ processor_contexts'[q] = processor_contexts[q]
            /\ processor_contexts[q] \in threads \ Ts
      BY <2>1, <3>1
    <3> QED
      BY <1>4, <1>6, <2>1, <2>2, <3>1, <3>2 DEF RecordsInv, Shape
  <2> QED
    BY <2>3, <2>4
<1>10. \A q \in stale' : batch'[q] # NoThread
  BY <1>4, <1>6, ThreadsAssumption DEF Orphaned, SliceInv, RecordsInv, Shape
<1> QED
  BY <1>6, <1>8, <1>9, <1>10 DEF SliceInv

\* Beginning a round, or passing a processor by, changes no thread.
LEMMA RoundSlices ==
  ASSUME RecordsInv, SliceInv,
         BeginRound \/ \E p \in Processors : ChooseNothing(p)
  PROVE  RecordsInv' /\ SliceInv'
<1>1. /\ UNCHANGED <<threads, record, counters, processor_contexts, batch, stale, owed>>
      /\ cursor' \in 0 .. NumProcessors
  BY BoundsAssumption DEF BeginRound, ChooseNothing, NextProcessor, NoProcessor, Processors
<1>2. RecordsInv'
  BY <1>1 DEF RecordsInv, Shape, GoodRecords, RecordInv, counters
<1>3. SlicesAccountedOnce' /\ ContextsCurrent'
  BY <1>1 DEF SliceInv, SlicesAccountedOnce, ContextsCurrent
<1>4. cursor' # NoProcessor =>
        \A q \in Processors :
          batch'[q] # NoThread => /\ q < cursor'
                                  /\ q \notin stale'
                                  /\ record'[batch'[q]].state = "Running"
  <2>1. CASE BeginRound
    BY <1>1, <2>1 DEF BeginRound, Polling
  <2>2. ASSUME NEW p \in Processors, ChooseNothing(p)
        PROVE  <1>4!1 => <1>4!2
    BY <1>1, <2>2, BoundsAssumption
       DEF ChooseNothing, NextProcessor, NoProcessor, Processors, SliceInv
  <2> QED
    BY <2>1, <2>2
<1> QED
  BY <1>1, <1>2, <1>3, <1>4 DEF SliceInv

\* Ending a slice with the termination of its thread, or of its whole process.
LEMMA TerminateSlices ==
  ASSUME RecordsInv, SliceInv, NEW p \in Processors, NEW exited \in BOOLEAN,
         TerminateSlice(p, exited)
  PROVE  RecordsInv' /\ SliceInv'
<1> DEFINE t == batch[p]
           Ts == IF exited THEN ThreadsOf(ProcessOf[t]) ELSE {t}
<1>1. t \in threads
  BY DEF TerminateSlice, SliceRejected
<1>2. Ts \in SUBSET threads /\ t \in Ts
  BY <1>1 DEF ThreadsOf
<1>3. /\ RemoveThreads(Ts)
      /\ batch' = [batch EXCEPT ![p] = NoThread]
      /\ stale' = Orphaned(Ts) \ {p}
      /\ cursor' = cursor
      /\ Serving
  BY DEF TerminateSlice, AtSlice
<1> HIDE DEF Ts
<1>4. RecordsInv'
  BY <1>2, <1>3, RemoveRecords DEF RecordsInv, Shape, Orphaned
<1>5. batch' = [q \in Processors |-> IF q \in {p} THEN NoThread ELSE batch[q]]
  BY <1>3 DEF RecordsInv, Shape
<1>6. PICK us, done : us = Ts /\ done = {p}
  OBVIOUS
<1>7. /\ us \in SUBSET threads /\ RemoveThreads(us)
      /\ done \in SUBSET Processors
      /\ \A q \in done : batch[q] \in us
      /\ batch' = [q \in Processors |-> IF q \in done THEN NoThread ELSE batch[q]]
      /\ stale' = Orphaned(us) \ done
      /\ Serving /\ cursor' = cursor
  BY <1>2, <1>3, <1>5, <1>6
<1>8. SliceInv'
  BY <1>4, <1>7, RemoveSlices
<1> QED
  BY <1>4, <1>8

\* remove_thread and remove_process outside a completion.
LEMMA RemoveRequest ==
  ASSUME RecordsInv, SliceInv, NEW Ts \in SUBSET threads, Serving,
         RemoveThreads(Ts), stale' = Orphaned(Ts), UNCHANGED <<batch, cursor>>
  PROVE  RecordsInv' /\ SliceInv'
<1>1. RecordsInv'
  BY RemoveRecords DEF RecordsInv, Shape, Orphaned
<1> DEFINE done == {q \in Processors : FALSE}
<1>2. /\ done \in SUBSET Processors
      /\ \A q \in done : batch[q] \in Ts
      /\ batch' = [q \in Processors |-> IF q \in done THEN NoThread ELSE batch[q]]
      /\ stale' = Orphaned(Ts) \ done
  BY DEF RecordsInv, Shape
<1>3. cursor' = cursor
  OBVIOUS
<1> HIDE DEF done
<1> QED
  BY <1>1, <1>2, <1>3, RemoveSlices

\* In the event poll no thread is executing.
LEMMA PollingIdle ==
  ASSUME RecordsInv, SliceInv, Polling, NEW t \in Threads
  PROVE  ~record[t].execution_pending
  BY ThreadsAssumption DEF SliceInv, SlicesAccountedOnce, Polling

\* Every kernel request keeps the core invariant.
LEMMA RequestStep ==
  ASSUME RecordsInv, SliceInv, Request
  PROVE  RecordsInv' /\ SliceInv'
<1>1. ASSUME NEW t \in Threads, NEW runnable \in BOOLEAN, RegisterThread(t, runnable)
      PROVE  RecordsInv' /\ SliceInv'
  BY <1>1, RegisterRecords, RegisterSlices
<1>2. ASSUME NEW t \in Threads, RemoveThread(t)
      PROVE  RecordsInv' /\ SliceInv'
  BY <1>2, RemoveRequest DEF RemoveThread
<1>3. ASSUME NEW t \in Threads, MakeRunnable(t)
      PROVE  RecordsInv' /\ SliceInv'
  <2>1. ~record[t].execution_pending
    BY <1>3, PollingIdle DEF MakeRunnable
  <2> QED
    BY <1>3, <2>1, MakeRunnableRecords, WakeSlices
<1>4. ASSUME NEW t \in Threads, WakeThread(t)
      PROVE  RecordsInv' /\ SliceInv'
  BY <1>4, WakeRecords, WakeSlices
<1>5. ASSUME NEW t \in Threads, NEW reason \in Reasons, SuspendThread(t, reason)
      PROVE  RecordsInv' /\ SliceInv'
  <2>1. {t} \in SUBSET threads /\ Serving /\ Suspend({t}, reason)
    BY <1>5 DEF SuspendThread
  <2> QED
    BY <2>1, SuspendRecords, SuspendSlices
<1>6. ASSUME NEW t \in Threads, NEW reason \in Reasons, ResumeThread(t, reason)
      PROVE  RecordsInv' /\ SliceInv'
  <2>1. {t} \in SUBSET threads /\ Serving /\ Resume({t}, reason)
    BY <1>6 DEF ResumeThread
  <2> QED
    BY <2>1, ResumeRecords, ResumeSlices
<1>7. ASSUME NEW p \in Processes, RemoveProcess(p)
      PROVE  RecordsInv' /\ SliceInv'
  BY <1>7, RemoveRequest DEF RemoveProcess, ThreadsOf
<1>8. ASSUME NEW p \in Processes, SuspendProcess(p)
      PROVE  RecordsInv' /\ SliceInv'
  <2>1. ThreadsOf(p) \in SUBSET threads /\ Serving /\ Suspend(ThreadsOf(p), "Process")
    BY <1>8 DEF SuspendProcess, ThreadsOf
  <2>2. "Process" \in Reasons
    BY DEF Reasons
  <2> QED
    BY <2>1, <2>2, SuspendRecords, SuspendSlices
<1>9. ASSUME NEW p \in Processes, ResumeProcess(p)
      PROVE  RecordsInv' /\ SliceInv'
  <2>1. ThreadsOf(p) \in SUBSET threads /\ Serving /\ Resume(ThreadsOf(p), "Process")
    BY <1>9 DEF ResumeProcess, ThreadsOf
  <2>2. "Process" \in Reasons
    BY DEF Reasons
  <2> QED
    BY <2>1, <2>2, ResumeRecords, ResumeSlices
<1> QED
  BY <1>1, <1>2, <1>3, <1>4, <1>5, <1>6, <1>7, <1>8, <1>9 DEF Request

\* So does every step of the dispatch loop.
LEMMA DispatchStep ==
  ASSUME RecordsInv, SliceInv, Dispatch
  PROVE  RecordsInv' /\ SliceInv'
<1>1. ASSUME NEW p \in Processors, NEW t \in threads, ChooseNext(p, t)
      PROVE  RecordsInv' /\ SliceInv'
  BY <1>1, ChooseRecords, ChooseSlices
<1> QED
  BY <1>1, RoundSlices DEF Dispatch

\* So does every completion.
LEMMA CompletionStep ==
  ASSUME RecordsInv, SliceInv, Completion
  PROVE  RecordsInv' /\ SliceInv'
<1>1. ASSUME NEW p \in Processors, NEW c \in Completions, NEW expired \in BOOLEAN,
             CompleteSlice(p, c, expired)
      PROVE  RecordsInv' /\ SliceInv'
  BY <1>1, CompleteRecords, CompleteSlices
<1>2. ASSUME NEW p \in Processors, ExecSlice(p)
      PROVE  RecordsInv' /\ SliceInv'
  BY <1>2, ExecRecords, ExecSlices
<1> QED
  BY <1>1, <1>2, DropSlices, TerminateSlices DEF Completion

\* So does a stuttering step.
LEMMA StutterStep ==
  ASSUME RecordsInv, SliceInv, UNCHANGED vars
  PROVE  RecordsInv' /\ SliceInv'
<1>1. RecordsInv'
  BY DEF RecordsInv, Shape, GoodRecords, RecordInv, vars, counters
<1>2. SliceInv'
  BY DEF SliceInv, SlicesAccountedOnce, ContextsCurrent, vars
<1> QED
  BY <1>1, <1>2

\* The initial state satisfies it.
LEMMA InitCore == Init => RecordsInv /\ SliceInv
<1> SUFFICES ASSUME Init PROVE RecordsInv /\ SliceInv
  OBVIOUS
<1>1. RecordsInv
  <2>1. GoodRecord(NewRecord)
    BY NewRecordGood
  <2> QED
    BY <2>1, BoundsAssumption
       DEF Init, RecordsInv, Shape, GoodRecords, GoodRecord, NoProcessor
<1>2. SliceInv
  BY ThreadsAssumption
     DEF Init, SliceInv, SlicesAccountedOnce, ContextsCurrent, NewRecord
<1> QED
  BY <1>1, <1>2

\* The core of the inductive invariant: shapes, records, slices and contexts.
LEMMA CoreInvariant == Spec => [](RecordsInv /\ SliceInv)
<1>1. RecordsInv /\ SliceInv /\ [Next]_vars => RecordsInv' /\ SliceInv'
  BY RequestStep, DispatchStep, CompletionStep, StutterStep DEF Next
<1> QED
  BY <1>1, InitCore, PTL DEF Spec

-----------------------------------------------------------------------------
(* The theorems.  CoreInvariant gives the properties of records, slices    *)
(* and contexts; the counters and the wakes each need an induction of      *)
(* their own on top of it.                                                 *)

(* Consequences of the core invariant.                                     *)

\* Run queue membership, execution, holds and resumptions agree in every record.
THEOREM HoldsTheorem == Spec => []HoldsRespected
<1>1. RecordsInv => HoldsRespected
  BY DEF RecordsInv, GoodRecords, RecordInv, HoldsRespected
<1> QED
  BY <1>1, CoreInvariant, PTL

\* A host ticket keeps its thread out of the run queues through every hold.
THEOREM HostTicketTheorem == Spec => []HostTicketOwnsThread
<1>1. RecordsInv => HostTicketOwnsThread
  BY DEF RecordsInv, GoodRecords, RecordInv, HostTicketOwnsThread
<1> QED
  BY <1>1, CoreInvariant, PTL

\* No held or blocked thread may continue on the host.
THEOREM HostContinuationTheorem == Spec => []HostContinuationCurrent
<1>1. RecordsInv => HostContinuationCurrent
  BY DEF RecordsInv, GoodRecords, RecordInv, HostContinuationCurrent
<1> QED
  BY <1>1, CoreInvariant, PTL

\* Every slice in flight is accounted exactly once.
THEOREM SlicesTheorem == Spec => []SlicesAccountedOnce
<1>1. SliceInv => SlicesAccountedOnce
  BY DEF SliceInv
<1> QED
  BY <1>1, CoreInvariant, PTL

\* The installed contexts are those of registered threads, at most one each.
THEOREM ContextsTheorem == Spec => []ContextsCurrent
<1>1. SliceInv => ContextsCurrent
  BY DEF SliceInv
<1> QED
  BY <1>1, CoreInvariant, PTL

\* A slice that complete_slice obeys has not lost its thread.
LEMMA ObeyedNotStale ==
  ASSUME RecordsInv, SliceInv, NEW p \in Processors, ~SliceRejected(batch[p])
  PROVE  p \notin stale
<1>1. batch[p] \in Threads /\ record[batch[p]].execution_pending
  BY ObeyedSlice
<1>2. PICK q \in Processors : batch[q] = batch[p] /\ q \notin stale
  BY <1>1 DEF SliceInv, SlicesAccountedOnce
<1>3. q = p
  BY <1>1, <1>2, ThreadsAssumption DEF SliceInv, SlicesAccountedOnce
<1> QED
  BY <1>2, <1>3

\* Completing a slice that lost its thread is not charged to the new one.
THEOREM StaleSliceTheorem == Spec => StaleSliceHarmless
<1> DEFINE Harmless ==
      \A p \in Processors :
        (p \in stale /\ batch[p] # NoThread /\ batch'[p] = NoThread)
          => \/ UNCHANGED <<threads, record, counters, processor_contexts>>
             \/ /\ \A t \in threads' :
                     ProcessOf[t] = ProcessOf[batch[p]] => t = batch[p]
                /\ \A t \in Threads :
                     ProcessOf[t] # ProcessOf[batch[p]] => record'[t] = record[t]
<1>1. ASSUME RecordsInv, SliceInv, Next
      PROVE  Harmless
  <2> SUFFICES ASSUME NEW p \in Processors, p \in stale,
                      batch[p] # NoThread, batch'[p] = NoThread
               PROVE  \/ UNCHANGED <<threads, record, counters, processor_contexts>>
                      \/ /\ \A t \in threads' :
                              ProcessOf[t] = ProcessOf[batch[p]] => t = batch[p]
                         /\ \A t \in Threads :
                              ProcessOf[t] # ProcessOf[batch[p]] => record'[t] = record[t]
    OBVIOUS
  <2>0. batch \in [Processors -> Threads \cup {NoThread}] /\ SliceRejected(batch[p])
    BY <1>1, ObeyedNotStale DEF RecordsInv, Shape
  <2>1. CASE Request
    <3>1. batch' = batch
      BY <2>1 DEF Request, RegisterThread, RemoveThread, MakeRunnable, WakeThread,
         SuspendThread, ResumeThread, Suspend, Resume, RemoveProcess,
         SuspendProcess, ResumeProcess
    <3> QED
      BY <3>1
  <2>2. CASE Dispatch
    <3>1. ASSUME NEW q \in Processors, NEW t \in threads, ChooseNext(q, t)
          PROVE  FALSE
      <4>1. batch'[p] = IF p = q THEN t ELSE batch[p]
        BY <2>0, <3>1 DEF ChooseNext
      <4>2. t # NoThread
        BY <1>1, ThreadsAssumption DEF RecordsInv, Shape
      <4> QED
        BY <4>1, <4>2
    <3>2. CASE BeginRound \/ \E q \in Processors : ChooseNothing(q)
      BY <3>2 DEF BeginRound, ChooseNothing
    <3> QED
      BY <2>2, <3>1, <3>2 DEF Dispatch
  <2>3. CASE Completion
    <3>1. PICK q \in Processors :
            \/ DropSlice(q)
            \/ \E c \in Completions, expired \in BOOLEAN : CompleteSlice(q, c, expired)
            \/ \E exited \in BOOLEAN : TerminateSlice(q, exited)
            \/ ExecSlice(q)
      BY <2>3 DEF Completion
    <3>2. batch' = [batch EXCEPT ![q] = NoThread]
      BY <3>1 DEF DropSlice, CompleteSlice, FinishSlice, TerminateSlice, ExecSlice
    <3>3. q = p
      BY <2>0, <3>2
    <3>4. DropSlice(p) \/ TerminateSlice(p, TRUE) \/ ExecSlice(p)
      BY <2>0, <3>1, <3>3 DEF CompleteSlice, TerminateSlice
    <3>5. CASE DropSlice(p)
      BY <3>5 DEF DropSlice
    <3>6. CASE TerminateSlice(p, TRUE)
      BY <3>6 DEF TerminateSlice, RemoveThreads, SetRecords, ThreadsOf
    <3>7. CASE ExecSlice(p)
      BY <3>7 DEF ExecSlice, SetRecords, ThreadsOf
    <3> QED
      BY <3>4, <3>5, <3>6, <3>7
  <2> QED
    BY <1>1, <2>1, <2>2, <2>3 DEF Next
<1>2. RecordsInv /\ SliceInv /\ [Next]_vars => [Harmless]_vars
  BY <1>1
<1> QED
  BY <1>2, CoreInvariant, PTL DEF Spec, StaleSliceHarmless

-----------------------------------------------------------------------------
(* No wake is lost.                                                        *)

OwedRecord(r) == IF r.execution_pending THEN r.wake_pending
                 ELSE r.queued \/ (r.suspend_count # 0 /\ r.resume_runnable)

\* make_runnable on a thread that is not executing leaves it queued or to be resumed.
LEMMA MadeRunnableOwed ==
  ASSUME NEW r, GoodRecord(r), ~r.execution_pending
  PROVE  OwedRecord(MadeRunnable(r))
  BY DEF GoodRecord, RecordInv, Records, MadeRunnable, OwedRecord

\* So does a wake the thread accepts, unless the completion has yet to see it.
LEMMA WokenOwed ==
  ASSUME NEW r, GoodRecord(r), ~r.host_await
  PROVE  OwedRecord(Woken(r))
<1>1. CASE r.execution_pending
  BY <1>1 DEF GoodRecord, Records, Woken, OwedRecord
<1>2. CASE ~r.execution_pending
  BY <1>2, MadeRunnableOwed DEF Woken
<1> QED
  BY <1>1, <1>2

\* Holds, releases and completions keep what is owed.
LEMMA HoldsOwed ==
  ASSUME NEW r, GoodRecord(r), OwedRecord(r), NEW reason \in Reasons
  PROVE  /\ OwedRecord(Suspended(r, reason))
         /\ CanResume(r, reason) => OwedRecord(Resumed(r, reason))
<1>1. r \in Records /\ RecordInv(r)
  BY DEF GoodRecord
<1>2. OwedRecord(Suspended(r, reason))
  <2>1. r.suspend_count + 1 # 0
    BY <1>1, BoundsAssumption DEF Records
  <2> QED
    BY <1>1, <2>1 DEF RecordInv, Records, Suspended, IsRunnableState, OwedRecord
<1>3. CanResume(r, reason) => OwedRecord(Resumed(r, reason))
  <2>1. r.suspend_count # 1 => r.suspend_count - 1 # 0
    BY <1>1, BoundsAssumption DEF Records
  <2>2. CanResume(r, reason) => r.suspend_count # 0
    BY <1>1 DEF CanResume, RecordInv, Records, Reasons
  <2> QED
    BY <1>1, <2>1, <2>2 DEF RecordInv, Records, Resumed, OwedRecord
<1> QED
  BY <1>2, <1>3

\* A completion that does not hand the thread to the host keeps a pending wake.
LEMMA CompletedOwed ==
  ASSUME NEW r, GoodRecord(r), OwedRecord(r), r.execution_pending, NEW c, NEW expired
  PROVE  OwedRecord(Completed(r, c, expired))
  BY DEF GoodRecord, RecordInv, Records, Completed, MadeRunnable, Blocked, OwedRecord

OwedInv == \A t \in owed : OwedRecord(record[t])

\* Every step keeps what is owed.
LEMMA OwedStep ==
  ASSUME RecordsInv, SliceInv, RecordsInv', OwedInv, [Next]_vars
  PROVE  OwedInv'
<1>0. /\ owed \subseteq threads /\ threads \subseteq Threads
      /\ \A t \in Threads : GoodRecord(record[t])
  BY DEF RecordsInv, Shape, GoodRecords, GoodRecord
<1>1. ASSUME NEW t \in Threads, NEW r, SetRecord(t, r), threads' = threads,
             owed' \subseteq owed \cup {t}, t \in owed' => OwedRecord(r)
      PROVE  OwedInv'
  BY <1>0, <1>1 DEF SetRecord, SetRecords, OwedInv
<1>2. ASSUME NEW t \in Threads, NEW runnable \in BOOLEAN, RegisterThread(t, runnable)
      PROVE  OwedInv'
  BY <1>0, <1>2 DEF RegisterThread, SetRecord, SetRecords, OwedInv
<1>3. ASSUME NEW Ts, RemoveThreads(Ts)
      PROVE  OwedInv'
  BY <1>0, <1>3 DEF RemoveThreads, SetRecords, OwedInv
<1>4. ASSUME NEW t \in Threads, MakeRunnable(t)
      PROVE  OwedInv'
  BY <1>0, <1>1, <1>4, MadeRunnableOwed, PollingIdle DEF MakeRunnable
<1>5. ASSUME NEW t \in Threads, WakeThread(t)
      PROVE  OwedInv'
  <2>1. CASE record[t].host_await
    <3>1. record' = record /\ owed' = owed
      BY <1>0, <1>5, <2>1 DEF WakeThread, SetRecord, SetRecords, Woken, RecordsInv, Shape
    <3> QED
      BY <3>1 DEF OwedInv
  <2>2. CASE ~record[t].host_await
    BY <1>0, <1>1, <1>5, <2>2, WokenOwed DEF WakeThread
  <2> QED
    BY <2>1, <2>2
<1>6. ASSUME NEW Ts \in SUBSET threads, NEW reason \in Reasons, Suspend(Ts, reason)
      PROVE  OwedInv'
  <2> SUFFICES ASSUME NEW t \in owed PROVE OwedRecord(record'[t])
    BY <1>6 DEF Suspend, OwedInv
  <2>1. \/ record'[t] = record[t]
        \/ record'[t] = Suspended(record[t], reason)
    BY <1>0, <1>6 DEF Suspend, SetRecords
  <2> QED
    BY <1>0, <2>1, HoldsOwed DEF OwedInv
<1>7. ASSUME NEW Ts \in SUBSET threads, NEW reason \in Reasons, Resume(Ts, reason)
      PROVE  OwedInv'
  <2> SUFFICES ASSUME NEW t \in owed PROVE OwedRecord(record'[t])
    BY <1>7 DEF Resume, OwedInv
  <2>1. \/ record'[t] = record[t]
        \/ /\ CanResume(record[t], reason)
           /\ record'[t] = Resumed(record[t], reason)
    BY <1>0, <1>7 DEF Resume, SetRecords
  <2> QED
    BY <1>0, <2>1, HoldsOwed DEF OwedInv
<1>8. ASSUME NEW p \in Processors, NEW t \in threads, ChooseNext(p, t)
      PROVE  OwedInv'
  BY <1>0, <1>1, <1>8 DEF ChooseNext
<1>9. ASSUME NEW p \in Processors, NEW c \in Completions, NEW expired \in BOOLEAN,
             CompleteSlice(p, c, expired)
      PROVE  OwedInv'
  <2> DEFINE t == batch[p]
  <2>1. t \in Threads /\ GoodRecord(record[t]) /\ record[t].execution_pending
    BY <1>9, ObeyedSlice DEF CompleteSlice
  <2>2. CASE c = "HostAwait"
    <3>1. SetRecord(t, AwaitsHost(record[t], expired)) /\ owed' = owed \ {t}
          /\ threads' = threads
      BY <1>9, <2>2 DEF CompleteSlice
    <3> QED
      BY <1>1, <2>1, <3>1
  <2>3. CASE c # "HostAwait"
    <3>1. SetRecord(t, Completed(record[t], c, expired)) /\ owed' = owed
          /\ threads' = threads
      BY <1>9, <2>3 DEF CompleteSlice
    <3>2. t \in owed => OwedRecord(Completed(record[t], c, expired))
      BY <2>1, CompletedOwed DEF OwedInv
    <3> QED
      BY <1>1, <2>1, <3>1, <3>2
  <2> QED
    BY <2>2, <2>3
<1>10. ASSUME NEW p \in Processors, ExecSlice(p)
       PROVE  OwedInv'
  <2> DEFINE t == batch[p]
             Ts == ThreadsOf(ProcessOf[t])
  <2>1. t \in threads
    BY <1>10 DEF ExecSlice
  <2>2. owed' = owed \ (Ts \ {t})
    BY <1>10 DEF ExecSlice
  <2>3. \A u \in Threads \ Ts : record'[u] = record[u]
    BY <1>10 DEF ExecSlice, SetRecords
  <2>4. record'[t].queued /\ ~record'[t].execution_pending
    BY <1>0, <1>10, <2>1 DEF ExecSlice, SetRecords, NewRecord, ThreadsOf
  <2> QED
    BY <1>0, <2>2, <2>3, <2>4 DEF OwedInv, OwedRecord
<1>11. CASE Request
  BY <1>2, <1>3, <1>4, <1>5, <1>6, <1>7, <1>11
     DEF Request, RemoveThread, RemoveProcess, SuspendThread, SuspendProcess,
         ResumeThread, ResumeProcess, ThreadsOf, Reasons
<1>12. CASE Dispatch
  BY <1>8, <1>12 DEF Dispatch, BeginRound, ChooseNothing, OwedInv
<1>13. CASE Completion
  BY <1>3, <1>9, <1>10, <1>13 DEF Completion, DropSlice, TerminateSlice, OwedInv
<1>14. CASE UNCHANGED vars
  BY <1>14 DEF vars, OwedInv
<1> QED
  BY <1>11, <1>12, <1>13, <1>14 DEF Next

\* A wake is never lost between a hold, a release and the slice in flight.
THEOREM NoLostWakeTheorem == Spec => []NoLostWake
<1>1. Init => OwedInv
  BY DEF Init, OwedInv
<1>2. RecordsInv /\ SliceInv /\ RecordsInv' /\ OwedInv /\ [Next]_vars => OwedInv'
  BY OwedStep
<1>3. OwedInv => NoLostWake
  BY DEF OwedInv, OwedRecord, NoLostWake
<1> QED
  BY <1>1, <1>2, <1>3, CoreInvariant, PTL DEF Spec

-----------------------------------------------------------------------------
(* The counters agree with the records.                                    *)

QueueCounts ==
  /\ runnable_count = Cardinality(QueuedThreads)
  /\ host_await_count = Cardinality(AwaitingThreads)
  /\ \A p \in Processes :
       process_runnable_counts[p] = Cardinality(RunnableThreads(p))

WaitingCount == waiting_count = Cardinality(WaitingThreads)

\* The counters kept beside a field follow every write of records.
LEMMA QueueCountsWritten ==
  ASSUME Shape, QueueCounts, NEW Ts \in SUBSET Threads, NEW new, SetRecords(Ts, new)
  PROVE  QueueCounts'
<1>1. \A t \in Threads : record'[t] = IF t \in Ts THEN new[t] ELSE record[t]
  BY DEF SetRecords
<1>2. runnable_count' = Cardinality(QueuedThreads')
  <2>1. /\ QueuedThreads' \ QueuedThreads
             = {t \in Ts : new[t].queued /\ ~record[t].queued}
        /\ QueuedThreads \ QueuedThreads'
             = {t \in Ts : record[t].queued /\ ~new[t].queued}
    BY <1>1 DEF QueuedThreads
  <2>2. IsFiniteSet(QueuedThreads) /\ IsFiniteSet(QueuedThreads')
    BY ThreadSetFinite DEF QueuedThreads
  <2> QED
    BY <2>1, <2>2, CardinalityStep DEF SetRecords, QueueCounts
<1>3. host_await_count' = Cardinality(AwaitingThreads')
  <2>1. /\ AwaitingThreads' \ AwaitingThreads
             = {t \in Ts : new[t].host_await /\ ~record[t].host_await}
        /\ AwaitingThreads \ AwaitingThreads'
             = {t \in Ts : record[t].host_await /\ ~new[t].host_await}
    BY <1>1 DEF AwaitingThreads
  <2>2. IsFiniteSet(AwaitingThreads) /\ IsFiniteSet(AwaitingThreads')
    BY ThreadSetFinite DEF AwaitingThreads
  <2> QED
    BY <2>1, <2>2, CardinalityStep DEF SetRecords, QueueCounts
<1>4. ASSUME NEW p \in Processes
      PROVE  process_runnable_counts'[p] = Cardinality(RunnableThreads(p)')
  <2> DEFINE In == {t \in Ts : /\ ProcessOf[t] = p
                               /\ IsRunnableState(new[t].state)
                               /\ ~IsRunnableState(record[t].state)}
             Out == {t \in Ts : /\ ProcessOf[t] = p
                                /\ IsRunnableState(record[t].state)
                                /\ ~IsRunnableState(new[t].state)}
             Before == RunnableThreads(p)
             After == {t \in Threads : ProcessOf[t] = p /\ IsRunnableState(record'[t].state)}
  <2>1. After \ Before = In /\ Before \ After = Out
    BY <1>1 DEF RunnableThreads, IsRunnableState
  <2>2. IsFiniteSet(Before) /\ IsFiniteSet(After)
    BY ThreadSetFinite DEF RunnableThreads
  <2>3. process_runnable_counts'[p]
          = process_runnable_counts[p] + Cardinality(In) - Cardinality(Out)
    BY DEF SetRecords
  <2>4. process_runnable_counts[p] = Cardinality(Before)
    BY DEF QueueCounts
  <2>5. RunnableThreads(p)' = After
    BY DEF RunnableThreads
  <2> HIDE DEF In, Out, Before, After
  <2> QED
    BY <2>1, <2>2, <2>3, <2>4, <2>5, CardinalityStep
<1> QED
  BY <1>2, <1>3, <1>4 DEF QueueCounts

\* Every step keeps the counters that follow a field.
LEMMA QueueCountsStep ==
  ASSUME RecordsInv, QueueCounts, [Next]_vars
  PROVE  QueueCounts'
<1>0. Shape /\ threads \subseteq Threads
  BY DEF RecordsInv, Shape
<1>1. ASSUME NEW t \in Threads, NEW r, SetRecord(t, r)
      PROVE  QueueCounts'
  BY <1>0, <1>1, QueueCountsWritten DEF SetRecord
<1>2. ASSUME NEW Ts \in SUBSET threads, NEW reason, Suspend(Ts, reason) \/ Resume(Ts, reason)
      PROVE  QueueCounts'
  <2> DEFINE held == {t \in Ts : CanSuspend(record[t])}
             freed == {t \in Ts : CanResume(record[t], reason)}
  <2>1. held \in SUBSET Threads /\ freed \in SUBSET Threads
    BY <1>0
  <2>2. \/ SetRecords(held, [t \in held |-> Suspended(record[t], reason)])
        \/ SetRecords(freed, [t \in freed |-> Resumed(record[t], reason)])
    BY <1>2 DEF Suspend, Resume
  <2> HIDE DEF held, freed
  <2> QED
    BY <1>0, <2>1, <2>2, QueueCountsWritten
<1>3. ASSUME NEW Ts \in SUBSET threads, RemoveThreads(Ts)
      PROVE  QueueCounts'
  <2>1. SetRecords(Ts, [t \in Ts |-> NewRecord])
    BY <1>3 DEF RemoveThreads
  <2> QED
    BY <1>0, <2>1, QueueCountsWritten
<1>4. ASSUME UNCHANGED <<record, runnable_count, host_await_count,
                         process_runnable_counts>>
      PROVE  QueueCounts'
  BY <1>4 DEF QueueCounts, QueuedThreads, AwaitingThreads, RunnableThreads
<1>5. CASE Request
  BY <1>1, <1>2, <1>3, <1>5
     DEF Request, RegisterThread, RemoveThread, RemoveProcess, MakeRunnable, WakeThread,
         SuspendThread, SuspendProcess, ResumeThread, ResumeProcess, ThreadsOf
<1>6. CASE Dispatch
  BY <1>0, <1>1, <1>4, <1>6
     DEF Dispatch, BeginRound, ChooseNext, ChooseNothing, counters
<1>7. CASE Completion
  <2>1. ASSUME NEW p \in Processors, NEW c \in Completions, NEW expired \in BOOLEAN,
               CompleteSlice(p, c, expired)
        PROVE  QueueCounts'
    <3>1. batch[p] \in Threads
      BY <2>1, ObeyedSlice DEF CompleteSlice
    <3> QED
      BY <1>1, <2>1, <3>1 DEF CompleteSlice
  <2>2. ASSUME NEW p \in Processors, NEW exited \in BOOLEAN, TerminateSlice(p, exited)
        PROVE  QueueCounts'
    <3>1. batch[p] \in threads
      BY <2>2 DEF TerminateSlice, SliceRejected
    <3> QED
      BY <1>3, <2>2, <3>1 DEF TerminateSlice, ThreadsOf
  <2>3. ASSUME NEW p \in Processors, ExecSlice(p)
        PROVE  QueueCounts'
    <3> DEFINE Ts == ThreadsOf(ProcessOf[batch[p]])
    <3>1. PICK new : SetRecords(Ts, new)
      BY <2>3 DEF ExecSlice
    <3>2. Ts \in SUBSET Threads
      BY <1>0 DEF ThreadsOf
    <3> QED
      BY <1>0, <3>1, <3>2, QueueCountsWritten
  <2>4. ASSUME NEW p \in Processors, DropSlice(p)
        PROVE  QueueCounts'
    BY <1>4, <2>4 DEF DropSlice, counters
  <2> QED
    BY <1>7, <2>1, <2>2, <2>3, <2>4 DEF Completion
<1>8. CASE UNCHANGED vars
  BY <1>4, <1>8 DEF vars, counters
<1> QED
  BY <1>5, <1>6, <1>7, <1>8 DEF Next

(***************************************************************************)
(* waiting_count_ is adjusted by each operation separately, so each needs  *)
(* its own account of the threads that start and stop waiting.             *)
(***************************************************************************)
LEMMA WaitingAdjusted ==
  ASSUME RecordsInv, RecordsInv', WaitingCount, NEW gained, NEW lost,
         gained = WaitingThreads' \ WaitingThreads,
         lost = WaitingThreads \ WaitingThreads',
         waiting_count' = waiting_count + Cardinality(gained) - Cardinality(lost)
  PROVE  WaitingCount'
<1>1. WaitingThreads \subseteq Threads /\ WaitingThreads' \subseteq Threads
  BY DEF WaitingThreads, RecordsInv, Shape
<1>2. IsFiniteSet(WaitingThreads) /\ IsFiniteSet(WaitingThreads')
  BY <1>1, ThreadSetFinite
<1>3. waiting_count = Cardinality(WaitingThreads)
  BY DEF WaitingCount
<1>4. waiting_count' = Cardinality(WaitingThreads')
  BY <1>2, <1>3, CardinalityStep
<1> QED
  BY <1>4 DEF WaitingCount

\* No thread starts waiting, those of lost stop.
LEMMA WaitingEnds ==
  ASSUME RecordsInv, RecordsInv', WaitingCount, NEW lost \in SUBSET WaitingThreads,
         WaitingThreads' = WaitingThreads \ lost,
         waiting_count' = waiting_count - Cardinality(lost)
  PROVE  WaitingCount'
<1> DEFINE gained == WaitingThreads' \ WaitingThreads
<1>1. Cardinality(gained) = 0
  <2>1. gained = {}
    OBVIOUS
  <2> QED
    BY <2>1, FS_EmptySet
<1>2. lost = WaitingThreads \ WaitingThreads'
  OBVIOUS
<1>3. waiting_count' = waiting_count + Cardinality(gained) - Cardinality(lost)
  <2>1. waiting_count \in Int /\ Cardinality(lost) \in Nat
    BY ThreadSetFinite DEF WaitingThreads, RecordsInv, Shape
  <2> QED
    BY <1>1, <2>1
<1> HIDE DEF gained
<1> QED
  BY <1>2, <1>3, WaitingAdjusted DEF gained

\* No thread stops waiting, those of gained start.
LEMMA WaitingBegins ==
  ASSUME RecordsInv, RecordsInv', WaitingCount, NEW gained \in SUBSET Threads,
         gained \cap WaitingThreads = {},
         WaitingThreads' = WaitingThreads \cup gained,
         waiting_count' = waiting_count + Cardinality(gained)
  PROVE  WaitingCount'
<1> DEFINE lost == WaitingThreads \ WaitingThreads'
<1>1. Cardinality(lost) = 0
  <2>1. lost = {}
    OBVIOUS
  <2> QED
    BY <2>1, FS_EmptySet
<1>2. gained = WaitingThreads' \ WaitingThreads
  OBVIOUS
<1>3. waiting_count' = waiting_count + Cardinality(gained) - Cardinality(lost)
  <2>1. waiting_count \in Int /\ Cardinality(gained) \in Nat
    BY ThreadSetFinite DEF RecordsInv, Shape
  <2> QED
    BY <1>1, <2>1
<1> HIDE DEF lost
<1> QED
  BY <1>2, <1>3, WaitingAdjusted DEF lost

\* An operation on one registered thread, by what it does to that thread's wait.
LEMMA WaitingOne ==
  ASSUME RecordsInv, RecordsInv', WaitingCount, NEW t \in threads, threads' = threads,
         \A u \in Threads \ {t} : record'[u] = record[u],
         waiting_count' =
           IF record[t].state = "Waiting"
           THEN IF record'[t].state = "Waiting" THEN waiting_count ELSE waiting_count - 1
           ELSE IF record'[t].state = "Waiting" THEN waiting_count + 1 ELSE waiting_count
  PROVE  WaitingCount'
<1>0. threads \subseteq Threads
  BY DEF RecordsInv, Shape
<1>1. Cardinality({t}) = 1
  BY FS_Singleton
<1>2. CASE record[t].state = "Waiting" /\ record'[t].state # "Waiting"
  <2>1. {t} \in SUBSET WaitingThreads /\ WaitingThreads' = WaitingThreads \ {t}
    BY <1>0, <1>2 DEF WaitingThreads
  <2> QED
    BY <1>1, <1>2, <2>1, WaitingEnds
<1>3. CASE record[t].state # "Waiting" /\ record'[t].state = "Waiting"
  <2>1. /\ {t} \in SUBSET Threads
        /\ {t} \cap WaitingThreads = {}
        /\ WaitingThreads' = WaitingThreads \cup {t}
    BY <1>0, <1>3 DEF WaitingThreads
  <2> QED
    BY <1>1, <1>3, <2>1, WaitingBegins
<1>4. CASE record[t].state = "Waiting" <=> record'[t].state = "Waiting"
  <2>1. WaitingThreads' = WaitingThreads
    BY <1>0, <1>4 DEF WaitingThreads
  <2> QED
    BY <1>4, <2>1 DEF WaitingCount
<1> QED
  BY <1>2, <1>3, <1>4

\* What the operations on one record do to its wait.
LEMMA WakeWaits ==
  ASSUME NEW r, GoodRecord(r)
  PROVE  /\ MadeRunnable(r).state = "Waiting" <=> r.state = "Waiting" /\ ~EndsWait(r)
         /\ EndsWait(r) => r.state = "Waiting"
         /\ Woken(r).state = "Waiting" <=>
              /\ r.state = "Waiting"
              /\ ~(~r.host_await /\ ~r.execution_pending /\ EndsWait(r))
<1>1. /\ MadeRunnable(r).state = "Waiting" <=> r.state = "Waiting" /\ ~EndsWait(r)
      /\ EndsWait(r) => r.state = "Waiting"
  BY DEF GoodRecord, RecordInv, Records, MadeRunnable, EndsWait
<1>2. r.execution_pending => [r EXCEPT !.resume_runnable = @ \/ r.suspend_count # 0,
                                       !.wake_pending = TRUE].state = r.state
  BY DEF GoodRecord, Records
<1> QED
  BY <1>1, <1>2 DEF Woken

\* A hold makes a thread wait; a release ends the wait exactly when ResumeReleases says.
LEMMA HoldWaits ==
  ASSUME NEW r, GoodRecord(r), NEW reason \in Reasons
  PROVE  /\ Suspended(r, reason).state = "Waiting"
         /\ SuspendStops(r) <=> r.state # "Waiting"
         /\ CanResume(r, reason) =>
              /\ r.state = "Waiting"
              /\ Resumed(r, reason).state = "Waiting" <=> ~ResumeReleases(r)
<1>1. r \in Records /\ RecordInv(r)
  BY DEF GoodRecord
<1>2. Suspended(r, reason).state = "Waiting" /\ (SuspendStops(r) <=> r.state # "Waiting")
  BY <1>1 DEF RecordInv, Records, Suspended, SuspendStops
<1>3. CanResume(r, reason) => r.suspend_count # 0
  BY <1>1 DEF CanResume, RecordInv, Records, Reasons
<1>4. CanResume(r, reason) => (Resumed(r, reason).state = "Waiting" <=> ~ResumeReleases(r))
  BY <1>1, <1>3 DEF RecordInv, Records, Resumed, ResumeReleases
<1> QED
  BY <1>1, <1>2, <1>3, <1>4 DEF RecordInv

\* A completion adjusts waiting_count_ by what it does to the wait of its thread.
LEMMA CompletionWaits ==
  ASSUME NEW r, GoodRecord(r), r.execution_pending, NEW c \in Completions,
         NEW expired \in BOOLEAN, NEW new,
         new = IF c = "HostAwait" THEN AwaitsHost(r, expired)
                                  ELSE Completed(r, c, expired)
  PROVE  CompletedWaiting(r, c) =
           IF r.state = "Waiting"
           THEN IF new.state = "Waiting" THEN 0 ELSE -1
           ELSE IF new.state = "Waiting" THEN 1 ELSE 0
<1>1. r \in Records /\ RecordInv(r)
  BY DEF GoodRecord
<1>2. CASE c = "HostAwait"
  <2>1. new.state = IF r.suspend_count = 0 THEN "HostAwait" ELSE r.state
    BY <1>1, <1>2 DEF AwaitsHost, Records
  <2> QED
    BY <1>1, <1>2, <2>1 DEF RecordInv, CompletedWaiting
<1>3. CASE c # "HostAwait"
  BY <1>1, <1>3 DEF RecordInv, Records, Completed, CompletedWaiting, MadeRunnable, Blocked,
     EndsWait
<1> QED
  BY <1>2, <1>3

\* Every step keeps waiting_count_.
LEMMA WaitingCountStep ==
  ASSUME RecordsInv, SliceInv, RecordsInv', WaitingCount, [Next]_vars
  PROVE  WaitingCount'
<1>0. /\ threads \subseteq Threads
      /\ waiting_count \in Int
      /\ \A t \in Threads : GoodRecord(record[t])
  BY DEF RecordsInv, Shape, GoodRecords, GoodRecord
<1>1. ASSUME NEW t \in Threads, NEW runnable \in BOOLEAN, RegisterThread(t, runnable)
      PROVE  WaitingCount'
  <2>1. /\ t \notin threads
        /\ threads' = threads \cup {t}
        /\ \A u \in Threads \ {t} : record'[u] = record[u]
        /\ record'[t].state = IF runnable THEN "Runnable" ELSE "Waiting"
        /\ waiting_count' = IF runnable THEN waiting_count ELSE waiting_count + 1
    BY <1>1 DEF RegisterThread, SetRecord, SetRecords, NewRecord
  <2>2. CASE runnable
    <3>1. WaitingThreads' = WaitingThreads
      BY <1>0, <2>1, <2>2 DEF WaitingThreads
    <3> QED
      BY <2>1, <2>2, <3>1 DEF WaitingCount
  <2>3. CASE ~runnable
    <3>1. /\ WaitingThreads' = WaitingThreads \cup {t}
          /\ {t} \cap WaitingThreads = {}
          /\ {t} \in SUBSET Threads
      BY <1>0, <2>1, <2>3 DEF WaitingThreads
    <3>2. Cardinality({t}) = 1
      BY FS_Singleton
    <3> QED
      BY <2>1, <2>3, <3>1, <3>2, WaitingBegins
  <2> QED
    BY <2>2, <2>3
<1>2. ASSUME NEW Ts \in SUBSET threads, RemoveThreads(Ts)
      PROVE  WaitingCount'
  <2> DEFINE lost == {t \in Ts : record[t].state = "Waiting"}
  <2>1. lost \in SUBSET WaitingThreads /\ WaitingThreads' = WaitingThreads \ lost
    BY <1>0, <1>2 DEF WaitingThreads, RemoveThreads, SetRecords
  <2>2. waiting_count' = waiting_count - Cardinality(lost)
    BY <1>2 DEF RemoveThreads
  <2> QED
    BY <2>1, <2>2, WaitingEnds
<1>3. ASSUME NEW t \in Threads, MakeRunnable(t)
      PROVE  WaitingCount'
  <2>1. /\ t \in threads /\ threads' = threads
        /\ \A u \in Threads \ {t} : record'[u] = record[u]
        /\ record'[t] = MadeRunnable(record[t])
        /\ waiting_count' = IF EndsWait(record[t]) THEN waiting_count - 1 ELSE waiting_count
    BY <1>3 DEF MakeRunnable, SetRecord, SetRecords
  <2> QED
    BY <1>0, <2>1, WakeWaits, WaitingOne
<1>4. ASSUME NEW t \in Threads, WakeThread(t)
      PROVE  WaitingCount'
  <2>1. /\ t \in threads /\ threads' = threads
        /\ \A u \in Threads \ {t} : record'[u] = record[u]
        /\ record'[t] = Woken(record[t])
        /\ waiting_count' = IF /\ ~record[t].host_await
                               /\ ~record[t].execution_pending
                               /\ EndsWait(record[t])
                            THEN waiting_count - 1 ELSE waiting_count
    BY <1>4 DEF WakeThread, SetRecord, SetRecords
  <2> QED
    BY <1>0, <2>1, WakeWaits, WaitingOne
<1>5. ASSUME NEW Ts \in SUBSET threads, NEW reason \in Reasons, Suspend(Ts, reason)
      PROVE  WaitingCount'
  <2> DEFINE held == {t \in Ts : CanSuspend(record[t])}
             stopped == {t \in held : SuspendStops(record[t])}
  <2>1. /\ waiting_count' = waiting_count + Cardinality(stopped)
        /\ threads' = threads
        /\ \A t \in Threads : record'[t] = IF t \in held THEN Suspended(record[t], reason)
                                                          ELSE record[t]
    BY <1>5 DEF Suspend, SetRecords
  <2>2. \A t \in Threads : /\ Suspended(record[t], reason).state = "Waiting"
                           /\ SuspendStops(record[t]) <=> record[t].state # "Waiting"
    BY <1>0, HoldWaits
  <2>3. /\ stopped \in SUBSET Threads
        /\ stopped \cap WaitingThreads = {}
        /\ WaitingThreads' = WaitingThreads \cup stopped
    BY <1>0, <2>1, <2>2 DEF WaitingThreads
  <2> QED
    BY <2>1, <2>3, WaitingBegins
<1>6. ASSUME NEW Ts \in SUBSET threads, NEW reason \in Reasons, Resume(Ts, reason)
      PROVE  WaitingCount'
  <2> DEFINE freed == {t \in Ts : CanResume(record[t], reason)}
             lost == {t \in freed : ResumeReleases(record[t])}
  <2>1. /\ waiting_count' = waiting_count - Cardinality(lost)
        /\ threads' = threads
        /\ \A t \in Threads : record'[t] = IF t \in freed THEN Resumed(record[t], reason)
                                                           ELSE record[t]
    BY <1>6 DEF Resume, SetRecords
  <2>2. \A t \in freed : /\ record[t].state = "Waiting"
                         /\ Resumed(record[t], reason).state = "Waiting" <=>
                              ~ResumeReleases(record[t])
    BY <1>0, HoldWaits
  <2>3. lost \in SUBSET WaitingThreads /\ WaitingThreads' = WaitingThreads \ lost
    BY <1>0, <2>1, <2>2 DEF WaitingThreads
  <2> QED
    BY <2>1, <2>3, WaitingEnds
<1>7. ASSUME NEW p \in Processors, NEW t \in threads, ChooseNext(p, t)
      PROVE  WaitingCount'
  <2>1. /\ threads' = threads /\ waiting_count' = waiting_count
        /\ \A u \in Threads \ {t} : record'[u] = record[u]
        /\ record'[t] = [record[t] EXCEPT !.queued = FALSE,
                                          !.state = "Running",
                                          !.execution_pending = TRUE,
                                          !.last_processor = p]
        /\ record[t] \in Records
        /\ record[t].state = "Runnable"
    BY <1>0, <1>7 DEF ChooseNext, SetRecord, SetRecords, GoodRecord, RecordInv
  <2>2. record'[t].state = "Running"
    BY <2>1 DEF Records
  <2> QED
    BY <2>1, <2>2, WaitingOne
<1>8. ASSUME NEW p \in Processors, NEW c \in Completions, NEW expired \in BOOLEAN,
             CompleteSlice(p, c, expired)
      PROVE  WaitingCount'
  <2> DEFINE t == batch[p]
             new == IF c = "HostAwait" THEN AwaitsHost(record[t], expired)
                                       ELSE Completed(record[t], c, expired)
  <2>1. t \in threads /\ t \in Threads /\ GoodRecord(record[t])
        /\ record[t].execution_pending
    BY <1>8, ObeyedSlice DEF CompleteSlice
  <2>2. /\ threads' = threads
        /\ waiting_count' = waiting_count + CompletedWaiting(record[t], c)
        /\ \A u \in Threads \ {t} : record'[u] = record[u]
        /\ record'[t] = new
    BY <1>8, <2>1 DEF CompleteSlice, SetRecord, SetRecords
  <2>3. CompletedWaiting(record[t], c) =
          IF record[t].state = "Waiting"
          THEN IF new.state = "Waiting" THEN 0 ELSE -1
          ELSE IF new.state = "Waiting" THEN 1 ELSE 0
    BY <2>1, CompletionWaits
  <2> HIDE DEF new
  <2> QED
    BY <1>0, <2>1, <2>2, <2>3, WaitingOne
<1>9. ASSUME NEW p \in Processors, ExecSlice(p)
      PROVE  WaitingCount'
  <2> DEFINE t == batch[p]
             Ts == ThreadsOf(ProcessOf[t])
             lost == {u \in Ts : record[u].state = "Waiting"}
  <2>1. t \in threads /\ t \in Threads /\ t \in Ts
    BY <1>0, <1>9 DEF ExecSlice, ThreadsOf
  <2>2. /\ threads' = (threads \ Ts) \cup {t}
        /\ waiting_count' = waiting_count - Cardinality(lost)
        /\ \A u \in Threads \ Ts : record'[u] = record[u]
        /\ record'[t].state = "Runnable"
    BY <1>9, <2>1 DEF ExecSlice, SetRecords, NewRecord
  <2>3. lost \in SUBSET WaitingThreads /\ WaitingThreads' = WaitingThreads \ lost
    BY <1>0, <2>1, <2>2 DEF WaitingThreads, ThreadsOf
  <2> QED
    BY <2>2, <2>3, WaitingEnds
<1>10. ASSUME UNCHANGED <<threads, record, waiting_count>>
       PROVE  WaitingCount'
  BY <1>10 DEF WaitingCount, WaitingThreads
<1>11. CASE Request
  BY <1>1, <1>2, <1>3, <1>4, <1>5, <1>6, <1>11
     DEF Request, RemoveThread, RemoveProcess, SuspendThread, SuspendProcess,
         ResumeThread, ResumeProcess, ThreadsOf, Reasons
<1>12. CASE Dispatch
  BY <1>7, <1>10, <1>12 DEF Dispatch, BeginRound, ChooseNothing, counters
<1>13. CASE Completion
  <2>1. ASSUME NEW p \in Processors, NEW exited \in BOOLEAN, TerminateSlice(p, exited)
        PROVE  WaitingCount'
    <3>1. batch[p] \in threads
      BY <2>1 DEF TerminateSlice, SliceRejected
    <3> QED
      BY <1>2, <2>1, <3>1 DEF TerminateSlice, ThreadsOf
  <2>2. ASSUME NEW p \in Processors, DropSlice(p)
        PROVE  WaitingCount'
    BY <1>10, <2>2 DEF DropSlice, counters
  <2> QED
    BY <1>8, <1>9, <1>13, <2>1, <2>2 DEF Completion
<1>14. CASE UNCHANGED vars
  BY <1>10, <1>14 DEF vars, counters
<1> QED
  BY <1>11, <1>12, <1>13, <1>14 DEF Next

\* The counters agree in the initial state.
LEMMA InitCounts == Init => QueueCounts /\ WaitingCount
<1> SUFFICES ASSUME Init PROVE QueueCounts /\ WaitingCount
  OBVIOUS
<1>1. /\ QueuedThreads = {}
      /\ AwaitingThreads = {}
      /\ WaitingThreads = {}
      /\ \A p \in Processes : RunnableThreads(p) = {}
  BY DEF Init, NewRecord, QueuedThreads, AwaitingThreads, WaitingThreads,
     RunnableThreads, IsRunnableState
<1> QED
  BY <1>1, FS_EmptySet DEF Init, QueueCounts, WaitingCount

\* The core invariant together with the counters.
LEMMA CountInvariant == Spec => []((RecordsInv /\ SliceInv) /\ QueueCounts /\ WaitingCount)
<1>1. /\ RecordsInv /\ SliceInv /\ RecordsInv' /\ QueueCounts /\ WaitingCount
      /\ [Next]_vars
      => QueueCounts' /\ WaitingCount'
  BY QueueCountsStep, WaitingCountStep
<1> QED
  BY <1>1, InitCounts, CoreInvariant, PTL DEF Spec

\* The four counters equal what a scan of threads_ would count.
THEOREM CountersTheorem == Spec => []CountersAgree
<1>1. QueueCounts /\ WaitingCount => CountersAgree
  BY DEF QueueCounts, WaitingCount, CountersAgree
<1> QED
  BY <1>1, CountInvariant, PTL

\* Every variable keeps its type; in particular no counter underflows.
THEOREM TypeTheorem == Spec => []TypeOK
<1>1. ASSUME RecordsInv, QueueCounts, WaitingCount
      PROVE  TypeOK
  <2>1. /\ Cardinality(QueuedThreads) \in Nat
        /\ Cardinality(AwaitingThreads) \in Nat
        /\ Cardinality(WaitingThreads) \in Nat
        /\ \A p \in Processes : Cardinality(RunnableThreads(p)) \in Nat
    BY <1>1, ThreadSetFinite
       DEF QueuedThreads, AwaitingThreads, WaitingThreads, RunnableThreads, RecordsInv, Shape
  <2> QED
    BY <1>1, <2>1 DEF TypeOK, RecordsInv, Shape, QueueCounts, WaitingCount
<1> QED
  BY <1>1, CountInvariant, PTL

=============================================================================
