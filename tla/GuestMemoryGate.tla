--------------------------- MODULE GuestMemoryGate ---------------------------
(* GuestMemoryGate and the ParallelAccess scopes that use it.  mutex_      *)
(* serialises transactions; every critical section under leases_mutex_ is  *)
(* one step; a native lane holds a lease that is active exactly while      *)
(* generated code may follow direct pointers.                              *)
EXTENDS GuestMemoryViews

VARIABLES pc,           \* where each thread is in lock_metadata .. unlock
          op,           \* the operation it is about
          owner,        \* the holder of mutex_
          transaction,  \* transaction_active_
          scope,        \* "none", "prepared" or "leased" (ParallelAccess)
          lease,        \* Lease: active_, blocked_, depth_
          halted,       \* the lane's JIT has been told to stop
          view          \* ParallelView: direct read and write entries

vars == <<pc, op, owner, transaction, scope, lease, halted, view>>

Leases == [active: BOOLEAN, blocked: BOOLEAN, depth: 0..2]
NewLease(blocked) == [active |-> FALSE, blocked |-> blocked, depth |-> 1]

Init ==
    /\ pc = [t \in Threads |-> "free"]
    /\ op = [t \in Threads |-> Bind]
    /\ owner = NoThread
    /\ transaction = FALSE
    /\ scope = [t \in Lanes |-> "none"]
    /\ lease = [t \in Lanes |-> NewLease(FALSE)]
    /\ halted = [t \in Lanes |-> FALSE]
    /\ view = [t \in Lanes |-> NoView]

Leased(t) == t \in Lanes /\ scope[t] = "leased"
Goes(t, step) == pc' = [pc EXCEPT ![t] = step]

(* Lease::suspend.  A lane that leaves native code for any reason starts   *)
(* again without the halt request, or is asked once more.                  *)
SuspendedLease(l) == [l EXCEPT !.active = FALSE, !.depth = @ + 1]
Suspend(t) ==
    /\ lease' = [lease EXCEPT ![t] = SuspendedLease(@)]
    /\ halted' = [halted EXCEPT ![t] = FALSE]

(* blocked_ of every lease, recomputed under leases_mutex_: that of the    *)
(* lanes in B becomes true.                                                *)
Reblock(B) ==
    lease' = [u \in Lanes |->
                 IF Leased(u) THEN [lease[u] EXCEPT !.blocked = (u \in B)] ELSE lease[u]]

(* lock_metadata: the caller's own lease is suspended before it waits for  *)
(* mutex_.  A scope is prepared only by a lane that has none.              *)
Begin(t, o) ==
    /\ pc[t] = "free"
    /\ o.kind \in {"prepare", "allocate"} => t \in Lanes /\ scope[t] = "none"
    /\ op' = [op EXCEPT ![t] = o]
    /\ Goes(t, "lock")
    /\ IF Leased(t) THEN Suspend(t) ELSE UNCHANGED <<lease, halted>>
    /\ UNCHANGED <<owner, transaction, scope, view>>

TakeMutex(t) ==
    /\ pc[t] = "lock"
    /\ owner = NoThread
    /\ owner' = t
    /\ Goes(t, "mark")
    /\ UNCHANGED <<op, transaction, scope, lease, halted, view>>

MarkAll(t) ==
    /\ pc[t] = "mark"
    /\ transaction' = TRUE
    /\ Reblock(Lanes)
    /\ Goes(t, "metadata")
    /\ UNCHANGED <<op, owner, scope, halted, view>>

\* Mutant: leases that do not conflict stay blocked, and are waited for.
DrainEverybody(t, o) ==
    /\ halted' = [u \in Lanes |->
                     \/ halted[u]
                     \/ Leased(u) /\ lease[u].active /\ Conflict(o, t, u, view[u])]
    /\ op' = [op EXCEPT ![t] = o]
    /\ Goes(t, "draining")
    /\ UNCHANGED <<owner, transaction, scope, lease, view>>

(* quiesce: block the conflicting leases and only those, interrupt the     *)
(* active ones among them, then wait.                                      *)
Drain(t, o) ==
    /\ Reblock({u \in Lanes : Conflict(o, t, u, view[u])})
    /\ halted' = [u \in Lanes |->
                     \/ halted[u]
                     \/ Leased(u) /\ lease[u].active /\ Conflict(o, t, u, view[u])]
    /\ op' = [op EXCEPT ![t] = o]
    /\ Goes(t, "draining")
    /\ UNCHANGED <<owner, transaction, scope, view>>

Quiesce(t) ==
    /\ pc[t] = "metadata"
    /\ op[t] # Bind
    /\ Drain(t, op[t])

\* Mutant: the operation starts while the interrupted lanes still stop.
DrainedAtOnce(t) ==
    /\ pc[t] = "draining"
    /\ Goes(t, "inside")
    /\ UNCHANGED <<op, owner, transaction, scope, lease, halted, view>>

Drained(t) ==
    /\ pc[t] = "draining"
    /\ \A u \in Lanes : Leased(u) => ~(lease[u].blocked /\ lease[u].active)
    /\ Goes(t, "inside")
    /\ UNCHANGED <<op, owner, transaction, scope, lease, halted, view>>

(* The first scope of an address space makes the page tables behind a full *)
(* boundary, then quiesces again for its own view alone.                   *)
AllocateTables(t) ==
    /\ pc[t] = "inside"
    /\ op[t].kind = "allocate"
    /\ Drain(t, Op("prepare", NoPage, FALSE))

(* ParallelAccess: a view another owner used last is emptied.              *)
FinishPrepare(t) ==
    /\ pc[t] = "inside"
    /\ op[t].kind = "prepare"
    /\ view' \in {view, [view EXCEPT ![t] = NoView]}
    /\ scope' = [scope EXCEPT ![t] = "prepared"]
    /\ Goes(t, "unlock")
    /\ UNCHANGED <<op, owner, transaction, lease, halted>>

(* Pages of Q lose their entries in every view (refresh, guard, clear);    *)
(* then the caller's own view, if it has a scope, is granted R and W.      *)
ChangeViews(t, Q, R, W) ==
    view' = [u \in Lanes |->
                IF u = t /\ scope[t] # "none"
                THEN Granted(Invalidated(view[u], Q), R, W)
                ELSE Invalidated(view[u], Q)]

(* read_integer and write_integer on a page the scalar path accepts.       *)
FinishAccess(t) ==
    /\ pc[t] = "inside"
    /\ op[t].kind = "access"
    /\ \E Q, R \in SUBSET {op[t].page} :
          /\ Q # {} => op[t].writing
          /\ \E W \in SUBSET R : /\ W # {} => op[t].writing
                                 /\ ChangeViews(t, Q, R, W)
    /\ Goes(t, "unlock")
    /\ UNCHANGED <<op, owner, transaction, scope, lease, halted>>

(* Any operation behind a full boundary: it may revoke any pages, and a    *)
(* scalar access that had to take one grants its page at the end.          *)
FinishAll(t) ==
    /\ pc[t] = "inside"
    /\ op[t].kind = "all"
    /\ \E Q \in SUBSET Pages, R \in {{}} \cup {{p} : p \in Pages} :
          \E W \in SUBSET R : ChangeViews(t, Q, R, W)
    /\ Goes(t, "unlock")
    /\ UNCHANGED <<op, owner, transaction, scope, lease, halted>>

(* unlock: the leases are released before mutex_ is.                       *)
Unblock(t) ==
    /\ \/ pc[t] = "unlock"
       \/ pc[t] = "metadata" /\ op[t] = Bind
    /\ transaction' = FALSE
    /\ Reblock({})
    /\ Goes(t, "release")
    /\ UNCHANGED <<op, owner, scope, halted, view>>

ReleaseMutex(t) ==
    /\ pc[t] = "release"
    /\ owner' = NoThread
    /\ op' = [op EXCEPT ![t] = Bind]
    /\ Goes(t, IF Leased(t) THEN "resume" ELSE "free")
    /\ UNCHANGED <<transaction, scope, lease, halted, view>>

CanResume(l) == l.depth = 1 => ~l.blocked

\* Mutant: a resume that is not the outermost one leaves depth_ alone.
ResumeOutermost(t) ==
    /\ pc[t] = "resume"
    /\ CanResume(lease[t])
    /\ lease' = IF lease[t].depth = 1
                THEN [lease EXCEPT ![t].active = TRUE, ![t].depth = 0]
                ELSE lease
    /\ Goes(t, "free")
    /\ UNCHANGED <<op, owner, transaction, scope, halted, view>>

(* Lease::resume: the outermost one waits until no transaction blocks it.  *)
ResumedLease(l) == [l EXCEPT !.active = (l.depth = 1), !.depth = @ - 1]
Resume(t) ==
    /\ pc[t] = "resume"
    /\ CanResume(lease[t])
    /\ lease' = [lease EXCEPT ![t] = ResumedLease(@)]
    /\ Goes(t, "free")
    /\ UNCHANGED <<op, owner, transaction, scope, halted, view>>

\* Mutant: a new lease does not look at transaction_active_.
ActivateUnblocked(t) ==
    /\ pc[t] = "free"
    /\ scope[t] = "prepared"
    /\ scope' = [scope EXCEPT ![t] = "leased"]
    /\ lease' = [lease EXCEPT ![t] = NewLease(FALSE)]
    /\ UNCHANGED <<pc, op, owner, transaction, halted, view>>

(* ParallelAccess::activate: a lease born in a transaction is blocked.     *)
Activate(t) ==
    /\ pc[t] = "free"
    /\ scope[t] = "prepared"
    /\ scope' = [scope EXCEPT ![t] = "leased"]
    /\ lease' = [lease EXCEPT ![t] = NewLease(transaction)]
    /\ UNCHANGED <<pc, op, owner, transaction, halted, view>>

(* MemoryExecutionResume at the start of a run, and the end of an SVC.     *)
EnterNative(t) ==
    /\ pc[t] = "free"
    /\ Leased(t)
    /\ lease[t].depth = 1
    /\ Goes(t, "resume")
    /\ UNCHANGED <<op, owner, transaction, scope, lease, halted, view>>

(* MemoryExecutionSuspend: the run returns, or an SVC is served.           *)
LeaveNative(t) ==
    /\ pc[t] = "free"
    /\ Leased(t)
    /\ lease[t].depth = 0
    /\ Suspend(t)
    /\ UNCHANGED <<pc, op, owner, transaction, scope, view>>

(* ~ParallelAccess, also while an exception unwinds a run.                 *)
DropScope(t) ==
    /\ pc[t] = "free"
    /\ scope[t] # "none"
    /\ scope' = [scope EXCEPT ![t] = "none"]
    /\ lease' = [lease EXCEPT ![t] = NewLease(FALSE)]
    /\ halted' = [halted EXCEPT ![t] = FALSE]
    /\ UNCHANGED <<pc, op, owner, transaction, view>>

Transaction(t) ==
    \/ TakeMutex(t) \/ MarkAll(t) \/ Quiesce(t) \/ Drained(t) \/ AllocateTables(t)
    \/ FinishPrepare(t) \/ FinishAccess(t) \/ FinishAll(t) \/ Unblock(t)
    \/ ReleaseMutex(t)

Next ==
    \/ \E t \in Threads, o \in Ops : Begin(t, o)
    \/ \E t \in Threads : Transaction(t)
    \/ \E t \in Lanes : \/ Resume(t) \/ Activate(t) \/ EnterNative(t)
                        \/ LeaveNative(t) \/ DropScope(t)

Spec == Init /\ [][Next]_vars

(* A thread that holds mutex_ runs on, a lane told to halt stops, and a    *)
(* lane waiting in resume wakes.  Nothing obliges anyone to start, and who *)
(* gets mutex_ next is the host's business.                                *)
Fairness ==
    /\ \A t \in Threads : WF_vars(Transaction(t))
    /\ \A t \in Lanes : WF_vars(halted[t] /\ LeaveNative(t)) /\ WF_vars(Resume(t))
FairSpec == Spec /\ Fairness

-----------------------------------------------------------------------------
TypeOK ==
    /\ pc \in [Threads -> {"free", "lock", "mark", "metadata", "draining",
                           "inside", "unlock", "release", "resume"}]
    /\ op \in [Threads -> Ops]
    /\ owner \in Threads \cup {NoThread}
    /\ transaction \in BOOLEAN
    /\ scope \in [Lanes -> {"none", "prepared", "leased"}]
    /\ lease \in [Lanes -> Leases]
    /\ halted \in [Lanes -> BOOLEAN]
    /\ view \in [Lanes -> Views]

Native == {u \in Lanes : Leased(u) /\ lease[u].active}

(* While a thread is inside its operation no lane runs native code whose   *)
(* direct pointers the operation conflicts with: not one that was running, *)
(* not one that resumed, not one created meanwhile.                        *)
Exclusion ==
    \A t \in Threads : pc[t] = "inside" =>
        \A u \in Native : ~Conflict(op[t], t, u, view[u])

(* Every transaction ends: the lanes it waits for have been told to halt,  *)
(* and no lane that it does not conflict with is waited for.               *)
TransactionEnds == \A t \in Threads : owner = t ~> owner # t

Inside == {t \in Threads : pc[t] = "inside"}
Checked ==
    IF Inside = {} THEN [by |-> NoThread, op |-> Bind]
    ELSE LET t == CHOOSE t \in Inside : TRUE IN [by |-> t, op |-> op[t]]

(* The gate implements the exclusion its users rely on.                    *)
Abstract == INSTANCE NativeExclusion
                WITH native <- Native, views <- view, checked <- Checked
Implements == Abstract!ASpec
=============================================================================
