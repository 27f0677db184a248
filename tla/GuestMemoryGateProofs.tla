------------------------ MODULE GuestMemoryGateProofs ------------------------
(* The memory gate excludes conflicting native lanes for any number of     *)
(* threads, lanes and pages, and implements NativeExclusion.               *)
EXTENDS GuestMemoryGate, TLAPS

Holding == {"mark", "metadata", "draining", "inside", "unlock", "release"}
Marked == {"metadata", "draining", "inside", "unlock"}

(* mutex_ is held by the thread whose steps are inside it, and a           *)
(* transaction is active from the mark until the leases are released.      *)
OwnerInv == \A t \in Threads : pc[t] \in Holding <=> owner = t
TransactionInv == \A t \in Threads : pc[t] \in Marked => transaction

(* A lease is active exactly while its lane is free at depth 0; a lane in  *)
(* a transaction of its own, or about to resume, is suspended.             *)
LaneInv ==
    \A u \in Lanes :
        /\ Leased(u) /\ pc[u] = "free" =>
              lease[u].depth \in {0, 1} /\ (lease[u].active <=> lease[u].depth = 0)
        /\ Leased(u) /\ pc[u] # "free" =>
              lease[u].depth \in {1, 2} /\ ~lease[u].active
        /\ pc[u] = "resume" => Leased(u)

(* The leases that an operation conflicts with are blocked from the drain  *)
(* on, and once it is over none of them is active.                         *)
BlockedInv ==
    \A t \in Threads, u \in Lanes :
        Leased(u) =>
            /\ pc[t] = "metadata" => lease[u].blocked
            /\ pc[t] \in {"draining", "inside"} =>
                  (Conflict(op[t], t, u, view[u]) => lease[u].blocked)
            /\ pc[t] = "inside" => ~(lease[u].blocked /\ lease[u].active)

GateInv == TypeOK /\ OwnerInv /\ TransactionInv /\ LaneInv /\ BlockedInv

-----------------------------------------------------------------------------
(* Types.                                                                  *)

\* The reading of a table pointer is one of the gate's operations.
LEMMA BindType == Bind \in Ops
BY DEF Bind, Ops, Op

\* The predicate given to GuestMemoryGate::quiesce is a truth value.
LEMMA ConflictType ==
  ASSUME NEW o \in Ops, NEW t, NEW u, NEW v
  PROVE  Conflict(o, t, u, v) \in BOOLEAN
BY DEF Conflict

\* A lease as Lease's constructor makes it.
LEMMA NewLeaseType ==
  ASSUME NEW b \in BOOLEAN
  PROVE  NewLease(b) \in Leases
BY DEF NewLease, Leases

\* Setting the blocked flags leaves the leases well formed.
LEMMA ReblockType ==
  ASSUME lease \in [Lanes -> Leases], NEW B, Reblock(B)
  PROVE  lease' \in [Lanes -> Leases]
<1>1. ASSUME NEW l \in Leases, NEW b \in BOOLEAN
      PROVE  [l EXCEPT !.blocked = b] \in Leases
  BY DEF Leases
<1>2. ASSUME NEW u \in Lanes
      PROVE  [lease[u] EXCEPT !.blocked = (u \in B)] \in Leases
  <2>1. lease[u] \in Leases
    OBVIOUS
  <2>2. (u \in B) \in BOOLEAN
    OBVIOUS
  <2> QED
    BY ONLY <1>1, <2>1, <2>2
<1> QED
  BY <1>2 DEF Reblock

\* A lane suspends at most twice: an SVC or a run, and one transaction in it.
LEMMA SuspendType ==
  ASSUME lease \in [Lanes -> Leases], halted \in [Lanes -> BOOLEAN],
         NEW t \in Lanes, lease[t].depth \in {0, 1}, Suspend(t)
  PROVE  /\ lease' \in [Lanes -> Leases]
         /\ halted' \in [Lanes -> BOOLEAN]
<1>1. ASSUME NEW l \in Leases, l.depth \in {0, 1}
      PROVE  SuspendedLease(l) \in Leases
  <2>1. l.depth + 1 \in 0..2
    BY <1>1
  <2> QED
    BY <2>1 DEF SuspendedLease, Leases
<1> QED
  BY <1>1 DEF Suspend

\* Revoking and granting direct pages leaves every lane with a set of pages.
LEMMA ViewsType ==
  ASSUME view \in [Lanes -> Views], NEW t, NEW Q,
         NEW R \in SUBSET Pages, NEW W \in SUBSET Pages, ChangeViews(t, Q, R, W)
  PROVE  view' \in [Lanes -> Views]
<1>1. ASSUME NEW v \in Views PROVE Invalidated(v, Q) \in Views
  BY DEF Views, Invalidated
<1>2. ASSUME NEW v \in Views PROVE Granted(v, R, W) \in Views
  BY DEF Views, Granted
<1> QED
  BY <1>1, <1>2 DEF ChangeViews

\* quiesce, before it waits, keeps the types.
LEMMA DrainType ==
  ASSUME TypeOK, NEW t \in Threads, NEW o \in Ops, Drain(t, o)
  PROVE  TypeOK'
<1>1. lease' \in [Lanes -> Leases]
  BY ReblockType DEF Drain, TypeOK
<1>2. halted' \in [Lanes -> BOOLEAN]
  BY ConflictType DEF Drain, TypeOK
<1> QED
  BY <1>1, <1>2 DEF Drain, Goes, TypeOK

\* No lane has a lease when the emulator starts.
LEMMA InitType == Init => TypeOK
<1> SUFFICES ASSUME Init PROVE TypeOK
  OBVIOUS
<1>1. lease \in [Lanes -> Leases]
  BY NewLeaseType DEF Init
<1>2. view \in [Lanes -> Views]
  BY DEF Init, NoView, Views
<1> QED
  BY <1>1, <1>2, BindType DEF Init, TypeOK

\* Every step of the gate keeps the types.
LEMMA TypeStep ==
  ASSUME TypeOK, LaneInv, [Next]_vars
  PROVE  TypeOK'
<1> USE DEF Goes
<1>1. ASSUME NEW t \in Threads, NEW o \in Ops, Begin(t, o) PROVE TypeOK'
  <2>1. CASE Leased(t)
    <3>1. t \in Lanes /\ lease[t].depth \in {0, 1}
      BY <1>1, <2>1 DEF Begin, Leased, LaneInv
    <3>2. lease' \in [Lanes -> Leases] /\ halted' \in [Lanes -> BOOLEAN]
      BY <1>1, <2>1, <3>1, SuspendType DEF Begin, TypeOK
    <3> QED
      BY <1>1, <3>2 DEF Begin, TypeOK
  <2>2. CASE ~Leased(t)
    BY <1>1, <2>2 DEF Begin, TypeOK
  <2> QED
    BY <2>1, <2>2
<1>2. ASSUME NEW t \in Threads, TakeMutex(t) PROVE TypeOK'
  BY <1>2 DEF TakeMutex, TypeOK
<1>3. ASSUME NEW t \in Threads, MarkAll(t) PROVE TypeOK'
  BY <1>3, ReblockType DEF MarkAll, TypeOK
<1>4. ASSUME NEW t \in Threads, Quiesce(t) PROVE TypeOK'
  BY <1>4, DrainType DEF Quiesce, TypeOK
<1>5. ASSUME NEW t \in Threads, Drained(t) PROVE TypeOK'
  BY <1>5 DEF Drained, TypeOK
<1>6. ASSUME NEW t \in Threads, AllocateTables(t) PROVE TypeOK'
  <2>1. Op("prepare", NoPage, FALSE) \in Ops
    BY DEF Op, Ops
  <2> QED
    BY <1>6, <2>1, DrainType DEF AllocateTables
<1>7. ASSUME NEW t \in Threads, FinishPrepare(t) PROVE TypeOK'
  <2>1. NoView \in Views
    BY DEF NoView, Views
  <2> QED
    BY <1>7, <2>1 DEF FinishPrepare, TypeOK
<1>8. ASSUME NEW t \in Threads, FinishAccess(t) PROVE TypeOK'
  <2>1. op[t].page \in Pages
    BY <1>8 DEF FinishAccess, TypeOK, Ops, Op
  <2>2. view' \in [Lanes -> Views]
    BY <1>8, <2>1, ViewsType DEF FinishAccess, TypeOK
  <2> QED
    BY <1>8, <2>2 DEF FinishAccess, TypeOK
<1>9. ASSUME NEW t \in Threads, FinishAll(t) PROVE TypeOK'
  <2>1. view' \in [Lanes -> Views]
    BY <1>9, ViewsType DEF FinishAll, TypeOK
  <2> QED
    BY <1>9, <2>1 DEF FinishAll, TypeOK
<1>10. ASSUME NEW t \in Threads, Unblock(t) PROVE TypeOK'
  BY <1>10, ReblockType DEF Unblock, TypeOK
<1>11. ASSUME NEW t \in Threads, ReleaseMutex(t) PROVE TypeOK'
  BY <1>11, BindType DEF ReleaseMutex, TypeOK
<1>12. ASSUME NEW t \in Lanes, Resume(t) PROVE TypeOK'
  <2>1. lease[t].depth \in {1, 2} /\ lease[t] \in Leases
    BY <1>12 DEF Resume, LaneInv, TypeOK
  <2>2. lease[t].depth - 1 \in 0..2 /\ (lease[t].depth = 1) \in BOOLEAN
    BY <2>1
  <2>3. ResumedLease(lease[t]) \in Leases
    BY <2>1, <2>2 DEF ResumedLease, Leases
  <2>4. lease' \in [Lanes -> Leases]
    BY <1>12, <2>3 DEF Resume, TypeOK
  <2> QED
    BY <1>12, <2>4, ViewsAssumption DEF Resume, TypeOK
<1>13. ASSUME NEW t \in Lanes, Activate(t) PROVE TypeOK'
  BY <1>13, NewLeaseType DEF Activate, TypeOK
<1>14. ASSUME NEW t \in Lanes, EnterNative(t) PROVE TypeOK'
  BY <1>14, ViewsAssumption DEF EnterNative, TypeOK
<1>15. ASSUME NEW t \in Lanes, LeaveNative(t) PROVE TypeOK'
  BY <1>15, SuspendType DEF LeaveNative, TypeOK
<1>16. ASSUME NEW t \in Lanes, DropScope(t) PROVE TypeOK'
  BY <1>16, NewLeaseType DEF DropScope, TypeOK
<1>17. CASE UNCHANGED vars
  BY <1>17 DEF vars, TypeOK
<1> QED
  BY <1>1, <1>2, <1>3, <1>4, <1>5, <1>6, <1>7, <1>8, <1>9, <1>10, <1>11, <1>12,
     <1>13, <1>14, <1>15, <1>16, <1>17 DEF Next, Transaction

-----------------------------------------------------------------------------
(* The inductive invariant.                                                *)

\* What quiesce and lock_metadata change of a lease: its blocked flag only.
LEMMA ReblockFields ==
  ASSUME lease \in [Lanes -> Leases], NEW B, Reblock(B), NEW u \in Lanes
  PROVE  /\ lease'[u].active = lease[u].active
         /\ lease'[u].depth = lease[u].depth
         /\ Leased(u) => lease'[u].blocked = (u \in B)
<1>1. lease[u] \in Leases
  OBVIOUS
<1>2. lease'[u] = IF Leased(u) THEN [lease[u] EXCEPT !.blocked = (u \in B)] ELSE lease[u]
  BY DEF Reblock
<1> QED
  BY <1>1, <1>2 DEF Leases

\* What Lease::suspend changes: the lease of the caller, not its blocked flag.
LEMMA SuspendFields ==
  ASSUME lease \in [Lanes -> Leases], NEW t \in Lanes, Suspend(t), NEW u \in Lanes
  PROVE  /\ u # t => lease'[u] = lease[u]
         /\ lease'[t].active = FALSE
         /\ lease'[t].depth = lease[t].depth + 1
         /\ lease'[t].blocked = lease[t].blocked
<1>1. lease[t] \in Leases
  OBVIOUS
<1> QED
  BY <1>1 DEF Suspend, SuspendedLease, Leases

\* What Lease::resume changes: the lease is active again from the outermost level.
LEMMA ResumeFields ==
  ASSUME NEW l \in Leases
  PROVE  /\ l.depth = 1 => ResumedLease(l).active
         /\ l.depth # 1 => ~ResumedLease(l).active
         /\ ResumedLease(l).depth = l.depth - 1
         /\ ResumedLease(l).blocked = l.blocked
BY DEF ResumedLease, Leases

\* When quiesce begins to wait, the conflicting leases are the blocked ones.
LEMMA DrainBlocks ==
  ASSUME TypeOK, OwnerInv, NEW t \in Threads, NEW o \in Ops,
         pc[t] \in Holding, Drain(t, o)
  PROVE  BlockedInv'
<1> SUFFICES ASSUME NEW s \in Threads, NEW u \in Lanes, Leased(u)'
             PROVE  /\ pc'[s] # "metadata" /\ pc'[s] # "inside"
                    /\ pc'[s] = "draining" =>
                          (Conflict(op'[s], s, u, view'[u]) => lease'[u].blocked)
  BY DEF BlockedInv
<1>1. CASE s # t
  BY <1>1 DEF Drain, Goes, TypeOK, OwnerInv, Holding
<1>2. CASE s = t
  <2>1. pc'[t] = "draining" /\ op'[t] = o /\ view' = view /\ Leased(u)
    BY DEF Drain, Goes, TypeOK, Leased
  <2>2. lease'[u].blocked = (u \in {v \in Lanes : Conflict(o, t, v, view[v])})
    BY <2>1, ReblockFields DEF Drain, TypeOK
  <2> QED
    BY <1>2, <2>1, <2>2
<1> QED
  BY <1>1, <1>2

\* A lane that suspends, for an SVC or a transaction, is no longer active.
LEMMA SuspendKeepsLane ==
  ASSUME TypeOK, LaneInv, NEW t \in Lanes, pc[t] = "free", Leased(t), Suspend(t),
         scope' = scope, NEW s \in {"free", "lock"}, pc' = [pc EXCEPT ![t] = s],
         s = "free" => lease[t].depth = 0
  PROVE  LaneInv'
<1> SUFFICES ASSUME NEW u \in Lanes
             PROVE  /\ Leased(u)' /\ pc'[u] = "free" =>
                          lease'[u].depth \in {0, 1} /\ (lease'[u].active <=> lease'[u].depth = 0)
                    /\ Leased(u)' /\ pc'[u] # "free" =>
                          lease'[u].depth \in {1, 2} /\ ~lease'[u].active
                    /\ pc'[u] = "resume" => Leased(u)'
  BY DEF LaneInv
<1>1. Leased(u)' = Leased(u)
  BY DEF Leased
<1>2. CASE u # t
  <2>1. lease'[u] = lease[u] /\ pc'[u] = pc[u]
    BY <1>2, SuspendFields, ViewsAssumption DEF TypeOK
  <2> QED
    BY <1>1, <2>1 DEF LaneInv
<1>3. CASE u = t
  <2>1. lease[t].depth \in {0, 1}
    BY DEF LaneInv
  <2>2. pc'[t] = s
    BY ViewsAssumption DEF TypeOK
  <2>3. lease'[t].active = FALSE /\ lease'[t].depth = lease[t].depth + 1
    BY SuspendFields DEF TypeOK
  <2> QED
    BY <1>1, <1>3, <2>1, <2>2, <2>3
<1> QED
  BY <1>2, <1>3

\* mutex_ has one holder at a time.
LEMMA OwnerStep ==
  ASSUME TypeOK, OwnerInv, [Next]_vars
  PROVE  OwnerInv'
<1> USE ViewsAssumption DEF Goes, Holding
<1>1. ASSUME NEW t \in Threads, NEW o \in Ops, Begin(t, o) PROVE OwnerInv'
  BY <1>1 DEF Begin, OwnerInv, TypeOK
<1>2. ASSUME NEW t \in Threads, TakeMutex(t) PROVE OwnerInv'
  BY <1>2 DEF TakeMutex, OwnerInv, TypeOK
<1>3. ASSUME NEW t \in Threads, MarkAll(t) PROVE OwnerInv'
  BY <1>3 DEF MarkAll, OwnerInv, TypeOK
<1>4. ASSUME NEW t \in Threads, Quiesce(t) PROVE OwnerInv'
  BY <1>4 DEF Quiesce, Drain, OwnerInv, TypeOK
<1>5. ASSUME NEW t \in Threads, Drained(t) PROVE OwnerInv'
  BY <1>5 DEF Drained, OwnerInv, TypeOK
<1>6. ASSUME NEW t \in Threads, AllocateTables(t) PROVE OwnerInv'
  BY <1>6 DEF AllocateTables, Drain, OwnerInv, TypeOK
<1>7. ASSUME NEW t \in Threads, FinishPrepare(t) PROVE OwnerInv'
  BY <1>7 DEF FinishPrepare, OwnerInv, TypeOK
<1>8. ASSUME NEW t \in Threads, FinishAccess(t) PROVE OwnerInv'
  BY <1>8 DEF FinishAccess, OwnerInv, TypeOK
<1>9. ASSUME NEW t \in Threads, FinishAll(t) PROVE OwnerInv'
  BY <1>9 DEF FinishAll, OwnerInv, TypeOK
<1>10. ASSUME NEW t \in Threads, Unblock(t) PROVE OwnerInv'
  BY <1>10 DEF Unblock, OwnerInv, TypeOK
<1>11. ASSUME NEW t \in Threads, ReleaseMutex(t) PROVE OwnerInv'
  BY <1>11 DEF ReleaseMutex, OwnerInv, TypeOK
<1>12. ASSUME NEW t \in Lanes, Resume(t) PROVE OwnerInv'
  BY <1>12 DEF Resume, OwnerInv, TypeOK
<1>13. ASSUME NEW t \in Lanes, Activate(t) PROVE OwnerInv'
  BY <1>13 DEF Activate, OwnerInv, TypeOK
<1>14. ASSUME NEW t \in Lanes, EnterNative(t) PROVE OwnerInv'
  BY <1>14 DEF EnterNative, OwnerInv, TypeOK
<1>15. ASSUME NEW t \in Lanes, LeaveNative(t) PROVE OwnerInv'
  BY <1>15 DEF LeaveNative, OwnerInv, TypeOK
<1>16. ASSUME NEW t \in Lanes, DropScope(t) PROVE OwnerInv'
  BY <1>16 DEF DropScope, OwnerInv, TypeOK
<1>17. CASE UNCHANGED vars
  BY <1>17 DEF vars, OwnerInv, TypeOK
<1> QED
  BY <1>1, <1>2, <1>3, <1>4, <1>5, <1>6, <1>7, <1>8, <1>9, <1>10, <1>11, <1>12,
     <1>13, <1>14, <1>15, <1>16, <1>17 DEF Next, Transaction

\* transaction_active_ stays set until the holder of mutex_ clears it.
LEMMA TransactionStep ==
  ASSUME TypeOK, OwnerInv, TransactionInv, [Next]_vars
  PROVE  TransactionInv'
<1> USE ViewsAssumption DEF Goes, Holding, Marked, OwnerInv
<1>1. ASSUME NEW t \in Threads, NEW o \in Ops, Begin(t, o) PROVE TransactionInv'
  BY <1>1 DEF Begin, TransactionInv, TypeOK
<1>2. ASSUME NEW t \in Threads, TakeMutex(t) PROVE TransactionInv'
  BY <1>2 DEF TakeMutex, TransactionInv, TypeOK
<1>3. ASSUME NEW t \in Threads, MarkAll(t) PROVE TransactionInv'
  BY <1>3 DEF MarkAll, TransactionInv, TypeOK
<1>4. ASSUME NEW t \in Threads, Quiesce(t) PROVE TransactionInv'
  BY <1>4 DEF Quiesce, Drain, TransactionInv, TypeOK
<1>5. ASSUME NEW t \in Threads, Drained(t) PROVE TransactionInv'
  BY <1>5 DEF Drained, TransactionInv, TypeOK
<1>6. ASSUME NEW t \in Threads, AllocateTables(t) PROVE TransactionInv'
  BY <1>6 DEF AllocateTables, Drain, TransactionInv, TypeOK
<1>7. ASSUME NEW t \in Threads, FinishPrepare(t) PROVE TransactionInv'
  BY <1>7 DEF FinishPrepare, TransactionInv, TypeOK
<1>8. ASSUME NEW t \in Threads, FinishAccess(t) PROVE TransactionInv'
  BY <1>8 DEF FinishAccess, TransactionInv, TypeOK
<1>9. ASSUME NEW t \in Threads, FinishAll(t) PROVE TransactionInv'
  BY <1>9 DEF FinishAll, TransactionInv, TypeOK
<1>10. ASSUME NEW t \in Threads, Unblock(t) PROVE TransactionInv'
  BY <1>10 DEF Unblock, TransactionInv, TypeOK
<1>11. ASSUME NEW t \in Threads, ReleaseMutex(t) PROVE TransactionInv'
  BY <1>11 DEF ReleaseMutex, TransactionInv, TypeOK
<1>12. ASSUME NEW t \in Lanes, Resume(t) PROVE TransactionInv'
  BY <1>12 DEF Resume, TransactionInv, TypeOK
<1>13. ASSUME NEW t \in Lanes, Activate(t) PROVE TransactionInv'
  BY <1>13 DEF Activate, TransactionInv, TypeOK
<1>14. ASSUME NEW t \in Lanes, EnterNative(t) PROVE TransactionInv'
  BY <1>14 DEF EnterNative, TransactionInv, TypeOK
<1>15. ASSUME NEW t \in Lanes, LeaveNative(t) PROVE TransactionInv'
  BY <1>15 DEF LeaveNative, TransactionInv, TypeOK
<1>16. ASSUME NEW t \in Lanes, DropScope(t) PROVE TransactionInv'
  BY <1>16 DEF DropScope, TransactionInv, TypeOK
<1>17. CASE UNCHANGED vars
  BY <1>17 DEF vars, TransactionInv, TypeOK
<1> QED
  BY <1>1, <1>2, <1>3, <1>4, <1>5, <1>6, <1>7, <1>8, <1>9, <1>10, <1>11, <1>12,
     <1>13, <1>14, <1>15, <1>16, <1>17 DEF Next, Transaction

\* A lane's lease follows its control: active only while it executes.
LEMMA LaneStep ==
  ASSUME TypeOK, LaneInv, [Next]_vars
  PROVE  LaneInv'
<1> USE ViewsAssumption DEF Goes
<1>1. ASSUME NEW t \in Threads, NEW o \in Ops, Begin(t, o) PROVE LaneInv'
  <2>1. CASE Leased(t)
    BY <1>1, <2>1, SuspendKeepsLane DEF Begin, Leased
  <2>2. CASE ~Leased(t)
    BY <1>1, <2>2 DEF Begin, LaneInv, TypeOK, Leased
  <2> QED
    BY <2>1, <2>2
<1>2. ASSUME NEW t \in Threads, TakeMutex(t) PROVE LaneInv'
  BY <1>2 DEF TakeMutex, LaneInv, TypeOK, Leased
<1>3. ASSUME NEW t \in Threads, MarkAll(t) PROVE LaneInv'
  BY <1>3, ReblockFields DEF MarkAll, LaneInv, TypeOK, Leased
<1>4. ASSUME NEW t \in Threads, Quiesce(t) PROVE LaneInv'
  BY <1>4, ReblockFields DEF Quiesce, Drain, LaneInv, TypeOK, Leased
<1>5. ASSUME NEW t \in Threads, Drained(t) PROVE LaneInv'
  BY <1>5 DEF Drained, LaneInv, TypeOK, Leased
<1>6. ASSUME NEW t \in Threads, AllocateTables(t) PROVE LaneInv'
  BY <1>6, ReblockFields DEF AllocateTables, Drain, LaneInv, TypeOK, Leased
<1>7. ASSUME NEW t \in Threads, FinishPrepare(t) PROVE LaneInv'
  BY <1>7 DEF FinishPrepare, LaneInv, TypeOK, Leased
<1>8. ASSUME NEW t \in Threads, FinishAccess(t) PROVE LaneInv'
  BY <1>8 DEF FinishAccess, LaneInv, TypeOK, Leased
<1>9. ASSUME NEW t \in Threads, FinishAll(t) PROVE LaneInv'
  BY <1>9 DEF FinishAll, LaneInv, TypeOK, Leased
<1>10. ASSUME NEW t \in Threads, Unblock(t) PROVE LaneInv'
  BY <1>10, ReblockFields DEF Unblock, LaneInv, TypeOK, Leased
<1>11. ASSUME NEW t \in Threads, ReleaseMutex(t) PROVE LaneInv'
  BY <1>11 DEF ReleaseMutex, LaneInv, TypeOK, Leased
<1>12. ASSUME NEW t \in Lanes, Resume(t) PROVE LaneInv'
  <2> SUFFICES ASSUME NEW u \in Lanes
               PROVE  /\ Leased(u)' /\ pc'[u] = "free" =>
                            lease'[u].depth \in {0, 1} /\ (lease'[u].active <=> lease'[u].depth = 0)
                      /\ Leased(u)' /\ pc'[u] # "free" =>
                            lease'[u].depth \in {1, 2} /\ ~lease'[u].active
                      /\ pc'[u] = "resume" => Leased(u)'
    BY DEF LaneInv
  <2>1. Leased(u)' = Leased(u)
    BY <1>12 DEF Resume, Leased
  <2>2. CASE u # t
    <3>1. lease'[u] = lease[u] /\ pc'[u] = pc[u]
      BY <1>12, <2>2 DEF Resume, TypeOK
    <3> QED
      BY <2>1, <3>1 DEF LaneInv
  <2>3. CASE u = t
    <3>1. lease[t].depth \in {1, 2} /\ lease[t] \in Leases
      BY <1>12 DEF Resume, LaneInv, TypeOK
    <3>2. lease'[t] = ResumedLease(lease[t]) /\ pc'[t] = "free"
      BY <1>12 DEF Resume, TypeOK
    <3>3. /\ lease[t].depth = 1 => lease'[t].active
          /\ lease[t].depth # 1 => ~lease'[t].active
          /\ lease'[t].depth = lease[t].depth - 1
      BY <3>1, <3>2, ResumeFields
    <3>4. lease'[t].depth \in {0, 1} /\ (lease'[t].active <=> lease'[t].depth = 0)
      <4>1. lease'[t].depth \in {0, 1} /\ (lease'[t].depth = 0 <=> lease[t].depth = 1)
        BY <3>1, <3>3
      <4> QED
        BY <3>3, <4>1
    <3> QED
      BY <2>3, <3>2, <3>4
  <2> QED
    BY <2>2, <2>3
<1>13. ASSUME NEW t \in Lanes, Activate(t) PROVE LaneInv'
  BY <1>13 DEF Activate, NewLease, LaneInv, TypeOK, Leased
<1>14. ASSUME NEW t \in Lanes, EnterNative(t) PROVE LaneInv'
  BY <1>14 DEF EnterNative, LaneInv, TypeOK, Leased
<1>15. ASSUME NEW t \in Lanes, LeaveNative(t) PROVE LaneInv'
  <2>1. pc' = [pc EXCEPT ![t] = "free"]
    BY <1>15 DEF LeaveNative, TypeOK
  <2> QED
    BY <1>15, <2>1, SuspendKeepsLane DEF LeaveNative
<1>16. ASSUME NEW t \in Lanes, DropScope(t) PROVE LaneInv'
  BY <1>16 DEF DropScope, NewLease, LaneInv, TypeOK, Leased
<1>17. CASE UNCHANGED vars
  BY <1>17 DEF vars, LaneInv, TypeOK, Leased
<1> QED
  BY <1>1, <1>2, <1>3, <1>4, <1>5, <1>6, <1>7, <1>8, <1>9, <1>10, <1>11, <1>12,
     <1>13, <1>14, <1>15, <1>16, <1>17 DEF Next, Transaction

\* No step activates a lease that the operation being drained or inside conflicts with.
LEMMA BlockedStep ==
  ASSUME TypeOK, OwnerInv, TransactionInv, LaneInv, BlockedInv, [Next]_vars
  PROVE  BlockedInv'
<1> USE ViewsAssumption DEF Goes, Holding, Marked, OwnerInv
<1>1. ASSUME NEW t \in Threads, NEW o \in Ops, Begin(t, o) PROVE BlockedInv'
  <2>1. \A s \in Threads : s # t => pc'[s] = pc[s] /\ op'[s] = op[s]
    BY <1>1 DEF Begin, TypeOK
  <2>2. pc'[t] = "lock" /\ view' = view /\ scope' = scope
    BY <1>1 DEF Begin, TypeOK
  <2>3. \A u \in Lanes : /\ lease'[u].blocked = lease[u].blocked
                         /\ lease'[u].active => lease[u].active
    BY <1>1, SuspendFields DEF Begin, TypeOK, Leased
  <2> QED
    BY <2>1, <2>2, <2>3 DEF BlockedInv, Leased
<1>2. ASSUME NEW t \in Threads, TakeMutex(t) PROVE BlockedInv'
  BY <1>2 DEF TakeMutex, BlockedInv, TypeOK, Leased
<1>3. ASSUME NEW t \in Threads, MarkAll(t) PROVE BlockedInv'
  <2>1. \A s \in Threads : pc'[s] \notin {"draining", "inside"}
    BY <1>3 DEF MarkAll, TypeOK
  <2>2. ASSUME NEW u \in Lanes, Leased(u)' PROVE lease'[u].blocked
    <3>1. Leased(u) /\ Reblock(Lanes)
      BY <1>3, <2>2 DEF MarkAll, Leased
    <3> QED
      BY <2>2, <3>1, ReblockFields DEF TypeOK
  <2> QED
    BY <2>1, <2>2 DEF BlockedInv
<1>4. ASSUME NEW t \in Threads, Quiesce(t) PROVE BlockedInv'
  BY <1>4, DrainBlocks DEF Quiesce, TypeOK
<1>5. ASSUME NEW t \in Threads, Drained(t) PROVE BlockedInv'
  BY <1>5 DEF Drained, BlockedInv, TypeOK, Leased
<1>6. ASSUME NEW t \in Threads, AllocateTables(t) PROVE BlockedInv'
  <2>1. Op("prepare", NoPage, FALSE) \in Ops
    BY DEF Op, Ops
  <2> QED
    BY <1>6, <2>1, DrainBlocks DEF AllocateTables
<1>7. ASSUME NEW t \in Threads, FinishPrepare(t) PROVE BlockedInv'
  BY <1>7 DEF FinishPrepare, BlockedInv, TypeOK, Leased
<1>8. ASSUME NEW t \in Threads, FinishAccess(t) PROVE BlockedInv'
  BY <1>8 DEF FinishAccess, BlockedInv, TypeOK, Leased
<1>9. ASSUME NEW t \in Threads, FinishAll(t) PROVE BlockedInv'
  BY <1>9 DEF FinishAll, BlockedInv, TypeOK, Leased
<1>10. ASSUME NEW t \in Threads, Unblock(t) PROVE BlockedInv'
  <2>1. \A s \in Threads : pc'[s] \notin {"metadata", "draining", "inside"}
    BY <1>10 DEF Unblock, TypeOK
  <2> QED
    BY <2>1 DEF BlockedInv
<1>11. ASSUME NEW t \in Threads, ReleaseMutex(t) PROVE BlockedInv'
  BY <1>11 DEF ReleaseMutex, BlockedInv, TypeOK, Leased
<1>12. ASSUME NEW t \in Lanes, Resume(t) PROVE BlockedInv'
  BY <1>12, ResumeFields DEF Resume, CanResume, BlockedInv, TypeOK, Leased
<1>13. ASSUME NEW t \in Lanes, Activate(t) PROVE BlockedInv'
  BY <1>13 DEF Activate, NewLease, TransactionInv, BlockedInv, TypeOK, Leased
<1>14. ASSUME NEW t \in Lanes, EnterNative(t) PROVE BlockedInv'
  BY <1>14 DEF EnterNative, BlockedInv, TypeOK, Leased
<1>15. ASSUME NEW t \in Lanes, LeaveNative(t) PROVE BlockedInv'
  <2>1. \A u \in Lanes : /\ lease'[u].blocked = lease[u].blocked
                         /\ lease'[u].active => lease[u].active
    BY <1>15, SuspendFields DEF LeaveNative, TypeOK
  <2> QED
    BY <1>15, <2>1 DEF LeaveNative, BlockedInv, Leased
<1>16. ASSUME NEW t \in Lanes, DropScope(t) PROVE BlockedInv'
  BY <1>16 DEF DropScope, NewLease, BlockedInv, TypeOK, Leased
<1>17. CASE UNCHANGED vars
  BY <1>17 DEF vars, BlockedInv, TypeOK, Leased
<1> QED
  BY <1>1, <1>2, <1>3, <1>4, <1>5, <1>6, <1>7, <1>8, <1>9, <1>10, <1>11, <1>12,
     <1>13, <1>14, <1>15, <1>16, <1>17 DEF Next, Transaction

\* The invariant holds initially.
LEMMA InitGate == Init => GateInv
<1> SUFFICES ASSUME Init PROVE GateInv
  OBVIOUS
<1>1. TypeOK
  BY InitType
<1>2. OwnerInv /\ TransactionInv
  BY ViewsAssumption DEF Init, OwnerInv, TransactionInv, Holding, Marked
<1>3. LaneInv /\ BlockedInv
  BY ViewsAssumption DEF Init, LaneInv, BlockedInv, Leased
<1> QED
  BY <1>1, <1>2, <1>3 DEF GateInv

\* The invariant of the gate holds in every reachable state.
THEOREM GateInvariant == Spec => []GateInv
<1>1. Init => GateInv
  BY InitGate
<1>2. GateInv /\ [Next]_vars => GateInv'
  BY TypeStep, OwnerStep, TransactionStep, LaneStep, BlockedStep DEF GateInv
<1> QED
  BY <1>1, <1>2, PTL DEF Spec

\* Every field of the gate keeps its type: no suspension nests deeper than an SVC
\* or a run in which a checked access takes a transaction.
THEOREM GateTypeTheorem == Spec => []TypeOK
<1>1. GateInv => TypeOK
  BY DEF GateInv
<1> QED
  BY <1>1, GateInvariant, PTL

\* Inside, no blocked lease is active, and every conflicting one is blocked.
LEMMA GateExcludes == GateInv => Exclusion
<1> SUFFICES ASSUME GateInv, NEW t \in Threads, pc[t] = "inside", NEW u \in Native
             PROVE  ~Conflict(op[t], t, u, view[u])
  BY DEF Exclusion
<1>1. u \in Lanes /\ Leased(u) /\ lease[u].active
  BY DEF Native
<1>2. ~lease[u].blocked
  BY <1>1 DEF GateInv, BlockedInv
<1> QED
  BY <1>1, <1>2 DEF GateInv, BlockedInv

\* No lane executes native code that conflicts with the operation inside the gate.
THEOREM ExclusionTheorem == Spec => []Exclusion
BY GateExcludes, GateInvariant, PTL

-----------------------------------------------------------------------------
(* Refinement of NativeExclusion.                                          *)

\* With no thread inside, the abstract gate has no operation.
LEMMA NobodyInside ==
  ASSUME \A s \in Threads : pc[s] # "inside"
  PROVE  Checked = Abstract!Nobody
BY DEF Checked, Inside, Abstract!Nobody, Bind, Abstract!Bind, Op, Abstract!Op

\* With a thread inside, the abstract gate has its operation: mutex_ has one holder.
LEMMA SomebodyInside ==
  ASSUME OwnerInv, NEW t \in Threads, pc[t] = "inside"
  PROVE  Checked = [by |-> t, op |-> op[t]]
<1>1. ASSUME NEW s \in Threads, pc[s] = "inside" PROVE s = t
  BY <1>1 DEF OwnerInv, Holding
<1>2. Inside = {t}
  BY <1>1 DEF Inside
<1>3. (CHOOSE s \in Inside : TRUE) = t
  BY <1>2
<1> QED
  BY <1>2, <1>3 DEF Checked

\* A step that moves nobody in or out keeps the abstract operation.
LEMMA SameChecked ==
  ASSUME \A s \in Threads : /\ pc'[s] = "inside" <=> pc[s] = "inside"
                            /\ pc[s] = "inside" => op'[s] = op[s]
  PROVE  Checked' = Checked
<1>1. Inside' = Inside
  BY DEF Inside
<1>2. CASE Inside = {}
  BY <1>1, <1>2 DEF Checked
<1>3. CASE Inside # {}
  <2>1. (CHOOSE s \in Inside : TRUE) \in Inside
    BY <1>3
  <2>2. PICK t \in Inside : t = CHOOSE s \in Inside : TRUE
    BY <2>1
  <2>3. op'[t] = op[t]
    BY <2>2 DEF Inside
  <2> QED
    BY <1>1, <1>3, <2>2, <2>3 DEF Checked
<1> QED
  BY <1>2, <1>3

\* A step that keeps the active leases keeps the lanes in native code.
LEMMA SameNative ==
  ASSUME \A u \in Lanes : (Leased(u)' /\ lease'[u].active) <=> (Leased(u) /\ lease[u].active)
  PROVE  Native' = Native
BY DEF Native

\* Both specifications have the same conflicts.
LEMMA ConflictSame ==
  ASSUME NEW o, NEW t, NEW u, NEW v
  PROVE  Abstract!Conflict(o, t, u, v) <=> Conflict(o, t, u, v)
BY DEF Conflict, Abstract!Conflict

\* Both specifications have the same operations and views.
LEMMA OpsSame == Abstract!Ops = Ops /\ Abstract!Views = Views
BY DEF Ops, Op, Views, Abstract!Ops, Abstract!Op, Abstract!Views

(* A step that leaves native lanes, views and the operation inside alone.  *)
LEMMA StutterStep ==
  ASSUME NEW t \in Threads, pc[t] # "inside", NEW s, s # "inside", Goes(t, s),
         TypeOK, view' = view,
         \A r \in Threads \ {t} : op'[r] = op[r],
         \A u \in Lanes : (Leased(u)' /\ lease'[u].active) <=> (Leased(u) /\ lease[u].active)
  PROVE  UNCHANGED Abstract!avars
<1>1. \A r \in Threads : /\ pc'[r] = "inside" <=> pc[r] = "inside"
                         /\ pc[r] = "inside" => op'[r] = op[r]
  BY DEF Goes, TypeOK
<1>2. Checked' = Checked
  BY <1>1, SameChecked
<1>3. Native' = Native
  BY SameNative
<1> QED
  BY <1>2, <1>3 DEF Abstract!avars

(* A lane stops executing native code.                                     *)
LEMMA LeaveStep ==
  ASSUME NEW t \in Lanes, pc[t] # "inside", pc'[t] # "inside", TypeOK, view' = view,
         \A r \in Threads \ {t} : pc'[r] = pc[r] /\ op'[r] = op[r],
         ~(Leased(t)' /\ lease'[t].active),
         \A u \in Lanes \ {t} : (Leased(u)' /\ lease'[u].active) <=> (Leased(u) /\ lease[u].active)
  PROVE  [Abstract!ANext]_(Abstract!avars)
<1>1. \A r \in Threads : /\ pc'[r] = "inside" <=> pc[r] = "inside"
                         /\ pc[r] = "inside" => op'[r] = op[r]
  OBVIOUS
<1>2. Checked' = Checked
  BY <1>1, SameChecked
<1>3. Native' = Native \ {t}
  BY DEF Native
<1>4. CASE t \in Native
  <2>1. Abstract!Leave(t)
    BY <1>2, <1>3, <1>4 DEF Abstract!Leave
  <2> QED
    BY <2>1 DEF Abstract!ANext
<1>5. CASE t \notin Native
  <2>1. Native' = Native
    BY <1>3, <1>5
  <2> QED
    BY <1>2, <2>1 DEF Abstract!avars
<1> QED
  BY <1>4, <1>5

(* An operation ends: the lanes executing meanwhile keep their pointers.   *)
LEMMA CloseStep ==
  ASSUME TypeOK, OwnerInv, NEW t \in Threads, pc[t] = "inside",
         NEW s, s # "inside", Goes(t, s),
         view' \in [Lanes -> Views], \A u \in Native : view'[u] = view[u],
         \A u \in Lanes : (Leased(u)' /\ lease'[u].active) <=> (Leased(u) /\ lease[u].active)
  PROVE  Abstract!ANext
<1>1. \A r \in Threads : pc'[r] # "inside"
  BY DEF Goes, TypeOK, OwnerInv, Holding
<1>2. Checked' = Abstract!Nobody
  <2>1. Inside' = {}
    BY <1>1 DEF Inside
  <2> QED
    BY <2>1 DEF Checked, Abstract!Nobody, Bind, Abstract!Bind, Op, Abstract!Op
<1>3. Checked # Abstract!Nobody
  <2>1. Checked.by = t
    BY SomebodyInside
  <2>2. Abstract!Nobody.by = NoThread
    BY DEF Abstract!Nobody
  <2> QED
    BY <2>1, <2>2, ViewsAssumption
<1>4. Native' = Native
  BY SameNative
<1>5. Abstract!Close
  BY <1>2, <1>3, <1>4, OpsSame DEF Abstract!Close
<1> QED
  BY <1>5 DEF Abstract!ANext

\* Revoking pages a lane has no pointer to does not change its view.
LEMMA InvalidatedApart ==
  ASSUME NEW v \in Views, NEW Q, Q \cap v.reads = {}, Q \cap v.writes = {}
  PROVE  Invalidated(v, Q) = v
<1>1. v = [reads |-> v.reads, writes |-> v.writes]
  BY DEF Views
<1>2. v.reads \ Q = v.reads /\ v.writes \ Q = v.writes
  OBVIOUS
<1> QED
  BY <1>1, <1>2 DEF Invalidated

\* The body of an operation, with what it does to the views, ends the abstract one.
LEMMA SimulateFinish ==
  ASSUME GateInv, NEW t \in Threads,
         FinishPrepare(t) \/ FinishAccess(t) \/ FinishAll(t) \/ AllocateTables(t),
         TypeOK'
  PROVE  Abstract!ANext
<1>1. pc[t] = "inside" /\ TypeOK /\ OwnerInv /\ Exclusion /\ t \notin Native
  BY GateExcludes DEF FinishPrepare, FinishAccess, FinishAll, AllocateTables,
     GateInv, LaneInv, Native
<1>2. \A u \in Native : u # t /\ ~Conflict(op[t], t, u, view[u])
  BY <1>1 DEF Exclusion
<1>3. view' \in [Lanes -> Views]
  BY DEF TypeOK
<1>4. CASE FinishPrepare(t)
  <2>1. \A u \in Native : view'[u] = view[u]
    BY <1>1, <1>2, <1>4 DEF FinishPrepare, TypeOK, Native
  <2>2. \A u \in Lanes : (Leased(u)' /\ lease'[u].active) <=> (Leased(u) /\ lease[u].active)
    BY <1>1, <1>4 DEF FinishPrepare, TypeOK, Leased, GateInv, LaneInv
  <2> QED
    BY <1>1, <1>3, <1>4, <2>1, <2>2, CloseStep DEF FinishPrepare
<1>5. CASE FinishAccess(t)
  <2>0. PICK Q \in SUBSET {op[t].page}, R \in SUBSET {op[t].page} :
           /\ Q # {} => op[t].writing
           /\ \E W \in SUBSET R : ChangeViews(t, Q, R, W)
    BY <1>5 DEF FinishAccess
  <2>1. PICK W \in SUBSET R : ChangeViews(t, Q, R, W)
    BY <2>0
  <2>2. ASSUME NEW u \in Native PROVE view'[u] = view[u]
    <3>1. u \in Lanes /\ view[u] \in Views
      BY <1>1, <2>2 DEF Native, TypeOK
    <3>2. Q \cap view[u].reads = {} /\ Q \cap view[u].writes = {}
      BY <1>2, <1>5, <2>0, <2>2 DEF Conflict, FinishAccess
    <3>3. Invalidated(view[u], Q) = view[u]
      BY <3>1, <3>2, InvalidatedApart
    <3> QED
      BY <1>2, <2>1, <2>2, <3>1, <3>3 DEF ChangeViews
  <2>3. \A u \in Lanes : (Leased(u)' /\ lease'[u].active) <=> (Leased(u) /\ lease[u].active)
    BY <1>5 DEF FinishAccess, Leased
  <2> QED
    BY <1>1, <1>3, <1>5, <2>2, <2>3, CloseStep DEF FinishAccess
<1>6. CASE FinishAll(t)
  <2>1. Native = {}
    BY <1>2, <1>6 DEF FinishAll, Conflict
  <2>2. \A u \in Lanes : (Leased(u)' /\ lease'[u].active) <=> (Leased(u) /\ lease[u].active)
    BY <1>6 DEF FinishAll, Leased
  <2> QED
    BY <1>1, <1>3, <1>6, <2>1, <2>2, CloseStep DEF FinishAll
<1>7. CASE AllocateTables(t)
  <2>1. Drain(t, Op("prepare", NoPage, FALSE))
    BY <1>7 DEF AllocateTables
  <2>2. \A u \in Lanes : (Leased(u)' /\ lease'[u].active) <=> (Leased(u) /\ lease[u].active)
    BY <1>1, <2>1, ReblockFields DEF Drain, TypeOK, Leased
  <2> QED
    BY <1>1, <1>3, <2>1, <2>2, CloseStep DEF Drain
<1> QED
  BY <1>4, <1>5, <1>6, <1>7

(* quiesce has waited: the operation begins.                               *)
LEMMA SimulateDrained ==
  ASSUME GateInv, GateInv', NEW t \in Threads, Drained(t)
  PROVE  Abstract!ANext
<1>1. \A s \in Threads : pc[s] # "inside"
  BY DEF Drained, GateInv, OwnerInv, Holding
<1>2. pc'[t] = "inside" /\ op' = op /\ view' = view /\ op[t] \in Ops
  BY DEF Drained, Goes, GateInv, TypeOK
<1>3. Native' = Native
  BY SameNative DEF Drained, Leased
<1>4. Checked = Abstract!Nobody
  BY <1>1, NobodyInside
<1>5. Checked' = [by |-> t, op |-> op[t]]
  <2>1. Inside' = {t}
    BY <1>1, <1>2 DEF Drained, Goes, Inside, GateInv, TypeOK
  <2>2. (CHOOSE s \in Inside' : TRUE) = t
    BY <2>1
  <2> QED
    BY <1>2, <2>1, <2>2 DEF Checked
<1>6. \A u \in Native : ~Conflict(op[t], t, u, view[u])
  <2>1. \A u \in Native' : ~Conflict(op'[t], t, u, view'[u])
    <3>1. Exclusion'
      BY GateExcludes, PTL
    <3> QED
      BY <1>2, <3>1 DEF Exclusion
  <2> QED
    BY <1>2, <1>3, <2>1
<1>7. Abstract!Open(t, op[t])
  BY <1>2, <1>3, <1>4, <1>5, <1>6, ConflictSame DEF Abstract!Open
<1> QED
  BY <1>2, <1>7, OpsSame DEF Abstract!ANext

(* A lane resumes beside an operation it does not conflict with.           *)
LEMMA SimulateResume ==
  ASSUME GateInv, NEW t \in Lanes, Resume(t)
  PROVE  [Abstract!ANext]_(Abstract!avars)
<1>1. /\ t \in Threads /\ pc[t] = "resume" /\ pc' = [pc EXCEPT ![t] = "free"]
      /\ op' = op /\ view' = view /\ scope' = scope
      /\ lease' = [lease EXCEPT ![t] = ResumedLease(@)]
      /\ CanResume(lease[t])
  BY ViewsAssumption DEF Resume, Goes
<1>2. Leased(t) /\ lease[t].depth \in {1, 2} /\ ~lease[t].active /\ lease[t] \in Leases
  BY <1>1 DEF GateInv, LaneInv, TypeOK
<1>3. Checked' = Checked
  BY <1>1, SameChecked DEF GateInv, TypeOK
<1>4. \A u \in Lanes \ {t} : (Leased(u)' /\ lease'[u].active) <=> (Leased(u) /\ lease[u].active)
  BY <1>1 DEF Leased, GateInv, TypeOK
<1>5. CASE lease[t].depth = 1
  <2>1. lease'[t].active /\ Leased(t)'
    BY <1>1, <1>2, <1>5, ResumeFields DEF Leased, GateInv, TypeOK
  <2>2. Native' = Native \cup {t}
    BY <1>4, <2>1 DEF Native
  <2>3. t \notin Native
    BY <1>2 DEF Native
  <2>4. ~lease[t].blocked
    BY <1>1, <1>5 DEF CanResume
  <2>5. Checked # Abstract!Nobody => ~Conflict(Checked.op, Checked.by, t, view[t])
    <3>1. CASE \E s \in Threads : pc[s] = "inside"
      <4>1. PICK s \in Threads : pc[s] = "inside"
        BY <3>1
      <4>2. Checked = [by |-> s, op |-> op[s]]
        BY <4>1, SomebodyInside DEF GateInv
      <4>3. ~Conflict(op[s], s, t, view[t])
        BY <1>2, <2>4, <4>1 DEF GateInv, BlockedInv
      <4> QED
        BY <4>2, <4>3
    <3>2. CASE \A s \in Threads : pc[s] # "inside"
      BY <3>2, NobodyInside
    <3> QED
      BY <3>1, <3>2
  <2>6. Abstract!Enter(t)
    BY <1>1, <1>3, <2>2, <2>3, <2>5, ConflictSame DEF Abstract!Enter
  <2> QED
    BY <2>6 DEF Abstract!ANext
<1>6. CASE lease[t].depth = 2
  <2>1. ~lease'[t].active
    BY <1>1, <1>2, <1>6, ResumeFields DEF GateInv, TypeOK
  <2>2. Native' = Native
    BY <1>2, <1>4, <2>1 DEF Native
  <2> QED
    BY <1>1, <1>3, <2>2 DEF Abstract!avars
<1> QED
  BY <1>2, <1>5, <1>6

\* Every step of the gate is an abstract step or changes nothing abstract.
LEMMA SimulateStep ==
  ASSUME GateInv, GateInv', [Next]_vars
  PROVE  [Abstract!ANext]_(Abstract!avars)
<1> USE ViewsAssumption
<1>0. TypeOK /\ LaneInv /\ TypeOK'
  BY DEF GateInv
<1>1. ASSUME NEW t \in Threads, NEW o \in Ops, Begin(t, o)
      PROVE  [Abstract!ANext]_(Abstract!avars)
  <2>1. CASE Leased(t)
    <3>1. t \in Lanes /\ Suspend(t) /\ scope' = scope
      BY <1>1, <2>1 DEF Begin, Leased
    <3>2. ~lease'[t].active /\ \A u \in Lanes \ {t} : lease'[u] = lease[u]
      BY <1>0, <3>1, SuspendFields DEF TypeOK
    <3>3. pc[t] = "free" /\ pc'[t] = "lock" /\ view' = view
      BY <1>0, <1>1 DEF Begin, Goes, TypeOK
    <3>4. \A r \in Threads \ {t} : pc'[r] = pc[r] /\ op'[r] = op[r]
      BY <1>0, <1>1 DEF Begin, Goes, TypeOK
    <3>5. \A u \in Lanes \ {t} :
             (Leased(u)' /\ lease'[u].active) <=> (Leased(u) /\ lease[u].active)
      BY <3>1, <3>2 DEF Leased
    <3> QED
      BY <1>0, <3>1, <3>2, <3>3, <3>4, <3>5, LeaveStep
  <2>2. CASE ~Leased(t)
    <3>1. \A u \in Lanes : (Leased(u)' /\ lease'[u].active) <=> (Leased(u) /\ lease[u].active)
      BY <1>1, <2>2 DEF Begin, Leased
    <3>2. \A r \in Threads \ {t} : op'[r] = op[r]
      BY <1>0, <1>1 DEF Begin, TypeOK
    <3> QED
      BY <1>0, <1>1, <3>1, <3>2, StutterStep DEF Begin
  <2> QED
    BY <2>1, <2>2
<1>2. ASSUME NEW t \in Threads, TakeMutex(t) PROVE UNCHANGED Abstract!avars
  BY <1>0, <1>2, StutterStep DEF TakeMutex, Leased
<1>3. ASSUME NEW t \in Threads, MarkAll(t) PROVE UNCHANGED Abstract!avars
  <2>1. \A u \in Lanes : (Leased(u)' /\ lease'[u].active) <=> (Leased(u) /\ lease[u].active)
    BY <1>0, <1>3, ReblockFields DEF MarkAll, Leased, TypeOK
  <2> QED
    BY <1>0, <1>3, <2>1, StutterStep DEF MarkAll
<1>4. ASSUME NEW t \in Threads, Quiesce(t) PROVE UNCHANGED Abstract!avars
  <2>1. \A u \in Lanes : (Leased(u)' /\ lease'[u].active) <=> (Leased(u) /\ lease[u].active)
    BY <1>0, <1>4, ReblockFields DEF Quiesce, Drain, Leased, TypeOK
  <2>2. \A r \in Threads \ {t} : op'[r] = op[r]
    BY <1>0, <1>4 DEF Quiesce, Drain, TypeOK
  <2> QED
    BY <1>0, <1>4, <2>1, <2>2, StutterStep DEF Quiesce, Drain
<1>5. ASSUME NEW t \in Threads, Drained(t) PROVE Abstract!ANext
  BY <1>5, SimulateDrained
<1>6. ASSUME NEW t \in Threads,
             FinishPrepare(t) \/ FinishAccess(t) \/ FinishAll(t) \/ AllocateTables(t)
      PROVE  Abstract!ANext
  BY <1>0, <1>6, SimulateFinish
<1>7. ASSUME NEW t \in Threads, Unblock(t) PROVE UNCHANGED Abstract!avars
  <2>1. \A u \in Lanes : (Leased(u)' /\ lease'[u].active) <=> (Leased(u) /\ lease[u].active)
    BY <1>0, <1>7, ReblockFields DEF Unblock, Leased, TypeOK
  <2> QED
    BY <1>0, <1>7, <2>1, StutterStep DEF Unblock
<1>8. ASSUME NEW t \in Threads, ReleaseMutex(t) PROVE UNCHANGED Abstract!avars
  <2>1. \A u \in Lanes : (Leased(u)' /\ lease'[u].active) <=> (Leased(u) /\ lease[u].active)
    BY <1>8 DEF ReleaseMutex, Leased
  <2>2. \A r \in Threads \ {t} : op'[r] = op[r]
    BY <1>0, <1>8 DEF ReleaseMutex, TypeOK
  <2>3. PICK s \in {"resume", "free"} : Goes(t, s)
    BY <1>8 DEF ReleaseMutex
  <2> QED
    BY <1>0, <1>8, <2>1, <2>2, <2>3, StutterStep DEF ReleaseMutex
<1>9. ASSUME NEW t \in Lanes, Resume(t) PROVE [Abstract!ANext]_(Abstract!avars)
  BY <1>9, SimulateResume
<1>10. ASSUME NEW t \in Lanes, Activate(t) PROVE UNCHANGED Abstract!avars
  <2>1. \A u \in Lanes : (Leased(u)' /\ lease'[u].active) <=> (Leased(u) /\ lease[u].active)
    BY <1>0, <1>10 DEF Activate, NewLease, Leased, TypeOK
  <2>2. Goes(t, "free")
    BY <1>0, <1>10 DEF Activate, Goes, TypeOK
  <2> QED
    BY <1>0, <1>10, <2>1, <2>2, StutterStep DEF Activate
<1>11. ASSUME NEW t \in Lanes, EnterNative(t) PROVE UNCHANGED Abstract!avars
  BY <1>0, <1>11, StutterStep DEF EnterNative, Leased
<1>12. ASSUME NEW t \in Lanes, LeaveNative(t) PROVE [Abstract!ANext]_(Abstract!avars)
  <2>1. ~lease'[t].active /\ \A u \in Lanes \ {t} : lease'[u] = lease[u]
    BY <1>0, <1>12, SuspendFields DEF LeaveNative, TypeOK
  <2>2. \A u \in Lanes \ {t} :
           (Leased(u)' /\ lease'[u].active) <=> (Leased(u) /\ lease[u].active)
    BY <1>12, <2>1 DEF LeaveNative, Leased
  <2> QED
    BY <1>0, <1>12, <2>1, <2>2, LeaveStep DEF LeaveNative
<1>13. ASSUME NEW t \in Lanes, DropScope(t) PROVE [Abstract!ANext]_(Abstract!avars)
  <2>1. ~Leased(t)'
    BY <1>0, <1>13 DEF DropScope, Leased, TypeOK
  <2>2. \A u \in Lanes \ {t} :
           (Leased(u)' /\ lease'[u].active) <=> (Leased(u) /\ lease[u].active)
    BY <1>0, <1>13 DEF DropScope, Leased, TypeOK
  <2> QED
    BY <1>0, <1>13, <2>1, <2>2, LeaveStep DEF DropScope
<1>14. CASE UNCHANGED vars
  <2>1. Checked' = Checked
    BY <1>14, SameChecked DEF vars
  <2>2. Native' = Native
    BY <1>14, SameNative DEF vars, Leased
  <2> QED
    BY <1>14, <2>1, <2>2 DEF vars, Abstract!avars
<1> QED
  BY <1>1, <1>2, <1>3, <1>4, <1>5, <1>6, <1>7, <1>8, <1>9, <1>10, <1>11, <1>12,
     <1>13, <1>14 DEF Next, Transaction

\* The gate implements the exclusion of native lanes and checked operations.
THEOREM GateImplements == Spec => Implements
<1>1. Init => Abstract!AInit
  <2> SUFFICES ASSUME Init PROVE Abstract!AInit
    OBVIOUS
  <2>1. Checked = Abstract!Nobody
    BY NobodyInside DEF Init
  <2>2. Native = {}
    BY DEF Init, Native, Leased
  <2> QED
    BY <2>1, <2>2 DEF Init, Abstract!AInit, NoView, Abstract!NoView
<1>2. GateInv /\ GateInv' /\ [Next]_vars => [Abstract!ANext]_(Abstract!avars)
  BY SimulateStep
<1> QED
  BY <1>1, <1>2, GateInvariant, PTL DEF Spec, Implements, Abstract!ASpec
=============================================================================
