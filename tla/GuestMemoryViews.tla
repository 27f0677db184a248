-------------------------- MODULE GuestMemoryViews --------------------------
(* What the native lanes of one AddressSpace may touch without the lock:   *)
(* each lane has a view, the pages its generated code reaches through      *)
(* direct pointers.  An operation under the memory gate conflicts with a   *)
(* lane whose pointers it may invalidate or whose data it shares.          *)
EXTENDS Naturals

CONSTANTS Threads,    \* host threads that use the address space
          Lanes,      \* those that execute guest code in a channel
          Pages,      \* resident private pages
          NoPage, NoThread

ASSUME ViewsAssumption ==
    /\ Lanes \subseteq Threads
    /\ NoThread \notin Threads
    /\ NoPage \notin Pages

Views == [reads: SUBSET Pages, writes: SUBSET Pages]
NoView == [reads |-> {}, writes |-> {}]

(* bind: read a table pointer; prepare: take over a lane's view; allocate: *)
(* the same, making the page tables first; all: a mapping change or an     *)
(* access the scalar path refuses; access: a checked scalar load or store. *)
Op(kind, page, writing) == [kind |-> kind, page |-> page, writing |-> writing]
Ops == {Op(k, NoPage, FALSE) : k \in {"bind", "prepare", "allocate", "all"}}
          \cup {Op("access", p, w) : p \in Pages, w \in BOOLEAN}

(* The predicate given to quiesce for operation o of thread t, on the lane *)
(* u whose view is v.                                                      *)
Conflict(o, t, u, v) ==
    \/ o.kind \in {"all", "allocate"}
    \/ o.kind = "prepare" /\ u = t
    \/ o.kind = "access" /\ o.page \in v.writes
    \/ o.kind = "access" /\ o.writing /\ o.page \in v.reads

Bind == Op("bind", NoPage, FALSE)

Invalidated(v, Q) == [reads |-> v.reads \ Q, writes |-> v.writes \ Q]
Granted(v, R, W) == [reads |-> v.reads \cup R, writes |-> v.writes \cup W]
=============================================================================
