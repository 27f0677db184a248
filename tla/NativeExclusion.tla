--------------------------- MODULE NativeExclusion ---------------------------
(* What GuestMemoryGate promises its users: a checked operation on guest   *)
(* memory and a native lane that could see it half done never overlap, and *)
(* the direct pointers of a lane do not change while it runs.              *)
EXTENDS GuestMemoryViews

VARIABLES native,   \* lanes executing with direct pointers
          views,    \* what each lane's pointers reach
          checked   \* the thread inside a checked operation, and which

avars == <<native, views, checked>>

Nobody == [by |-> NoThread, op |-> Bind]

AInit ==
    /\ native = {}
    /\ views = [u \in Lanes |-> NoView]
    /\ checked = Nobody

Enter(u) ==
    /\ u \notin native
    /\ checked # Nobody => ~Conflict(checked.op, checked.by, u, views[u])
    /\ native' = native \cup {u}
    /\ UNCHANGED <<views, checked>>

Leave(u) ==
    /\ u \in native
    /\ native' = native \ {u}
    /\ UNCHANGED <<views, checked>>

Open(t, o) ==
    /\ checked = Nobody
    /\ \A u \in native : ~Conflict(o, t, u, views[u])
    /\ checked' = [by |-> t, op |-> o]
    /\ UNCHANGED <<native, views>>

Close ==
    /\ checked # Nobody
    /\ checked' = Nobody
    /\ views' \in [Lanes -> Views]
    /\ \A u \in native : views'[u] = views[u]
    /\ native' = native

ANext ==
    \/ \E u \in Lanes : Enter(u) \/ Leave(u)
    \/ \E t \in Threads, o \in Ops : Open(t, o)
    \/ Close

ASpec == AInit /\ [][ANext]_avars
=============================================================================
