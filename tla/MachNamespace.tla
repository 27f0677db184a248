---------------------------- MODULE MachNamespace ----------------------------
(* The names tasks have for Mach ports: entries with user references, the  *)
(* index of the names of an object, and the dead-name requests on names.   *)
(* Every operation holds mach_mutex.  Send and send-once rights in flight  *)
(* are not counted: a message may bring one to a task at any time.         *)
EXTENDS Integers, FiniteSetsExt

CONSTANTS Tasks, Objects,
          NoObject,       \* null_name
          FirstDynamic,   \* first_dynamic_name; the names below are installed
          LastName,       \* the last name before dead_name
          MaxRefs         \* maximum_user_references

ASSUME NamesAssumption ==
    /\ NoObject \notin Objects \cup Tasks
    /\ FirstDynamic \in 2..LastName
    /\ LastName \in Nat
    /\ MaxRefs \in Nat /\ MaxRefs >= 2

VARIABLES spaces,     \* spaces_: entries, names_by_object, next_name
          self,       \* the task port of each task, NoObject before and after
          port,       \* what backs each object
          transit,    \* objects whose receive right is in a message
          requests,   \* target_object of the dead-name request on each name
          exiting     \* the task whose names are being destroyed

vars == <<spaces, self, port, transit, requests, exiting>>

Names == 1..LastName
Rights == {"Send", "Receive", "SendOnce", "PortSet", "DeadName"}
Sending == {"Send", "SendOnce"}
PortRights == Sending \cup {"Receive"}
Live == {"guest", "kernel"}
Ports == Live \cup {"unborn", "set", "dead", "closed"}

-----------------------------------------------------------------------------
(* MachNamespaceTable.  An entry without a type is absent.                 *)
NoRefs == [r \in Rights |-> 0]
NoEntry == [object |-> NoObject, type |-> {}, refs |-> NoRefs]
Unnamed == [names |-> {}, rights |-> {}]
EmptySpace == [next_name |-> FirstDynamic,
               entries |-> [n \in Names |-> NoEntry],
               index |-> [o \in Objects |-> Unnamed]]

Contains(s, n) == s.entries[n].type # {}
Has(s, n, r) == r \in s.entries[n].type
Limit(r) == IF r = "Send" THEN MaxRefs - 1 ELSE MaxRefs

MakeEntry(o, r) ==
    [object |-> o, type |-> {r}, refs |-> [NoRefs EXCEPT ![r] = 1]]

\* Mutant: a send right may use the reference its death needs.
AddTypeToMaximum(e, r) ==
    [e EXCEPT !.type = @ \cup {r},
              !.refs[r] = IF r \notin e.type THEN 1
                          ELSE IF r \in {"Send", "DeadName"} /\ @ < MaxRefs THEN @ + 1
                          ELSE @]

(* The counts of send rights and dead names stay at their maximum.         *)
AddType(e, r) ==
    [e EXCEPT !.type = @ \cup {r},
              !.refs[r] = IF r \notin e.type THEN 1
                          ELSE IF r \in {"Send", "DeadName"} /\ @ < Limit(r) THEN @ + 1
                          ELSE @]

Types(s, N) == UNION {s.entries[n].type : n \in N}

\* Mutant: the search ends at the first alias with one of the rights.
RefreshFirst(s, o) ==
    LET found == {n \in s.index[o].names : s.entries[n].type \cap s.index[o].rights # {}}
    IN [s EXCEPT !.index[o].rights = IF found = {} THEN {} ELSE s.entries[Min(found)].type]

(* The names are read in order until they have all the previous rights.    *)
Refresh(s, o) ==
    LET names == s.index[o].names
        UpTo(n) == Types(s, {m \in names : m <= n})
        enough == {n \in names : s.index[o].rights \subseteq UpTo(n)}
    IN [s EXCEPT !.index[o].rights =
           IF enough = {} THEN Types(s, names) ELSE UpTo(Min(enough))]

IndexName(s, o, n) ==
    [s EXCEPT !.index[o] = [names |-> @.names \cup {n},
                            rights |-> @.rights \cup s.entries[n].type]]

UnindexName(s, o, n) ==
    LET u == [s EXCEPT !.index[o].names = @ \ {n}]
    IN IF u.index[o].names = {} THEN [u EXCEPT !.index[o] = Unnamed] ELSE Refresh(u, o)

(* install, at a name that is free or has the object already.              *)
Install(s, n, o, r) ==
    IF Contains(s, n)
    THEN [s EXCEPT !.entries[n] = AddType(@, r), !.index[o].rights = @ \cup {r}]
    ELSE IndexName([s EXCEPT !.entries[n] = MakeEntry(o, r)], o, n)

Candidates(s) == {n \in s.next_name..LastName : ~Contains(s, n)}
Allocate(s, o, r) ==
    LET n == Min(Candidates(s))
    IN [Install(s, n, o, r) EXCEPT !.next_name = IF n < LastName THEN n + 1 ELSE @]

\* Mutant: a send-once right shares its name.
AliasesAll(s, o) == s.index[o].names

Aliases(s, o) == {n \in s.index[o].names : ~Has(s, n, "SendOnce")}
Shares(s, o, r) == r # "SendOnce" /\ Aliases(s, o) # {}
CanCopyout(s, o, r) == Shares(s, o, r) \/ Candidates(s) # {}
Copyout(s, o, r) ==
    IF Shares(s, o, r) THEN Install(s, Min(Aliases(s, o)), o, r) ELSE Allocate(s, o, r)
CopyoutAtName(s, o, r, preferred) ==
    IF Shares(s, o, r) \/ Contains(s, preferred)
    THEN Copyout(s, o, r)
    ELSE Install(s, preferred, o, r)

DestroyEntry(s, n) ==
    [UnindexName(s, s.entries[n].object, n) EXCEPT !.entries[n] = NoEntry]

LoseType(e, r) == [e EXCEPT !.type = @ \ {r}, !.refs[r] = 0]
RemoveType(s, n, r) ==
    LET d == [s EXCEPT !.entries[n] = LoseType(@, r)]
    IN IF Contains(d, n) THEN Refresh(d, s.entries[n].object) ELSE DestroyEntry(d, n)

ModifyReferences(s, n, r, delta) ==
    IF s.entries[n].refs[r] + delta = 0
    THEN RemoveType(s, n, r)
    ELSE [s EXCEPT !.entries[n].refs[r] = @ + delta]

RenameEntry(s, n, m) ==
    LET o == s.entries[n].object
        moved == [s EXCEPT !.entries[n] = NoEntry, !.entries[m] = s.entries[n]]
    IN IndexName(UnindexName(moved, o, n), o, m)

DeadEntry(e) ==
    [e EXCEPT !.type = (@ \ Sending) \cup {"DeadName"},
              !.refs = [r \in Rights |->
                           CASE r \in Sending -> 0
                             [] r = "DeadName" -> e.refs["Send"] + e.refs["SendOnce"]
                             [] OTHER -> e.refs[r]]]

MarkDead(s, o) ==
    [s EXCEPT
       !.entries = [n \in Names |->
           IF n \in s.index[o].names /\ s.entries[n].type \cap Sending # {}
           THEN DeadEntry(s.entries[n]) ELSE s.entries[n]],
       !.index[o].rights =
           IF @ \cap Sending # {} THEN (@ \ Sending) \cup {"DeadName"} ELSE @]

NameFor(s, o, r) == {n \in s.index[o].names : Has(s, n, r)}
SendReferences(S, o) == {t \in Tasks : NameFor(S[t], o, "Send") # {}}

-----------------------------------------------------------------------------
Init ==
    /\ spaces = [t \in Tasks |-> EmptySpace]
    /\ self = [t \in Tasks |-> NoObject]
    /\ port = [o \in Objects |-> "unborn"]
    /\ transit = {}
    /\ requests = [t \in Tasks |-> [n \in Names |-> NoObject]]
    /\ exiting = NoObject

Runs(t) == self[t] # NoObject /\ exiting = NoObject

(* The request on a name goes with the name.                               *)
Cancelled(t, n) == [requests EXCEPT ![t][n] = NoObject]
CancelledIfGone(S, t, n) == IF Contains(S[t], n) THEN requests ELSE Cancelled(t, n)

(* terminate_receive_object_locked, after S and q: a port-destroyed        *)
(* request keeps the right in a message; otherwise send rights become dead *)
(* names, and each request on one is answered and adds a reference.        *)
Notified(s, q, o) ==
    [s EXCEPT !.entries = [n \in Names |->
        IF q[n] = o /\ Has(s, n, "DeadName") /\ s.entries[n].refs["DeadName"] < MaxRefs
        THEN [s.entries[n] EXCEPT !.refs["DeadName"] = @ + 1]
        ELSE s.entries[n]]]
Terminate(S, q, o) ==
    \/ /\ port[o] = "guest"
       /\ spaces' = S
       /\ requests' = q
       /\ transit' = transit \cup {o}
       /\ port' = port
    \/ /\ spaces' = [t \in Tasks |-> Notified(MarkDead(S[t], o), q[t], o)]
       /\ requests' = [t \in Tasks |-> [n \in Names |->
                          IF q[t][n] = o THEN NoObject ELSE q[t][n]]]
       /\ transit' = transit \ {o}
       /\ port' = [port EXCEPT ![o] = "dead"]

(* release_unreferenced_*: a kernel object that no name, message or kernel *)
(* structure has a send right to goes; the ports of tasks are held.        *)
Transient(o) == port[o] = "kernel" /\ \A t \in Tasks : self[t] # o
Release(S, o) ==
    \/ port' = port
    \/ /\ Transient(o)
       /\ SendReferences(S, o) = {}
       /\ port' = [port EXCEPT ![o] = "dead"]

-----------------------------------------------------------------------------
(* initialize_root and inherit_child: the task port at its fixed name, a   *)
(* special port, if it is set, at the name the parent has for it, and a    *)
(* right to the task port for the parent (which may be outside Tasks).     *)
CreateTask(t, o, special, preferred, parent) ==
    LET s == Install(EmptySpace, 1, o, "Send")
    IN /\ self[t] = NoObject
       /\ exiting = NoObject
       /\ port[o] = "unborn"
       /\ special # NoObject => port[special] \in Live
       /\ parent # NoObject => Runs(parent) /\ CanCopyout(spaces[parent], o, "Send")
       /\ spaces' = [u \in Tasks |->
              CASE u = t -> IF special = NoObject THEN s
                            ELSE CopyoutAtName(s, special, "Send", preferred)
                [] u = parent -> Copyout(spaces[u], o, "Send")
                [] OTHER -> spaces[u]]
       /\ self' = [self EXCEPT ![t] = o]
       /\ port' = [port EXCEPT ![o] = "kernel"]
       /\ UNCHANGED <<transit, requests, exiting>>

KernelCreates(o) ==
    /\ exiting = NoObject
    /\ port[o] = "unborn"
    /\ port' = [port EXCEPT ![o] = "kernel"]
    /\ UNCHANGED <<spaces, self, transit, requests, exiting>>

(* Lifecycle::allocate_locked, with or without a name; a dead name never   *)
(* gets the one asked for.                                                 *)
Backing(r) == CASE r = "Receive" -> "guest" [] r = "PortSet" -> "set" [] OTHER -> "dead"
PortAllocate(t, o, r) ==
    /\ Runs(t)
    /\ port[o] = "unborn"
    /\ port' = [port EXCEPT ![o] = Backing(r)]
    /\ \/ /\ Candidates(spaces[t]) # {}
          /\ spaces' = [spaces EXCEPT ![t] = Allocate(@, o, r)]
       \/ \E n \in Names :
             /\ r # "DeadName"
             /\ ~Contains(spaces[t], n)
             /\ spaces' = [spaces EXCEPT ![t] = Install(@, n, o, r)]
    /\ UNCHANGED <<self, transit, requests, exiting>>

(* PortCopyout: a message or the kernel gives a right to the task.         *)
Arrives(o, r) ==
    \/ r = "Send" /\ port[o] \in Live
    \/ r = "SendOnce" /\ port[o] = "guest"
    \/ r = "Receive" /\ o \in transit
PortCopyout(t, o, r) ==
    /\ Runs(t)
    /\ Arrives(o, r)
    /\ CanCopyout(spaces[t], o, r)
    /\ spaces' = [spaces EXCEPT ![t] = Copyout(@, o, r)]
    /\ transit' = IF r = "Receive" THEN transit \ {o} ELSE transit
    /\ UNCHANGED <<self, port, requests, exiting>>

CopyoutOfDead(t, o) ==
    /\ Runs(t)
    /\ port[o] \in {"dead", "closed"}
    /\ spaces' = [u \in Tasks |-> MarkDead(spaces[u], o)]
    /\ UNCHANGED <<self, port, transit, requests, exiting>>

\* Mutant: the request on a moved right stays behind.
MoveKeepsRequest(t, n, r) ==
    LET o == spaces[t].entries[n].object
        S == [spaces EXCEPT ![t] = IF r = "Receive" THEN RemoveType(@, n, r)
                                   ELSE ModifyReferences(@, n, r, -1)]
    IN /\ Runs(t)
       /\ Has(spaces[t], n, r)
       /\ spaces' = S
       /\ transit' = IF r = "Receive" THEN transit \cup {o} ELSE transit
       /\ UNCHANGED <<self, port, requests, exiting>>

(* consume_moved_right_locked: the right leaves in a message.              *)
MoveRight(t, n, r) ==
    LET o == spaces[t].entries[n].object
        S == [spaces EXCEPT ![t] = IF r = "Receive" THEN RemoveType(@, n, r)
                                   ELSE ModifyReferences(@, n, r, -1)]
    IN /\ Runs(t)
       /\ Has(spaces[t], n, r)
       /\ spaces' = S
       /\ requests' = CancelledIfGone(S, t, n)
       /\ transit' = IF r = "Receive" THEN transit \cup {o} ELSE transit
       /\ UNCHANGED <<self, port, exiting>>

(* Rights::insert_object_locked: the name is free, or is the one the task  *)
(* has for the object.  A receive right that cannot be inserted is lost.   *)
Insertable(s, n, o, r) ==
    LET owned == IF NameFor(s, o, "Receive") # {} THEN NameFor(s, o, "Receive")
                 ELSE NameFor(s, o, "Send")
    IN IF r = "SendOnce" \/ owned = {}
       THEN ~Contains(s, n)
       ELSE n = Min(owned) /\ (r = "Send" => s.entries[n].refs[r] < Limit(r))
InsertRight(t, n, o, r) ==
    /\ Runs(t)
    /\ Arrives(o, r)
    /\ IF Insertable(spaces[t], n, o, r)
       THEN /\ spaces' = [spaces EXCEPT ![t] = Install(@, n, o, r)]
            /\ transit' = IF r = "Receive" THEN transit \ {o} ELSE transit
            /\ UNCHANGED <<port, requests>>
       ELSE /\ r = "Receive"
            /\ Terminate(spaces, requests, o)
    /\ UNCHANGED <<self, exiting>>

(* mach_port_rename moves the request with the name; map::insert keeps a   *)
(* request that is there already.                                          *)
Rename(t, n, m) ==
    /\ Runs(t)
    /\ Contains(spaces[t], n)
    /\ ~Contains(spaces[t], m)
    /\ spaces' = [spaces EXCEPT ![t] = RenameEntry(@, n, m)]
    /\ requests' = [requests EXCEPT ![t][n] = NoObject,
                                    ![t][m] = IF @ = NoObject THEN requests[t][n] ELSE @]
    /\ UNCHANGED <<self, port, transit, exiting>>

(* destroy_port_name_locked.                                               *)
Destroy(t, n) ==
    LET e == spaces[t].entries[n]
        S == [spaces EXCEPT ![t] = DestroyEntry(@, n)]
    IN /\ Contains(spaces[t], n)
       /\ IF "Receive" \in e.type
          THEN Terminate(S, Cancelled(t, n), e.object)
          ELSE /\ spaces' = S
               /\ requests' = Cancelled(t, n)
               /\ IF "PortSet" \in e.type
                  THEN port' = [port EXCEPT ![e.object] = "dead"]
                  ELSE IF "Send" \in e.type THEN Release(S, e.object) ELSE port' = port
               /\ transit' = transit
DestroyName(t, n) == Runs(t) /\ Destroy(t, n) /\ UNCHANGED <<self, exiting>>

(* modify_port_references_locked: a receive right, a port set and a        *)
(* send-once right have one reference to give up.                          *)
DropWhole(t, n, r) ==
    LET e == spaces[t].entries[n]
        S == [spaces EXCEPT ![t] = RemoveType(@, n, r)]
        q == IF r # "PortSet" THEN CancelledIfGone(S, t, n) ELSE requests
    IN /\ Runs(t)
       /\ r \in e.type
       /\ IF r = "Receive"
          THEN Terminate(S, q, e.object)
          ELSE /\ spaces' = S
               /\ requests' = q
               /\ port' = IF r = "PortSet" THEN [port EXCEPT ![e.object] = "dead"] ELSE port
               /\ transit' = transit
       /\ UNCHANGED <<self, exiting>>

ModRefs(t, n, r, delta) ==
    LET e == spaces[t].entries[n]
        S == [spaces EXCEPT ![t] = ModifyReferences(@, n, r, delta)]
    IN /\ Runs(t)
       /\ r \in e.type
       /\ e.refs[r] + delta \in 0..Limit(r)
       /\ spaces' = S
       /\ requests' = CancelledIfGone(S, t, n)
       /\ IF r = "Send" /\ e.refs[r] + delta = 0 THEN Release(S, e.object) ELSE port' = port
       /\ UNCHANGED <<self, transit, exiting>>

(* mach_port_request_notification for the death of a name; on a dead name  *)
(* it is answered at once and adds a reference.                            *)
RequestDeadName(t, n) ==
    LET e == spaces[t].entries[n]
    IN /\ Runs(t)
       /\ IF e.type \cap PortRights # {}
          THEN /\ port[e.object] \in Live
               /\ requests' = [requests EXCEPT ![t][n] = e.object]
               /\ spaces' = spaces
          ELSE /\ "DeadName" \in e.type
               /\ e.refs["DeadName"] < MaxRefs
               /\ spaces' = [spaces EXCEPT ![t] = ModifyReferences(@, n, "DeadName", 1)]
               /\ requests' = requests
       /\ UNCHANGED <<self, port, transit, exiting>>

(* A request is withdrawn, or used up as a send-possible notification.     *)
ForgetRequest(t, n) ==
    /\ Runs(t)
    /\ requests[t][n] # NoObject
    /\ requests' = Cancelled(t, n)
    /\ UNCHANGED <<spaces, self, port, transit, exiting>>

(* A message with a receive right is discarded; the kernel ends a port of  *)
(* its own, or its last right in a message or in the kernel.               *)
TerminateUnowned(o) ==
    /\ exiting = NoObject
    /\ o \in transit \/ Transient(o)
    /\ Terminate(spaces, requests, o)
    /\ UNCHANGED <<self, exiting>>

ReleaseHeld(o) ==
    /\ exiting = NoObject
    /\ Transient(o)
    /\ SendReferences(spaces, o) = {}
    /\ port' = [port EXCEPT ![o] = "dead"]
    /\ UNCHANGED <<spaces, self, transit, requests, exiting>>

(* IOServiceClose: mark_object_dead, remove_port_object_locked and         *)
(* deallocate, which gives up one reference of the caller's dead name.     *)
ServiceClose(t, n) ==
    LET o == spaces[t].entries[n].object
        S == [u \in Tasks |-> MarkDead(spaces[u], o)]
    IN /\ Runs(t)
       /\ Has(spaces[t], n, "Send")
       /\ Transient(o)
       /\ spaces' = [S EXCEPT ![t] = ModifyReferences(@, n, "DeadName", -1)]
       /\ port' = [port EXCEPT ![o] = "closed"]
       /\ UNCHANGED <<self, transit, requests, exiting>>

(* release_process_mach_rights of an exiting process, under one lock: its  *)
(* names without receive rights first, then the others, its port, its      *)
(* space.                                                                  *)
Exit(t) ==
    /\ Runs(t)
    /\ exiting' = t
    /\ UNCHANGED <<spaces, self, port, transit, requests>>

ExitDestroys(t, n) ==
    /\ exiting = t
    /\ Has(spaces[t], n, "Receive") =>
          \A m \in Names : Contains(spaces[t], m) => Has(spaces[t], m, "Receive")
    /\ Destroy(t, n)
    /\ UNCHANGED <<self, exiting>>

ExitEnds(t) ==
    LET S == [spaces EXCEPT ![t] = EmptySpace]
        q == [requests EXCEPT ![t] = [n \in Names |-> NoObject]]
    IN /\ exiting = t
       /\ \A n \in Names : ~Contains(spaces[t], n)
       /\ IF port[self[t]] \in Live
          THEN Terminate(S, q, self[t])
          ELSE spaces' = S /\ requests' = q /\ UNCHANGED <<port, transit>>
       /\ self' = [self EXCEPT ![t] = NoObject]
       /\ exiting' = NoObject

Next ==
    \/ \E o \in Objects :
          \/ KernelCreates(o) \/ TerminateUnowned(o) \/ ReleaseHeld(o)
          \/ \E t \in Tasks :
                \/ \E special \in Objects \cup {NoObject}, n \in Names,
                      parent \in Tasks \cup {NoObject} : CreateTask(t, o, special, n, parent)
                \/ \E r \in {"Receive", "PortSet", "DeadName"} : PortAllocate(t, o, r)
                \/ \E r \in PortRights :
                      \/ PortCopyout(t, o, r)
                      \/ \E n \in Names : InsertRight(t, n, o, r)
                \/ CopyoutOfDead(t, o)
    \/ \E t \in Tasks :
          \/ \E n \in Names :
                \/ \E r \in PortRights : MoveRight(t, n, r)
                \/ \E m \in Names : Rename(t, n, m)
                \/ DestroyName(t, n) \/ ExitDestroys(t, n)
                \/ \E r \in {"Receive", "PortSet", "SendOnce"} : DropWhole(t, n, r)
                \/ \E r \in {"Send", "DeadName"}, delta \in {-2, -1, 1} :
                      ModRefs(t, n, r, delta)
                \/ RequestDeadName(t, n) \/ ForgetRequest(t, n)
                \/ ServiceClose(t, n)
          \/ Exit(t) \/ ExitEnds(t)

Spec == Init /\ [][Next]_vars

-----------------------------------------------------------------------------
Entries == [object: Objects \cup {NoObject}, type: SUBSET Rights,
            refs: [Rights -> 0..MaxRefs]]

(* A right has references exactly while the entry has it, within its limit *)
(* (a send right keeps one in reserve for its death).                      *)
TypeOK ==
    /\ spaces \in [Tasks -> [next_name: FirstDynamic..LastName,
                             entries: [Names -> Entries],
                             index: [Objects -> [names: SUBSET Names,
                                                 rights: SUBSET Rights]]]]
    /\ \A t \in Tasks, n \in Names :
          LET e == spaces[t].entries[n]
          IN /\ e.object = NoObject <=> e.type = {}
             /\ \A r \in Rights : /\ r \in e.type <=> e.refs[r] > 0
                                  /\ e.refs[r] <= Limit(r)
    /\ self \in [Tasks -> Objects \cup {NoObject}]
    /\ port \in [Objects -> Ports]
    /\ transit \subseteq Objects
    /\ requests \in [Tasks -> [Names -> Objects \cup {NoObject}]]
    /\ exiting \in Tasks \cup {NoObject}

(* The index of a space is what a scan of its entries would find.          *)
IndexAgrees ==
    \A t \in Tasks, o \in Objects :
        LET s == spaces[t]
            named == {n \in Names : s.entries[n].object = o}
        IN s.index[o] = [names |-> named, rights |-> Types(s, named)]

(* A task has one name for its send and receive rights to a port, and a    *)
(* name of its own for each send-once right.                               *)
CapabilityNamedOnce ==
    \A t \in Tasks, n \in Names :
        LET e == spaces[t].entries[n]
        IN /\ "SendOnce" \in e.type => e.type = {"SendOnce"} /\ e.refs["SendOnce"] = 1
           /\ \A m \in Names \ {n} :
                 /\ e.type \cap {"Send", "Receive"} # {}
                 /\ spaces[t].entries[m].object = e.object
                 => spaces[t].entries[m].type \cap {"Send", "Receive"} = {}

(* A dead-name request is on a name that has a right to its target, unless *)
(* the target was closed as an IOKit connection (ServiceClose leaves the   *)
(* requests on it; terminate_receive_object_locked answers them).          *)
RequestsNamed ==
    \A t \in Tasks, n \in Names :
        LET e == spaces[t].entries[n]
        IN requests[t][n] # NoObject /\ port[requests[t][n]] # "closed" =>
              e.object = requests[t][n] /\ e.type \cap PortRights # {}
=============================================================================
