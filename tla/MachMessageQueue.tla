-------------------------- MODULE MachMessageQueue --------------------------
(***************************************************************************)
(* The message queues of Mach ports: admission of senders, direct handoff  *)
(* to blocked receivers, port sets, and the readiness hints that let the   *)
(* session poll only the receives that may have something to receive.      *)
(*                                                                         *)
(* kernel/mach_send_wait_queue.hpp and mach_receive_wait_queue.hpp hold    *)
(* the blocked threads, kernel_shared_state.hpp the queues, the port sets  *)
(* and their preposts, kernel/mach/send.cpp, ipc.cpp, receive_wait.cpp and *)
(* send_possible.cpp the operations.  Every operation holds mach_mutex, so *)
(* each is one action; guest threads interleave between them.              *)
(*                                                                         *)
(* Left out: the rights a message carries, its bytes (only whether it fits *)
(* the buffer of a receiver that asks for the size), quality of service,   *)
(* and the port that receives the send-possible notifications.  The        *)
(* receivers belong to one task, which owns the port sets; a receive right *)
(* may leave that task in a message and come back.                         *)
(***************************************************************************)
EXTENDS Integers, Sequences, FiniteSets, Queues

CONSTANTS Ports,         \* objects of mach_port_objects
          Sets,          \* objects of mach_port_sets
          Senders,       \* guest threads that send
          Receivers,     \* guest threads that receive
          VsyncPorts,    \* ports a display registration posts to
          Limits,        \* values mach_port_set_attributes may give queue_limit
          DefaultLimit,  \* default_queue_limit
          Sizes,         \* sizes of message: {FALSE}, or BOOLEAN with big ones
          MaxPosts,      \* bound: messages posted to one port
          MaxFailures    \* bound: sequence numbers used up by failed copyouts

Objects == Ports \cup Sets
Links == Sets \X Ports
Names == Senders \X Ports                 \* the name by which a sender knows a port
Dues == {"never", "later", "passed"}      \* a deadline, and the clock against it
Buffers == {"ample", "report"}            \* report: MACH_RCV_LARGE, too small for a big message

ASSUME ObjectsAssumption == /\ Ports \cap Sets = {}
                            /\ VsyncPorts \subseteq Ports
                            /\ Receivers \cap Links = {}
                            /\ Sizes \subseteq BOOLEAN
                            /\ IsFiniteSet(Senders)
ASSUME LimitsAssumption == /\ Limits \subseteq Nat
                           /\ DefaultLimit \in Limits
                           /\ MaxPosts \in Nat /\ MaxFailures \in Nat

VARIABLES live,      \* the ports and sets that exist
          held,      \* the objects whose receive or port-set right the task holds
          queue,     \* mach_queues
          limit,     \* PortObject::queue_limit
          posted,    \* history: messages posted to the port so far
          sequence,  \* PortObject::sequence_number
          members,   \* mach_port_sets
          order,     \* wait_queue_sequence order of the receives and set links
          preposts,  \* mach_port_set_preposts
          ticket,    \* MachSendWaitQueue::Ticket of each blocked sender
          waiters,   \* MachSendWaitQueue::Queue::tickets of each port
          reserved,  \* MachSendWaitQueue::Queue::reserved
          receive,   \* PendingMachReceive and its wait ticket, by thread
          handed,    \* the message of a ticket that is MessageReady
          request,   \* send-possible requests, and whether each is armed
          armed      \* mach_send_possible_armed_destinations

topology == <<live, held, members>>
store == <<queue, posted, sequence, preposts>>
sending == <<ticket, waiters, reserved>>
receiving == <<receive, handed, order>>
notices == <<request, armed>>
vars == <<topology, store, limit, sending, receiving, notices>>

Messages == [number : Nat, big : BOOLEAN, vsync : BOOLEAN]
SendStates == {"Waiting", "Granted", "TimedOut", "Interrupted", "Destroyed"}
Tickets == [state : SendStates, port : Ports, due : Dues, big : BOOLEAN,
            notify : BOOLEAN]
ReceiveStates == {"Waiting", "MessageReady", "TooLarge", "TimedOut", "PortChanged"}
\* seen: observed_queue_generation is the generation of the object.
Receives == [object : Objects, buffer : Buffers, due : Dues, seen : BOOLEAN,
             state : ReceiveStates]
\* moved: the port has changed hands since the message was numbered.
Deliveries == [port : Ports, number : Nat, sequence : Nat, moved : BOOLEAN]

(***************************************************************************)
(* Sequences and partial functions.                                        *)
(***************************************************************************)
Drop(s, x) == Erased(s, {x})
Position(s, x) == CHOOSE i \in DOMAIN s : s[i] = x
With(f, x, v) == [y \in DOMAIN f \cup {x} |-> IF y = x THEN v ELSE f[y]]
Without(f, X) == [y \in DOMAIN f \ X |-> f[y]]

(***************************************************************************)
(* Blocked senders.                                                        *)
(***************************************************************************)
\* mach_message_count_locked: queued messages and slots promised to senders.
Depth(p) == Len(queue[p]) + reserved[p]

\* A ticket that can still be granted a slot.
Grantable(tk, s) == tk[s].state = "Waiting" /\ tk[s].due # "passed"
GrantableBefore(tk, w, s) ==
    Cardinality({i \in 1 .. (Position(w, s) - 1) : Grantable(tk, w[i])})

\* Mutant: a slot goes to the sender that has waited least.
GrantLatest(tk, w, n) ==
    [s \in DOMAIN tk |->
        IF s \in ToSet(w) /\ Grantable(tk, s)
           /\ Cardinality({i \in DOMAIN w : i > Position(w, s) /\ Grantable(tk, w[i])}) < n
        THEN [tk[s] EXCEPT !.state = "Granted"] ELSE tk[s]]

\* grant: n slots go to the first waiting senders; tickets whose deadline has
\* passed are retired on the way, up to the sender that finds no slot left.
\* It is not called for n = 0.
Grant(tk, w, n) ==
    [s \in DOMAIN tk |->
        IF n = 0 \/ s \notin ToSet(w) \/ tk[s].state # "Waiting" THEN tk[s]
        ELSE IF tk[s].due = "passed"
             THEN IF GrantableBefore(tk, w, s) <= n
                  THEN [tk[s] EXCEPT !.state = "TimedOut"] ELSE tk[s]
             ELSE IF GrantableBefore(tk, w, s) < n
                  THEN [tk[s] EXCEPT !.state = "Granted"] ELSE tk[s]]

NewlyGranted(old, new) ==
    Cardinality({s \in DOMAIN new : new[s].state = "Granted" /\ old[s].state # "Granted"})

\* Mutant: a dequeue promises its slot only once the queue has drained.
DequeueSlotsWhenEmpty(p, depth) == IF p \in live /\ depth = 0 THEN 1 ELSE 0

\* The slots a dequeue from p promises, when depth messages remain.
DequeueSlots(p, depth) == IF p \in live /\ depth < limit[p] THEN 1 ELSE 0

\* The slots a new limit promises, and those a terminated sender leaves.
LimitSlots(p, v) == IF v > limit[p] THEN v - limit[p] ELSE 0
FreeSlots(p, depth) == IF p \in live /\ depth < limit[p] THEN limit[p] - depth ELSE 0

\* Mutant: a sender that posts keeps its reservation.
ReleasedLate(s) == reserved

\* The part of retire and cancel that gives a promised slot back.
Released(s) ==
    [reserved EXCEPT ![ticket[s].port] = IF ticket[s].state = "Granted" THEN @ - 1 ELSE @]

\* Mutant: a granted ticket survives the destruction of its port.
DestroyedWaitersOnly(p) ==
    [s \in DOMAIN ticket |->
        IF ticket[s].port = p /\ ticket[s].state = "Waiting"
        THEN [ticket[s] EXCEPT !.state = "Destroyed"] ELSE ticket[s]]

\* destroy: no ticket of the port waits or owns a slot any longer.
DestroyedTickets(p) ==
    [s \in DOMAIN ticket |->
        IF ticket[s].port # p \/ ticket[s].state \notin {"Waiting", "Granted"}
        THEN ticket[s]
        ELSE [ticket[s] EXCEPT
                !.state = IF @ = "Waiting" /\ ticket[s].due = "passed"
                          THEN "TimedOut" ELSE "Destroyed"]]

\* notify_send_possible_locked, when p holds depth messages of lim.
ArmedOn(p) == {n \in DOMAIN request : n[2] = p /\ request[n]}
Notified(p, depth, lim) ==
    IF p \in armed \cap live /\ depth < lim THEN Without(request, ArmedOn(p)) ELSE request

\* Mutant: a full port forgets that a name on it is armed.
StillArmedOnce(p, depth, lim) == armed \ {p}

StillArmed(p, depth, lim) ==
    IF p \in live /\ depth >= lim /\ ArmedOn(p) # {} THEN armed ELSE armed \ {p}

(***************************************************************************)
(* Blocked receivers.                                                      *)
(***************************************************************************)
Linked(p) == {s \in Sets : <<s, p>> \in ToSet(order)}

\* Mutant: an enqueue wakes the receivers of the port, not those of its sets.
PostWakesDirect(p) == {p}

\* The objects whose generation an enqueue on p advances.
PostWakes(p) == {p} \cup Linked(p)

\* ReceiveQueueGeneration::note_enqueue: receives on the objects poll again.
Unseen(rc, objects) ==
    [r \in DOMAIN rc |->
        IF rc[r].object \in objects THEN [rc[r] EXCEPT !.seen = FALSE] ELSE rc[r]]

\* pending_mach_receive_is_usable_locked
Usable(rec) == rec.object \in live \cap held

\* The place of a receive in the compound FIFO of a port: a direct receiver is
\* an element of its own, the receivers of a set share the element of its link.
Element(rc, r, p) == IF rc[r].object = p THEN r ELSE <<rc[r].object, p>>
Before(rc, ord, p, r1, r2) ==
    LET e1 == Position(ord, Element(rc, r1, p))
        e2 == Position(ord, Element(rc, r2, p))
    IN \/ e1 < e2
       \/ e1 = e2 /\ Position(ord, r1) < Position(ord, r2)
Earliest(rc, ord, p, C) == CHOOSE r \in C : \A x \in C \ {r} : Before(rc, ord, p, r, x)

\* The receives that wait for p, directly or through a set.
Waiting(rc, p) == {r \in DOMAIN rc : /\ rc[r].state = "Waiting"
                                     /\ rc[r].object \in {p} \cup Linked(p)}

\* preferred_pending_mach_receiver_locked, without completed receives.
Eligible(rc, p) == {r \in Waiting(rc, p) : Usable(rc[r])}
Preferred(rc, ord, p, r) ==
    /\ r \in Eligible(rc, p)
    /\ r = Earliest(rc, ord, p, Eligible(rc, p))

\* handoff_mach_message_locked: why a waiting receiver does not take message m.
Refusal(rec, m) ==
    CASE ~ Usable(rec) -> "PortChanged"
      [] Usable(rec) /\ rec.due = "passed" -> "TimedOut"
      [] Usable(rec) /\ rec.due # "passed" /\ m.big /\ rec.buffer = "report" -> "TooLarge"
      [] OTHER -> "none"
Takers(p, m) == {r \in Waiting(receive, p) : Refusal(receive[r], m) = "none"}

\* Mutant: a waiting receiver takes the new message past the queued ones.
HandsOffEagerly(p, m) == Takers(p, m) # {}

\* An older queued message must win over a newly arriving one.
HandsOff(p, m) == queue[p] = <<>> /\ Takers(p, m) # {}

\* The waiting receivers the handoff passes over before it finds its taker.
PassedOver(p, m) ==
    IF queue[p] # <<>> THEN {}
    ELSE {r \in Waiting(receive, p) \ Takers(p, m) :
              \A t \in Takers(p, m) : Before(receive, order, p, r, t)}

\* The receives after message m reached p and the receivers in takers.
AfterPost(p, m, takers) ==
    [r \in DOMAIN receive |->
        IF r \in PassedOver(p, m)
        THEN [receive[r] EXCEPT !.state = Refusal(receive[r], m)]
        ELSE IF r \in takers THEN [receive[r] EXCEPT !.state = "MessageReady"]
        ELSE receive[r]]

\* Mutant: one of the sets of p learns that it is ready.
PrepostedOnce(p) ==
    [s \in Sets |-> IF s \in Linked(p) /\ s = (CHOOSE x \in Linked(p) : TRUE)
                    THEN Append(Drop(preposts[s], p), p) ELSE preposts[s]]

\* The prepost queues after p became ready, and after all but len messages left.
Preposted(p) ==
    [s \in Sets |-> IF s \in Linked(p) /\ p \notin ToSet(preposts[s])
                    THEN Append(preposts[s], p) ELSE preposts[s]]

Unposted(pp, p, len) ==
    [s \in Sets |-> IF s \in Linked(p) /\ len = 0 THEN Drop(pp[s], p) ELSE pp[s]]

\* The selected member moves to the tail of the ready members of the set.
Rotated(o, p) ==
    [s \in Sets |-> IF s = o /\ Len(preposts[s]) > 1
                    THEN Append(Drop(preposts[s], p), p) ELSE preposts[s]]

(***************************************************************************)
(* Steps shared by several operations.                                     *)
(***************************************************************************)
\* Promise n slots of p, whose queue holds len messages of lim, on top of the
\* tickets tk in queues wq with reservations rs; notify the names armed on p;
\* a grant advances the generation of p, which the receives rc observe.
Settle(p, len, lim, n, tk, wq, rs, rc) ==
    LET granted == Grant(tk, wq[p], n)
        depth == len + rs[p] + NewlyGranted(tk, granted)
    IN /\ ticket' = granted
       /\ waiters' = wq
       /\ reserved' = [rs EXCEPT ![p] = @ + NewlyGranted(tk, granted)]
       /\ request' = Notified(p, depth, lim)
       /\ armed' = StillArmed(p, depth, lim)
       /\ receive' = IF granted = tk THEN rc ELSE Unseen(rc, {p})

\* note_mach_message_dequeued_locked, with prepost queues pp.
NoteDequeued(p, len, tk, wq, rs, rc, pp) ==
    /\ Settle(p, len, limit[p], DequeueSlots(p, len + rs[p]), tk, wq, rs, rc)
    /\ preposts' = Unposted(pp, p, len)

\* enqueue_mach_message_locked, with the senders tk, wq and rs.
Post(p, big, vsync, tk, wq, rs) ==
    LET m == [number |-> posted[p], big |-> big, vsync |-> vsync]
        taker == Earliest(receive, order, p, Takers(p, m))
    IN /\ posted' = [posted EXCEPT ![p] = @ + 1]
       /\ IF HandsOff(p, m)
          THEN /\ handed' = With(handed, taker,
                              [port |-> p, number |-> posted[p],
                               sequence |-> sequence[p], moved |-> FALSE])
               /\ sequence' = [sequence EXCEPT ![p] = @ + 1]
               /\ NoteDequeued(p, Len(queue[p]), tk, wq, rs,
                               Unseen(AfterPost(p, m, {taker}), PostWakes(p)), preposts)
               /\ UNCHANGED queue
          ELSE /\ queue' = [queue EXCEPT ![p] = Append(@, m)]
               /\ preposts' = IF queue[p] = <<>> THEN Preposted(p) ELSE preposts
               /\ receive' = Unseen(AfterPost(p, m, {}), PostWakes(p))
               /\ ticket' = tk /\ waiters' = wq /\ reserved' = rs
               /\ UNCHANGED <<sequence, handed, notices>>
       /\ UNCHANGED <<topology, limit, order>>

(***************************************************************************)
(* Sending and kernel messages.                                            *)
(***************************************************************************)
\* Bound: every ticket may still post its message.
MayPost(p) ==
    posted[p] + Cardinality({s \in DOMAIN ticket : ticket[s].port = p}) < MaxPosts

\* mach_msg with MACH_SEND_MSG while the port accepts a message.
SendAtOnce(p, big) ==
    /\ p \in live /\ MayPost(p)
    /\ Depth(p) < limit[p]
    /\ Post(p, big, FALSE, ticket, waiters, reserved)

\* Notifications, kernel replies and send-once rights bypass the limit.
KernelSend(p, big) ==
    /\ p \in live /\ MayPost(p)
    /\ Post(p, big, FALSE, ticket, waiters, reserved)

\* mach_msg on a full port: the sender blocks, perhaps with a deadline.
BlockSend(s, p, big, due, notify) ==
    /\ s \notin DOMAIN ticket
    /\ p \in live /\ MayPost(p)
    /\ Depth(p) >= limit[p]
    /\ ticket' = With(ticket, s, [state |-> "Waiting", port |-> p, due |-> due,
                                  big |-> big, notify |-> notify])
    /\ waiters' = [waiters EXCEPT ![p] = Append(@, s)]
    /\ UNCHANGED <<topology, store, limit, reserved, receiving, notices>>

\* arm_send_possible: the request of a name, if there is one, waits for room.
Arm(n) ==
    /\ request' = IF n \in DOMAIN request THEN With(request, n, TRUE) ELSE request
    /\ armed' = IF n \in DOMAIN request THEN armed \cup {n[2]} ELSE armed

\* MACH_SEND_NOTIFY with a zero timeout on a full port.
SendTimesOutAtOnce(s, p) ==
    /\ s \notin DOMAIN ticket
    /\ p \in live
    /\ Depth(p) >= limit[p]
    /\ <<s, p>> \in DOMAIN request
    /\ Arm(<<s, p>>)
    /\ UNCHANGED <<topology, store, limit, sending, receiving>>

Ready(s) == ticket[s].state # "Waiting" \/ ticket[s].due = "passed"

\* complete_pending_mach_send: the sender's thread runs again.
CompleteSend(s) ==
    /\ s \in DOMAIN ticket
    /\ Ready(s)
    /\ LET p == ticket[s].port
           tk == Without(ticket, {s})
           wq == [waiters EXCEPT ![p] = Drop(@, s)]
       IN \/ /\ ticket[s].state = "Granted"
             /\ Post(p, ticket[s].big, FALSE, tk, wq, Released(s))
          \/ /\ ticket[s].state # "Granted"
             /\ ticket' = tk /\ waiters' = wq /\ reserved' = Released(s)
             /\ IF ticket[s].state \in {"Waiting", "TimedOut"} /\ ticket[s].notify
                THEN Arm(<<s, p>>) ELSE UNCHANGED notices
             /\ UNCHANGED <<topology, store, limit, receiving>>

\* A signal or thread_abort reaches a sender that is not ready.
InterruptSend(s) ==
    /\ s \in DOMAIN ticket
    /\ ~ Ready(s)
    /\ ticket' = [ticket EXCEPT ![s].state = "Interrupted"]
    /\ UNCHANGED <<topology, store, limit, waiters, reserved, receiving, notices>>

\* cancel_mach_sends_locked, when the sender's thread ends.
TerminateSender(s) ==
    /\ s \in DOMAIN ticket
    /\ LET p == ticket[s].port
           len == Len(queue[p])
       IN Settle(p, len, limit[p], FreeSlots(p, len + Released(s)[p]),
                 Without(ticket, {s}), [waiters EXCEPT ![p] = Drop(@, s)],
                 Released(s), receive)
    /\ UNCHANGED <<topology, store, limit, handed, order>>

\* mach_port_set_attributes with MACH_PORT_LIMITS_INFO.
SetLimit(p, v) ==
    /\ p \in live \cap held
    /\ limit' = [limit EXCEPT ![p] = v]
    /\ Settle(p, Len(queue[p]), v, LimitSlots(p, v), ticket, waiters, reserved, receive)
    /\ UNCHANGED <<topology, store, handed, order>>

\* mach_port_request_notification for send-possible; sync asks for an answer
\* as soon as there is room, which may be at once.
Register(n, sync) ==
    /\ n[2] \in live
    /\ \/ /\ sync /\ Depth(n[2]) < limit[n[2]]
          /\ request' = Without(request, {n})
          /\ UNCHANGED armed
       \/ /\ ~ (sync /\ Depth(n[2]) < limit[n[2]])
          /\ request' = With(request, n, sync)
          /\ armed' = IF sync THEN armed \cup {n[2]} ELSE armed
    /\ UNCHANGED <<topology, store, limit, sending, receiving>>

CancelRequest(n) ==
    /\ n \in DOMAIN request
    /\ request' = Without(request, {n})
    /\ UNCHANGED <<topology, store, limit, sending, receiving, armed>>

\* The clock reaches the deadline of a blocked sender or receiver.
ExpireSend(s) ==
    /\ s \in DOMAIN ticket
    /\ ticket[s].due = "later"
    /\ ticket' = [ticket EXCEPT ![s].due = "passed"]
    /\ UNCHANGED <<topology, store, limit, waiters, reserved, receiving, notices>>

ExpireReceive(r) ==
    /\ r \in DOMAIN receive
    /\ receive[r].due = "later"
    /\ receive' = [receive EXCEPT ![r].due = "passed"]
    /\ UNCHANGED <<topology, store, limit, sending, handed, order, notices>>

(***************************************************************************)
(* Receiving.                                                              *)
(***************************************************************************)
\* The queues a receive on o looks at, in order: its own port, or the ready
\* members of its set.
Sources(o) == IF o \in Ports THEN <<o>> ELSE preposts[o]
Nonempty(o) == {i \in DOMAIN Sources(o) : queue[Sources(o)[i]] # <<>>}
First(o, C) == Sources(o)[CHOOSE i \in C : \A j \in C : i <= j]

\* The sources a blocked receiver may take from.
Chosen(rc, ord, r) ==
    {i \in Nonempty(rc[r].object) : Preferred(rc, ord, Sources(rc[r].object)[i], r)}

\* The front message of p leaves the queue: delivered, or destroyed because it
\* is malformed or fits no buffer.
TakeFront(p, rc, pp) ==
    /\ queue' = [queue EXCEPT ![p] = Tail(@)]
    /\ sequence' = [sequence EXCEPT ![p] = @ + 1]
    /\ NoteDequeued(p, Len(queue[p]) - 1, ticket, waiters, reserved, rc, pp)

\* The receiver has no name for a right of the message or no memory for its
\* out-of-line data: it returns an error, and the message stays in the queue.
\* Bound: not from sequence number MaxFailures on.
FailCopyout(p, rc, pp) ==
    /\ sequence[p] < MaxFailures
    /\ sequence' = [sequence EXCEPT ![p] = @ + 1]
    /\ preposts' = pp /\ receive' = rc
    /\ UNCHANGED <<queue, sending, notices>>

\* MACH_RCV_LARGE: the receiver learns the size, and the message stays.
ReportSize(rc, pp) ==
    /\ preposts' = pp /\ receive' = rc
    /\ UNCHANGED <<queue, sequence, sending, notices>>

\* A receive on o, whose thread is no longer among the receives rc in the order
\* ord, has selected the queue of p.
Take(rc, ord, o, buffer, p) ==
    LET large == Head(queue[p]).big /\ buffer = "report"
        pp == IF p = o THEN preposts ELSE Rotated(o, p)
    IN /\ \/ large /\ ReportSize(rc, pp)
          \/ ~ large /\ TakeFront(p, rc, pp)
          \/ ~ large /\ FailCopyout(p, rc, pp)
       /\ order' = ord
       /\ UNCHANGED <<topology, posted, limit, handed>>

\* The receive of r is over; a message handed to it goes with it.
EndReceive(rc, ord, r) ==
    /\ receive' = Without(rc, {r})
    /\ order' = Drop(ord, r)
    /\ handed' = Without(handed, {r})
    /\ UNCHANGED <<topology, store, limit, sending, notices>>

\* deliver_pending_mach_locked: r looks at its ticket and at its queues.
Attempt(rc, ord, r) ==
    LET rec == rc[r]
        waits == rec.state = "Waiting" /\ Usable(rec)
        chosen == Chosen(rc, ord, r)
    IN \/ /\ waits /\ chosen # {}
          /\ Take(Without(rc, {r}), Drop(ord, r), rec.object, rec.buffer,
                  First(rec.object, chosen))
       \/ /\ ~ waits \/ (chosen = {} /\ rec.due = "passed")
          /\ EndReceive(rc, ord, r)
       \/ /\ waits /\ chosen = {} /\ rec.due # "passed"
          /\ receive' = [rc EXCEPT ![r].seen = (Nonempty(rec.object) = {})]
          /\ order' = ord
          /\ UNCHANGED <<topology, store, limit, sending, handed, notices>>

\* begin_mach_receive; a zero timeout has passed at once.
BeginReceive(r, o, buffer, due) ==
    /\ r \notin DOMAIN receive
    /\ o \in live \cap held
    /\ Attempt(With(receive, r, [object |-> o, buffer |-> buffer, due |-> due,
                                 seen |-> FALSE, state |-> "Waiting"]),
               Append(order, r), r)

\* mach_receive_poll_required_locked
PollRequired(r) == r \in DOMAIN receive /\ (~ receive[r].seen \/ receive[r].due = "passed")

\* deliver_pending_mach_if_ready_locked, on a pass of the session.
PollReceive(r) == PollRequired(r) /\ Attempt(receive, order, r)

\* Interruption, a firmware callback that retries the receive, or the end of
\* the thread.  Interruption polls first where a poll is required, and a thread
\* that ends completes a receive that has been handed a message.
AbandonReceive(r) ==
    /\ r \in DOMAIN receive
    /\ EndReceive(receive, order, r)

\* receive_kevent_mach_message: takes only what no blocked receiver is due.
KeventReceive(o, buffer) ==
    /\ o \in live \cap held
    /\ LET free == {i \in Nonempty(o) : Eligible(receive, Sources(o)[i]) = {}}
       IN free # {} /\ Take(receive, order, o, buffer, First(o, free))

(***************************************************************************)
(* Ports and port sets.                                                    *)
(***************************************************************************)
\* remove_mach_port_set_member_from_all_locked
Unlinked(p) == Erased(order, Sets \X {p})
OutOfAll(f, p) == [s \in Sets |-> Drop(f[s], p)]

\* consume_moved_right_locked: the receive right leaves in a message.
MoveReceive(p) ==
    /\ p \in Ports \cap live \cap held
    /\ held' = held \ {p}
    /\ members' = [s \in Sets |-> members[s] \ {p}]
    /\ preposts' = OutOfAll(preposts, p)
    /\ order' = Unlinked(p)
    /\ sequence' = [sequence EXCEPT ![p] = 0]
    /\ handed' = [r \in DOMAIN handed |->
                     [handed[r] EXCEPT !.moved = @ \/ handed[r].port = p]]
    /\ receive' = Unseen(receive, {p} \cup Linked(p))
    /\ UNCHANGED <<live, queue, posted, limit, sending, notices>>

\* Copyout of a receive right.
ReturnReceive(p) ==
    /\ p \in (Ports \cap live) \ held
    /\ held' = held \cup {p}
    /\ receive' = Unseen(receive, {p})
    /\ UNCHANGED <<live, members, store, limit, sending, handed, order, notices>>

\* terminate_receive_object_locked and remove_port_object_locked.
DestroyPort(p) ==
    /\ p \in Ports \cap live
    /\ live' = live \ {p}
    /\ held' = held \ {p}
    /\ members' = [s \in Sets |-> members[s] \ {p}]
    /\ preposts' = OutOfAll(preposts, p)
    /\ order' = Unlinked(p)
    /\ queue' = [queue EXCEPT ![p] = <<>>]
    /\ ticket' = DestroyedTickets(p)
    /\ reserved' = [reserved EXCEPT ![p] = 0]
    /\ request' = Without(request, Senders \X {p})
    /\ armed' = armed \ {p}
    /\ receive' = Unseen(receive, {p} \cup Linked(p))
    /\ UNCHANGED <<posted, sequence, limit, waiters, handed>>

\* Mutant: the receivers of the set do not learn of the new member.
InsertWakesMember(s, p) == {p}

\* Adding a populated port to a set can make a queued message newly visible.
InsertWakes(s, p) == {s, p}

\* insert_mach_port_set_member_locked
InsertMember(s, p) ==
    /\ {s, p} \subseteq live \cap held
    /\ p \notin members[s]
    /\ members' = [members EXCEPT ![s] = @ \cup {p}]
    /\ order' = Append(order, <<s, p>>)
    /\ preposts' = IF queue[p] # <<>> THEN [preposts EXCEPT ![s] = Append(@, p)] ELSE preposts
    /\ receive' = Unseen(receive, InsertWakes(s, p))
    /\ UNCHANGED <<live, held, queue, posted, sequence, limit, sending, handed, notices>>

\* extract_mach_port_set_member_locked
ExtractMember(s, p) ==
    /\ {s, p} \subseteq live \cap held
    /\ p \in members[s]
    /\ members' = [members EXCEPT ![s] = @ \ {p}]
    /\ order' = Drop(order, <<s, p>>)
    /\ preposts' = [preposts EXCEPT ![s] = Drop(@, p)]
    /\ receive' = Unseen(receive, {s, p})
    /\ UNCHANGED <<live, held, queue, posted, sequence, limit, sending, handed, notices>>

\* mach_port_move_member: out of every set, and into the sets of into (at most one).
MoveMember(p, into) ==
    /\ {p} \cup into \subseteq live \cap held
    /\ members' = [s \in Sets |-> IF s \in into THEN members[s] \cup {p} ELSE members[s] \ {p}]
    /\ order' = IF into = {} THEN Unlinked(p)
                ELSE Append(Unlinked(p), <<CHOOSE s \in into : TRUE, p>>)
    /\ preposts' = [s \in Sets |-> IF s \in into /\ queue[p] # <<>>
                                   THEN Append(Drop(preposts[s], p), p)
                                   ELSE Drop(preposts[s], p)]
    /\ receive' = Unseen(receive, Linked(p) \cup into \cup
                                  (IF Linked(p) \cup into = {} THEN {} ELSE {p}))
    /\ UNCHANGED <<live, held, queue, posted, sequence, limit, sending, handed, notices>>

\* erase_mach_port_set_locked
DestroySet(s) ==
    /\ s \in Sets \cap live
    /\ live' = live \ {s}
    /\ held' = held \ {s}
    /\ members' = [members EXCEPT ![s] = {}]
    /\ preposts' = [preposts EXCEPT ![s] = <<>>]
    /\ order' = Erased(order, {s} \X Ports)
    /\ receive' = Unseen(receive, {s} \cup members[s])
    /\ UNCHANGED <<queue, posted, sequence, limit, sending, handed, notices>>

(***************************************************************************)
(* Display pulses: at most one is queued, and a reconfiguration discards it.*)
(***************************************************************************)
VsyncPost(p) ==
    /\ p \in VsyncPorts \cap live /\ MayPost(p)
    /\ \A m \in ToSet(queue[p]) : ~ m.vsync
    /\ Post(p, FALSE, TRUE, ticket, waiters, reserved)

\* discard_queued_vsync_messages_locked
VsyncDiscard(p) ==
    /\ p \in VsyncPorts
    /\ \E m \in ToSet(queue[p]) : m.vsync
    /\ queue' = [queue EXCEPT ![p] = Erased(@, {m \in ToSet(@) : m.vsync})]
    /\ receive' = Unseen(receive, Objects)
    /\ UNCHANGED <<topology, posted, sequence, preposts, limit, sending, handed, order, notices>>

(***************************************************************************)
(* The specification.                                                      *)
(***************************************************************************)
Init ==
    /\ live = Objects /\ held = Objects
    /\ queue = [p \in Ports |-> <<>>]
    /\ limit = [p \in Ports |-> DefaultLimit]
    /\ posted = [p \in Ports |-> 0]
    /\ sequence = [p \in Ports |-> 0]
    /\ members = [s \in Sets |-> {}]
    /\ order = <<>>
    /\ preposts = [s \in Sets |-> <<>>]
    /\ ticket = [s \in {} |-> {}]
    /\ waiters = [p \in Ports |-> <<>>]
    /\ reserved = [p \in Ports |-> 0]
    /\ receive = [r \in {} |-> {}]
    /\ handed = [r \in {} |-> {}]
    /\ request = [n \in {} |-> {}]
    /\ armed = {}

SenderStep(s) ==
    \/ \E p \in Ports, big \in Sizes, due \in {"never", "later"}, notify \in BOOLEAN :
           BlockSend(s, p, big, due, notify)
    \/ \E p \in Ports : SendTimesOutAtOnce(s, p)
    \/ CompleteSend(s)
    \/ InterruptSend(s)
    \/ TerminateSender(s)
    \/ ExpireSend(s)

ReceiverStep(r) ==
    \/ \E o \in Objects, buffer \in Buffers, due \in Dues : BeginReceive(r, o, buffer, due)
    \/ PollReceive(r)
    \/ AbandonReceive(r)
    \/ ExpireReceive(r)

PortStep(p) ==
    \/ \E big \in Sizes : SendAtOnce(p, big)
    \/ \E big \in Sizes : KernelSend(p, big)
    \/ \E v \in Limits : SetLimit(p, v)
    \/ MoveReceive(p)
    \/ ReturnReceive(p)
    \/ DestroyPort(p)
    \/ \E s \in Sets : InsertMember(s, p)
    \/ \E s \in Sets : ExtractMember(s, p)
    \/ \E into \in {{}} \cup {{s} : s \in Sets} : MoveMember(p, into)
    \/ VsyncPost(p)
    \/ VsyncDiscard(p)

NoticeStep(n) ==
    \/ \E sync \in BOOLEAN : Register(n, sync)
    \/ CancelRequest(n)

Next ==
    \/ \E s \in Senders : SenderStep(s)
    \/ \E r \in Receivers : ReceiverStep(r)
    \/ \E p \in Ports : PortStep(p)
    \/ \E n \in Names : NoticeStep(n)
    \/ \E o \in Objects, buffer \in Buffers : KeventReceive(o, buffer)
    \/ \E s \in Sets : DestroySet(s)

Spec == Init /\ [][Next]_vars

\* The session visits every thread whose poll is required or whose ticket is ready.
FairSpec ==
    /\ Spec
    /\ \A s \in Senders : WF_vars(CompleteSend(s))
    /\ \A r \in Receivers : WF_vars(PollReceive(r))

(***************************************************************************)
(* Properties.                                                             *)
(***************************************************************************)
\* The types of the state.  reserved is an unsigned counter in the code
\* (mach_send_wait_queue.hpp): an unmatched decrement in retire or cancel would
\* make it huge and the port full for ever.
TypeOK ==
    /\ live \subseteq Objects /\ held \subseteq live
    /\ queue \in [Ports -> Seq(Messages)]
    /\ limit \in [Ports -> Limits]
    /\ posted \in [Ports -> 0 .. MaxPosts]
    /\ sequence \in [Ports -> Nat]
    /\ members \in [Sets -> SUBSET Ports]
    /\ \A i \in DOMAIN order : order[i] \in DOMAIN receive \/ order[i] \in Links
    /\ preposts \in [Sets -> Seq(Ports)]
    /\ DOMAIN ticket \subseteq Senders
    /\ \A s \in DOMAIN ticket : ticket[s] \in Tickets
    /\ waiters \in [Ports -> Seq(Senders)]
    /\ reserved \in [Ports -> Nat]
    /\ DOMAIN receive \subseteq Receivers
    /\ \A r \in DOMAIN receive : receive[r] \in Receives
    /\ DOMAIN handed = {r \in DOMAIN receive : receive[r].state = "MessageReady"}
    /\ \A r \in DOMAIN handed : handed[r] \in Deliveries
    /\ DOMAIN request \subseteq Names
    /\ \A n \in DOMAIN request : request[n] \in BOOLEAN
    /\ armed \subseteq Ports

\* The slots promised on a port are the tickets that own one: a grant, a post, a
\* cancellation and the destruction of the port keep the counter of
\* MachSendWaitQueue in step with the states of its tickets.
ReservationsAgree ==
    \A p \in Ports :
        reserved[p] = Cardinality({s \in DOMAIN ticket :
                                      ticket[s].port = p /\ ticket[s].state = "Granted"})

\* No sender sleeps on a port that has room: whichever of receive, handoff,
\* limit change, timeout or termination freed the slot, it went to a waiter.
NoStrandedSender ==
    \A s \in DOMAIN ticket :
        Grantable(ticket, s) /\ ticket[s].port \in live
            => Depth(ticket[s].port) >= limit[ticket[s].port]

\* Slots are granted in the order in which senders blocked (the list that grant
\* walks): nobody owns one while an earlier sender could still be given it.
GrantedInOrder ==
    \A p \in Ports : \A i, j \in DOMAIN waiters[p] :
        i < j /\ ticket[waiters[p][j]].state = "Granted"
            => ~ Grantable(ticket, waiters[p][i])

\* A name armed for a send-possible notification is on the list of ports that
\* notify_send_possible_locked looks at, or the notification would never come.
ArmedListed == \A n \in DOMAIN request : request[n] => n[2] \in armed

\* A receive whose cached generation says "nothing new" has nothing to do: no
\* handoff has completed it, its right is intact, and no message it would be
\* chosen for is queued, directly or in a set (ipc.cpp: "do not cache the
\* current generation as empty").
NoMissedReceive ==
    \A r \in DOMAIN receive :
        receive[r].seen => /\ receive[r].state = "Waiting"
                           /\ Usable(receive[r])
                           /\ Chosen(receive, order, r) = {}

\* The ready list of a set covers its nonempty members, once each and nothing
\* foreign, and the links by member agree with the sets: mach_port_sets,
\* mach_port_set_links_by_member and mach_port_set_preposts are three copies of
\* one relation, updated by seven operations.
PrepostsCover ==
    \A s \in Sets :
        /\ members[s] = {p \in Ports : s \in Linked(p)}
        /\ ToSet(preposts[s]) \subseteq members[s]
        /\ \A p \in members[s] : queue[p] # <<>> => p \in ToSet(preposts[s])
        /\ \A i, j \in DOMAIN preposts[s] : preposts[s][i] = preposts[s][j] => i = j

\* Direct handoff keeps the order of posting: what a suspended receiver has been
\* handed is older than everything queued, and sequence numbers grow in the order
\* of posting while the port stays with its receiver.
ReceiveOrder ==
    /\ \A p \in Ports : \A i, j \in DOMAIN queue[p] :
           i < j => queue[p][i].number < queue[p][j].number
    /\ \A r \in DOMAIN handed :
           /\ \A m \in ToSet(queue[handed[r].port]) : handed[r].number < m.number
           /\ ~ handed[r].moved => handed[r].sequence < sequence[handed[r].port]
           /\ \A x \in DOMAIN handed :
                  /\ handed[r].port = handed[x].port
                  /\ ~ handed[r].moved /\ ~ handed[x].moved
                  /\ handed[r].number < handed[x].number
                  => handed[r].sequence < handed[x].sequence

\* The receiver that is chosen for a queued message does not sleep on it: it
\* takes the message, or stops being the one it is due to.
ChosenReceives ==
    \A r \in Receivers, p \in Ports :
        (queue[p] # <<>> /\ Preferred(receive, order, p, r))
            ~> ~ (queue[p] # <<>> /\ Preferred(receive, order, p, r))

\* "XNU assigns the receive sequence when it removes a message, even if
\* subsequent right or user-buffer copyout fails" (ipc.cpp:583): a sequence
\* number is used up by a message that leaves the queue or is handed over.
SequenceOnRemoval ==
    [][\A p \in Ports :
          sequence'[p] > sequence[p]
              => \/ queue[p] # <<>> /\ queue'[p] = Tail(queue[p])
                 \/ \E r \in DOMAIN handed' : r \notin DOMAIN handed /\ handed'[r].port = p
      ]_vars
=============================================================================
