# A TLA+ model of iLEmu's kernel core

iLEmu executes Darwin firmware on a host. It keeps the guest's processes and
threads, their scheduler, their Mach IPC and their BSD system calls in C++
(`src/`), and executes guest instructions through a JIT on a number of emulated
processors. This directory models the parts of that kernel in which the order of
events decides whether the result is right, checks them with TLC on small
instances, relates four of them to abstract specifications they implement, and
proves with TLAPS, for every instance, all the invariants, the action property and
the four refinements that TLC checks and finds to hold. Liveness is model-checked.

Paths below are relative to the repository; most are under `src/`.

## 1. The system

| part | state | operations | how it meets the others |
|---|---|---|---|
| **Thread scheduler** `mach/xnu_scheduler.cpp` | a `ThreadRecord` per registered thread, four counters, the context installed on each processor | register, remove, exec, wake, make runnable, block, hold and release (three reasons), choose next, complete slice (six kinds) | the session dispatches and completes; kernel handlers wake, hold and remove between the two |
| **Run queues** `mach/xnu_run_queue.cpp` | priority lists with a bitmap, a realtime index | enqueue, remove, choose, rotate | called only by the scheduler |
| **Session** `runtime/emulator_session.cpp` | the batch of a round, the processes | poll events, dispatch, execute, complete | one host thread; slices of a batch execute in parallel |
| **Message queues** `kernel/mach/send.cpp`, `ipc.cpp`, `transport/receive_wait.cpp`, `kernel/include/kernel/mach_*_wait_queue.hpp` | a queue, a limit and a sequence number per port; tickets of blocked senders with reserved slots; pending receives with a cached generation | send, block, grant, time out, interrupt, cancel; receive, poll, hand off, abandon | every operation holds `mach_mutex`; the session polls a blocked thread only if its hint says so |
| **Port sets** `kernel_shared_state.hpp` | members, links by member, ready list (preposts) | insert, extract, move, destroy | consulted by every post and every receive |
| **Notifications** `send_possible.cpp`, `notification_message.cpp` | requests per name, the list of armed ports | request, cancel, arm, deliver | fired by dequeues and limit changes |
| **Display pulses** `iokit/display/vsync.cpp` | registrations, one queued message each | post, discard | posts to a port's queue |
| **Memory gate** `foundation/guest_memory_gate.hpp`, `address_space_parallel.cpp` | a mutex, the leases of native lanes, their direct page entries | lock, quiesce, unlock; suspend, resume, activate, drop | every access of a host thread to guest memory stops the lanes it conflicts with |
| **Execution coordinator** `foundation/guest_execution_coordinator.cpp` | a channel per lane, outstanding requests, the sampled completion generation | run, submit, collect, drain, stop; publish, sample, arm | executes the session's batch; host adapters publish completions at any time |
| **File locks** `kernel/bsd/filesystem/locking.cpp` | per file an exclusive and shared owners, a list of ranges; blocked callers | flock, fcntl, close, exec, exit; poll, time out, interrupt | released with descriptors and processes |
| **Semaphores** `kernel/mach/semaphore.cpp`, `bsd/posix_semaphore.cpp` | a value and a queue per semaphore, two sets of results shared by all processes | signal, broadcast, wait (paired, timed), create, open, close, unlink, destroy | wakes are taken by the poll of the woken thread |
| **Name spaces** `mach/mach_namespace.cpp`, `kernel/mach/support.cpp` | per task the entries with user references and an index of names by object; dead-name requests by name | allocate, copyout, insert, move, rename, mod_refs, destroy, exit | every operation holds `mach_mutex`; the death of a port reaches the names of every task |
| Port objects, rights in flight | send counts, transit edges, no-senders requests | copyin, copyout, notify | carried by messages |
| Task importance, psynch, ulock, kqueue, work queues, signals | wait lists, generations, pending sets | wait, signal, time out, interrupt | wake threads of the scheduler |
| JIT work scheduler, caches, file pager, write-back | queues of work, budgets, pages | schedule, evict, fault, write back | host threads beside the session |
| BSD files and sockets, IOKit, graphics, media, telephony, network | host objects | translation to host calls | not control |

What is hard here, and hardly reached by a test:

- a kernel request made by one guest thread reaches another whose slice is still
  in flight: a wake, a hold, a removal, a slot reused;
- counters and indices kept by hand beside the data they summarise
  (`waiting_count_`, `reserved`, ready lists, links);
- hints read without the lock (`observed_queue_generation`): an invalidation
  that is forgotten leaves a thread asleep for ever;
- a deadline that passes while the awaited slot or message is on its way;
- a step that fails half way (copyout), or leaves out part of the bookkeeping;
- real host threads: lanes that execute generated code through raw page pointers
  while another thread changes the mapping, workers that are about to sleep when
  they are notified, completions published between two reads;
- identities that are reused (a processor slot, a process) while a queue or a set
  of results still names the old owner.

`PROJECT.json` lists these hazards one by one, at the line where each bites,
with the properties that would notice.

## 2. Modules

| module | what it is |
|---|---|
| `XnuScheduler` | the scheduler and the session's round |
| `XnuSchedulerProofs` | its inductive invariant, and the theorems about the checked properties |
| `MCXnuScheduler` | the instance: two threads of one process |
| `Queues` | erasing from the deques of waiters, for message queues and semaphores |
| `QueueTheorems` | what appending to, removing from and erasing from a queue preserve |
| `MachMessageQueue` | message queues, port sets, send-possible notifications |
| `MachMessageQueueProofs` | the queues' invariant, and each property checked of them, proved |
| `MCMachMessageQueue` (+ 5 cfg) | instances: one or two ports, sets, senders, receivers |
| `GuestMemoryViews` | which operations conflict with which direct pages |
| `NativeExclusion` | abstract: checked operations and native lanes exclude each other |
| `GuestMemoryGate`, `MCGuestMemoryGate` | the gate and the scopes that use it; implements `NativeExclusion` |
| `GuestMemoryGateProofs` | the gate's invariant, exclusion and refinement, proved |
| `ExecutionWindow` | abstract: a call in which each request is executed once |
| `GuestExecutionCoordinator`, `MCGuestExecutionCoordinator` | lanes, control thread, completions; implements `ExecutionWindow` |
| `GuestExecutionCoordinatorProofs` | the coordinator's invariant, completions and refinement, proved |
| `ByteLockTable` | abstract: who holds which byte how |
| `AdvisoryFileLocks`, `MCAdvisoryFileLocks` | flock and fcntl locks of one file; implements `ByteLockTable` twice |
| `AdvisoryFileLocksProofs` | types, exclusion, both refinements and the announcements to waiters, proved |
| `CountingSemaphores` | abstract: tokens made by signals and used up by waits |
| `MachSemaphores`, `MCMachSemaphores` | Mach and POSIX semaphores; implements `CountingSemaphores` |
| `MachSemaphoresProofs` | types, the places of a waiter, no idle value and the refinement, proved |
| `MachNamespace`, `MCMachNamespace` | names of ports, their references and index, dead-name requests |
| `MachNamespaceProofs` | types, the index, the names of a port and the requests, proved |

### XnuScheduler

`record[t]` is the `ThreadRecord` of slot `t`, `threads` the slots registered,
and the counters keep the names of the fields. `batch[p]` is the slice in flight
on processor `p` and `cursor` the position of the dispatch loop, so that the
model has the session's phases: *polling* (no slice in flight), *dispatching*,
*completing*. Kernel requests are enabled outside the dispatch loop: while
polling, and while slices are in flight, because a guest system call runs then.
`stale` and `owed` are history: the slices whose thread was removed in flight, and
the threads woken and not dispatched since.

One action per method: `RegisterThread`, `RemoveThread`, `RemoveProcess`,
`MakeRunnable`, `WakeThread`, `SuspendThread`/`SuspendProcess`,
`ResumeThread`/`ResumeProcess`, `ChooseNext`, `CompleteSlice` (for Continue,
HostCooperate, Yield, Block, HostAwait), `TerminateSlice`, `ExecSlice` and
`DropSlice` (a completion that is refused). What an operation does to one record
is an operator of its own (`Woken`, `Suspended`, `Resumed`, `Completed`,
`AwaitsHost`); `SetRecords` keeps the counters that the code keeps in helpers,
and each action adjusts `waiting_count` itself, as the code does.

Abstracted: which queued thread is chosen (any may be), and quantum lengths (a
completion says whether the quantum is used up).

### MachMessageQueue

`queue`, `limit`, `sequence`, `members`, `preposts` are the maps of
`KernelSharedState` and `PortObject`. A blocked sender has a `ticket`, listed in
`waiters[port]`; `reserved[port]` counts promised slots. A blocked receiver has a
record in `receive` (its `PendingMachReceive` and its wait ticket in one), and
`handed[r]` is the message its ticket carries. `order` is the order of
`wait_queue_sequence` numbers: receives and set links in the order of their
creation, which is all the code uses of those numbers. A receive is `seen` when
its cached generation equals that of its object; the actions that advance a
generation make the receives on that object unseen (hash collisions of the code
only add polls). A deadline is `never`, `later` or `passed`, and time is the two
`Expire` actions.

`Post` is `enqueue_mach_message_locked` with the handoff; `Settle` grants slots
and notifies armed names; `NoteDequeued` is what every regular dequeue ends with;
`Attempt` is `receive_mach_message_locked` for a blocked receiver. The actions
are the entry points: `SendAtOnce`, `KernelSend`, `BlockSend`,
`SendTimesOutAtOnce`, `CompleteSend`, `InterruptSend`, `TerminateSender`,
`SetLimit`, `Register`, `CancelRequest`, `BeginReceive`, `PollReceive`,
`AbandonReceive`, `KeventReceive`, `MoveReceive`, `ReturnReceive`, `DestroyPort`,
`InsertMember`, `ExtractMember`, `MoveMember`, `DestroySet`, `VsyncPost`,
`VsyncDiscard`.

Abstracted: bytes (a message is *big* or not, a buffer *ample* or one that asks
for the size), the rights in a message (a moved receive right is `MoveReceive`
and `ReturnReceive`), the port that receives notifications, other tasks'
receivers.

### GuestMemoryGate

`pc[t]` is where a host thread is between `lock_metadata` and `unlock`; `owner` is
the holder of `mutex_`, `transaction` is `transaction_active_`, and `lease[t]` has
the three fields of `Lease`. Each critical section under `leases_mutex_` is one
step, so that a transaction is six to nine of them: `Begin` (which suspends the
caller's own lease), `TakeMutex`, `MarkAll`, `Quiesce`, `Drained`, one of the four
operations, `Unblock`, `ReleaseMutex`, and `Resume` if the caller is a lane.
`EnterNative`, `LeaveNative`, `Activate` and `DropScope` are what a lane does of its
own accord; `halted[t]` says its JIT was told to stop. `view[t]` is the set of pages
its generated code reaches directly, and an operation may revoke pages of every
view and grant the caller's own.

Abstracted: the bytes, and why a page loses or gains its entry (any subset may).
`Lease::disable` and `leave_parallel_access` have no caller in this commit.

### GuestExecutionCoordinator

`control` is where the session's thread is in its turn and in `run`; `state[c]` and
`worker[c]` are a channel and its thread. A condition variable is the set of those
asleep on it: `asleep` workers, and the control thread in `waiting` or
`drain_waiting`. `Publish` and `NotifyHostCompletion` are two steps of a host
adapter, between which anything may happen. `unseen` is history: completions
notified and not yet covered by a readiness poll.

Abstracted: what a slice executes, and why it ends.

### AdvisoryFileLocks

One file. `locks` has the exclusive and shared `flock` owners and the set of range
records; `refs` the descriptors; `wait` the pending continuation of each thread,
`cached` the threads whose negative poll is still current (`PendingIoPollCache`
compared with the shared generations; any other event, `OtherEvent`, ends that). A
request is `Flock` or `Fcntl`, the latter owned by the process or by the open
description. Offsets are three: before, in and after the middle; the last also
stands for the rest of the file.

Abstracted: access modes, argument errors, `F_GETLK` (a read), `whence`.

### MachSemaphores

`sem` has values, queues of thread identities, `semaphore_wakeups` and
`semaphore_terminations`; `owner` the task a Mach semaphore is charged to, `linked`
and `fds` the lifetime of the POSIX ones, `wait` the continuation of each thread.
An identity is a thread slot, so `StartThread` is a slot reused. `Signal`,
`SignalAll`, `SignalThread`, `WaitTakes`, `WaitRefused` and `WaitBlocks` are the calls;
`Exit`, `Exec`, `RetireThread` and `ThreadExits` the ends; `CompleteWait`,
`TimeOut`, `ObserveBlocked` and `Interrupt` the continuation. `passed` is history: the
last step was the success of a wait.

An exit is one step. `release_process_mach_rights` erases each thread
that waits from the queue of its semaphore, whichever kind that is (`Registered`), and
drops the waits (`Unwaited`); `terminate_exited_semaphores_locked` then destroys the
semaphores charged to the task (`Terminated`), and takes its identities out of the
results and of the queues of all Mach semaphores (`Forgotten`).

Abstracted: the rights by which a semaphore is named, deadlines (a timed wait may
time out in any state in which it has not been woken). Object identifiers are
never reused by the code; the model reuses one once no wait refers to it.

### MachNamespace

`spaces[t]` is the `Space` of a task: `entries`, `names_by_object` (here `index`) and
`next_name`; an entry without a type is absent. `requests[t][n]` is the target of the
dead-name request on a name, `port[o]` what backs an object (a guest's receive right, the
kernel, a port set, or nothing any more) and `transit` the objects whose receive right
is in a message. The upper half of the module has one operator per method of
`MachNamespaceTable`, from a space to a space, the early exit of
`refresh_indexed_rights` included; the lower half has the kernel operations that call
them: `CreateTask`, `PortAllocate`, `PortCopyout`, `MoveRight`, `InsertRight`, `Rename`,
`DestroyName`, `DropWhole` and `ModRefs` (the two halves of `mod_refs`, and
`deallocate`), `RequestDeadName`, `ServiceClose`, and the deaths: `Terminate` of a
receive right, `Release` of a kernel object without senders. Exit destroys names one
by one under one lock; `exiting` keeps everything else out meanwhile.

Abstracted: send and send-once rights in messages are not counted, so one may arrive
at any time and a kernel object without a named sender may or may not go; whether a
port-destroyed request exists (both outcomes); a receive right in a discarded message
ends in a step of its own; a notification sent is not a message. A used-up
send-possible request is no request, though the code keeps its slot. The trap that
inserts a right is the move and the insertion, which the message path separates.
The undoing of a partly failed `mach_ports_lookup` and of a failed fileport is not
modelled. Object identifiers are never reused.

## 3. What TLC checks

| run | instance | properties | result |
|---|---|---|---|
| `scheduler` | 2 threads, 1 process, 2 processors, 2 holds | `TypeOK`, `HoldsRespected`, `NoLostWake`, `HostTicketOwnsThread`, `HostContinuationCurrent`, `CountersAgree`, `SlicesAccountedOnce`, `ContextsCurrent`, `StaleSliceHarmless` | hold (115,745 states) |
| `send` | 1 port, limits 0, 1 and 2, 2 senders, 1 receiver, 3 messages | `TypeOK`, `ReservationsAgree`, `NoStrandedSender`, `GrantedInOrder`, `ArmedListed` | hold (1,200,324 states) |
| `receive` | 1 port, 1 set, 2 receivers, 3 messages, big ones, pulses, failures | `NoMissedReceive`, `ReceiveOrder` | hold (1,204,840 states) |
| `sets` | 2 ports, 2 sets, 1 receiver, 1 message each, pulses | `PrepostsCover` | hold (465,744 states) |
| `delivery` | 1 port, 1 set, 2 receivers, 2 messages, fair polls | `ChosenReceives` | holds (151,226 states) |
| `gate` | 2 lanes, 1 host thread, 1 page | `TypeOK`, `Exclusion`, `Implements`, `TransactionEnds` | hold (355,679 states) |
| `coordinator` | 3 lanes, 2 host completions | `TypeOK`, `NoMissedCompletion`, `Implements`, `RunReturns`, `StopEnds` | hold (813,072 states) |
| `file_locks` | 3 threads, 2 processes, 2 descriptions, whole file and its middle | `TypeOK`, `Exclusion`, `Implements`, `WakesWaiters` | hold (228,489 states) |
| `semaphores` | 3 threads, 2 processes, 2 Mach semaphores, 1 POSIX one, values to 1 | `TypeOK`, `ResultsOwned`, `NoTokenIdle`, `Implements`, `WakeReturns` | hold (298,876 states) |
| `names` | 2 tasks, 2 names, 3 objects, references to 3 | `TypeOK`, `IndexAgrees`, `CapabilityNamedOnce`, `RequestsNamed` | hold (234,367 states) |
| `failed_copyout` | as `receive` | `SequenceOnRemoval` | violated |

Why the bounds are enough for what is asked. Two threads suffice for every
operation on one record beside a bystander, and for an exec or an exit that takes a
sibling along; threads of other processes are left to the proofs, which cover every
instance. Two holds are the least for which
dropping one is not dropping all, and the limit of `suspend_count` is reached. Two
processors are the least for a context to migrate and for a slice to complete
after another one has changed its thread. For the queues: limit 0, which
`mach_port_set_attributes` accepts, makes every sender wait while messages may still be
queued from before, limit 1 makes every message fill the port, and limit 2 lets a limit
rise above and fall below the depth; two senders are the least for an order of grants; three messages leave one
queued while one is handed over and one is granted. Two receivers, one of them
perhaps behind a set link, are the least for a preference. Ports and sets are
never created again after their destruction, which is how the code allocates
object identifiers. Deadlock is not checked for the queues: with every port
destroyed and no thread in a system call, nothing happens any more.

For the gate: two lanes are the least for one to be waited for and one to be let
run, the host thread never holds a lease, and one page shows both kinds of
conflict (a lane may have it read-only, writable or not at all); a second page only
adds lanes that do not conflict. For the coordinator: three lanes let one complete
while the control thread is busy with a second and a third has not started; two
completions fall before and after a sample. For file locks: a lock of the whole
file cut in its middle is the case with two remainders, and one process has two
threads so that one exits, or execs, while the other waits. For semaphores: two
Mach ones are needed for a paired signal, and with three threads one queue has two
waiters while somebody signals; two processes let one exit while threads of both are in
the same queue, and a value above 1 only repeats what 1 shows. For names:
two tasks let a port die in one while the other has names and requests for it; two
names let an object have an alias while one right of a name is taken away; and with
three references both limits (2 for a send right, 3 for a dead name) are reached from
below. Object identifiers run out, so deadlock is not checked there either.

**What the refinements add.** `gate`: checked operations and native execution exclude
each other, and the pointers of a lane change only while it is not native.
`coordinator`: from the call of `run` to its return or exception each request is
executed once, and none is touched outside. `file_locks`: a list of ranges that is
split and replaced is a table of bytes in which one call changes one owner's range
(with everything of an owner that ceased to exist). `semaphores`: a queue, two sets
of results and a poll are one counter per semaphore; a token disappears only with
the thread it was spent on.

**Fairness** is assumed in four runs, each only of threads the code itself drives.
`delivery`: the session's event poll visits every processor whose receive must be
polled or whose send ticket is ready (`kernel.cpp`, collection of pending events),
so a poll that stays required is performed. `semaphores`: the same poll, for
`CompleteWait`. `gate`: a thread that holds `mutex_` runs on, a lane whose JIT was told
to halt leaves native code, and a lane whose wait in `resume` is over wakes; nobody
has to get the mutex, so that a lane may be kept out by one transaction after
another. `coordinator`: host threads are scheduled, a slice ends because it has a
deadline, and an adapter that has published calls the wake; the millisecond
time-out of the wait is *not* needed. Nothing is assumed of senders, of time or of
the guest.

Every property of a passing run is shown to depend on the code by a mutant: a
plausible slip in one definition (the operators introduced by *Mutant*) under
which TLC finds the property violated.

### Disagreements with the source's own statements

- **A failed copyout leaves the message** (`failed_copyout`). Some error returns of
  `receive_mach_message_locked` neither remove the message nor undo the rights
  already copied out, while the sequence number is used up.

Also seen while modelling; no run is about it.

- A comment in `mod_refs` (`support.cpp`, lines 1309-1312) says that a receive name "may
  temporarily be composite with a send-once right". None of the operations modelled
  makes such a name: a send-once right that arrives always gets a name of its own.
  `CapabilityNamedOnce` states the opposite of the comment, that a send-once right is
  alone on its name, and holds in `names`; the comment seems to be out of date.

The models have these behaviours too, and no run is about them.

- A successful exec completes the caller's slice as Block, which releases the
  processor context before `replace_process_threads` looks for it (its comment says
  the context is kept); and a HostAwait completion of a thread held during its
  slice leaves a held thread installed. `ContextsCurrent` holds all the same: only
  the accounting of a context switch depends on it.
- A send with `MACH_SEND_NOTIFY` that times out after a receiver has drained the
  queue arms its request on a port with room, where nothing is due to fire it until
  the port fills and drains again.
- `discard_queued_vsync_messages_locked` erases messages without the bookkeeping of a
  dequeue. The stale ready-list entry only costs a lookup, but a sender blocked on
  that port is not granted the slot. `PrepostsCover` (`sets`, with pulses) covers the
  ready list; no property covers the grant, and `send` has no pulse port.
- `IOServiceClose` takes the port of a connection apart without the part of the common
  path that answers and erases the dead-name requests on it (its comment promises
  that path). The client that asked is not told; `RequestsNamed` excepts such ports.
- The session obeys the exec or the exit that a slice asks for even when the scheduler
  refuses the slice as stale, so that it falls on the thread that has the slot now.
  `StaleSliceHarmless` excepts these two completions; no property covers them.
- A process that exits while a sibling is blocked on a record lock may still be
  granted it before it is reaped, and nothing releases it then.
- A lock weakened from exclusive to shared, or the end of another wait, announces
  nothing: a caller it lets through waits for another event (`WakesWaiters` excepts
  exactly these steps).

## 4. What is proved

Every theorem is about the specification that TLC checks and for every value of its
constants; the assumptions are the named `ASSUME`s of the modules. One theorem has a
premise of its own (`SendersAreServed`, below).

### The scheduler

All nine properties that `scheduler` checks are theorems of
`XnuScheduler!Spec` (`XnuSchedulerProofs`), for any finite set of threads, any
assignment of threads to processes, any number of processors and any limit of
holds. The only assumptions are the two named `ASSUME`s of `XnuScheduler`:
threads are finitely many and belong to processes, and there are at least one
processor and a positive limit of holds.

The argument. None of the properties is inductive by itself. The invariant is
built from:

- `RecordInv`, a predicate of one record (states, queue membership, holds and
  their sum, host tickets, resumption), preserved by each of the record operators
  (`Woken`, `Suspended`, `Resumed`, `Completed`, `AwaitsHost`) on its own. It gives
  `HoldsRespected`, `HostTicketOwnsThread` and `HostContinuationCurrent`;
- `SliceInv`, which ties `execution_pending` to the batch: which slices are in
  flight, which of them are stale, and that a context follows its slice. It needs
  the phase of the round, because a slot may be reused only outside the dispatch
  loop. It gives `SlicesAccountedOnce`, `ContextsCurrent` and
  `StaleSliceHarmless`;
- the counting invariants: how the cardinality of a set of threads changes when
  the records of some of them change, one lemma for all four counters, and then
  one step per action that the hand-made adjustment of `waiting_count` equals that
  change. They give `CountersAgree` and, since a cardinality is a natural number,
  that no unsigned counter underflows (`TypeOK`);
- `OwedInv`, that an owed wake is remembered by one of three fields. It gives
  `NoLostWake`.

### The memory gate

`GuestMemoryGateProofs` proves `TypeOK`, `Exclusion` and `Implements` (the refinement of
`NativeExclusion`) for any sets of threads, lanes and pages, from
`ViewsAssumption`: lanes are threads, and the two null values are not one of theirs.
`Exclusion` speaks of the operation inside the gate; it is inductive only together
with how the thread got there. `GateInv` is `TypeOK` and

- `OwnerInv`: the holder of `mutex_` is the thread whose `pc` is past it;
- `TransactionInv`: a thread past the mark has the transaction active, which is what a
  new lease and a resuming lane look at;
- `LaneInv`: a lease is active exactly while its lane is free and its suspensions are
  undone; a lane in a transaction of its own is suspended;
- `BlockedInv`: from the drain on, every leased lane the operation conflicts with is
  blocked, and once the operation is inside no blocked lane is active. The last is
  what `Drained` establishes and what `Resume` and `Activate` must not break.

For the refinement `Drained` is `Open`, the four operations are `Close`, a `Resume` that
reaches depth 0 is `Enter`, what suspends an active lease is `Leave`, and the other
steps stutter. The pointers of a lane stay put while it is native because an
operation that would change them conflicts with it, and is therefore not inside.

### The execution coordinator

`GuestExecutionCoordinatorProofs` proves `TypeOK`, `NoMissedCompletion` and `Implements`
(the refinement of `ExecutionWindow`) for any finite, nonempty set of lanes and any
number of completions (`CoordinatorAssumption`). `CoordinatorInv` is `TypeOK` and

- `CountInv`: `outstanding` is the number of channels in use, so the unsigned count
  cannot underflow, and zero means that no lane has a request;
- `WindowInv`: channels are in use only within a call of `run`, a request yet to be
  submitted has its channel free, and a worker executes exactly what is `Running`;
- `SignalInv`: every request carries the sample of its turn, and a completion that no
  readiness poll covers came after that sample, so `arm` finds the generation changed.

`OpenWindow` is the abstract one, a worker's `Takes` and `Completes` are `Start` and
`Finish`, the last `Collect` and the `Rethrow` are `CloseWindow`; the rest stutters.

### The message queues

`MachMessageQueueProofs` proves the eight invariants that the runs check of
`MachMessageQueue`, for any sets of ports, port sets, receivers and names, any finite
set of senders and any limits. `ObjectsAssumption` keeps ports, sets, links and
receivers apart (`order` names them all) and the senders finite (they are threads, and
`reserved` counts them); `LimitsAssumption` says that a limit is a number. Zero is one of
them: `mach_port_set_attributes` and `set_queue_limit` refuse only what is above the
maximum. `MqInv` is

- `SenderInv`: each list of waiters names the tickets on its port once each (`Lists`),
  `reserved` is the number of granted ones (`Counts`), nobody owns a slot while an
  earlier sender may be granted one (`Turns`), and a port with such a sender is full
  (`Fills`). The last rests on `GrantFills`: if a ticket is passed over, all the slots
  on offer were given away, which a count of the positions before the first one passed
  over shows. `Booked` is the bound `MaxPosts`, restated so that it is inductive;
- `NoticesOk`: an armed request is listed, and the port of a request exists (or a
  request could survive its port and be armed on nothing);
- `ReceiverInv`: a set has as members what the links in `order` say and its ready list
  covers them (`SetsOk`); every receive has its place in `order`, without which the
  choice of the earliest receiver would choose nothing (`OrderOk`); tickets and handed
  messages agree (`ReceivesOk`); and `Quiet`, which is what makes `NoMissedReceive`
  inductive. The property only says that no queued message is due to a receive that is
  not polled, but whom a message is due to changes with every receive that ends. `Quiet`
  says that *all* the queues it looks at are empty: that is what a poll that found
  nothing has seen, because a receive that leaves a message to another one keeps polling;
- `DeliveriesOk`: queues are in the order of numbers below `posted` (`Numbered`), a
  handed message is older than all that is queued (`HandedFirst`) and two of them agree
  in the order of their sequence numbers (`Agree`).

`NoStrandedSender` needs `VsyncPorts = {}`, as in the run: where a display registration
posts, `VsyncDiscard` frees room and grants nothing (see above). `FreedRoomIsGranted`
has no premise, and states the same of every port that no registration posts to.

Four theorems say what no single run property does.

- `DueReceiversArePolled` combines `NoMissedReceive` with `PrepostsCover`: whoever is due
  a queued message is polled, also through a set.
- `OutcomesAreFinal` is an action property: no deadline, signal, limit change or other
  thread takes back a promised slot, a timeout or a handed message; only the destruction
  of a port ends a promise made on it.
- `MessagesInOnePlace`: a message is in the queue of its port once or with one receiver,
  never both. It is inductive with `DeliveriesOk` and says what `ReceiveOrder`
  leaves open, that two receivers do not have the same message.
- `MessagesDoNotReturn` is an action property: what has left the queue and its receiver
  does not come back, and nothing goes from a receiver to a queue. Every step only takes
  messages away or adds one whose number is `posted` (`Carries`). With the former, no
  message is received twice.

TLC found all four to hold on the instances of `send`, `receive` and `sets` before they
were proved.

### File locks

`AdvisoryFileLocksProofs` proves `TypeOK`, `Exclusion`, `Implements` and the action
property `WakesWaiters` for any processes, threads, descriptions and number of bytes;
`FileLockAssumption` says that requests are for ranges of the file and name the
process of their thread or one of the descriptions. `FileInv` is `TypeOK`, exclusion byte by byte
(`Excludes`) and `DeadOwnNothing`: a description without descriptors and blocked
calls owns nothing, which is what lets a description be opened again. The operators on
records are characterised by the bytes they leave each owner (`Holds`): cutting a range
out of all records of an owner and adding one changes exactly the bytes of that range. From this
both refinements follow: a call is one `ANext` step of the table for the record locks
and one of the table for `flock`, or stutters. `WakesWaiters` needs no more than the
exclusion: a caller that a step lets through was kept out by a lock that the step gave
up, and each such step but those the property excepts announces an event.

### Semaphores

`MachSemaphoresProofs` proves `TypeOK`, `ResultsOwned`, `NoTokenIdle` and `Implements`
for any finite set of threads, any processes and any semaphores
(`SemaphoreAssumption`: a thread has a process, Mach and POSIX semaphores are not the
same objects, a value has a positive bound). `SemInv` is

- `Queues`: a queue names a thread once, and none while there is a value;
- `Placed`: a thread that waits is in its queue or in one set of results, exactly one;
  one that does not wait is nowhere;
- `Retired`: a thread that has ended, alone, by an exec or with its process, waits for
  nothing. With `Placed`, nothing names it, so its slot can be reused and no signal is
  spent on it;
- `Ended` and `Owned`: whoever is told of the end waited on a semaphore that is gone,
  and nobody is queued on one that does not exist, so that a new semaphore starts empty.

The refinement counts as tokens a semaphore's value and the threads woken on it. A
signal, paired or not, is `Signal`, a broadcast `Broadcast` (by `Ended`, nobody who was
told of an end counts as a waiter of the semaphore), a wait that takes a value and a poll that finds a wake are `Pass`, one
that blocks is `Block`; creation and opening are `Create`; the ends of semaphores,
processes and threads are `Leave` and `Quit`; a wait that times out, is interrupted or
fails is `Fail`. The work is in the cardinalities: how many woken threads a step adds to
each semaphore.

Two more theorems are about the results between the call that makes one and the thread
that finds it. `NegativePollsCurrent`: a thread whose last poll was negative, and is
remembered so, has no result; the proof goes through every step that adds one and shows
that it announces it (`Tells`), the steps of an exit and the retirement of a semaphore
among them. `ResultsStay` is an action property: a result is neither lost nor exchanged
for the other one while the thread waits; an exit ends the waits of its threads. TLC
found both to hold on the instance of `semaphores`.

### Name spaces

`MachNamespaceProofs` proves `TypeOK`, `IndexAgrees`, `CapabilityNamedOnce` and
`RequestsNamed` for any sets of tasks and objects, any number of names and any limit of
references (`NamesAssumption`). Each method of `MachNamespaceTable` is first shown to
keep a space `Well`: its entries are well formed and its index is what a scan would
find. The early exit of `refresh_indexed_rights` is right only because the index holds
no less than the entries do, which is the premise (`Loosely`) of its lemma. The
invariant of the kernel operations then adds what the table alone does not
ensure:

- `Shaped`: the rights that names have to a port are those its state allows, so that
  the death of a port finds no right it would not turn into a dead name;
- `Once` and `Held`: a task has one name for a port, and a receive right is at one name
  of one task or (`Carried`) in a message. `CapabilityNamedOnce` needs both: a receive
  right that arrives joins the name of the send right;
- `Requested` and `Selves`: a dead-name request is on a name with a right to its target
  or its target was closed; a task that has ended has no names and no requests.

Four more theorems are about the ports behind the names. Two are read off the
invariant: `ReceiveRightUnique` (a receive right or a port set is at one name of one
task, or in a message) and `RightsMatch` (a port that ended has dead names and nothing
else). `NoPortLost` says the converse of the first, that there *is* such a name or
message while the port lives. It is an invariant of its own on top of `NamespaceInv`
(`PortsReachable`), because in the middle of a step it is false: a destroyed name has
given up its right before its port ends. The proof therefore shows that each operation
keeps the rights to receive from every object but one (`Keeps`), and then that the one
has ended, is in a message or has a new name. `PortsDieOnce` is an action property: a
port that ended stays so, and nothing ends that was not alive. TLC found the four to hold
on the instance of `names` before they were proved, and `NoPortLost` to fail when
`MoveRight` drops the right.

### Only model-checked

Liveness under fairness is out of the proof system's reach: `ChosenReceives`,
`TransactionEnds`, `RunReturns`, `StopEnds` and `WakeReturns` stay with TLC, as does the
violated property. That `Erased` keeps order, members and uniqueness is proved
(`QueueTheorems`); the mutants and the bounds of the runs concern TLC alone.

## 5. Plan

In this order, the most consequential first:

1. **MachRights**, composing name spaces, port objects and queues (`support.cpp`,
   `rights_message.cpp`, `port_copyin.hpp`, `port_copyout.hpp`): *rights in name
   spaces, in messages and in tickets add up; transit edges are acyclic; each
   no-senders, dead-name and send-once notification is sent once.*
2. **XnuRunQueue** (`xnu_run_queue.cpp`): bitmap, lists, counts and realtime index
   against a reference definition of the best eligible thread. **XnuPolicy**:
   timeshare decay, depression, promotion and the realtime failsafe; *every
   temporary change of priority ends.*
3. **Waits**: psynch generations, ulock, kqueue and work queues, signals; each
   against an abstract wait list, as `MachSemaphores` is.
4. **TaskImportance**, host socket readiness, the runtime reaper, shared file
   write-back, the JIT work scheduler and code cache governor.

## 6. Not modelled

Most of the repository's 231,000 lines are instruction decoding and semantics (CPU,
JIT, artifacts), device, graphics and surface emulation, media, telephony, Bluetooth
and network back ends, file formats, and system calls that translate arguments to a
host call. They are data, host services or translation: their control is too thin,
or their state too large, for a small instance to say anything, and a model of them
would restate the code line by line. The models cover the parts in which order,
concurrency and failure decide the result; these are a small share of the lines.
