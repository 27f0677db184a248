---------------------- MODULE GuestExecutionCoordinator ----------------------
(* The host lanes that execute the slices of a session turn.  The control  *)
(* thread polls host completions, chooses slices, runs them in one window  *)
(* or in a window each, and in the end stops the lanes; every lane has a   *)
(* worker; publishers of host completions are threads of their own.  A     *)
(* critical section under mutex is one step, and a condition variable is   *)
(* the set of those asleep on it.                                          *)
EXTENDS Naturals, FiniteSets

CONSTANTS Channels,        \* execution slots
          MaxCompletions   \* host completions published in a behaviour

ASSUME CoordinatorAssumption ==
    /\ IsFiniteSet(Channels)
    /\ Channels # {}
    /\ MaxCompletions \in Nat

VARIABLES control,      \* where the control thread is
          submitting,   \* requests of this window not submitted yet
          later,        \* slices that get a window of their own this turn
          state,        \* Channel::state
          worker,       \* where each worker is
          outstanding, stopping,
          generation,   \* GuestCooperationSignal::generation_
          sampled,      \* polled_completion_generation_
          armed,        \* host_completion_pending_
          request,      \* cooperation_signal is set, completion_generation
          unnotified,   \* published, notify_host_completion still to come
          unseen        \* notified and not seen by a readiness poll

window == <<submitting, later, state, worker, outstanding, stopping>>
signal == <<generation, sampled, armed, unnotified, unseen>>
vars == <<control, window, request, signal>>

InRun == {"submit", "collect", "waiting", "service", "drain", "drain_waiting"}
Controls == InRun \cup {"sample", "poll", "choose", "between", "stop", "notify",
                        "join", "ended"}

Init ==
    /\ control = "sample"
    /\ submitting = {}
    /\ later = {}
    /\ state = [c \in Channels |-> "Idle"]
    /\ worker = [c \in Channels |-> "check"]
    /\ outstanding = 0
    /\ stopping = FALSE
    /\ request = [c \in Channels |-> [signal |-> FALSE, generation |-> 0]]
    /\ generation = 0
    /\ sampled = 0
    /\ armed = FALSE
    /\ unnotified = 0
    /\ unseen = 0

-----------------------------------------------------------------------------
(* The session's turn.                                                     *)

(* poll_host_completions comes first in a turn.                            *)
Sample ==
    /\ control = "sample"
    /\ control' = "poll"
    /\ sampled' = generation
    /\ UNCHANGED <<window, request, generation, armed, unnotified, unseen>>

(* The readiness poll sees every completion published so far.              *)
PollReadiness ==
    /\ control = "poll"
    /\ control' = "choose"
    /\ unseen' = 0
    /\ UNCHANGED <<window, request, generation, sampled, armed, unnotified>>

(* arm_host_completions, then the slices of the turn: one window for all   *)
(* of them, or one after the other.  A turn without slices starts over.    *)
Choose(W, parallel, pending) ==
    /\ control = "choose"
    /\ armed' = pending
    /\ control' = "between"
    /\ submitting' = IF parallel THEN W ELSE {}
    /\ later' = IF parallel THEN {} ELSE W
    /\ UNCHANGED <<state, worker, outstanding, stopping, request, generation,
                   sampled, unnotified, unseen>>

(* run is called for the next window; a slice whose thread is gone by then *)
(* is skipped.                                                             *)
OpenWindow ==
    /\ control = "between"
    /\ submitting # {}
    /\ control' = "submit"
    /\ UNCHANGED <<window, request, signal>>

NextSerial(c) ==
    /\ control = "between"
    /\ submitting = {}
    /\ c \in later
    /\ later' = later \ {c}
    /\ submitting' \in {{c}, {}}
    /\ UNCHANGED <<control, state, worker, outstanding, stopping, request, signal>>

EndTurn ==
    /\ control = "between"
    /\ submitting = {}
    /\ later = {}
    /\ control' \in {"sample", "stop"}
    /\ UNCHANGED <<window, request, signal>>

-----------------------------------------------------------------------------
(* run, called by the control thread.                                      *)

Woken(c) == IF worker[c] = "asleep" THEN "check" ELSE worker[c]

\* Mutant: the worker is not notified of the request.
SubmitSilently(c) ==
    /\ control = "submit"
    /\ c \in submitting
    /\ state[c] = "Idle"
    /\ submitting' = submitting \ {c}
    /\ request' = [request EXCEPT ![c] = [signal |-> armed, generation |-> sampled]]
    /\ state' = [state EXCEPT ![c] = "Submitted"]
    /\ outstanding' = outstanding + 1
    /\ UNCHANGED <<control, later, worker, stopping, signal>>

\* Mutant: the request starts from the generation at submission.
SubmitRebased(c) ==
    /\ control = "submit"
    /\ c \in submitting
    /\ state[c] = "Idle"
    /\ submitting' = submitting \ {c}
    /\ request' = [request EXCEPT ![c] = [signal |-> armed, generation |-> generation]]
    /\ state' = [state EXCEPT ![c] = "Submitted"]
    /\ outstanding' = outstanding + 1
    /\ worker' = [worker EXCEPT ![c] = Woken(c)]
    /\ UNCHANGED <<control, later, stopping, signal>>

Submit(c) ==
    /\ control = "submit"
    /\ c \in submitting
    /\ state[c] = "Idle"
    /\ submitting' = submitting \ {c}
    /\ request' = [request EXCEPT ![c] = [signal |-> armed, generation |-> sampled]]
    /\ state' = [state EXCEPT ![c] = "Submitted"]
    /\ outstanding' = outstanding + 1
    /\ worker' = [worker EXCEPT ![c] = Woken(c)]
    /\ UNCHANGED <<control, later, stopping, signal>>

Submitted ==
    /\ control = "submit"
    /\ submitting = {}
    /\ control' = "collect"
    /\ UNCHANGED <<window, request, signal>>

Completed == {c \in Channels : state[c] = "Completed"}

(* Every completed request is collected at once; while some are not, the   *)
(* host is serviced in between.                                            *)
Collect ==
    /\ control = "collect"
    /\ Completed # {} \/ outstanding = 0
    /\ state' = [c \in Channels |-> IF c \in Completed THEN "Idle" ELSE state[c]]
    /\ outstanding' = outstanding - Cardinality(Completed)
    /\ control' = IF outstanding' = 0 THEN "between" ELSE "service"
    /\ UNCHANGED <<submitting, later, worker, stopping, request, signal>>

CollectSleeps ==
    /\ control = "collect"
    /\ Completed = {}
    /\ outstanding # 0
    /\ control' = "waiting"
    /\ UNCHANGED <<window, request, signal>>

(* wait_for returns after a millisecond.                                   *)
CollectTimesOut ==
    /\ control = "waiting"
    /\ control' = "service"
    /\ UNCHANGED <<window, request, signal>>

ServiceHost ==
    /\ control = "service"
    /\ control' = "collect"
    /\ UNCHANGED <<window, request, signal>>

\* Mutant: the exception leaves run at once.
ServiceEscapes ==
    /\ control = "service"
    /\ control' = "stop"
    /\ UNCHANGED <<window, request, signal>>

(* service_host throws: the requests are the caller's, so run waits for    *)
(* all of them before it rethrows.                                         *)
ServiceThrows ==
    /\ control = "service"
    /\ control' = "drain"
    /\ UNCHANGED <<window, request, signal>>

\* Mutant: a request drained for the exception keeps its channel.
DrainUncollected(c) ==
    /\ control = "drain"
    /\ c \in Completed
    /\ outstanding' = outstanding - 1
    /\ UNCHANGED <<control, submitting, later, state, worker, stopping, request, signal>>

DrainOne(c) ==
    /\ control = "drain"
    /\ c \in Completed
    /\ state' = [state EXCEPT ![c] = "Idle"]
    /\ outstanding' = outstanding - 1
    /\ UNCHANGED <<control, submitting, later, worker, stopping, request, signal>>

DrainSleeps ==
    /\ control = "drain"
    /\ outstanding # 0
    /\ Completed = {}
    /\ control' = "drain_waiting"
    /\ UNCHANGED <<window, request, signal>>

(* The exception ends the session, whose coordinator is destroyed.         *)
Rethrow ==
    /\ control = "drain"
    /\ outstanding = 0
    /\ control' = "stop"
    /\ later' = {}
    /\ UNCHANGED <<submitting, state, worker, outstanding, stopping, request, signal>>

-----------------------------------------------------------------------------
(* stop: the flag, then a notification per lane, then the joins.           *)
SetStopping ==
    /\ control = "stop"
    /\ stopping' = TRUE
    /\ control' = "notify"
    /\ UNCHANGED <<submitting, later, state, worker, outstanding, request, signal>>

\* Mutant: only the first lane is notified of the stop.
NotifyOneWorker ==
    /\ control = "notify"
    /\ worker' = [worker EXCEPT ![CHOOSE c \in Channels : TRUE] =
                     IF @ = "asleep" THEN "check" ELSE @]
    /\ control' = "join"
    /\ UNCHANGED <<submitting, later, state, outstanding, stopping, request, signal>>

NotifyWorkers ==
    /\ control = "notify"
    /\ worker' = [c \in Channels |-> Woken(c)]
    /\ control' = "join"
    /\ UNCHANGED <<submitting, later, state, outstanding, stopping, request, signal>>

Join ==
    /\ control = "join"
    /\ \A c \in Channels : worker[c] = "gone"
    /\ control' = "ended"
    /\ UNCHANGED <<window, request, signal>>

-----------------------------------------------------------------------------
(* worker_loop.                                                            *)
WorkerTakes(c) ==
    /\ worker[c] = "check"
    /\ state[c] = "Submitted"
    /\ state' = [state EXCEPT ![c] = "Running"]
    /\ worker' = [worker EXCEPT ![c] = "execute"]
    /\ UNCHANGED <<control, submitting, later, outstanding, stopping, request, signal>>

WorkerRests(c) ==
    /\ worker[c] = "check"
    /\ state[c] # "Submitted"
    /\ worker' = [worker EXCEPT ![c] = IF stopping THEN "gone" ELSE "asleep"]
    /\ UNCHANGED <<control, submitting, later, state, outstanding, stopping,
                   request, signal>>

(* execute returns: out of ticks, out of time, at a stop of the guest, or  *)
(* because the cooperation signal moved.                                   *)
WorkerCompletes(c) ==
    /\ worker[c] = "execute"
    /\ state' = [state EXCEPT ![c] = "Completed"]
    /\ worker' = [worker EXCEPT ![c] = "check"]
    /\ control' = CASE control = "waiting" -> "collect"
                    [] control = "drain_waiting" -> "drain"
                    [] OTHER -> control
    /\ UNCHANGED <<submitting, later, outstanding, stopping, request, signal>>

(* A host adapter publishes a completion, then calls the session's wake.   *)
Publish ==
    /\ control # "ended"
    /\ generation + unnotified < MaxCompletions
    /\ unnotified' = unnotified + 1
    /\ UNCHANGED <<control, window, request, generation, sampled, armed, unseen>>

NotifyHostCompletion ==
    /\ unnotified > 0
    /\ unnotified' = unnotified - 1
    /\ generation' = generation + 1
    /\ unseen' = unseen + 1
    /\ UNCHANGED <<control, window, request, sampled, armed>>

-----------------------------------------------------------------------------
Control ==
    \/ Sample \/ PollReadiness \/ OpenWindow \/ EndTurn \/ Submitted
    \/ \E W \in SUBSET Channels, parallel, pending \in BOOLEAN :
          Choose(W, parallel, pending)
    \/ \E c \in Channels : NextSerial(c) \/ Submit(c) \/ DrainOne(c)
    \/ Collect \/ CollectSleeps \/ ServiceHost \/ ServiceThrows
    \/ DrainSleeps \/ Rethrow \/ SetStopping \/ NotifyWorkers \/ Join

Worker(c) == WorkerTakes(c) \/ WorkerRests(c) \/ WorkerCompletes(c)

Ended == control = "ended" /\ UNCHANGED vars

Next ==
    \/ Control
    \/ CollectTimesOut
    \/ \E c \in Channels : Worker(c)
    \/ Publish \/ NotifyHostCompletion
    \/ Ended

Spec == Init /\ [][Next]_vars

(* Host threads are scheduled, a slice ends because it has a deadline, and *)
(* a publisher that has published calls the wake.  The time-out of the     *)
(* wait needs no fairness: nothing depends on it.                          *)
FairSpec ==
    /\ Spec
    /\ WF_vars(Control)
    /\ \A c \in Channels : WF_vars(Worker(c))
    /\ WF_vars(NotifyHostCompletion)

-----------------------------------------------------------------------------
TypeOK ==
    /\ control \in Controls
    /\ submitting \subseteq Channels
    /\ later \subseteq Channels
    /\ state \in [Channels -> {"Idle", "Submitted", "Running", "Completed"}]
    /\ worker \in [Channels -> {"check", "asleep", "execute", "gone"}]
    /\ outstanding \in Nat
    /\ stopping \in BOOLEAN
    /\ request \in [Channels -> [signal: BOOLEAN, generation: Nat]]
    /\ generation \in Nat
    /\ sampled \in Nat
    /\ armed \in BOOLEAN
    /\ unnotified \in Nat
    /\ unseen \in Nat

(* A host completion the readiness poll did not see interrupts every armed *)
(* slice, in whichever gap between the sample and the run it came.         *)
NoMissedCompletion ==
    \A c \in Channels :
        worker[c] = "execute" /\ request[c].signal /\ unseen > 0 =>
            generation # request[c].generation

(* Every call of run returns or throws.                                    *)
RunReturns == control = "submit" ~> control \notin InRun

(* A session that ends gets all its lanes back.                            *)
StopEnds == control = "stop" ~> control = "ended"

(* run implements a window in which every request is executed once.        *)
Abstract == INSTANCE ExecutionWindow WITH
    open <- control \in InRun,
    waiting <- IF control \in InRun
               THEN submitting \cup {c \in Channels : state[c] = "Submitted"}
               ELSE {},
    running <- {c \in Channels : state[c] = "Running"}
Implements == Abstract!ASpec
=============================================================================
