------------------- MODULE GuestExecutionCoordinatorProofs -------------------
(* Every request of a window is executed once, outstanding counts the      *)
(* channels in use and no host completion is missed, for any number of     *)
(* lanes.                                                                  *)
EXTENDS GuestExecutionCoordinator, FiniteSetTheorems, TLAPS

Busy == {c \in Channels : state[c] # "Idle"}

(* outstanding is the number of channels in use.                           *)
CountInv == outstanding = Cardinality(Busy)

(* Channels are in use only within a call of run, requests that are yet to *)
(* be submitted have theirs free, and a worker executes what runs.         *)
WindowInv ==
    /\ control \notin InRun => Busy = {}
    /\ control \notin {"between", "submit"} => submitting = {}
    /\ submitting \cap Busy = {}
    /\ \A c \in Channels : worker[c] = "execute" <=> state[c] = "Running"

(* Requests carry the sample of their turn, and completions that no poll   *)
(* has seen came after that sample.                                        *)
SignalInv ==
    /\ sampled <= generation
    /\ \A c \in Channels :
          state[c] \in {"Submitted", "Running"} => request[c].generation = sampled
    /\ control # "poll" /\ unseen > 0 => sampled < generation

CoordinatorInv == TypeOK /\ CountInv /\ WindowInv /\ SignalInv

-----------------------------------------------------------------------------
(* Counting.                                                               *)

\* The channels in use are finitely many.
LEMMA BusyFinite ==
  /\ IsFiniteSet(Busy) /\ Cardinality(Busy) \in Nat
  /\ Cardinality(Busy) = 0 <=> Busy = {}
BY CoordinatorAssumption, FS_Subset, FS_CardinalityType, FS_EmptySet DEF Busy

\* outstanding follows the channels in use through every step.
LEMMA CountStep ==
  ASSUME TypeOK, CountInv, WindowInv, [Next]_vars
  PROVE  CountInv'
<1> USE DEF window, signal, CountInv
<1>0. ASSUME UNCHANGED <<outstanding, Busy>> PROVE CountInv'
  BY <1>0
<1>1. ASSUME Sample PROVE CountInv'
  BY <1>1, <1>0 DEF Sample, Busy
<1>2. ASSUME PollReadiness PROVE CountInv'
  BY <1>2, <1>0 DEF PollReadiness, Busy
<1>3. ASSUME OpenWindow PROVE CountInv'
  BY <1>3, <1>0 DEF OpenWindow, Busy
<1>4. ASSUME EndTurn PROVE CountInv'
  BY <1>4, <1>0 DEF EndTurn, Busy
<1>5. ASSUME Submitted PROVE CountInv'
  BY <1>5, <1>0 DEF Submitted, Busy
<1>6. ASSUME NEW W \in SUBSET Channels, NEW p \in BOOLEAN, NEW q \in BOOLEAN,
             Choose(W, p, q) PROVE CountInv'
  BY <1>6, <1>0 DEF Choose, Busy
<1>7. ASSUME NEW c \in Channels, NextSerial(c) PROVE CountInv'
  BY <1>7, <1>0 DEF NextSerial, Busy
<1>8. ASSUME NEW c \in Channels, Submit(c) PROVE CountInv'
  <2>1. Busy' = Busy \cup {c} /\ c \notin Busy
    BY <1>8 DEF Submit, Busy, TypeOK
  <2>2. Cardinality(Busy') = Cardinality(Busy) + 1
    BY <2>1, BusyFinite, FS_AddElement
  <2> QED
    BY <1>8, <2>2 DEF Submit
<1>9. ASSUME NEW c \in Channels, DrainOne(c) PROVE CountInv'
  <2>1. Busy' = Busy \ {c} /\ c \in Busy
    BY <1>9 DEF DrainOne, Completed, Busy, TypeOK
  <2>2. Cardinality(Busy') = Cardinality(Busy) - 1
    BY <2>1, BusyFinite, FS_RemoveElement
  <2> QED
    BY <1>9, <2>2 DEF DrainOne
<1>10. ASSUME Collect PROVE CountInv'
  <2>1. Busy' = Busy \ Completed /\ Busy \cap Completed = Completed
    BY <1>10 DEF Collect, Completed, Busy, TypeOK
  <2>2. IsFiniteSet(Completed)
    BY CoordinatorAssumption, FS_Subset DEF Completed
  <2>3. Cardinality(Busy') = Cardinality(Busy) - Cardinality(Completed)
    BY <2>1, <2>2, BusyFinite, FS_Difference
  <2> QED
    BY <1>10, <2>3 DEF Collect
<1>11. ASSUME CollectSleeps PROVE CountInv'
  BY <1>11, <1>0 DEF CollectSleeps, Busy
<1>12. ASSUME ServiceHost PROVE CountInv'
  BY <1>12, <1>0 DEF ServiceHost, Busy
<1>13. ASSUME ServiceThrows PROVE CountInv'
  BY <1>13, <1>0 DEF ServiceThrows, Busy
<1>14. ASSUME DrainSleeps PROVE CountInv'
  BY <1>14, <1>0 DEF DrainSleeps, Busy
<1>15. ASSUME Rethrow PROVE CountInv'
  BY <1>15, <1>0 DEF Rethrow, Busy
<1>16. ASSUME SetStopping PROVE CountInv'
  BY <1>16, <1>0 DEF SetStopping, Busy
<1>17. ASSUME NotifyWorkers PROVE CountInv'
  BY <1>17, <1>0 DEF NotifyWorkers, Busy
<1>18. ASSUME Join PROVE CountInv'
  BY <1>18, <1>0 DEF Join, Busy
<1>19. ASSUME CollectTimesOut PROVE CountInv'
  BY <1>19, <1>0 DEF CollectTimesOut, Busy
<1>20. ASSUME NEW c \in Channels, WorkerTakes(c) PROVE CountInv'
  BY <1>20, <1>0 DEF WorkerTakes, Busy, TypeOK
<1>21. ASSUME NEW c \in Channels, WorkerRests(c) PROVE CountInv'
  BY <1>21, <1>0 DEF WorkerRests, Busy
<1>22. ASSUME NEW c \in Channels, WorkerCompletes(c) PROVE CountInv'
  <2>1. state[c] = "Running"
    BY <1>22 DEF WorkerCompletes, WindowInv
  <2> QED
    BY <1>22, <1>0, <2>1 DEF WorkerCompletes, Busy, TypeOK
<1>23. ASSUME Publish PROVE CountInv'
  BY <1>23, <1>0 DEF Publish, Busy
<1>24. ASSUME NotifyHostCompletion PROVE CountInv'
  BY <1>24, <1>0 DEF NotifyHostCompletion, Busy
<1>25. CASE UNCHANGED vars
  BY <1>25 DEF vars, window, signal, CountInv, Busy
<1> QED
  BY <1>1, <1>2, <1>3, <1>4, <1>5, <1>6, <1>7, <1>8, <1>9, <1>10, <1>11, <1>12, <1>13,
     <1>14, <1>15, <1>16, <1>17, <1>18, <1>19, <1>20, <1>21, <1>22, <1>23, <1>24, <1>25
     DEF Next, Control, Worker, Ended

\* Every field keeps its type.
LEMMA TypeStep ==
  ASSUME TypeOK, CountInv, WindowInv, [Next]_vars
  PROVE  TypeOK'
<1> USE DEF window, signal
<1>0. outstanding' \in Nat
  <2>1. CountInv'
    BY CountStep
  <2>2. Cardinality(Busy)' \in Nat
    BY CoordinatorAssumption, FS_Subset, FS_CardinalityType DEF Busy
  <2> QED
    BY <2>1, <2>2 DEF CountInv
<1> USE <1>0
<1>1. ASSUME Sample PROVE TypeOK'
  BY <1>1 DEF Sample, TypeOK, Controls, InRun
<1>2. ASSUME PollReadiness PROVE TypeOK'
  BY <1>2 DEF PollReadiness, TypeOK, Controls, InRun
<1>3. ASSUME OpenWindow PROVE TypeOK'
  BY <1>3 DEF OpenWindow, TypeOK, Controls, InRun
<1>4. ASSUME EndTurn PROVE TypeOK'
  BY <1>4 DEF EndTurn, TypeOK, Controls, InRun
<1>5. ASSUME Submitted PROVE TypeOK'
  BY <1>5 DEF Submitted, TypeOK, Controls, InRun
<1>6. ASSUME NEW W \in SUBSET Channels, NEW p \in BOOLEAN, NEW q \in BOOLEAN,
             Choose(W, p, q) PROVE TypeOK'
  BY <1>6 DEF Choose, TypeOK, Controls, InRun
<1>7. ASSUME NEW c \in Channels, NextSerial(c) PROVE TypeOK'
  BY <1>7 DEF NextSerial, TypeOK, Controls, InRun
<1>8. ASSUME NEW c \in Channels, Submit(c) PROVE TypeOK'
  BY <1>8 DEF Submit, Woken, TypeOK, Controls, InRun
<1>9. ASSUME NEW c \in Channels, DrainOne(c) PROVE TypeOK'
  BY <1>9 DEF DrainOne, TypeOK, Controls, InRun
<1>10. ASSUME Collect PROVE TypeOK'
  BY <1>10 DEF Collect, TypeOK, Controls, InRun
<1>11. ASSUME CollectSleeps PROVE TypeOK'
  BY <1>11 DEF CollectSleeps, TypeOK, Controls, InRun
<1>12. ASSUME ServiceHost PROVE TypeOK'
  BY <1>12 DEF ServiceHost, TypeOK, Controls, InRun
<1>13. ASSUME ServiceThrows PROVE TypeOK'
  BY <1>13 DEF ServiceThrows, TypeOK, Controls, InRun
<1>14. ASSUME DrainSleeps PROVE TypeOK'
  BY <1>14 DEF DrainSleeps, TypeOK, Controls, InRun
<1>15. ASSUME Rethrow PROVE TypeOK'
  BY <1>15 DEF Rethrow, TypeOK, Controls, InRun
<1>16. ASSUME SetStopping PROVE TypeOK'
  BY <1>16 DEF SetStopping, TypeOK, Controls, InRun
<1>17. ASSUME NotifyWorkers PROVE TypeOK'
  BY <1>17 DEF NotifyWorkers, Woken, TypeOK, Controls, InRun
<1>18. ASSUME Join PROVE TypeOK'
  BY <1>18 DEF Join, TypeOK, Controls, InRun
<1>19. ASSUME CollectTimesOut PROVE TypeOK'
  BY <1>19 DEF CollectTimesOut, TypeOK, Controls, InRun
<1>20. ASSUME NEW c \in Channels, WorkerTakes(c) PROVE TypeOK'
  BY <1>20 DEF WorkerTakes, TypeOK, Controls, InRun
<1>21. ASSUME NEW c \in Channels, WorkerRests(c) PROVE TypeOK'
  BY <1>21 DEF WorkerRests, TypeOK, Controls, InRun
<1>22. ASSUME NEW c \in Channels, WorkerCompletes(c) PROVE TypeOK'
  BY <1>22 DEF WorkerCompletes, TypeOK, Controls, InRun
<1>23. ASSUME Publish PROVE TypeOK'
  BY <1>23 DEF Publish, TypeOK, Controls, InRun
<1>24. ASSUME NotifyHostCompletion PROVE TypeOK'
  BY <1>24 DEF NotifyHostCompletion, TypeOK, Controls, InRun
<1>25. CASE UNCHANGED vars
  BY <1>25 DEF vars, window, signal, TypeOK, Controls, InRun
<1> QED
  BY <1>1, <1>2, <1>3, <1>4, <1>5, <1>6, <1>7, <1>8, <1>9, <1>10, <1>11, <1>12, <1>13,
     <1>14, <1>15, <1>16, <1>17, <1>18, <1>19, <1>20, <1>21, <1>22, <1>23, <1>24, <1>25
     DEF Next, Control, Worker, Ended

\* Channels are used in calls of run only, and by the worker that executes.
LEMMA WindowStep ==
  ASSUME TypeOK, CountInv, CountInv', TypeOK', WindowInv, [Next]_vars
  PROVE  WindowInv'
<1> USE DEF window, signal, InRun
<1>0. outstanding' = 0 => Busy' = {}
  <2>1. Cardinality(Busy') = 0 => Busy' = {}
    BY CoordinatorAssumption, FS_Subset, FS_EmptySet DEF Busy
  <2> QED
    BY <2>1 DEF CountInv
<1>1. ASSUME Sample PROVE WindowInv'
  BY <1>1 DEF Sample, WindowInv, Busy
<1>2. ASSUME PollReadiness PROVE WindowInv'
  BY <1>2 DEF PollReadiness, WindowInv, Busy
<1>3. ASSUME OpenWindow PROVE WindowInv'
  BY <1>3 DEF OpenWindow, WindowInv, Busy
<1>4. ASSUME EndTurn PROVE WindowInv'
  BY <1>4 DEF EndTurn, WindowInv, Busy
<1>5. ASSUME Submitted PROVE WindowInv'
  BY <1>5 DEF Submitted, WindowInv, Busy
<1>6. ASSUME NEW W \in SUBSET Channels, NEW p \in BOOLEAN, NEW q \in BOOLEAN,
             Choose(W, p, q) PROVE WindowInv'
  BY <1>6 DEF Choose, WindowInv, Busy
<1>7. ASSUME NEW c \in Channels, NextSerial(c) PROVE WindowInv'
  BY <1>7 DEF NextSerial, WindowInv, Busy
<1>8. ASSUME NEW c \in Channels, Submit(c) PROVE WindowInv'
  BY <1>8 DEF Submit, Woken, TypeOK, WindowInv, Busy
<1>9. ASSUME NEW c \in Channels, DrainOne(c) PROVE WindowInv'
  BY <1>9 DEF DrainOne, Completed, TypeOK, WindowInv, Busy
<1>10. ASSUME Collect PROVE WindowInv'
  <2>1. /\ submitting = {} /\ submitting' = {}
        /\ control' \in {"between", "service"}
        /\ control' = "between" => Busy' = {}
    BY <1>10, <1>0 DEF Collect, WindowInv
  <2>2. ASSUME NEW c \in Channels
        PROVE  worker'[c] = "execute" <=> state'[c] = "Running"
    BY <1>10 DEF Collect, Completed, WindowInv
  <2> QED
    BY <2>1, <2>2 DEF WindowInv
<1>11. ASSUME CollectSleeps PROVE WindowInv'
  BY <1>11 DEF CollectSleeps, WindowInv, Busy
<1>12. ASSUME ServiceHost PROVE WindowInv'
  BY <1>12 DEF ServiceHost, WindowInv, Busy
<1>13. ASSUME ServiceThrows PROVE WindowInv'
  BY <1>13 DEF ServiceThrows, WindowInv, Busy
<1>14. ASSUME DrainSleeps PROVE WindowInv'
  BY <1>14 DEF DrainSleeps, WindowInv, Busy
<1>15. ASSUME Rethrow PROVE WindowInv'
  <2>1. Busy' = {}
    BY <1>15, <1>0 DEF Rethrow
  <2> QED
    BY <1>15, <2>1 DEF Rethrow, WindowInv
<1>16. ASSUME SetStopping PROVE WindowInv'
  BY <1>16 DEF SetStopping, WindowInv, Busy
<1>17. ASSUME NotifyWorkers PROVE WindowInv'
  BY <1>17 DEF NotifyWorkers, Woken, TypeOK, WindowInv, Busy
<1>18. ASSUME Join PROVE WindowInv'
  BY <1>18 DEF Join, WindowInv, Busy
<1>19. ASSUME CollectTimesOut PROVE WindowInv'
  BY <1>19 DEF CollectTimesOut, WindowInv, Busy
<1>20. ASSUME NEW c \in Channels, WorkerTakes(c) PROVE WindowInv'
  BY <1>20 DEF WorkerTakes, TypeOK, WindowInv, Busy
<1>21. ASSUME NEW c \in Channels, WorkerRests(c) PROVE WindowInv'
  BY <1>21 DEF WorkerRests, TypeOK, WindowInv, Busy
<1>22. ASSUME NEW c \in Channels, WorkerCompletes(c) PROVE WindowInv'
  BY <1>22 DEF WorkerCompletes, TypeOK, WindowInv, Busy
<1>23. ASSUME Publish PROVE WindowInv'
  BY <1>23 DEF Publish, WindowInv, Busy
<1>24. ASSUME NotifyHostCompletion PROVE WindowInv'
  BY <1>24 DEF NotifyHostCompletion, WindowInv, Busy
<1>25. CASE UNCHANGED vars
  BY <1>25 DEF vars, window, signal, WindowInv, Busy
<1> QED
  BY <1>1, <1>2, <1>3, <1>4, <1>5, <1>6, <1>7, <1>8, <1>9, <1>10, <1>11, <1>12, <1>13,
     <1>14, <1>15, <1>16, <1>17, <1>18, <1>19, <1>20, <1>21, <1>22, <1>23, <1>24, <1>25
     DEF Next, Control, Worker, Ended

\* What is not seen by a poll came after the sample of the turn.
LEMMA SignalStep ==
  ASSUME TypeOK, WindowInv, SignalInv, [Next]_vars
  PROVE  SignalInv'
<1> USE DEF window, signal
<1>1. ASSUME Sample PROVE SignalInv'
  BY <1>1 DEF Sample, TypeOK, WindowInv, Busy, InRun, SignalInv
<1>2. ASSUME PollReadiness PROVE SignalInv'
  BY <1>2 DEF PollReadiness, TypeOK, SignalInv
<1>3. ASSUME OpenWindow PROVE SignalInv'
  BY <1>3 DEF OpenWindow, SignalInv
<1>4. ASSUME EndTurn PROVE SignalInv'
  BY <1>4 DEF EndTurn, SignalInv
<1>5. ASSUME Submitted PROVE SignalInv'
  BY <1>5 DEF Submitted, SignalInv
<1>6. ASSUME NEW W \in SUBSET Channels, NEW p \in BOOLEAN, NEW q \in BOOLEAN,
             Choose(W, p, q) PROVE SignalInv'
  BY <1>6 DEF Choose, SignalInv
<1>7. ASSUME NEW c \in Channels, NextSerial(c) PROVE SignalInv'
  BY <1>7 DEF NextSerial, SignalInv
<1>8. ASSUME NEW c \in Channels, Submit(c) PROVE SignalInv'
  BY <1>8 DEF Submit, TypeOK, SignalInv
<1>9. ASSUME NEW c \in Channels, DrainOne(c) PROVE SignalInv'
  BY <1>9 DEF DrainOne, TypeOK, SignalInv
<1>10. ASSUME Collect PROVE SignalInv'
  BY <1>10 DEF Collect, TypeOK, Completed, SignalInv
<1>11. ASSUME CollectSleeps PROVE SignalInv'
  BY <1>11 DEF CollectSleeps, SignalInv
<1>12. ASSUME ServiceHost PROVE SignalInv'
  BY <1>12 DEF ServiceHost, SignalInv
<1>13. ASSUME ServiceThrows PROVE SignalInv'
  BY <1>13 DEF ServiceThrows, SignalInv
<1>14. ASSUME DrainSleeps PROVE SignalInv'
  BY <1>14 DEF DrainSleeps, SignalInv
<1>15. ASSUME Rethrow PROVE SignalInv'
  BY <1>15 DEF Rethrow, SignalInv
<1>16. ASSUME SetStopping PROVE SignalInv'
  BY <1>16 DEF SetStopping, SignalInv
<1>17. ASSUME NotifyWorkers PROVE SignalInv'
  BY <1>17 DEF NotifyWorkers, SignalInv
<1>18. ASSUME Join PROVE SignalInv'
  BY <1>18 DEF Join, SignalInv
<1>19. ASSUME CollectTimesOut PROVE SignalInv'
  BY <1>19 DEF CollectTimesOut, SignalInv
<1>20. ASSUME NEW c \in Channels, WorkerTakes(c) PROVE SignalInv'
  BY <1>20 DEF WorkerTakes, TypeOK, SignalInv
<1>21. ASSUME NEW c \in Channels, WorkerRests(c) PROVE SignalInv'
  BY <1>21 DEF WorkerRests, SignalInv
<1>22. ASSUME NEW c \in Channels, WorkerCompletes(c) PROVE SignalInv'
  BY <1>22 DEF WorkerCompletes, TypeOK, SignalInv
<1>23. ASSUME Publish PROVE SignalInv'
  BY <1>23 DEF Publish, SignalInv
<1>24. ASSUME NotifyHostCompletion PROVE SignalInv'
  BY <1>24 DEF NotifyHostCompletion, TypeOK, SignalInv
<1>25. CASE UNCHANGED vars
  BY <1>25 DEF vars, window, signal, SignalInv
<1> QED
  BY <1>1, <1>2, <1>3, <1>4, <1>5, <1>6, <1>7, <1>8, <1>9, <1>10, <1>11, <1>12, <1>13,
     <1>14, <1>15, <1>16, <1>17, <1>18, <1>19, <1>20, <1>21, <1>22, <1>23, <1>24, <1>25
     DEF Next, Control, Worker, Ended

\* The invariant holds initially.
LEMMA InitCoordinator == Init => CoordinatorInv
<1> SUFFICES ASSUME Init PROVE CoordinatorInv
  OBVIOUS
<1>1. TypeOK
  BY DEF Init, TypeOK, Controls
<1>2. Busy = {}
  BY DEF Init, Busy
<1>3. CountInv
  BY <1>2, FS_EmptySet DEF Init, CountInv
<1>4. WindowInv
  BY <1>2 DEF Init, WindowInv
<1>5. SignalInv
  BY DEF Init, SignalInv
<1> QED
  BY <1>1, <1>3, <1>4, <1>5 DEF CoordinatorInv

\* The invariant holds in every reachable state.
THEOREM CoordinatorInvariant == Spec => []CoordinatorInv
<1>1. Init => CoordinatorInv
  BY InitCoordinator
<1>2. CoordinatorInv /\ [Next]_vars => CoordinatorInv'
  BY CountStep, TypeStep, WindowStep, SignalStep DEF CoordinatorInv
<1> QED
  BY <1>1, <1>2, PTL DEF Spec

\* Every field keeps its type: the unsigned outstanding never underflows.
THEOREM CoordinatorTypeTheorem == Spec => []TypeOK
<1>1. CoordinatorInv => TypeOK
  BY DEF CoordinatorInv
<1> QED
  BY <1>1, CoordinatorInvariant, PTL

\* A completion that a poll has not seen interrupts every armed slice.
THEOREM NoMissedCompletionTheorem == Spec => []NoMissedCompletion
<1>1. CoordinatorInv => NoMissedCompletion
  <2> SUFFICES ASSUME CoordinatorInv, NEW c \in Channels, worker[c] = "execute", unseen > 0
               PROVE  generation # request[c].generation
    BY DEF NoMissedCompletion
  <2>1. state[c] = "Running" /\ c \in Busy
    BY DEF CoordinatorInv, WindowInv, Busy
  <2>2. control # "poll"
    BY <2>1 DEF CoordinatorInv, WindowInv, InRun
  <2> QED
    BY <2>1, <2>2 DEF CoordinatorInv, SignalInv, TypeOK
<1> QED
  BY <1>1, CoordinatorInvariant, PTL

-----------------------------------------------------------------------------
(* Refinement of ExecutionWindow.                                          *)

Waiting == IF control \in InRun
           THEN submitting \cup {c \in Channels : state[c] = "Submitted"}
           ELSE {}
Running == {c \in Channels : state[c] = "Running"}

\* A step that keeps the call, its requests and what runs is no abstract step.
LEMMA KeepsWindow ==
  ASSUME control' \in InRun <=> control \in InRun, submitting' = submitting,
         \A c \in Channels : /\ state'[c] = "Submitted" <=> state[c] = "Submitted"
                             /\ state'[c] = "Running" <=> state[c] = "Running"
  PROVE  UNCHANGED Abstract!avars
<1>1. Running' = Running
  BY DEF Running
<1>2. Waiting' = Waiting
  BY DEF Waiting
<1> QED
  BY <1>1, <1>2 DEF Abstract!avars, Running, Waiting

\* Between calls of run, requests are not the abstract window's yet.
LEMMA KeepsClosed ==
  ASSUME control \notin InRun, control' \notin InRun, state' = state
  PROVE  UNCHANGED Abstract!avars
BY DEF Abstract!avars

\* A call that ends with no channel in use closes the abstract window.
LEMMA SimulateClose ==
  ASSUME control \in InRun, control' \notin InRun, submitting = {}, Busy' = {},
         \A c \in Channels : /\ state'[c] = "Submitted" <=> state[c] = "Submitted"
                             /\ state'[c] = "Running" <=> state[c] = "Running"
  PROVE  Abstract!CloseWindow
<1>1. \A c \in Channels : state[c] # "Submitted" /\ state[c] # "Running"
  BY DEF Busy
<1>2. \A c \in Channels : state'[c] # "Submitted" /\ state'[c] # "Running"
  BY <1>1
<1>3. Running = {} /\ Running' = {}
  BY <1>1, <1>2 DEF Running
<1>4. Waiting = {} /\ Waiting' = {}
  BY <1>1, <1>2 DEF Waiting
<1> QED
  BY <1>3, <1>4 DEF Abstract!CloseWindow, Waiting, Running

\* The call of run hands over the requests of the window.
LEMMA SimulateOpen ==
  ASSUME CoordinatorInv, OpenWindow
  PROVE  Abstract!ANext
<1>1. control \notin InRun /\ control' \in InRun /\ state' = state /\ submitting' = submitting
  BY DEF OpenWindow, InRun, window
<1>2. \A c \in Channels : state[c] = "Idle"
  BY <1>1 DEF CoordinatorInv, WindowInv, Busy
<1>3. Running' = {} /\ Waiting' = submitting
  BY <1>1, <1>2 DEF Running, Waiting
<1>4. submitting \in SUBSET Channels
  BY DEF CoordinatorInv, TypeOK
<1>5. \E W \in SUBSET Channels : Abstract!OpenWindow(W)
  BY <1>1, <1>3, <1>4 DEF Abstract!OpenWindow, Running, Waiting
<1> QED
  BY <1>5 DEF Abstract!ANext

\* A worker that takes a request starts its execution.
LEMMA SimulateTake ==
  ASSUME CoordinatorInv, NEW c \in Channels, WorkerTakes(c)
  PROVE  Abstract!ANext
<1> USE DEF window, signal
<1>1. /\ control \in InRun /\ control' = control
      /\ submitting' = submitting /\ c \notin submitting
  BY DEF WorkerTakes, CoordinatorInv, WindowInv, Busy
<1>2. state[c] = "Submitted" /\ state' = [state EXCEPT ![c] = "Running"] /\ TypeOK
  BY DEF WorkerTakes, CoordinatorInv
<1>3. Running' = Running \cup {c}
  BY <1>2 DEF Running, TypeOK
<1>4. c \in Waiting /\ Waiting' = Waiting \ {c}
  BY <1>1, <1>2 DEF Waiting, TypeOK
<1>5. Abstract!Start(c)
  BY <1>1, <1>3, <1>4 DEF Abstract!Start, Running, Waiting
<1> QED
  BY <1>5 DEF Abstract!ANext

\* A worker whose execute returns ends the execution.
LEMMA SimulateComplete ==
  ASSUME CoordinatorInv, NEW c \in Channels, WorkerCompletes(c)
  PROVE  Abstract!ANext
<1> USE DEF window, signal
<1>1. state[c] = "Running" /\ state' = [state EXCEPT ![c] = "Completed"] /\ TypeOK
  BY DEF WorkerCompletes, CoordinatorInv, WindowInv
<1>2. control \in InRun
  BY <1>1 DEF CoordinatorInv, WindowInv, Busy
<1>3. control' \in InRun /\ submitting' = submitting
  BY <1>2 DEF WorkerCompletes, InRun
<1>4. c \in Running /\ Running' = Running \ {c}
  BY <1>1 DEF Running, TypeOK
<1>5. Waiting' = Waiting
  BY <1>1, <1>2, <1>3 DEF Waiting, TypeOK
<1>6. Abstract!Finish(c)
  BY <1>2, <1>3, <1>4, <1>5 DEF Abstract!Finish, Running, Waiting
<1> QED
  BY <1>6 DEF Abstract!ANext

\* Every step of the coordinator is an abstract step or changes nothing abstract.
LEMMA SimulateStep ==
  ASSUME CoordinatorInv, CoordinatorInv', [Next]_vars
  PROVE  [Abstract!ANext]_(Abstract!avars)
<1> USE DEF window, signal
<1>0. TypeOK /\ TypeOK' /\ WindowInv /\ WindowInv'
  BY DEF CoordinatorInv
<1>1. ASSUME Sample PROVE [Abstract!ANext]_(Abstract!avars)
  BY <1>1, KeepsWindow DEF Sample, InRun
<1>2. ASSUME PollReadiness PROVE [Abstract!ANext]_(Abstract!avars)
  BY <1>2, KeepsWindow DEF PollReadiness, InRun
<1>3. ASSUME OpenWindow PROVE [Abstract!ANext]_(Abstract!avars)
  BY <1>3, SimulateOpen
<1>4. ASSUME EndTurn PROVE [Abstract!ANext]_(Abstract!avars)
  BY <1>4, KeepsWindow DEF EndTurn, InRun
<1>5. ASSUME Submitted PROVE [Abstract!ANext]_(Abstract!avars)
  BY <1>5, KeepsWindow DEF Submitted, InRun
<1>6. ASSUME NEW W \in SUBSET Channels, NEW p \in BOOLEAN, NEW q \in BOOLEAN,
             Choose(W, p, q) PROVE [Abstract!ANext]_(Abstract!avars)
  BY <1>6, KeepsClosed DEF Choose, InRun
<1>7. ASSUME NEW c \in Channels, NextSerial(c) PROVE [Abstract!ANext]_(Abstract!avars)
  BY <1>7, KeepsClosed DEF NextSerial, InRun
<1>8. ASSUME NEW c \in Channels, Submit(c) PROVE [Abstract!ANext]_(Abstract!avars)
  <2>1. /\ control \in InRun /\ control' \in InRun /\ c \in submitting
        /\ submitting' = submitting \ {c} /\ state[c] = "Idle"
        /\ state' = [state EXCEPT ![c] = "Submitted"]
    BY <1>8 DEF Submit, InRun
  <2>2. Running' = Running
    BY <1>0, <2>1 DEF Running, TypeOK
  <2>3. Waiting' = Waiting
    BY <1>0, <2>1 DEF Waiting, TypeOK
  <2> QED
    BY <2>1, <2>2, <2>3 DEF Abstract!avars, Running, Waiting
<1>9. ASSUME NEW c \in Channels, DrainOne(c) PROVE [Abstract!ANext]_(Abstract!avars)
  BY <1>9, <1>0, KeepsWindow DEF DrainOne, Completed, TypeOK
<1>10. ASSUME Collect PROVE [Abstract!ANext]_(Abstract!avars)
  <2>1. \A c \in Channels : /\ state'[c] = "Submitted" <=> state[c] = "Submitted"
                            /\ state'[c] = "Running" <=> state[c] = "Running"
    BY <1>10 DEF Collect, Completed
  <2>2. CASE outstanding' = 0
    <3>1. Busy' = {}
      BY <1>10, <1>0, <2>2 DEF Collect, WindowInv, InRun
    <3>2. Abstract!CloseWindow
      BY <1>10, <1>0, <2>1, <2>2, <3>1, SimulateClose DEF Collect, WindowInv, InRun
    <3> QED
      BY <3>2 DEF Abstract!ANext
  <2>3. CASE outstanding' # 0
    BY <1>10, <2>1, <2>3, KeepsWindow DEF Collect, InRun
  <2> QED
    BY <2>2, <2>3
<1>11. ASSUME CollectSleeps PROVE [Abstract!ANext]_(Abstract!avars)
  BY <1>11, KeepsWindow DEF CollectSleeps, InRun
<1>12. ASSUME ServiceHost PROVE [Abstract!ANext]_(Abstract!avars)
  BY <1>12, KeepsWindow DEF ServiceHost, InRun
<1>13. ASSUME ServiceThrows PROVE [Abstract!ANext]_(Abstract!avars)
  BY <1>13, KeepsWindow DEF ServiceThrows, InRun
<1>14. ASSUME DrainSleeps PROVE [Abstract!ANext]_(Abstract!avars)
  BY <1>14, KeepsWindow DEF DrainSleeps, InRun
<1>15. ASSUME Rethrow PROVE [Abstract!ANext]_(Abstract!avars)
  <2>1. Busy' = {} /\ submitting = {} /\ state' = state
    BY <1>15, <1>0 DEF Rethrow, WindowInv, InRun
  <2>2. Abstract!CloseWindow
    BY <1>15, <2>1, SimulateClose DEF Rethrow, InRun
  <2> QED
    BY <2>2 DEF Abstract!ANext
<1>16. ASSUME SetStopping PROVE [Abstract!ANext]_(Abstract!avars)
  BY <1>16, KeepsWindow DEF SetStopping, InRun
<1>17. ASSUME NotifyWorkers PROVE [Abstract!ANext]_(Abstract!avars)
  BY <1>17, KeepsWindow DEF NotifyWorkers, InRun
<1>18. ASSUME Join PROVE [Abstract!ANext]_(Abstract!avars)
  BY <1>18, KeepsWindow DEF Join, InRun
<1>19. ASSUME CollectTimesOut PROVE [Abstract!ANext]_(Abstract!avars)
  BY <1>19, KeepsWindow DEF CollectTimesOut, InRun
<1>20. ASSUME NEW c \in Channels, WorkerTakes(c) PROVE [Abstract!ANext]_(Abstract!avars)
  BY <1>20, SimulateTake
<1>21. ASSUME NEW c \in Channels, WorkerRests(c) PROVE [Abstract!ANext]_(Abstract!avars)
  BY <1>21, KeepsWindow DEF WorkerRests, InRun
<1>22. ASSUME NEW c \in Channels, WorkerCompletes(c) PROVE [Abstract!ANext]_(Abstract!avars)
  BY <1>22, SimulateComplete
<1>23. ASSUME Publish PROVE [Abstract!ANext]_(Abstract!avars)
  BY <1>23, KeepsWindow DEF Publish, InRun
<1>24. ASSUME NotifyHostCompletion PROVE [Abstract!ANext]_(Abstract!avars)
  BY <1>24, KeepsWindow DEF NotifyHostCompletion, InRun
<1>25. CASE UNCHANGED vars
  BY <1>25 DEF vars, window, signal, Abstract!avars
<1> QED
  BY <1>1, <1>2, <1>3, <1>4, <1>5, <1>6, <1>7, <1>8, <1>9, <1>10, <1>11, <1>12, <1>13,
     <1>14, <1>15, <1>16, <1>17, <1>18, <1>19, <1>20, <1>21, <1>22, <1>23, <1>24, <1>25
     DEF Next, Control, Worker, Ended

\* A call of run implements a window in which every request is executed once.
THEOREM CoordinatorImplements == Spec => Implements
<1>1. Init => Abstract!AInit
  BY DEF Init, Abstract!AInit, InRun
<1>2. CoordinatorInv /\ CoordinatorInv' /\ [Next]_vars => [Abstract!ANext]_(Abstract!avars)
  BY SimulateStep
<1> QED
  BY <1>1, <1>2, CoordinatorInvariant, PTL DEF Spec, Implements, Abstract!ASpec
=============================================================================
