--------------------------- MODULE ExecutionWindow ---------------------------
(* What the session needs of GuestExecutionCoordinator::run: from the call *)
(* until it returns or throws, every request handed over is executed once; *)
(* outside a call no request is touched.                                   *)
CONSTANT Channels

VARIABLES open,     \* a call of run is in progress
          waiting,  \* requests of the window not executed yet
          running   \* requests being executed

avars == <<open, waiting, running>>

AInit == open = FALSE /\ waiting = {} /\ running = {}

OpenWindow(W) ==
    /\ ~open
    /\ open' = TRUE
    /\ waiting' = W
    /\ running' = {}

Start(c) ==
    /\ open
    /\ c \in waiting
    /\ waiting' = waiting \ {c}
    /\ running' = running \cup {c}
    /\ open' = open

Finish(c) ==
    /\ open
    /\ c \in running
    /\ running' = running \ {c}
    /\ UNCHANGED <<open, waiting>>

CloseWindow ==
    /\ open
    /\ waiting = {}
    /\ running = {}
    /\ open' = FALSE
    /\ UNCHANGED <<waiting, running>>

ANext ==
    \/ \E W \in SUBSET Channels : OpenWindow(W)
    \/ \E c \in Channels : Start(c) \/ Finish(c)
    \/ CloseWindow

ASpec == AInit /\ [][ANext]_avars
=============================================================================
