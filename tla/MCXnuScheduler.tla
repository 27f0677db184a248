--------------------------- MODULE MCXnuScheduler ---------------------------
(* Two threads of one process.                                             *)
EXTENDS XnuScheduler

CONSTANTS t1, t2, a

Pair == {t1, t2}
OneProcess == {a}
PairProcess == [t \in Pair |-> a]
=============================================================================
