---------------------------- MODULE ByteLockTable ----------------------------
(* What an advisory lock table promises: each owner holds each byte not at *)
(* all, shared or exclusively.  A step changes the bytes of one owner, all *)
(* alike; a lock is taken only when no other owner's excludes it; and      *)
(* owners that cease to exist lose everything.                             *)
CONSTANTS Owners, Bytes

VARIABLE held

NoBytes == [b \in Bytes |-> "none"]
Compatible(m, k) == m = "none" \/ (m = "shared" /\ k = "shared")
With(row, B, m) == [b \in Bytes |-> IF b \in B THEN m ELSE row[b]]

AInit == held = [o \in Owners |-> NoBytes]

(* From table h to table n, by a call of owner o.                          *)
Keep(h, n, o) == n[o] \in {h[o], NoBytes}
Drop(h, n, o, B) == n[o] = With(h[o], B, "none")
Take(h, n, o, B, k) ==
    /\ n[o] = With(h[o], B, k)
    /\ \A q \in Owners \ {o}, b \in B : Compatible(h[q][b], k)

Call(h, n) ==
    \E o \in Owners :
        /\ \A q \in Owners \ {o} : Keep(h, n, q)
        /\ \/ Keep(h, n, o)
           \/ \E B \in SUBSET Bytes :
                 Drop(h, n, o, B) \/ Take(h, n, o, B, "shared")
                                  \/ Take(h, n, o, B, "exclusive")

ANext == LET h == held
             n == held'
         IN  Call(h, n)

ASpec == AInit /\ [][ANext]_held
=============================================================================
