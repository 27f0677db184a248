------------------------ MODULE MachMessageQueueProofs ------------------------
(* Proofs about MachMessageQueue, for any numbers of ports, sets, threads  *)
(* and messages.  The invariant has a part for the blocked senders, one    *)
(* for the send-possible requests, one for the port sets, one for the      *)
(* blocked receivers and one for the order of messages.                    *)
EXTENDS MachMessageQueue, QueueTheorems, FiniteSetTheorems, TLAPS

-----------------------------------------------------------------------------
(* Blocked senders: tickets tk, lists of waiters wq and reservations rs.   *)
OnPort(tk, p) == {s \in DOMAIN tk : tk[s].port = p}
GrantedOn(tk, p) == {s \in DOMAIN tk : tk[s].port = p /\ tk[s].state = "Granted"}

TicketsOk(tk) == DOMAIN tk \subseteq Senders /\ \A s \in DOMAIN tk : tk[s] \in Tickets

(* The waiters of a port are the tickets on it, once each.                 *)
Lists(tk, wq) ==
    /\ wq \in [Ports -> Seq(Senders)]
    /\ \A p \in Ports : IsInjective(wq[p]) /\ ToSet(wq[p]) = OnPort(tk, p)
Counts(tk, rs) ==
    /\ rs \in [Ports -> Nat]
    /\ \A p \in Ports : rs[p] = Cardinality(GrantedOn(tk, p))

(* Nobody owns a slot while an earlier sender could be given it.           *)
InTurn(tk, w) ==
    \A x, y : Precedes(w, x, y) /\ tk[y].state = "Granted" => ~ Grantable(tk, x)
Turns(tk, wq) == \A p \in Ports : InTurn(tk, wq[p])

SendersOk(tk, wq, rs) ==
    /\ TicketsOk(tk) /\ Lists(tk, wq) /\ Counts(tk, rs) /\ Turns(tk, wq)

\* The position of an element is one of the indices at which it is found.
LEMMA PositionIs ==
  ASSUME NEW q, NEW x \in ToSet(q)
  PROVE  Position(q, x) \in DOMAIN q /\ q[Position(q, x)] = x
<1>1. \E i \in DOMAIN q : q[i] = x
  BY DEF ToSet
<1> QED
  BY <1>1 DEF Position

LEMMA PositionInjective ==
  ASSUME NEW q, IsInjective(q), NEW i \in DOMAIN q
  PROVE  Position(q, q[i]) = i
<1>1. q[i] \in ToSet(q)
  BY DEF ToSet
<1>2. Position(q, q[i]) \in DOMAIN q /\ q[Position(q, q[i])] = q[i]
  BY <1>1, PositionIs
<1> QED
  BY <1>2 DEF IsInjective

\* The sets of tickets of a port are finite.
LEMMA TicketSets ==
  ASSUME NEW tk, TicketsOk(tk), NEW p
  PROVE  /\ IsFiniteSet(OnPort(tk, p)) /\ Cardinality(OnPort(tk, p)) \in Nat
         /\ IsFiniteSet(GrantedOn(tk, p)) /\ Cardinality(GrantedOn(tk, p)) \in Nat
         /\ IsFiniteSet(DOMAIN tk)
<1>1. IsFiniteSet(DOMAIN tk)
  BY ObjectsAssumption, FS_Subset DEF TicketsOk
<1>2. OnPort(tk, p) \in SUBSET DOMAIN tk /\ GrantedOn(tk, p) \in SUBSET DOMAIN tk
  BY DEF OnPort, GrantedOn
<1> QED
  BY <1>1, <1>2, FS_Subset, FS_CardinalityType

\* Grant changes nothing but the states of waiting tickets in the list.
LEMMA GrantIs ==
  ASSUME NEW tk, TicketsOk(tk), NEW w, NEW n \in Nat, NEW G, G = Grant(tk, w, n)
  PROVE  /\ DOMAIN G = DOMAIN tk /\ TicketsOk(G)
         /\ \A s \in DOMAIN tk :
               /\ G[s].port = tk[s].port
               /\ tk[s].state # "Waiting" => G[s].state = tk[s].state
               /\ G[s].state = "Granted" /\ tk[s].state # "Granted" =>
                     /\ s \in ToSet(w) /\ Grantable(tk, s) /\ n # 0
                     /\ GrantableBefore(tk, w, s) < n
               /\ Grantable(G, s) =>
                     /\ Grantable(tk, s) /\ tk[s].state # "Granted"
                     /\ s \in ToSet(w) /\ n # 0 => ~ (GrantableBefore(tk, w, s) < n)
               /\ s \in ToSet(w) /\ Grantable(tk, s) /\ n # 0 /\ GrantableBefore(tk, w, s) < n
                     => G[s].state = "Granted"
               /\ n = 0 => G[s] = tk[s]
<1>1. DOMAIN G = DOMAIN tk
  BY DEF Grant
<1>2. ASSUME NEW s \in DOMAIN tk
      PROVE  /\ G[s] \in Tickets
             /\ G[s].port = tk[s].port
             /\ tk[s].state # "Waiting" => G[s].state = tk[s].state
             /\ G[s].state = "Granted" /\ tk[s].state # "Granted" =>
                   /\ s \in ToSet(w) /\ Grantable(tk, s) /\ n # 0
                   /\ GrantableBefore(tk, w, s) < n
             /\ Grantable(G, s) =>
                   /\ Grantable(tk, s) /\ tk[s].state # "Granted"
                   /\ s \in ToSet(w) /\ n # 0 => ~ (GrantableBefore(tk, w, s) < n)
             /\ s \in ToSet(w) /\ Grantable(tk, s) /\ n # 0 /\ GrantableBefore(tk, w, s) < n
                   => G[s].state = "Granted"
             /\ n = 0 => G[s] = tk[s]
  <2>1. tk[s] \in Tickets
    BY DEF TicketsOk
  <2>2. G[s] = IF n = 0 \/ s \notin ToSet(w) \/ tk[s].state # "Waiting" THEN tk[s]
               ELSE IF tk[s].due = "passed"
                    THEN IF GrantableBefore(tk, w, s) <= n
                         THEN [tk[s] EXCEPT !.state = "TimedOut"] ELSE tk[s]
                    ELSE IF GrantableBefore(tk, w, s) < n
                         THEN [tk[s] EXCEPT !.state = "Granted"] ELSE tk[s]
    BY DEF Grant
  <2>3. /\ [tk[s] EXCEPT !.state = "TimedOut"] \in Tickets
        /\ [tk[s] EXCEPT !.state = "Granted"] \in Tickets
        /\ [tk[s] EXCEPT !.state = "TimedOut"].state = "TimedOut"
        /\ [tk[s] EXCEPT !.state = "TimedOut"].port = tk[s].port
        /\ [tk[s] EXCEPT !.state = "Granted"].state = "Granted"
        /\ [tk[s] EXCEPT !.state = "Granted"].port = tk[s].port
        /\ [tk[s] EXCEPT !.state = "Granted"].due = tk[s].due
    BY <2>1 DEF Tickets, SendStates
  <2> DEFINE before == GrantableBefore(tk, w, s)
  <2> HIDE DEF before
  <2>4. CASE n = 0 \/ s \notin ToSet(w) \/ tk[s].state # "Waiting"
    BY <2>1, <2>2, <2>4 DEF Grantable
  <2>5. CASE ~ (n = 0 \/ s \notin ToSet(w) \/ tk[s].state # "Waiting") /\ tk[s].due = "passed"
    BY <2>1, <2>2, <2>3, <2>5 DEF Grantable
  <2>6. CASE ~ (n = 0 \/ s \notin ToSet(w) \/ tk[s].state # "Waiting") /\ tk[s].due # "passed"
    BY <2>1, <2>2, <2>3, <2>6 DEF Grantable
  <2> QED
    BY <2>4, <2>5, <2>6
<1>3. TicketsOk(G)
  BY <1>1, <1>2 DEF TicketsOk
<1> QED
  BY <1>1, <1>2, <1>3

\* A grant adds the tickets that it grants to those that own a slot.
LEMMA GrantCounts ==
  ASSUME NEW tk, TicketsOk(tk), NEW w, NEW p, ToSet(w) = OnPort(tk, p),
         NEW n \in Nat, NEW G, G = Grant(tk, w, n)
  PROVE  /\ NewlyGranted(tk, G) \in Nat
         /\ Cardinality(GrantedOn(G, p)) = Cardinality(GrantedOn(tk, p)) + NewlyGranted(tk, G)
         /\ \A q : OnPort(G, q) = OnPort(tk, q)
         /\ \A q : q # p => GrantedOn(G, q) = GrantedOn(tk, q)
<1> DEFINE New == {s \in DOMAIN G : G[s].state = "Granted" /\ tk[s].state # "Granted"}
           Old == GrantedOn(tk, p)
<1>1. DOMAIN G = DOMAIN tk /\ TicketsOk(G)
  BY GrantIs
<1>2. ASSUME NEW s \in DOMAIN tk
      PROVE  /\ G[s].port = tk[s].port
             /\ tk[s].state # "Waiting" => G[s].state = tk[s].state
             /\ G[s].state = "Granted" /\ tk[s].state # "Granted" => s \in ToSet(w)
  BY GrantIs
<1>3. \A q : OnPort(G, q) = OnPort(tk, q)
  BY <1>1, <1>2 DEF OnPort
<1>4. \A s \in DOMAIN tk : tk[s].state = "Granted" => G[s].state = "Granted"
  BY <1>2
<1>5. New \in SUBSET OnPort(tk, p)
  BY <1>1, <1>2
<1>6. IsFiniteSet(New) /\ Cardinality(New) \in Nat
  BY <1>5, TicketSets, FS_Subset, FS_CardinalityType
<1>7. IsFiniteSet(Old) /\ Cardinality(Old) \in Nat
  BY TicketSets
<1>8. New \cap Old = {}
  BY DEF GrantedOn
<1>9. GrantedOn(G, p) = Old \cup New
  BY <1>1, <1>2, <1>4, <1>5 DEF GrantedOn, OnPort
<1>10. Cardinality(Old \cup New) = Cardinality(Old) + Cardinality(New)
  <2>1. Cardinality(Old \cup New) = Cardinality(Old) + Cardinality(New) - Cardinality(Old \cap New)
    BY <1>6, <1>7, FS_Union
  <2>2. Cardinality(Old \cap New) = 0
    BY <1>8, FS_EmptySet
  <2> HIDE DEF Old, New
  <2> QED
    BY <1>6, <1>7, <2>1, <2>2
<1>11. ASSUME NEW q, q # p PROVE GrantedOn(G, q) = GrantedOn(tk, q)
  <2>1. ASSUME NEW s \in DOMAIN tk, tk[s].port = q PROVE G[s].state = "Granted" <=> tk[s].state = "Granted"
    <3>1. s \notin OnPort(tk, p)
      BY <1>11, <2>1 DEF OnPort
    <3> QED
      BY <1>2, <1>4, <3>1
  <2> QED
    BY <1>1, <1>2, <2>1 DEF GrantedOn
<1>12. NewlyGranted(tk, G) = Cardinality(New)
  BY DEF NewlyGranted
<1> QED
  BY <1>3, <1>6, <1>9, <1>10, <1>11, <1>12

\* The positions before one are finitely many, and more before a later one.
LEMMA BeforeCounts ==
  ASSUME NEW tk, NEW w, NEW i \in Nat, NEW j \in Nat, i <= j
  PROVE  LET B(k) == {m \in 1 .. (k - 1) : Grantable(tk, w[m])}
         IN  /\ IsFiniteSet(B(i)) /\ Cardinality(B(i)) \in Nat
             /\ IsFiniteSet(B(j)) /\ Cardinality(B(j)) \in Nat
             /\ Cardinality(B(i)) <= Cardinality(B(j))
<1> DEFINE B(k) == {m \in 1 .. (k - 1) : Grantable(tk, w[m])}
<1>1. IsFiniteSet(1 .. (j - 1))
  BY FS_Interval
<1>2. B(j) \in SUBSET (1 .. (j - 1)) /\ B(i) \in SUBSET B(j)
  OBVIOUS
<1> HIDE DEF B
<1>3. IsFiniteSet(B(j)) /\ IsFiniteSet(B(i)) /\ Cardinality(B(i)) <= Cardinality(B(j))
  BY <1>1, <1>2, FS_Subset
<1>4. Cardinality(B(j)) \in Nat /\ Cardinality(B(i)) \in Nat
  BY <1>3, FS_CardinalityType
<1> QED
  BY <1>3, <1>4 DEF B

\* Slots are granted in turn.
LEMMA GrantTurns ==
  ASSUME NEW tk, TicketsOk(tk), NEW w \in Seq(Senders), IsInjective(w),
         ToSet(w) \in SUBSET DOMAIN tk,
         InTurn(tk, w), NEW n \in Nat, NEW G, G = Grant(tk, w, n)
  PROVE  InTurn(G, w)
<1> SUFFICES ASSUME NEW x, NEW y, Precedes(w, x, y), G[y].state = "Granted", Grantable(G, x)
             PROVE  FALSE
  BY DEF InTurn
<1>1. PICK i, j \in DOMAIN w : i < j /\ w[i] = x /\ w[j] = y
  BY DEF Precedes
<1>2. Len(w) \in Nat /\ DOMAIN w = 1 .. Len(w)
  BY LenProperties
<1>3. x \in ToSet(w) /\ y \in ToSet(w)
  BY <1>1 DEF ToSet
<1>4. Position(w, x) = i /\ Position(w, y) = j
  BY <1>1, PositionInjective
<1>5. /\ Grantable(tk, x)
      /\ n # 0 => ~ (GrantableBefore(tk, w, x) < n)
  BY <1>3, GrantIs
<1>6. tk[y].state # "Granted"
  BY <1>5 DEF InTurn
<1>7. n # 0 /\ GrantableBefore(tk, w, y) < n
  BY <1>3, <1>6, GrantIs
<1>8. /\ GrantableBefore(tk, w, x) \in Nat /\ GrantableBefore(tk, w, y) \in Nat
      /\ GrantableBefore(tk, w, x) <= GrantableBefore(tk, w, y)
  <2>1. i \in Nat /\ j \in Nat /\ i <= j
    BY <1>1, <1>2
  <2> QED
    BY <1>4, <2>1, BeforeCounts DEF GrantableBefore
<1> QED
  BY <1>5, <1>7, <1>8

\* When somebody is left waiting, all n slots have been granted: the first
\* position that was passed over has n granted ones before it.
LEMMA GrantFills ==
  ASSUME NEW tk, TicketsOk(tk), NEW w \in Seq(Senders), IsInjective(w),
         ToSet(w) \in SUBSET DOMAIN tk,
         NEW n \in Nat, NEW G, G = Grant(tk, w, n),
         NEW s \in ToSet(w), Grantable(G, s)
  PROVE  n <= NewlyGranted(tk, G)
<1> DEFINE B(k) == {m \in 1 .. (k - 1) : Grantable(tk, w[m])}
           All == {i \in DOMAIN w : Grantable(tk, w[i])}
           H == {i \in All : Cardinality(B(i)) < n}
           New == {t \in DOMAIN G : G[t].state = "Granted" /\ tk[t].state # "Granted"}
<1>1. Len(w) \in Nat /\ DOMAIN w = 1 .. Len(w)
  BY LenProperties
<1>2. DOMAIN G = DOMAIN tk /\ TicketsOk(G)
  BY GrantIs
<1>3. CASE n = 0
  <2>1. New \in SUBSET DOMAIN G
    OBVIOUS
  <2>2. IsFiniteSet(New)
    BY <1>2, <2>1, TicketSets, FS_Subset
  <2>3. Cardinality(New) \in Nat
    BY <2>2, FS_CardinalityType
  <2> QED
    BY <1>3, <2>3 DEF NewlyGranted
<1>4. CASE n # 0
  <2>1. ASSUME NEW i \in DOMAIN w
        PROVE  GrantableBefore(tk, w, w[i]) = Cardinality(B(i)) /\ w[i] \in ToSet(w)
    BY PositionInjective DEF GrantableBefore, ToSet
  <2>2. PICK k \in DOMAIN w : w[k] = s
    BY DEF ToSet
  <2>3. Grantable(tk, s) /\ ~ (GrantableBefore(tk, w, s) < n)
    BY <1>4, GrantIs
  <2>4. k \in All \ H
    BY <2>1, <2>2, <2>3
  <2>5. \A i \in H : w[i] \in New
    BY <1>2, <1>4, <2>1, GrantIs DEF Grantable
  <2>6. IsFiniteSet(H) /\ Cardinality(H) \in Nat
    <3>1. H \in SUBSET DOMAIN w /\ IsFiniteSet(DOMAIN w)
      BY <1>1, FS_Interval
    <3> QED
      BY <3>1, FS_Subset, FS_CardinalityType
  <2>7. n <= Cardinality(H)
    <3>1. SUFFICES ASSUME Cardinality(H) < n PROVE FALSE
      BY <2>6
    <3>2. (All \ H) \in SUBSET Nat /\ All \ H # {}
      <4>1. All \in SUBSET (1 .. Len(w))
        BY <1>1
      <4> HIDE DEF All, H
      <4>2. 1 .. Len(w) \in SUBSET Nat
        BY <1>1
      <4> QED
        BY <2>4, <4>1, <4>2
    <3>3. PICK i \in All \ H : \A j \in All \ H : i <= j
      BY <3>2, NatMin
    <3>4. i \in Nat /\ i \in 1 .. Len(w) /\ i \in All
      BY <1>1, <3>3
    <3>5. B(i) \in SUBSET H
      <4>1. ASSUME NEW m \in B(i) PROVE m \in H
        <5>1. m \in DOMAIN w /\ Grantable(tk, w[m]) /\ ~ (i <= m)
          BY <1>1, <3>4
        <5>2. m \in All
          BY <5>1
        <5> HIDE DEF All, H
        <5> QED
          BY <3>3, <5>1, <5>2
      <4> QED
        BY <4>1
    <3>6. Cardinality(B(i)) <= Cardinality(H) /\ IsFiniteSet(B(i))
      BY <2>6, <3>5, FS_Subset
    <3>7. Cardinality(B(i)) \in Nat
      BY <3>6, FS_CardinalityType
    <3>8. Cardinality(B(i)) < n
      <4> HIDE DEF B, H
      <4> QED
        BY <2>6, <3>1, <3>6, <3>7
    <3> QED
      BY <3>3, <3>4, <3>8
  <2>8. Cardinality(H) <= Cardinality(New)
    <3> DEFINE f == [i \in H |-> w[i]]
    <3>1. f \in [H -> New]
      BY <2>5
    <3>2. \A i, j \in H : f[i] = f[j] => i = j
      BY DEF IsInjective
    <3>3. f \in Injection(H, New)
      BY <3>1, <3>2 DEF Injection, IsInjective
    <3>4. IsFiniteSet(New)
      BY <1>2, TicketSets, FS_Subset
    <3> QED
      BY <3>3, <3>4, FS_Injection
  <2>9. IsFiniteSet(New) /\ Cardinality(New) \in Nat
    BY <1>2, TicketSets, FS_Subset, FS_CardinalityType
  <2>10. n <= Cardinality(New)
    <3> HIDE DEF H, New
    <3> QED
      BY <2>6, <2>7, <2>8, <2>9
  <2> QED
    BY <2>10 DEF NewlyGranted
<1> QED
  BY <1>3, <1>4

(* Where a sender waits, the messages (d of them on each port) and the     *)
(* promised slots reach the limit; but for n slots on p.                   *)
Lens(q) == [p \in Ports |-> Len(q[p])]
Fills(tk, rs, d, lim, L) ==
    \A s \in DOMAIN tk : Grantable(tk, s) /\ tk[s].port \in L \ VsyncPorts
        => lim[tk[s].port] <= d[tk[s].port] + rs[tk[s].port]
FillsBut(tk, rs, d, lim, L, p, n) ==
    \A s \in DOMAIN tk : Grantable(tk, s) /\ tk[s].port \in L \ VsyncPorts
        => lim[tk[s].port] <= d[tk[s].port] + rs[tk[s].port]
                                + (IF tk[s].port = p THEN n ELSE 0)

(* Tickets G are those of tk, none of them with new hopes.                 *)
Continues(tk, G) ==
    /\ DOMAIN G = DOMAIN tk
    /\ \A s \in DOMAIN tk : /\ G[s].port = tk[s].port
                            /\ Grantable(G, s) => Grantable(tk, s)

LEMMA SettleSenders ==
  ASSUME NEW tk, NEW wq, NEW rs, SendersOk(tk, wq, rs), NEW p \in Ports, NEW n \in Nat,
         NEW len, NEW lim, NEW rc, Settle(p, len, lim, n, tk, wq, rs, rc)
  PROVE  /\ SendersOk(ticket, waiters, reserved)'
         /\ Continues(tk, ticket')
         /\ NewlyGranted(tk, ticket') \in Nat
         /\ \A q \in Ports \ {p} : reserved'[q] = rs[q]
         /\ reserved'[p] = rs[p] + NewlyGranted(tk, ticket')
         /\ \A s \in OnPort(tk, p) : Grantable(ticket', s) => n <= NewlyGranted(tk, ticket')
<1> DEFINE G == Grant(tk, wq[p], n)
<1>1. ticket' = G /\ waiters' = wq /\ reserved' = [rs EXCEPT ![p] = @ + NewlyGranted(tk, G)]
  BY DEF Settle
<1>2. /\ TicketsOk(tk) /\ wq \in [Ports -> Seq(Senders)] /\ rs \in [Ports -> Nat]
      /\ \A q \in Ports : IsInjective(wq[q]) /\ ToSet(wq[q]) = OnPort(tk, q) /\ InTurn(tk, wq[q])
      /\ \A q \in Ports : rs[q] = Cardinality(GrantedOn(tk, q))
  BY DEF SendersOk, Lists, Counts, Turns
<1>3. OnPort(tk, p) \in SUBSET DOMAIN tk
  BY DEF OnPort
<1>0. G = Grant(tk, wq[p], n)
  OBVIOUS
<1> HIDE DEF G
<1>4. wq[p] \in Seq(Senders)
  BY <1>2
<1>5. /\ NewlyGranted(tk, G) \in Nat
      /\ Cardinality(GrantedOn(G, p)) = Cardinality(GrantedOn(tk, p)) + NewlyGranted(tk, G)
      /\ \A q : OnPort(G, q) = OnPort(tk, q)
      /\ \A q : q # p => GrantedOn(G, q) = GrantedOn(tk, q)
  <2>1. ToSet(wq[p]) = OnPort(tk, p) /\ TicketsOk(tk)
    BY <1>2
  <2> QED
    BY <1>0, <2>1, GrantCounts
<1>6. /\ DOMAIN G = DOMAIN tk /\ TicketsOk(G)
      /\ \A s \in DOMAIN tk : G[s].port = tk[s].port /\ (Grantable(G, s) => Grantable(tk, s))
  BY <1>0, <1>2, GrantIs
<1>7. reserved' \in [Ports -> Nat]
  BY <1>1, <1>2, <1>5
<1>8. /\ \A q \in Ports \ {p} : reserved'[q] = rs[q]
      /\ reserved'[p] = rs[p] + NewlyGranted(tk, ticket')
  BY <1>1, <1>2
<1>9. Counts(ticket', reserved')
  <2>1. ASSUME NEW q \in Ports PROVE reserved'[q] = Cardinality(GrantedOn(G, q))
    <3>1. CASE q = p
      BY <1>1, <1>2, <1>5, <1>8, <3>1
    <3>2. CASE q # p
      BY <1>2, <1>5, <1>8, <3>2
    <3> QED
      BY <3>1, <3>2
  <2> QED
    BY <1>1, <1>7, <2>1 DEF Counts
<1>10. Lists(ticket', waiters')
  BY <1>1, <1>2, <1>5 DEF Lists
<1>11. Turns(ticket', waiters')
  <2>1. ASSUME NEW q \in Ports PROVE InTurn(G, wq[q])
    <3>1. CASE q = p
      BY <1>0, <1>2, <1>3, <1>4, <3>1, GrantTurns
    <3>2. CASE q # p
      <4>1. ASSUME NEW x, NEW y, Precedes(wq[q], x, y), G[y].state = "Granted"
            PROVE  ~ Grantable(G, x)
        <5>1. x \in ToSet(wq[q]) /\ y \in ToSet(wq[q])
          BY <4>1 DEF Precedes, ToSet
        <5>2. x \in DOMAIN tk /\ y \in DOMAIN tk /\ tk[y].port = q
          BY <1>2, <5>1 DEF OnPort
        <5>3. y \in GrantedOn(G, q)
          BY <1>6, <4>1, <5>2 DEF GrantedOn
        <5>4. tk[y].state = "Granted"
          BY <1>5, <3>2, <5>3 DEF GrantedOn
        <5>5. ~ Grantable(tk, x)
          BY <1>2, <4>1, <5>4 DEF InTurn
        <5> QED
          BY <1>6, <5>2, <5>5
      <4> QED
        BY <4>1 DEF InTurn
    <3> QED
      BY <3>1, <3>2
  <2> QED
    BY <1>1, <2>1 DEF Turns
<1>12. \A s \in OnPort(tk, p) : Grantable(G, s) => n <= NewlyGranted(tk, G)
  BY <1>0, <1>2, <1>3, <1>4, GrantFills
<1> QED
  BY <1>1, <1>5, <1>6, <1>8, <1>9, <1>10, <1>11, <1>12 DEF SendersOk, Continues

\* Enough slots leave nobody waiting where there is room.
LEMMA SettleFills ==
  ASSUME NEW tk, NEW wq, NEW rs, SendersOk(tk, wq, rs), NEW p \in Ports, NEW n \in Nat,
         NEW len, NEW lim, NEW rc, Settle(p, len, lim, n, tk, wq, rs, rc),
         NEW d \in [Ports -> Nat], NEW lm \in [Ports -> Nat], NEW L,
         FillsBut(tk, rs, d, lm, L, p, n)
  PROVE  Fills(ticket', reserved', d, lm, L)
<1>1. /\ Continues(tk, ticket')
      /\ NewlyGranted(tk, ticket') \in Nat
      /\ \A q \in Ports \ {p} : reserved'[q] = rs[q]
      /\ reserved'[p] = rs[p] + NewlyGranted(tk, ticket')
      /\ \A s \in OnPort(tk, p) : Grantable(ticket', s) => n <= NewlyGranted(tk, ticket')
  BY SettleSenders
<1>2. TicketsOk(tk) /\ rs \in [Ports -> Nat]
  BY DEF SendersOk, Counts
<1> SUFFICES ASSUME NEW s \in DOMAIN ticket', Grantable(ticket', s),
                    ticket'[s].port \in L \ VsyncPorts
             PROVE  lm[ticket'[s].port] <= d[ticket'[s].port] + reserved'[ticket'[s].port]
  BY DEF Fills
<1> DEFINE q == tk[s].port
<1>3. s \in DOMAIN tk /\ Grantable(tk, s) /\ ticket'[s].port = q /\ q \in L \ VsyncPorts
  BY <1>1 DEF Continues
<1>4. q \in Ports
  BY <1>2, <1>3 DEF TicketsOk, Tickets
<1>5. lm[q] <= d[q] + rs[q] + (IF q = p THEN n ELSE 0)
  BY <1>3 DEF FillsBut
<1>6. q = p => n <= NewlyGranted(tk, ticket')
  BY <1>1, <1>3 DEF OnPort
<1> HIDE DEF q
<1>7. d[q] \in Nat /\ rs[q] \in Nat /\ lm[q] \in Nat
  BY <1>2, <1>4
<1>8. lm[q] <= d[q] + reserved'[q]
  <2>1. CASE q = p
    BY <1>1, <1>5, <1>6, <1>7, <2>1
  <2>2. CASE q # p
    BY <1>1, <1>4, <1>5, <1>7, <2>2
  <2> QED
    BY <2>1, <2>2
<1> QED
  BY <1>3, <1>8

(* The waiters without a sender that leaves, and with one that comes.      *)
WaitersWithout(s) == [waiters EXCEPT ![ticket[s].port] = Drop(@, s)]
WaitersWith(s, p) == [waiters EXCEPT ![p] = Append(@, s)]

(* Without the ticket of s, tk, wq and rs remain.                          *)
Departed(s, p, tk, wq, rs) ==
    /\ p \in Ports
    /\ SendersOk(tk, wq, rs)
    /\ \A q \in Ports \ {p} : rs[q] = reserved[q]
    /\ rs[p] = IF ticket[s].state = "Granted" THEN reserved[p] - 1 ELSE reserved[p]
    /\ DOMAIN tk = DOMAIN ticket \ {s}
    /\ \A x \in DOMAIN tk : tk[x] = ticket[x]
    /\ \A q : OnPort(tk, q) = OnPort(ticket, q) \ {s}
    /\ s \in OnPort(ticket, p)

\* A sender that leaves takes its slot along.
LEMMA DepartedSenders ==
  ASSUME SendersOk(ticket, waiters, reserved), NEW s \in DOMAIN ticket,
         NEW p, p = ticket[s].port,
         NEW tk, tk = Without(ticket, {s}),
         NEW wq, wq = WaitersWithout(s),
         NEW rs, rs = Released(s)
  PROVE  Departed(s, p, tk, wq, rs)
<1>0. wq = [waiters EXCEPT ![p] = Drop(@, s)]
  BY DEF WaitersWithout
<1>1. /\ TicketsOk(ticket) /\ waiters \in [Ports -> Seq(Senders)] /\ reserved \in [Ports -> Nat]
      /\ \A q \in Ports : IsInjective(waiters[q]) /\ ToSet(waiters[q]) = OnPort(ticket, q)
                          /\ InTurn(ticket, waiters[q])
      /\ \A q \in Ports : reserved[q] = Cardinality(GrantedOn(ticket, q))
  BY DEF SendersOk, Lists, Counts, Turns
<1>2. p \in Ports /\ s \in OnPort(ticket, p)
  BY <1>1 DEF TicketsOk, Tickets, OnPort
<1>3. DOMAIN tk = DOMAIN ticket \ {s} /\ \A x \in DOMAIN tk : tk[x] = ticket[x]
  BY DEF Without
<1>4. /\ \A q : OnPort(tk, q) = OnPort(ticket, q) \ {s}
      /\ \A q : GrantedOn(tk, q) = GrantedOn(ticket, q) \ {s}
      /\ \A x \in DOMAIN tk : Grantable(tk, x) <=> Grantable(ticket, x)
  BY <1>3 DEF OnPort, GrantedOn, Grantable
<1>5. TicketsOk(tk)
  BY <1>1, <1>3 DEF TicketsOk
<1>6. /\ rs = [reserved EXCEPT ![p] = IF ticket[s].state = "Granted" THEN @ - 1 ELSE @]
      /\ s \in GrantedOn(ticket, p) <=> ticket[s].state = "Granted"
  BY DEF Released, GrantedOn
<1>7. Cardinality(GrantedOn(tk, p)) = IF ticket[s].state = "Granted" THEN reserved[p] - 1 ELSE reserved[p]
  <2>1. IsFiniteSet(GrantedOn(ticket, p))
    BY <1>1, TicketSets
  <2>2. Cardinality(GrantedOn(ticket, p) \ {s}) =
           IF s \in GrantedOn(ticket, p) THEN Cardinality(GrantedOn(ticket, p)) - 1
           ELSE Cardinality(GrantedOn(ticket, p))
    BY <2>1, FS_RemoveElement
  <2> QED
    BY <1>1, <1>2, <1>4, <1>6, <2>2
<1>8. Cardinality(GrantedOn(tk, p)) \in Nat
  BY <1>5, TicketSets
<1>9. rs[p] = Cardinality(GrantedOn(tk, p)) /\ \A q \in Ports \ {p} : rs[q] = reserved[q]
  BY <1>1, <1>2, <1>6, <1>7
<1>10. rs \in [Ports -> Nat]
  BY <1>1, <1>2, <1>6, <1>8, <1>9
<1>11. Counts(tk, rs)
  <2>1. ASSUME NEW q \in Ports, q # p PROVE GrantedOn(tk, q) = GrantedOn(ticket, q)
    BY <1>4, <2>1 DEF GrantedOn
  <2> QED
    BY <1>1, <1>9, <1>10, <2>1 DEF Counts
<1>12. /\ wq[p] = Erased(waiters[p], {s}) /\ \A q \in Ports \ {p} : wq[q] = waiters[q]
       /\ DOMAIN wq = Ports /\ wq = [q \in Ports |-> wq[q]]
  BY <1>0, <1>1, <1>2 DEF Drop
<1>13. /\ Erased(waiters[p], {s}) \in Seq(Senders)
       /\ ToSet(Erased(waiters[p], {s})) = ToSet(waiters[p]) \ {s}
       /\ IsInjective(Erased(waiters[p], {s}))
       /\ \A x, y : Precedes(Erased(waiters[p], {s}), x, y) => Precedes(waiters[p], x, y)
  <2>1. waiters[p] \in Seq(Senders) /\ IsInjective(waiters[p])
    BY <1>1, <1>2
  <2> QED
    BY <2>1, ErasedIs
<1>14. Lists(tk, wq)
  <2>1. ASSUME NEW q \in Ports
        PROVE  wq[q] \in Seq(Senders) /\ IsInjective(wq[q]) /\ ToSet(wq[q]) = OnPort(tk, q)
    <3>1. CASE q = p
      BY <1>1, <1>2, <1>4, <1>12, <1>13, <3>1
    <3>2. CASE q # p
      <4>1. s \notin OnPort(ticket, q)
        BY <3>2 DEF OnPort
      <4>2. OnPort(tk, q) = OnPort(ticket, q)
        BY <1>4, <4>1
      <4>3. wq[q] = waiters[q]
        BY <1>12, <3>2
      <4> QED
        BY <1>1, <4>2, <4>3
    <3> QED
      BY <3>1, <3>2
  <2> QED
    BY <1>12, <2>1 DEF Lists
<1>15. Turns(tk, wq)
  <2>1. ASSUME NEW q \in Ports, NEW x, NEW y, Precedes(wq[q], x, y), tk[y].state = "Granted"
        PROVE  ~ Grantable(tk, x)
    <3>1. x \in ToSet(wq[q]) /\ y \in ToSet(wq[q])
      BY <2>1 DEF Precedes, ToSet
    <3>2. x \in DOMAIN tk /\ y \in DOMAIN tk
      BY <1>14, <3>1 DEF Lists, OnPort
    <3>3. Precedes(waiters[q], x, y)
      BY <1>12, <1>13, <2>1
    <3>4. ticket[y].state = "Granted"
      BY <1>3, <2>1, <3>2
    <3>5. ~ Grantable(ticket, x)
      BY <1>1, <3>3, <3>4 DEF InTurn
    <3> QED
      BY <1>4, <3>2, <3>5
  <2> QED
    BY <2>1 DEF Turns, InTurn
<1> QED
  BY <1>2, <1>3, <1>4, <1>5, <1>7, <1>9, <1>11, <1>14, <1>15 DEF SendersOk, Departed

\* A new sender waits behind the others.
LEMMA BlockedSenders ==
  ASSUME SendersOk(ticket, waiters, reserved), NEW s \in Senders, s \notin DOMAIN ticket,
         NEW p \in Ports, NEW t \in Tickets, t.state = "Waiting", t.port = p,
         NEW tk, tk = With(ticket, s, t),
         NEW wq, wq = WaitersWith(s, p)
  PROVE  /\ SendersOk(tk, wq, reserved)
         /\ OnPort(tk, p) = OnPort(ticket, p) \cup {s}
         /\ \A q \in Ports \ {p} : OnPort(tk, q) = OnPort(ticket, q)
         /\ s \notin OnPort(ticket, p)
         /\ \A x \in DOMAIN tk : x = s \/ (x \in DOMAIN ticket /\ tk[x] = ticket[x])
         /\ tk[s] = t
<1>0. wq = [waiters EXCEPT ![p] = Append(@, s)]
  BY DEF WaitersWith
<1>1. /\ TicketsOk(ticket) /\ waiters \in [Ports -> Seq(Senders)] /\ reserved \in [Ports -> Nat]
      /\ \A q \in Ports : IsInjective(waiters[q]) /\ ToSet(waiters[q]) = OnPort(ticket, q)
                          /\ InTurn(ticket, waiters[q])
      /\ \A q \in Ports : reserved[q] = Cardinality(GrantedOn(ticket, q))
  BY DEF SendersOk, Lists, Counts, Turns
<1>3. /\ DOMAIN tk = DOMAIN ticket \cup {s} /\ tk[s] = t
      /\ \A x \in DOMAIN ticket : tk[x] = ticket[x]
  BY DEF With
<1>4. /\ OnPort(tk, p) = OnPort(ticket, p) \cup {s}
      /\ \A q \in Ports \ {p} : OnPort(tk, q) = OnPort(ticket, q)
      /\ \A q \in Ports : GrantedOn(tk, q) = GrantedOn(ticket, q)
      /\ \A x \in DOMAIN ticket : Grantable(tk, x) <=> Grantable(ticket, x)
      /\ s \notin OnPort(ticket, p)
  BY <1>3 DEF OnPort, GrantedOn, Grantable
<1>5. TicketsOk(tk)
  BY <1>1, <1>3 DEF TicketsOk
<1>6. Counts(tk, reserved)
  BY <1>1, <1>4 DEF Counts
<1>7. /\ wq[p] = Append(waiters[p], s) /\ \A q \in Ports \ {p} : wq[q] = waiters[q]
      /\ wq = [q \in Ports |-> wq[q]]
  BY <1>0, <1>1
<1>8. /\ Append(waiters[p], s) \in Seq(Senders)
      /\ ToSet(Append(waiters[p], s)) = ToSet(waiters[p]) \cup {s}
      /\ IsInjective(Append(waiters[p], s))
      /\ \A x, y : Precedes(Append(waiters[p], s), x, y) =>
            Precedes(waiters[p], x, y) \/ (x \in ToSet(waiters[p]) /\ y = s)
  <2>1. waiters[p] \in Seq(Senders) /\ IsInjective(waiters[p]) /\ s \notin ToSet(waiters[p])
    BY <1>1, <1>4
  <2> QED
    BY <2>1, AppendQueue, AppendOrder
<1>9. Lists(tk, wq)
  <2>1. ASSUME NEW q \in Ports
        PROVE  wq[q] \in Seq(Senders) /\ IsInjective(wq[q]) /\ ToSet(wq[q]) = OnPort(tk, q)
    <3>1. CASE q = p
      BY <1>1, <1>4, <1>7, <1>8, <3>1
    <3>2. CASE q # p
      BY <1>1, <1>4, <1>7, <3>2
    <3> QED
      BY <3>1, <3>2
  <2> QED
    BY <1>7, <2>1 DEF Lists
<1>10. Turns(tk, wq)
  <2>1. ASSUME NEW q \in Ports, NEW x, NEW y, Precedes(wq[q], x, y), tk[y].state = "Granted"
        PROVE  ~ Grantable(tk, x)
    <3>1. Precedes(waiters[q], x, y)
      <4>1. y # s
        BY <1>3, <2>1
      <4>2. CASE q = p
        <5>1. Precedes(Append(waiters[p], s), x, y)
          BY <1>7, <2>1, <4>2
        <5>2. Precedes(waiters[p], x, y)
          BY <1>8, <4>1, <5>1
        <5> QED
          BY <4>2, <5>2
      <4>3. CASE q # p
        BY <1>7, <2>1, <4>3
      <4> QED
        BY <4>2, <4>3
    <3>2. x \in ToSet(waiters[q]) /\ y \in ToSet(waiters[q])
      BY <3>1 DEF Precedes, ToSet
    <3>3. x \in DOMAIN ticket /\ y \in DOMAIN ticket
      BY <1>1, <3>2 DEF OnPort
    <3>4. ticket[y].state = "Granted"
      BY <1>3, <2>1, <3>3
    <3>5. ~ Grantable(ticket, x)
      BY <1>1, <3>1, <3>4 DEF InTurn
    <3> QED
      BY <1>4, <3>3, <3>5
  <2> QED
    BY <2>1 DEF Turns, InTurn
<1> QED
  BY <1>3, <1>4, <1>5, <1>6, <1>9, <1>10 DEF SendersOk

\* A ticket that is interrupted, expires or loses its port keeps its place.
LEMMA ChangedSenders ==
  ASSUME NEW tk, NEW wq, NEW rs, SendersOk(tk, wq, rs), NEW G, TicketsOk(G),
         Continues(tk, G), NEW V, Counts(G, V),
         \A s \in DOMAIN G : G[s].state = "Granted" => tk[s].state = "Granted"
  PROVE  SendersOk(G, wq, V) /\ \A q : OnPort(G, q) = OnPort(tk, q)
<1>1. \A q : OnPort(G, q) = OnPort(tk, q)
  BY DEF Continues, OnPort
<1>2. Lists(G, wq)
  BY <1>1 DEF SendersOk, Lists
<1>3. Turns(G, wq)
  <2>1. ASSUME NEW q \in Ports, NEW x, NEW y, Precedes(wq[q], x, y), G[y].state = "Granted"
        PROVE  ~ Grantable(G, x)
    <3>1. x \in ToSet(wq[q]) /\ y \in ToSet(wq[q])
      BY <2>1 DEF Precedes, ToSet
    <3>2. x \in DOMAIN G /\ y \in DOMAIN G
      BY <1>2, <3>1 DEF Lists, OnPort
    <3> QED
      BY <2>1, <3>2 DEF SendersOk, Turns, InTurn, Continues
  <2> QED
    BY <2>1 DEF Turns, InTurn
<1> QED
  BY <1>1, <1>2, <1>3 DEF SendersOk

-----------------------------------------------------------------------------
(* Send-possible requests R and the list A of armed ports, while L lives.  *)
NoticesOk(R, A, L) ==
    /\ DOMAIN R \subseteq Names
    /\ \A n \in DOMAIN R : R[n] \in BOOLEAN /\ n[2] \in L /\ (R[n] => n[2] \in A)
    /\ A \subseteq Ports

\* A notification clears all armed requests of a port, or leaves it listed.
LEMMA SettleNotices ==
  ASSUME NoticesOk(request, armed, live), NEW p \in Ports,
         NEW depth \in Nat, NEW lim \in Nat
  PROVE  NoticesOk(Notified(p, depth, lim), StillArmed(p, depth, lim), live)
<1> DEFINE R == Notified(p, depth, lim)
           A == StillArmed(p, depth, lim)
<1>1. /\ DOMAIN R \subseteq DOMAIN request
      /\ \A n \in DOMAIN R : R[n] = request[n]
  BY DEF Notified, Without
<1>2. A \subseteq armed /\ armed \ {p} \subseteq A
  BY DEF StillArmed
<1>3. ASSUME NEW n \in DOMAIN R, R[n], n[2] = p PROVE p \in A
  <2>1. n \in ArmedOn(p) /\ p \in live /\ p \in armed
    BY <1>1, <1>3 DEF ArmedOn, NoticesOk
  <2>2. ~ (depth < lim)
    BY <1>3, <2>1 DEF Notified, Without
  <2>3. depth >= lim
    BY <2>2
  <2> QED
    BY <2>1, <2>3 DEF StillArmed
<1> HIDE DEF R, A
<1>4. ASSUME NEW n \in DOMAIN R PROVE R[n] \in BOOLEAN /\ n[2] \in live /\ (R[n] => n[2] \in A)
  BY <1>1, <1>2, <1>3 DEF NoticesOk
<1> QED
  BY <1>1, <1>2, <1>4 DEF NoticesOk, R, A

LEMMA ArmNotices ==
  ASSUME NoticesOk(request, armed, live), NEW n, Arm(n)
  PROVE  NoticesOk(request', armed', live)
<1>1. CASE n \in DOMAIN request
  <2>1. /\ DOMAIN request' = DOMAIN request
        /\ \A x \in DOMAIN request : request'[x] = IF x = n THEN TRUE ELSE request[x]
        /\ armed' = armed \cup {n[2]}
    BY <1>1 DEF Arm, With
  <2>2. n[2] \in Ports
    BY <1>1 DEF NoticesOk, Names
  <2> QED
    BY <2>1, <2>2 DEF NoticesOk
<1>2. CASE n \notin DOMAIN request
  BY <1>2 DEF Arm, NoticesOk
<1> QED
  BY <1>1, <1>2

LEMMA RegisterNotices ==
  ASSUME NoticesOk(request, armed, live), NEW n \in Names, NEW sync \in BOOLEAN,
         Register(n, sync)
  PROVE  NoticesOk(request, armed, live)'
<1>1. n[2] \in Ports /\ n[2] \in live /\ live' = live
  BY DEF Register, Names, topology
<1>2. CASE request' = Without(request, {n}) /\ UNCHANGED armed
  <2>1. DOMAIN request' \subseteq DOMAIN request /\ \A x \in DOMAIN request' : request'[x] = request[x]
    BY <1>2 DEF Without
  <2> QED
    BY <1>1, <1>2, <2>1 DEF NoticesOk
<1>3. CASE /\ request' = With(request, n, sync)
           /\ armed' = IF sync THEN armed \cup {n[2]} ELSE armed
  <2>1. /\ DOMAIN request' = DOMAIN request \cup {n}
        /\ \A x \in DOMAIN request' : request'[x] = IF x = n THEN sync ELSE request[x]
        /\ armed \subseteq armed' /\ armed' \subseteq armed \cup {n[2]} /\ (sync => n[2] \in armed')
    BY <1>3 DEF With
  <2> QED
    BY <1>1, <2>1 DEF NoticesOk
<1> QED
  BY <1>2, <1>3 DEF Register

LEMMA FewerNotices ==
  ASSUME NEW R, NEW A, NEW L, NoticesOk(R, A, L), NEW X, NEW B, B \in SUBSET A, NEW M,
         \A n \in DOMAIN R : n \notin X => n[2] \in M /\ (n[2] \in A => n[2] \in B)
  PROVE  NoticesOk(Without(R, X), B, M)
<1>1. DOMAIN Without(R, X) = DOMAIN R \ X /\ \A x \in DOMAIN R \ X : Without(R, X)[x] = R[x]
  BY DEF Without
<1> QED
  BY <1>1 DEF NoticesOk

-----------------------------------------------------------------------------
(* Port sets.  The ready list w of a set with the members m covers those   *)
(* whose queue in q is not empty.                                          *)
Covers(m, q, w) ==
    /\ w \in Seq(Ports) /\ IsInjective(w) /\ ToSet(w) \subseteq m
    /\ \A p \in m : q[p] # <<>> => p \in ToSet(w)
Members(ord, s) == {p \in Ports : <<s, p>> \in ToSet(ord)}

SetsOk(M, ord, q, pp) ==
    /\ M \in [Sets -> SUBSET Ports]
    /\ DOMAIN pp = Sets /\ pp = [s \in Sets |-> pp[s]]
    /\ \A s \in Sets : M[s] = Members(ord, s) /\ Covers(M[s], q, pp[s])

(* The order names the receives rc, all of them, and links.                *)
OrderOk(ord, rc) ==
    /\ ord \in Seq(Receivers \cup Links)
    /\ \A x \in ToSet(ord) : x \in DOMAIN rc \/ x \in Links
    /\ DOMAIN rc \subseteq ToSet(ord) \cap Receivers

\* A member that becomes ready, that is drained, that comes and that goes.
LEMMA CoversKept ==
  ASSUME NEW m, NEW q, NEW w, Covers(m, q, w), NEW V,
         \A p \in m : V[p] # <<>> => q[p] # <<>>
  PROVE  Covers(m, V, w)
BY DEF Covers

LEMMA CoversAppend ==
  ASSUME NEW m, NEW q, NEW w, Covers(m, q, w), NEW p \in Ports, p \notin ToSet(w),
         NEW V, \A x \in m \ {p} : V[x] # <<>> => q[x] # <<>>
  PROVE  Covers(m \cup {p}, V, Append(w, p))
<1>1. /\ Append(w, p) \in Seq(Ports)
      /\ ToSet(Append(w, p)) = ToSet(w) \cup {p}
      /\ IsInjective(Append(w, p))
  BY AppendQueue DEF Covers
<1> QED
  BY <1>1 DEF Covers

LEMMA CoversDrop ==
  ASSUME NEW m, NEW q, NEW w, Covers(m, q, w), NEW p, NEW n,
         n \in SUBSET m, m \ {p} \subseteq n,
         NEW V, \A x \in n \ {p} : V[x] # <<>> => q[x] # <<>>,
         p \in n => V[p] = <<>>
  PROVE  Covers(n, V, Drop(w, p))
<1>1. /\ Drop(w, p) \in Seq(Ports)
      /\ ToSet(Drop(w, p)) = ToSet(w) \ {p}
      /\ IsInjective(Drop(w, p))
  BY ErasedIs DEF Covers, Drop
<1> QED
  BY <1>1 DEF Covers

LEMMA CoversRotated ==
  ASSUME NEW m, NEW q, NEW w, Covers(m, q, w), NEW p \in ToSet(w)
  PROVE  Covers(m, q, Append(Drop(w, p), p))
<1>1. /\ Drop(w, p) \in Seq(Ports)
      /\ ToSet(Drop(w, p)) = ToSet(w) \ {p}
      /\ IsInjective(Drop(w, p))
  BY ErasedIs DEF Covers, Drop
<1>2. p \in Ports
  BY EmptyQueue DEF Covers
<1>3. /\ Append(Drop(w, p), p) \in Seq(Ports)
      /\ ToSet(Append(Drop(w, p), p)) = ToSet(Drop(w, p)) \cup {p}
      /\ IsInjective(Append(Drop(w, p), p))
  BY <1>1, <1>2, AppendQueue
<1> QED
  BY <1>1, <1>3 DEF Covers

\* What a post does to the ready lists.
LEMMA LinkedIs ==
  ASSUME NEW M, NEW q, NEW pp, SetsOk(M, order, q, pp), NEW p \in Ports, NEW s \in Sets
  PROVE  s \in Linked(p) <=> p \in M[s]
BY DEF SetsOk, Members, Linked

LEMMA PrepostedSets ==
  ASSUME SetsOk(members, order, queue, preposts), NEW p \in Ports,
         NEW V, \A x \in Ports \ {p} : V[x] = queue[x],
         NEW pp, pp = IF queue[p] = <<>> THEN Preposted(p) ELSE preposts
  PROVE  SetsOk(members, order, V, pp)
<1>1. \A s \in Sets : /\ members[s] = Members(order, s) /\ members[s] \subseteq Ports
                      /\ Covers(members[s], queue, preposts[s])
  BY DEF SetsOk
<1>2. ASSUME NEW s \in Sets PROVE Covers(members[s], V, pp[s])
  <2>0. s \in Linked(p) <=> p \in members[s]
    BY LinkedIs
  <2>1. CASE queue[p] = <<>> /\ s \in Linked(p) /\ p \notin ToSet(preposts[s])
    <3>1. pp[s] = Append(preposts[s], p)
      BY <2>1 DEF Preposted
    <3>2. members[s] \cup {p} = members[s]
      BY <2>0, <2>1
    <3>3. Covers(members[s] \cup {p}, V, Append(preposts[s], p))
      <4>1. \A x \in members[s] \ {p} : V[x] # <<>> => queue[x] # <<>>
        BY <1>1
      <4> QED
        BY <1>1, <2>1, <4>1, CoversAppend
    <3> QED
      BY <3>1, <3>2, <3>3
  <2>2. CASE ~ (queue[p] = <<>> /\ s \in Linked(p) /\ p \notin ToSet(preposts[s]))
    <3>1. pp[s] = preposts[s]
      BY <2>2 DEF Preposted
    <3>2. p \in members[s] => p \in ToSet(preposts[s])
      BY <1>1, <2>0, <2>2 DEF Covers
    <3> QED
      BY <1>1, <3>1, <3>2 DEF Covers
  <2> QED
    BY <2>1, <2>2
<1>3. DOMAIN pp = Sets /\ pp = [s \in Sets |-> pp[s]]
  BY DEF Preposted, SetsOk
<1> QED
  BY <1>1, <1>2, <1>3 DEF SetsOk

\* What a dequeue does to them, when len messages remain.
LEMMA UnpostedSets ==
  ASSUME NEW pp, SetsOk(members, order, queue, pp), NEW p \in Ports, NEW len,
         NEW V, \A x \in Ports \ {p} : V[x] = queue[x],
         len = 0 => V[p] = <<>>, V[p] # <<>> => queue[p] # <<>>
  PROVE  SetsOk(members, order, V, Unposted(pp, p, len))
<1>1. \A s \in Sets : /\ members[s] = Members(order, s) /\ members[s] \subseteq Ports
                      /\ Covers(members[s], queue, pp[s])
  BY DEF SetsOk
<1>2. ASSUME NEW s \in Sets PROVE Covers(members[s], V, Unposted(pp, p, len)[s])
  <2>1. CASE s \in Linked(p) /\ len = 0
    <3>1. Unposted(pp, p, len)[s] = Drop(pp[s], p)
      BY <2>1 DEF Unposted
    <3>2. Covers(members[s], V, Drop(pp[s], p))
      <4>1. \A x \in members[s] \ {p} : V[x] # <<>> => queue[x] # <<>>
        BY <1>1
      <4> QED
        BY <1>1, <2>1, <4>1, CoversDrop
    <3> QED
      BY <3>1, <3>2
  <2>2. CASE ~ (s \in Linked(p) /\ len = 0)
    <3>1. Unposted(pp, p, len)[s] = pp[s]
      BY <2>2 DEF Unposted
    <3>2. \A x \in members[s] : V[x] # <<>> => queue[x] # <<>>
      BY <1>1
    <3> QED
      BY <1>1, <3>1, <3>2, CoversKept
  <2> QED
    BY <2>1, <2>2
<1> QED
  BY <1>1, <1>2 DEF SetsOk, Unposted

LEMMA RotatedSets ==
  ASSUME SetsOk(members, order, queue, preposts), NEW o \in Sets, NEW p \in ToSet(preposts[o])
  PROVE  SetsOk(members, order, queue, Rotated(o, p))
<1>1. \A s \in Sets : /\ members[s] = Members(order, s) /\ members[s] \subseteq Ports
                      /\ Covers(members[s], queue, preposts[s])
  BY DEF SetsOk
<1>2. ASSUME NEW s \in Sets PROVE Covers(members[s], queue, Rotated(o, p)[s])
  <2>1. CASE s = o /\ Len(preposts[s]) > 1
    <3>1. Rotated(o, p)[s] = Append(Drop(preposts[s], p), p)
      BY <2>1 DEF Rotated
    <3> QED
      BY <1>1, <2>1, <3>1, CoversRotated
  <2>2. CASE ~ (s = o /\ Len(preposts[s]) > 1)
    BY <1>1, <2>2 DEF Rotated
  <2> QED
    BY <2>1, <2>2
<1> QED
  BY <1>1, <1>2 DEF SetsOk, Rotated

\* The order without links, and with one more.
LEMMA OrderErased ==
  ASSUME NEW ord, NEW rc, OrderOk(ord, rc), NEW T, T \cap DOMAIN rc = {}
  PROVE  /\ OrderOk(Erased(ord, T), rc)
         /\ ToSet(Erased(ord, T)) = ToSet(ord) \ T
<1>1. /\ Erased(ord, T) \in Seq(Receivers \cup Links)
      /\ ToSet(Erased(ord, T)) = ToSet(ord) \ T
  BY ErasedIs DEF OrderOk
<1> QED
  BY <1>1 DEF OrderOk

LEMMA OrderLink ==
  ASSUME NEW ord, NEW rc, OrderOk(ord, rc), NEW l \in Links
  PROVE  /\ OrderOk(Append(ord, l), rc)
         /\ ToSet(Append(ord, l)) = ToSet(ord) \cup {l}
<1>1. /\ Append(ord, l) \in Seq(Receivers \cup Links)
      /\ ToSet(Append(ord, l)) = ToSet(ord) \cup {l}
  BY AppendQueue DEF OrderOk
<1> QED
  BY <1>1 DEF OrderOk

LEMMA OrderDomain ==
  ASSUME NEW ord, NEW rc, OrderOk(ord, rc), NEW V, DOMAIN V = DOMAIN rc
  PROVE  OrderOk(ord, V)
BY DEF OrderOk

LEMMA NotLinks ==
  ASSUME NEW ord, NEW rc, OrderOk(ord, rc)
  PROVE  DOMAIN rc \cap Links = {}
BY ObjectsAssumption DEF OrderOk

\* A port leaves every set.
LEMMA LeaveSets ==
  ASSUME SetsOk(members, order, queue, preposts), OrderOk(order, receive), NEW p \in Ports,
         NEW V, \A x \in Ports \ {p} : V[x] = queue[x],
         NEW M, M = [s \in Sets |-> members[s] \ {p}]
  PROVE  /\ SetsOk(M, Unlinked(p), V, OutOfAll(preposts, p))
         /\ OrderOk(Unlinked(p), receive)
         /\ ToSet(Unlinked(p)) = ToSet(order) \ (Sets \X {p})
<1> DEFINE T == Sets \X {p}
<1>1. T \cap DOMAIN receive = {}
  BY NotLinks DEF Links
<1>2. OrderOk(Unlinked(p), receive) /\ ToSet(Unlinked(p)) = ToSet(order) \ T
  BY <1>1, OrderErased DEF Unlinked
<1>3. ASSUME NEW s \in Sets
      PROVE  /\ M[s] \in SUBSET Ports /\ M[s] = Members(Unlinked(p), s)
             /\ Covers(M[s], V, OutOfAll(preposts, p)[s])
  <2>1. /\ members[s] = Members(order, s) /\ members[s] \subseteq Ports
        /\ Covers(members[s], queue, preposts[s])
    BY DEF SetsOk
  <2>2. M[s] = members[s] \ {p}
    OBVIOUS
  <2>3. ASSUME NEW x \in Ports PROVE <<s, x>> \in T <=> x = p
    OBVIOUS
  <2>4. M[s] = Members(Unlinked(p), s)
    BY <1>2, <2>1, <2>2, <2>3 DEF Members
  <2>5. OutOfAll(preposts, p)[s] = Drop(preposts[s], p)
    BY DEF OutOfAll
  <2>6. Covers(M[s], V, Drop(preposts[s], p))
    <3>1. /\ M[s] \in SUBSET members[s] /\ members[s] \ {p} \subseteq M[s] /\ p \notin M[s]
          /\ \A x \in M[s] \ {p} : V[x] # <<>> => queue[x] # <<>>
      BY <2>1, <2>2
    <3> HIDE DEF T
    <3> QED
      BY <2>1, <3>1, CoversDrop
  <2> QED
    BY <2>1, <2>2, <2>4, <2>5, <2>6
<1> QED
  BY <1>2, <1>3 DEF SetsOk, OutOfAll

LEMMA InsertSets ==
  ASSUME SetsOk(members, order, queue, preposts), OrderOk(order, receive),
         NEW s \in Sets, NEW p \in Ports, p \notin members[s],
         NEW M, M = [members EXCEPT ![s] = @ \cup {p}],
         NEW ord, ord = Append(order, <<s, p>>),
         NEW pp, pp = IF queue[p] # <<>> THEN [preposts EXCEPT ![s] = Append(@, p)] ELSE preposts
  PROVE  SetsOk(M, ord, queue, pp) /\ OrderOk(ord, receive)
<1>1. /\ OrderOk(ord, receive) /\ ToSet(ord) = ToSet(order) \cup {<<s, p>>}
  <2>1. <<s, p>> \in Links
    BY DEF Links
  <2> QED
    BY <2>1, OrderLink
<1>2. ASSUME NEW t \in Sets
      PROVE  /\ M[t] \in SUBSET Ports /\ M[t] = Members(ord, t)
             /\ Covers(M[t], queue, pp[t])
  <2>1. /\ members[t] = Members(order, t) /\ members[t] \subseteq Ports
        /\ Covers(members[t], queue, preposts[t])
    BY DEF SetsOk
  <2>2. M[t] = IF t = s THEN members[t] \cup {p} ELSE members[t]
    BY DEF SetsOk
  <2>3. M[t] = Members(ord, t)
    BY <1>1, <2>1, <2>2 DEF Members
  <2>4. pp[t] = IF t = s /\ queue[p] # <<>> THEN Append(preposts[t], p) ELSE preposts[t]
    BY DEF SetsOk
  <2>5. Covers(M[t], queue, pp[t])
    <3>1. CASE t = s /\ queue[p] # <<>>
      <4>1. p \notin ToSet(preposts[t])
        BY <2>1, <3>1 DEF Covers
      <4>2. Covers(members[t] \cup {p}, queue, Append(preposts[t], p))
        BY <2>1, <4>1, CoversAppend
      <4> QED
        BY <2>2, <2>4, <3>1, <4>2
    <3>2. CASE t = s /\ queue[p] = <<>>
      BY <2>1, <2>2, <2>4, <3>2 DEF Covers
    <3>3. CASE t # s
      BY <2>1, <2>2, <2>4, <3>3
    <3> QED
      BY <3>1, <3>2, <3>3
  <2> QED
    BY <2>1, <2>2, <2>3, <2>5
<1>3. M = [t \in Sets |-> M[t]] /\ DOMAIN pp = Sets /\ pp = [t \in Sets |-> pp[t]]
  BY DEF SetsOk
<1> QED
  BY <1>1, <1>2, <1>3 DEF SetsOk

LEMMA ExtractSets ==
  ASSUME SetsOk(members, order, queue, preposts), OrderOk(order, receive),
         NEW s \in Sets, NEW p \in Ports,
         NEW M, M = [members EXCEPT ![s] = @ \ {p}],
         NEW ord, ord = Drop(order, <<s, p>>),
         NEW pp, pp = [preposts EXCEPT ![s] = Drop(@, p)]
  PROVE  SetsOk(M, ord, queue, pp) /\ OrderOk(ord, receive)
<1>1. /\ OrderOk(ord, receive) /\ ToSet(ord) = ToSet(order) \ {<<s, p>>}
  <2>1. {<<s, p>>} \cap DOMAIN receive = {}
    BY NotLinks DEF Links
  <2> QED
    BY <2>1, OrderErased DEF Drop
<1>2. ASSUME NEW t \in Sets
      PROVE  /\ M[t] \in SUBSET Ports /\ M[t] = Members(ord, t)
             /\ Covers(M[t], queue, pp[t])
  <2>1. /\ members[t] = Members(order, t) /\ members[t] \subseteq Ports
        /\ Covers(members[t], queue, preposts[t])
    BY DEF SetsOk
  <2>2. M[t] = IF t = s THEN members[t] \ {p} ELSE members[t]
    BY DEF SetsOk
  <2>3. M[t] = Members(ord, t)
    BY <1>1, <2>1, <2>2 DEF Members
  <2>4. pp[t] = IF t = s THEN Drop(preposts[t], p) ELSE preposts[t]
    BY DEF SetsOk
  <2>5. CASE t = s
    <3>1. Covers(members[t] \ {p}, queue, Drop(preposts[t], p))
      BY <2>1, CoversDrop
    <3> QED
      BY <2>1, <2>2, <2>3, <2>4, <2>5, <3>1
  <2>6. CASE t # s
    BY <2>1, <2>2, <2>3, <2>4, <2>6
  <2> QED
    BY <2>5, <2>6
<1>3. M = [t \in Sets |-> M[t]] /\ DOMAIN pp = Sets /\ pp = [t \in Sets |-> pp[t]]
  BY DEF SetsOk
<1> QED
  BY <1>1, <1>2, <1>3 DEF SetsOk

(* p moves to the sets of into, with members M, order ord and lists pp.    *)
Moved(p, into, M, ord, pp) ==
    /\ M = [s \in Sets |-> IF s \in into THEN members[s] \cup {p} ELSE members[s] \ {p}]
    /\ ord = IF into = {} THEN Unlinked(p)
             ELSE Append(Unlinked(p), <<CHOOSE s \in into : TRUE, p>>)
    /\ pp = [s \in Sets |-> IF s \in into /\ queue[p] # <<>>
                            THEN Append(Drop(preposts[s], p), p)
                            ELSE Drop(preposts[s], p)]

LEMMA MoveSets ==
  ASSUME SetsOk(members, order, queue, preposts), OrderOk(order, receive),
         NEW p \in Ports, NEW into, into = {} \/ \E s \in Sets : into = {s},
         NEW M, NEW ord, NEW pp, Moved(p, into, M, ord, pp)
  PROVE  SetsOk(M, ord, queue, pp) /\ OrderOk(ord, receive)
<1>0. /\ M = [s \in Sets |-> IF s \in into THEN members[s] \cup {p} ELSE members[s] \ {p}]
      /\ ord = IF into = {} THEN Unlinked(p)
               ELSE Append(Unlinked(p), <<CHOOSE s \in into : TRUE, p>>)
      /\ pp = [s \in Sets |-> IF s \in into /\ queue[p] # <<>>
                              THEN Append(Drop(preposts[s], p), p)
                              ELSE Drop(preposts[s], p)]
  BY DEF Moved
<1>1. OrderOk(Unlinked(p), receive) /\ ToSet(Unlinked(p)) = ToSet(order) \ (Sets \X {p})
  BY LeaveSets
<1>2. /\ OrderOk(ord, receive)
      /\ ToSet(ord) = (ToSet(order) \ (Sets \X {p})) \cup {<<s, p>> : s \in into}
  <2>1. CASE into = {}
    BY <1>0, <1>1, <2>1
  <2>2. CASE into # {}
    <3>1. PICK s \in Sets : into = {s}
      BY <2>2
    <3>2. (CHOOSE x \in into : TRUE) = s
      BY <3>1
    <3>3. <<s, p>> \in Links /\ ord = Append(Unlinked(p), <<s, p>>)
      BY <1>0, <2>2, <3>2 DEF Links
    <3>4. OrderOk(ord, receive) /\ ToSet(ord) = ToSet(Unlinked(p)) \cup {<<s, p>>}
      BY <1>1, <3>3, OrderLink
    <3>5. {<<x, p>> : x \in into} = {<<s, p>>}
      BY <3>1
    <3> QED
      BY <1>1, <3>4, <3>5
  <2> QED
    BY <2>1, <2>2
<1>3. ASSUME NEW t \in Sets
      PROVE  /\ M[t] \in SUBSET Ports /\ M[t] = Members(ord, t)
             /\ Covers(M[t], queue, pp[t])
  <2>1. /\ members[t] = Members(order, t) /\ members[t] \subseteq Ports
        /\ Covers(members[t], queue, preposts[t])
    BY DEF SetsOk
  <2>2. M[t] = IF t \in into THEN members[t] \cup {p} ELSE members[t] \ {p}
    BY <1>0
  <2>3. \A x \in Ports : <<t, x>> \in ToSet(ord) <=>
                            \/ <<t, x>> \in ToSet(order) /\ x # p
                            \/ x = p /\ t \in into
    BY <1>2
  <2>4. M[t] = Members(ord, t)
    BY <2>1, <2>2, <2>3 DEF Members
  <2>5. Covers(members[t] \ {p}, queue, Drop(preposts[t], p))
    BY <2>1, CoversDrop
  <2>6. CASE t \in into /\ queue[p] # <<>>
    <3>1. pp[t] = Append(Drop(preposts[t], p), p)
      BY <1>0, <2>6
    <3>2. p \notin ToSet(Drop(preposts[t], p))
      BY <2>5 DEF Covers
    <3>3. Covers((members[t] \ {p}) \cup {p}, queue, Append(Drop(preposts[t], p), p))
      BY <2>5, <3>2, CoversAppend
    <3>4. (members[t] \ {p}) \cup {p} = M[t]
      BY <2>2, <2>6
    <3> QED
      BY <2>1, <2>2, <2>4, <3>1, <3>3, <3>4
  <2>7. CASE t \in into /\ queue[p] = <<>>
    <3>1. pp[t] = Drop(preposts[t], p) /\ M[t] = members[t] \cup {p}
      BY <1>0, <2>2, <2>7
    <3>2. Covers(M[t], queue, Drop(preposts[t], p))
      BY <2>5, <2>7, <3>1 DEF Covers
    <3> QED
      BY <2>1, <2>2, <2>4, <3>1, <3>2
  <2>8. CASE t \notin into
    <3>1. pp[t] = Drop(preposts[t], p) /\ M[t] = members[t] \ {p}
      BY <1>0, <2>2, <2>8
    <3> QED
      BY <2>1, <2>4, <2>5, <3>1
  <2> QED
    BY <2>6, <2>7, <2>8
<1>4. DOMAIN pp = Sets /\ pp = [s \in Sets |-> pp[s]] /\ M = [s \in Sets |-> M[s]]
  BY <1>0
<1> QED
  BY <1>2, <1>3, <1>4 DEF SetsOk

LEMMA DestroySets ==
  ASSUME SetsOk(members, order, queue, preposts), OrderOk(order, receive), NEW s \in Sets,
         NEW M, M = [members EXCEPT ![s] = {}],
         NEW ord, ord = Erased(order, {s} \X Ports),
         NEW pp, pp = [preposts EXCEPT ![s] = <<>>]
  PROVE  SetsOk(M, ord, queue, pp) /\ OrderOk(ord, receive)
<1>1. /\ OrderOk(ord, receive) /\ ToSet(ord) = ToSet(order) \ ({s} \X Ports)
  <2>1. ({s} \X Ports) \cap DOMAIN receive = {}
    BY NotLinks DEF Links
  <2> QED
    BY <2>1, OrderErased
<1>2. ASSUME NEW t \in Sets
      PROVE  /\ M[t] \in SUBSET Ports /\ M[t] = Members(ord, t)
             /\ Covers(M[t], queue, pp[t])
  <2>1. /\ members[t] = Members(order, t) /\ members[t] \subseteq Ports
        /\ Covers(members[t], queue, preposts[t])
    BY DEF SetsOk
  <2>2. M[t] = IF t = s THEN {} ELSE members[t]
    BY DEF SetsOk
  <2>3. \A x \in Ports : <<t, x>> \in ToSet(ord) <=> <<t, x>> \in ToSet(order) /\ t # s
    BY <1>1
  <2>4. M[t] = Members(ord, t)
    BY <2>1, <2>2, <2>3 DEF Members
  <2>5. pp[t] = IF t = s THEN <<>> ELSE preposts[t]
    BY DEF SetsOk
  <2>6. Covers({}, queue, <<>>)
    <3>1. <<>> \in Seq(Ports) /\ ToSet(<<>>) = {} /\ IsInjective(<<>>)
      BY <2>1, EmptyQueue DEF Covers
    <3> QED
      BY <3>1 DEF Covers
  <2> QED
    BY <2>1, <2>2, <2>4, <2>5, <2>6
<1>3. M = [t \in Sets |-> M[t]] /\ DOMAIN pp = Sets /\ pp = [t \in Sets |-> pp[t]]
  BY DEF SetsOk
<1> QED
  BY <1>1, <1>2, <1>3 DEF SetsOk

\* Queues that lose messages need no new entry.
LEMMA DrainedSets ==
  ASSUME NEW M, NEW ord, NEW q, NEW pp, SetsOk(M, ord, q, pp), NEW V,
         \A x \in Ports : V[x] # <<>> => q[x] # <<>>
  PROVE  SetsOk(M, ord, V, pp)
<1>1. ASSUME NEW s \in Sets PROVE Covers(M[s], V, pp[s])
  BY CoversKept DEF SetsOk
<1> QED
  BY <1>1 DEF SetsOk

-----------------------------------------------------------------------------
(* Blocked receivers: receives rc, handed messages hd, the living objects  *)
(* L, the held ones H, queues q and ready lists pp.                        *)
ReceivesOk(rc, hd) ==
    /\ DOMAIN rc \subseteq Receivers
    /\ \A r \in DOMAIN rc : rc[r] \in Receives
    /\ DOMAIN hd = {r \in DOMAIN rc : rc[r].state = "MessageReady"}

(* A receive that is not polled has nothing to poll for: all the queues it *)
(* looks at are empty, so that it does not matter for whom a message is.   *)
SourcesOf(o, pp) == IF o \in Ports THEN {o} ELSE ToSet(pp[o])
Silent(o, q, pp) == \A p \in SourcesOf(o, pp) : q[p] = <<>>
Quiet(rc, L, H, q, pp) ==
    \A r \in DOMAIN rc : rc[r].seen =>
        /\ rc[r].state = "Waiting" /\ rc[r].object \in L \cap H
        /\ Silent(rc[r].object, q, pp)

(* V are the receives rc, some of them no longer seen, those on O at least.*)
Wakened(rc, V, O) ==
    /\ DOMAIN V = DOMAIN rc
    /\ \A r \in DOMAIN rc :
          /\ V[r] \in Receives /\ V[r].object = rc[r].object /\ V[r].state = rc[r].state
          /\ V[r].seen => rc[r].seen /\ rc[r].object \notin O

LEMMA UnseenIs ==
  ASSUME NEW rc, \A r \in DOMAIN rc : rc[r] \in Receives, NEW O
  PROVE  Wakened(rc, Unseen(rc, O), O)
<1>1. DOMAIN Unseen(rc, O) = DOMAIN rc
  BY DEF Unseen
<1>2. ASSUME NEW r \in DOMAIN rc
      PROVE  LET v == Unseen(rc, O)[r]
             IN  /\ v \in Receives /\ v.object = rc[r].object /\ v.state = rc[r].state
                 /\ v.seen => rc[r].seen /\ rc[r].object \notin O
  <2>1. rc[r] \in Receives
    OBVIOUS
  <2>2. Unseen(rc, O)[r] = IF rc[r].object \in O THEN [rc[r] EXCEPT !.seen = FALSE] ELSE rc[r]
    BY DEF Unseen
  <2>3. CASE rc[r].object \in O
    <3>1. Unseen(rc, O)[r] = [rc[r] EXCEPT !.seen = FALSE]
      BY <2>2, <2>3
    <3> QED
      BY <2>1, <3>1 DEF Receives
  <2>4. CASE rc[r].object \notin O
    BY <2>1, <2>2, <2>4
  <2> QED
    BY <2>3, <2>4
<1> QED
  BY <1>1, <1>2 DEF Wakened

LEMMA WakenedMore ==
  ASSUME NEW rc, NEW V, NEW O, Wakened(rc, V, O), NEW W, NEW P, Wakened(V, W, P)
  PROVE  Wakened(rc, W, O) /\ Wakened(rc, W, {})
BY DEF Wakened

LEMMA WakenedReceives ==
  ASSUME NEW rc, NEW hd, ReceivesOk(rc, hd), NEW V, NEW O, Wakened(rc, V, O)
  PROVE  ReceivesOk(V, hd)
BY DEF Wakened, ReceivesOk

LEMMA WakenedQuiet ==
  ASSUME NEW rc, NEW L, NEW H, NEW q, NEW pp, Quiet(rc, L, H, q, pp),
         NEW V, NEW O, Wakened(rc, V, O), NEW M, NEW I, NEW u, NEW ww,
         \A r \in DOMAIN rc : rc[r].object \notin O /\ rc[r].object \in L \cap H
            /\ Silent(rc[r].object, q, pp)
               => rc[r].object \in M \cap I /\ Silent(rc[r].object, u, ww)
  PROVE  Quiet(V, M, I, u, ww)
BY DEF Wakened, Quiet

\* The compound FIFO of a port has a first element among any receives on it.
LEMMA EarliestIs ==
  ASSUME OrderOk(order, receive), NEW p \in Ports,
         NEW C \in SUBSET Waiting(receive, p), C # {}
  PROVE  Earliest(receive, order, p, C) \in C
<1> DEFINE e(r) == Position(order, Element(receive, r, p))
           f(r) == Position(order, r)
           First1 == {i \in Nat : \E r \in C : e(r) = i}
<1>0. Len(order) \in Nat /\ DOMAIN order = 1 .. Len(order)
  BY LenProperties DEF OrderOk
<1>1. ASSUME NEW r \in C PROVE e(r) \in Nat /\ f(r) \in Nat /\ order[f(r)] = r
  <2>1. r \in DOMAIN receive /\ receive[r].object \in {p} \cup Linked(p)
    BY DEF Waiting
  <2>2. r \in ToSet(order)
    BY <2>1 DEF OrderOk
  <2>3. Element(receive, r, p) \in ToSet(order)
    BY <2>1, <2>2 DEF Element, Linked
  <2>4. f(r) \in DOMAIN order /\ order[f(r)] = r
    BY <2>2, PositionIs
  <2>5. e(r) \in DOMAIN order
    BY <2>3, PositionIs
  <2> QED
    BY <1>0, <2>4, <2>5
<1> HIDE DEF e, f
<1>2. First1 \in SUBSET Nat /\ First1 # {}
  BY <1>1
<1>3. PICK a \in First1 : \A i \in First1 : a <= i
  BY <1>2, NatMin
<1> DEFINE First2 == {i \in Nat : \E r \in C : e(r) = a /\ f(r) = i}
<1>4. First2 \in SUBSET Nat /\ First2 # {}
  BY <1>1, <1>3
<1>5. PICK b \in First2 : \A i \in First2 : b <= i
  BY <1>4, NatMin
<1>6. PICK r \in C : e(r) = a /\ f(r) = b
  BY <1>5
<1>7. ASSUME NEW x \in C \ {r} PROVE Before(receive, order, p, r, x)
  <2>1. a <= e(x) /\ a \in Nat /\ e(x) \in Nat /\ f(x) \in Nat /\ b \in Nat
    BY <1>1, <1>3, <1>5
  <2>2. CASE e(x) = a
    <3>1. b <= f(x)
      BY <1>5, <2>1, <2>2
    <3>2. f(x) # b
      BY <1>1, <1>6
    <3>3. f(r) < f(x)
      BY <1>6, <2>1, <3>1, <3>2
    <3> QED
      BY <1>6, <2>2, <3>3 DEF Before, e, f
  <2>3. CASE e(x) # a
    <3>1. e(r) < e(x)
      BY <1>6, <2>1, <2>3
    <3> QED
      BY <3>1 DEF Before, e
  <2> QED
    BY <2>2, <2>3
<1> QED
  BY <1>7 DEF Earliest

\* Receivers that are passed over complete with an error, takers with a message.
LEMMA AfterPostIs ==
  ASSUME ReceivesOk(receive, handed), NEW p \in Ports, NEW m \in Messages,
         NEW T \in SUBSET Takers(p, m), NEW V, V = AfterPost(p, m, T)
  PROVE  /\ DOMAIN V = DOMAIN receive
         /\ \A r \in DOMAIN receive :
               /\ V[r] \in Receives /\ V[r].object = receive[r].object
               /\ V[r].seen = receive[r].seen
               /\ V[r].state = receive[r].state \/ receive[r].object \in PostWakes(p)
               /\ V[r].state = "MessageReady" <=>
                     receive[r].state = "MessageReady" \/ r \in T
<1>1. DOMAIN V = DOMAIN receive
  BY DEF AfterPost
<1>2. ASSUME NEW r \in DOMAIN receive
      PROVE  /\ V[r] \in Receives /\ V[r].object = receive[r].object
             /\ V[r].seen = receive[r].seen
             /\ V[r].state = receive[r].state \/ receive[r].object \in PostWakes(p)
             /\ V[r].state = "MessageReady" <=>
                   receive[r].state = "MessageReady" \/ r \in T
  <2>1. receive[r] \in Receives
    BY DEF ReceivesOk
  <2>2. V[r] = IF r \in PassedOver(p, m)
               THEN [receive[r] EXCEPT !.state = Refusal(receive[r], m)]
               ELSE IF r \in T THEN [receive[r] EXCEPT !.state = "MessageReady"]
               ELSE receive[r]
    BY DEF AfterPost
  <2>3. \A x : x \in ReceiveStates =>
            LET v == [receive[r] EXCEPT !.state = x]
            IN  /\ v \in Receives /\ v.object = receive[r].object
                /\ v.seen = receive[r].seen /\ v.state = x
    BY <2>1 DEF Receives
  <2>4. T \subseteq Waiting(receive, p) /\ PassedOver(p, m) \subseteq Waiting(receive, p)
    BY DEF Takers, PassedOver
  <2>5. \A x \in Waiting(receive, p) : receive[x].object \in PostWakes(p) /\ receive[x].state = "Waiting"
    BY DEF Waiting, PostWakes
  <2>6. CASE r \in PassedOver(p, m)
    <3>1. r \notin Takers(p, m) /\ r \in Waiting(receive, p)
      BY <2>6 DEF PassedOver
    <3>2. Refusal(receive[r], m) \in {"PortChanged", "TimedOut", "TooLarge"}
      BY <3>1 DEF Takers, Refusal
    <3>3. Refusal(receive[r], m) \in ReceiveStates /\ Refusal(receive[r], m) # "MessageReady"
      BY <3>2 DEF ReceiveStates
    <3>4. V[r] = [receive[r] EXCEPT !.state = Refusal(receive[r], m)]
      BY <2>2, <2>6
    <3>5. r \notin T /\ receive[r].state = "Waiting" /\ receive[r].object \in PostWakes(p)
      BY <2>5, <3>1
    <3> HIDE DEF Refusal
    <3>6. /\ V[r] \in Receives /\ V[r].object = receive[r].object
          /\ V[r].seen = receive[r].seen /\ V[r].state = Refusal(receive[r], m)
      BY <2>3, <3>3, <3>4
    <3> QED
      BY <3>3, <3>5, <3>6
  <2>7. CASE r \notin PassedOver(p, m) /\ r \in T
    <3>1. V[r] = [receive[r] EXCEPT !.state = "MessageReady"]
      BY <2>2, <2>7
    <3>2. "MessageReady" \in ReceiveStates
      BY DEF ReceiveStates
    <3> QED
      BY <2>3, <2>4, <2>5, <2>7, <3>1, <3>2
  <2>8. CASE r \notin PassedOver(p, m) /\ r \notin T
    BY <2>1, <2>2, <2>8
  <2> QED
    BY <2>6, <2>7, <2>8
<1> QED
  BY <1>1, <1>2

-----------------------------------------------------------------------------
(* The order of messages: queues q, numbers c posted so far, sequence      *)
(* numbers sq and handed messages hd.                                      *)
StoreOk(q, c, sq) ==
    /\ q \in [Ports -> Seq(Messages)] /\ c \in [Ports -> Nat] /\ sq \in [Ports -> Nat]
Numbered(q, c) ==
    \A p \in Ports :
        /\ \A m \in ToSet(q[p]) : m.number < c[p]
        /\ \A x, y : Precedes(q[p], x, y) => x.number < y.number
HandedFirst(q, c, sq, d) ==
    /\ d \in Deliveries /\ d.number < c[d.port]
    /\ \A m \in ToSet(q[d.port]) : d.number < m.number
    /\ ~ d.moved => d.sequence < sq[d.port]
Agree(d, e) ==
    d.port = e.port /\ ~ d.moved /\ ~ e.moved /\ d.number < e.number
        => d.sequence < e.sequence
DeliveriesOk(q, c, sq, hd) ==
    /\ StoreOk(q, c, sq) /\ Numbered(q, c)
    /\ \A r \in DOMAIN hd : HandedFirst(q, c, sq, hd[r])
    /\ \A r, x \in DOMAIN hd : Agree(hd[r], hd[x])

\* Messages that leave, sequence numbers that are used up, receives that end.
LEMMA FewerDeliveries ==
  ASSUME NEW q, NEW c, NEW sq, NEW hd, DeliveriesOk(q, c, sq, hd),
         NEW V, NEW W, StoreOk(V, c, W),
         \A p \in Ports : /\ ToSet(V[p]) \subseteq ToSet(q[p])
                          /\ \A x, y : Precedes(V[p], x, y) => Precedes(q[p], x, y)
                          /\ sq[p] <= W[p],
         NEW D, DOMAIN D \subseteq DOMAIN hd, \A r \in DOMAIN D : D[r] = hd[r]
  PROVE  DeliveriesOk(V, c, W, D)
<1>1. Numbered(V, c)
  BY DEF DeliveriesOk, Numbered
<1>2. ASSUME NEW r \in DOMAIN D PROVE HandedFirst(V, c, W, D[r])
  <2>1. HandedFirst(q, c, sq, hd[r]) /\ D[r] = hd[r]
    BY DEF DeliveriesOk
  <2>2. hd[r].port \in Ports /\ hd[r].sequence \in Nat
    BY <2>1 DEF HandedFirst, Deliveries
  <2>3. sq[hd[r].port] \in Nat /\ W[hd[r].port] \in Nat /\ sq[hd[r].port] <= W[hd[r].port]
    BY <2>2 DEF DeliveriesOk, StoreOk
  <2>4. ~ hd[r].moved => hd[r].sequence < W[hd[r].port]
    BY <2>1, <2>2, <2>3 DEF HandedFirst
  <2> QED
    BY <2>1, <2>2, <2>4 DEF HandedFirst
<1>3. \A r, x \in DOMAIN D : Agree(D[r], D[x])
  BY DEF DeliveriesOk
<1> QED
  BY <1>1, <1>2, <1>3 DEF DeliveriesOk

\* A message that is posted to the queue.
LEMMA QueuedDelivery ==
  ASSUME DeliveriesOk(queue, posted, sequence, handed), NEW p \in Ports,
         NEW m \in Messages, m.number = posted[p],
         NEW V, V = [queue EXCEPT ![p] = Append(@, m)],
         NEW c, c = [posted EXCEPT ![p] = @ + 1]
  PROVE  DeliveriesOk(V, c, sequence, handed)
<1>1. /\ queue \in [Ports -> Seq(Messages)] /\ posted \in [Ports -> Nat] /\ sequence \in [Ports -> Nat]
      /\ queue[p] \in Seq(Messages) /\ posted[p] \in Nat
  BY DEF DeliveriesOk, StoreOk
<1>2. /\ Append(queue[p], m) \in Seq(Messages)
      /\ ToSet(Append(queue[p], m)) = ToSet(queue[p]) \cup {m}
      /\ \A x, y : Precedes(Append(queue[p], m), x, y) =>
            Precedes(queue[p], x, y) \/ (x \in ToSet(queue[p]) /\ y = m)
  BY <1>1, AppendQueue, AppendOrder
<1>3. /\ V[p] = Append(queue[p], m) /\ \A x \in Ports \ {p} : V[x] = queue[x]
      /\ c[p] = posted[p] + 1 /\ \A x \in Ports \ {p} : c[x] = posted[x]
      /\ V \in [Ports -> Seq(Messages)] /\ c \in [Ports -> Nat]
  BY <1>1, <1>2
<1>4. \A x \in Ports : /\ \A y \in ToSet(queue[x]) : y \in Messages /\ y.number < posted[x]
                       /\ \A y, z : Precedes(queue[x], y, z) => y.number < z.number
  <2>1. ASSUME NEW x \in Ports PROVE ToSet(queue[x]) \subseteq Messages
    <3>1. queue[x] \in Seq(Messages)
      BY <1>1
    <3> QED
      BY <3>1, EmptyQueue
  <2> QED
    BY <2>1 DEF DeliveriesOk, Numbered
<1>5. Numbered(V, c)
  <2>1. ASSUME NEW x \in Ports, NEW y \in ToSet(V[x]) PROVE y.number < c[x]
    <3>1. CASE x = p
      <4>1. y = m \/ (y \in ToSet(queue[p]) /\ y.number < posted[p] /\ y.number \in Nat)
        BY <1>2, <1>3, <1>4, <2>1, <3>1 DEF Messages
      <4>2. y.number <= posted[p] /\ y.number \in Nat
        BY <1>1, <4>1
      <4> QED
        BY <1>1, <1>3, <3>1, <4>2
    <3>2. CASE x # p
      BY <1>3, <1>4, <2>1, <3>2
    <3> QED
      BY <3>1, <3>2
  <2>2. ASSUME NEW x \in Ports, NEW y, NEW z, Precedes(V[x], y, z) PROVE y.number < z.number
    <3>1. CASE x = p
      <4>1. Precedes(queue[p], y, z) \/ (y \in ToSet(queue[p]) /\ z = m)
        BY <1>2, <1>3, <2>2, <3>1
      <4> QED
        BY <1>4, <4>1
    <3>2. CASE x # p
      BY <1>3, <1>4, <2>2, <3>2
    <3> QED
      BY <3>1, <3>2
  <2> QED
    BY <2>1, <2>2 DEF Numbered
<1>6. ASSUME NEW r \in DOMAIN handed PROVE HandedFirst(V, c, sequence, handed[r])
  <2>1. HandedFirst(queue, posted, sequence, handed[r])
    BY DEF DeliveriesOk
  <2> DEFINE d == handed[r]
  <2>2. d.port \in Ports /\ d.number \in Nat /\ d.number < posted[d.port] /\ posted[d.port] \in Nat
    BY <1>1, <2>1 DEF HandedFirst, Deliveries
  <2>3. \A y \in ToSet(queue[d.port]) : d.number < y.number
    BY <2>1 DEF HandedFirst
  <2> HIDE DEF d
  <2>4. d.number < c[d.port]
    BY <1>3, <2>2
  <2>5. \A y \in ToSet(V[d.port]) : d.number < y.number
    <3>1. CASE d.port = p
      BY <1>2, <1>3, <2>2, <2>3, <3>1
    <3>2. CASE d.port # p
      BY <1>3, <2>2, <2>3, <3>2
    <3> QED
      BY <3>1, <3>2
  <2> QED
    BY <2>1, <2>4, <2>5 DEF HandedFirst, d
<1> QED
  BY <1>1, <1>3, <1>5, <1>6 DEF DeliveriesOk, StoreOk

\* A message that is handed to a receiver, past an empty queue.
LEMMA HandedDelivery ==
  ASSUME DeliveriesOk(queue, posted, sequence, handed), NEW p \in Ports, queue[p] = <<>>,
         NEW t, NEW D,
         D = With(handed, t, [port |-> p, number |-> posted[p],
                              sequence |-> sequence[p], moved |-> FALSE]),
         NEW c, c = [posted EXCEPT ![p] = @ + 1],
         NEW sq, sq = [sequence EXCEPT ![p] = @ + 1]
  PROVE  DeliveriesOk(queue, c, sq, D)
<1>1. /\ queue \in [Ports -> Seq(Messages)] /\ posted \in [Ports -> Nat] /\ sequence \in [Ports -> Nat]
      /\ posted[p] \in Nat /\ sequence[p] \in Nat
  BY DEF DeliveriesOk, StoreOk
<1>2. /\ c \in [Ports -> Nat] /\ sq \in [Ports -> Nat]
      /\ c[p] = posted[p] + 1 /\ sq[p] = sequence[p] + 1
      /\ \A x \in Ports \ {p} : c[x] = posted[x] /\ sq[x] = sequence[x]
  BY <1>1
<1>3. \A x \in Ports : posted[x] \in Nat /\ sequence[x] \in Nat
                       /\ posted[x] <= c[x] /\ sequence[x] <= sq[x] /\ c[x] \in Nat /\ sq[x] \in Nat
  <2>1. ASSUME NEW x \in Ports PROVE posted[x] <= c[x] /\ sequence[x] <= sq[x]
    <3>1. posted[x] \in Nat /\ sequence[x] \in Nat
      BY <1>1
    <3>2. CASE x = p
      BY <1>2, <3>1, <3>2
    <3>3. CASE x # p
      BY <1>2, <3>1, <3>3
    <3> QED
      BY <3>2, <3>3
  <2> QED
    BY <1>1, <1>2, <2>1
<1>4. ToSet(queue[p]) = {}
  BY DEF ToSet
<1> DEFINE new == [port |-> p, number |-> posted[p], sequence |-> sequence[p], moved |-> FALSE]
<1>5. DOMAIN D = DOMAIN handed \cup {t} /\ D[t] = new /\ \A r \in DOMAIN handed \ {t} : D[r] = handed[r]
  BY DEF With
<1>6. /\ new \in Deliveries /\ new.port = p /\ new.number = posted[p]
      /\ new.sequence = sequence[p] /\ ~ new.moved
  BY <1>1 DEF Deliveries
<1> HIDE DEF new
<1>7. \A r \in DOMAIN handed : HandedFirst(queue, posted, sequence, handed[r])
  BY DEF DeliveriesOk
<1>8. Numbered(queue, c)
  <2>1. ASSUME NEW x \in Ports, NEW m \in ToSet(queue[x]) PROVE m.number < c[x]
    <3>1. x # p /\ m.number < posted[x]
      BY <1>4, <2>1 DEF DeliveriesOk, Numbered
    <3> QED
      BY <1>2, <3>1
  <2> QED
    BY <2>1 DEF Numbered, DeliveriesOk
<1>9. HandedFirst(queue, c, sq, new)
  BY <1>1, <1>2, <1>4, <1>6 DEF HandedFirst
<1>10. ASSUME NEW r \in DOMAIN handed
       PROVE  HandedFirst(queue, c, sq, handed[r]) /\ Agree(handed[r], new) /\ Agree(new, handed[r])
  <2> DEFINE d == handed[r]
  <2>1. /\ d \in Deliveries /\ d.number < posted[d.port]
        /\ \A m \in ToSet(queue[d.port]) : d.number < m.number
        /\ ~ d.moved => d.sequence < sequence[d.port]
    BY <1>7 DEF HandedFirst
  <2> HIDE DEF d
  <2>2. d.port \in Ports /\ d.number \in Nat /\ d.sequence \in Nat
    BY <2>1 DEF Deliveries
  <2>3. d.number < c[d.port] /\ (~ d.moved => d.sequence < sq[d.port])
    BY <1>3, <2>1, <2>2
  <2>4. HandedFirst(queue, c, sq, d)
    BY <2>1, <2>3 DEF HandedFirst
  <2>5. Agree(d, new)
    BY <1>6, <2>1 DEF Agree
  <2>6. Agree(new, d)
    BY <1>1, <1>6, <2>1, <2>2 DEF Agree
  <2> QED
    BY <2>4, <2>5, <2>6 DEF d
<1>11. \A r, x \in DOMAIN D : Agree(D[r], D[x])
  <2>1. Agree(new, new)
    BY <1>1, <1>6 DEF Agree
  <2>2. \A r, x \in DOMAIN handed : Agree(handed[r], handed[x])
    BY DEF DeliveriesOk
  <2> QED
    BY <1>5, <1>10, <2>1, <2>2
<1>12. \A r \in DOMAIN D : HandedFirst(queue, c, sq, D[r])
  BY <1>5, <1>9, <1>10
<1> QED
  BY <1>1, <1>2, <1>8, <1>11, <1>12 DEF DeliveriesOk, StoreOk

-----------------------------------------------------------------------------
(* The invariant.                                                          *)
Places ==
    /\ live \subseteq Objects /\ held \subseteq live
    /\ limit \in [Ports -> Limits]

(* Every ticket may still post its message.                                *)
Booked(c, tk) == \A p \in Ports : c[p] + Cardinality(OnPort(tk, p)) <= MaxPosts

SenderInv ==
    /\ SendersOk(ticket, waiters, reserved)
    /\ Fills(ticket, reserved, Lens(queue), limit, live)
    /\ Booked(posted, ticket)

ReceiverInv ==
    /\ SetsOk(members, order, queue, preposts)
    /\ OrderOk(order, receive)
    /\ ReceivesOk(receive, handed)
    /\ Quiet(receive, live, held, queue, preposts)

MqInv ==
    /\ Places
    /\ SenderInv
    /\ NoticesOk(request, armed, live)
    /\ ReceiverInv
    /\ DeliveriesOk(queue, posted, sequence, handed)

LEMMA QueueLens ==
  ASSUME NEW q \in [Ports -> Seq(Messages)]
  PROVE  /\ Lens(q) \in [Ports -> Nat]
         /\ \A p \in Ports : Lens(q)[p] = Len(q[p]) /\ Len(q[p]) \in Nat
<1>1. \A p \in Ports : Len(q[p]) \in Nat
  BY LenProperties
<1> QED
  BY <1>1 DEF Lens

LEMMA LimitsAre ==
  ASSUME Places
  PROVE  limit \in [Ports -> Nat] /\ \A p \in Ports : limit[p] \in Nat
BY LimitsAssumption DEF Places

\* Changed tickets book what the old ones did.
LEMMA ContinuesBooked ==
  ASSUME NEW tk, NEW G, Continues(tk, G)
  PROVE  /\ \A q : OnPort(G, q) = OnPort(tk, q)
         /\ \A c : Booked(c, tk) => Booked(c, G)
<1>1. \A q : OnPort(G, q) = OnPort(tk, q)
  BY DEF Continues, OnPort
<1> QED
  BY <1>1 DEF Booked

(* What a promise of slots of p to the tickets tk leaves, which the        *)
(* receives rc observe, when d messages remain and lm are the limits.      *)
Settled(p, tk, rc, d, lm) ==
    /\ SendersOk(ticket, waiters, reserved)'
    /\ Fills(ticket', reserved', d, lm, live)
    /\ \A c : Booked(c, tk) => Booked(c, ticket')
    /\ NoticesOk(request', armed', live)
    /\ receive' = rc \/ receive' = Unseen(rc, {p})

\* What the promise of n slots does, where n slots may be missing.
LEMMA SettleAll ==
  ASSUME NEW tk, NEW wq, NEW rs, SendersOk(tk, wq, rs),
         NoticesOk(request, armed, live),
         NEW p \in Ports, NEW n \in Nat, NEW len \in Nat, NEW lim \in Nat, NEW rc,
         Settle(p, len, lim, n, tk, wq, rs, rc),
         NEW d \in [Ports -> Nat], NEW lm \in [Ports -> Nat],
         FillsBut(tk, rs, d, lm, live, p, n)
  PROVE  Settled(p, tk, rc, d, lm)
<1>1. /\ SendersOk(ticket, waiters, reserved)'
      /\ Continues(tk, ticket')
      /\ NewlyGranted(tk, ticket') \in Nat
  BY SettleSenders
<1>2. Fills(ticket', reserved', d, lm, live)
  BY SettleFills
<1>3. \A c : Booked(c, tk) => Booked(c, ticket')
  BY <1>1, ContinuesBooked
<1>4. NoticesOk(request', armed', live)
  <2> DEFINE depth == len + rs[p] + NewlyGranted(tk, ticket')
  <2>1. request' = Notified(p, depth, lim) /\ armed' = StillArmed(p, depth, lim)
    BY DEF Settle
  <2>2. depth \in Nat
    <3>1. rs[p] \in Nat
      BY DEF SendersOk, Counts
    <3> QED
      BY <1>1, <3>1
  <2> HIDE DEF depth
  <2> QED
    BY <2>1, <2>2, SettleNotices
<1>5. receive' = rc \/ receive' = Unseen(rc, {p})
  BY DEF Settle
<1> QED
  BY <1>1, <1>2, <1>3, <1>4, <1>5 DEF Settled

\* A dequeue promises the slot of its message to the senders.
LEMMA DequeueAll ==
  ASSUME Places, NEW tk, NEW wq, NEW rs, SendersOk(tk, wq, rs),
         NoticesOk(request, armed, live),
         NEW p \in Ports, NEW rc, NEW pp, NEW d \in [Ports -> Nat],
         NoteDequeued(p, d[p], tk, wq, rs, rc, pp),
         FillsBut(tk, rs, d, limit, live, p, 1)
  PROVE  /\ Settled(p, tk, rc, d, limit)
         /\ preposts' = Unposted(pp, p, d[p])
<1>0. PICK len \in Nat : len = d[p]
  OBVIOUS
<1> DEFINE n == DequeueSlots(p, len + rs[p])
<1>1. rs[p] \in Nat /\ limit[p] \in Nat /\ limit \in [Ports -> Nat]
  BY LimitsAre DEF SendersOk, Counts
<1>2. n \in Nat /\ (n = 1 \/ (n = 0 /\ (p \notin live \/ limit[p] <= len + rs[p])))
  BY <1>1 DEF DequeueSlots
<1>3. Settle(p, len, limit[p], n, tk, wq, rs, rc) /\ preposts' = Unposted(pp, p, len)
  BY <1>0 DEF NoteDequeued
<1> HIDE DEF n
<1>4. FillsBut(tk, rs, d, limit, live, p, n)
  <2>1. CASE n = 1
    BY <2>1
  <2>2. CASE n = 0
    <3> SUFFICES ASSUME NEW s \in DOMAIN tk, Grantable(tk, s), tk[s].port \in live \ VsyncPorts
                 PROVE  limit[tk[s].port] <= d[tk[s].port] + rs[tk[s].port]
                                              + (IF tk[s].port = p THEN n ELSE 0)
      BY DEF FillsBut
    <3>1. limit[tk[s].port] <= d[tk[s].port] + rs[tk[s].port]
                                 + (IF tk[s].port = p THEN 1 ELSE 0)
      BY DEF FillsBut
    <3>2. CASE tk[s].port = p
      BY <1>0, <1>1, <1>2, <2>2, <3>2
    <3>3. CASE tk[s].port # p
      BY <3>1, <3>3
    <3> QED
      BY <3>2, <3>3
  <2> QED
    BY <1>2, <2>1, <2>2
<1>5. PICK lim \in Nat, lm \in [Ports -> Nat], k \in Nat : lim = limit[p] /\ lm = limit /\ k = n
  BY <1>1, <1>2
<1>6. Settle(p, len, lim, k, tk, wq, rs, rc)
  BY <1>3, <1>5
<1>7. FillsBut(tk, rs, d, lm, live, p, k)
  BY <1>4, <1>5
<1>8. Settled(p, tk, rc, d, lm)
  BY <1>6, <1>7, SettleAll
<1> QED
  BY <1>0, <1>3, <1>5, <1>8

-----------------------------------------------------------------------------
(* Steps of receivers.                                                     *)
LEMMA LinksSets ==
  ASSUME NEW M, NEW ord, NEW q, NEW pp, SetsOk(M, ord, q, pp),
         NEW o, ToSet(o) \cap Links = ToSet(ord) \cap Links
  PROVE  SetsOk(M, o, q, pp)
<1>1. \A s \in Sets : Members(o, s) = Members(ord, s)
  BY DEF Members, Links
<1> QED
  BY <1>1 DEF SetsOk

LEMMA WithoutReceiver ==
  ASSUME NEW rc, NEW hd, NEW ord, ReceivesOk(rc, hd), OrderOk(ord, rc), NEW r \in DOMAIN rc
  PROVE  /\ OrderOk(Drop(ord, r), Without(rc, {r}))
         /\ ToSet(Drop(ord, r)) \cap Links = ToSet(ord) \cap Links
         /\ ReceivesOk(Without(rc, {r}), Without(hd, {r}))
         /\ rc[r].state # "MessageReady" => ReceivesOk(Without(rc, {r}), hd)
         /\ \A L, H, q, pp : Quiet(rc, L, H, q, pp) => Quiet(Without(rc, {r}), L, H, q, pp)
<1> DEFINE V == Without(rc, {r})
           o == Drop(ord, r)
<1>1. ord \in Seq(Receivers \cup Links) /\ DOMAIN rc \subseteq ToSet(ord) \cap Receivers
  BY DEF OrderOk
<1>2. o \in Seq(Receivers \cup Links) /\ ToSet(o) = ToSet(ord) \ {r}
  BY <1>1, ErasedIs DEF Drop
<1>3. r \in Receivers /\ r \notin Links
  BY <1>1, ObjectsAssumption
<1>4. DOMAIN V = DOMAIN rc \ {r} /\ \A x \in DOMAIN V : V[x] = rc[x]
  BY DEF Without
<1>5. DOMAIN Without(hd, {r}) = DOMAIN hd \ {r}
  BY DEF Without
<1> HIDE DEF V, o
<1>6. OrderOk(o, V)
  BY <1>1, <1>2, <1>3, <1>4 DEF OrderOk
<1>7. ToSet(o) \cap Links = ToSet(ord) \cap Links
  BY <1>2, <1>3
<1>8. ReceivesOk(V, Without(hd, {r})) /\ (rc[r].state # "MessageReady" => ReceivesOk(V, hd))
  BY <1>4, <1>5 DEF ReceivesOk
<1>9. \A L, H, q, pp : Quiet(rc, L, H, q, pp) => Quiet(V, L, H, q, pp)
  BY <1>4 DEF Quiet
<1> QED
  BY <1>6, <1>7, <1>8, <1>9 DEF V, o

\* The ready lists lose members, the queues messages: what was silent stays so.
LEMMA SilentLess ==
  ASSUME NEW q, NEW pp, NEW u, NEW ww,
         \A s \in Sets : ToSet(pp[s]) \subseteq Ports /\ ToSet(ww[s]) \subseteq ToSet(pp[s]),
         \A x \in Ports : q[x] = <<>> => u[x] = <<>>,
         NEW o \in Objects, Silent(o, q, pp)
  PROVE  Silent(o, u, ww)
BY DEF Silent, SourcesOf, Objects

LEMMA ReadyLists ==
  ASSUME SetsOk(members, order, queue, preposts), NEW o \in Sets, NEW p \in ToSet(preposts[o])
  PROVE  \A s \in Sets : ToSet(preposts[s]) \subseteq Ports
                         /\ ToSet(Rotated(o, p)[s]) = ToSet(preposts[s])
<1> TAKE s \in Sets
<1>1. \A x \in Sets : preposts[x] \in Seq(Ports)
  BY DEF SetsOk, Covers
<1>2. ToSet(preposts[s]) \subseteq Ports /\ p \in Ports
  BY <1>1, EmptyQueue
<1>3. CASE s = o /\ Len(preposts[s]) > 1
  <2>1. Drop(preposts[s], p) \in Seq(Ports) /\ ToSet(Drop(preposts[s], p)) = ToSet(preposts[s]) \ {p}
    BY <1>1, ErasedIs DEF Drop
  <2>2. ToSet(Append(Drop(preposts[s], p), p)) = ToSet(Drop(preposts[s], p)) \cup {p}
    BY <1>2, <2>1, AppendQueue
  <2>3. Rotated(o, p)[s] = Append(Drop(preposts[s], p), p)
    BY <1>3 DEF Rotated
  <2> QED
    BY <1>2, <1>3, <2>1, <2>2, <2>3
<1>4. CASE ~ (s = o /\ Len(preposts[s]) > 1)
  BY <1>2, <1>4 DEF Rotated
<1> QED
  BY <1>3, <1>4

LEMMA UnpostedLists ==
  ASSUME NEW pp, \A s \in Sets : pp[s] \in Seq(Ports), NEW p, NEW len
  PROVE  \A s \in Sets : ToSet(Unposted(pp, p, len)[s]) \subseteq ToSet(pp[s])
<1> TAKE s \in Sets
<1>1. ToSet(Drop(pp[s], p)) = ToSet(pp[s]) \ {p}
  BY ErasedIs DEF Drop
<1> QED
  BY <1>1 DEF Unposted

\* The first of some nonempty sources.
LEMMA FirstIs ==
  ASSUME SetsOk(members, order, queue, preposts), NEW o \in Objects,
         NEW C \in SUBSET Nonempty(o), C # {}
  PROVE  LET p == First(o, C)
         IN  /\ p \in Ports /\ queue[p] # <<>>
             /\ p = o \/ (o \in Sets /\ p \in ToSet(preposts[o]))
<1>1. Sources(o) \in Seq(Ports) /\ (o \in Ports => Sources(o) = <<o>>)
      /\ (o \notin Ports => o \in Sets /\ Sources(o) = preposts[o])
  BY DEF Sources, Objects, SetsOk, Covers
<1>2. DOMAIN Sources(o) \subseteq Nat
  BY <1>1
<1>3. C \in SUBSET Nat /\ C \subseteq DOMAIN Sources(o)
  BY <1>2 DEF Nonempty
<1>4. \E i \in C : \A j \in C : i <= j
  BY <1>3, NatMin
<1> DEFINE k == CHOOSE i \in C : \A j \in C : i <= j
<1>5. k \in C /\ First(o, C) = Sources(o)[k]
  BY <1>4 DEF First
<1> HIDE DEF k
<1>6. k \in DOMAIN Sources(o) /\ queue[Sources(o)[k]] # <<>>
  BY <1>5 DEF Nonempty
<1>7. Sources(o)[k] \in Ports
  BY <1>1, <1>6
<1>8. CASE o \in Ports
  BY <1>1, <1>5, <1>6, <1>8
<1>9. CASE o \notin Ports
  BY <1>1, <1>5, <1>6, <1>7, <1>9 DEF ToSet
<1> QED
  BY <1>8, <1>9

\* Without such a source all queues are silent.
LEMMA NonemptyIs ==
  ASSUME NEW o \in Objects
  PROVE  Nonempty(o) = {} <=> Silent(o, queue, preposts)
<1>1. CASE o \in Ports
  <2>1. Sources(o) = <<o>> /\ SourcesOf(o, preposts) = {o}
    BY <1>1 DEF Sources, SourcesOf
  <2>2. 1 \in DOMAIN Sources(o) /\ \A i \in DOMAIN Sources(o) : Sources(o)[i] = o
    BY <2>1
  <2> QED
    BY <2>1, <2>2 DEF Nonempty, Silent
<1>2. CASE o \notin Ports
  BY <1>2 DEF Nonempty, Silent, Sources, SourcesOf, ToSet
<1> QED
  BY <1>1, <1>2

(* Receives rc in the order ord may stand in for receive and order.        *)
StandIn(rc, ord) ==
    /\ OrderOk(ord, rc) /\ ToSet(ord) \cap Links = ToSet(order) \cap Links
    /\ ReceivesOk(rc, handed)
    /\ Quiet(rc, live, held, queue, preposts)

\* The front message leaves the queue of p, whose readiness pp records.
LEMMA TakeFrontKeeps ==
  ASSUME MqInv, NEW rc, NEW ord, StandIn(rc, ord), NEW p \in Ports, queue[p] # <<>>,
         NEW pp, SetsOk(members, order, queue, pp),
         \A s \in Sets : ToSet(preposts[s]) \subseteq Ports /\ ToSet(pp[s]) = ToSet(preposts[s]),
         TakeFront(p, rc, pp), order' = ord, UNCHANGED <<topology, posted, limit, handed>>
  PROVE  MqInv'
<1> DEFINE V == queue'
           len == Len(queue[p]) - 1
           d == Lens(V)
<1>1. /\ queue \in [Ports -> Seq(Messages)] /\ StoreOk(queue, posted, sequence)
      /\ sequence \in [Ports -> Nat]
  BY DEF MqInv, DeliveriesOk, StoreOk
<1>2. /\ V = [queue EXCEPT ![p] = Tail(queue[p])] /\ sequence' = [sequence EXCEPT ![p] = sequence[p] + 1]
      /\ NoteDequeued(p, len, ticket, waiters, reserved, rc, pp)
  BY DEF TakeFront
<1>3. /\ queue[p] \in Seq(Messages) /\ Tail(queue[p]) \in Seq(Messages)
      /\ Len(Tail(queue[p])) = len /\ len \in Nat
      /\ ToSet(Tail(queue[p])) \subseteq ToSet(queue[p])
      /\ len = 0 => Tail(queue[p]) = <<>>
  <2>1. queue[p] \in Seq(Messages)
    BY <1>1
  <2>2. Tail(queue[p]) \in Seq(Messages) /\ ToSet(Tail(queue[p])) \subseteq ToSet(queue[p])
    BY <2>1, TailQueue
  <2>3. /\ Len(Tail(queue[p])) = len /\ Len(Tail(queue[p])) \in Nat
        /\ Len(Tail(queue[p])) = 0 => Tail(queue[p]) = <<>>
    BY <2>1, <2>2, HeadTailProperties, EmptySeq, LenProperties
  <2> QED
    BY <2>1, <2>2, <2>3
<1>4. /\ V \in [Ports -> Seq(Messages)] /\ V[p] = Tail(queue[p])
      /\ \A x \in Ports \ {p} : V[x] = queue[x]
  BY <1>1, <1>2, <1>3
<1>5. /\ d \in [Ports -> Nat] /\ d[p] = len
      /\ \A x \in Ports : d[x] = Len(V[x]) /\ Lens(queue)[x] = Len(queue[x])
  BY <1>1, <1>3, <1>4, QueueLens
<1>6. UNCHANGED <<live, held, members, posted, limit, handed>>
  BY DEF topology
<1> HIDE DEF V, d, len
<1>7. /\ SendersOk(ticket, waiters, reserved)
      /\ Fills(ticket, reserved, Lens(queue), limit, live)
      /\ Booked(posted, ticket) /\ Places /\ NoticesOk(request, armed, live)
  BY DEF MqInv, SenderInv
<1>8. FillsBut(ticket, reserved, d, limit, live, p, 1)
  <2> SUFFICES ASSUME NEW s \in DOMAIN ticket, Grantable(ticket, s), ticket[s].port \in live \ VsyncPorts
               PROVE  limit[ticket[s].port] <= d[ticket[s].port] + reserved[ticket[s].port]
                                            + (IF ticket[s].port = p THEN 1 ELSE 0)
    BY DEF FillsBut
  <2> DEFINE x == ticket[s].port
  <2>1. x \in Ports /\ limit[x] \in Nat /\ reserved[x] \in Nat
    BY <1>7, LimitsAre DEF SendersOk, TicketsOk, Tickets, Counts
  <2>2. limit[x] <= Lens(queue)[x] + reserved[x]
    BY <1>7 DEF Fills
  <2>3. CASE x = p
    BY <1>3, <1>5, <2>1, <2>2, <2>3
  <2>4. CASE x # p
    BY <1>4, <1>5, <2>1, <2>2, <2>4
  <2> QED
    BY <2>3, <2>4
<1>9. /\ SendersOk(ticket, waiters, reserved)'
      /\ Fills(ticket', reserved', d, limit, live)
      /\ \A c : Booked(c, ticket) => Booked(c, ticket')
      /\ NoticesOk(request', armed', live)
      /\ receive' = rc \/ receive' = Unseen(rc, {p})
      /\ preposts' = Unposted(pp, p, len)
  <2>1. PICK D \in [Ports -> Nat] : D = d
    BY <1>5
  <2>2. /\ NoteDequeued(p, D[p], ticket, waiters, reserved, rc, pp)
        /\ FillsBut(ticket, reserved, D, limit, live, p, 1)
    BY <1>2, <1>5, <1>8, <2>1
  <2>3. Settled(p, ticket, rc, D, limit) /\ preposts' = Unposted(pp, p, D[p])
    BY <1>7, <2>2, DequeueAll
  <2> QED
    BY <1>5, <2>1, <2>3 DEF Settled
<1>10. SenderInv' /\ Places' /\ NoticesOk(request, armed, live)'
  BY <1>6, <1>7, <1>9 DEF SenderInv, Places, V, d
<1>11. Wakened(rc, receive', {})
  <2>1. \A r \in DOMAIN rc : rc[r] \in Receives
    BY DEF StandIn, ReceivesOk
  <2>2. Wakened(rc, rc, {})
    BY <2>1 DEF Wakened
  <2>3. Wakened(rc, Unseen(rc, {p}), {p})
    BY <2>1, UnseenIs
  <2>4. Wakened(rc, Unseen(rc, {p}), {})
    BY <2>3 DEF Wakened
  <2> QED
    BY <1>9, <2>2, <2>4
<1>12. SetsOk(members, order, V, preposts')
  BY <1>3, <1>4, <1>9, UnpostedSets
<1>13. SetsOk(members', order', V, preposts')
  BY <1>6, <1>12, LinksSets DEF StandIn
<1>14. OrderOk(order', receive')
  BY <1>11, OrderDomain DEF StandIn, Wakened
<1>15. ReceivesOk(receive', handed')
  BY <1>6, <1>11, WakenedReceives DEF StandIn
<1>16. Quiet(receive', live', held', V, preposts')
  <2>1. \A s \in Sets : ToSet(preposts'[s]) \subseteq ToSet(preposts[s])
    <3>1. \A s \in Sets : pp[s] \in Seq(Ports)
      BY DEF SetsOk, Covers
    <3> QED
      BY <1>9, <3>1, UnpostedLists
  <2> DEFINE u == [queue EXCEPT ![p] = <<>>]
  <2>2. ASSUME NEW o \in Objects, Silent(o, queue, preposts)
        PROVE  Silent(o, V, preposts')
    <3>1. \A x \in SourcesOf(o, preposts) : x \in Ports /\ x # p
      BY <2>2 DEF Silent, SourcesOf, Objects
    <3>2. SourcesOf(o, preposts') \subseteq SourcesOf(o, preposts)
      BY <2>1 DEF SourcesOf, Objects
    <3> QED
      BY <1>4, <2>2, <3>1, <3>2 DEF Silent
  <2>3. live \subseteq Objects
    BY <1>7 DEF Places
  <2> QED
    BY <1>6, <1>11, <2>2, <2>3, WakenedQuiet DEF StandIn
<1>17. DeliveriesOk(V, posted', sequence', handed')
  <2>1. StoreOk(V, posted, sequence')
    BY <1>1, <1>2, <1>4 DEF StoreOk
  <2>2. \A x \in Ports : /\ ToSet(V[x]) \subseteq ToSet(queue[x])
                         /\ \A y, z : Precedes(V[x], y, z) => Precedes(queue[x], y, z)
                         /\ sequence[x] <= sequence'[x]
    BY <1>1, <1>2, <1>3, <1>4, TailOrder
  <2>3. DeliveriesOk(queue, posted, sequence, handed)
    BY DEF MqInv
  <2> QED
    BY <1>6, <2>1, <2>2, <2>3, FewerDeliveries
<1> QED
  BY <1>10, <1>13, <1>14, <1>15, <1>16, <1>17 DEF MqInv, ReceiverInv, V

\* A receive selects the queue of p and takes its message, or fails to.
LEMMA TakeKeeps ==
  ASSUME MqInv, NEW rc, NEW ord, StandIn(rc, ord), NEW o \in Objects, NEW buffer,
         NEW p \in Ports, queue[p] # <<>>, p = o \/ (o \in Sets /\ p \in ToSet(preposts[o])),
         Take(rc, ord, o, buffer, p)
  PROVE  MqInv'
<1> DEFINE pp == IF p = o THEN preposts ELSE Rotated(o, p)
<1>1. SetsOk(members, order, queue, preposts)
  BY DEF MqInv, ReceiverInv
<1>2. \A s \in Sets : ToSet(preposts[s]) \subseteq Ports /\ ToSet(pp[s]) = ToSet(preposts[s])
  <2>1. CASE p = o
    <3>1. \A s \in Sets : preposts[s] \in Seq(Ports)
      BY <1>1 DEF SetsOk, Covers
    <3> QED
      BY <2>1, <3>1, EmptyQueue
  <2>2. CASE p # o
    BY <1>1, <2>2, ReadyLists
  <2> QED
    BY <2>1, <2>2
<1>3. SetsOk(members, order, queue, pp)
  BY <1>1, RotatedSets
<1>4. \/ ReportSize(rc, pp)
      \/ TakeFront(p, rc, pp)
      \/ FailCopyout(p, rc, pp)
  BY DEF Take
<1>5. order' = ord /\ UNCHANGED <<topology, posted, limit, handed>>
  BY DEF Take
<1> HIDE DEF pp
<1>6. CASE TakeFront(p, rc, pp)
  BY <1>2, <1>3, <1>5, <1>6, TakeFrontKeeps
<1>7. CASE ReportSize(rc, pp) \/ FailCopyout(p, rc, pp)
  <2>1. /\ preposts' = pp /\ receive' = rc
        /\ UNCHANGED <<live, held, members, queue, posted, limit, handed, sending, notices>>
        /\ UNCHANGED <<ticket, waiters, reserved, request, armed>>
    BY <1>5, <1>7 DEF ReportSize, FailCopyout, topology, sending, notices
  <2>2. SenderInv' /\ Places' /\ NoticesOk(request, armed, live)'
    BY <2>1 DEF MqInv, SenderInv, Places
  <2>3. SetsOk(members', order', queue', preposts')
    BY <1>3, <1>5, <2>1, LinksSets DEF StandIn
  <2>4. OrderOk(order', receive') /\ ReceivesOk(receive', handed')
    BY <1>5, <2>1 DEF StandIn
  <2>5. Quiet(receive', live', held', queue', preposts')
    <3>1. ASSUME NEW x \in Objects, Silent(x, queue, preposts) PROVE Silent(x, queue, pp)
      BY <1>2, <3>1, SilentLess
    <3>2. live \subseteq Objects
      BY DEF MqInv, Places
    <3> QED
      BY <2>1, <3>1, <3>2 DEF StandIn, Quiet
  <2>6. DeliveriesOk(queue', posted', sequence', handed')
    <3>1. /\ StoreOk(queue, posted, sequence)
          /\ sequence \in [Ports -> Nat] /\ DeliveriesOk(queue, posted, sequence, handed)
      BY DEF MqInv, DeliveriesOk, StoreOk
    <3>2. sequence' = sequence \/ sequence' = [sequence EXCEPT ![p] = sequence[p] + 1]
      BY <1>7 DEF ReportSize, FailCopyout
    <3>3. sequence' \in [Ports -> Nat] /\ \A x \in Ports : sequence[x] <= sequence'[x]
      BY <3>1, <3>2
    <3>4. StoreOk(queue, posted, sequence')
      BY <3>1, <3>3 DEF StoreOk
    <3> QED
      BY <2>1, <3>1, <3>3, <3>4, FewerDeliveries
  <2> QED
    BY <2>2, <2>3, <2>4, <2>5, <2>6 DEF MqInv, ReceiverInv
<1> QED
  BY <1>4, <1>6, <1>7

\* The receive of r is over, and so is what has been handed to it.
LEMMA EndKeeps ==
  ASSUME MqInv, NEW rc, NEW ord, StandIn(rc, ord), NEW r \in DOMAIN rc, EndReceive(rc, ord, r)
  PROVE  MqInv'
<1>1. /\ receive' = Without(rc, {r}) /\ order' = Drop(ord, r) /\ handed' = Without(handed, {r})
      /\ UNCHANGED <<live, held, members, queue, posted, sequence, preposts, limit>>
      /\ UNCHANGED <<ticket, waiters, reserved, request, armed>>
  BY DEF EndReceive, topology, store, sending, notices
<1>2. SenderInv' /\ Places' /\ NoticesOk(request, armed, live)'
  BY <1>1 DEF MqInv, SenderInv, Places
<1>3. /\ OrderOk(order', receive')
      /\ ToSet(order') \cap Links = ToSet(order) \cap Links
      /\ ReceivesOk(receive', handed')
      /\ Quiet(receive', live, held, queue, preposts)
  <2>1. OrderOk(ord, rc) /\ ToSet(ord) \cap Links = ToSet(order) \cap Links
        /\ ReceivesOk(rc, handed) /\ Quiet(rc, live, held, queue, preposts)
    BY DEF StandIn
  <2>2. /\ OrderOk(Drop(ord, r), Without(rc, {r}))
        /\ ToSet(Drop(ord, r)) \cap Links = ToSet(ord) \cap Links
        /\ ReceivesOk(Without(rc, {r}), Without(handed, {r}))
        /\ \A L, H, q, pp : Quiet(rc, L, H, q, pp) => Quiet(Without(rc, {r}), L, H, q, pp)
    BY <2>1, WithoutReceiver
  <2>3. Quiet(Without(rc, {r}), live, held, queue, preposts)
    BY <2>1, <2>2
  <2> QED
    BY <1>1, <2>1, <2>2, <2>3
<1>4. SetsOk(members, order', queue, preposts)
  BY <1>3, LinksSets DEF MqInv, ReceiverInv
<1>5. DeliveriesOk(queue', posted', sequence', handed')
  <2>1. DeliveriesOk(queue, posted, sequence, handed) /\ StoreOk(queue, posted, sequence)
    BY DEF MqInv, DeliveriesOk
  <2>2. \A x \in Ports : /\ ToSet(queue[x]) \subseteq ToSet(queue[x])
                         /\ \A y, z : Precedes(queue[x], y, z) => Precedes(queue[x], y, z)
                         /\ sequence[x] <= sequence[x]
    BY <2>1 DEF StoreOk
  <2>3. DOMAIN handed' \subseteq DOMAIN handed /\ \A x \in DOMAIN handed' : handed'[x] = handed[x]
    BY <1>1 DEF Without
  <2>4. DeliveriesOk(queue, posted, sequence, handed')
    BY <2>1, <2>2, <2>3, FewerDeliveries
  <2> QED
    BY <1>1, <2>4
<1> QED
  BY <1>1, <1>2, <1>3, <1>4, <1>5 DEF MqInv, ReceiverInv

\* A receive looks at its ticket and at its queues.
LEMMA AttemptKeeps ==
  ASSUME MqInv, NEW rc, NEW ord, StandIn(rc, ord), NEW r \in DOMAIN rc, Attempt(rc, ord, r)
  PROVE  MqInv'
<1> DEFINE rec == rc[r]
           chosen == Chosen(rc, ord, r)
<1>1. rec \in Receives /\ rec.object \in Objects
  BY DEF StandIn, ReceivesOk, Receives
<1>2. chosen \in SUBSET Nonempty(rec.object)
  BY DEF Chosen
<1>3. SetsOk(members, order, queue, preposts)
  BY DEF MqInv, ReceiverInv
<1>4. CASE /\ rec.state = "Waiting" /\ Usable(rec) /\ chosen # {}
           /\ Take(Without(rc, {r}), Drop(ord, r), rec.object, rec.buffer,
                   First(rec.object, chosen))
  <2>1. StandIn(Without(rc, {r}), Drop(ord, r))
    BY <1>4, WithoutReceiver DEF StandIn
  <2> DEFINE p == First(rec.object, chosen)
  <2>2. /\ p \in Ports /\ queue[p] # <<>>
        /\ p = rec.object \/ (rec.object \in Sets /\ p \in ToSet(preposts[rec.object]))
    <3> HIDE DEF chosen, rec
    <3> QED
      BY <1>1, <1>2, <1>3, <1>4, FirstIs
  <2> HIDE DEF p, rec
  <2>3. Take(Without(rc, {r}), Drop(ord, r), rec.object, rec.buffer, p)
    BY <1>4 DEF p
  <2> QED
    BY <1>1, <2>1, <2>2, <2>3, TakeKeeps
<1>5. CASE EndReceive(rc, ord, r)
  BY <1>5, EndKeeps
<1>6. CASE /\ rec.state = "Waiting" /\ Usable(rec)
           /\ receive' = [rc EXCEPT ![r].seen = (Nonempty(rec.object) = {})]
           /\ order' = ord
           /\ UNCHANGED <<topology, store, limit, sending, handed, notices>>
  <2>1. UNCHANGED <<live, held, members, queue, posted, sequence, preposts, limit>>
        /\ UNCHANGED <<ticket, waiters, reserved, handed, request, armed>>
    BY <1>6 DEF topology, store, sending, notices
  <2>2. SenderInv' /\ Places' /\ NoticesOk(request, armed, live)'
    BY <2>1 DEF MqInv, SenderInv, Places
  <2>3. /\ DOMAIN receive' = DOMAIN rc
        /\ \A x \in DOMAIN rc \ {r} : receive'[x] = rc[x]
        /\ receive'[r] \in Receives /\ receive'[r].object = rec.object
        /\ receive'[r].state = "Waiting"
        /\ receive'[r].seen = (Nonempty(rec.object) = {})
    BY <1>1, <1>6 DEF Receives
  <2>4. OrderOk(order', receive')
    BY <1>6, <2>3, OrderDomain DEF StandIn
  <2>5. SetsOk(members, order', queue, preposts)
    BY <1>3, <1>6, LinksSets DEF StandIn
  <2>6. ReceivesOk(receive', handed)
    BY <1>6, <2>3 DEF StandIn, ReceivesOk
  <2>7. Quiet(receive', live, held, queue, preposts)
    <3>1. receive'[r].seen => Silent(rec.object, queue, preposts)
      <4> HIDE DEF rec
      <4> QED
        BY <1>1, <2>3, NonemptyIs
    <3>2. rec.object \in live \cap held
      BY <1>6 DEF Usable
    <3> QED
      BY <2>3, <3>1, <3>2 DEF StandIn, Quiet
  <2> QED
    BY <2>1, <2>2, <2>4, <2>5, <2>6, <2>7 DEF MqInv, ReceiverInv
<1> QED
  BY <1>4, <1>5, <1>6 DEF Attempt

LEMMA OwnStandIn ==
  ASSUME MqInv
  PROVE  StandIn(receive, order)
BY DEF MqInv, ReceiverInv, StandIn

LEMMA BeginReceiveKeeps ==
  ASSUME MqInv, NEW r \in Receivers, NEW o \in Objects, NEW buffer \in Buffers, NEW due \in Dues,
         BeginReceive(r, o, buffer, due)
  PROVE  MqInv'
<1> DEFINE rec == [object |-> o, buffer |-> buffer, due |-> due, seen |-> FALSE,
                   state |-> "Waiting"]
           rc == With(receive, r, rec)
           ord == Append(order, r)
<1>1. rec \in Receives /\ rec.state = "Waiting" /\ ~ rec.seen
  BY DEF Receives, ReceiveStates
<1>2. r \notin DOMAIN receive /\ Attempt(rc, ord, r)
  BY DEF BeginReceive
<1> HIDE DEF rec
<1>3. /\ DOMAIN rc = DOMAIN receive \cup {r} /\ rc[r] = rec
      /\ \A x \in DOMAIN receive : rc[x] = receive[x]
  BY <1>2 DEF With
<1>4. StandIn(receive, order)
  BY OwnStandIn
<1>5. order \in Seq(Receivers \cup Links) /\ r \in Receivers \cup Links /\ r \notin Links
  BY <1>4, ObjectsAssumption DEF StandIn, OrderOk
<1>6. ord \in Seq(Receivers \cup Links) /\ ToSet(ord) = ToSet(order) \cup {r}
  BY <1>5, AppendQueue
<1> HIDE DEF rc, ord
<1>7. OrderOk(ord, rc) /\ ToSet(ord) \cap Links = ToSet(order) \cap Links
  BY <1>3, <1>4, <1>5, <1>6 DEF StandIn, OrderOk
<1>8. ReceivesOk(rc, handed)
  BY <1>1, <1>2, <1>3, <1>4 DEF StandIn, ReceivesOk
<1>9. Quiet(rc, live, held, queue, preposts)
  BY <1>1, <1>3, <1>4 DEF StandIn, Quiet
<1>10. StandIn(rc, ord) /\ r \in DOMAIN rc
  BY <1>3, <1>7, <1>8, <1>9 DEF StandIn
<1> QED
  BY <1>2, <1>10, AttemptKeeps

LEMMA ReceiverStepKeeps ==
  ASSUME MqInv, NEW r \in Receivers, ReceiverStep(r)
  PROVE  MqInv'
<1>1. CASE \E o \in Objects, buffer \in Buffers, due \in Dues : BeginReceive(r, o, buffer, due)
  BY <1>1, BeginReceiveKeeps
<1>2. CASE PollReceive(r)
  BY <1>2, OwnStandIn, AttemptKeeps DEF PollReceive, PollRequired
<1>3. CASE AbandonReceive(r)
  BY <1>3, OwnStandIn, EndKeeps DEF AbandonReceive
<1>4. CASE ExpireReceive(r)
  <2>1. /\ UNCHANGED <<live, held, members, queue, posted, sequence, preposts, limit, order>>
        /\ UNCHANGED <<ticket, waiters, reserved, handed, request, armed>>
        /\ r \in DOMAIN receive /\ receive' = [receive EXCEPT ![r].due = "passed"]
    BY <1>4 DEF ExpireReceive, topology, store, sending, notices
  <2>2. StandIn(receive, order) /\ receive[r] \in Receives
    BY <2>1, OwnStandIn DEF StandIn, ReceivesOk
  <2>3. Wakened(receive, receive', {})
    BY <2>1, <2>2 DEF Wakened, Receives, Dues, StandIn, ReceivesOk
  <2>4. OrderOk(order, receive')
    BY <2>2, <2>3, OrderDomain DEF StandIn, Wakened
  <2>5. ReceivesOk(receive', handed)
    BY <2>2, <2>3, WakenedReceives DEF StandIn
  <2>6. Quiet(receive', live, held, queue, preposts)
    BY <2>2, <2>3, WakenedQuiet DEF StandIn
  <2> QED
    BY <2>1, <2>4, <2>5, <2>6 DEF MqInv, ReceiverInv, SenderInv, Places
<1> QED
  BY <1>1, <1>2, <1>3, <1>4 DEF ReceiverStep

LEMMA KeventReceiveKeeps ==
  ASSUME MqInv, NEW o \in Objects, NEW buffer, KeventReceive(o, buffer)
  PROVE  MqInv'
<1> DEFINE free == {i \in Nonempty(o) : Eligible(receive, Sources(o)[i]) = {}}
           p == First(o, free)
<1>1. free # {} /\ Take(receive, order, o, buffer, p) /\ free \in SUBSET Nonempty(o)
  BY DEF KeventReceive
<1>2. SetsOk(members, order, queue, preposts)
  BY DEF MqInv, ReceiverInv
<1> HIDE DEF free
<1>3. p \in Ports /\ queue[p] # <<>> /\ (p = o \/ (o \in Sets /\ p \in ToSet(preposts[o])))
  BY <1>1, <1>2, FirstIs
<1> HIDE DEF p
<1> QED
  BY <1>1, <1>3, OwnStandIn, TakeKeeps

-----------------------------------------------------------------------------
(* Posting.                                                                *)
\* The receives after a post: those of the port and of its sets poll again.
LEMMA PostQuiet ==
  ASSUME MqInv, NEW p \in Ports, NEW m \in Messages, NEW T \in SUBSET Takers(p, m),
         NEW V, V = Unseen(AfterPost(p, m, T), PostWakes(p)),
         NEW u, \A x \in Ports \ {p} : u[x] = queue[x],
         NEW ww, \A s \in Sets \ Linked(p) : ww[s] = preposts[s]
  PROVE  /\ DOMAIN V = DOMAIN receive
         /\ \A r \in DOMAIN V : V[r] \in Receives
         /\ \A r \in DOMAIN V : V[r].state = "MessageReady" <=>
                                   receive[r].state = "MessageReady" \/ r \in T
         /\ Quiet(V, live, held, u, ww)
<1> DEFINE A == AfterPost(p, m, T)
<1>0. A = AfterPost(p, m, T)
  OBVIOUS
<1>1. /\ ReceivesOk(receive, handed) /\ Quiet(receive, live, held, queue, preposts)
      /\ SetsOk(members, order, queue, preposts) /\ live \subseteq Objects
  BY DEF MqInv, ReceiverInv, Places
<1> HIDE DEF A
<1>2. /\ DOMAIN A = DOMAIN receive
      /\ \A r \in DOMAIN receive :
            /\ A[r] \in Receives /\ A[r].object = receive[r].object
            /\ A[r].seen = receive[r].seen
            /\ A[r].state = receive[r].state \/ receive[r].object \in PostWakes(p)
            /\ A[r].state = "MessageReady" <=>
                  receive[r].state = "MessageReady" \/ r \in T
  BY <1>0, <1>1, AfterPostIs
<1>3. Wakened(A, V, PostWakes(p))
  BY <1>0, <1>2, UnseenIs
<1>4. ASSUME NEW r \in DOMAIN V
      PROVE  /\ V[r] \in Receives /\ V[r].object = receive[r].object
             /\ V[r].state = A[r].state
             /\ V[r].seen => receive[r].seen /\ receive[r].object \notin PostWakes(p)
  BY <1>2, <1>3 DEF Wakened
<1>5. DOMAIN V = DOMAIN receive
  BY <1>2, <1>3 DEF Wakened
<1>6. ASSUME NEW o \in Objects, o \notin PostWakes(p), Silent(o, queue, preposts)
      PROVE  Silent(o, u, ww)
  <2>1. CASE o \in Ports
    BY <1>6, <2>1 DEF PostWakes, Silent, SourcesOf
  <2>2. CASE o \notin Ports
    <3>1. o \in Sets \ Linked(p)
      BY <1>6, <2>2 DEF PostWakes, Objects
    <3>2. p \notin ToSet(preposts[o]) /\ ToSet(preposts[o]) \subseteq Ports
      <4>1. p \notin members[o]
        BY <1>1, <3>1, LinkedIs
      <4>2. preposts[o] \in Seq(Ports) /\ ToSet(preposts[o]) \subseteq members[o]
        BY <1>1, <3>1 DEF SetsOk, Covers
      <4>3. ToSet(preposts[o]) \in SUBSET Ports
        BY <4>2, EmptyQueue
      <4> QED
        BY <4>1, <4>2, <4>3
    <3>3. ww[o] = preposts[o]
      BY <3>1
    <3> QED
      BY <1>6, <2>2, <3>2, <3>3 DEF Silent, SourcesOf
  <2> QED
    BY <2>1, <2>2
<1>7. Quiet(V, live, held, u, ww)
  <2> SUFFICES ASSUME NEW r \in DOMAIN V, V[r].seen
               PROVE  /\ V[r].state = "Waiting" /\ V[r].object \in live \cap held
                      /\ Silent(V[r].object, u, ww)
    BY DEF Quiet
  <2>1. receive[r].seen /\ receive[r].object \notin PostWakes(p) /\ V[r].object = receive[r].object
    BY <1>4
  <2>2. receive[r].state = "Waiting" /\ receive[r].object \in live \cap held
        /\ Silent(receive[r].object, queue, preposts)
    BY <1>1, <1>5, <2>1 DEF Quiet
  <2>3. V[r].state = "Waiting"
    BY <1>2, <1>4, <1>5, <2>1, <2>2
  <2> QED
    BY <1>1, <1>6, <2>1, <2>2, <2>3
<1> QED
  BY <1>2, <1>4, <1>5, <1>7

\* A message goes to a waiting receiver, or to the end of the queue.
LEMMA PostKeeps ==
  ASSUME MqInv, NEW p \in Ports, NEW big \in BOOLEAN, NEW vsync \in BOOLEAN,
         NEW tk, NEW wq, NEW rs, SendersOk(tk, wq, rs),
         FillsBut(tk, rs, Lens(queue), limit, live, p, 1),
         Booked([posted EXCEPT ![p] = @ + 1], tk),
         Post(p, big, vsync, tk, wq, rs)
  PROVE  MqInv'
<1> DEFINE m == [number |-> posted[p], big |-> big, vsync |-> vsync]
           taker == Earliest(receive, order, p, Takers(p, m))
<1>1. /\ DeliveriesOk(queue, posted, sequence, handed)
      /\ queue \in [Ports -> Seq(Messages)] /\ posted \in [Ports -> Nat]
      /\ sequence \in [Ports -> Nat]
      /\ Places /\ NoticesOk(request, armed, live)
      /\ SetsOk(members, order, queue, preposts) /\ OrderOk(order, receive)
      /\ ReceivesOk(receive, handed) /\ live \subseteq Objects
  BY DEF MqInv, ReceiverInv, DeliveriesOk, StoreOk, Places
<1>2. m \in Messages /\ m.number = posted[p]
  BY <1>1 DEF Messages
<1>3. posted' = [posted EXCEPT ![p] = @ + 1] /\ UNCHANGED <<live, held, members, limit, order>>
  BY DEF Post, topology
<1>4. CASE /\ HandsOff(p, m)
           /\ handed' = With(handed, taker, [port |-> p, number |-> posted[p],
                                             sequence |-> sequence[p], moved |-> FALSE])
           /\ sequence' = [sequence EXCEPT ![p] = @ + 1]
           /\ NoteDequeued(p, Len(queue[p]), tk, wq, rs,
                           Unseen(AfterPost(p, m, {taker}), PostWakes(p)), preposts)
           /\ UNCHANGED queue
  <2> DEFINE rc == Unseen(AfterPost(p, m, {taker}), PostWakes(p))
  <2>0. rc = Unseen(AfterPost(p, m, {taker}), PostWakes(p))
    OBVIOUS
  <2>1. queue[p] = <<>> /\ taker \in Takers(p, m)
    <3>1. Takers(p, m) \in SUBSET Waiting(receive, p) /\ Takers(p, m) # {} /\ queue[p] = <<>>
      BY <1>4 DEF Takers, HandsOff
    <3> HIDE DEF m
    <3> QED
      BY <1>1, <3>1, EarliestIs
  <2>2. taker \in DOMAIN receive
    BY <2>1 DEF Takers, Waiting
  <2>3. PICK d \in [Ports -> Nat] : d = Lens(queue) /\ d[p] = 0 /\ d[p] = Len(queue[p])
    BY <1>1, <2>1, QueueLens
  <2>4. NoteDequeued(p, d[p], tk, wq, rs, rc, preposts) /\ FillsBut(tk, rs, d, limit, live, p, 1)
    BY <1>4, <2>3
  <2>5. DeliveriesOk(queue', posted', sequence', handed')
    <3>1. DeliveriesOk(queue, posted', sequence', handed')
      BY <1>1, <1>3, <1>4, <2>1, HandedDelivery
    <3> QED
      BY <1>4, <3>1
  <2>6. DOMAIN handed' = DOMAIN handed \cup {taker}
    BY <1>4 DEF With
  <2> HIDE DEF m, taker, rc
  <2>7. /\ SendersOk(ticket, waiters, reserved)'
        /\ Fills(ticket', reserved', d, limit, live)
        /\ \A c : Booked(c, tk) => Booked(c, ticket')
        /\ NoticesOk(request', armed', live)
        /\ receive' = rc \/ receive' = Unseen(rc, {p})
        /\ preposts' = Unposted(preposts, p, d[p])
    <3>1. Settled(p, tk, rc, d, limit) /\ preposts' = Unposted(preposts, p, d[p])
      BY <1>1, <2>4, DequeueAll
    <3> QED
      BY <3>1 DEF Settled
  <2>8. SenderInv' /\ Places' /\ NoticesOk(request, armed, live)'
    <3>1. Booked(posted', ticket')
      BY <1>3, <2>7
    <3> QED
      BY <1>1, <1>3, <1>4, <2>3, <2>7, <3>1 DEF SenderInv, Places
  <2>9. /\ \A s \in Sets \ Linked(p) : preposts'[s] = preposts[s]
        /\ SetsOk(members, order, queue, preposts')
    <3>1. \A s \in Sets \ Linked(p) : preposts'[s] = preposts[s]
      BY <2>7 DEF Unposted
    <3> QED
      BY <1>1, <2>1, <2>7, <3>1, UnpostedSets
  <2>10. /\ DOMAIN rc = DOMAIN receive
         /\ \A r \in DOMAIN rc : rc[r] \in Receives
         /\ \A r \in DOMAIN rc : rc[r].state = "MessageReady" <=>
                                   receive[r].state = "MessageReady" \/ r \in {taker}
         /\ Quiet(rc, live, held, queue, preposts')
    <3>1. {taker} \in SUBSET Takers(p, m)
      BY <2>1
    <3> QED
      BY <1>2, <2>0, <2>9, <3>1, PostQuiet
  <2>11. Wakened(rc, receive', {})
    <3>1. Wakened(rc, rc, {}) /\ Wakened(rc, Unseen(rc, {p}), {p})
      BY <2>10, UnseenIs DEF Wakened
    <3>2. Wakened(rc, Unseen(rc, {p}), {})
      BY <3>1 DEF Wakened
    <3> QED
      BY <2>7, <3>1, <3>2
  <2>12. ReceivesOk(rc, handed')
    BY <1>1, <2>2, <2>6, <2>10 DEF ReceivesOk
  <2>13. ReceivesOk(receive', handed')
    BY <2>11, <2>12, WakenedReceives
  <2>14. OrderOk(order, receive')
    BY <1>1, <2>10, <2>11, OrderDomain DEF Wakened
  <2>15. Quiet(receive', live, held, queue, preposts')
    BY <2>10, <2>11, WakenedQuiet
  <2> QED
    BY <1>3, <1>4, <2>5, <2>8, <2>9, <2>13, <2>14, <2>15 DEF MqInv, ReceiverInv
<1>5. CASE /\ queue' = [queue EXCEPT ![p] = Append(@, m)]
           /\ preposts' = IF queue[p] = <<>> THEN Preposted(p) ELSE preposts
           /\ receive' = Unseen(AfterPost(p, m, {}), PostWakes(p))
           /\ ticket' = tk /\ waiters' = wq /\ reserved' = rs
           /\ UNCHANGED <<sequence, handed, notices>>
  <2>0. UNCHANGED <<request, armed>>
    BY <1>5 DEF notices
  <2>1. DeliveriesOk(queue', posted', sequence', handed')
    <3>1. DeliveriesOk(queue', posted', sequence, handed)
      BY <1>1, <1>2, <1>3, <1>5, QueuedDelivery
    <3> QED
      BY <1>5, <3>1
  <2> HIDE DEF m
  <2>2. /\ queue' \in [Ports -> Seq(Messages)] /\ queue'[p] = Append(queue[p], m)
        /\ \A x \in Ports \ {p} : queue'[x] = queue[x]
        /\ queue[p] \in Seq(Messages)
    <3>1. queue[p] \in Seq(Messages) /\ Append(queue[p], m) \in Seq(Messages)
      BY <1>1, <1>2, AppendQueue
    <3> QED
      BY <1>1, <1>5, <3>1
  <2>3. Len(queue'[p]) = Len(queue[p]) + 1
    BY <2>2, <1>2
  <2>4. /\ Lens(queue) \in [Ports -> Nat] /\ Lens(queue') \in [Ports -> Nat]
        /\ \A x \in Ports : Lens(queue)[x] = Len(queue[x]) /\ Lens(queue')[x] = Len(queue'[x])
    BY <1>1, <2>2, QueueLens
  <2>5. Fills(tk, rs, Lens(queue'), limit, live)
    <3> SUFFICES ASSUME NEW s \in DOMAIN tk, Grantable(tk, s), tk[s].port \in live \ VsyncPorts
                 PROVE  limit[tk[s].port] <= Lens(queue')[tk[s].port] + rs[tk[s].port]
      BY DEF Fills
    <3> DEFINE x == tk[s].port
    <3>1. x \in Ports /\ limit[x] \in Nat /\ rs[x] \in Nat
      BY <1>1, LimitsAre DEF SendersOk, TicketsOk, Tickets, Counts
    <3>2. limit[x] <= Lens(queue)[x] + rs[x] + (IF x = p THEN 1 ELSE 0)
      BY DEF FillsBut
    <3>3. Lens(queue)[x] \in Nat /\ Lens(queue')[x] \in Nat
      BY <2>4, <3>1
    <3>4. CASE x = p
      <4>1. Lens(queue')[x] = Lens(queue)[x] + 1
        BY <2>3, <2>4, <3>1, <3>4
      <4> QED
        BY <3>1, <3>2, <3>3, <3>4, <4>1
    <3>5. CASE x # p
      <4>1. Lens(queue')[x] = Lens(queue)[x]
        BY <2>2, <2>4, <3>1, <3>5
      <4> QED
        BY <3>1, <3>2, <3>3, <3>5, <4>1
    <3> QED
      BY <3>4, <3>5
  <2>6. SenderInv' /\ Places' /\ NoticesOk(request, armed, live)'
    BY <1>1, <1>3, <1>5, <2>0, <2>5 DEF SenderInv, Places
  <2>7. /\ \A s \in Sets \ Linked(p) : preposts'[s] = preposts[s]
        /\ SetsOk(members, order, queue', preposts')
    <3>1. \A s \in Sets \ Linked(p) : preposts'[s] = preposts[s]
      BY <1>5 DEF Preposted
    <3> QED
      BY <1>1, <1>5, <2>2, <3>1, PrepostedSets
  <2>8. /\ DOMAIN receive' = DOMAIN receive
        /\ \A r \in DOMAIN receive' : receive'[r] \in Receives
        /\ \A r \in DOMAIN receive' : receive'[r].state = "MessageReady" <=>
                                   receive[r].state = "MessageReady" \/ r \in {}
        /\ Quiet(receive', live, held, queue', preposts')
    <3>1. {} \in SUBSET Takers(p, m)
      OBVIOUS
    <3>2. PICK V, u, ww : V = receive' /\ u = queue' /\ ww = preposts'
      OBVIOUS
    <3>3. /\ V = Unseen(AfterPost(p, m, {}), PostWakes(p))
          /\ \A x \in Ports \ {p} : u[x] = queue[x]
          /\ \A s \in Sets \ Linked(p) : ww[s] = preposts[s]
      BY <1>5, <2>2, <2>7, <3>2
    <3>4. m \in Messages
      BY <1>2
    <3>5. /\ DOMAIN V = DOMAIN receive
          /\ \A r \in DOMAIN V : V[r] \in Receives
          /\ \A r \in DOMAIN V : V[r].state = "MessageReady" <=>
                                     receive[r].state = "MessageReady" \/ r \in {}
          /\ Quiet(V, live, held, u, ww)
      BY <3>1, <3>3, <3>4, PostQuiet
    <3> QED
      BY <3>2, <3>5
  <2>9. ReceivesOk(receive', handed')
    BY <1>1, <1>5, <2>8 DEF ReceivesOk
  <2>10. OrderOk(order, receive')
    BY <1>1, <2>8, OrderDomain
  <2> QED
    BY <1>3, <2>1, <2>6, <2>7, <2>8, <2>9, <2>10 DEF MqInv, ReceiverInv
<1> QED
  BY <1>4, <1>5 DEF Post

-----------------------------------------------------------------------------
(* Steps of senders.                                                       *)
LEMMA Basics ==
  ASSUME MqInv
  PROVE  /\ queue \in [Ports -> Seq(Messages)] /\ posted \in [Ports -> Nat]
         /\ Lens(queue) \in [Ports -> Nat] /\ \A p \in Ports : Lens(queue)[p] = Len(queue[p])
         /\ limit \in [Ports -> Nat] /\ reserved \in [Ports -> Nat]
         /\ \A p \in Ports : /\ IsFiniteSet(OnPort(ticket, p))
                             /\ Cardinality(OnPort(ticket, p)) \in Nat
         /\ \A s \in DOMAIN ticket : ticket[s] \in Tickets /\ ticket[s].port \in Ports
         /\ SendersOk(ticket, waiters, reserved) /\ TicketsOk(ticket)
         /\ Fills(ticket, reserved, Lens(queue), limit, live)
         /\ Booked(posted, ticket)
         /\ Places /\ NoticesOk(request, armed, live)
<1>1. queue \in [Ports -> Seq(Messages)] /\ posted \in [Ports -> Nat]
  BY DEF MqInv, DeliveriesOk, StoreOk
<1>2. Lens(queue) \in [Ports -> Nat] /\ \A p \in Ports : Lens(queue)[p] = Len(queue[p])
  BY <1>1, QueueLens
<1>3. /\ SendersOk(ticket, waiters, reserved) /\ TicketsOk(ticket) /\ reserved \in [Ports -> Nat]
      /\ Fills(ticket, reserved, Lens(queue), limit, live)
      /\ Booked(posted, ticket)
      /\ Places /\ NoticesOk(request, armed, live)
  BY DEF MqInv, SenderInv, SendersOk, Counts
<1>4. limit \in [Ports -> Nat]
  BY <1>3, LimitsAre
<1>5. \A p \in Ports : IsFiniteSet(OnPort(ticket, p)) /\ Cardinality(OnPort(ticket, p)) \in Nat
  BY <1>3, TicketSets
<1>6. \A s \in DOMAIN ticket : ticket[s] \in Tickets /\ ticket[s].port \in Ports
  BY <1>3 DEF TicketsOk, Tickets
<1> QED
  BY <1>1, <1>2, <1>3, <1>4, <1>5, <1>6

\* What senders do keeps the rest, but for receives that poll again.
LEMMA SenderStepKeeps ==
  ASSUME MqInv, SenderInv', Places', NoticesOk(request', armed', live),
         UNCHANGED <<live, held, queue, posted, sequence, members, preposts, handed, order>>,
         \/ receive' = receive
         \/ \E p \in Ports : receive' = Unseen(receive, {p})
  PROVE  MqInv'
<1>1. /\ SetsOk(members, order, queue, preposts) /\ OrderOk(order, receive)
      /\ ReceivesOk(receive, handed) /\ Quiet(receive, live, held, queue, preposts)
      /\ DeliveriesOk(queue, posted, sequence, handed)
  BY DEF MqInv, ReceiverInv
<1>2. Wakened(receive, receive', {})
  <2>1. \A r \in DOMAIN receive : receive[r] \in Receives
    BY <1>1 DEF ReceivesOk
  <2>2. Wakened(receive, receive, {})
    BY <2>1 DEF Wakened
  <2>3. ASSUME NEW p PROVE Wakened(receive, Unseen(receive, {p}), {})
    <3>1. Wakened(receive, Unseen(receive, {p}), {p})
      BY <2>1, UnseenIs
    <3> QED
      BY <3>1 DEF Wakened
  <2> QED
    BY <2>2, <2>3
<1>3. OrderOk(order, receive')
  BY <1>1, <1>2, OrderDomain DEF Wakened
<1>4. ReceivesOk(receive', handed)
  BY <1>1, <1>2, WakenedReceives
<1>5. Quiet(receive', live, held, queue, preposts)
  BY <1>1, <1>2, WakenedQuiet
<1> QED
  BY <1>1, <1>3, <1>4, <1>5 DEF MqInv, ReceiverInv

\* A post of a sender that did not block, of the kernel or of a display.
LEMMA PlainPostKeeps ==
  ASSUME MqInv, NEW p \in Ports, MayPost(p), NEW big \in BOOLEAN, NEW vsync \in BOOLEAN,
         Post(p, big, vsync, ticket, waiters, reserved)
  PROVE  MqInv'
<1>1. FillsBut(ticket, reserved, Lens(queue), limit, live, p, 1)
  <2> SUFFICES ASSUME NEW s \in DOMAIN ticket, Grantable(ticket, s), ticket[s].port \in live \ VsyncPorts
               PROVE  limit[ticket[s].port] <= Lens(queue)[ticket[s].port] + reserved[ticket[s].port]
                                            + (IF ticket[s].port = p THEN 1 ELSE 0)
    BY DEF FillsBut
  <2> DEFINE x == ticket[s].port
  <2>1. x \in Ports /\ limit[x] \in Nat /\ reserved[x] \in Nat /\ Lens(queue)[x] \in Nat
    BY Basics
  <2>2. limit[x] <= Lens(queue)[x] + reserved[x]
    BY Basics DEF Fills
  <2> HIDE DEF x
  <2>3. limit[x] <= Lens(queue)[x] + reserved[x] + (IF x = p THEN 1 ELSE 0)
    BY <2>1, <2>2
  <2> QED
    BY <2>3 DEF x
<1>2. Booked([posted EXCEPT ![p] = @ + 1], ticket)
  <2> SUFFICES ASSUME NEW q \in Ports
               PROVE  [posted EXCEPT ![p] = @ + 1][q] + Cardinality(OnPort(ticket, q)) <= MaxPosts
    BY DEF Booked
  <2>1. posted[q] \in Nat /\ Cardinality(OnPort(ticket, q)) \in Nat /\ posted \in [Ports -> Nat]
        /\ posted[q] + Cardinality(OnPort(ticket, q)) <= MaxPosts /\ MaxPosts \in Nat
    BY Basics, LimitsAssumption DEF Booked
  <2>2. posted[p] + Cardinality(OnPort(ticket, p)) < MaxPosts
    BY DEF MayPost, OnPort
  <2>3. CASE q = p
    <3>1. [posted EXCEPT ![p] = @ + 1][q] = posted[q] + 1
      BY <2>1, <2>3
    <3> QED
      BY <2>1, <2>2, <2>3, <3>1
  <2>4. CASE q # p
    BY <2>1, <2>4
  <2> QED
    BY <2>3, <2>4
<1>3. SendersOk(ticket, waiters, reserved)
  BY Basics
<1> QED
  BY <1>1, <1>2, <1>3, PostKeeps

\* A ticket that leaves makes room for the message it stood for.
LEMMA DepartedBooked ==
  ASSUME MqInv, NEW s \in DOMAIN ticket, NEW p \in Ports, s \in OnPort(ticket, p),
         NEW tk, \A q : OnPort(tk, q) = OnPort(ticket, q) \ {s}
  PROVE  Booked(posted, tk) /\ Booked([posted EXCEPT ![p] = @ + 1], tk)
<1>1. ASSUME NEW q \in Ports
      PROVE  /\ posted[q] + Cardinality(OnPort(tk, q)) <= MaxPosts
             /\ [posted EXCEPT ![p] = @ + 1][q] + Cardinality(OnPort(tk, q)) <= MaxPosts
  <2> DEFINE old == Cardinality(OnPort(ticket, q))
             new == Cardinality(OnPort(tk, q))
  <2>1. posted[q] \in Nat /\ old \in Nat /\ posted \in [Ports -> Nat] /\ MaxPosts \in Nat
        /\ posted[q] + old <= MaxPosts /\ IsFiniteSet(OnPort(ticket, q))
    BY Basics, LimitsAssumption DEF Booked
  <2>2. /\ new \in Nat /\ new <= old
        /\ q = p => new = old - 1
    <3>1. OnPort(tk, q) = OnPort(ticket, q) \ {s}
      OBVIOUS
    <3>2. CASE s \in OnPort(ticket, q)
      <4>1. Cardinality(OnPort(ticket, q) \ {s}) = Cardinality(OnPort(ticket, q)) - 1
            /\ IsFiniteSet(OnPort(ticket, q) \ {s})
        BY <2>1, <3>2, FS_RemoveElement
      <4>2. new \in Nat
        BY <3>1, <4>1, FS_CardinalityType
      <4> QED
        BY <2>1, <3>1, <4>1, <4>2
    <3>3. CASE s \notin OnPort(ticket, q)
      <4>1. OnPort(tk, q) = OnPort(ticket, q) /\ q # p
        BY <3>1, <3>3
      <4> QED
        BY <2>1, <4>1
    <3> QED
      BY <3>2, <3>3
  <2>3. [posted EXCEPT ![p] = @ + 1][q] = IF q = p THEN posted[q] + 1 ELSE posted[q]
    BY <2>1
  <2> HIDE DEF old, new
  <2>4. /\ posted[q] + new <= MaxPosts
        /\ (IF q = p THEN posted[q] + 1 ELSE posted[q]) + new <= MaxPosts
    <3>1. CASE q = p
      BY <2>1, <2>2, <3>1
    <3>2. CASE q # p
      BY <2>1, <2>2, <3>2
    <3> QED
      BY <3>1, <3>2
  <2> QED
    BY <2>3, <2>4 DEF new
<1> QED
  BY <1>1 DEF Booked

\* Tickets that lose hope, with the slots that are granted, fill no less.
LEMMA LessFills ==
  ASSUME NEW tk, NEW rs, NEW d, NEW lim, NEW L, Fills(tk, rs, d, lim, L),
         NEW G, NEW V,
         \A s \in DOMAIN G : Grantable(G, s) => /\ s \in DOMAIN tk /\ Grantable(tk, s)
                                                /\ G[s].port = tk[s].port
                                                /\ V[G[s].port] = rs[G[s].port]
  PROVE  Fills(G, V, d, lim, L)
BY DEF Fills

LEMMA BlockSendKeeps ==
  ASSUME MqInv, NEW s \in Senders, NEW p \in Ports, NEW big \in BOOLEAN,
         NEW due \in Dues, NEW notify \in BOOLEAN, BlockSend(s, p, big, due, notify)
  PROVE  MqInv'
<1> DEFINE t == [state |-> "Waiting", port |-> p, due |-> due, big |-> big, notify |-> notify]
           tk == With(ticket, s, t)
           wq == [waiters EXCEPT ![p] = Append(@, s)]
<1>1. t \in Tickets /\ t.state = "Waiting" /\ t.port = p
  BY DEF Tickets, SendStates
<1>2. /\ s \notin DOMAIN ticket /\ MayPost(p) /\ limit[p] <= Depth(p)
      /\ ticket' = tk /\ waiters' = wq /\ reserved' = reserved
      /\ UNCHANGED <<live, held, members, queue, posted, sequence, preposts, limit>>
      /\ UNCHANGED <<receive, handed, order, request, armed>>
  <2>1. limit[p] \in Nat /\ reserved[p] \in Nat /\ Len(queue[p]) \in Nat
    BY Basics
  <2> QED
    BY <2>1 DEF BlockSend, topology, store, receiving, notices, Depth
<1>0. tk = With(ticket, s, t) /\ wq = [waiters EXCEPT ![p] = Append(@, s)]
  OBVIOUS
<1> HIDE DEF t, tk, wq
<1>3. /\ SendersOk(tk, wq, reserved)
      /\ OnPort(tk, p) = OnPort(ticket, p) \cup {s}
      /\ \A q \in Ports \ {p} : OnPort(tk, q) = OnPort(ticket, q)
      /\ s \notin OnPort(ticket, p)
      /\ \A x \in DOMAIN tk : x = s \/ (x \in DOMAIN ticket /\ tk[x] = ticket[x])
      /\ tk[s] = t
  <2>1. SendersOk(ticket, waiters, reserved)
    BY Basics
  <2> QED
    <3>0. PICK u \in Tickets : u = t
      BY <1>1
    <3>1. PICK T, W : T = tk /\ W = wq
      OBVIOUS
    <3>2. /\ T = With(ticket, s, u) /\ W = WaitersWith(s, p)
          /\ u.state = "Waiting" /\ u.port = p /\ s \notin DOMAIN ticket
      BY <1>0, <1>1, <1>2, <3>0, <3>1 DEF WaitersWith
    <3>3. /\ SendersOk(T, W, reserved)
          /\ OnPort(T, p) = OnPort(ticket, p) \cup {s}
          /\ \A q \in Ports \ {p} : OnPort(T, q) = OnPort(ticket, q)
          /\ s \notin OnPort(ticket, p)
          /\ \A x \in DOMAIN T : x = s \/ (x \in DOMAIN ticket /\ T[x] = ticket[x])
          /\ T[s] = u
      BY <2>1, <3>2, BlockedSenders
    <3> QED
      BY <3>0, <3>1, <3>3
<1>4. Fills(tk, reserved, Lens(queue), limit, live)
  <2> SUFFICES ASSUME NEW x \in DOMAIN tk, Grantable(tk, x), tk[x].port \in live \ VsyncPorts
               PROVE  limit[tk[x].port] <= Lens(queue)[tk[x].port] + reserved[tk[x].port]
    BY DEF Fills
  <2>1. CASE x = s
    BY <1>1, <1>2, <1>3, <2>1, Basics DEF Depth
  <2>2. CASE x # s
    BY <1>3, <2>2, Basics DEF Fills, Grantable
  <2> QED
    BY <2>1, <2>2
<1>5. Booked(posted, tk)
  <2> SUFFICES ASSUME NEW q \in Ports PROVE posted[q] + Cardinality(OnPort(tk, q)) <= MaxPosts
    BY DEF Booked
  <2>1. CASE q = p
    <3>1. /\ IsFiniteSet(OnPort(ticket, p)) /\ Cardinality(OnPort(ticket, p)) \in Nat
          /\ posted[p] \in Nat /\ MaxPosts \in Nat
      BY Basics, LimitsAssumption
    <3>2. Cardinality(OnPort(ticket, p) \cup {s}) = Cardinality(OnPort(ticket, p)) + 1
      BY <1>3, <3>1, FS_AddElement
    <3>3. posted[p] + Cardinality(OnPort(ticket, p)) < MaxPosts
      BY <1>2 DEF MayPost, OnPort
    <3>4. Cardinality(OnPort(tk, q)) = Cardinality(OnPort(ticket, p)) + 1
      BY <1>3, <2>1, <3>2
    <3> QED
      BY <2>1, <3>1, <3>3, <3>4
  <2>2. CASE q # p
    BY <1>3, <2>2, Basics DEF Booked
  <2> QED
    BY <2>1, <2>2
<1>6. SenderInv'
  BY <1>2, <1>3, <1>4, <1>5 DEF SenderInv
<1>7. Places' /\ NoticesOk(request', armed', live)
  BY <1>2, Basics DEF Places
<1> QED
  BY <1>2, <1>6, <1>7, SenderStepKeeps

LEMMA SendTimesOutKeeps ==
  ASSUME MqInv, NEW s, NEW p, SendTimesOutAtOnce(s, p)
  PROVE  MqInv'
<1>1. /\ UNCHANGED <<live, held, members, queue, posted, sequence, preposts, limit>>
      /\ UNCHANGED <<ticket, waiters, reserved, receive, handed, order>>
      /\ Arm(<<s, p>>)
  BY DEF SendTimesOutAtOnce, topology, store, sending, receiving
<1>2. NoticesOk(request', armed', live)
  BY <1>1, Basics, ArmNotices
<1>3. SenderInv' /\ Places'
  BY <1>1 DEF MqInv, SenderInv, Places
<1> QED
  BY <1>1, <1>2, <1>3, SenderStepKeeps

LEMMA CompleteSendKeeps ==
  ASSUME MqInv, NEW s, CompleteSend(s)
  PROVE  MqInv'
<1>0. s \in DOMAIN ticket
  BY DEF CompleteSend
<1> DEFINE p == ticket[s].port
           tk == Without(ticket, {s})
           wq == [waiters EXCEPT ![p] = Drop(@, s)]
           rs == Released(s)
<1>1. p = ticket[s].port /\ tk = Without(ticket, {s})
      /\ wq = [waiters EXCEPT ![p] = Drop(@, s)] /\ rs = Released(s)
  OBVIOUS
<1>2. \/ /\ ticket[s].state = "Granted"
         /\ Post(p, ticket[s].big, FALSE, tk, wq, rs)
      \/ /\ ticket[s].state # "Granted"
         /\ ticket' = tk /\ waiters' = wq /\ reserved' = rs
         /\ (\E n : Arm(n)) \/ UNCHANGED notices
         /\ UNCHANGED <<topology, store, limit, receiving>>
  BY DEF CompleteSend
<1> HIDE DEF p, tk, wq, rs
<1>3. /\ p \in Ports /\ SendersOk(tk, wq, rs)
      /\ \A q \in Ports \ {p} : rs[q] = reserved[q]
      /\ rs[p] = IF ticket[s].state = "Granted" THEN reserved[p] - 1 ELSE reserved[p]
      /\ DOMAIN tk = DOMAIN ticket \ {s}
      /\ \A x \in DOMAIN tk : tk[x] = ticket[x]
      /\ \A q : OnPort(tk, q) = OnPort(ticket, q) \ {s}
      /\ s \in OnPort(ticket, p)
  <2>1. SendersOk(ticket, waiters, reserved)
    BY Basics
  <2> QED
    <3>1. PICK x, T, W, R : x = p /\ T = tk /\ W = wq /\ R = rs
      OBVIOUS
    <3>2. /\ x = ticket[s].port /\ T = Without(ticket, {s})
          /\ W = WaitersWithout(s) /\ R = Released(s)
      BY <1>1, <3>1 DEF WaitersWithout
    <3>3. Departed(s, x, T, W, R)
      BY <1>0, <2>1, <3>2, DepartedSenders
    <3> QED
      BY <3>1, <3>3 DEF Departed
<1>4. Booked(posted, tk) /\ Booked([posted EXCEPT ![p] = @ + 1], tk)
  BY <1>0, <1>3, DepartedBooked
<1>5. CASE ticket[s].state = "Granted" /\ Post(p, ticket[s].big, FALSE, tk, wq, rs)
  <2>1. FillsBut(tk, rs, Lens(queue), limit, live, p, 1)
    <3> SUFFICES ASSUME NEW z \in DOMAIN tk, Grantable(tk, z), tk[z].port \in live \ VsyncPorts
                 PROVE  limit[tk[z].port] <= Lens(queue)[tk[z].port] + rs[tk[z].port]
                                              + (IF tk[z].port = p THEN 1 ELSE 0)
      BY DEF FillsBut
    <3> DEFINE x == tk[z].port
    <3>1. x = ticket[z].port /\ z \in DOMAIN ticket /\ Grantable(ticket, z)
      BY <1>3 DEF Grantable
    <3>2. x \in Ports /\ limit[x] \in Nat /\ reserved[x] \in Nat /\ Lens(queue)[x] \in Nat
      BY <3>1, Basics
    <3>3. limit[x] <= Lens(queue)[x] + reserved[x]
      BY <3>1, Basics DEF Fills
    <3> HIDE DEF x
    <3>4. limit[x] <= Lens(queue)[x] + rs[x] + (IF x = p THEN 1 ELSE 0)
      <4>1. CASE x = p
        BY <1>3, <1>5, <3>2, <3>3, <4>1
      <4>2. CASE x # p
        BY <1>3, <3>2, <3>3, <4>2
      <4> QED
        BY <4>1, <4>2
    <3> QED
      BY <3>4 DEF x
  <2>2. ticket[s].big \in BOOLEAN
    BY <1>0, Basics DEF Tickets
  <2> QED
    BY <1>3, <1>4, <1>5, <2>1, <2>2, PostKeeps
<1>6. CASE /\ ticket[s].state # "Granted"
           /\ ticket' = tk /\ waiters' = wq /\ reserved' = rs
           /\ (\E n : Arm(n)) \/ UNCHANGED notices
           /\ UNCHANGED <<topology, store, limit, receiving>>
  <2>1. /\ UNCHANGED <<live, held, members, queue, posted, sequence, preposts, limit>>
        /\ UNCHANGED <<receive, handed, order>>
    BY <1>6 DEF topology, store, receiving
  <2>2. NoticesOk(request', armed', live)
    <3>1. NoticesOk(request, armed, live)
      BY Basics
    <3> QED
      BY <1>6, <3>1, ArmNotices DEF notices
  <2>3. Fills(tk, rs, Lens(queue), limit, live)
    <3>1. Fills(ticket, reserved, Lens(queue), limit, live)
      BY Basics
    <3>2. ASSUME NEW x \in DOMAIN tk
          PROVE  /\ x \in DOMAIN ticket /\ (Grantable(tk, x) => Grantable(ticket, x))
                 /\ tk[x].port = ticket[x].port
                 /\ rs[tk[x].port] = reserved[tk[x].port]
      BY <1>3, <1>6, Basics DEF Grantable
    <3> QED
      BY <3>1, <3>2, LessFills
  <2>4. SenderInv'
    BY <1>3, <1>4, <1>6, <2>1, <2>3 DEF SenderInv
  <2>5. Places'
    BY <2>1, Basics DEF Places
  <2> QED
    BY <2>1, <2>2, <2>4, <2>5, SenderStepKeeps
<1> QED
  BY <1>2, <1>5, <1>6

\* A ticket that is interrupted or whose deadline passes stays where it is.
LEMMA ChangedSendKeeps ==
  ASSUME MqInv, NEW s \in DOMAIN ticket, NEW t \in Tickets, t.port = ticket[s].port,
         t.state # "Granted" \/ ticket[s].state = "Granted",
         ticket[s].state # "Granted" \/ t.state = "Granted",
         ~ (t.state = "Waiting" /\ t.due # "passed"),
         ticket' = [ticket EXCEPT ![s] = t],
         UNCHANGED <<topology, store, limit, waiters, reserved, receiving, notices>>
  PROVE  MqInv'
<1>1. /\ UNCHANGED <<live, held, members, queue, posted, sequence, preposts, limit>>
      /\ UNCHANGED <<waiters, reserved, receive, handed, order, request, armed>>
  BY DEF topology, store, receiving, notices
<1>2. /\ DOMAIN ticket' = DOMAIN ticket /\ ticket'[s] = t
      /\ \A x \in DOMAIN ticket \ {s} : ticket'[x] = ticket[x]
  OBVIOUS
<1>3. TicketsOk(ticket')
  BY <1>2, Basics DEF TicketsOk
<1>4. Continues(ticket, ticket')
  BY <1>2 DEF Continues, Grantable
<1>5. \A x \in DOMAIN ticket : ticket'[x].state = "Granted" <=> ticket[x].state = "Granted"
  BY <1>2
<1>6. Counts(ticket', reserved)
  <2>1. \A q \in Ports : GrantedOn(ticket', q) = GrantedOn(ticket, q)
    BY <1>2, <1>4, <1>5 DEF GrantedOn, Continues
  <2> QED
    BY <2>1, Basics DEF SendersOk, Counts
<1>7. SendersOk(ticket', waiters, reserved) /\ \A q : OnPort(ticket', q) = OnPort(ticket, q)
  <2>1. PICK G : G = ticket'
    OBVIOUS
  <2>2. /\ SendersOk(ticket, waiters, reserved) /\ TicketsOk(G) /\ Continues(ticket, G)
        /\ Counts(G, reserved)
        /\ \A x \in DOMAIN G : G[x].state = "Granted" => ticket[x].state = "Granted"
    BY <1>2, <1>3, <1>4, <1>5, <1>6, <2>1, Basics
  <2>3. SendersOk(G, waiters, reserved) /\ \A q : OnPort(G, q) = OnPort(ticket, q)
    BY <2>2, ChangedSenders
  <2> QED
    BY <2>1, <2>3
<1>8. Fills(ticket', reserved, Lens(queue), limit, live)
  <2>1. Fills(ticket, reserved, Lens(queue), limit, live)
    BY Basics
  <2> QED
    BY <1>4, <2>1, LessFills DEF Continues
<1>9. Booked(posted, ticket')
  BY <1>4, ContinuesBooked, Basics
<1>10. SenderInv'
  BY <1>1, <1>7, <1>8, <1>9 DEF SenderInv
<1>11. Places' /\ NoticesOk(request', armed', live)
  BY <1>1, Basics DEF Places
<1> QED
  BY <1>1, <1>10, <1>11, SenderStepKeeps

LEMMA InterruptSendKeeps ==
  ASSUME MqInv, NEW s, InterruptSend(s)
  PROVE  MqInv'
<1> DEFINE t == [ticket[s] EXCEPT !.state = "Interrupted"]
<1>1. s \in DOMAIN ticket /\ ticket[s].state = "Waiting" /\ ticket' = [ticket EXCEPT ![s] = t]
      /\ UNCHANGED <<topology, store, limit, waiters, reserved, receiving, notices>>
  BY DEF InterruptSend, Ready
<1>2. ticket[s] \in Tickets
  BY <1>1, Basics
<1>3. t \in Tickets /\ t.port = ticket[s].port /\ t.state = "Interrupted"
  BY <1>2 DEF Tickets, SendStates
<1> HIDE DEF t
<1> QED
  BY <1>1, <1>3, ChangedSendKeeps

LEMMA ExpireSendKeeps ==
  ASSUME MqInv, NEW s, ExpireSend(s)
  PROVE  MqInv'
<1> DEFINE t == [ticket[s] EXCEPT !.due = "passed"]
<1>1. s \in DOMAIN ticket /\ ticket' = [ticket EXCEPT ![s] = t]
      /\ UNCHANGED <<topology, store, limit, waiters, reserved, receiving, notices>>
  BY DEF ExpireSend
<1>2. ticket[s] \in Tickets
  BY <1>1, Basics
<1>3. t \in Tickets /\ t.port = ticket[s].port /\ t.state = ticket[s].state /\ t.due = "passed"
  BY <1>2 DEF Tickets, Dues
<1> HIDE DEF t
<1> QED
  BY <1>1, <1>3, ChangedSendKeeps

\* The slots that a sender leaves unused go to the others.
LEMMA TerminateSenderKeeps ==
  ASSUME MqInv, NEW s, TerminateSender(s)
  PROVE  MqInv'
<1>0. s \in DOMAIN ticket
  BY DEF TerminateSender
<1>1a. PICK p \in Ports : p = ticket[s].port
  BY <1>0, Basics
<1>1. PICK tk, wq, rs : p = ticket[s].port /\ tk = Without(ticket, {s})
                        /\ wq = WaitersWithout(s) /\ rs = Released(s)
  BY <1>1a
<1>2. Departed(s, p, tk, wq, rs)
  <2>1. SendersOk(ticket, waiters, reserved)
    BY Basics
  <2> QED
    BY <1>0, <1>1, <2>1, DepartedSenders
<1>3. /\ p \in Ports /\ SendersOk(tk, wq, rs) /\ rs \in [Ports -> Nat]
      /\ \A q \in Ports \ {p} : rs[q] = reserved[q]
      /\ DOMAIN tk = DOMAIN ticket \ {s}
      /\ \A x \in DOMAIN tk : tk[x] = ticket[x]
      /\ \A q : OnPort(tk, q) = OnPort(ticket, q) \ {s}
      /\ s \in OnPort(ticket, p)
  BY <1>2 DEF Departed, SendersOk, Counts
<1>4. PICK len \in Nat, lim \in Nat, d \in [Ports -> Nat], lm \in [Ports -> Nat] :
         len = Len(queue[p]) /\ lim = limit[p] /\ d = Lens(queue) /\ lm = limit
  BY <1>3, Basics
<1>5. PICK n \in Nat : /\ n = FreeSlots(p, len + rs[p])
                       /\ p \in live => lm[p] <= len + rs[p] + n
  <2> DEFINE f == FreeSlots(p, len + rs[p])
  <2>1. rs[p] \in Nat /\ lm[p] \in Nat /\ lm[p] = limit[p]
    BY <1>3, <1>4
  <2>2. f = IF p \in live /\ len + rs[p] < lm[p] THEN lm[p] - (len + rs[p]) ELSE 0
    BY <2>1 DEF FreeSlots
  <2>3. f \in Nat /\ (p \in live => lm[p] <= len + rs[p] + f)
    <3> HIDE DEF f
    <3> QED
      BY <2>1, <2>2
  <2> QED
    BY <2>3
<1>6. /\ Settle(p, len, lim, n, tk, wq, rs, receive)
      /\ UNCHANGED <<live, held, members, queue, posted, sequence, preposts, limit, handed, order>>
  BY <1>1, <1>4, <1>5 DEF TerminateSender, WaitersWithout, topology, store
<1>7. FillsBut(tk, rs, d, lm, live, p, n)
  <2> SUFFICES ASSUME NEW z \in DOMAIN tk, Grantable(tk, z), tk[z].port \in live \ VsyncPorts
               PROVE  lm[tk[z].port] <= d[tk[z].port] + rs[tk[z].port]
                                            + (IF tk[z].port = p THEN n ELSE 0)
    BY DEF FillsBut
  <2> DEFINE x == tk[z].port
  <2>1. x = ticket[z].port /\ z \in DOMAIN ticket /\ Grantable(ticket, z) /\ x \in live
    BY <1>3 DEF Grantable
  <2>2. x \in Ports /\ limit[x] \in Nat /\ reserved[x] \in Nat /\ Lens(queue)[x] \in Nat
    BY <2>1, Basics
  <2>3. limit[x] <= Lens(queue)[x] + reserved[x]
    BY <2>1, Basics DEF Fills
  <2> HIDE DEF x
  <2>4. lm[x] <= d[x] + rs[x] + (IF x = p THEN n ELSE 0)
    <3>1. CASE x = p
      <4>1. d[x] = len
        BY <1>4, <3>1, <2>2, Basics
      <4> QED
        BY <1>5, <2>1, <3>1, <4>1
    <3>2. CASE x # p
      <4>1. rs[x] = reserved[x]
        BY <1>3, <2>2, <3>2
      <4> QED
        BY <1>4, <2>2, <2>3, <3>2, <4>1
    <3> QED
      BY <3>1, <3>2
  <2> QED
    BY <2>4 DEF x
<1>8. /\ SendersOk(ticket, waiters, reserved)'
      /\ Fills(ticket', reserved', d, lm, live)
      /\ \A c : Booked(c, tk) => Booked(c, ticket')
      /\ NoticesOk(request', armed', live)
      /\ receive' = receive \/ receive' = Unseen(receive, {p})
  <2>1. NoticesOk(request, armed, live)
    BY Basics
  <2>2. SendersOk(tk, wq, rs)
    BY <1>3
  <2>3. PICK rc : rc = receive
    OBVIOUS
  <2>4. Settle(p, len, lim, n, tk, wq, rs, rc)
    BY <1>6, <2>3
  <2>5. Settled(p, tk, rc, d, lm)
    BY <1>7, <2>1, <2>2, <2>4, SettleAll
  <2> QED
    BY <2>3, <2>5 DEF Settled
<1>9. Booked(posted, ticket')
  BY <1>0, <1>3, <1>8, DepartedBooked
<1>10. SenderInv'
  BY <1>4, <1>6, <1>8, <1>9 DEF SenderInv
<1>11. Places'
  BY <1>6, Basics DEF Places
<1> QED
  BY <1>3, <1>6, <1>8, <1>10, <1>11, SenderStepKeeps

\* A higher limit is room for as many senders.
LEMMA SetLimitKeeps ==
  ASSUME MqInv, NEW p \in Ports, NEW v \in Limits, SetLimit(p, v)
  PROVE  MqInv'
<1>1. PICK tk, wq, rs, rc : tk = ticket /\ wq = waiters /\ rs = reserved /\ rc = receive
  OBVIOUS
<1>2. SendersOk(tk, wq, rs) /\ rs \in [Ports -> Nat] /\ v \in Nat /\ limit[p] \in Nat
  BY <1>1, Basics, LimitsAssumption
<1>3. limit' = [limit EXCEPT ![p] = v] /\ limit' \in [Ports -> Limits]
      /\ limit' \in [Ports -> Nat] /\ limit'[p] = v
      /\ \A x \in Ports \ {p} : limit'[x] = limit[x]
  <2>1. limit \in [Ports -> Limits] /\ limit \in [Ports -> Nat]
    BY Basics DEF Places
  <2>2. limit' = [limit EXCEPT ![p] = v]
    BY DEF SetLimit
  <2> QED
    BY <1>2, <2>1, <2>2
<1>4. PICK len \in Nat, d \in [Ports -> Nat], lm \in [Ports -> Nat] :
         len = Len(queue[p]) /\ d = Lens(queue) /\ lm = limit'
  BY <1>3, Basics
<1>5. PICK n \in Nat : n = LimitSlots(p, v) /\ v <= limit[p] + n
  <2>1. CASE v > limit[p]
    BY <1>2, <2>1 DEF LimitSlots
  <2>2. CASE ~ (v > limit[p])
    BY <1>2, <2>2 DEF LimitSlots
  <2> QED
    BY <2>1, <2>2
<1>6. /\ Settle(p, len, v, n, tk, wq, rs, rc)
      /\ UNCHANGED <<live, held, members, queue, posted, sequence, preposts, handed, order>>
  BY <1>1, <1>4, <1>5 DEF SetLimit, topology, store
<1>7. FillsBut(tk, rs, d, lm, live, p, n)
  <2> SUFFICES ASSUME NEW z \in DOMAIN tk, Grantable(tk, z), tk[z].port \in live \ VsyncPorts
               PROVE  lm[tk[z].port] <= d[tk[z].port] + rs[tk[z].port]
                                            + (IF tk[z].port = p THEN n ELSE 0)
    BY DEF FillsBut
  <2> DEFINE x == tk[z].port
  <2>1. x \in Ports /\ limit[x] \in Nat /\ rs[x] \in Nat /\ d[x] \in Nat
    BY <1>1, <1>4, Basics
  <2>2. limit[x] <= d[x] + rs[x]
    BY <1>1, <1>4, Basics DEF Fills
  <2> HIDE DEF x
  <2>3. lm[x] <= d[x] + rs[x] + (IF x = p THEN n ELSE 0)
    <3>1. CASE x = p
      BY <1>2, <1>3, <1>4, <1>5, <2>1, <2>2, <3>1
    <3>2. CASE x # p
      BY <1>3, <1>4, <2>1, <2>2, <3>2
    <3> QED
      BY <3>1, <3>2
  <2> QED
    BY <2>3 DEF x
<1>8. /\ SendersOk(ticket, waiters, reserved)'
      /\ Fills(ticket', reserved', d, lm, live)
      /\ \A c : Booked(c, tk) => Booked(c, ticket')
      /\ NoticesOk(request', armed', live)
      /\ receive' = rc \/ receive' = Unseen(rc, {p})
  <2>1. NoticesOk(request, armed, live)
    BY Basics
  <2>2. PICK lim \in Nat : lim = v
    BY <1>2
  <2>3. Settle(p, len, lim, n, tk, wq, rs, rc)
    BY <1>6, <2>2
  <2> QED
    <3>1. Settled(p, tk, rc, d, lm)
      BY <1>2, <1>7, <2>1, <2>3, SettleAll
    <3> QED
      BY <3>1 DEF Settled
<1>9. SenderInv'
  BY <1>1, <1>4, <1>6, <1>8, Basics DEF SenderInv
<1>10. Places'
  BY <1>3, <1>6, Basics DEF Places
<1> QED
  BY <1>1, <1>6, <1>8, <1>9, <1>10, SenderStepKeeps

LEMMA NoticeStepKeeps ==
  ASSUME MqInv, NEW n \in Names, NoticeStep(n)
  PROVE  MqInv'
<1>1. NoticesOk(request, armed, live)
  BY Basics
<1>2. CASE \E sync \in BOOLEAN : Register(n, sync)
  <2>1. PICK sync \in BOOLEAN : Register(n, sync)
    BY <1>2
  <2>2. /\ UNCHANGED <<live, held, members, queue, posted, sequence, preposts, limit>>
        /\ UNCHANGED <<ticket, waiters, reserved, receive, handed, order>>
    BY <2>1 DEF Register, topology, store, sending, receiving
  <2>3. NoticesOk(request', armed', live)
    BY <1>1, <2>1, <2>2, RegisterNotices
  <2>4. SenderInv' /\ Places'
    BY <2>2 DEF MqInv, SenderInv, Places
  <2> QED
    BY <2>2, <2>3, <2>4, SenderStepKeeps
<1>3. CASE CancelRequest(n)
  <2>1. /\ UNCHANGED <<live, held, members, queue, posted, sequence, preposts, limit>>
        /\ UNCHANGED <<ticket, waiters, reserved, receive, handed, order>>
        /\ request' = Without(request, {n}) /\ armed' = armed
    BY <1>3 DEF CancelRequest, topology, store, sending, receiving
  <2>2. NoticesOk(Without(request, {n}), armed, live)
    <3>1. \A m \in DOMAIN request : m \notin {n} => m[2] \in live /\ (m[2] \in armed => m[2] \in armed)
      BY <1>1 DEF NoticesOk
    <3>2. armed \in SUBSET armed
      OBVIOUS
    <3> QED
      BY <1>1, <3>1, <3>2, FewerNotices
  <2>3. NoticesOk(request', armed', live)
    BY <2>1, <2>2
  <2>4. SenderInv' /\ Places'
    BY <2>1 DEF MqInv, SenderInv, Places
  <2> QED
    BY <2>1, <2>3, <2>4, SenderStepKeeps
<1> QED
  BY <1>2, <1>3 DEF NoticeStep

-----------------------------------------------------------------------------
(* Steps of ports and sets.                                                *)
\* The receives on O poll again; the others are where they were.
LEMMA ReceiversKeep ==
  ASSUME MqInv, NEW O, receive' = Unseen(receive, O), DOMAIN handed' = DOMAIN handed,
         SetsOk(members', order', queue', preposts'), OrderOk(order', receive),
         \A o \in Objects \ O : o \in live \cap held /\ Silent(o, queue, preposts)
            => o \in live' \cap held' /\ Silent(o, queue', preposts')
  PROVE  ReceiverInv'
<1>1. /\ ReceivesOk(receive, handed) /\ Quiet(receive, live, held, queue, preposts)
      /\ \A r \in DOMAIN receive : receive[r] \in Receives /\ receive[r].object \in Objects
  BY DEF MqInv, ReceiverInv, ReceivesOk, Receives
<1>2. Wakened(receive, receive', O)
  BY <1>1, UnseenIs
<1>3. OrderOk(order', receive')
  BY <1>2, OrderDomain DEF Wakened
<1>4. ReceivesOk(receive', handed')
  <2>1. ReceivesOk(receive', handed)
    BY <1>1, <1>2, WakenedReceives
  <2> QED
    BY <2>1 DEF ReceivesOk
<1>5. Quiet(receive', live', held', queue', preposts')
  <2> SUFFICES ASSUME NEW r \in DOMAIN receive', receive'[r].seen
               PROVE  /\ receive'[r].state = "Waiting" /\ receive'[r].object \in live' \cap held'
                      /\ Silent(receive'[r].object, queue', preposts')
    BY DEF Quiet
  <2>1. /\ r \in DOMAIN receive /\ receive[r].seen /\ receive[r].object \notin O
        /\ receive'[r].object = receive[r].object /\ receive'[r].state = receive[r].state
    BY <1>2 DEF Wakened
  <2>2. /\ receive[r].state = "Waiting" /\ receive[r].object \in live \cap held
        /\ Silent(receive[r].object, queue, preposts) /\ receive[r].object \in Objects
    BY <1>1, <2>1 DEF Quiet
  <2> QED
    BY <2>1, <2>2
<1> QED
  BY <1>3, <1>4, <1>5 DEF ReceiverInv

\* The ready lists gain nothing outside O.
LEMMA ListsKeep ==
  ASSUME MqInv, NEW ww, NEW O,
         \A s \in Sets \ O : ToSet(ww[s]) \subseteq ToSet(preposts[s]),
         NEW o \in Objects \ O, Silent(o, queue, preposts)
  PROVE  Silent(o, queue, ww)
BY DEF Silent, SourcesOf, Objects

LEMMA MemberLists ==
  ASSUME MqInv
  PROVE  /\ SetsOk(members, order, queue, preposts) /\ OrderOk(order, receive)
         /\ DOMAIN preposts = Sets /\ members \in [Sets -> SUBSET Ports]
         /\ \A s \in Sets : preposts[s] \in Seq(Ports)
         /\ \A T : \A s \in Sets : ToSet(Erased(preposts[s], T)) = ToSet(preposts[s]) \ T
<1>1. SetsOk(members, order, queue, preposts) /\ OrderOk(order, receive)
  BY DEF MqInv, ReceiverInv
<1>2. \A s \in Sets : preposts[s] \in Seq(Ports)
  BY <1>1 DEF SetsOk, Covers
<1>3. \A T : \A s \in Sets : ToSet(Erased(preposts[s], T)) = ToSet(preposts[s]) \ T
  BY <1>2, ErasedIs
<1> QED
  BY <1>1, <1>2, <1>3 DEF SetsOk

\* Members come and go, and with them what the receivers may look at.
LEMMA MemberStepKeeps ==
  ASSUME MqInv,
         UNCHANGED <<live, held, queue, posted, sequence, limit, sending, handed, notices>>,
         SetsOk(members', order', queue, preposts'), OrderOk(order', receive),
         NEW O, receive' = Unseen(receive, O),
         \A s \in Sets \ O : ToSet(preposts'[s]) \subseteq ToSet(preposts[s])
  PROVE  MqInv'
<1>1. UNCHANGED <<live, held, queue, posted, sequence, limit, handed>>
      /\ UNCHANGED <<ticket, waiters, reserved, request, armed>>
  BY DEF sending, notices
<1>2. \A o \in Objects \ O : o \in live \cap held /\ Silent(o, queue, preposts)
         => o \in live' \cap held' /\ Silent(o, queue', preposts')
  BY <1>1, ListsKeep
<1>3. ReceiverInv'
  BY <1>1, <1>2, ReceiversKeep
<1> QED
  BY <1>1, <1>3 DEF MqInv, SenderInv, Places

LEMMA InsertMemberKeeps ==
  ASSUME MqInv, NEW s \in Sets, NEW p \in Ports, InsertMember(s, p)
  PROVE  MqInv'
<1>1. PICK M, ord, pp :
         /\ M = [members EXCEPT ![s] = @ \cup {p}] /\ ord = Append(order, <<s, p>>)
         /\ pp = IF queue[p] # <<>> THEN [preposts EXCEPT ![s] = Append(@, p)] ELSE preposts
  OBVIOUS
<1>2. /\ p \notin members[s] /\ members' = M /\ order' = ord /\ preposts' = pp
      /\ receive' = Unseen(receive, {s, p})
      /\ UNCHANGED <<live, held, queue, posted, sequence, limit, sending, handed, notices>>
  BY <1>1 DEF InsertMember, InsertWakes
<1>3. SetsOk(M, ord, queue, pp) /\ OrderOk(ord, receive)
  BY <1>1, <1>2, MemberLists, InsertSets
<1>4. \A x \in Sets \ {s, p} : ToSet(pp[x]) \subseteq ToSet(preposts[x])
  BY <1>1, MemberLists
<1> QED
  BY <1>2, <1>3, <1>4, MemberStepKeeps

LEMMA ExtractMemberKeeps ==
  ASSUME MqInv, NEW s \in Sets, NEW p \in Ports, ExtractMember(s, p)
  PROVE  MqInv'
<1>1. PICK M, ord, pp :
         /\ M = [members EXCEPT ![s] = @ \ {p}] /\ ord = Drop(order, <<s, p>>)
         /\ pp = [preposts EXCEPT ![s] = Drop(@, p)]
  OBVIOUS
<1>2. /\ members' = M /\ order' = ord /\ preposts' = pp
      /\ receive' = Unseen(receive, {s, p})
      /\ UNCHANGED <<live, held, queue, posted, sequence, limit, sending, handed, notices>>
  BY <1>1 DEF ExtractMember
<1>3. SetsOk(M, ord, queue, pp) /\ OrderOk(ord, receive)
  BY <1>1, MemberLists, ExtractSets
<1>4. \A x \in Sets \ {s, p} : ToSet(pp[x]) \subseteq ToSet(preposts[x])
  BY <1>1, MemberLists
<1> QED
  BY <1>2, <1>3, <1>4, MemberStepKeeps

LEMMA MoveMemberKeeps ==
  ASSUME MqInv, NEW p \in Ports, NEW into, into = {} \/ \E s \in Sets : into = {s},
         MoveMember(p, into)
  PROVE  MqInv'
<1>1. PICK M, ord, pp, O :
         /\ Moved(p, into, M, ord, pp)
         /\ O = Linked(p) \cup into \cup (IF Linked(p) \cup into = {} THEN {} ELSE {p})
  BY DEF Moved
<1>2. /\ members' = M /\ order' = ord /\ preposts' = pp /\ receive' = Unseen(receive, O)
      /\ UNCHANGED <<live, held, queue, posted, sequence, limit, sending, handed, notices>>
  BY <1>1 DEF MoveMember, Moved
<1>3. SetsOk(M, ord, queue, pp) /\ OrderOk(ord, receive)
  BY <1>1, MemberLists, MoveSets
<1>4. ASSUME NEW x \in Sets \ O PROVE ToSet(pp[x]) \subseteq ToSet(preposts[x])
  <2>1. x \notin into
    BY <1>1
  <2>2. pp[x] = Erased(preposts[x], {p})
    BY <1>1, <2>1 DEF Drop, Moved
  <2> QED
    BY <2>2, MemberLists
<1> QED
  BY <1>2, <1>3, <1>4, MemberStepKeeps

\* A port that leaves the task, or ends, leaves every set.
LEMMA LeavingLists ==
  ASSUME MqInv, NEW p \in Ports, NEW o \in Objects \ ({p} \cup Linked(p)),
         NEW V, \A x \in Ports \ {p} : V[x] = queue[x],
         V[p] = queue[p] \/ V[p] = <<>>,
         o \in live \cap held, Silent(o, queue, preposts)
  PROVE  Silent(o, V, OutOfAll(preposts, p))
<1>1. CASE o \in Ports
  BY <1>1 DEF Silent, SourcesOf
<1>2. CASE o \notin Ports
  <2>1. o \in Sets /\ OutOfAll(preposts, p)[o] = Erased(preposts[o], {p})
    BY <1>2 DEF Objects, OutOfAll, Drop
  <2>2. ToSet(OutOfAll(preposts, p)[o]) = ToSet(preposts[o]) \ {p}
    BY <2>1, MemberLists
  <2>3. ToSet(preposts[o]) \subseteq Ports
    <3>1. preposts[o] \in Seq(Ports)
      BY <2>1, MemberLists
    <3> QED
      BY <3>1, EmptyQueue
  <2> QED
    BY <1>2, <2>2, <2>3 DEF Silent, SourcesOf
<1> QED
  BY <1>1, <1>2

\* The sequence numbers of a port start again when it moves, and what has been
\* handed over before is no longer comparable.
LEMMA MovedDeliveries ==
  ASSUME DeliveriesOk(queue, posted, sequence, handed), NEW p \in Ports,
         NEW W, W = [sequence EXCEPT ![p] = 0],
         NEW D, D = [r \in DOMAIN handed |->
                        [handed[r] EXCEPT !.moved = @ \/ handed[r].port = p]]
  PROVE  DeliveriesOk(queue, posted, W, D) /\ DOMAIN D = DOMAIN handed
<1>1. StoreOk(queue, posted, sequence) /\ Numbered(queue, posted)
  BY DEF DeliveriesOk
<1>2. /\ StoreOk(queue, posted, W)
      /\ \A x \in Ports : x # p => W[x] = sequence[x]
  BY <1>1 DEF StoreOk
<1>3. ASSUME NEW r \in DOMAIN handed
      PROVE  /\ D[r] \in Deliveries /\ D[r].port = handed[r].port
             /\ D[r].number = handed[r].number /\ D[r].sequence = handed[r].sequence
             /\ ~ D[r].moved => ~ handed[r].moved /\ D[r].port # p
             /\ HandedFirst(queue, posted, sequence, handed[r]) /\ D[r].port \in Ports
  <2>1. HandedFirst(queue, posted, sequence, handed[r])
    BY DEF DeliveriesOk
  <2>2. handed[r] \in Deliveries
    BY <2>1 DEF HandedFirst
  <2>3. D[r] = [handed[r] EXCEPT !.moved = @ \/ handed[r].port = p]
    OBVIOUS
  <2>4. handed[r].moved \in BOOLEAN /\ handed[r].port \in Ports
    BY <2>2 DEF Deliveries
  <2>5. PICK b \in BOOLEAN : b <=> handed[r].moved \/ handed[r].port = p
    OBVIOUS
  <2>6. /\ D[r].port = handed[r].port
        /\ D[r].number = handed[r].number /\ D[r].sequence = handed[r].sequence
        /\ D[r].moved = (handed[r].moved \/ handed[r].port = p)
    BY <2>2, <2>3 DEF Deliveries
  <2>7. D[r] \in Deliveries
    BY <2>2, <2>3, <2>4 DEF Deliveries
  <2> QED
    BY <2>1, <2>4, <2>6, <2>7
<1>4. DOMAIN D = DOMAIN handed
  OBVIOUS
<1>5. ASSUME NEW r \in DOMAIN D PROVE HandedFirst(queue, posted, W, D[r])
  <2>1. ~ D[r].moved => W[D[r].port] = sequence[D[r].port]
    BY <1>2, <1>3, <1>4
  <2> QED
    BY <1>3, <1>4, <2>1 DEF HandedFirst
<1>6. ASSUME NEW r \in DOMAIN D, NEW x \in DOMAIN D PROVE Agree(D[r], D[x])
  <2>1. Agree(handed[r], handed[x])
    BY <1>4 DEF DeliveriesOk
  <2> QED
    BY <1>3, <1>4, <2>1 DEF Agree
<1> QED
  BY <1>1, <1>2, <1>4, <1>5, <1>6 DEF DeliveriesOk

LEMMA MoveReceiveKeeps ==
  ASSUME MqInv, NEW p \in Ports, MoveReceive(p)
  PROVE  MqInv'
<1>1. /\ p \in live /\ held' = held \ {p}
      /\ members' = [s \in Sets |-> members[s] \ {p}]
      /\ preposts' = OutOfAll(preposts, p) /\ order' = Unlinked(p)
      /\ receive' = Unseen(receive, {p} \cup Linked(p))
      /\ UNCHANGED <<live, queue, posted, limit, ticket, waiters, reserved, request, armed>>
  BY DEF MoveReceive, sending, notices
<1>2. DeliveriesOk(queue, posted, sequence', handed') /\ DOMAIN handed' = DOMAIN handed
  <2>1. PICK W, D : W = sequence' /\ D = handed'
    OBVIOUS
  <2>2. /\ W = [sequence EXCEPT ![p] = 0]
        /\ D = [r \in DOMAIN handed |-> [handed[r] EXCEPT !.moved = @ \/ handed[r].port = p]]
        /\ DeliveriesOk(queue, posted, sequence, handed)
    BY <2>1 DEF MoveReceive, MqInv
  <2>3. DeliveriesOk(queue, posted, W, D) /\ DOMAIN D = DOMAIN handed
    BY <2>2, MovedDeliveries
  <2> QED
    BY <2>1, <2>3
<1>3. SetsOk(members', order', queue, preposts') /\ OrderOk(order', receive)
  <2>1. PICK M : M = [s \in Sets |-> members[s] \ {p}]
    OBVIOUS
  <2>2. SetsOk(M, Unlinked(p), queue, OutOfAll(preposts, p)) /\ OrderOk(Unlinked(p), receive)
    BY <2>1, MemberLists, LeaveSets
  <2> QED
    BY <1>1, <2>1, <2>2
<1>4. \A o \in Objects \ ({p} \cup Linked(p)) :
         o \in live \cap held /\ Silent(o, queue, preposts)
            => o \in live' \cap held' /\ Silent(o, queue', preposts')
  BY <1>1, LeavingLists
<1>5. ReceiverInv'
  BY <1>1, <1>2, <1>3, <1>4, ReceiversKeep
<1> QED
  BY <1>1, <1>2, <1>5 DEF MqInv, SenderInv, Places

LEMMA ReturnReceiveKeeps ==
  ASSUME MqInv, NEW p \in Ports, ReturnReceive(p)
  PROVE  MqInv'
<1>1. /\ p \in live /\ held' = held \cup {p} /\ receive' = Unseen(receive, {p})
      /\ UNCHANGED <<live, members, queue, posted, sequence, preposts, limit, handed, order>>
      /\ UNCHANGED <<ticket, waiters, reserved, request, armed>>
  BY DEF ReturnReceive, store, sending, notices
<1>2. SetsOk(members', order', queue', preposts') /\ OrderOk(order', receive)
  BY <1>1, MemberLists
<1>3. ReceiverInv'
  BY <1>1, <1>2, ReceiversKeep
<1> QED
  BY <1>1, <1>3 DEF MqInv, SenderInv, Places

LEMMA DestroySetKeeps ==
  ASSUME MqInv, NEW s \in Sets, DestroySet(s)
  PROVE  MqInv'
<1>1. PICK M, ord, pp :
         /\ M = [members EXCEPT ![s] = {}] /\ ord = Erased(order, {s} \X Ports)
         /\ pp = [preposts EXCEPT ![s] = <<>>]
  OBVIOUS
<1>2. /\ live' = live \ {s} /\ held' = held \ {s}
      /\ members' = M /\ order' = ord /\ preposts' = pp
      /\ receive' = Unseen(receive, {s} \cup members[s])
      /\ UNCHANGED <<queue, posted, sequence, limit, handed>>
      /\ UNCHANGED <<ticket, waiters, reserved, request, armed>>
  BY <1>1 DEF DestroySet, sending, notices
<1>3. SetsOk(M, ord, queue, pp) /\ OrderOk(ord, receive)
  BY <1>1, MemberLists, DestroySets
<1>4. \A x \in Sets \ ({s} \cup members[s]) : pp[x] = preposts[x]
  BY <1>1, MemberLists
<1>5. \A o \in Objects \ ({s} \cup members[s]) :
         o \in live \cap held /\ Silent(o, queue, preposts)
            => o \in live' \cap held' /\ Silent(o, queue', preposts')
  BY <1>2, <1>4, ListsKeep
<1>6. ReceiverInv'
  BY <1>2, <1>3, <1>5, ReceiversKeep
<1>7. NoticesOk(request', armed', live')
  <2>1. NoticesOk(request, armed, live)
    BY Basics
  <2>2. \A n \in DOMAIN request : n[2] \in Ports /\ n[2] # s
    BY <2>1, ObjectsAssumption DEF NoticesOk, Names
  <2> QED
    BY <1>2, <2>1, <2>2 DEF NoticesOk
<1>8. SenderInv'
  <2>1. Fills(ticket, reserved, Lens(queue), limit, live \ {s})
    BY Basics DEF Fills
  <2> QED
    BY <1>2, <2>1 DEF MqInv, SenderInv
<1> QED
  BY <1>2, <1>6, <1>7, <1>8 DEF MqInv, Places

\* The tickets of a port that ends own nothing and wait no longer.
LEMMA DestroyedSenders ==
  ASSUME MqInv, NEW p \in Ports, NEW G, G = DestroyedTickets(p),
         NEW V, V = [reserved EXCEPT ![p] = 0]
  PROVE  /\ SendersOk(G, waiters, V) /\ Continues(ticket, G)
         /\ \A s \in DOMAIN G : G[s].port = p => ~ Grantable(G, s)
         /\ \A q \in Ports \ {p} : V[q] = reserved[q]
<1>1. DOMAIN G = DOMAIN ticket
  BY DEF DestroyedTickets
<1>2. ASSUME NEW s \in DOMAIN ticket
      PROVE  /\ G[s] \in Tickets /\ G[s].port = ticket[s].port
             /\ ticket[s].port # p => G[s] = ticket[s]
             /\ G[s].port = p => G[s].state # "Waiting" /\ G[s].state # "Granted"
             /\ G[s].state \in {"Waiting", "Granted"} => G[s] = ticket[s]
  <2>1. ticket[s] \in Tickets
    BY Basics
  <2>2. G[s] = IF ticket[s].port # p \/ ticket[s].state \notin {"Waiting", "Granted"}
               THEN ticket[s]
               ELSE [ticket[s] EXCEPT
                       !.state = IF @ = "Waiting" /\ ticket[s].due = "passed"
                                 THEN "TimedOut" ELSE "Destroyed"]
    BY DEF DestroyedTickets
  <2>3. CASE ticket[s].port # p \/ ticket[s].state \notin {"Waiting", "Granted"}
    BY <2>1, <2>2, <2>3
  <2>4. CASE ~ (ticket[s].port # p \/ ticket[s].state \notin {"Waiting", "Granted"})
    <3>1. PICK x \in {"TimedOut", "Destroyed"} : G[s] = [ticket[s] EXCEPT !.state = x]
      BY <2>2, <2>4
    <3>2. G[s] \in Tickets /\ G[s].port = ticket[s].port /\ G[s].state = x
      BY <2>1, <3>1 DEF Tickets, SendStates
    <3> QED
      BY <2>4, <3>1, <3>2
  <2> QED
    BY <2>3, <2>4
<1> HIDE DEF DestroyedTickets
<1>3. TicketsOk(G)
  BY <1>1, <1>2, Basics DEF TicketsOk
<1>4. Continues(ticket, G)
  BY <1>1, <1>2 DEF Continues, Grantable
<1>5. \A s \in DOMAIN G : G[s].port = p => ~ Grantable(G, s)
  BY <1>1, <1>2 DEF Grantable
<1>6. V \in [Ports -> Nat] /\ V[p] = 0 /\ \A q \in Ports \ {p} : V[q] = reserved[q]
  BY Basics
<1>7. Counts(G, V)
  <2>1. GrantedOn(G, p) = {}
    BY <1>1, <1>2 DEF GrantedOn
  <2>2. \A q \in Ports \ {p} : GrantedOn(G, q) = GrantedOn(ticket, q)
    BY <1>1, <1>2 DEF GrantedOn
  <2>3. \A q \in Ports : reserved[q] = Cardinality(GrantedOn(ticket, q))
    BY Basics DEF SendersOk, Counts
  <2>4. Cardinality(GrantedOn(G, p)) = 0
    BY <2>1, FS_EmptySet
  <2>5. ASSUME NEW q \in Ports PROVE V[q] = Cardinality(GrantedOn(G, q))
    <3>1. CASE q = p
      BY <1>6, <2>4, <3>1
    <3>2. CASE q # p
      BY <1>6, <2>2, <2>3, <3>2
    <3> QED
      BY <3>1, <3>2
  <2> QED
    BY <1>6, <2>5 DEF Counts
<1>8. \A s \in DOMAIN G : G[s].state = "Granted" => ticket[s].state = "Granted"
  BY <1>1, <1>2
<1>9. SendersOk(G, waiters, V)
  <2>1. SendersOk(ticket, waiters, reserved)
    BY Basics
  <2> QED
    BY <1>3, <1>4, <1>7, <1>8, <2>1, ChangedSenders
<1> QED
  BY <1>4, <1>5, <1>6, <1>9

LEMMA DestroyPortKeeps ==
  ASSUME MqInv, NEW p \in Ports, DestroyPort(p)
  PROVE  MqInv'
<1>1. /\ live' = live \ {p} /\ held' = held \ {p}
      /\ members' = [s \in Sets |-> members[s] \ {p}]
      /\ preposts' = OutOfAll(preposts, p) /\ order' = Unlinked(p)
      /\ queue' = [queue EXCEPT ![p] = <<>>]
      /\ ticket' = DestroyedTickets(p) /\ reserved' = [reserved EXCEPT ![p] = 0]
      /\ request' = Without(request, Senders \X {p}) /\ armed' = armed \ {p}
      /\ receive' = Unseen(receive, {p} \cup Linked(p))
      /\ UNCHANGED <<posted, sequence, limit, waiters, handed>>
  BY DEF DestroyPort
<1>2. /\ queue' \in [Ports -> Seq(Messages)] /\ queue'[p] = <<>>
      /\ \A x \in Ports \ {p} : queue'[x] = queue[x]
  <2>1. <<>> \in Seq(Messages)
    OBVIOUS
  <2> QED
    BY <1>1, <2>1, Basics
<1>3. SetsOk(members', order', queue', preposts') /\ OrderOk(order', receive)
  <2>1. PICK M, V : M = [s \in Sets |-> members[s] \ {p}] /\ V = queue'
    OBVIOUS
  <2>2. \A x \in Ports \ {p} : V[x] = queue[x]
    BY <1>2, <2>1
  <2>3. SetsOk(M, Unlinked(p), V, OutOfAll(preposts, p)) /\ OrderOk(Unlinked(p), receive)
    BY <2>1, <2>2, MemberLists, LeaveSets
  <2> QED
    BY <1>1, <2>1, <2>3
<1>4. ReceiverInv'
  <2>1. \A o \in Objects \ ({p} \cup Linked(p)) :
           o \in live \cap held /\ Silent(o, queue, preposts)
              => o \in live' \cap held' /\ Silent(o, queue', preposts')
    BY <1>1, <1>2, LeavingLists
  <2> QED
    BY <1>1, <1>3, <2>1, ReceiversKeep
<1>5. SenderInv'
  <2>1. PICK G, V : G = ticket' /\ V = reserved'
    OBVIOUS
  <2>2. G = DestroyedTickets(p) /\ V = [reserved EXCEPT ![p] = 0]
    BY <1>1, <2>1
  <2>3. /\ SendersOk(G, waiters, V) /\ Continues(ticket, G)
        /\ \A s \in DOMAIN G : G[s].port = p => ~ Grantable(G, s)
        /\ \A q \in Ports \ {p} : V[q] = reserved[q]
    BY <2>2, DestroyedSenders
  <2>4. Booked(posted, G)
    BY <2>3, ContinuesBooked, Basics
  <2>5. Fills(G, V, Lens(queue'), limit, live')
    <3> SUFFICES ASSUME NEW s \in DOMAIN G, Grantable(G, s), G[s].port \in live' \ VsyncPorts
                 PROVE  limit[G[s].port] <= Lens(queue')[G[s].port] + V[G[s].port]
      BY DEF Fills
    <3>1. /\ s \in DOMAIN ticket /\ Grantable(ticket, s) /\ ticket[s].port = G[s].port
          /\ G[s].port # p /\ G[s].port \in live \ VsyncPorts /\ G[s].port \in Ports
      BY <1>1, <2>3, Basics DEF Continues
    <3>2. limit[G[s].port] <= Lens(queue)[G[s].port] + reserved[G[s].port]
      BY <3>1, Basics DEF Fills
    <3>3. Lens(queue')[G[s].port] = Lens(queue)[G[s].port] /\ V[G[s].port] = reserved[G[s].port]
      <4>1. Lens(queue')[G[s].port] = Len(queue'[G[s].port])
        BY <1>2, <3>1, QueueLens
      <4>2. Lens(queue)[G[s].port] = Len(queue[G[s].port])
        BY <3>1, Basics
      <4> QED
        BY <1>2, <2>3, <3>1, <4>1, <4>2
    <3> QED
      BY <3>2, <3>3
  <2> QED
    BY <1>1, <2>1, <2>3, <2>4, <2>5 DEF SenderInv
<1>6. NoticesOk(request', armed', live')
  <2>1. NoticesOk(request, armed, live)
    BY Basics
  <2>2. \A n \in DOMAIN request : n \notin Senders \X {p}
           => n[2] \in live \ {p} /\ (n[2] \in armed => n[2] \in armed \ {p})
    BY <2>1 DEF NoticesOk, Names
  <2>3. PICK X, B, M : X = Senders \X {p} /\ B = armed \ {p} /\ M = live \ {p}
    OBVIOUS
  <2>4. B \in SUBSET armed
    BY <2>3
  <2>5. \A n \in DOMAIN request : n \notin X => n[2] \in M /\ (n[2] \in armed => n[2] \in B)
    BY <2>2, <2>3
  <2>6. NoticesOk(Without(request, X), B, M)
    BY <2>1, <2>4, <2>5, FewerNotices
  <2> QED
    BY <1>1, <2>3, <2>6
<1>7. DeliveriesOk(queue', posted', sequence', handed')
  <2>1. DeliveriesOk(queue, posted, sequence, handed) /\ StoreOk(queue, posted, sequence)
    BY DEF MqInv, DeliveriesOk
  <2>2. PICK V : V = queue'
    OBVIOUS
  <2>3. StoreOk(V, posted, sequence)
    BY <1>2, <2>1, <2>2 DEF StoreOk
  <2>4. \A x \in Ports : /\ ToSet(V[x]) \subseteq ToSet(queue[x])
                         /\ \A y, z : Precedes(V[x], y, z) => Precedes(queue[x], y, z)
                         /\ sequence[x] <= sequence[x]
    <3>1. \A y, z : ~ Precedes(<<>>, y, z)
      BY DEF Precedes
    <3>2. ToSet(<<>>) = {}
      BY DEF ToSet
    <3> TAKE x \in Ports
    <3>3. sequence[x] <= sequence[x]
      BY <2>1 DEF StoreOk
    <3>4. V[x] = <<>> \/ V[x] = queue[x]
      BY <1>2, <2>2
    <3> QED
      BY <3>1, <3>2, <3>3, <3>4
  <2>5. DeliveriesOk(V, posted, sequence, handed)
    BY <2>1, <2>3, <2>4, FewerDeliveries
  <2> QED
    BY <1>1, <2>2, <2>5
<1>8. Places'
  BY <1>1, Basics DEF Places
<1> QED
  BY <1>4, <1>5, <1>6, <1>7, <1>8 DEF MqInv

\* A discarded pulse leaves room for no sender: none blocks on such a port.
LEMMA VsyncDiscardKeeps ==
  ASSUME MqInv, NEW p \in Ports, VsyncDiscard(p)
  PROVE  MqInv'
<1>1. /\ p \in VsyncPorts /\ receive' = Unseen(receive, Objects)
      /\ queue' = [queue EXCEPT ![p] = Erased(queue[p], {m \in ToSet(queue[p]) : m.vsync})]
      /\ UNCHANGED <<live, held, members, posted, sequence, preposts, limit, handed, order>>
      /\ UNCHANGED <<ticket, waiters, reserved, request, armed>>
  BY DEF VsyncDiscard, topology, sending, notices
<1>2. PICK w : w = Erased(queue[p], {m \in ToSet(queue[p]) : m.vsync})
  OBVIOUS
<1>3. /\ w \in Seq(Messages) /\ ToSet(w) \subseteq ToSet(queue[p])
      /\ \A y, z : Precedes(w, y, z) => Precedes(queue[p], y, z)
      /\ queue[p] = <<>> => w = <<>>
  <2>1. PICK T : T = {m \in ToSet(queue[p]) : m.vsync}
    OBVIOUS
  <2>2. queue[p] \in Seq(Messages) /\ w = Erased(queue[p], T)
    BY <1>2, <2>1, Basics
  <2>3. /\ w \in Seq(Messages) /\ ToSet(w) = ToSet(queue[p]) \ T
        /\ \A y, z : Precedes(w, y, z) => Precedes(queue[p], y, z)
    BY <2>2, ErasedIs
  <2>4. queue[p] = <<>> => w = <<>>
    BY <2>2, <2>3, EmptyQueue
  <2> QED
    BY <2>3, <2>4
<1>4. /\ queue' \in [Ports -> Seq(Messages)] /\ queue'[p] = w
      /\ \A x \in Ports \ {p} : queue'[x] = queue[x]
  BY <1>1, <1>2, <1>3, Basics
<1>5. SetsOk(members', order', queue', preposts') /\ OrderOk(order', receive)
  <2>1. \A x \in Ports : queue'[x] # <<>> => queue[x] # <<>>
    BY <1>3, <1>4
  <2>2. SetsOk(members, order, queue', preposts)
    BY <2>1, MemberLists, DrainedSets
  <2> QED
    BY <1>1, <2>2, MemberLists
<1>6. ReceiverInv'
  BY <1>1, <1>5, ReceiversKeep
<1>7. SenderInv'
  <2>1. Fills(ticket, reserved, Lens(queue'), limit, live)
    <3> SUFFICES ASSUME NEW s \in DOMAIN ticket, Grantable(ticket, s),
                        ticket[s].port \in live \ VsyncPorts
                 PROVE  limit[ticket[s].port] <= Lens(queue')[ticket[s].port]
                                                  + reserved[ticket[s].port]
      BY DEF Fills
    <3>1. limit[ticket[s].port] <= Lens(queue)[ticket[s].port] + reserved[ticket[s].port]
      BY Basics DEF Fills
    <3>2. ticket[s].port \in Ports \ {p}
      BY <1>1, Basics
    <3>3. Lens(queue')[ticket[s].port] = Lens(queue)[ticket[s].port]
      <4>1. Lens(queue')[ticket[s].port] = Len(queue'[ticket[s].port])
        BY <1>4, <3>2, QueueLens
      <4>2. Lens(queue)[ticket[s].port] = Len(queue[ticket[s].port])
        BY <3>2, Basics
      <4> QED
        BY <1>4, <3>2, <4>1, <4>2
    <3> QED
      BY <3>1, <3>3
  <2> QED
    BY <1>1, <2>1 DEF MqInv, SenderInv
<1>8. DeliveriesOk(queue', posted', sequence', handed')
  <2>1. DeliveriesOk(queue, posted, sequence, handed) /\ StoreOk(queue, posted, sequence)
    BY DEF MqInv, DeliveriesOk
  <2>2. PICK V : V = queue'
    OBVIOUS
  <2>3. StoreOk(V, posted, sequence)
    BY <1>4, <2>1, <2>2 DEF StoreOk
  <2>4. \A x \in Ports : /\ ToSet(V[x]) \subseteq ToSet(queue[x])
                         /\ \A y, z : Precedes(V[x], y, z) => Precedes(queue[x], y, z)
                         /\ sequence[x] <= sequence[x]
    <3> TAKE x \in Ports
    <3>1. sequence[x] <= sequence[x]
      BY <2>1 DEF StoreOk
    <3>2. (x = p /\ V[x] = w) \/ V[x] = queue[x]
      BY <1>4, <2>2
    <3> QED
      BY <1>3, <3>1, <3>2
  <2>5. DeliveriesOk(V, posted, sequence, handed)
    BY <2>1, <2>3, <2>4, FewerDeliveries
  <2> QED
    BY <1>1, <2>2, <2>5
<1> QED
  BY <1>1, <1>6, <1>7, <1>8 DEF MqInv, Places

-----------------------------------------------------------------------------
(* The invariant holds.                                                    *)
LEMMA InitInv ==
  ASSUME Init
  PROVE  MqInv
<1>1. /\ live = Objects /\ held = Objects
      /\ queue = [p \in Ports |-> <<>>] /\ limit = [p \in Ports |-> DefaultLimit]
      /\ posted = [p \in Ports |-> 0] /\ sequence = [p \in Ports |-> 0]
      /\ members = [s \in Sets |-> {}] /\ order = <<>> /\ preposts = [s \in Sets |-> <<>>]
      /\ waiters = [p \in Ports |-> <<>>] /\ reserved = [p \in Ports |-> 0]
      /\ DOMAIN ticket = {} /\ DOMAIN receive = {} /\ DOMAIN handed = {}
      /\ DOMAIN request = {} /\ armed = {}
  BY DEF Init
<1>2. ToSet(<<>>) = {} /\ IsInjective(<<>>) /\ \A x, y : ~ Precedes(<<>>, x, y)
  BY DEF ToSet, IsInjective, Precedes
<1>3. Places
  BY <1>1, LimitsAssumption DEF Places
<1>4. SenderInv
  <2>1. Cardinality({}) = 0
    BY FS_EmptySet
  <2>2. \A p \in Ports : OnPort(ticket, p) = {} /\ GrantedOn(ticket, p) = {}
    BY <1>1 DEF OnPort, GrantedOn
  <2>3. TicketsOk(ticket)
    BY <1>1 DEF TicketsOk
  <2>4. Lists(ticket, waiters)
    <3>1. \A p \in Ports : waiters[p] = <<>>
      BY <1>1
    <3>2. waiters \in [Ports -> Seq(Senders)]
      BY <1>1
    <3> QED
      BY <1>2, <2>2, <3>1, <3>2 DEF Lists
  <2>5. Counts(ticket, reserved)
    BY <1>1, <2>1, <2>2 DEF Counts
  <2>6. Turns(ticket, waiters)
    <3>1. \A p \in Ports : waiters[p] = <<>>
      BY <1>1
    <3> QED
      BY <1>2, <3>1 DEF Turns, InTurn
  <2>7. Booked(posted, ticket)
    <3>1. ASSUME NEW p \in Ports
          PROVE  posted[p] + Cardinality(OnPort(ticket, p)) <= MaxPosts
      <4>1. posted[p] = 0 /\ Cardinality(OnPort(ticket, p)) = 0 /\ MaxPosts \in Nat
        BY <1>1, <2>1, <2>2, LimitsAssumption
      <4> QED
        BY <4>1
    <3> QED
      BY <3>1 DEF Booked
  <2>8. Fills(ticket, reserved, Lens(queue), limit, live)
    BY <1>1 DEF Fills
  <2> QED
    BY <2>3, <2>4, <2>5, <2>6, <2>7, <2>8 DEF SenderInv, SendersOk
<1>5. NoticesOk(request, armed, live)
  BY <1>1 DEF NoticesOk
<1>6. ReceiverInv
  <2>1. SetsOk(members, order, queue, preposts)
    <3>1. \A s \in Sets : members[s] = {} /\ preposts[s] = <<>> /\ Members(order, s) = {}
      BY <1>1, <1>2 DEF Members
    <3>2. \A m : \A q : m = {} => Covers(m, q, <<>>)
      BY <1>2 DEF Covers
    <3>3. members \in [Sets -> SUBSET Ports]
      BY <1>1
    <3>4. preposts \in [Sets -> Seq(Ports)]
      BY <1>1
    <3>5. ASSUME NEW s \in Sets
          PROVE  members[s] = Members(order, s) /\ Covers(members[s], queue, preposts[s])
      BY <3>1, <3>2
    <3> QED
      BY <3>3, <3>4, <3>5 DEF SetsOk
  <2>2. OrderOk(order, receive)
    BY <1>1, <1>2 DEF OrderOk
  <2>3. ReceivesOk(receive, handed) /\ Quiet(receive, live, held, queue, preposts)
    BY <1>1 DEF ReceivesOk, Quiet
  <2> QED
    BY <2>1, <2>2, <2>3 DEF ReceiverInv
<1>7. DeliveriesOk(queue, posted, sequence, handed)
  <2>1. StoreOk(queue, posted, sequence)
    BY <1>1 DEF StoreOk
  <2>2. Numbered(queue, posted)
    <3>1. \A p \in Ports : queue[p] = <<>>
      BY <1>1
    <3> QED
      BY <1>2, <3>1 DEF Numbered
  <2> QED
    BY <1>1, <2>1, <2>2 DEF DeliveriesOk
<1> QED
  BY <1>3, <1>4, <1>5, <1>6, <1>7 DEF MqInv

LEMMA SenderKeeps ==
  ASSUME MqInv, NEW s \in Senders, SenderStep(s)
  PROVE  MqInv'
<1>1. CASE \E p \in Ports, big \in Sizes, due \in {"never", "later"}, notify \in BOOLEAN :
              BlockSend(s, p, big, due, notify)
  <2>1. PICK p \in Ports, big \in Sizes, due \in {"never", "later"}, notify \in BOOLEAN :
           BlockSend(s, p, big, due, notify)
    BY <1>1
  <2>2. big \in BOOLEAN /\ due \in Dues
    BY ObjectsAssumption DEF Dues
  <2> QED
    BY <2>1, <2>2, BlockSendKeeps
<1>2. CASE \E p \in Ports : SendTimesOutAtOnce(s, p)
  BY <1>2, SendTimesOutKeeps
<1>3. CASE CompleteSend(s)
  BY <1>3, CompleteSendKeeps
<1>4. CASE InterruptSend(s)
  BY <1>4, InterruptSendKeeps
<1>5. CASE TerminateSender(s)
  BY <1>5, TerminateSenderKeeps
<1>6. CASE ExpireSend(s)
  BY <1>6, ExpireSendKeeps
<1> QED
  BY <1>1, <1>2, <1>3, <1>4, <1>5, <1>6 DEF SenderStep

LEMMA PortKeeps ==
  ASSUME MqInv, NEW p \in Ports, PortStep(p)
  PROVE  MqInv'
<1>1. CASE \E big \in Sizes : SendAtOnce(p, big)
  BY <1>1, PlainPostKeeps, ObjectsAssumption DEF SendAtOnce
<1>2. CASE \E big \in Sizes : KernelSend(p, big)
  BY <1>2, PlainPostKeeps, ObjectsAssumption DEF KernelSend
<1>3. CASE \E v \in Limits : SetLimit(p, v)
  BY <1>3, SetLimitKeeps
<1>4. CASE MoveReceive(p)
  BY <1>4, MoveReceiveKeeps
<1>5. CASE ReturnReceive(p)
  BY <1>5, ReturnReceiveKeeps
<1>6. CASE DestroyPort(p)
  BY <1>6, DestroyPortKeeps
<1>7. CASE \E s \in Sets : InsertMember(s, p)
  BY <1>7, InsertMemberKeeps
<1>8. CASE \E s \in Sets : ExtractMember(s, p)
  BY <1>8, ExtractMemberKeeps
<1>9. CASE \E into \in {{}} \cup {{s} : s \in Sets} : MoveMember(p, into)
  <2>1. PICK into : MoveMember(p, into) /\ (into = {} \/ \E s \in Sets : into = {s})
    BY <1>9
  <2> QED
    BY <2>1, MoveMemberKeeps
<1>10. CASE VsyncPost(p)
  BY <1>10, PlainPostKeeps DEF VsyncPost
<1>11. CASE VsyncDiscard(p)
  BY <1>11, VsyncDiscardKeeps
<1> QED
  BY <1>1, <1>2, <1>3, <1>4, <1>5, <1>6, <1>7, <1>8, <1>9, <1>10, <1>11 DEF PortStep

\* The inductive invariant: the senders, notices, receivers and deliveries of
\* the ports (mach_send_wait_queue.hpp, mach_receive_wait_queue.hpp and
\* kernel_shared_state.hpp) agree with the queues in every state.
THEOREM QueuesInvariant == Spec => []MqInv
<1>1. Init => MqInv
  BY InitInv
<1>2. MqInv /\ [Next]_vars => MqInv'
  <2> SUFFICES ASSUME MqInv, [Next]_vars PROVE MqInv'
    OBVIOUS
  <2>1. CASE \E s \in Senders : SenderStep(s)
    BY <2>1, SenderKeeps
  <2>2. CASE \E r \in Receivers : ReceiverStep(r)
    BY <2>2, ReceiverStepKeeps
  <2>3. CASE \E p \in Ports : PortStep(p)
    BY <2>3, PortKeeps
  <2>4. CASE \E n \in Names : NoticeStep(n)
    BY <2>4, NoticeStepKeeps
  <2>5. CASE \E o \in Objects, buffer \in Buffers : KeventReceive(o, buffer)
    BY <2>5, KeventReceiveKeeps
  <2>6. CASE \E s \in Sets : DestroySet(s)
    BY <2>6, DestroySetKeeps
  <2>7. CASE UNCHANGED vars
    BY <2>7 DEF vars, topology, store, sending, receiving, notices, MqInv, Places, SenderInv,
                ReceiverInv
  <2> QED
    BY <2>1, <2>2, <2>3, <2>4, <2>5, <2>6, <2>7 DEF Next
<1> QED
  BY <1>1, <1>2, PTL DEF Spec

-----------------------------------------------------------------------------
(* What the invariant says of the runs' properties.                        *)
LEMMA InvTyped == MqInv => TypeOK
<1> SUFFICES ASSUME MqInv PROVE TypeOK
  OBVIOUS
<1>1. live \subseteq Objects /\ held \subseteq live /\ limit \in [Ports -> Limits]
  BY DEF MqInv, Places
<1>2. /\ queue \in [Ports -> Seq(Messages)] /\ sequence \in [Ports -> Nat]
      /\ posted \in [Ports -> Nat]
  BY DEF MqInv, DeliveriesOk, StoreOk
<1>3. posted \in [Ports -> 0 .. MaxPosts]
  <2>1. ASSUME NEW p \in Ports PROVE posted[p] \in 0 .. MaxPosts
    <3>1. TicketsOk(ticket)
      BY DEF MqInv, SenderInv, SendersOk
    <3>2. Cardinality(OnPort(ticket, p)) \in Nat
      BY <3>1, TicketSets
    <3>3. posted[p] + Cardinality(OnPort(ticket, p)) <= MaxPosts
      BY DEF MqInv, SenderInv, Booked
    <3>4. posted[p] \in Nat /\ MaxPosts \in Nat
      BY <1>2, LimitsAssumption
    <3> QED
      BY <3>2, <3>3, <3>4
  <2> QED
    BY <1>2, <2>1
<1>4. members \in [Sets -> SUBSET Ports] /\ preposts \in [Sets -> Seq(Ports)]
  BY DEF MqInv, ReceiverInv, SetsOk, Covers
<1>5. \A i \in DOMAIN order : order[i] \in DOMAIN receive \/ order[i] \in Links
  BY DEF MqInv, ReceiverInv, OrderOk, ToSet
<1>6. /\ DOMAIN ticket \subseteq Senders
      /\ \A s \in DOMAIN ticket : ticket[s] \in Tickets
      /\ waiters \in [Ports -> Seq(Senders)]
      /\ reserved \in [Ports -> Nat]
  BY DEF MqInv, SenderInv, SendersOk, TicketsOk, Lists, Counts
<1>7. /\ DOMAIN receive \subseteq Receivers
      /\ \A r \in DOMAIN receive : receive[r] \in Receives
      /\ DOMAIN handed = {r \in DOMAIN receive : receive[r].state = "MessageReady"}
  BY DEF MqInv, ReceiverInv, ReceivesOk
<1>8. \A r \in DOMAIN handed : handed[r] \in Deliveries
  BY DEF MqInv, DeliveriesOk, HandedFirst
<1>9. /\ DOMAIN request \subseteq Names
      /\ \A n \in DOMAIN request : request[n] \in BOOLEAN
      /\ armed \subseteq Ports
  BY DEF MqInv, NoticesOk
<1> QED
  BY <1>1, <1>2, <1>3, <1>4, <1>5, <1>6, <1>7, <1>8, <1>9 DEF TypeOK

LEMMA InvReserved == MqInv => ReservationsAgree
BY DEF MqInv, SenderInv, SendersOk, Counts, GrantedOn, ReservationsAgree

LEMMA InvInOrder == MqInv => GrantedInOrder
<1> SUFFICES ASSUME MqInv, NEW p \in Ports, NEW i \in DOMAIN waiters[p],
                    NEW j \in DOMAIN waiters[p], i < j,
                    ticket[waiters[p][j]].state = "Granted"
             PROVE  ~ Grantable(ticket, waiters[p][i])
  BY DEF GrantedInOrder
<1>1. Precedes(waiters[p], waiters[p][i], waiters[p][j])
  BY DEF Precedes
<1>2. InTurn(ticket, waiters[p])
  BY DEF MqInv, SenderInv, SendersOk, Turns
<1> QED
  BY <1>1, <1>2 DEF InTurn

\* A port that no display registration posts to has no room while a sender
\* that could still be granted a slot waits for it.
RoomIsTaken ==
    \A s \in DOMAIN ticket :
        Grantable(ticket, s) /\ ticket[s].port \in live \ VsyncPorts
            => Depth(ticket[s].port) >= limit[ticket[s].port]

LEMMA InvRoom == MqInv => RoomIsTaken
<1> SUFFICES ASSUME MqInv, NEW s \in DOMAIN ticket, Grantable(ticket, s),
                    ticket[s].port \in live \ VsyncPorts
             PROVE  Depth(ticket[s].port) >= limit[ticket[s].port]
  BY DEF RoomIsTaken
<1>1. TicketsOk(ticket) /\ Counts(ticket, reserved)
  BY DEF MqInv, SenderInv, SendersOk
<1>2. ticket[s].port \in Ports
  BY <1>1 DEF TicketsOk, Tickets
<1>3. PICK p \in Ports : p = ticket[s].port
  BY <1>2
<1>4. limit[p] <= Lens(queue)[p] + reserved[p]
  BY <1>3 DEF MqInv, SenderInv, Fills
<1>5. Lens(queue)[p] = Len(queue[p]) /\ Len(queue[p]) \in Nat
  BY QueueLens DEF MqInv, DeliveriesOk, StoreOk
<1>6. limit[p] \in Nat /\ reserved[p] \in Nat
  BY <1>1, LimitsAre DEF MqInv, Counts
<1> QED
  BY <1>3, <1>4, <1>5, <1>6 DEF Depth

LEMMA InvListed == MqInv => ArmedListed
BY DEF MqInv, NoticesOk, ArmedListed

LEMMA InvNoMissed == MqInv => NoMissedReceive
<1> SUFFICES ASSUME MqInv, NEW r \in DOMAIN receive, receive[r].seen
             PROVE  /\ receive[r].state = "Waiting"
                    /\ Usable(receive[r])
                    /\ Chosen(receive, order, r) = {}
  BY DEF NoMissedReceive
<1>1. /\ receive[r].state = "Waiting" /\ receive[r].object \in live \cap held
      /\ Silent(receive[r].object, queue, preposts)
  BY DEF MqInv, ReceiverInv, Quiet
<1>2. receive[r].object \in Objects
  BY DEF MqInv, ReceiverInv, ReceivesOk, Receives
<1>3. Nonempty(receive[r].object) = {}
  BY <1>1, <1>2, NonemptyIs
<1> QED
  BY <1>1, <1>3 DEF Usable, Chosen

LEMMA InvCovers == MqInv => PrepostsCover
<1> SUFFICES ASSUME MqInv, NEW s \in Sets
             PROVE  /\ members[s] = {p \in Ports : s \in Linked(p)}
                    /\ ToSet(preposts[s]) \subseteq members[s]
                    /\ \A p \in members[s] : queue[p] # <<>> => p \in ToSet(preposts[s])
                    /\ \A i, j \in DOMAIN preposts[s] :
                           preposts[s][i] = preposts[s][j] => i = j
  BY DEF PrepostsCover
<1>1. members[s] = Members(order, s) /\ Covers(members[s], queue, preposts[s])
  BY DEF MqInv, ReceiverInv, SetsOk
<1>2. members[s] = {p \in Ports : s \in Linked(p)}
  BY <1>1 DEF Members, Linked
<1> QED
  BY <1>1, <1>2 DEF Covers, IsInjective

LEMMA InvReceiveOrder == MqInv => ReceiveOrder
<1> SUFFICES ASSUME MqInv PROVE ReceiveOrder
  OBVIOUS
<1>1. /\ Numbered(queue, posted)
      /\ \A r \in DOMAIN handed : HandedFirst(queue, posted, sequence, handed[r])
      /\ \A r, x \in DOMAIN handed : Agree(handed[r], handed[x])
  BY DEF MqInv, DeliveriesOk
<1>2. ASSUME NEW p \in Ports, NEW i \in DOMAIN queue[p], NEW j \in DOMAIN queue[p], i < j
      PROVE  queue[p][i].number < queue[p][j].number
  <2>1. Precedes(queue[p], queue[p][i], queue[p][j])
    BY <1>2 DEF Precedes
  <2> QED
    BY <1>1, <2>1 DEF Numbered
<1>3. ASSUME NEW r \in DOMAIN handed
      PROVE  /\ \A m \in ToSet(queue[handed[r].port]) : handed[r].number < m.number
             /\ ~ handed[r].moved => handed[r].sequence < sequence[handed[r].port]
  BY <1>1 DEF HandedFirst
<1>4. ASSUME NEW r \in DOMAIN handed, NEW x \in DOMAIN handed,
             handed[r].port = handed[x].port, ~ handed[r].moved, ~ handed[x].moved,
             handed[r].number < handed[x].number
      PROVE  handed[r].sequence < handed[x].sequence
  BY <1>1, <1>4 DEF Agree
<1> QED
  BY <1>2, <1>3, <1>4 DEF ReceiveOrder

-----------------------------------------------------------------------------
\* The types of the state: every operation on mach_queues, the wait queues, the
\* port sets and the send-possible requests leaves values of their types, the
\* handed messages belong to the MessageReady tickets, and no port takes more
\* messages than the bound.
THEOREM QueuesTyped == Spec => []TypeOK
BY QueuesInvariant, InvTyped, PTL

\* MachSendWaitQueue::Queue::reserved is the number of granted tickets.
THEOREM ReservationsCounted == Spec => []ReservationsAgree
BY QueuesInvariant, InvReserved, PTL

\* MachSendWaitQueue::grant gives slots in the order of the tickets.
THEOREM SlotsInTurn == Spec => []GrantedInOrder
BY QueuesInvariant, InvInOrder, PTL

\* note_mach_message_dequeued_locked and every other operation that frees room
\* grants it, on all ports but those of display registrations, whose superseded
\* frames leave the queue without a grant.
THEOREM FreedRoomIsGranted == Spec => []RoomIsTaken
BY QueuesInvariant, InvRoom, PTL

\* Without display registrations no sender sleeps on a port with room.
THEOREM SendersAreServed ==
  ASSUME VsyncPorts = {}
  PROVE  Spec => []NoStrandedSender
<1>1. RoomIsTaken => NoStrandedSender
  BY DEF RoomIsTaken, NoStrandedSender
<1> QED
  BY <1>1, FreedRoomIsGranted, PTL

\* mach_send_possible_armed_destinations lists every port with an armed name, so
\* notify_send_possible_locked does not pass over one.
THEOREM NoticesAreListed == Spec => []ArmedListed
BY QueuesInvariant, InvListed, PTL

\* The generation that mach_receive_poll_required_locked compares has advanced
\* whenever a blocked receive has something to do.
THEOREM NoReceiveIsMissed == Spec => []NoMissedReceive
BY QueuesInvariant, InvNoMissed, PTL

\* mach_port_set_preposts covers the ready members of every set, and the sets
\* agree with the links of their members.
THEOREM ReadyListsCover == Spec => []PrepostsCover
BY QueuesInvariant, InvCovers, PTL

\* handoff_mach_message_locked hands over a message only past an empty queue, so
\* that messages and their sequence numbers keep the order of posting.
THEOREM MessagesInOrder == Spec => []ReceiveOrder
BY QueuesInvariant, InvReceiveOrder, PTL

-----------------------------------------------------------------------------
(* What a step never does: take back an outcome.  The ticket of a blocked  *)
(* sender that has left "Waiting" stays as it is, unless its port is       *)
(* destroyed under a promised slot; a blocked receive that has an outcome  *)
(* keeps it, and the message it was handed.                                *)
SendOutcome ==
    \A s \in DOMAIN ticket \cap DOMAIN ticket' :
        ticket[s].state # "Waiting" =>
            \/ ticket'[s].state = ticket[s].state
            \/ /\ ticket[s].state = "Granted" /\ ticket'[s].state = "Destroyed"
               /\ ticket[s].port \in live \ live'
KeepsState(rc, V) ==
    \A r \in DOMAIN rc \cap DOMAIN V : rc[r].state # "Waiting" => V[r].state = rc[r].state
KeepsMessages(hd, V, H) ==
    \A r \in DOMAIN hd \cap DOMAIN V :
        r \in DOMAIN H /\ H[r].port = hd[r].port /\ H[r].number = hd[r].number
ReceiveOutcome == KeepsState(receive, receive') /\ KeepsMessages(handed, receive', handed')
OutcomesFinal == [][SendOutcome /\ ReceiveOutcome]_vars

\* What is left of the tickets after some have ended.
Remains(tk) == \A s \in DOMAIN tk : s \in DOMAIN ticket => tk[s] = ticket[s]

LEMMA SettleOutcome ==
  ASSUME NEW p, NEW len, NEW lim, NEW n, NEW tk, NEW wq, NEW rs, NEW rc,
         Settle(p, len, lim, n, tk, wq, rs, rc), Remains(tk)
  PROVE  SendOutcome /\ (receive' = rc \/ receive' = Unseen(rc, {p}))
<1>1. ticket' = Grant(tk, wq[p], n) /\ (receive' = rc \/ receive' = Unseen(rc, {p}))
  BY DEF Settle
<1>2. DOMAIN ticket' = DOMAIN tk
  BY <1>1 DEF Grant
<1>3. ASSUME NEW s \in DOMAIN ticket \cap DOMAIN ticket', ticket[s].state # "Waiting"
      PROVE  ticket'[s].state = ticket[s].state
  <2>1. s \in DOMAIN tk /\ tk[s] = ticket[s]
    BY <1>2 DEF Remains
  <2>2. Grant(tk, wq[p], n)[s] = tk[s]
    BY <1>3, <2>1 DEF Grant
  <2> QED
    BY <1>1, <2>1, <2>2
<1> QED
  BY <1>1, <1>3 DEF SendOutcome

LEMMA RemainsOutcome ==
  ASSUME Remains(ticket')
  PROVE  SendOutcome
BY DEF Remains, SendOutcome

\* Receives that poll again keep their outcomes.
LEMMA UnseenState ==
  ASSUME NEW rc, \A r \in DOMAIN rc : rc[r] \in Receives, NEW O, NEW V,
         V = rc \/ V = Unseen(rc, O)
  PROVE  /\ DOMAIN V = DOMAIN rc /\ \A r \in DOMAIN rc : V[r].state = rc[r].state
         /\ \A r \in DOMAIN rc : V[r] \in Receives
<1>1. Wakened(rc, Unseen(rc, O), O)
  BY UnseenIs
<1> QED
  BY <1>1 DEF Wakened

LEMMA PostOutcome ==
  ASSUME MqInv, NEW p \in Ports, NEW big \in BOOLEAN, NEW vsync \in BOOLEAN,
         NEW tk, NEW wq, NEW rs, Post(p, big, vsync, tk, wq, rs), Remains(tk)
  PROVE  SendOutcome /\ ReceiveOutcome
<1> DEFINE m == [number |-> posted[p], big |-> big, vsync |-> vsync]
           taker == Earliest(receive, order, p, Takers(p, m))
           d == [port |-> p, number |-> posted[p], sequence |-> sequence[p], moved |-> FALSE]
<1>1. /\ OrderOk(order, receive) /\ ReceivesOk(receive, handed)
      /\ posted[p] \in Nat
      /\ \A r \in DOMAIN receive : receive[r] \in Receives
  BY DEF MqInv, ReceiverInv, DeliveriesOk, StoreOk, ReceivesOk
<1>2. m \in Messages
  BY <1>1 DEF Messages
<1>3. ASSUME NEW T \in SUBSET Takers(p, m), NEW O, NEW V,
             V = AfterPost(p, m, T) \/ V = Unseen(AfterPost(p, m, T), O)
      PROVE  /\ KeepsState(receive, V) /\ DOMAIN V = DOMAIN receive
             /\ \A r \in DOMAIN V : V[r] \in Receives
  <2> DEFINE W == AfterPost(p, m, T)
  <2>1. DOMAIN W = DOMAIN receive /\ \A r \in DOMAIN receive : W[r] \in Receives
    <3> HIDE DEF m
    <3> QED
      BY <1>1, <1>2, AfterPostIs
  <2>2. ASSUME NEW r \in DOMAIN receive, receive[r].state # "Waiting"
        PROVE  W[r] = receive[r]
    <3>1. r \notin PassedOver(p, m) /\ r \notin T
      BY <2>2 DEF PassedOver, Takers, Waiting
    <3> QED
      BY <3>1 DEF AfterPost
  <2> HIDE DEF W, m
  <2>3. DOMAIN V = DOMAIN W /\ \A r \in DOMAIN W : V[r].state = W[r].state /\ V[r] \in Receives
    <3>1. V = W \/ V = Unseen(W, O)
      BY <1>3 DEF W
    <3> QED
      BY <2>1, <3>1, UnseenState
  <2> QED
    BY <2>1, <2>2, <2>3 DEF KeepsState
<1>4. CASE HandsOff(p, m)
  <2>1. /\ handed' = With(handed, taker, d)
        /\ Settle(p, Len(queue[p]), limit[p], DequeueSlots(p, Len(queue[p]) + rs[p]), tk, wq, rs,
                  Unseen(AfterPost(p, m, {taker}), PostWakes(p)))
    BY <1>4 DEF Post, NoteDequeued
  <2>2. taker \in Takers(p, m)
    <3>1. Takers(p, m) \in SUBSET Waiting(receive, p) /\ Takers(p, m) # {}
      BY <1>4 DEF Takers, HandsOff
    <3> HIDE DEF m
    <3> QED
      BY <1>1, <3>1, EarliestIs
  <2>3. taker \notin DOMAIN handed
    BY <1>1, <2>2 DEF Takers, Waiting, ReceivesOk
  <2>4. \A r \in DOMAIN handed : r \in DOMAIN handed' /\ handed'[r] = handed[r]
    BY <2>1, <2>3 DEF With
  <2> DEFINE rc == Unseen(AfterPost(p, m, {taker}), PostWakes(p))
  <2>5. SendOutcome /\ (receive' = rc \/ receive' = Unseen(rc, {p}))
    <3> HIDE DEF rc
    <3> QED
      BY <2>1, SettleOutcome DEF rc
  <2>6. /\ KeepsState(receive, rc) /\ DOMAIN rc = DOMAIN receive
        /\ \A r \in DOMAIN rc : rc[r] \in Receives
    <3>1. {taker} \in SUBSET Takers(p, m)
      BY <2>2
    <3> HIDE DEF m, taker
    <3> QED
      BY <1>3, <3>1
  <2> HIDE DEF rc, taker, m
  <2>7. DOMAIN receive' = DOMAIN rc /\ \A r \in DOMAIN rc : receive'[r].state = rc[r].state
    BY <2>5, <2>6, UnseenState
  <2>8. KeepsState(receive, receive')
    BY <2>6, <2>7 DEF KeepsState
  <2> QED
    BY <2>4, <2>5, <2>8 DEF ReceiveOutcome, KeepsMessages
<1>5. CASE ~ HandsOff(p, m)
  <2>1. /\ receive' = Unseen(AfterPost(p, m, {}), PostWakes(p))
        /\ ticket' = tk /\ handed' = handed
    BY <1>5 DEF Post
  <2>2. KeepsState(receive, receive')
    <3>1. {} \in SUBSET Takers(p, m)
      OBVIOUS
    <3> HIDE DEF m
    <3> QED
      BY <1>3, <2>1, <3>1
  <2> QED
    BY <2>1, <2>2, RemainsOutcome DEF ReceiveOutcome, KeepsMessages
<1> QED
  BY <1>4, <1>5

\* Receives rc are those that wait, or one more that begins.
Goes(rc) ==
    /\ \A r \in DOMAIN rc : rc[r] \in Receives
    /\ \A r \in DOMAIN rc \cap DOMAIN receive : rc[r] = receive[r]

\* A step that leaves tickets and handed messages alone.
LEMMA QuietOutcome ==
  ASSUME UNCHANGED <<ticket, handed>>, KeepsState(receive, receive')
  PROVE  SendOutcome /\ ReceiveOutcome
BY DEF SendOutcome, ReceiveOutcome, KeepsMessages

LEMMA TakeOutcome ==
  ASSUME NEW rc, Goes(rc), NEW ord, NEW o, NEW buffer, NEW p, Take(rc, ord, o, buffer, p)
  PROVE  SendOutcome /\ ReceiveOutcome
<1>1. handed' = handed
  BY DEF Take
<1>2. SendOutcome /\ (receive' = rc \/ receive' = Unseen(rc, {p}))
  <2> DEFINE pp == IF p = o THEN preposts ELSE Rotated(o, p)
  <2>1. CASE ReportSize(rc, pp)
    BY <2>1, RemainsOutcome DEF ReportSize, sending, Remains
  <2>2. CASE TakeFront(p, rc, pp)
    <3>1. PICK len, n : Settle(p, len, limit[p], n, ticket, waiters, reserved, rc)
      BY <2>2 DEF TakeFront, NoteDequeued
    <3> QED
      BY <3>1, SettleOutcome DEF Remains
  <2>3. CASE FailCopyout(p, rc, pp)
    BY <2>3, RemainsOutcome DEF FailCopyout, sending, Remains
  <2> QED
    BY <2>1, <2>2, <2>3 DEF Take
<1>3. DOMAIN receive' = DOMAIN rc /\ \A r \in DOMAIN rc : receive'[r].state = rc[r].state
  BY <1>2, UnseenState DEF Goes
<1>4. KeepsState(receive, receive')
  BY <1>3 DEF KeepsState, Goes
<1> QED
  BY <1>1, <1>2, <1>4 DEF ReceiveOutcome, KeepsMessages

LEMMA EndOutcome ==
  ASSUME NEW rc, Goes(rc), NEW ord, NEW r, EndReceive(rc, ord, r)
  PROVE  SendOutcome /\ ReceiveOutcome
<1>1. ticket' = ticket /\ receive' = Without(rc, {r}) /\ handed' = Without(handed, {r})
  BY DEF EndReceive, sending
<1>2. KeepsState(receive, receive') /\ KeepsMessages(handed, receive', handed')
  BY <1>1 DEF Without, KeepsState, KeepsMessages, Goes
<1> QED
  BY <1>1, <1>2 DEF SendOutcome, ReceiveOutcome

LEMMA AttemptOutcome ==
  ASSUME NEW rc, Goes(rc), NEW ord, NEW r \in DOMAIN rc, Attempt(rc, ord, r)
  PROVE  SendOutcome /\ ReceiveOutcome
<1>1. CASE \E o, buffer, p, ort : Take(Without(rc, {r}), ort, o, buffer, p)
  <2>1. Goes(Without(rc, {r}))
    BY DEF Goes, Without
  <2> QED
    BY <1>1, <2>1, TakeOutcome
<1>2. CASE EndReceive(rc, ord, r)
  BY <1>2, EndOutcome
<1>3. CASE /\ \E seen \in BOOLEAN : receive' = [rc EXCEPT ![r].seen = seen]
           /\ UNCHANGED <<ticket, handed>>
  <2>1. PICK seen \in BOOLEAN : receive' = [rc EXCEPT ![r].seen = seen]
    BY <1>3
  <2>2. DOMAIN receive' = DOMAIN rc
    BY <2>1
  <2>3. \A x \in DOMAIN rc : receive'[x].state = rc[x].state
    <3>1. ASSUME NEW x \in DOMAIN rc PROVE receive'[x].state = rc[x].state
      <4>1. rc[x] \in Receives
        BY DEF Goes
      <4>2. receive'[x] = IF x = r THEN [rc[x] EXCEPT !.seen = seen] ELSE rc[x]
        BY <2>1
      <4> QED
        BY <4>1, <4>2 DEF Receives
    <3> QED
      BY <3>1
  <2>4. KeepsState(receive, receive')
    BY <2>2, <2>3 DEF KeepsState, Goes
  <2> QED
    BY <1>3, <2>4, QuietOutcome
<1> QED
  BY <1>1, <1>2, <1>3 DEF Attempt, sending

LEMMA ReceiverOutcome ==
  ASSUME MqInv, NEW r \in Receivers, ReceiverStep(r)
  PROVE  SendOutcome /\ ReceiveOutcome
<1>1. \A x \in DOMAIN receive : receive[x] \in Receives
  BY DEF MqInv, ReceiverInv, ReceivesOk
<1>2. Goes(receive)
  BY <1>1 DEF Goes
<1>3. CASE \E o \in Objects, buffer \in Buffers, due \in Dues : BeginReceive(r, o, buffer, due)
  <2>1. PICK o \in Objects, buffer \in Buffers, due \in Dues : BeginReceive(r, o, buffer, due)
    BY <1>3
  <2> DEFINE rec == [object |-> o, buffer |-> buffer, due |-> due, seen |-> FALSE,
                     state |-> "Waiting"]
             rc == With(receive, r, rec)
  <2>2. r \notin DOMAIN receive /\ Attempt(rc, Append(order, r), r)
    BY <2>1 DEF BeginReceive
  <2>3. rec \in Receives
    BY DEF Receives, ReceiveStates
  <2>4. Goes(rc) /\ r \in DOMAIN rc
    <3> HIDE DEF rec
    <3> QED
      BY <1>1, <2>2, <2>3 DEF Goes, With
  <2> HIDE DEF rc
  <2> QED
    BY <2>2, <2>4, AttemptOutcome
<1>4. CASE PollReceive(r)
  BY <1>2, <1>4, AttemptOutcome DEF PollReceive, PollRequired
<1>5. CASE AbandonReceive(r)
  BY <1>2, <1>5, EndOutcome DEF AbandonReceive
<1>6. CASE ExpireReceive(r)
  <2>1. receive' = [receive EXCEPT ![r].due = "passed"] /\ UNCHANGED <<ticket, handed>>
    BY <1>6 DEF ExpireReceive, sending
  <2>2. ASSUME NEW x \in DOMAIN receive PROVE receive'[x].state = receive[x].state
    <3>1. receive'[x] = IF x = r THEN [receive[x] EXCEPT !.due = "passed"] ELSE receive[x]
      BY <2>1
    <3> QED
      BY <1>1, <3>1 DEF Receives
  <2>3. KeepsState(receive, receive')
    BY <2>1, <2>2 DEF KeepsState
  <2> QED
    BY <2>1, <2>3, QuietOutcome
<1> QED
  BY <1>3, <1>4, <1>5, <1>6 DEF ReceiverStep

LEMMA SenderOutcome ==
  ASSUME MqInv, NEW s \in Senders, SenderStep(s)
  PROVE  SendOutcome /\ ReceiveOutcome
<1>1. /\ \A x \in DOMAIN ticket : ticket[x] \in Tickets /\ ticket[x].port \in Ports
      /\ \A x \in DOMAIN receive : receive[x] \in Receives
  BY Basics DEF MqInv, ReceiverInv, ReceivesOk
<1>2. KeepsState(receive, receive)
  BY DEF KeepsState
<1>3. Remains(Without(ticket, {s}))
  BY DEF Remains, Without
<1>4. CASE \E p \in Ports, big \in Sizes, due \in {"never", "later"}, notify \in BOOLEAN :
              BlockSend(s, p, big, due, notify)
  <2>1. PICK t : ticket' = With(ticket, s, t) /\ s \notin DOMAIN ticket
                 /\ UNCHANGED <<receive, handed>>
    BY <1>4 DEF BlockSend, receiving
  <2> QED
    BY <2>1 DEF With, SendOutcome, ReceiveOutcome, KeepsState, KeepsMessages
<1>5. CASE \E p \in Ports : SendTimesOutAtOnce(s, p)
  BY <1>2, <1>5, QuietOutcome DEF SendTimesOutAtOnce, sending, receiving
<1>6. CASE CompleteSend(s)
  <2>1. s \in DOMAIN ticket /\ ticket[s].port \in Ports /\ ticket[s].big \in BOOLEAN
    BY <1>1, <1>6 DEF CompleteSend, Tickets
  <2>2. CASE \E wq, rs : Post(ticket[s].port, ticket[s].big, FALSE, Without(ticket, {s}), wq, rs)
    BY <1>3, <2>1, <2>2, PostOutcome
  <2>3. CASE ticket' = Without(ticket, {s}) /\ UNCHANGED <<receive, handed>>
    BY <1>3, <2>3, RemainsOutcome DEF ReceiveOutcome, KeepsState, KeepsMessages
  <2> QED
    BY <1>6, <2>2, <2>3 DEF CompleteSend, receiving
<1>7. CASE InterruptSend(s)
  <2>1. /\ ticket' = [ticket EXCEPT ![s].state = "Interrupted"] /\ ticket[s].state = "Waiting"
        /\ UNCHANGED <<receive, handed>>
    BY <1>7 DEF InterruptSend, Ready, receiving
  <2>2. \A x \in DOMAIN ticket : ticket[x].state # "Waiting" => ticket'[x] = ticket[x]
    BY <2>1
  <2> QED
    BY <2>1, <2>2 DEF SendOutcome, ReceiveOutcome, KeepsState, KeepsMessages
<1>8. CASE TerminateSender(s)
  <2>1. /\ \E p, len, n, wq, rs : Settle(p, len, limit[p], n, Without(ticket, {s}), wq, rs, receive)
        /\ handed' = handed
    BY <1>8 DEF TerminateSender
  <2>2. PICK p : SendOutcome /\ (receive' = receive \/ receive' = Unseen(receive, {p}))
    BY <1>3, <2>1, SettleOutcome
  <2>3. KeepsState(receive, receive')
    BY <1>1, <2>2, UnseenState DEF KeepsState
  <2> QED
    BY <2>1, <2>2, <2>3 DEF ReceiveOutcome, KeepsMessages
<1>9. CASE ExpireSend(s)
  <2>1. ticket' = [ticket EXCEPT ![s].due = "passed"] /\ UNCHANGED <<receive, handed>>
    BY <1>9 DEF ExpireSend, receiving
  <2>2. ASSUME NEW x \in DOMAIN ticket PROVE ticket'[x].state = ticket[x].state
    <3>1. ticket'[x] = IF x = s THEN [ticket[x] EXCEPT !.due = "passed"] ELSE ticket[x]
      BY <2>1
    <3> QED
      BY <1>1, <3>1 DEF Tickets
  <2> QED
    BY <2>1, <2>2 DEF SendOutcome, ReceiveOutcome, KeepsState, KeepsMessages
<1> QED
  BY <1>4, <1>5, <1>6, <1>7, <1>8, <1>9 DEF SenderStep

LEMMA PortOutcome ==
  ASSUME MqInv, NEW p \in Ports, PortStep(p)
  PROVE  SendOutcome /\ ReceiveOutcome
<1>1. /\ \A x \in DOMAIN ticket : ticket[x] \in Tickets
      /\ \A x \in DOMAIN receive : receive[x] \in Receives
      /\ \A x \in DOMAIN handed : handed[x] \in Deliveries
  BY Basics DEF MqInv, ReceiverInv, ReceivesOk, DeliveriesOk, HandedFirst
<1>2. KeepsState(receive, receive) /\ \A O : KeepsState(receive, Unseen(receive, O))
  BY <1>1, UnseenState DEF KeepsState
<1>3. ASSUME NEW O, receive' = Unseen(receive, O), UNCHANGED <<ticket, handed>>
      PROVE  SendOutcome /\ ReceiveOutcome
  BY <1>2, <1>3, QuietOutcome
<1>4. CASE \E big \in BOOLEAN, vsync \in BOOLEAN : Post(p, big, vsync, ticket, waiters, reserved)
  BY <1>4, PostOutcome DEF Remains
<1>5. CASE \E v \in Limits : SetLimit(p, v)
  <2>1. /\ \E len, lim, n, wq, rs : Settle(p, len, lim, n, ticket, wq, rs, receive)
        /\ handed' = handed
    BY <1>5 DEF SetLimit
  <2>2. SendOutcome /\ (receive' = receive \/ receive' = Unseen(receive, {p}))
    BY <2>1, SettleOutcome DEF Remains
  <2> QED
    BY <1>2, <2>1, <2>2 DEF ReceiveOutcome, KeepsMessages
<1>6. CASE MoveReceive(p)
  <2>1. /\ ticket' = ticket /\ receive' = Unseen(receive, {p} \cup Linked(p))
        /\ handed' = [r \in DOMAIN handed |->
                         [handed[r] EXCEPT !.moved = @ \/ handed[r].port = p]]
    BY <1>6 DEF MoveReceive, sending
  <2>2. ASSUME NEW r \in DOMAIN handed
        PROVE  handed'[r].port = handed[r].port /\ handed'[r].number = handed[r].number
    BY <1>1, <2>1 DEF Deliveries
  <2> QED
    BY <1>2, <2>1, <2>2 DEF SendOutcome, ReceiveOutcome, KeepsMessages
<1>7. CASE ReturnReceive(p)
  BY <1>3, <1>7 DEF ReturnReceive, sending
<1>8. CASE DestroyPort(p)
  <2>1. /\ ticket' = DestroyedTickets(p) /\ live' = live \ {p} /\ p \in live /\ handed' = handed
        /\ receive' = Unseen(receive, {p} \cup Linked(p))
    BY <1>8 DEF DestroyPort
  <2>2. DOMAIN ticket' = DOMAIN ticket
    BY <2>1 DEF DestroyedTickets
  <2>3. ASSUME NEW s \in DOMAIN ticket, ticket[s].state # "Waiting"
        PROVE  \/ ticket'[s].state = ticket[s].state
               \/ /\ ticket[s].state = "Granted" /\ ticket'[s].state = "Destroyed"
                  /\ ticket[s].port = p
    <3>1. ticket[s] \in Tickets
      BY <1>1
    <3>2. CASE ticket[s].port # p \/ ticket[s].state \notin {"Waiting", "Granted"}
      BY <2>1, <3>2 DEF DestroyedTickets
    <3>3. CASE ~ (ticket[s].port # p \/ ticket[s].state \notin {"Waiting", "Granted"})
      <4>1. ticket'[s] = [ticket[s] EXCEPT
                             !.state = IF @ = "Waiting" /\ ticket[s].due = "passed"
                                       THEN "TimedOut" ELSE "Destroyed"]
        BY <2>1, <3>3 DEF DestroyedTickets
      <4> QED
        BY <2>3, <3>1, <3>3, <4>1 DEF Tickets
    <3> QED
      BY <3>2, <3>3
  <2> QED
    BY <1>2, <2>1, <2>2, <2>3 DEF SendOutcome, ReceiveOutcome, KeepsMessages
<1>9. CASE \E s \in Sets : InsertMember(s, p)
  BY <1>3, <1>9 DEF InsertMember, sending
<1>10. CASE \E s \in Sets : ExtractMember(s, p)
  BY <1>3, <1>10 DEF ExtractMember, sending
<1>11. CASE \E into : MoveMember(p, into)
  BY <1>3, <1>11 DEF MoveMember, sending
<1>12. CASE VsyncDiscard(p)
  BY <1>3, <1>12 DEF VsyncDiscard, sending
<1>13. ASSUME VsyncPost(p) \/ (\E big \in Sizes : SendAtOnce(p, big) \/ KernelSend(p, big))
       PROVE  \E big \in BOOLEAN, vsync \in BOOLEAN :
                  Post(p, big, vsync, ticket, waiters, reserved)
  BY <1>13, ObjectsAssumption DEF VsyncPost, SendAtOnce, KernelSend
<1> QED
  BY <1>4, <1>5, <1>6, <1>7, <1>8, <1>9, <1>10, <1>11, <1>12, <1>13 DEF PortStep

\* A signal, a deadline, a new limit or another thread takes no promised slot and
\* no handed message back (MachSendWaitQueue::grant and destroy,
\* interrupt_thread_wait, handoff_mach_message_locked).
THEOREM OutcomesAreFinal == Spec => OutcomesFinal
<1>1. MqInv /\ [Next]_vars => [SendOutcome /\ ReceiveOutcome]_vars
  <2> SUFFICES ASSUME MqInv, Next PROVE SendOutcome /\ ReceiveOutcome
    OBVIOUS
  <2>1. \A x \in DOMAIN receive : receive[x] \in Receives
    BY DEF MqInv, ReceiverInv, ReceivesOk
  <2>2. CASE \E s \in Senders : SenderStep(s)
    BY <2>2, SenderOutcome
  <2>3. CASE \E r \in Receivers : ReceiverStep(r)
    BY <2>3, ReceiverOutcome
  <2>4. CASE \E p \in Ports : PortStep(p)
    BY <2>4, PortOutcome
  <2>5. CASE \E n \in Names : NoticeStep(n)
    BY <2>5, QuietOutcome
       DEF NoticeStep, Register, CancelRequest, sending, receiving, KeepsState
  <2>6. CASE \E o \in Objects, buffer \in Buffers : KeventReceive(o, buffer)
    <3>1. Goes(receive)
      BY <2>1 DEF Goes
    <3> QED
      BY <2>6, <3>1, TakeOutcome DEF KeventReceive
  <2>7. CASE \E s \in Sets : DestroySet(s)
    <3>1. PICK O : receive' = Unseen(receive, O) /\ UNCHANGED <<ticket, handed>>
      BY <2>7 DEF DestroySet, sending
    <3>2. KeepsState(receive, receive')
      BY <2>1, <3>1, UnseenState DEF KeepsState
    <3> QED
      BY <3>1, <3>2, QuietOutcome
  <2> QED
    BY <2>2, <2>3, <2>4, <2>5, <2>6, <2>7 DEF Next
<1> QED
  BY <1>1, QueuesInvariant, PTL DEF Spec, OutcomesFinal

-----------------------------------------------------------------------------
\* The receiver that preferred_pending_mach_receiver_locked names for a queued
\* message is polled, whether it waits for the port or for a set that has it: the
\* ready lists, the links and the generations agree about every message.
DueReceiversPolled ==
    \A p \in Ports, r \in DOMAIN receive :
        queue[p] # <<>> /\ Preferred(receive, order, p, r) => ~ receive[r].seen

LEMMA InvPolled == MqInv => DueReceiversPolled
<1> SUFFICES ASSUME MqInv, NEW p \in Ports, NEW r \in DOMAIN receive,
                    queue[p] # <<>>, Preferred(receive, order, p, r), receive[r].seen
             PROVE  FALSE
  BY DEF DueReceiversPolled
<1>1. r \in Eligible(receive, p) /\ receive[r].object \in {p} \cup Linked(p)
  BY DEF Preferred, Eligible, Waiting
<1>2. Silent(receive[r].object, queue, preposts)
  BY DEF MqInv, ReceiverInv, Quiet
<1>3. CASE receive[r].object = p
  BY <1>2, <1>3 DEF Silent, SourcesOf
<1>4. CASE receive[r].object \in Linked(p)
  <2>1. PICK s \in Sets : s = receive[r].object /\ s \in Linked(p)
    BY <1>4 DEF Linked
  <2>2. PrepostsCover
    BY InvCovers
  <2>3. p \in ToSet(preposts[s])
    BY <2>1, <2>2 DEF PrepostsCover
  <2>4. s \notin Ports
    BY ObjectsAssumption
  <2> QED
    BY <1>2, <2>1, <2>3, <2>4 DEF Silent, SourcesOf
<1> QED
  BY <1>1, <1>3, <1>4

\* No receive sleeps on a message that is due to it, directly or through a set
\* (mach_receive_poll_required_locked with the ready lists).
THEOREM DueReceiversArePolled == Spec => []DueReceiversPolled
BY QueuesInvariant, InvPolled, PTL

-----------------------------------------------------------------------------
(* Every message is received at most once.  A number is given to one       *)
(* message of a port; at any time it is in one place of the queue or with  *)
(* one receiver, and a step brings no number back that is in neither.      *)
InQueue(p) == {m.number : m \in ToSet(queue[p])}
HandedOnce ==
    \A r, x \in DOMAIN handed :
        handed[r].port = handed[x].port /\ handed[r].number = handed[x].number => r = x
MessageInOnePlace ==
    /\ \A p \in Ports : /\ \A n \in InQueue(p) : n < posted[p]
                        /\ \A i, j \in DOMAIN queue[p] :
                              i # j => queue[p][i].number # queue[p][j].number
    /\ \A r \in DOMAIN handed : /\ handed[r].number < posted[handed[r].port]
                                /\ handed[r].number \notin InQueue(handed[r].port)
    /\ HandedOnce
NothingReturns ==
    /\ \A p \in Ports : /\ posted[p] <= posted'[p]
                        /\ \A n \in InQueue(p)' : n \in InQueue(p) \/ n >= posted[p]
    /\ \A r \in DOMAIN handed' :
          \/ /\ r \in DOMAIN handed
             /\ handed'[r].port = handed[r].port /\ handed'[r].number = handed[r].number
          \/ handed'[r].number >= posted[handed'[r].port]
MessagesNeverReturn == [][NothingReturns]_vars

\* Messages leave, and receives end; or a message is posted to the queue or to a
\* receiver that has none.
Departs ==
    /\ posted' = posted
    /\ \A p \in Ports : ToSet(queue'[p]) \subseteq ToSet(queue[p])
    /\ \A r \in DOMAIN handed' :
          /\ r \in DOMAIN handed
          /\ handed'[r].port = handed[r].port /\ handed'[r].number = handed[r].number
Arrives(p) ==
    /\ posted' = [posted EXCEPT ![p] = @ + 1]
    /\ \/ /\ handed' = handed
          /\ \E m : m.number = posted[p] /\ queue' = [queue EXCEPT ![p] = Append(@, m)]
       \/ /\ queue' = queue
          /\ \E taker, d : /\ taker \notin DOMAIN handed /\ d.port = p /\ d.number = posted[p]
                           /\ handed' = With(handed, taker, d)
Carries == Departs \/ \E p \in Ports : Arrives(p)

LEMMA PostArrives ==
  ASSUME MqInv, NEW p \in Ports, NEW big \in BOOLEAN, NEW vsync \in BOOLEAN,
         NEW tk, NEW wq, NEW rs, Post(p, big, vsync, tk, wq, rs)
  PROVE  Carries
<1> DEFINE m == [number |-> posted[p], big |-> big, vsync |-> vsync]
           taker == Earliest(receive, order, p, Takers(p, m))
           d == [port |-> p, number |-> posted[p], sequence |-> sequence[p], moved |-> FALSE]
<1>1. OrderOk(order, receive) /\ ReceivesOk(receive, handed)
  BY DEF MqInv, ReceiverInv
<1>2. posted' = [posted EXCEPT ![p] = @ + 1]
  BY DEF Post
<1>3. CASE HandsOff(p, m)
  <2>1. handed' = With(handed, taker, d) /\ queue' = queue
    BY <1>3 DEF Post
  <2>2. taker \in Takers(p, m)
    <3>1. Takers(p, m) \in SUBSET Waiting(receive, p) /\ Takers(p, m) # {}
      BY <1>3 DEF Takers, HandsOff
    <3> HIDE DEF m
    <3> QED
      BY <1>1, <3>1, EarliestIs
  <2>3. taker \notin DOMAIN handed
    BY <1>1, <2>2 DEF Takers, Waiting, ReceivesOk
  <2>4. d.port = p /\ d.number = posted[p]
    OBVIOUS
  <2> HIDE DEF d, taker, m
  <2> QED
    BY <1>2, <2>1, <2>3, <2>4 DEF Arrives, Carries
<1>4. CASE ~ HandsOff(p, m)
  <2>1. handed' = handed /\ queue' = [queue EXCEPT ![p] = Append(@, m)]
    BY <1>4 DEF Post
  <2>2. m.number = posted[p]
    OBVIOUS
  <2> HIDE DEF m
  <2> QED
    BY <1>2, <2>1, <2>2 DEF Arrives, Carries
<1> QED
  BY <1>3, <1>4

LEMMA StillCarries ==
  ASSUME UNCHANGED <<posted, queue, handed>>
  PROVE  Carries
BY DEF Carries, Departs

LEMMA TakeDeparts ==
  ASSUME MqInv, NEW rc, NEW ord, NEW o, NEW buffer, NEW p \in Ports, queue[p] # <<>>,
         Take(rc, ord, o, buffer, p)
  PROVE  Carries
<1>1. posted' = posted /\ handed' = handed
  BY DEF Take
<1>2. queue \in [Ports -> Seq(Messages)]
  BY Basics
<1>3. queue' = queue \/ queue' = [queue EXCEPT ![p] = Tail(@)]
  BY DEF Take, ReportSize, TakeFront, FailCopyout
<1>4. ToSet(Tail(queue[p])) \subseteq ToSet(queue[p])
  <2>1. queue[p] \in Seq(Messages)
    BY <1>2
  <2> QED
    BY <2>1, TailQueue
<1>5. \A x \in Ports : ToSet(queue'[x]) \subseteq ToSet(queue[x])
  BY <1>2, <1>3, <1>4
<1> QED
  BY <1>1, <1>5 DEF Carries, Departs

LEMMA EndDeparts ==
  ASSUME NEW rc, NEW ord, NEW r, EndReceive(rc, ord, r)
  PROVE  Carries
<1>1. posted' = posted /\ queue' = queue /\ handed' = Without(handed, {r})
  BY DEF EndReceive, store
<1> QED
  BY <1>1 DEF Without, Carries, Departs

LEMMA AttemptDeparts ==
  ASSUME MqInv, NEW rc, NEW ord, NEW r, rc[r].object \in Objects, Attempt(rc, ord, r)
  PROVE  Carries
<1> DEFINE chosen == Chosen(rc, ord, r)
<1>1. chosen \in SUBSET Nonempty(rc[r].object)
  BY DEF Chosen
<1>2. SetsOk(members, order, queue, preposts)
  BY DEF MqInv, ReceiverInv
<1>3. CASE /\ chosen # {}
           /\ \E gone, rest, buffer : Take(gone, rest, rc[r].object, buffer,
                                           First(rc[r].object, chosen))
  <2> DEFINE p == First(rc[r].object, chosen)
  <2>1. p \in Ports /\ queue[p] # <<>>
    <3> HIDE DEF chosen
    <3> QED
      BY <1>1, <1>2, <1>3, FirstIs
  <2>2. PICK gone, rest, buffer : Take(gone, rest, rc[r].object, buffer, p)
    BY <1>3
  <2> HIDE DEF p
  <2> QED
    BY <2>1, <2>2, TakeDeparts
<1>4. CASE EndReceive(rc, ord, r)
  BY <1>4, EndDeparts
<1>5. CASE UNCHANGED <<topology, store, limit, sending, handed, notices>>
  BY <1>5, StillCarries DEF store
<1> QED
  BY <1>3, <1>4, <1>5 DEF Attempt

LEMMA ReceiverCarries ==
  ASSUME MqInv, NEW r \in Receivers, ReceiverStep(r)
  PROVE  Carries
<1>1. \A x \in DOMAIN receive : receive[x].object \in Objects
  BY DEF MqInv, ReceiverInv, ReceivesOk, Receives
<1>2. CASE \E o \in Objects, buffer \in Buffers, due \in Dues : BeginReceive(r, o, buffer, due)
  <2>1. PICK o \in Objects, buffer \in Buffers, due \in Dues : BeginReceive(r, o, buffer, due)
    BY <1>2
  <2>2. PICK rec : rec = [object |-> o, buffer |-> buffer, due |-> due, seen |-> FALSE,
                          state |-> "Waiting"]
    OBVIOUS
  <2>3. PICK rc : rc = With(receive, r, rec)
    OBVIOUS
  <2>4. Attempt(rc, Append(order, r), r)
    BY <2>1, <2>2, <2>3 DEF BeginReceive
  <2>5. rc[r].object \in Objects
    BY <2>2, <2>3 DEF With
  <2> QED
    BY <2>4, <2>5, AttemptDeparts
<1>3. CASE PollReceive(r)
  BY <1>1, <1>3, AttemptDeparts DEF PollReceive, PollRequired
<1>4. CASE AbandonReceive(r)
  BY <1>4, EndDeparts DEF AbandonReceive
<1>5. CASE ExpireReceive(r)
  BY <1>5, StillCarries DEF ExpireReceive, store
<1> QED
  BY <1>2, <1>3, <1>4, <1>5 DEF ReceiverStep

LEMMA SenderCarries ==
  ASSUME MqInv, NEW s \in Senders, SenderStep(s)
  PROVE  Carries
<1>1. CASE CompleteSend(s)
  <2>1. ticket[s].port \in Ports /\ ticket[s].big \in BOOLEAN
    BY <1>1, Basics DEF CompleteSend, Tickets
  <2>2. CASE \E tk, wq, rs : Post(ticket[s].port, ticket[s].big, FALSE, tk, wq, rs)
    BY <2>1, <2>2, PostArrives
  <2>3. CASE UNCHANGED <<store, receiving>>
    BY <2>3, StillCarries DEF store, receiving
  <2> QED
    BY <1>1, <2>2, <2>3 DEF CompleteSend
<1>2. CASE \E p \in Ports, big \in Sizes, due \in {"never", "later"}, notify \in BOOLEAN :
              BlockSend(s, p, big, due, notify)
  BY <1>2, StillCarries DEF BlockSend, store, receiving
<1>3. CASE \E p \in Ports : SendTimesOutAtOnce(s, p)
  BY <1>3, StillCarries DEF SendTimesOutAtOnce, store, receiving
<1>4. CASE InterruptSend(s) \/ TerminateSender(s) \/ ExpireSend(s)
  BY <1>4, StillCarries DEF InterruptSend, TerminateSender, ExpireSend, store, receiving
<1> QED
  BY <1>1, <1>2, <1>3, <1>4 DEF SenderStep

LEMMA PortCarries ==
  ASSUME MqInv, NEW p \in Ports, PortStep(p)
  PROVE  Carries
<1>1. /\ queue \in [Ports -> Seq(Messages)]
      /\ \A r \in DOMAIN handed : handed[r] \in Deliveries
  BY Basics DEF MqInv, DeliveriesOk, HandedFirst
<1>2. CASE VsyncPost(p) \/ \E big \in Sizes : SendAtOnce(p, big) \/ KernelSend(p, big)
  <2>1. \E big \in BOOLEAN, vsync \in BOOLEAN : Post(p, big, vsync, ticket, waiters, reserved)
    BY <1>2, ObjectsAssumption DEF VsyncPost, SendAtOnce, KernelSend
  <2> QED
    BY <2>1, PostArrives
<1>3. CASE MoveReceive(p)
  <2>1. /\ posted' = posted /\ queue' = queue
        /\ handed' = [r \in DOMAIN handed |->
                         [handed[r] EXCEPT !.moved = @ \/ handed[r].port = p]]
    BY <1>3 DEF MoveReceive
  <2>2. ASSUME NEW r \in DOMAIN handed
        PROVE  handed'[r].port = handed[r].port /\ handed'[r].number = handed[r].number
    BY <1>1, <2>1 DEF Deliveries
  <2> QED
    BY <2>1, <2>2 DEF Carries, Departs
<1>4. CASE DestroyPort(p)
  <2>1. UNCHANGED <<posted, handed>> /\ queue' = [queue EXCEPT ![p] = <<>>]
    BY <1>4 DEF DestroyPort
  <2>2. ToSet(<<>>) = {}
    BY DEF ToSet
  <2>3. \A x \in Ports : ToSet(queue'[x]) \subseteq ToSet(queue[x])
    BY <1>1, <2>1, <2>2
  <2> QED
    BY <2>1, <2>3 DEF Carries, Departs
<1>5. CASE VsyncDiscard(p)
  <2>1. PICK T : UNCHANGED <<posted, handed>> /\ queue' = [queue EXCEPT ![p] = Erased(@, T)]
    BY <1>5 DEF VsyncDiscard
  <2>2. ToSet(Erased(queue[p], T)) = ToSet(queue[p]) \ T
    <3>1. queue[p] \in Seq(Messages)
      BY <1>1
    <3> QED
      BY <3>1, ErasedIs
  <2>3. \A x \in Ports : ToSet(queue'[x]) \subseteq ToSet(queue[x])
    BY <1>1, <2>1, <2>2
  <2> QED
    BY <2>1, <2>3 DEF Carries, Departs
<1>6. CASE \/ ReturnReceive(p) \/ \E v \in Limits : SetLimit(p, v)
           \/ \E s \in Sets : InsertMember(s, p) \/ ExtractMember(s, p)
           \/ \E into : MoveMember(p, into)
  BY <1>6, StillCarries
     DEF ReturnReceive, SetLimit, InsertMember, ExtractMember, MoveMember, store
<1> QED
  BY <1>2, <1>3, <1>4, <1>5, <1>6 DEF PortStep

\* Every step carries messages forward.
LEMMA StepCarries ==
  ASSUME MqInv, [Next]_vars
  PROVE  Carries
<1>1. CASE \E s \in Senders : SenderStep(s)
  BY <1>1, SenderCarries
<1>2. CASE \E r \in Receivers : ReceiverStep(r)
  BY <1>2, ReceiverCarries
<1>3. CASE \E p \in Ports : PortStep(p)
  BY <1>3, PortCarries
<1>4. CASE \E n \in Names : NoticeStep(n)
  BY <1>4, StillCarries DEF NoticeStep, Register, CancelRequest, store, receiving
<1>5. CASE \E o \in Objects, buffer \in Buffers : KeventReceive(o, buffer)
  <2>1. PICK o \in Objects, buffer \in Buffers : KeventReceive(o, buffer)
    BY <1>5
  <2> DEFINE free == {i \in Nonempty(o) : Eligible(receive, Sources(o)[i]) = {}}
             p == First(o, free)
  <2>2. free # {} /\ Take(receive, order, o, buffer, p) /\ free \in SUBSET Nonempty(o)
    BY <2>1 DEF KeventReceive
  <2>3. SetsOk(members, order, queue, preposts)
    BY DEF MqInv, ReceiverInv
  <2> HIDE DEF free
  <2>4. p \in Ports /\ queue[p] # <<>>
    BY <2>2, <2>3, FirstIs
  <2> HIDE DEF p
  <2> QED
    BY <2>2, <2>4, TakeDeparts
<1>6. CASE \E s \in Sets : DestroySet(s)
  BY <1>6, StillCarries DEF DestroySet
<1>7. CASE UNCHANGED vars
  BY <1>7, StillCarries DEF vars, store, receiving
<1> QED
  BY <1>1, <1>2, <1>3, <1>4, <1>5, <1>6, <1>7 DEF Next

\* What that means for the numbers of the messages.
LEMMA CarriesReturnsNothing ==
  ASSUME MqInv, Carries
  PROVE  NothingReturns
<1>1. queue \in [Ports -> Seq(Messages)] /\ posted \in [Ports -> Nat]
  BY Basics
<1>2. CASE Departs
  BY <1>1, <1>2 DEF Departs, NothingReturns, InQueue
<1>3. ASSUME NEW p \in Ports, Arrives(p) PROVE NothingReturns
  <2>1. \A x \in Ports : /\ posted[x] \in Nat /\ posted[x] <= posted'[x]
    BY <1>1, <1>3 DEF Arrives
  <2>2. ASSUME NEW x \in Ports, NEW n \in InQueue(x)' PROVE n \in InQueue(x) \/ n >= posted[x]
    <3>1. CASE queue' = queue
      BY <2>2, <3>1 DEF InQueue
    <3>2. ASSUME NEW m, m.number = posted[p], queue' = [queue EXCEPT ![p] = Append(@, m)]
          PROVE  n \in InQueue(x) \/ n >= posted[x]
      <4>1. PICK y \in ToSet(queue'[x]) : n = y.number
        BY <2>2 DEF InQueue
      <4>2. CASE x # p
        BY <1>1, <3>2, <4>1, <4>2 DEF InQueue
      <4>3. CASE x = p
        <5>1. ToSet(Append(queue[p], m)) = ToSet(queue[p]) \cup {m}
          <6>1. PICK S, q : S = Messages \cup {m} /\ q = queue[p]
            OBVIOUS
          <6>2. q \in Seq(Messages)
            BY <1>1, <6>1
          <6>3. q \in Seq(S) /\ m \in S
            BY <6>1, <6>2, SeqMonotonic
          <6>4. ToSet(Append(q, m)) = ToSet(q) \cup {m}
            BY <6>3, AppendQueue
          <6> QED
            BY <6>1, <6>4
        <5>2. y \in ToSet(queue[p]) \/ y = m
          BY <1>1, <3>2, <4>1, <4>3, <5>1
        <5>3. posted[p] >= posted[p]
          BY <1>1
        <5> QED
          BY <3>2, <4>1, <4>3, <5>2, <5>3 DEF InQueue
      <4> QED
        BY <4>2, <4>3
    <3> QED
      BY <1>3, <3>1, <3>2 DEF Arrives
  <2>3. ASSUME NEW r \in DOMAIN handed'
        PROVE  \/ r \in DOMAIN handed /\ handed'[r] = handed[r]
               \/ handed'[r].port = p /\ handed'[r].number = posted[p]
    BY <1>3 DEF Arrives, With
  <2>4. posted[p] >= posted[p]
    BY <1>1
  <2> QED
    BY <2>1, <2>2, <2>3, <2>4 DEF NothingReturns
<1> QED
  BY <1>2, <1>3 DEF Carries

LEMMA CarriesHandsOnce ==
  ASSUME MqInv, HandedOnce, Carries
  PROVE  HandedOnce'
<1>1. CASE Departs
  BY <1>1 DEF Departs, HandedOnce
<1>2. ASSUME NEW p \in Ports, NEW taker, NEW d, taker \notin DOMAIN handed,
             d.port = p, d.number = posted[p], handed' = With(handed, taker, d)
      PROVE  HandedOnce'
  <2>1. ASSUME NEW r \in DOMAIN handed PROVE ~ (handed[r].port = p /\ handed[r].number = posted[p])
    <3>1. handed[r] \in Deliveries /\ handed[r].number < posted[handed[r].port]
      BY DEF MqInv, DeliveriesOk, HandedFirst
    <3>2. handed[r].number \in Nat /\ posted[p] \in Nat
      BY <3>1, Basics DEF Deliveries
    <3> QED
      BY <3>1, <3>2
  <2>2. /\ DOMAIN handed' = DOMAIN handed \cup {taker} /\ handed'[taker] = d
        /\ \A r \in DOMAIN handed : handed'[r] = handed[r]
    BY <1>2 DEF With
  <2> QED
    BY <1>2, <2>1, <2>2 DEF HandedOnce
<1>3. CASE handed' = handed
  BY <1>3 DEF HandedOnce
<1> QED
  BY <1>1, <1>2, <1>3 DEF Carries, Arrives

\* A message is in the queue of its port once, or with one receiver, never both, and
\* its number is its own (enqueue_mach_message_locked, handoff_mach_message_locked).
THEOREM MessagesInOnePlace == Spec => []MessageInOnePlace
<1>1. Init => HandedOnce
  BY DEF Init, HandedOnce
<1>2. MqInv /\ HandedOnce /\ [Next]_vars => HandedOnce'
  BY StepCarries, CarriesHandsOnce
<1>3. MqInv /\ HandedOnce => MessageInOnePlace
  <2> SUFFICES ASSUME MqInv, HandedOnce PROVE MessageInOnePlace
    OBVIOUS
  <2>1. ASSUME NEW p \in Ports, NEW i \in DOMAIN queue[p], NEW j \in DOMAIN queue[p], i # j
        PROVE  queue[p][i].number # queue[p][j].number
    <3>1. /\ queue[p] \in Seq(Messages)
          /\ \A x, y : Precedes(queue[p], x, y) => x.number < y.number
      BY Basics DEF MqInv, DeliveriesOk, Numbered
    <3>2. queue[p][i].number \in Nat /\ queue[p][j].number \in Nat /\ i \in Int /\ j \in Int
      <4>1. PICK q \in Seq(Messages) : q = queue[p]
        BY <3>1
      <4>2. DOMAIN q = 1..Len(q) /\ Len(q) \in Nat /\ q[i] \in Messages /\ q[j] \in Messages
        <5>1. DOMAIN q = 1..Len(q) /\ Len(q) \in Nat
          BY LenProperties
        <5>2. i \in 1..Len(q) /\ j \in 1..Len(q)
          BY <4>1, <5>1
        <5> QED
          BY <5>1, <5>2, ElementOfSeq
      <4>3. \A m \in Messages : m.number \in Nat
        BY DEF Messages
      <4> QED
        BY <4>1, <4>2, <4>3
    <3>3. CASE i < j
      BY <3>1, <3>2, <3>3 DEF Precedes
    <3>4. CASE j < i
      BY <3>1, <3>2, <3>4 DEF Precedes
    <3> QED
      BY <2>1, <3>2, <3>3, <3>4
  <2>2. ASSUME NEW p \in Ports, NEW n \in InQueue(p) PROVE n < posted[p]
    BY DEF InQueue, MqInv, DeliveriesOk, Numbered
  <2>3. ASSUME NEW r \in DOMAIN handed
        PROVE  handed[r].number < posted[handed[r].port]
               /\ handed[r].number \notin InQueue(handed[r].port)
    <3>1. /\ handed[r] \in Deliveries /\ handed[r].number < posted[handed[r].port]
          /\ \A m \in ToSet(queue[handed[r].port]) : handed[r].number < m.number
      BY DEF MqInv, DeliveriesOk, HandedFirst
    <3>2. handed[r].number \in Nat
      BY <3>1 DEF Deliveries
    <3> QED
      BY <3>1, <3>2 DEF InQueue
  <2> QED
    BY <2>1, <2>2, <2>3 DEF MessageInOnePlace
<1> QED
  BY <1>1, <1>2, <1>3, QueuesInvariant, PTL DEF Spec

\* A number that is neither queued nor handed is not queued or handed again
\* (enqueue_mach_message_locked numbers what it adds): with MessagesInOnePlace, no
\* message is received twice, and none goes back to a queue.
THEOREM MessagesDoNotReturn == Spec => MessagesNeverReturn
<1>1. MqInv /\ [Next]_vars => NothingReturns
  BY StepCarries, CarriesReturnsNothing
<1> QED
  BY <1>1, QueuesInvariant, PTL DEF Spec, MessagesNeverReturn
=============================================================================
