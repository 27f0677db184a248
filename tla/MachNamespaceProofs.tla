-------------------------- MODULE MachNamespaceProofs --------------------------
(* The name spaces of any number of tasks keep their index, name a right   *)
(* once and keep dead-name requests on names that have a right.            *)
EXTENDS MachNamespace, WellFoundedInduction, TLAPS

Spaces == [next_name: FirstDynamic..LastName, entries: [Names -> Entries],
           index: [Objects -> [names: SUBSET Names, rights: SUBSET Rights]]]

(* An entry has an object while it has a right, and references exactly to  *)
(* the rights it has; to a send-once right it has one.                     *)
EntryOK(e) ==
    /\ e \in Entries
    /\ e.object = NoObject <=> e.type = {}
    /\ \A r \in Rights : (r \in e.type <=> e.refs[r] > 0) /\ e.refs[r] <= Limit(r)
    /\ e.refs["SendOnce"] <= 1

(* The index of a space is what a scan of its entries would find.          *)
Named(s, o) == {n \in Names : s.entries[n].object = o}
Indexed(s) ==
    \A o \in Objects : /\ s.index[o].names = Named(s, o)
                       /\ s.index[o].rights = Types(s, Named(s, o))
Well(s) == s \in Spaces /\ (\A n \in Names : EntryOK(s.entries[n])) /\ Indexed(s)

(* u is s with the names N and the rights R for the object o.              *)
Reindexed(s, u, o, N, R) ==
    /\ u \in Spaces
    /\ u.next_name = s.next_name
    /\ u.entries = s.entries
    /\ \A q \in Objects \ {o} : u.index[q] = s.index[q]
    /\ u.index[o].names = N /\ u.index[o].rights = R

(* u is s with the entry e at the name n, and its index to match.          *)
Updated(s, u, n, e) ==
    /\ Well(u)
    /\ u.next_name = s.next_name
    /\ u.entries[n] = e
    /\ \A m \in Names \ {n} : u.entries[m] = s.entries[m]

-----------------------------------------------------------------------------
(* Least elements: the first alias, the first free name.                   *)

\* A set of natural numbers that is not empty has a least element.
LEMMA NatMin ==
  ASSUME NEW S \in SUBSET Nat, S # {}
  PROVE  \E x \in S : \A y \in S : x <= y
<1> DEFINE R == OpToRel(<, Nat)
<1>1. IsWellFoundedOn(R, Nat)
  BY NatLessThanWellFounded
<1>2. \A a, b \in Nat : a < b => <<a, b>> \in R
  BY DEF OpToRel
<1> HIDE DEF R
<1>3. PICK x \in S : \A y \in S : ~ (<<y, x>> \in R)
  BY <1>1, WFMin
<1>4. ASSUME NEW y \in S PROVE x <= y
  <2>1. x \in Nat /\ y \in Nat
    OBVIOUS
  <2>2. ~ (<<y, x>> \in R)
    BY <1>3
  <2>3. y < x => <<y, x>> \in R
    BY <1>2, <2>1
  <2> QED
    BY <2>1, <2>2, <2>3
<1> QED
  BY <1>4

\* Min chooses it.
LEMMA MinIs ==
  ASSUME NEW S \in SUBSET Names, S # {}
  PROVE  Min(S) \in S /\ Min(S) \in Names /\ \A y \in S : Min(S) <= y
<1>1. S \in SUBSET Nat
  BY NamesAssumption DEF Names
<1>2. \E x \in S : \A y \in S : x <= y
  BY <1>1, NatMin
<1> QED
  BY <1>2 DEF Min

-----------------------------------------------------------------------------
(* Entries.                                                                *)

\* A new entry has one reference to its right.
LEMMA MakeEntryOK ==
  ASSUME NEW o \in Objects, NEW r \in Rights
  PROVE  /\ EntryOK(MakeEntry(o, r))
         /\ MakeEntry(o, r).object = o /\ MakeEntry(o, r).type = {r}
<1>1. /\ MaxRefs \in Nat /\ MaxRefs >= 2 /\ o # NoObject
      /\ Limit(r) >= 1 /\ \A q \in Rights : Limit(q) \in Nat
  BY NamesAssumption DEF Limit
<1>2. [NoRefs EXCEPT ![r] = 1] = [q \in Rights |-> IF q = r THEN 1 ELSE 0]
  BY DEF NoRefs
<1>3. /\ MakeEntry(o, r).refs = [q \in Rights |-> IF q = r THEN 1 ELSE 0]
      /\ MakeEntry(o, r).object = o /\ MakeEntry(o, r).type = {r}
  BY <1>2 DEF MakeEntry
<1>4. MakeEntry(o, r) \in Entries
  <2>1. [NoRefs EXCEPT ![r] = 1] \in [Rights -> 0..MaxRefs]
    <3>1. 0 \in 0..MaxRefs /\ 1 \in 0..MaxRefs
      BY <1>1
    <3>2. [q \in Rights |-> IF q = r THEN 1 ELSE 0] \in [Rights -> 0..MaxRefs]
      BY ONLY <3>1
    <3> QED
      BY ONLY <1>2, <3>2
  <2>2. {r} \in SUBSET Rights
    OBVIOUS
  <2> QED
    BY <2>1, <2>2 DEF MakeEntry, Entries
<1>5. "SendOnce" \in Rights
  BY DEF Rights
<1>6. \A q \in Rights : /\ MakeEntry(o, r).refs[q] = IF q = r THEN 1 ELSE 0
                        /\ (q \in MakeEntry(o, r).type <=> q = r)
  BY <1>3
<1> QED
  BY <1>1, <1>3, <1>4, <1>5, <1>6 DEF EntryOK

\* No entry.
LEMMA NoEntryOK ==
  EntryOK(NoEntry) /\ NoEntry.object = NoObject /\ NoEntry.type = {}
<1>1. MaxRefs \in Nat /\ MaxRefs >= 2
  BY NamesAssumption
<1>2. NoRefs \in [Rights -> 0..MaxRefs] /\ \A r \in Rights : NoRefs[r] = 0
  BY <1>1 DEF NoRefs
<1>3. NoEntry \in Entries
  BY <1>2 DEF NoEntry, Entries
<1>4. "SendOnce" \in Rights
  BY DEF Rights
<1> QED
  BY <1>1, <1>2, <1>3, <1>4 DEF EntryOK, NoEntry, Limit

\* A right that an entry gets counts once, or once more up to its limit.
LEMMA AddTypeOK ==
  ASSUME NEW e, EntryOK(e), e.object # NoObject, NEW r \in Rights
  PROVE  /\ EntryOK(AddType(e, r))
         /\ AddType(e, r).object = e.object
         /\ AddType(e, r).type = e.type \cup {r}
<1> DEFINE k == IF r \notin e.type THEN 1
                ELSE IF r \in {"Send", "DeadName"} /\ e.refs[r] < Limit(r) THEN e.refs[r] + 1
                ELSE e.refs[r]
<1>1. MaxRefs \in Nat /\ MaxRefs >= 2
  BY NamesAssumption
<1>2. e \in Entries /\ e.refs \in [Rights -> 0..MaxRefs]
  BY DEF EntryOK, Entries
<1>3. AddType(e, r) = [e EXCEPT !.type = e.type \cup {r}, !.refs = [e.refs EXCEPT ![r] = k]]
  BY DEF AddType
<1>4. k \in 0..MaxRefs /\ k > 0 /\ k <= Limit(r)
  <2>1. e.refs[r] \in Nat /\ (r \in e.type => e.refs[r] > 0) /\ e.refs[r] <= Limit(r)
    BY <1>1, <1>2 DEF EntryOK
  <2> QED
    BY <1>1, <2>1 DEF Limit
<1>5. r = "SendOnce" => k <= 1
  BY <1>2 DEF EntryOK
<1> HIDE DEF k
<1>6. /\ AddType(e, r).object = e.object
      /\ AddType(e, r).type = e.type \cup {r}
      /\ AddType(e, r).refs = [e.refs EXCEPT ![r] = k]
  BY <1>2, <1>3 DEF Entries
<1>7. AddType(e, r) \in Entries
  <2>1. PICK types, refs : types = e.type \cup {r} /\ refs = [e.refs EXCEPT ![r] = k]
    OBVIOUS
  <2>2. types \in SUBSET Rights
    BY <1>2, <2>1 DEF Entries
  <2>3. refs \in [Rights -> 0..MaxRefs]
    BY <1>2, <1>4, <2>1
  <2>4. AddType(e, r) = [e EXCEPT !.type = types, !.refs = refs]
    BY <1>3, <2>1
  <2> QED
    BY <1>2, <2>2, <2>3, <2>4 DEF Entries
<1>8. \A q \in Rights : AddType(e, r).refs[q] = IF q = r THEN k ELSE e.refs[q]
  BY <1>2, <1>6
<1>9. "SendOnce" \in Rights
  BY DEF Rights
<1> QED
  BY <1>2, <1>4, <1>5, <1>6, <1>7, <1>8, <1>9 DEF EntryOK

Counted(e, r, d) == [e EXCEPT !.refs[r] = @ + d]

\* A right that an entry loses, beside others.
LEMMA LoseTypeOK ==
  ASSUME NEW e, EntryOK(e), NEW r \in Rights
  PROVE  /\ LoseType(e, r).object = e.object
         /\ LoseType(e, r).type = e.type \ {r}
         /\ LoseType(e, r) \in Entries
         /\ e.type \ {r} # {} => EntryOK(LoseType(e, r))
<1>1. MaxRefs \in Nat /\ MaxRefs >= 2
  BY NamesAssumption
<1>2. e \in Entries /\ e.refs \in [Rights -> 0..MaxRefs]
  BY DEF EntryOK, Entries
<1>3. /\ LoseType(e, r).object = e.object
      /\ LoseType(e, r).type = e.type \ {r}
      /\ LoseType(e, r).refs = [e.refs EXCEPT ![r] = 0]
      /\ LoseType(e, r) = [e EXCEPT !.type = e.type \ {r}, !.refs = [e.refs EXCEPT ![r] = 0]]
  BY <1>2 DEF LoseType, Entries
<1>4. LoseType(e, r) \in Entries
  <2>1. [e.refs EXCEPT ![r] = 0] \in [Rights -> 0..MaxRefs]
    BY <1>1, <1>2
  <2> QED
    BY <1>2, <1>3, <2>1 DEF Entries
<1>5. \A q \in Rights : LoseType(e, r).refs[q] = IF q = r THEN 0 ELSE e.refs[q]
  BY <1>2, <1>3
<1>6. "SendOnce" \in Rights /\ 0 <= Limit(r)
  BY <1>1 DEF Rights, Limit
<1> QED
  BY <1>3, <1>4, <1>5, <1>6 DEF EntryOK

\* A count that changes within its limits.
LEMMA CountedOK ==
  ASSUME NEW e, EntryOK(e), NEW r \in e.type, r # "SendOnce", NEW d \in Int,
         e.refs[r] + d # 0, e.refs[r] + d \in 0..Limit(r)
  PROVE  /\ EntryOK(Counted(e, r, d))
         /\ Counted(e, r, d).object = e.object
         /\ Counted(e, r, d).type = e.type
<1>1. MaxRefs \in Nat /\ MaxRefs >= 2 /\ Limit(r) \in 0..MaxRefs
  BY NamesAssumption DEF Limit
<1>2. e \in Entries /\ e.refs \in [Rights -> 0..MaxRefs] /\ e.type \in SUBSET Rights /\ r \in Rights
  BY DEF EntryOK, Entries
<1> DEFINE k == e.refs[r] + d
<1>3. k \in 0..MaxRefs /\ k > 0 /\ k <= Limit(r)
  BY <1>1
<1>4. Counted(e, r, d) = [e EXCEPT !.refs = [e.refs EXCEPT ![r] = k]]
  BY DEF Counted
<1> HIDE DEF k
<1>5. /\ Counted(e, r, d).object = e.object
      /\ Counted(e, r, d).type = e.type
      /\ Counted(e, r, d).refs = [e.refs EXCEPT ![r] = k]
  BY <1>2, <1>4 DEF Entries
<1>6. Counted(e, r, d) \in Entries
  BY <1>2, <1>3, <1>4 DEF Entries
<1>7. \A q \in Rights : Counted(e, r, d).refs[q] = IF q = r THEN k ELSE e.refs[q]
  BY <1>2, <1>5
<1>8. "SendOnce" \in Rights
  BY DEF Rights
<1> QED
  BY <1>2, <1>3, <1>5, <1>6, <1>7, <1>8 DEF EntryOK

\* A send right, or a send-once right, whose port dies.
LEMMA DeadEntryOK ==
  ASSUME NEW e, EntryOK(e), e.type # {}, e.type \subseteq Sending,
         "SendOnce" \in e.type => e.type = {"SendOnce"}
  PROVE  /\ EntryOK(DeadEntry(e))
         /\ DeadEntry(e).object = e.object
         /\ DeadEntry(e).type = {"DeadName"}
<1> DEFINE k == e.refs["Send"] + e.refs["SendOnce"]
           f == [r \in Rights |-> CASE r \in Sending -> 0 [] r = "DeadName" -> k [] OTHER -> e.refs[r]]
<1>1. MaxRefs \in Nat /\ MaxRefs >= 2
  BY NamesAssumption
<1>2. /\ e \in Entries /\ e.refs \in [Rights -> 0..MaxRefs]
      /\ "Send" \in Rights /\ "SendOnce" \in Rights /\ "DeadName" \in Rights
      /\ e.refs["Send"] \in Nat /\ e.refs["SendOnce"] \in Nat
  BY <1>1 DEF EntryOK, Entries, Rights
<1>3. k \in 0..MaxRefs /\ k > 0
  <2>1. CASE "SendOnce" \in e.type
    <3>1. "Send" \notin e.type
      BY <2>1
    <3>2. e.refs["Send"] = 0 /\ e.refs["SendOnce"] > 0 /\ e.refs["SendOnce"] <= 1
      BY <1>2, <2>1, <3>1 DEF EntryOK
    <3> QED
      BY <1>1, <1>2, <3>2
  <2>2. CASE "SendOnce" \notin e.type
    <3>1. "Send" \in e.type
      BY <2>2 DEF Sending
    <3>2. e.refs["SendOnce"] = 0 /\ e.refs["Send"] > 0 /\ e.refs["Send"] <= Limit("Send")
      BY <1>2, <2>2, <3>1 DEF EntryOK
    <3> QED
      BY <1>1, <1>2, <3>2 DEF Limit
  <2> QED
    BY <2>1, <2>2
<1>4. \A r \in Rights : f[r] = IF r = "DeadName" THEN k ELSE 0
  <2>1. ASSUME NEW r \in Rights, r \in Sending PROVE f[r] = 0 /\ r # "DeadName"
    BY <2>1 DEF Sending
  <2>2. f["DeadName"] = k
    BY <1>2 DEF Sending
  <2>3. ASSUME NEW r \in Rights, r \notin Sending, r # "DeadName" PROVE f[r] = 0
    <3>1. f[r] = e.refs[r] /\ r \notin e.type
      BY <2>3
    <3> QED
      BY <1>2, <3>1 DEF EntryOK
  <2> QED
    BY <2>1, <2>2, <2>3
<1>5. DeadEntry(e) = [e EXCEPT !.type = (e.type \ Sending) \cup {"DeadName"}, !.refs = f]
  BY DEF DeadEntry
<1>6. f \in [Rights -> 0..MaxRefs]
  <2>1. \A r \in Rights : f[r] \in 0..MaxRefs
    BY <1>1, <1>3, <1>4
  <2> QED
    BY <2>1
<1> HIDE DEF f, k
<1>7. /\ DeadEntry(e).object = e.object
      /\ DeadEntry(e).type = {"DeadName"}
      /\ DeadEntry(e).refs = f
      /\ DeadEntry(e) \in Entries
  BY <1>2, <1>5, <1>6 DEF Entries
<1>8. e.object # NoObject
  BY DEF EntryOK
<1>9. k <= Limit("DeadName") /\ \A r \in Rights : 0 <= Limit(r)
  BY <1>1, <1>3 DEF Limit
<1> QED
  BY <1>2, <1>3, <1>4, <1>7, <1>8, <1>9 DEF EntryOK

-----------------------------------------------------------------------------
(* The index.                                                              *)

\* The entries of a space.
LEMMA EntriesType ==
  ASSUME NEW s \in Spaces, NEW n \in Names
  PROVE  /\ s.entries[n].type \in SUBSET Rights
         /\ s.entries[n].object \in Objects \cup {NoObject}
BY DEF Spaces, Entries

\* The rights of some names.
LEMMA TypesIs ==
  ASSUME NEW s \in Spaces, NEW N \in SUBSET Names
  PROVE  /\ Types(s, N) \in SUBSET Rights
         /\ \A n \in N : s.entries[n].type \subseteq Types(s, N)
         /\ \A r \in Types(s, N) : \E n \in N : r \in s.entries[n].type
<1>1. \A r : r \in Types(s, N) <=> \E n \in N : r \in s.entries[n].type
  BY DEF Types
<1> QED
  BY <1>1, EntriesType

\* Replacing one entry of the index, whole or in part.
LEMMA ReindexedIs ==
  ASSUME NEW s \in Spaces, NEW o \in Objects, NEW N \in SUBSET Names, NEW R \in SUBSET Rights
  PROVE  /\ Reindexed(s, [s EXCEPT !.index[o] = [names |-> N, rights |-> R]], o, N, R)
         /\ Reindexed(s, [s EXCEPT !.index[o].rights = R], o, s.index[o].names, R)
         /\ Reindexed(s, [s EXCEPT !.index[o].names = N], o, N, s.index[o].rights)
<1> DEFINE I == [names: SUBSET Names, rights: SUBSET Rights]
<1>1. /\ s.index \in [Objects -> I] /\ s.index[o] \in I
      /\ s.entries \in [Names -> Entries] /\ s.next_name \in FirstDynamic..LastName
  BY DEF Spaces
<1>2. ASSUME NEW i \in I
      PROVE  Reindexed(s, [s EXCEPT !.index[o] = i], o, i.names, i.rights)
  <2> DEFINE u == [s EXCEPT !.index[o] = i]
  <2>1. /\ u.index = [s.index EXCEPT ![o] = i]
        /\ u.entries = s.entries /\ u.next_name = s.next_name
    BY DEF Spaces
  <2>2. [s.index EXCEPT ![o] = i] \in [Objects -> I]
    BY <1>1
  <2>3. u \in Spaces
    BY <2>2 DEF Spaces
  <2> HIDE DEF u
  <2>4. Reindexed(s, u, o, i.names, i.rights)
    BY <1>1, <2>1, <2>3 DEF Reindexed
  <2> QED
    BY <2>4 DEF u
<1>3. [names |-> N, rights |-> R] \in I
  OBVIOUS
<1>4. /\ [s.index[o] EXCEPT !.rights = R] \in I
      /\ [s.index[o] EXCEPT !.rights = R].names = s.index[o].names
      /\ [s.index[o] EXCEPT !.rights = R].rights = R
  BY <1>1
<1>5. /\ [s.index[o] EXCEPT !.names = N] \in I
      /\ [s.index[o] EXCEPT !.names = N].rights = s.index[o].rights
      /\ [s.index[o] EXCEPT !.names = N].names = N
  BY <1>1
<1>6. Reindexed(s, [s EXCEPT !.index[o] = [names |-> N, rights |-> R]], o, N, R)
  BY <1>2, <1>3
<1>7. /\ [s EXCEPT !.index[o].rights = R] = [s EXCEPT !.index[o] = [s.index[o] EXCEPT !.rights = R]]
      /\ [s EXCEPT !.index[o].names = N] = [s EXCEPT !.index[o] = [s.index[o] EXCEPT !.names = N]]
  BY <1>1
<1> HIDE DEF I
<1>8. Reindexed(s, [s EXCEPT !.index[o].rights = R], o, s.index[o].names, R)
  BY <1>2, <1>4, <1>7
<1>9. Reindexed(s, [s EXCEPT !.index[o].names = N], o, N, s.index[o].rights)
  BY <1>2, <1>5, <1>7
<1> QED
  BY <1>6, <1>8, <1>9

\* The same, by name: a whole entry, its rights, or its names.
LEMMA ReindexedWhole ==
  ASSUME NEW s \in Spaces, NEW o \in Objects, NEW N \in SUBSET Names, NEW R \in SUBSET Rights,
         NEW u, u = [s EXCEPT !.index[o] = [names |-> N, rights |-> R]]
  PROVE  Reindexed(s, u, o, N, R)
<1>1. Reindexed(s, [s EXCEPT !.index[o] = [names |-> N, rights |-> R]], o, N, R)
  BY ReindexedIs
<1> QED
  BY ONLY <1>1, u = [s EXCEPT !.index[o] = [names |-> N, rights |-> R]]

LEMMA ReindexedRights ==
  ASSUME NEW s \in Spaces, NEW o \in Objects, NEW R \in SUBSET Rights,
         NEW u, u = [s EXCEPT !.index[o].rights = R]
  PROVE  Reindexed(s, u, o, s.index[o].names, R)
<1>1. {} \in SUBSET Names
  OBVIOUS
<1>2. Reindexed(s, [s EXCEPT !.index[o].rights = R], o, s.index[o].names, R)
  BY <1>1, ReindexedIs
<1> QED
  BY ONLY <1>2, u = [s EXCEPT !.index[o].rights = R]

LEMMA ReindexedNames ==
  ASSUME NEW s \in Spaces, NEW o \in Objects, NEW N \in SUBSET Names,
         NEW u, u = [s EXCEPT !.index[o].names = N]
  PROVE  Reindexed(s, u, o, N, s.index[o].rights)
<1>1. {} \in SUBSET Rights
  OBVIOUS
<1>2. Reindexed(s, [s EXCEPT !.index[o].names = N], o, N, s.index[o].rights)
  BY <1>1, ReindexedIs
<1> QED
  BY ONLY <1>2, u = [s EXCEPT !.index[o].names = N]

\* The search that ends as soon as all the previous rights are found finds the
\* rights that a whole search would, since none has been added.
LEMMA RefreshIs ==
  ASSUME NEW s \in Spaces, NEW o \in Objects,
         Types(s, s.index[o].names) \subseteq s.index[o].rights
  PROVE  Reindexed(s, Refresh(s, o), o, s.index[o].names, Types(s, s.index[o].names))
<1> DEFINE names == s.index[o].names
           UpTo(n) == Types(s, {m \in names : m <= n})
           enough == {n \in names : s.index[o].rights \subseteq UpTo(n)}
           R == IF enough = {} THEN Types(s, names) ELSE UpTo(Min(enough))
<1>1. names \in SUBSET Names
  BY DEF Spaces
<1>2. R = Types(s, names)
  <2>1. CASE enough # {}
    <3>1. Min(enough) \in enough
      BY <1>1, <2>1, MinIs
    <3>2. s.index[o].rights \subseteq UpTo(Min(enough))
      BY <3>1
    <3>3. UpTo(Min(enough)) \subseteq Types(s, names)
      BY DEF Types
    <3> QED
      BY <2>1, <3>2, <3>3
  <2> QED
    BY <2>1
<1>3. Refresh(s, o) = [s EXCEPT !.index[o].rights = R]
  BY DEF Refresh
<1>4. Types(s, names) \in SUBSET Rights
  BY <1>1, TypesIs
<1> DEFINE u == Refresh(s, o)
<1>5. u = [s EXCEPT !.index[o].rights = Types(s, names)]
  BY <1>2, <1>3
<1> HIDE DEF R, u
<1>6. Reindexed(s, u, o, names, Types(s, names))
  BY <1>4, <1>5, ReindexedRights
<1> QED
  BY <1>6 DEF u

\* A name that joins those of an object.
LEMMA IndexNameIs ==
  ASSUME NEW s \in Spaces, NEW o \in Objects, NEW n \in Names
  PROVE  Reindexed(s, IndexName(s, o, n), o, s.index[o].names \cup {n},
                   s.index[o].rights \cup s.entries[n].type)
<1> DEFINE N == s.index[o].names \cup {n}
           R == s.index[o].rights \cup s.entries[n].type
<1>1. N \in SUBSET Names /\ R \in SUBSET Rights
  BY EntriesType DEF Spaces
<1>2. IndexName(s, o, n) = [s EXCEPT !.index[o] = [names |-> N, rights |-> R]]
  BY DEF IndexName, Spaces
<1> HIDE DEF N, R
<1>3. Reindexed(s, IndexName(s, o, n), o, N, R)
  BY <1>1, <1>2, ReindexedWhole
<1> QED
  BY <1>3 DEF N, R

\* Reindexing twice.
LEMMA ReindexedTwice ==
  ASSUME NEW s, NEW u, NEW v, NEW o, NEW N, NEW R, NEW N2, NEW R2,
         Reindexed(s, u, o, N, R), Reindexed(u, v, o, N2, R2)
  PROVE  Reindexed(s, v, o, N2, R2)
BY DEF Reindexed

\* A name that leaves those of an object.
LEMMA UnindexNameIs ==
  ASSUME NEW s \in Spaces, NEW o \in Objects, NEW n \in Names,
         Types(s, s.index[o].names \ {n}) \subseteq s.index[o].rights
  PROVE  Reindexed(s, UnindexName(s, o, n), o, s.index[o].names \ {n},
                   Types(s, s.index[o].names \ {n}))
<1> DEFINE N == s.index[o].names \ {n}
           u == [s EXCEPT !.index[o].names = N]
<1>1. N \in SUBSET Names /\ s.index[o] \in [names: SUBSET Names, rights: SUBSET Rights]
  BY DEF Spaces
<1>2. Reindexed(s, u, o, N, s.index[o].rights)
  BY <1>1, ReindexedNames
<1>3. UnindexName(s, o, n) =
         IF u.index[o].names = {} THEN [u EXCEPT !.index[o] = Unnamed] ELSE Refresh(u, o)
  BY DEF UnindexName
<1> HIDE DEF u
<1>4. u \in Spaces /\ u.index[o].names = N /\ u.index[o].rights = s.index[o].rights
  BY <1>2 DEF Reindexed
<1>5. Types(u, N) = Types(s, N)
  BY <1>2 DEF Reindexed, Types
<1>6. CASE N = {}
  <2>1. Types(s, N) = {}
    BY <1>6 DEF Types
  <2>2. Reindexed(u, [u EXCEPT !.index[o] = [names |-> {}, rights |-> {}]], o, {}, {})
    BY <1>4, ReindexedWhole
  <2>3. Reindexed(u, UnindexName(s, o, n), o, N, Types(s, N))
    BY <1>3, <1>4, <1>6, <2>1, <2>2 DEF Unnamed
  <2> HIDE DEF N
  <2>4. Reindexed(s, UnindexName(s, o, n), o, N, Types(s, N))
    BY <1>2, <2>3, ReindexedTwice
  <2> QED
    BY <2>4 DEF N
<1>7. CASE N # {}
  <2>1. Reindexed(u, Refresh(u, o), o, N, Types(s, N))
    BY <1>4, <1>5, RefreshIs
  <2>2. UnindexName(s, o, n) = Refresh(u, o)
    BY <1>3, <1>4, <1>7
  <2> HIDE DEF N
  <2>3. Reindexed(s, UnindexName(s, o, n), o, N, Types(s, N))
    BY <1>2, <2>1, <2>2, ReindexedTwice
  <2> QED
    BY <2>3 DEF N
<1> QED
  BY <1>6, <1>7

-----------------------------------------------------------------------------
(* The operations of a space keep its index.                               *)
IndexedAt(s, o) ==
    s.index[o].names = Named(s, o) /\ s.index[o].rights = Types(s, Named(s, o))

\* An entry that replaces another.
Put(s, n, e) == [s EXCEPT !.entries[n] = e]
LEMMA PutIs ==
  ASSUME NEW s \in Spaces, NEW n \in Names, NEW e \in Entries,
         NEW u, u = Put(s, n, e)
  PROVE  /\ u \in Spaces
         /\ u.next_name = s.next_name /\ u.index = s.index
         /\ u.entries[n] = e
         /\ \A m \in Names \ {n} : u.entries[m] = s.entries[m]
<1>1. s.entries \in [Names -> Entries]
  BY DEF Spaces
<1>2. [s.entries EXCEPT ![n] = e] \in [Names -> Entries]
  BY <1>1
<1>3. u = [s EXCEPT !.entries = [s.entries EXCEPT ![n] = e]]
  BY DEF Put
<1>4. u.entries = [s.entries EXCEPT ![n] = e]
  BY <1>3 DEF Spaces
<1>5. u \in Spaces /\ u.next_name = s.next_name /\ u.index = s.index
  BY <1>2, <1>3 DEF Spaces
<1> QED
  BY <1>1, <1>4, <1>5

\* An object that a name neither had nor has keeps its index.
LEMMA IndexedElsewhere ==
  ASSUME NEW s, NEW u, NEW o, IndexedAt(s, o), u.index[o] = s.index[o],
         NEW n, \A m \in Names \ {n} : u.entries[m] = s.entries[m],
         s.entries[n].object # o, u.entries[n].object # o
  PROVE  IndexedAt(u, o)
<1>1. \A m : m \in Named(u, o) <=> m \in Named(s, o)
  BY DEF Named
<1>2. \A m \in Named(s, o) : u.entries[m] = s.entries[m]
  BY DEF Named
<1>3. Named(u, o) = Named(s, o)
  BY <1>1
<1>4. Types(u, Named(u, o)) = Types(s, Named(s, o))
  BY <1>2, <1>3 DEF Types
<1> QED
  BY <1>3, <1>4 DEF IndexedAt

\* A space whose one new entry is indexed is well formed.
LEMMA UpdatedIs ==
  ASSUME NEW s, Well(s), NEW n \in Names, NEW e, EntryOK(e), NEW u \in Spaces,
         u.next_name = s.next_name, u.entries[n] = e,
         \A m \in Names \ {n} : u.entries[m] = s.entries[m],
         \A o \in Objects : o # e.object /\ o # s.entries[n].object => u.index[o] = s.index[o],
         \A o \in Objects : o = e.object \/ o = s.entries[n].object => IndexedAt(u, o)
  PROVE  Updated(s, u, n, e)
<1>1. \A m \in Names : EntryOK(u.entries[m])
  BY DEF Well
<1>2. ASSUME NEW o \in Objects PROVE IndexedAt(u, o)
  <2>1. CASE o = e.object \/ o = s.entries[n].object
    BY <2>1
  <2>2. CASE o # e.object /\ o # s.entries[n].object
    <3>1. IndexedAt(s, o)
      BY DEF Well, Indexed, IndexedAt
    <3>2. u.index[o] = s.index[o]
      BY <2>2
    <3> QED
      BY <2>2, <3>1, <3>2, IndexedElsewhere
  <2> QED
    BY <2>1, <2>2
<1> QED
  BY <1>1, <1>2 DEF Updated, Well, Indexed, IndexedAt

\* An entry that is a name of its object is one of the names the index has.
LEMMA WellNames ==
  ASSUME NEW s, Well(s), NEW n \in Names
  PROVE  /\ s \in Spaces /\ EntryOK(s.entries[n])
         /\ Contains(s, n) => /\ s.entries[n].object \in Objects
                              /\ n \in s.index[s.entries[n].object].names
         /\ \A o \in Objects : n \in s.index[o].names =>
               s.entries[n].object = o /\ Contains(s, n)
         /\ \A o \in Objects : IndexedAt(s, o)
<1>1. s \in Spaces /\ EntryOK(s.entries[n]) /\ \A o \in Objects : IndexedAt(s, o)
  BY DEF Well, Indexed, IndexedAt
<1>2. s.entries[n].object \in Objects \cup {NoObject}
  BY <1>1, EntriesType
<1>3. Contains(s, n) <=> s.entries[n].object # NoObject
  BY <1>1 DEF EntryOK, Contains
<1>4. \A o \in Objects : n \in s.index[o].names <=> s.entries[n].object = o
  BY <1>1 DEF IndexedAt, Named
<1> QED
  BY <1>1, <1>2, <1>3, <1>4, NamesAssumption

\* A right that arrives at a name of its object.
LEMMA InstallAdds ==
  ASSUME NEW s, Well(s), NEW n \in Names, NEW r \in Rights, Contains(s, n),
         NEW o, o = s.entries[n].object
  PROVE  Updated(s, Install(s, n, o, r), n, AddType(s.entries[n], r))
<1> DEFINE e == AddType(s.entries[n], r)
           v == Put(s, n, e)
           R == s.index[o].rights \cup {r}
           u == Install(s, n, o, r)
<1>1. /\ s \in Spaces /\ EntryOK(s.entries[n]) /\ o \in Objects /\ o # NoObject
      /\ IndexedAt(s, o) /\ n \in Named(s, o)
  BY WellNames, NamesAssumption DEF Named
<1>2. EntryOK(e) /\ e.object = o /\ e.type = s.entries[n].type \cup {r}
  BY <1>1, AddTypeOK
<1>3. /\ v \in Spaces /\ v.next_name = s.next_name /\ v.index = s.index
      /\ v.entries[n] = e /\ \A m \in Names \ {n} : v.entries[m] = s.entries[m]
  BY <1>1, <1>2, PutIs DEF EntryOK
<1>4. R \in SUBSET Rights
  BY <1>1 DEF Spaces
<1>5. u = [v EXCEPT !.index[o].rights = R]
  BY DEF Install, Put
<1> HIDE DEF e, v, R, u
<1>6. Reindexed(v, u, o, s.index[o].names, R)
  BY <1>1, <1>3, <1>4, <1>5, ReindexedRights
<1>7. /\ u \in Spaces /\ u.next_name = s.next_name /\ u.entries = v.entries
      /\ \A q \in Objects \ {o} : u.index[q] = s.index[q]
      /\ u.index[o].names = s.index[o].names /\ u.index[o].rights = R
  BY <1>3, <1>6 DEF Reindexed
<1>8. Named(u, o) = Named(s, o)
  BY <1>1, <1>2, <1>3, <1>7 DEF Named
<1>9. Types(u, Named(s, o)) = Types(s, Named(s, o)) \cup {r}
  <2>1. \A q : q \in Types(u, Named(s, o)) <=> \E m \in Named(s, o) : q \in u.entries[m].type
    BY DEF Types
  <2>2. \A q : q \in Types(s, Named(s, o)) <=> \E m \in Named(s, o) : q \in s.entries[m].type
    BY DEF Types
  <2>3. \A m \in Named(s, o) : m \in Names
    BY DEF Named
  <2> QED
    BY <1>1, <1>2, <1>3, <1>7, <2>1, <2>2, <2>3
<1>10. IndexedAt(u, o)
  BY <1>1, <1>7, <1>8, <1>9 DEF IndexedAt, R
<1>11. /\ \A q \in Objects : q # e.object /\ q # s.entries[n].object => u.index[q] = s.index[q]
       /\ \A q \in Objects : q = e.object \/ q = s.entries[n].object => IndexedAt(u, q)
       /\ u.entries[n] = e /\ \A m \in Names \ {n} : u.entries[m] = s.entries[m]
  BY <1>2, <1>3, <1>7, <1>10
<1>12. Updated(s, u, n, e)
  BY <1>2, <1>7, <1>11, UpdatedIs
<1> QED
  BY <1>12 DEF u, e

\* A right that arrives at a free name.
LEMMA InstallMakes ==
  ASSUME NEW s, Well(s), NEW n \in Names, NEW o \in Objects, NEW r \in Rights, ~Contains(s, n)
  PROVE  Updated(s, Install(s, n, o, r), n, MakeEntry(o, r))
<1> DEFINE e == MakeEntry(o, r)
           v == Put(s, n, e)
           u == Install(s, n, o, r)
<1>1. /\ s \in Spaces /\ IndexedAt(s, o) /\ s.entries[n].object = NoObject
      /\ o # NoObject /\ n \notin Named(s, o)
  BY WellNames, NamesAssumption DEF Named, Contains, EntryOK
<1>2. EntryOK(e) /\ e.object = o /\ e.type = {r}
  BY MakeEntryOK
<1>3. /\ v \in Spaces /\ v.next_name = s.next_name /\ v.index = s.index
      /\ v.entries[n] = e /\ \A m \in Names \ {n} : v.entries[m] = s.entries[m]
  <2>1. e \in Entries
    BY <1>2 DEF EntryOK
  <2> HIDE DEF e
  <2> QED
    BY <1>1, <2>1, PutIs
<1>4. u = IndexName(v, o, n)
  BY DEF Install, Put
<1> HIDE DEF e, v, u
<1>12. Reindexed(v, u, o, v.index[o].names \cup {n}, v.index[o].rights \cup v.entries[n].type)
  BY <1>3, <1>4, IndexNameIs
<1>6. /\ u \in Spaces /\ u.next_name = s.next_name /\ u.entries = v.entries
      /\ \A q \in Objects \ {o} : u.index[q] = s.index[q]
      /\ u.index[o].names = s.index[o].names \cup {n}
      /\ u.index[o].rights = s.index[o].rights \cup {r}
  BY <1>2, <1>3, <1>12 DEF Reindexed
<1>7. Named(u, o) = Named(s, o) \cup {n}
  BY <1>1, <1>2, <1>3, <1>6 DEF Named
<1>8. Types(u, Named(u, o)) = Types(s, Named(s, o)) \cup {r}
  <2>1. \A q : q \in Types(u, Named(u, o)) <=> \E m \in Named(u, o) : q \in u.entries[m].type
    BY DEF Types
  <2>2. \A q : q \in Types(s, Named(s, o)) <=> \E m \in Named(s, o) : q \in s.entries[m].type
    BY DEF Types
  <2>3. \A m \in Named(s, o) : u.entries[m] = s.entries[m]
    BY <1>1, <1>3, <1>6 DEF Named
  <2>4. u.entries[n].type = {r}
    BY <1>2, <1>3, <1>6
  <2>5. \A q : q \in Types(u, Named(u, o)) <=> q \in Types(s, Named(s, o)) \/ q = r
    BY <1>7, <2>1, <2>2, <2>3, <2>4
  <2> QED
    BY <2>5
<1>9. IndexedAt(u, o)
  BY <1>1, <1>6, <1>7, <1>8 DEF IndexedAt
<1>10. /\ \A q \in Objects : q # e.object /\ q # s.entries[n].object => u.index[q] = s.index[q]
       /\ \A q \in Objects : q = e.object \/ q = s.entries[n].object => IndexedAt(u, q)
       /\ u.entries[n] = e /\ \A m \in Names \ {n} : u.entries[m] = s.entries[m]
  BY <1>1, <1>2, <1>3, <1>6, <1>9, NamesAssumption
<1>11. Updated(s, u, n, e)
  BY <1>2, <1>6, <1>10, UpdatedIs
<1> QED
  BY <1>11 DEF u, e

(* u is s with the right r to o more at the name n.                        *)
Gains(s, u, n, o, r) ==
    /\ Well(u)
    /\ \A m \in Names \ {n} : u.entries[m] = s.entries[m]
    /\ ~Contains(s, n) \/ s.entries[n].object = o
    /\ u.entries[n].object = o
    /\ u.entries[n].type = s.entries[n].type \cup {r}

(* u is s with the rights K left at the name n.                            *)
Leaves(s, u, n, K) ==
    /\ Well(u)
    /\ \A m \in Names \ {n} : u.entries[m] = s.entries[m]
    /\ u.entries[n].type = K
    /\ K # {} => u.entries[n].object = s.entries[n].object

\* install gives a right to a name that is free or has the object.
LEMMA InstallGains ==
  ASSUME NEW s, Well(s), NEW n \in Names, NEW o \in Objects, NEW r \in Rights,
         ~Contains(s, n) \/ s.entries[n].object = o
  PROVE  Gains(s, Install(s, n, o, r), n, o, r)
<1>1. s \in Spaces /\ EntryOK(s.entries[n])
  BY WellNames
<1>2. CASE Contains(s, n)
  <2>1. Updated(s, Install(s, n, o, r), n, AddType(s.entries[n], r))
    BY <1>2, InstallAdds
  <2>2. /\ AddType(s.entries[n], r).object = s.entries[n].object
        /\ AddType(s.entries[n], r).type = s.entries[n].type \cup {r}
    BY <1>1, <1>2, AddTypeOK, NamesAssumption
  <2> QED
    BY <1>2, <2>1, <2>2 DEF Updated, Gains
<1>3. CASE ~Contains(s, n)
  <2>1. Updated(s, Install(s, n, o, r), n, MakeEntry(o, r))
    BY <1>3, InstallMakes
  <2>2. MakeEntry(o, r).object = o /\ MakeEntry(o, r).type = {r}
    BY MakeEntryOK
  <2>3. s.entries[n].type = {}
    BY <1>3 DEF Contains
  <2> QED
    BY <1>3, <2>1, <2>2, <2>3 DEF Updated, Gains
<1> QED
  BY <1>2, <1>3

\* The place where the search for a free name continues.
LEMMA NextNameIs ==
  ASSUME NEW s, Well(s), NEW k \in FirstDynamic..LastName,
         NEW u, u = [s EXCEPT !.next_name = k]
  PROVE  Well(u) /\ u.entries = s.entries
<1>1. u.entries = s.entries /\ u.index = s.index /\ u \in Spaces
  BY DEF Well, Spaces
<1>2. \A o \in Objects : Named(u, o) = Named(s, o) /\ Types(u, Named(u, o)) = Types(s, Named(s, o))
  BY <1>1 DEF Named, Types
<1> QED
  BY <1>1, <1>2 DEF Well, Indexed

\* allocate gives a right to a free name.
LEMMA AllocateGains ==
  ASSUME NEW s, Well(s), NEW o \in Objects, NEW r \in Rights, Candidates(s) # {}
  PROVE  \E n \in Names : ~Contains(s, n) /\ Gains(s, Allocate(s, o, r), n, o, r)
<1> DEFINE n == Min(Candidates(s))
           v == Install(s, n, o, r)
           k == IF n < LastName THEN n + 1 ELSE v.next_name
<1>1. /\ s.next_name \in FirstDynamic..LastName
      /\ FirstDynamic \in Nat /\ FirstDynamic >= 1 /\ LastName \in Nat
  BY NamesAssumption DEF Well, Spaces
<1>2. Candidates(s) \in SUBSET Names
  BY <1>1 DEF Candidates, Names
<1>3. n \in Candidates(s) /\ n \in Names
  BY <1>2, MinIs
<1>4. ~Contains(s, n) /\ n \in s.next_name..LastName
  BY <1>3 DEF Candidates
<1>5. Allocate(s, o, r) = [v EXCEPT !.next_name = k]
  BY DEF Allocate
<1> HIDE DEF n
<1>6. Gains(s, v, n, o, r)
  BY <1>3, <1>4, InstallGains
<1>7. v.next_name \in FirstDynamic..LastName
  BY <1>6 DEF Gains, Well, Spaces
<1> HIDE DEF v
<1>8. k \in FirstDynamic..LastName
  BY <1>1, <1>4, <1>7
<1> HIDE DEF k
<1>9. Well(Allocate(s, o, r)) /\ Allocate(s, o, r).entries = v.entries
  BY <1>5, <1>6, <1>8, NextNameIs DEF Gains
<1>10. Gains(s, Allocate(s, o, r), n, o, r)
  BY <1>6, <1>9 DEF Gains
<1> QED
  BY <1>3, <1>4, <1>10

(* A right to o may be given to the name n: no other name has the send and *)
(* receive rights, and a send-once right gets a name of its own.           *)
Whole == {"Send", "Receive"}
OneName(s, o, n) ==
    \A m \in Names \ {n} : s.entries[m].object = o => s.entries[m].type \cap Whole = {}
Fits(s, n, o, r) ==
    /\ \/ ~Contains(s, n)
       \/ s.entries[n].object = o /\ r # "SendOnce" /\ ~Has(s, n, "SendOnce")
    /\ r # "SendOnce" => OneName(s, o, n)

(* One name for the rights of a port; the rights of ports are send and     *)
(* receive rights.                                                         *)
NamedOnce(s) ==
    \A n \in Names : /\ Has(s, n, "SendOnce") => s.entries[n].type = {"SendOnce"}
                     /\ s.entries[n].type \cap Whole # {} => OneName(s, s.entries[n].object, n)
OnlyPort(s, o) == \A n \in Names : s.entries[n].object = o => s.entries[n].type \subseteq PortRights

\* A right to a port of which a name has the send or the receive right fits there.
LEMMA FitsNamed ==
  ASSUME NEW s, NamedOnce(s), NEW n \in Names, s.entries[n].type \cap Whole # {},
         NEW o, o = s.entries[n].object, NEW r, r # "SendOnce"
  PROVE  Fits(s, n, o, r)
<1>1. ~Has(s, n, "SendOnce")
  BY DEF NamedOnce, Whole
<1> QED
  BY <1>1 DEF NamedOnce, Fits

\* If a right to a port cannot share a name, no name has the send or the receive
\* right.
LEMMA NoAliasFits ==
  ASSUME NEW s, NamedOnce(s), NEW o, IndexedAt(s, o), NEW r, r # "SendOnce",
         ~Shares(s, o, r), NEW n
  PROVE  OneName(s, o, n)
<1>1. SUFFICES ASSUME NEW m \in Names \ {n}, s.entries[m].object = o
               PROVE  s.entries[m].type \cap Whole = {}
  BY DEF OneName
<1>2. m \in Names /\ m \in Named(s, o) /\ Aliases(s, o) = {}
  BY <1>1 DEF Named, Shares
<1>3. s.entries[m].type = {"SendOnce"}
  BY <1>2 DEF Aliases, NamedOnce, IndexedAt
<1> QED
  BY <1>3 DEF Whole

\* copyout gives a right to the name that the task has for the port, or to a
\* free one: never to a second name, and never to the name of a send-once right.
LEMMA CopyoutGains ==
  ASSUME NEW s, Well(s), NEW o \in Objects, NEW r \in PortRights,
         NamedOnce(s), OnlyPort(s, o), CanCopyout(s, o, r)
  PROVE  \E n \in Names : Gains(s, Copyout(s, o, r), n, o, r) /\ Fits(s, n, o, r)
<1>1. /\ s \in Spaces /\ IndexedAt(s, o) /\ r \in Rights
      /\ s.index[o].names = Named(s, o)
  BY WellNames, NamesAssumption DEF Well, IndexedAt, Indexed, PortRights, Sending, Rights
<1>2. Aliases(s, o) \in SUBSET Names
  BY <1>1 DEF Aliases, Named
<1>3. \A n \in Aliases(s, o) : s.entries[n].object = o /\ s.entries[n].type \cap Whole # {} /\ Contains(s, n)
  <2>1. ASSUME NEW n \in Aliases(s, o)
        PROVE  s.entries[n].object = o /\ s.entries[n].type \cap Whole # {} /\ Contains(s, n)
    <3>1. n \in Names /\ s.entries[n].object = o /\ ~Has(s, n, "SendOnce") /\ Contains(s, n)
      BY <1>1, <2>1, WellNames DEF Aliases, Named
    <3>2. s.entries[n].type \subseteq PortRights
      BY <3>1 DEF OnlyPort
    <3> QED
      BY <3>1, <3>2 DEF Has, Contains, PortRights, Sending, Whole
  <2> QED
    BY <2>1
<1>4. CASE Shares(s, o, r)
  <2> DEFINE n == Min(Aliases(s, o))
  <2>1. r # "SendOnce" /\ n \in Aliases(s, o) /\ n \in Names
    BY <1>2, <1>4, MinIs DEF Shares
  <2>2. Copyout(s, o, r) = Install(s, n, o, r)
    BY <1>4 DEF Copyout
  <2> HIDE DEF n
  <2>3. Gains(s, Copyout(s, o, r), n, o, r)
    BY <1>1, <1>3, <2>1, <2>2, InstallGains
  <2>4. Fits(s, n, o, r)
    BY <1>3, <2>1, FitsNamed
  <2> QED
    BY <2>1, <2>3, <2>4
<1>5. CASE ~Shares(s, o, r)
  <2>1. Candidates(s) # {} /\ Copyout(s, o, r) = Allocate(s, o, r)
    BY <1>5 DEF CanCopyout, Copyout
  <2>2. PICK n \in Names : ~Contains(s, n) /\ Gains(s, Allocate(s, o, r), n, o, r)
    BY <1>1, <2>1, AllocateGains
  <2>3. r # "SendOnce" => OneName(s, o, n)
    BY <1>1, <1>5, NoAliasFits
  <2> QED
    BY <2>1, <2>2, <2>3 DEF Fits
<1> QED
  BY <1>4, <1>5

\* The same with a preferred name.
LEMMA CopyoutAtNameGains ==
  ASSUME NEW s, Well(s), NEW o \in Objects, NEW r \in PortRights, NEW p \in Names,
         NamedOnce(s), OnlyPort(s, o), CanCopyout(s, o, r)
  PROVE  \E n \in Names : Gains(s, CopyoutAtName(s, o, r, p), n, o, r) /\ Fits(s, n, o, r)
<1>1. IndexedAt(s, o) /\ r \in Rights
  BY DEF Well, IndexedAt, Indexed, PortRights, Sending, Rights
<1>2. CASE Shares(s, o, r) \/ Contains(s, p)
  BY <1>2, CopyoutGains DEF CopyoutAtName
<1>3. CASE ~Shares(s, o, r) /\ ~Contains(s, p)
  <2>1. CopyoutAtName(s, o, r, p) = Install(s, p, o, r)
    BY <1>3 DEF CopyoutAtName
  <2>2. Gains(s, Install(s, p, o, r), p, o, r)
    BY <1>1, <1>3, InstallGains
  <2>3. r # "SendOnce" => OneName(s, o, p)
    BY <1>1, <1>3, NoAliasFits
  <2> QED
    BY <1>3, <2>1, <2>2, <2>3 DEF Fits
<1> QED
  BY <1>2, <1>3

(* s is well formed but for the entry of o at n, which may lack rights     *)
(* that the index has.                                                     *)
Loosely(s, n, o) ==
    /\ s \in Spaces
    /\ s.entries[n].object = o
    /\ \A m \in Names \ {n} : EntryOK(s.entries[m])
    /\ \A q \in Objects \ {o} : IndexedAt(s, q)
    /\ s.index[o].names = Named(s, o)
    /\ Types(s, Named(s, o)) \subseteq s.index[o].rights

\* The rights of fewer names.
LEMMA TypesGrow ==
  ASSUME NEW s, NEW M, NEW N, M \subseteq N
  PROVE  Types(s, M) \subseteq Types(s, N)
BY DEF Types

\* The rights of names whose entries are the same.
LEMMA TypesSame ==
  ASSUME NEW s, NEW u, NEW N, \A n \in N : u.entries[n] = s.entries[n]
  PROVE  Types(u, N) = Types(s, N)
<1>1. \A r : r \in Types(u, N) <=> \E n \in N : r \in u.entries[n].type
  BY DEF Types
<1>2. \A r : r \in Types(s, N) <=> \E n \in N : r \in s.entries[n].type
  BY DEF Types
<1>3. \A r : r \in Types(u, N) <=> r \in Types(s, N)
  BY <1>1, <1>2
<1> QED
  BY <1>3

\* destroy_entry takes the entry and its name from the index.
LEMMA DestroyEntryLeaves ==
  ASSUME NEW s, NEW n \in Names, NEW o \in Objects, Loosely(s, n, o)
  PROVE  Leaves(s, DestroyEntry(s, n), n, {})
<1> DEFINE N == Named(s, o) \ {n}
           v == UnindexName(s, o, n)
           u == Put(v, n, NoEntry)
<1>1. /\ s \in Spaces /\ s.entries[n].object = o /\ o # NoObject
      /\ s.index[o].names = Named(s, o) /\ Types(s, Named(s, o)) \subseteq s.index[o].rights
  BY NamesAssumption DEF Loosely
<1>2. Types(s, N) \subseteq s.index[o].rights
  BY <1>1, TypesGrow
<1>3. DestroyEntry(s, n) = u
  BY <1>1 DEF DestroyEntry, Put
<1>4. Reindexed(s, v, o, N, Types(s, N))
  BY <1>1, <1>2, UnindexNameIs
<1> HIDE DEF v
<1>5. EntryOK(NoEntry) /\ NoEntry \in Entries /\ NoEntry.object = NoObject /\ NoEntry.type = {}
  BY NoEntryOK DEF EntryOK
<1>6. /\ u \in Spaces /\ u.index = v.index /\ u.entries[n] = NoEntry
      /\ \A m \in Names \ {n} : u.entries[m] = v.entries[m]
  BY <1>4, <1>5, PutIs DEF Reindexed
<1> HIDE DEF u
<1>7. /\ v.entries = s.entries /\ u.index[o].names = N /\ u.index[o].rights = Types(s, N)
      /\ \A q \in Objects \ {o} : u.index[q] = s.index[q]
  BY <1>4, <1>6 DEF Reindexed
<1>8. Named(u, o) = N
  BY <1>1, <1>5, <1>6, <1>7 DEF Named
<1>9. Types(u, N) = Types(s, N)
  <2>1. \A m \in N : u.entries[m] = s.entries[m]
    BY <1>6, <1>7 DEF Named
  <2> QED
    BY <2>1, TypesSame
<1>10. IndexedAt(u, o)
  BY <1>7, <1>8, <1>9 DEF IndexedAt
<1>11. \A q \in Objects \ {o} : IndexedAt(u, q)
  <2>1. SUFFICES ASSUME NEW q \in Objects \ {o} PROVE IndexedAt(u, q)
    OBVIOUS
  <2>2. IndexedAt(s, q) /\ u.index[q] = s.index[q]
    BY <1>7 DEF Loosely
  <2>3. s.entries[n].object # q /\ u.entries[n].object # q
    BY <1>1, <1>5, <1>6, NamesAssumption
  <2>4. \A m \in Names \ {n} : u.entries[m] = s.entries[m]
    BY <1>6, <1>7
  <2> QED
    BY <2>2, <2>3, <2>4, IndexedElsewhere
<1>12. \A m \in Names : EntryOK(u.entries[m])
  BY <1>5, <1>6, <1>7 DEF Loosely
<1>13. Well(u)
  <2>1. \A q \in Objects : IndexedAt(u, q)
    BY <1>10, <1>11
  <2> QED
    BY <1>6, <1>12, <2>1 DEF Well, Indexed, IndexedAt
<1>14. Leaves(s, u, n, {})
  BY <1>5, <1>6, <1>7, <1>13 DEF Leaves
<1> QED
  BY <1>3, <1>14

\* remove_type leaves the other rights, or no entry.
LEMMA RemoveTypeLeaves ==
  ASSUME NEW s, Well(s), NEW n \in Names, NEW r \in s.entries[n].type
  PROVE  Leaves(s, RemoveType(s, n, r), n, s.entries[n].type \ {r})
<1> DEFINE o == s.entries[n].object
           e == LoseType(s.entries[n], r)
           d == Put(s, n, e)
<1>1. /\ s \in Spaces /\ EntryOK(s.entries[n]) /\ Contains(s, n) /\ o \in Objects /\ r \in Rights
      /\ \A q \in Objects : IndexedAt(s, q)
  BY WellNames, EntriesType DEF Contains
<1>2. /\ e.object = o /\ e.type = s.entries[n].type \ {r} /\ e \in Entries
      /\ e.type # {} => EntryOK(e)
  BY <1>1, LoseTypeOK
<1>4. RemoveType(s, n, r) = IF Contains(d, n) THEN Refresh(d, o) ELSE DestroyEntry(d, n)
  BY DEF RemoveType, Put, LoseType
<1> HIDE DEF e, o
<1>5. /\ d \in Spaces /\ d.index = s.index /\ d.entries[n] = e
      /\ \A m \in Names \ {n} : d.entries[m] = s.entries[m]
  BY <1>1, <1>2, PutIs
<1> HIDE DEF d
<1>6. Named(d, o) = Named(s, o)
  BY <1>2, <1>5 DEF Named, o
<1>7. Types(d, Named(s, o)) \subseteq Types(s, Named(s, o))
  <2>1. \A m \in Named(s, o) : d.entries[m].type \subseteq s.entries[m].type
    BY <1>2, <1>5 DEF Named
  <2> QED
    BY <2>1 DEF Types
<1>8. \A q \in Objects \ {o} : IndexedAt(d, q)
  <2>1. SUFFICES ASSUME NEW q \in Objects \ {o} PROVE IndexedAt(d, q)
    OBVIOUS
  <2>2. IndexedAt(s, q) /\ d.index[q] = s.index[q]
    BY <1>1, <1>5
  <2>3. s.entries[n].object # q /\ d.entries[n].object # q
    BY <1>2, <1>5 DEF o
  <2> QED
    BY <1>5, <2>2, <2>3, IndexedElsewhere
<1>9. s.index[o].names = Named(s, o) /\ s.index[o].rights = Types(s, Named(s, o))
  BY <1>1 DEF IndexedAt
<1>10. \A m \in Names \ {n} : EntryOK(d.entries[m])
  BY <1>5 DEF Well
<1>11. Loosely(d, n, o)
  BY <1>2, <1>5, <1>6, <1>7, <1>8, <1>9, <1>10 DEF Loosely
<1>12. CASE ~Contains(d, n)
  <2>1. Leaves(d, DestroyEntry(d, n), n, {})
    BY <1>1, <1>11, DestroyEntryLeaves
  <2>2. s.entries[n].type \ {r} = {}
    BY <1>2, <1>5, <1>12 DEF Contains
  <2> QED
    BY <1>4, <1>5, <1>12, <2>1, <2>2 DEF Leaves
<1>13. CASE Contains(d, n)
  <2> DEFINE u == Refresh(d, o)
  <2>1. Reindexed(d, u, o, Named(s, o), Types(d, Named(s, o)))
    BY <1>1, <1>5, <1>7, <1>9, RefreshIs
  <2> HIDE DEF u
  <2>2. /\ u \in Spaces /\ u.entries = d.entries
        /\ \A q \in Objects \ {o} : u.index[q] = d.index[q]
        /\ u.index[o].names = Named(s, o) /\ u.index[o].rights = Types(d, Named(s, o))
    BY <2>1 DEF Reindexed
  <2>3. \A q : Named(u, q) = Named(d, q) /\ Types(u, Named(d, q)) = Types(d, Named(d, q))
    BY <2>2 DEF Named, Types
  <2>4. \A q \in Objects : IndexedAt(u, q)
    BY <1>6, <1>8, <2>2, <2>3 DEF IndexedAt
  <2>5. EntryOK(e)
    BY <1>2, <1>5, <1>13 DEF Contains
  <2>6. Well(u)
    BY <1>5, <1>10, <2>2, <2>4, <2>5 DEF Well, Indexed, IndexedAt
  <2>7. Leaves(s, u, n, s.entries[n].type \ {r})
    BY <1>2, <1>5, <2>2, <2>6 DEF Leaves, o
  <2> QED
    BY <1>4, <1>13, <2>7 DEF u
<1> QED
  BY <1>12, <1>13

\* modify_references counts, or removes the type with its last reference.
LEMMA ModifyReferencesLeaves ==
  ASSUME NEW s, Well(s), NEW n \in Names, NEW r \in s.entries[n].type, NEW k \in Int,
         r = "SendOnce" => k = -1,
         s.entries[n].refs[r] + k \in 0..Limit(r)
  PROVE  /\ s.entries[n].refs[r] + k = 0 =>
               Leaves(s, ModifyReferences(s, n, r, k), n, s.entries[n].type \ {r})
         /\ s.entries[n].refs[r] + k # 0 =>
               Leaves(s, ModifyReferences(s, n, r, k), n, s.entries[n].type)
<1>1. CASE s.entries[n].refs[r] + k = 0
  BY <1>1, RemoveTypeLeaves DEF ModifyReferences
<1>2. CASE s.entries[n].refs[r] + k # 0
  <2> DEFINE e == Counted(s.entries[n], r, k)
             o == s.entries[n].object
             u == Put(s, n, e)
  <2>1. /\ s \in Spaces /\ EntryOK(s.entries[n]) /\ Contains(s, n) /\ o \in Objects /\ r \in Rights
        /\ \A q \in Objects : IndexedAt(s, q)
    BY WellNames, EntriesType DEF Contains
  <2>2. r # "SendOnce"
    <3>1. s.entries[n].refs["SendOnce"] \in 0..MaxRefs
      BY <2>1 DEF EntryOK, Entries, Rights
    <3> QED
      BY <1>2, <2>1, <3>1, NamesAssumption DEF EntryOK
  <2>3. EntryOK(e) /\ e.object = o /\ e.type = s.entries[n].type
    BY <1>2, <2>1, <2>2, CountedOK
  <2>4. ModifyReferences(s, n, r, k) = u
    BY <1>2, <2>1 DEF ModifyReferences, Put, Counted
  <2> HIDE DEF e, o
  <2>5. e \in Entries
    BY <2>3 DEF EntryOK
  <2>6. /\ u \in Spaces /\ u.index = s.index /\ u.entries[n] = e /\ u.next_name = s.next_name
        /\ \A m \in Names \ {n} : u.entries[m] = s.entries[m]
    BY <2>1, <2>5, PutIs
  <2> HIDE DEF u
  <2>7. IndexedAt(u, o)
    <3>1. Named(u, o) = Named(s, o)
      BY <2>3, <2>6 DEF Named, o
    <3>2. Types(u, Named(s, o)) = Types(s, Named(s, o))
      <4>1. \A m \in Named(s, o) : u.entries[m].type = s.entries[m].type
        BY <2>3, <2>6 DEF Named
      <4>2. \A q : q \in Types(u, Named(s, o)) <=> \E m \in Named(s, o) : q \in u.entries[m].type
        BY DEF Types
      <4>3. \A q : q \in Types(s, Named(s, o)) <=> \E m \in Named(s, o) : q \in s.entries[m].type
        BY DEF Types
      <4>4. \A q : q \in Types(u, Named(s, o)) <=> q \in Types(s, Named(s, o))
        BY <4>1, <4>2, <4>3
      <4> QED
        BY <4>4
    <3> QED
      BY <2>1, <2>6, <3>1, <3>2 DEF IndexedAt
  <2>8. /\ \A q \in Objects : q # e.object /\ q # s.entries[n].object => u.index[q] = s.index[q]
        /\ \A q \in Objects : q = e.object \/ q = s.entries[n].object => IndexedAt(u, q)
        /\ u.entries[n] = e /\ \A m \in Names \ {n} : u.entries[m] = s.entries[m]
    BY <2>3, <2>6, <2>7 DEF o
  <2>9. Updated(s, u, n, e)
    BY <2>3, <2>6, <2>8, UpdatedIs
  <2>10. Leaves(s, u, n, s.entries[n].type)
    BY <2>3, <2>9 DEF Updated, Leaves, o
  <2> QED
    BY <1>2, <2>4, <2>10
<1> QED
  BY <1>1, <1>2

\* rename moves the entry to a free name.
LEMMA RenameEntryIs ==
  ASSUME NEW s, Well(s), NEW n \in Names, NEW m \in Names, Contains(s, n), ~Contains(s, m),
         NEW u, u = RenameEntry(s, n, m)
  PROVE  /\ Well(u) /\ n # m
         /\ u.entries[n] = NoEntry /\ u.entries[m] = s.entries[n]
         /\ \A k \in Names \ {n, m} : u.entries[k] = s.entries[k]
<1> DEFINE o == s.entries[n].object
           e == s.entries[n]
           v == Put(s, n, NoEntry)
           w == Put(v, m, e)
           N == Named(s, o) \ {n}
<1>1. /\ s \in Spaces /\ EntryOK(e) /\ e \in Entries /\ o \in Objects /\ e.object = o
      /\ \A q \in Objects : IndexedAt(s, q)
      /\ n # m /\ s.entries[m].type = {} /\ s.entries[m].object = NoObject
  BY WellNames DEF Contains, EntryOK
<1>2. EntryOK(NoEntry) /\ NoEntry \in Entries /\ NoEntry.object = NoObject
  BY NoEntryOK DEF EntryOK
<1>3. u = IndexName(UnindexName(w, o, n), o, m)
  <2>1. w = [s EXCEPT !.entries[n] = NoEntry, !.entries[m] = s.entries[n]]
    BY DEF Put
  <2> QED
    BY <2>1 DEF RenameEntry
<1> HIDE DEF e, o
<1>4. /\ v \in Spaces /\ v.index = s.index /\ v.entries[n] = NoEntry
      /\ \A k \in Names \ {n} : v.entries[k] = s.entries[k]
  BY <1>1, <1>2, PutIs
<1> HIDE DEF v
<1>5. /\ w \in Spaces /\ w.index = v.index /\ w.entries[m] = e
      /\ \A k \in Names \ {m} : w.entries[k] = v.entries[k]
  BY <1>1, <1>4, PutIs
<1> HIDE DEF w
<1>6. /\ w.index = s.index /\ w.entries[n] = NoEntry /\ w.entries[m] = e
      /\ \A k \in Names \ {n, m} : w.entries[k] = s.entries[k]
  BY <1>1, <1>4, <1>5
<1>7. /\ s.index[o].names = Named(s, o) /\ s.index[o].rights = Types(s, Named(s, o))
      /\ o # NoObject /\ n \in Named(s, o) /\ m \notin Named(s, o)
  BY <1>1, NamesAssumption DEF IndexedAt, Named, o
<1>8. Types(w, N) = Types(s, N)
  <2>1. \A k \in N : w.entries[k] = s.entries[k]
    BY <1>6, <1>7 DEF Named
  <2> QED
    BY <2>1, TypesSame
<1>9. Reindexed(w, UnindexName(w, o, n), o, N, Types(w, N))
  <2>1. Types(w, w.index[o].names \ {n}) \subseteq w.index[o].rights
    BY <1>6, <1>7, <1>8, TypesGrow
  <2>2. w.index[o].names \ {n} = N
    BY <1>6, <1>7
  <2> QED
    BY <1>1, <1>5, <2>1, <2>2, UnindexNameIs
<1> DEFINE x == UnindexName(w, o, n)
<1>10. u = IndexName(x, o, m)
  BY <1>3
<1>11. /\ x \in Spaces /\ x.entries = w.entries /\ x.index[o].names = N
       /\ x.index[o].rights = Types(w, N) /\ \A q \in Objects \ {o} : x.index[q] = w.index[q]
  BY <1>9 DEF Reindexed
<1> HIDE DEF x
<1>12. Reindexed(x, u, o, x.index[o].names \cup {m}, x.index[o].rights \cup x.entries[m].type)
  <2>1. x \in Spaces /\ o \in Objects /\ m \in Names
    BY <1>1, <1>11
  <2>2. Reindexed(x, IndexName(x, o, m), o, x.index[o].names \cup {m},
                  x.index[o].rights \cup x.entries[m].type)
    BY <2>1, IndexNameIs
  <2> QED
    BY <1>10, <2>2
<1>13. /\ u \in Spaces /\ u.entries = w.entries
       /\ u.index[o].names = N \cup {m} /\ u.index[o].rights = Types(s, N) \cup e.type
       /\ \A q \in Objects \ {o} : u.index[q] = s.index[q]
  BY <1>6, <1>8, <1>11, <1>12 DEF Reindexed
<1>14. Named(u, o) = N \cup {m}
  BY <1>1, <1>2, <1>6, <1>7, <1>13 DEF Named
<1>15. Types(u, N \cup {m}) = Types(s, N) \cup e.type
  <2>1. \A k \in N : u.entries[k] = s.entries[k]
    BY <1>6, <1>7, <1>13 DEF Named
  <2>2. \A q : q \in Types(u, N \cup {m}) <=> \E k \in N \cup {m} : q \in u.entries[k].type
    BY DEF Types
  <2>3. \A q : q \in Types(s, N) <=> \E k \in N : q \in s.entries[k].type
    BY DEF Types
  <2>4. u.entries[m] = e
    BY <1>6, <1>13
  <2>5. \A q : q \in Types(u, N \cup {m}) <=> q \in Types(s, N) \cup e.type
    BY <2>1, <2>2, <2>3, <2>4
  <2> QED
    BY <2>5
<1>16. ASSUME NEW q \in Objects \ {o} PROVE IndexedAt(u, q)
  <2>1. \A k : k \in Named(u, q) <=> k \in Named(s, q)
    BY <1>1, <1>2, <1>6, <1>13, NamesAssumption DEF Named, e, o
  <2>2. Named(u, q) = Named(s, q)
    BY <2>1
  <2>3. \A k \in Named(s, q) : u.entries[k] = s.entries[k]
    BY <1>1, <1>6, <1>13, NamesAssumption DEF Named, e, o
  <2>4. Types(u, Named(s, q)) = Types(s, Named(s, q))
    BY <2>3, TypesSame
  <2> QED
    BY <1>1, <1>13, <2>2, <2>4 DEF IndexedAt
<1>17. \A q \in Objects : IndexedAt(u, q)
  BY <1>13, <1>14, <1>15, <1>16 DEF IndexedAt
<1>18. \A k \in Names : EntryOK(u.entries[k])
  BY <1>1, <1>2, <1>6, <1>13 DEF Well
<1>19. Well(u)
  BY <1>13, <1>17, <1>18 DEF Well, Indexed, IndexedAt
<1> QED
  BY <1>1, <1>6, <1>13, <1>19 DEF e

\* Entries that keep their objects and types keep the index true.
LEMMA SameTypes ==
  ASSUME NEW s, Well(s), NEW u \in Spaces, u.index = s.index,
         \A n \in Names : /\ EntryOK(u.entries[n])
                          /\ u.entries[n].object = s.entries[n].object
                          /\ u.entries[n].type = s.entries[n].type
  PROVE  Well(u)
<1>1. SUFFICES ASSUME NEW o \in Objects PROVE IndexedAt(u, o)
  BY DEF Well, Indexed, IndexedAt
<1>2. IndexedAt(s, o)
  BY DEF Well, Indexed, IndexedAt
<1>3. Named(u, o) = Named(s, o)
  BY DEF Named
<1>4. \A q : q \in Types(u, Named(s, o)) <=> q \in Types(s, Named(s, o))
  <2>1. \A n \in Named(s, o) : u.entries[n].type = s.entries[n].type
    BY DEF Named
  <2>2. \A q : q \in Types(u, Named(s, o)) <=> \E n \in Named(s, o) : q \in u.entries[n].type
    BY DEF Types
  <2>3. \A q : q \in Types(s, Named(s, o)) <=> \E n \in Named(s, o) : q \in s.entries[n].type
    BY DEF Types
  <2> QED
    BY <2>1, <2>2, <2>3
<1>5. Types(u, Named(s, o)) = Types(s, Named(s, o))
  BY <1>4
<1> QED
  BY <1>2, <1>3, <1>5 DEF IndexedAt

(* The names of o with a send or a send-once right have no other right.    *)
Killable(s, o) ==
    \A n \in Names : s.entries[n].object = o /\ s.entries[n].type \cap Sending # {} =>
        /\ s.entries[n].type \subseteq Sending
        /\ Has(s, n, "SendOnce") => s.entries[n].type = {"SendOnce"}

(* u is s with dead names for the rights to o.                             *)
Killed(s, u, o) ==
    /\ Well(u)
    /\ \A n \in Names :
          /\ s.entries[n].object = o /\ s.entries[n].type \cap Sending # {} =>
                u.entries[n].object = o /\ u.entries[n].type = {"DeadName"}
          /\ s.entries[n].object # o \/ s.entries[n].type \cap Sending = {} =>
                u.entries[n].object = s.entries[n].object /\ u.entries[n].type = s.entries[n].type

\* mark_object_dead makes dead names of send rights, in the index as well.
LEMMA MarkDeadIs ==
  ASSUME NEW s, Well(s), NEW o \in Objects, Killable(s, o), NEW u, u = MarkDead(s, o)
  PROVE  Killed(s, u, o)
<1> DEFINE f == [n \in Names |-> IF n \in s.index[o].names /\ s.entries[n].type \cap Sending # {}
                                 THEN DeadEntry(s.entries[n]) ELSE s.entries[n]]
           I == s.index[o].rights
           R == IF I \cap Sending # {} THEN (I \ Sending) \cup {"DeadName"} ELSE I
           v == [s EXCEPT !.entries = f]
<1>1. /\ s \in Spaces /\ \A n \in Names : EntryOK(s.entries[n])
      /\ \A q \in Objects : IndexedAt(s, q)
      /\ s.index[o].names = Named(s, o) /\ I = Types(s, Named(s, o))
      /\ o # NoObject
  BY NamesAssumption DEF Well, Indexed, IndexedAt
<1>2. \A n \in Names : n \in s.index[o].names <=> s.entries[n].object = o
  BY <1>1 DEF Named
<1>3. ASSUME NEW n \in Names
      PROVE  /\ EntryOK(f[n])
             /\ s.entries[n].object = o /\ s.entries[n].type \cap Sending # {} =>
                   f[n].object = o /\ f[n].type = {"DeadName"}
             /\ s.entries[n].object # o \/ s.entries[n].type \cap Sending = {} =>
                   f[n] = s.entries[n]
  <2>1. CASE s.entries[n].object = o /\ s.entries[n].type \cap Sending # {}
    <3>1. f[n] = DeadEntry(s.entries[n])
      BY <1>2, <2>1
    <3>2. /\ s.entries[n].type # {} /\ s.entries[n].type \subseteq Sending
          /\ "SendOnce" \in s.entries[n].type => s.entries[n].type = {"SendOnce"}
      BY <2>1 DEF Killable, Has
    <3>3. EntryOK(f[n]) /\ f[n].object = o /\ f[n].type = {"DeadName"}
      BY <1>1, <2>1, <3>1, <3>2, DeadEntryOK
    <3> QED
      BY <2>1, <3>3
  <2>2. CASE s.entries[n].object # o \/ s.entries[n].type \cap Sending = {}
    BY <1>1, <1>2, <2>2
  <2> QED
    BY <2>1, <2>2
<1>4. u = [v EXCEPT !.index[o].rights = R]
  BY <1>1 DEF MarkDead, Spaces
<1>5. \A n \in Names : f[n] \in Entries
  BY <1>3 DEF EntryOK
<1>6. f \in [Names -> Entries]
  BY <1>5
<1> HIDE DEF f
<1>7. v \in Spaces /\ v.entries = f /\ v.index = s.index
  BY <1>1, <1>6 DEF Spaces
<1>8. R \in SUBSET Rights
  BY <1>1 DEF Spaces, Rights
<1> HIDE DEF v, R, I
<1>9. Reindexed(v, u, o, v.index[o].names, R)
  BY <1>4, <1>7, <1>8, ReindexedRights
<1>10. /\ u \in Spaces /\ u.entries = f /\ u.index[o].names = Named(s, o)
       /\ u.index[o].rights = R /\ \A q \in Objects \ {o} : u.index[q] = s.index[q]
  BY <1>1, <1>7, <1>9 DEF Reindexed
<1>11. \A q, n : n \in Named(u, q) <=> n \in Named(s, q)
  BY <1>3, <1>10 DEF Named
<1>12. \A q : Named(u, q) = Named(s, q)
  BY <1>11
<1>13. \A q \in Objects \ {o} : IndexedAt(u, q)
  <2>1. SUFFICES ASSUME NEW q \in Objects \ {o} PROVE IndexedAt(u, q)
    OBVIOUS
  <2>2. \A n \in Named(s, q) : u.entries[n] = s.entries[n]
    BY <1>3, <1>10 DEF Named
  <2>3. Types(u, Named(s, q)) = Types(s, Named(s, q))
    BY <2>2, TypesSame
  <2> QED
    BY <1>1, <1>10, <1>12, <2>3 DEF IndexedAt
<1>14. Types(u, Named(s, o)) = R
  <2>1. \A r : r \in Types(u, Named(s, o)) <=> \E n \in Named(s, o) : r \in u.entries[n].type
    BY DEF Types
  <2>2. \A r : r \in I <=> \E n \in Named(s, o) : r \in s.entries[n].type
    BY <1>1 DEF Types
  <2>3. \A n \in Named(s, o) : n \in Names /\ s.entries[n].object = o
    BY DEF Named
  <2>4. CASE I \cap Sending = {}
    <3>1. \A n \in Named(s, o) : s.entries[n].type \cap Sending = {}
      BY <2>2, <2>4
    <3>2. \A n \in Named(s, o) : u.entries[n] = s.entries[n]
      BY <1>3, <1>10, <2>3, <3>1
    <3>3. \A r : r \in Types(u, Named(s, o)) <=> r \in I
      BY <2>1, <2>2, <3>2
    <3> QED
      BY <2>4, <3>3 DEF R
  <2>5. CASE I \cap Sending # {}
    <3>1. PICK n \in Named(s, o) : s.entries[n].type \cap Sending # {}
      BY <2>2, <2>5
    <3>2. u.entries[n].type = {"DeadName"}
      BY <1>3, <1>10, <2>3, <3>1
    <3>3. \A m \in Named(s, o) :
             \/ s.entries[m].type \subseteq Sending /\ u.entries[m].type = {"DeadName"}
             \/ s.entries[m].type \cap Sending = {} /\ u.entries[m].type = s.entries[m].type
      BY <1>3, <1>10, <2>3 DEF Killable
    <3>4. \A r : r \in Types(u, Named(s, o)) <=> r \in (I \ Sending) \cup {"DeadName"}
      BY <2>1, <2>2, <3>1, <3>2, <3>3
    <3> QED
      BY <2>5, <3>4 DEF R
  <2> QED
    BY <2>4, <2>5
<1>15. \A q \in Objects : IndexedAt(u, q)
  BY <1>10, <1>12, <1>13, <1>14 DEF IndexedAt
<1>16. Well(u)
  BY <1>3, <1>10, <1>15 DEF Well, Indexed, IndexedAt
<1> QED
  BY <1>3, <1>10, <1>16 DEF Killed

\* An answered request adds a reference to the dead name, and nothing else.
LEMMA NotifiedIs ==
  ASSUME NEW s, Well(s), NEW q, NEW o, NEW u, u = Notified(s, q, o)
  PROVE  /\ Well(u)
         /\ \A n \in Names : /\ u.entries[n].object = s.entries[n].object
                             /\ u.entries[n].type = s.entries[n].type
<1> DEFINE Answered(n) == q[n] = o /\ Has(s, n, "DeadName") /\ s.entries[n].refs["DeadName"] < MaxRefs
           More(e) == [e EXCEPT !.refs["DeadName"] = @ + 1]
           f == [n \in Names |-> IF Answered(n) THEN More(s.entries[n]) ELSE s.entries[n]]
<1>1. s \in Spaces /\ \A n \in Names : EntryOK(s.entries[n])
  BY DEF Well
<1>2. ASSUME NEW e, EntryOK(e), "DeadName" \in e.type, e.refs["DeadName"] < MaxRefs
      PROVE  EntryOK(More(e)) /\ More(e).object = e.object /\ More(e).type = e.type
  <2>1. More(e) = Counted(e, "DeadName", 1)
    BY DEF Counted
  <2>2. /\ e.refs["DeadName"] \in 0..MaxRefs /\ MaxRefs \in Nat /\ Limit("DeadName") = MaxRefs
    BY <1>2, NamesAssumption DEF EntryOK, Entries, Rights, Limit
  <2>3. e.refs["DeadName"] + 1 # 0 /\ e.refs["DeadName"] + 1 \in 0..Limit("DeadName")
    BY <1>2, <2>2
  <2> QED
    BY <1>2, <2>1, <2>3, CountedOK
<1> HIDE DEF More
<1>3. ASSUME NEW n \in Names
      PROVE  EntryOK(f[n]) /\ f[n].object = s.entries[n].object /\ f[n].type = s.entries[n].type
  <2>1. CASE Answered(n)
    BY <1>1, <1>2, <2>1 DEF Has
  <2>2. CASE ~Answered(n)
    BY <1>1, <2>2
  <2> QED
    BY <2>1, <2>2
<1>4. u = [s EXCEPT !.entries = f]
  BY DEF Notified, More
<1>5. f \in [Names -> Entries]
  <2>1. \A n \in Names : f[n] \in Entries
    BY <1>3 DEF EntryOK
  <2> QED
    BY <2>1
<1> HIDE DEF f
<1>6. u \in Spaces /\ u.entries = f /\ u.index = s.index
  BY <1>1, <1>4, <1>5 DEF Spaces
<1>7. Well(u)
  BY <1>3, <1>6, SameTypes
<1> QED
  BY <1>3, <1>6, <1>7

\* A space without names.
LEMMA EmptySpaceIs ==
  Well(EmptySpace) /\ \A n \in Names : EmptySpace.entries[n] = NoEntry
<1>1. \A n \in Names : EmptySpace.entries[n] = NoEntry
  BY DEF EmptySpace
<1>2. EntryOK(NoEntry) /\ NoEntry \in Entries /\ NoEntry.object = NoObject
  BY NoEntryOK DEF EntryOK
<1>3. EmptySpace \in Spaces
  <2>1. FirstDynamic \in FirstDynamic..LastName
    BY NamesAssumption
  <2>2. [n \in Names |-> NoEntry] \in [Names -> Entries]
    BY <1>2
  <2>3. [o \in Objects |-> Unnamed] \in [Objects -> [names: SUBSET Names, rights: SUBSET Rights]]
    <3>1. Unnamed \in [names: SUBSET Names, rights: SUBSET Rights]
      BY DEF Unnamed
    <3> QED
      BY <3>1
  <2> QED
    BY <2>1, <2>2, <2>3 DEF EmptySpace, Spaces
<1>4. ASSUME NEW o \in Objects PROVE IndexedAt(EmptySpace, o)
  <2>1. \A n : n \notin Named(EmptySpace, o)
    BY <1>1, <1>2, NamesAssumption DEF Named
  <2>2. Named(EmptySpace, o) = {} /\ Types(EmptySpace, {}) = {}
    BY <2>1 DEF Types
  <2>3. EmptySpace.index[o].names = {} /\ EmptySpace.index[o].rights = {}
    BY DEF EmptySpace, Unnamed
  <2> QED
    BY <2>2, <2>3 DEF IndexedAt
<1> QED
  BY <1>1, <1>2, <1>3, <1>4 DEF Well, Indexed, IndexedAt

-----------------------------------------------------------------------------
(* The invariant, of spaces S, ports P, receive rights in messages T,      *)
(* requests Q and task ports F.                                            *)
Ob(S, t, n) == S[t].entries[n].object
Ty(S, t, n) == S[t].entries[n].type

Typed(S, P, T, Q, F) ==
    /\ S \in [Tasks -> Spaces]
    /\ \A t \in Tasks : Well(S[t])
    /\ P \in [Objects -> Ports]
    /\ T \in SUBSET Objects
    /\ Q \in [Tasks -> [Names -> Objects \cup {NoObject}]]
    /\ F \in [Tasks -> Objects \cup {NoObject}]

(* The rights that names have to a port are those its state allows.        *)
Allowed(p) == CASE p = "guest" -> PortRights
                [] p = "kernel" -> {"Send"}
                [] p = "set" -> {"PortSet"}
                [] p \in {"dead", "closed"} -> {"DeadName"}
                [] OTHER -> {}
Shaped(S, P) ==
    \A t \in Tasks, n \in Names :
        Ob(S, t, n) \in Objects => Ty(S, t, n) \subseteq Allowed(P[Ob(S, t, n)])

(* A task has one name for a port, and one for each send-once right.       *)
Once(S) ==
    \A t \in Tasks, n \in Names :
        /\ "SendOnce" \in Ty(S, t, n) => Ty(S, t, n) = {"SendOnce"}
        /\ \A m \in Names \ {n} :
              Ty(S, t, n) \cap Whole # {} /\ Ob(S, t, m) = Ob(S, t, n)
              => Ty(S, t, m) \cap Whole = {}

(* A receive right, or a port set, is at one name of one task or in a      *)
(* message.                                                                *)
Held(S) ==
    \A t, u \in Tasks, n, m \in Names, r \in {"Receive", "PortSet"} :
        r \in Ty(S, t, n) /\ r \in Ty(S, u, m) /\ Ob(S, t, n) = Ob(S, u, m) => t = u /\ n = m
Unreceived(S, o) == \A t \in Tasks, n \in Names : Ob(S, t, n) = o => "Receive" \notin Ty(S, t, n)
Carried(S, P, T) == \A o \in T : P[o] = "guest" /\ Unreceived(S, o)

(* A request is on a name with a right to its target, or its target was    *)
(* closed.                                                                 *)
Backed(S, P, t, n, o) ==
    P[o] # "closed" => Ob(S, t, n) = o /\ Ty(S, t, n) \cap PortRights # {}
Requested(S, P, Q) ==
    \A t \in Tasks, n \in Names : Q[t][n] # NoObject => Backed(S, P, t, n, Q[t][n])

(* A task without a port has no names and no requests; the ports of tasks  *)
(* are the kernel's, and no two tasks have the same.                       *)
Selves(S, P, Q, F) ==
    \A t \in Tasks :
        /\ F[t] = NoObject => \A n \in Names : Ty(S, t, n) = {} /\ Q[t][n] = NoObject
        /\ F[t] # NoObject => P[F[t]] = "kernel" /\ \A u \in Tasks : F[u] = F[t] => u = t

NamesInv(S, P, T, Q, F) ==
    /\ Typed(S, P, T, Q, F)
    /\ Shaped(S, P) /\ Once(S) /\ Held(S) /\ Carried(S, P, T)
    /\ Requested(S, P, Q) /\ Selves(S, P, Q, F)

Exits == exiting \in Tasks \cup {NoObject} /\ (exiting # NoObject => self[exiting] # NoObject)
NamespaceInv == NamesInv(spaces, port, transit, requests, self) /\ Exits

\* What each entry is.
LEMMA EntryFacts ==
  ASSUME NEW S, \A t \in Tasks : Well(S[t]), NEW t \in Tasks, NEW n \in Names
  PROVE  /\ Ob(S, t, n) \in Objects \cup {NoObject}
         /\ Ty(S, t, n) \in SUBSET Rights
         /\ Ob(S, t, n) = NoObject <=> Ty(S, t, n) = {}
         /\ Ob(S, t, n) \in Objects <=> Ty(S, t, n) # {}
<1>1. S[t] \in Spaces /\ EntryOK(S[t].entries[n])
  BY DEF Well
<1> QED
  BY <1>1, EntriesType, NamesAssumption DEF EntryOK, Ob, Ty

\* One space changes.
With(S, t, s) == [S EXCEPT ![t] = s]
LEMMA OneSpace ==
  ASSUME NEW S, S \in [Tasks -> Spaces], NEW t \in Tasks, NEW s, Well(s),
         \A v \in Tasks : Well(S[v]),
         NEW U, U = With(S, t, s)
  PROVE  /\ U \in [Tasks -> Spaces] /\ \A v \in Tasks : Well(U[v])
         /\ U[t] = s /\ \A v \in Tasks \ {t} : U[v] = S[v]
BY DEF Well, With

(* The rights to o are dead names in U, and the others are as in S.         *)
Dies(S, U, o) ==
    \A t \in Tasks, n \in Names :
        /\ Ob(S, t, n) = o => Ob(U, t, n) = o /\ Ty(U, t, n) = {"DeadName"}
        /\ Ob(S, t, n) # o => Ob(U, t, n) = Ob(S, t, n) /\ Ty(U, t, n) = Ty(S, t, n)

(* The requests on o are answered, unless it was closed.                   *)
Answered(Q, Q2, o, d) ==
    /\ Q2 \in [Tasks -> [Names -> Objects \cup {NoObject}]]
    /\ \A t \in Tasks, n \in Names :
          Q2[t][n] # NoObject => Q2[t][n] = Q[t][n] /\ (d = "dead" => Q2[t][n] # o)

(* U has the rights of S that are left, at their names.                    *)
Fewer(S, U) ==
    \A t \in Tasks, n \in Names :
        /\ Ty(U, t, n) \subseteq Ty(S, t, n)
        /\ Ty(U, t, n) # {} => Ob(U, t, n) = Ob(S, t, n)

(* More receive rights are in messages, that no name of U has.             *)
Leaving(U, P, T, T2) ==
    /\ T2 \in SUBSET Objects
    /\ \A o \in T2 : o \notin T => P[o] = "guest" /\ Unreceived(U, o)

(* The requests that are left are on names with rights.                    *)
StillAsked(U, P, Q, Q2) ==
    /\ Q2 \in [Tasks -> [Names -> Objects \cup {NoObject}]]
    /\ \A t \in Tasks, n \in Names :
          Q2[t][n] # NoObject => /\ Q2[t][n] = Q[t][n]
                                 /\ P[Q[t][n]] # "closed" => Ty(U, t, n) \cap PortRights # {}

Wells(U) == U \in [Tasks -> Spaces] /\ \A t \in Tasks : Well(U[t])

\* Rights and requests go; a receive right may leave in a message.
LEMMA LoseInv ==
  ASSUME NEW S, NEW P, NEW T, NEW Q, NEW F, NamesInv(S, P, T, Q, F),
         NEW U, Wells(U), Fewer(S, U), NEW T2, Leaving(U, P, T, T2), NEW Q2, StillAsked(U, P, Q, Q2)
  PROVE  NamesInv(U, P, T2, Q2, F)
<1>0. /\ U \in [Tasks -> Spaces] /\ \A t \in Tasks : Well(U[t])
      /\ T2 \in SUBSET Objects
      /\ \A o \in T2 : o \notin T => P[o] = "guest" /\ Unreceived(U, o)
      /\ Q2 \in [Tasks -> [Names -> Objects \cup {NoObject}]]
      /\ \A t \in Tasks, n \in Names :
            Q2[t][n] # NoObject => /\ Q2[t][n] = Q[t][n]
                                   /\ P[Q[t][n]] # "closed" => Ty(U, t, n) \cap PortRights # {}
  BY DEF Wells, Leaving, StillAsked
<1>1. /\ Typed(S, P, T, Q, F) /\ Shaped(S, P) /\ Once(S) /\ Held(S) /\ Carried(S, P, T)
      /\ Requested(S, P, Q) /\ Selves(S, P, Q, F)
  BY DEF NamesInv
<1>2. \A t \in Tasks, n \in Names :
         /\ Ty(U, t, n) \subseteq Ty(S, t, n)
         /\ Ty(U, t, n) # {} => Ob(U, t, n) = Ob(S, t, n)
         /\ Ob(U, t, n) \in Objects <=> Ty(U, t, n) # {}
  BY <1>0, EntryFacts DEF Fewer
<1>3. Typed(U, P, T2, Q2, F)
  BY <1>0, <1>1 DEF Typed
<1>4. Shaped(U, P)
  BY <1>1, <1>2 DEF Shaped
<1>5. Once(U)
  <2>1. SUFFICES ASSUME NEW t \in Tasks, NEW n \in Names
                 PROVE  /\ "SendOnce" \in Ty(U, t, n) => Ty(U, t, n) = {"SendOnce"}
                        /\ \A m \in Names \ {n} :
                              Ty(U, t, n) \cap Whole # {} /\ Ob(U, t, m) = Ob(U, t, n)
                              => Ty(U, t, m) \cap Whole = {}
    BY DEF Once
  <2>2. "SendOnce" \in Ty(U, t, n) => Ty(U, t, n) = {"SendOnce"}
    BY <1>1, <1>2 DEF Once
  <2>3. ASSUME NEW m \in Names \ {n}, Ty(U, t, n) \cap Whole # {}, Ob(U, t, m) = Ob(U, t, n),
               Ty(U, t, m) \cap Whole # {}
        PROVE  FALSE
    <3>1. /\ Ty(U, t, n) \subseteq Ty(S, t, n) /\ Ob(U, t, n) = Ob(S, t, n)
          /\ Ty(U, t, m) \subseteq Ty(S, t, m) /\ Ob(U, t, m) = Ob(S, t, m)
      BY <1>2, <2>3
    <3> QED
      BY <1>1, <2>3, <3>1 DEF Once
  <2> QED
    BY <2>2, <2>3
<1>6. Held(U)
  <2>1. SUFFICES ASSUME NEW t \in Tasks, NEW u \in Tasks, NEW n \in Names, NEW m \in Names,
                        NEW r \in {"Receive", "PortSet"},
                        r \in Ty(U, t, n), r \in Ty(U, u, m), Ob(U, t, n) = Ob(U, u, m)
                 PROVE  t = u /\ n = m
    BY DEF Held
  <2>2. /\ r \in Ty(S, t, n) /\ Ob(U, t, n) = Ob(S, t, n)
        /\ r \in Ty(S, u, m) /\ Ob(U, u, m) = Ob(S, u, m)
    BY <1>2, <2>1
  <2>3. Ob(S, t, n) = Ob(S, u, m)
    BY <2>1, <2>2
  <2>4. Held(S)
    BY <1>1
  <2> QED
    BY <2>2, <2>3, <2>4 DEF Held
<1>7. Carried(U, P, T2)
  <2>1. \A o \in T : Unreceived(U, o)
    <3>1. SUFFICES ASSUME NEW o \in T, NEW t \in Tasks, NEW n \in Names,
                          Ob(U, t, n) = o, "Receive" \in Ty(U, t, n)
                   PROVE  FALSE
      BY DEF Unreceived
    <3>2. "Receive" \in Ty(S, t, n) /\ Ob(S, t, n) = o
      BY <1>2, <3>1
    <3> QED
      BY <1>1, <3>2 DEF Carried, Unreceived
  <2> QED
    BY <1>0, <1>1, <2>1 DEF Carried
<1>8. Requested(U, P, Q2)
  <2>1. SUFFICES ASSUME NEW t \in Tasks, NEW n \in Names, Q2[t][n] # NoObject
                 PROVE  Backed(U, P, t, n, Q2[t][n])
    BY DEF Requested
  <2>2. Q2[t][n] = Q[t][n] /\ Backed(S, P, t, n, Q[t][n])
    BY <1>0, <1>1, <2>1 DEF Requested
  <2> QED
    BY <1>0, <1>2, <2>1, <2>2 DEF Backed
<1>9. Selves(U, P, Q2, F)
  <2>1. SUFFICES ASSUME NEW t \in Tasks
                 PROVE  /\ F[t] = NoObject => \A n \in Names : Ty(U, t, n) = {} /\ Q2[t][n] = NoObject
                        /\ F[t] # NoObject => P[F[t]] = "kernel" /\ \A u \in Tasks : F[u] = F[t] => u = t
    BY DEF Selves
  <2>2. ASSUME F[t] = NoObject, NEW n \in Names PROVE Ty(U, t, n) = {} /\ Q2[t][n] = NoObject
    <3>1. Ty(S, t, n) = {} /\ Q[t][n] = NoObject
      BY <1>1, <2>2 DEF Selves
    <3> QED
      BY <1>0, <1>2, <3>1
  <2> QED
    BY <1>1, <2>2 DEF Selves
<1> QED
  BY <1>3, <1>4, <1>5, <1>6, <1>7, <1>8, <1>9 DEF NamesInv

\* The spaces, the messages or the requests alone.
LEMMA NothingLost ==
  ASSUME NEW S, NEW P, NEW T, NEW Q, NEW F, NamesInv(S, P, T, Q, F)
  PROVE  Wells(S) /\ Fewer(S, S) /\ Leaving(S, P, T, T) /\ StillAsked(S, P, Q, Q)
<1>1. Typed(S, P, T, Q, F) /\ Requested(S, P, Q)
  BY DEF NamesInv
<1> QED
  BY <1>1 DEF Typed, Requested, Backed, Wells, Fewer, Leaving, StillAsked

\* A task gets a right that its port allows, at a name where it fits.
LEMMA GainInv ==
  ASSUME NEW S, NEW P, NEW T, NEW Q, NEW F, NamesInv(S, P, T, Q, F),
         NEW t \in Tasks, NEW n \in Names, NEW o \in Objects, NEW r \in Rights,
         F[t] # NoObject, r \in Allowed(P[o]), Fits(S[t], n, o, r),
         r \in {"Receive", "PortSet"} =>
             \A v \in Tasks, m \in Names : Ob(S, v, m) = o => r \notin Ty(S, v, m),
         r = "Receive" => o \notin T,
         NEW u, Gains(S[t], u, n, o, r),
         NEW U, U = With(S, t, u)
  PROVE  NamesInv(U, P, T, Q, F)
<1>1. /\ Typed(S, P, T, Q, F) /\ Shaped(S, P) /\ Once(S) /\ Held(S) /\ Carried(S, P, T)
      /\ Requested(S, P, Q) /\ Selves(S, P, Q, F)
  BY DEF NamesInv
<1>2. /\ S \in [Tasks -> Spaces] /\ \A v \in Tasks : Well(S[v])
      /\ U \in [Tasks -> Spaces] /\ \A v \in Tasks : Well(U[v])
      /\ U[t] = u /\ \A v \in Tasks \ {t} : U[v] = S[v]
  BY <1>1, OneSpace DEF Typed, Gains
<1>3. /\ Ob(U, t, n) = o /\ Ty(U, t, n) = Ty(S, t, n) \cup {r}
      /\ Ty(S, t, n) = {} \/ Ob(S, t, n) = o
  BY <1>2 DEF Ob, Ty, Gains, Contains
<1>4. \A v \in Tasks, m \in Names : v # t \/ m # n => Ob(U, v, m) = Ob(S, v, m) /\ Ty(U, v, m) = Ty(S, v, m)
  BY <1>2 DEF Ob, Ty, Gains
<1>5. /\ Ty(S, t, n) = {} \/ (r # "SendOnce" /\ "SendOnce" \notin Ty(S, t, n))
      /\ r # "SendOnce" => \A m \in Names \ {n} : Ob(S, t, m) = o => Ty(S, t, m) \cap Whole = {}
  BY DEF Fits, OneName, Ob, Ty, Contains, Has
<1>6. \A v \in Tasks, m \in Names : Ob(S, v, m) \in Objects <=> Ty(S, v, m) # {}
  BY <1>2, EntryFacts
<1>7. Typed(U, P, T, Q, F)
  BY <1>1, <1>2 DEF Typed
<1>8. Shaped(U, P)
  <2>1. ASSUME NEW v \in Tasks, NEW m \in Names, Ob(U, v, m) \in Objects
        PROVE  Ty(U, v, m) \subseteq Allowed(P[Ob(U, v, m)])
    <3>1. CASE v = t /\ m = n
      <4>1. Ty(S, t, n) \subseteq Allowed(P[o])
        BY <1>1, <1>3 DEF Shaped
      <4> QED
        BY <1>3, <3>1, <4>1
    <3>2. CASE v # t \/ m # n
      BY <1>1, <1>4, <2>1, <3>2 DEF Shaped
    <3> QED
      BY <3>1, <3>2
  <2> QED
    BY <2>1 DEF Shaped
<1>9. Once(U)
  <2>1. ASSUME NEW v \in Tasks, NEW m \in Names, "SendOnce" \in Ty(U, v, m)
        PROVE  Ty(U, v, m) = {"SendOnce"}
    <3>1. CASE v = t /\ m = n
      BY <1>3, <1>5, <2>1, <3>1
    <3>2. CASE v # t \/ m # n
      BY <1>1, <1>4, <2>1, <3>2 DEF Once
    <3> QED
      BY <3>1, <3>2
  <2>2. ASSUME NEW v \in Tasks, NEW m \in Names, NEW k \in Names \ {m},
               Ty(U, v, m) \cap Whole # {}, Ob(U, v, k) = Ob(U, v, m), Ty(U, v, k) \cap Whole # {}
        PROVE  FALSE
    <3>1. CASE v = t /\ (m = n \/ k = n)
      <4>1. PICK j \in Names \ {n} : (j = m /\ n = k) \/ (j = k /\ n = m)
        BY <2>2, <3>1
      <4>2. /\ Ty(U, t, j) \cap Whole # {} /\ Ob(U, t, j) = o /\ Ty(U, t, n) \cap Whole # {}
            /\ Ty(S, t, j) \cap Whole # {} /\ Ob(S, t, j) = o
        BY <1>3, <1>4, <2>2, <3>1, <4>1
      <4>3. r = "SendOnce"
        BY <1>5, <4>2
      <4>4. Ty(U, t, n) = {"SendOnce"}
        BY <1>3, <1>5, <4>3
      <4> QED
        BY <4>2, <4>4 DEF Whole
    <3>2. CASE v # t \/ (m # n /\ k # n)
      <4>1. /\ Ty(S, v, m) \cap Whole # {} /\ Ob(S, v, k) = Ob(S, v, m) /\ Ty(S, v, k) \cap Whole # {}
        BY <1>4, <2>2, <3>2
      <4> QED
        BY <1>1, <4>1 DEF Once
    <3> QED
      BY <3>1, <3>2
  <2> QED
    BY <2>1, <2>2 DEF Once
<1>10. Held(U)
  <2>1. SUFFICES ASSUME NEW v \in Tasks, NEW w \in Tasks, NEW m \in Names, NEW k \in Names,
                        NEW q \in {"Receive", "PortSet"},
                        q \in Ty(U, v, m), q \in Ty(U, w, k), Ob(U, v, m) = Ob(U, w, k)
                 PROVE  v = w /\ m = k
    BY DEF Held
  <2>2. Held(S)
    BY <1>1
  <2>3. CASE q \in Ty(S, v, m) /\ q \in Ty(S, w, k)
    <3>1. Ob(S, v, m) = Ob(U, v, m) /\ Ob(S, w, k) = Ob(U, w, k)
      BY <1>3, <1>4, <2>3
    <3>2. Ob(S, v, m) = Ob(S, w, k)
      BY <2>1, <3>1
    <3> QED
      BY <2>2, <2>3, <3>2 DEF Held
  <2>4. CASE q \notin Ty(S, v, m) \/ q \notin Ty(S, w, k)
    <3>1. q = r /\ ((v = t /\ m = n) \/ (w = t /\ k = n))
      BY <1>3, <1>4, <2>1, <2>4
    <3>2. Ob(U, v, m) = o /\ Ob(U, w, k) = o
      BY <1>3, <2>1, <3>1
    <3>3. \A x \in Tasks, j \in Names : x # t \/ j # n => ~(Ob(U, x, j) = o /\ r \in Ty(U, x, j))
      BY <1>4, <3>1
    <3>4. (v = t /\ m = n) /\ (w = t /\ k = n)
      BY <2>1, <3>1, <3>2, <3>3
    <3> QED
      BY <3>4
  <2> QED
    BY <2>3, <2>4
<1>11. Carried(U, P, T)
  <2>1. ASSUME NEW q \in T, NEW v \in Tasks, NEW m \in Names, Ob(U, v, m) = q, "Receive" \in Ty(U, v, m)
        PROVE  FALSE
    <3>1. CASE "Receive" \in Ty(S, v, m)
      BY <1>1, <1>3, <1>4, <2>1, <3>1 DEF Carried, Unreceived
    <3>2. CASE "Receive" \notin Ty(S, v, m)
      BY <1>3, <1>4, <2>1, <3>2
    <3> QED
      BY <3>1, <3>2
  <2> QED
    BY <1>1, <2>1 DEF Carried, Unreceived
<1>12. Requested(U, P, Q)
  <2>1. SUFFICES ASSUME NEW v \in Tasks, NEW m \in Names, Q[v][m] # NoObject, P[Q[v][m]] # "closed"
                 PROVE  Ob(U, v, m) = Q[v][m] /\ Ty(U, v, m) \cap PortRights # {}
    BY DEF Requested, Backed
  <2>2. Ob(S, v, m) = Q[v][m] /\ Ty(S, v, m) \cap PortRights # {}
    BY <1>1, <2>1 DEF Requested, Backed
  <2> QED
    BY <1>3, <1>4, <2>2
<1>13. Selves(U, P, Q, F)
  BY <1>1, <1>4 DEF Selves
<1> QED
  BY <1>7, <1>8, <1>9, <1>10, <1>11, <1>12, <1>13 DEF NamesInv

\* No name has a right to a port that allows none.
LEMMA NoNames ==
  ASSUME NEW S, NEW P, NEW T, NEW Q, NEW F, NamesInv(S, P, T, Q, F),
         NEW o \in Objects, P[o] = "unborn"
  PROVE  \A t \in Tasks, n \in Names : Ob(S, t, n) # o
<1>1. ASSUME NEW t \in Tasks, NEW n \in Names, Ob(S, t, n) = o PROVE FALSE
  <2>1. Ty(S, t, n) # {}
    BY <1>1, EntryFacts DEF NamesInv, Typed
  <2>2. Ty(S, t, n) \subseteq Allowed("unborn")
    BY <1>1 DEF NamesInv, Shaped
  <2>3. Allowed("unborn") = {}
    BY DEF Allowed
  <2> QED
    BY <2>1, <2>2, <2>3
<1> QED
  BY <1>1

\* A port that no name has a right to changes its state: it is allocated, or ends.
LEMMA UnnamedInv ==
  ASSUME NEW S, NEW P, NEW T, NEW Q, NEW F, NamesInv(S, P, T, Q, F),
         NEW o \in Objects, P[o] \in {"unborn", "kernel", "set"},
         \A t \in Tasks, n \in Names : Ob(S, t, n) # o,
         \A t \in Tasks : F[t] # o,
         NEW b \in {"guest", "kernel", "set", "dead"},
         NEW P2, P2 = [P EXCEPT ![o] = b]
  PROVE  NamesInv(S, P2, T, Q, F)
<1>1. /\ Typed(S, P, T, Q, F) /\ Shaped(S, P) /\ Once(S) /\ Held(S) /\ Carried(S, P, T)
      /\ Requested(S, P, Q) /\ Selves(S, P, Q, F)
  BY DEF NamesInv
<1>2. P2 \in [Objects -> Ports] /\ P2[o] = b /\ \A q \in Objects \ {o} : P2[q] = P[q]
  <2>1. b \in Ports
    BY DEF Ports, Live
  <2> QED
    BY <1>1, <2>1 DEF Typed
<1>3. Typed(S, P2, T, Q, F)
  BY <1>1, <1>2 DEF Typed
<1>4. Shaped(S, P2)
  BY <1>1, <1>2 DEF Shaped
<1>5. Carried(S, P2, T)
  <2>1. \A q \in T : q \in Objects /\ q # o
    BY <1>1 DEF Typed, Carried
  <2> QED
    BY <1>1, <1>2, <2>1 DEF Carried
<1>6. Requested(S, P2, Q)
  <2>1. SUFFICES ASSUME NEW t \in Tasks, NEW n \in Names, Q[t][n] # NoObject, P2[Q[t][n]] # "closed"
                 PROVE  Ob(S, t, n) = Q[t][n] /\ Ty(S, t, n) \cap PortRights # {}
    BY DEF Requested, Backed
  <2>2. Q[t][n] \in Objects
    BY <1>1, <2>1 DEF Typed
  <2>3. CASE Q[t][n] = o
    BY <1>1, <2>1, <2>3 DEF Requested, Backed
  <2>4. CASE Q[t][n] # o
    BY <1>1, <1>2, <2>1, <2>2, <2>4 DEF Requested, Backed
  <2> QED
    BY <2>3, <2>4
<1>7. Selves(S, P2, Q, F)
  <2>1. \A t \in Tasks : F[t] # NoObject => P2[F[t]] = P[F[t]]
    BY <1>1, <1>2 DEF Typed
  <2> QED
    BY <1>1, <2>1 DEF Selves
<1> QED
  BY <1>1, <1>3, <1>4, <1>5, <1>6, <1>7 DEF NamesInv

\* A task gets its port.
LEMMA SelfInv ==
  ASSUME NEW S, NEW P, NEW T, NEW Q, NEW F, NamesInv(S, P, T, Q, F),
         NEW t \in Tasks, NEW o \in Objects, P[o] = "kernel", \A u \in Tasks : F[u] # o,
         NEW G, G = [F EXCEPT ![t] = o]
  PROVE  NamesInv(S, P, T, Q, G)
<1>1. Typed(S, P, T, Q, F) /\ Selves(S, P, Q, F)
  BY DEF NamesInv
<1>2. G \in [Tasks -> Objects \cup {NoObject}] /\ G[t] = o /\ \A u \in Tasks \ {t} : G[u] = F[u]
  BY <1>1 DEF Typed
<1>3. Typed(S, P, T, Q, G)
  BY <1>1, <1>2 DEF Typed
<1>4. Selves(S, P, Q, G)
  BY <1>1, <1>2, NamesAssumption DEF Selves
<1> QED
  BY <1>3, <1>4 DEF NamesInv

\* A task without names loses its port.
LEMMA SelfGoneInv ==
  ASSUME NEW S, NEW P, NEW T, NEW Q, NEW F, NamesInv(S, P, T, Q, F),
         NEW t \in Tasks, \A n \in Names : Ty(S, t, n) = {} /\ Q[t][n] = NoObject,
         NEW G, G = [F EXCEPT ![t] = NoObject]
  PROVE  NamesInv(S, P, T, Q, G)
<1>1. Typed(S, P, T, Q, F) /\ Selves(S, P, Q, F)
  BY DEF NamesInv
<1>2. G \in [Tasks -> Objects \cup {NoObject}] /\ G[t] = NoObject /\ \A u \in Tasks \ {t} : G[u] = F[u]
  BY <1>1 DEF Typed
<1>3. Typed(S, P, T, Q, G)
  BY <1>1, <1>2 DEF Typed
<1>4. Selves(S, P, Q, G)
  BY <1>1, <1>2 DEF Selves
<1> QED
  BY <1>3, <1>4 DEF NamesInv

\* A task asks for the death of a right that it has.
LEMMA RequestInv ==
  ASSUME NEW S, NEW P, NEW T, NEW Q, NEW F, NamesInv(S, P, T, Q, F),
         NEW t \in Tasks, NEW n \in Names, F[t] # NoObject,
         Ty(S, t, n) \cap PortRights # {},
         NEW R, R = [Q EXCEPT ![t][n] = Ob(S, t, n)]
  PROVE  NamesInv(S, P, T, R, F)
<1>1. Typed(S, P, T, Q, F) /\ Requested(S, P, Q) /\ Selves(S, P, Q, F)
  BY DEF NamesInv
<1>2. Ob(S, t, n) \in Objects \cup {NoObject}
  BY <1>1, EntryFacts DEF Typed
<1>3. R \in [Tasks -> [Names -> Objects \cup {NoObject}]]
  BY <1>1, <1>2 DEF Typed
<1>4. R[t][n] = Ob(S, t, n) /\ \A u \in Tasks, m \in Names : u # t \/ m # n => R[u][m] = Q[u][m]
  BY <1>1 DEF Typed
<1>5. Typed(S, P, T, R, F)
  BY <1>1, <1>3 DEF Typed
<1>6. Requested(S, P, R)
  <2>1. ASSUME NEW u \in Tasks, NEW m \in Names, R[u][m] # NoObject
        PROVE  Backed(S, P, u, m, R[u][m])
    <3>1. CASE u = t /\ m = n
      BY <1>4, <3>1 DEF Backed
    <3>2. CASE u # t \/ m # n
      <4>1. R[u][m] = Q[u][m]
        BY <1>4, <3>2
      <4> QED
        BY <1>1, <2>1, <4>1 DEF Requested
    <3> QED
      BY <3>1, <3>2
  <2> QED
    BY <2>1 DEF Requested
<1>7. Selves(S, P, R, F)
  BY <1>1, <1>4 DEF Selves
<1> QED
  BY <1>5, <1>6, <1>7 DEF NamesInv

\* The rights of names to a live port are send rights, when no name has the
\* receive right.
LEMMA DyingNames ==
  ASSUME NEW S, NEW P, NEW T, NEW Q, NEW F, NamesInv(S, P, T, Q, F),
         NEW o \in Objects, P[o] \in Live, Unreceived(S, o), NEW t \in Tasks
  PROVE  /\ Killable(S[t], o)
         /\ \A n \in Names : Ob(S, t, n) = o => Ty(S, t, n) \cap Sending # {}
<1>1. ASSUME NEW n \in Names, Ob(S, t, n) = o
      PROVE  /\ Ty(S, t, n) \cap Sending # {} /\ Ty(S, t, n) \subseteq Sending
             /\ "SendOnce" \in Ty(S, t, n) => Ty(S, t, n) = {"SendOnce"}
  <2>1. Ty(S, t, n) # {} /\ "Receive" \notin Ty(S, t, n)
    BY <1>1, EntryFacts DEF NamesInv, Typed, Unreceived
  <2>2. Ty(S, t, n) \subseteq Allowed(P[o])
    BY <1>1 DEF NamesInv, Shaped
  <2>3. Allowed(P[o]) \subseteq PortRights
    BY DEF Live, Allowed, PortRights, Sending
  <2>4. Ty(S, t, n) \subseteq Sending
    BY <2>1, <2>2, <2>3 DEF PortRights
  <2> QED
    BY <2>1, <2>4 DEF NamesInv, Once
<1> QED
  BY <1>1 DEF Killable, Has, Ob, Ty

\* The rights to a port become dead names, and the requests on them are answered,
\* unless the port was closed.
LEMMA DeadInv ==
  ASSUME NEW S, NEW P, NEW T, NEW Q, NEW F, NamesInv(S, P, T, Q, F),
         NEW o \in Objects, P[o] \in Live, \A t \in Tasks : F[t] # o, Unreceived(S, o),
         NEW U, Wells(U), Dies(S, U, o),
         NEW T2, T2 = T \ {o},
         NEW d \in {"dead", "closed"}, NEW P2, P2 = [P EXCEPT ![o] = d],
         NEW Q2, Answered(Q, Q2, o, d)
  PROVE  NamesInv(U, P2, T2, Q2, F)
<1>1. /\ Typed(S, P, T, Q, F) /\ Shaped(S, P) /\ Once(S) /\ Held(S) /\ Carried(S, P, T)
      /\ Requested(S, P, Q) /\ Selves(S, P, Q, F)
  BY DEF NamesInv
<1>0. /\ U \in [Tasks -> Spaces] /\ \A t \in Tasks : Well(U[t])
      /\ Q2 \in [Tasks -> [Names -> Objects \cup {NoObject}]]
      /\ \A t \in Tasks, n \in Names :
            Q2[t][n] # NoObject => Q2[t][n] = Q[t][n] /\ (d = "dead" => Q2[t][n] # o)
  BY DEF Wells, Answered
<1>2. P2 \in [Objects -> Ports] /\ P2[o] = d /\ \A q \in Objects \ {o} : P2[q] = P[q]
  <2>1. d \in Ports
    BY DEF Ports, Live
  <2> QED
    BY <1>1, <2>1 DEF Typed
<1>3. \A t \in Tasks, n \in Names :
         /\ Ob(S, t, n) = o => Ob(U, t, n) = o /\ Ty(U, t, n) = {"DeadName"}
         /\ Ob(S, t, n) # o => Ob(U, t, n) = Ob(S, t, n) /\ Ty(U, t, n) = Ty(S, t, n)
  BY DEF Dies
<1>4. Typed(U, P2, T2, Q2, F)
  BY <1>0, <1>1, <1>2 DEF Typed
<1>5. Shaped(U, P2)
  <2>1. SUFFICES ASSUME NEW t \in Tasks, NEW n \in Names, Ob(U, t, n) \in Objects
                 PROVE  Ty(U, t, n) \subseteq Allowed(P2[Ob(U, t, n)])
    BY DEF Shaped
  <2>2. CASE Ob(S, t, n) = o
    <3>1. Allowed(d) = {"DeadName"}
      BY DEF Allowed
    <3> QED
      BY <1>2, <1>3, <2>2, <3>1
  <2>3. CASE Ob(S, t, n) # o
    BY <1>1, <1>2, <1>3, <2>1, <2>3 DEF Shaped
  <2> QED
    BY <2>2, <2>3
<1>6. Once(U)
  <2>1. ASSUME NEW t \in Tasks, NEW n \in Names, "SendOnce" \in Ty(U, t, n)
        PROVE  Ty(U, t, n) = {"SendOnce"}
    BY <1>1, <1>3, <2>1 DEF Once
  <2>2. ASSUME NEW t \in Tasks, NEW n \in Names, NEW m \in Names \ {n},
               Ty(U, t, n) \cap Whole # {}, Ob(U, t, m) = Ob(U, t, n), Ty(U, t, m) \cap Whole # {}
        PROVE  FALSE
    <3>1. Ob(S, t, n) # o /\ Ob(S, t, m) # o
      BY <1>3, <2>2 DEF Whole
    <3>2. /\ Ty(S, t, n) \cap Whole # {} /\ Ob(S, t, m) = Ob(S, t, n)
          /\ Ty(S, t, m) \cap Whole # {}
      BY <1>3, <2>2, <3>1
    <3> QED
      BY <1>1, <3>2 DEF Once
  <2> QED
    BY <2>1, <2>2 DEF Once
<1>7. Held(U)
  <2>1. SUFFICES ASSUME NEW t \in Tasks, NEW u \in Tasks, NEW n \in Names, NEW m \in Names,
                        NEW r \in {"Receive", "PortSet"},
                        r \in Ty(U, t, n), r \in Ty(U, u, m), Ob(U, t, n) = Ob(U, u, m)
                 PROVE  t = u /\ n = m
    BY DEF Held
  <2>2. Ob(S, t, n) # o /\ Ob(S, u, m) # o
    BY <1>3, <2>1
  <2>3. r \in Ty(S, t, n) /\ r \in Ty(S, u, m)
    BY <1>3, <2>1, <2>2
  <2>4. Ob(S, t, n) = Ob(S, u, m)
    BY <1>3, <2>1, <2>2
  <2>5. Held(S)
    BY <1>1
  <2> QED
    BY <2>3, <2>4, <2>5 DEF Held
<1>8. Carried(U, P2, T2)
  <2>1. ASSUME NEW q \in T2 PROVE P2[q] = "guest" /\ Unreceived(U, q)
    <3>1. q \in T /\ q \in Objects /\ q # o
      BY <1>1 DEF Typed
    <3>2. P[q] = "guest" /\ Unreceived(S, q)
      BY <1>1, <3>1 DEF Carried
    <3>3. Unreceived(U, q)
      BY <1>3, <3>1, <3>2 DEF Unreceived
    <3> QED
      BY <1>2, <3>1, <3>2, <3>3
  <2> QED
    BY <2>1 DEF Carried
<1>9. Requested(U, P2, Q2)
  <2>1. SUFFICES ASSUME NEW t \in Tasks, NEW n \in Names, Q2[t][n] # NoObject,
                        P2[Q2[t][n]] # "closed"
                 PROVE  Ob(U, t, n) = Q2[t][n] /\ Ty(U, t, n) \cap PortRights # {}
    BY DEF Requested, Backed
  <2>2. Q2[t][n] \in Objects /\ Q2[t][n] # o /\ Q2[t][n] = Q[t][n]
    BY <1>0, <1>2, <2>1
  <2>3. P[Q[t][n]] # "closed"
    BY <1>2, <2>1, <2>2
  <2>4. Ob(S, t, n) = Q[t][n] /\ Ty(S, t, n) \cap PortRights # {}
    BY <1>1, <2>1, <2>2, <2>3 DEF Requested, Backed
  <2> QED
    BY <1>3, <2>2, <2>4
<1>10. Selves(U, P2, Q2, F)
  <2>1. ASSUME NEW t \in Tasks, F[t] = NoObject, NEW n \in Names
        PROVE  Ty(U, t, n) = {} /\ Q2[t][n] = NoObject
    <3>1. Ty(S, t, n) = {} /\ Q[t][n] = NoObject
      BY <1>1, <2>1 DEF Selves
    <3>2. Ob(S, t, n) # o
      BY <1>1, <3>1, EntryFacts DEF Typed
    <3> QED
      BY <1>0, <1>3, <3>1, <3>2
  <2>2. ASSUME NEW t \in Tasks, F[t] # NoObject PROVE P2[F[t]] = P[F[t]]
    BY <1>1, <1>2, <2>2 DEF Typed
  <2> QED
    BY <1>1, <2>1, <2>2 DEF Selves
<1> QED
  BY <1>4, <1>5, <1>6, <1>7, <1>8, <1>9, <1>10 DEF NamesInv

\* One request changes, in requests Q of targets X.
LEMMA RequestAt ==
  ASSUME NEW X, NEW Q \in [Tasks -> [Names -> X]], NEW t \in Tasks, NEW n \in Names, NEW x \in X,
         NEW R, R = [Q EXCEPT ![t][n] = x]
  PROVE  /\ R \in [Tasks -> [Names -> X]] /\ R[t][n] = x
         /\ \A v \in Tasks, k \in Names : v # t \/ k # n => R[v][k] = Q[v][k]
<1>1. R[t] = [Q[t] EXCEPT ![n] = x] /\ \A v \in Tasks \ {t} : R[v] = Q[v]
  OBVIOUS
<1>2. R[t] \in [Names -> X] /\ R[t][n] = x /\ \A k \in Names \ {n} : R[t][k] = Q[t][k]
  BY <1>1
<1>3. R \in [Tasks -> [Names -> X]]
  BY <1>1, <1>2
<1> QED
  BY <1>1, <1>2, <1>3

\* The requests of a rename: the old name gives its own up, the new one keeps its own.
LEMMA RequestsOfRename ==
  ASSUME NEW Q \in [Tasks -> [Names -> Objects \cup {NoObject}]], NEW t \in Tasks,
         NEW n \in Names, NEW m \in Names, m # n, NEW R,
         R = [Q EXCEPT ![t][n] = NoObject,
                       ![t][m] = IF Q[t][m] = NoObject THEN Q[t][n] ELSE Q[t][m]]
  PROVE  /\ R \in [Tasks -> [Names -> Objects \cup {NoObject}]]
         /\ R[t][n] = NoObject
         /\ R[t][m] = IF Q[t][m] = NoObject THEN Q[t][n] ELSE Q[t][m]
         /\ \A v \in Tasks, k \in Names : v # t \/ (k # n /\ k # m) => R[v][k] = Q[v][k]
<1>1. PICK x : x = IF Q[t][m] = NoObject THEN Q[t][n] ELSE Q[t][m]
  OBVIOUS
<1>2. PICK A : A = [Q EXCEPT ![t][n] = NoObject]
  OBVIOUS
<1>3. /\ A \in [Tasks -> [Names -> Objects \cup {NoObject}]] /\ A[t][n] = NoObject
      /\ \A v \in Tasks, k \in Names : v # t \/ k # n => A[v][k] = Q[v][k]
  BY <1>2, RequestAt
<1>4. PICK B : B = [A EXCEPT ![t][m] = x]
  OBVIOUS
<1>5. x \in Objects \cup {NoObject}
  BY <1>1
<1>6. /\ B \in [Tasks -> [Names -> Objects \cup {NoObject}]] /\ B[t][m] = x
      /\ \A v \in Tasks, k \in Names : v # t \/ k # m => B[v][k] = A[v][k]
  BY <1>3, <1>4, <1>5, RequestAt
<1>7. R = B
  BY <1>1, <1>2, <1>4
<1>8. R \in [Tasks -> [Names -> Objects \cup {NoObject}]]
  BY <1>6, <1>7
<1>9. R[t][n] = NoObject /\ R[t][m] = x
  <2>1. B[t][n] = A[t][n]
    BY <1>6
  <2>2. B[t][n] = NoObject
    BY <1>3, <2>1
  <2>3. B[t][m] = x
    BY <1>6
  <2> QED
    BY <1>7, <2>2, <2>3, Zenon
<1>10. \A v \in Tasks, k \in Names : v # t \/ (k # n /\ k # m) => R[v][k] = Q[v][k]
  BY <1>3, <1>6, <1>7
<1> QED
  BY <1>1, <1>8, <1>9, <1>10

\* A name changes, and its request with it.
LEMMA RenameInv ==
  ASSUME NEW S, NEW P, NEW T, NEW Q, NEW F, NamesInv(S, P, T, Q, F),
         NEW t \in Tasks, NEW n \in Names, NEW m \in Names, F[t] # NoObject,
         Contains(S[t], n), ~Contains(S[t], m),
         NEW U, U = [S EXCEPT ![t] = RenameEntry(@, n, m)],
         NEW R, R = [Q EXCEPT ![t][n] = NoObject,
                              ![t][m] = IF @ = NoObject THEN Q[t][n] ELSE @]
  PROVE  NamesInv(U, P, T, R, F)
<1> DEFINE u == RenameEntry(S[t], n, m)
           sw(v, k) == IF v = t /\ k = n THEN m ELSE IF v = t /\ k = m THEN n ELSE k
<1>1. /\ Typed(S, P, T, Q, F) /\ Shaped(S, P) /\ Once(S) /\ Held(S) /\ Carried(S, P, T)
      /\ Requested(S, P, Q) /\ Selves(S, P, Q, F)
  BY DEF NamesInv
<1>2. /\ Well(u) /\ n # m
      /\ u.entries[n] = NoEntry /\ u.entries[m] = S[t].entries[n]
      /\ \A k \in Names \ {n, m} : u.entries[k] = S[t].entries[k]
  BY <1>1, RenameEntryIs DEF Typed
<1>3. U = With(S, t, u)
  BY DEF With
<1> HIDE DEF u
<1>4. /\ U \in [Tasks -> Spaces] /\ \A v \in Tasks : Well(U[v])
      /\ U[t] = u /\ \A v \in Tasks \ {t} : U[v] = S[v]
  <2>1. S \in [Tasks -> Spaces] /\ \A v \in Tasks : Well(S[v])
    BY <1>1 DEF Typed
  <2>2. Well(u)
    BY <1>2
  <2> QED
    BY <1>3, <2>1, <2>2, OneSpace
<1>5. Ty(S, t, m) = {} /\ Ob(S, t, m) = NoObject
  BY <1>1, EntryFacts DEF Contains, Ty, Typed
<1>6. NoEntry.type = {} /\ NoEntry.object = NoObject
  BY NoEntryOK
<1>7. \A v \in Tasks, k \in Names :
         /\ sw(v, k) \in Names
         /\ Ob(U, v, k) = Ob(S, v, sw(v, k)) /\ Ty(U, v, k) = Ty(S, v, sw(v, k))
  <2>1. SUFFICES ASSUME NEW v \in Tasks, NEW k \in Names
                 PROVE  /\ sw(v, k) \in Names
                        /\ Ob(U, v, k) = Ob(S, v, sw(v, k)) /\ Ty(U, v, k) = Ty(S, v, sw(v, k))
    OBVIOUS
  <2>2. CASE v = t /\ k = n
    BY <1>2, <1>4, <1>5, <1>6, <2>2 DEF Ob, Ty
  <2>3. CASE v = t /\ k = m
    BY <1>2, <1>4, <2>3 DEF Ob, Ty
  <2>4. CASE v # t \/ (k # n /\ k # m)
    BY <1>2, <1>4, <2>4 DEF Ob, Ty
  <2> QED
    BY <2>2, <2>3, <2>4
<1>8. \A v \in Tasks, k, j \in Names : sw(v, k) = sw(v, j) => k = j
  BY <1>2
<1>9. /\ R \in [Tasks -> [Names -> Objects \cup {NoObject}]]
      /\ R[t][n] = NoObject
      /\ R[t][m] = IF Q[t][m] = NoObject THEN Q[t][n] ELSE Q[t][m]
      /\ \A v \in Tasks, k \in Names : v # t \/ (k # n /\ k # m) => R[v][k] = Q[v][k]
  <2>1. Q \in [Tasks -> [Names -> Objects \cup {NoObject}]]
    BY <1>1 DEF Typed
  <2>2. m # n
    BY <1>2
  <2> QED
    BY <2>1, <2>2, RequestsOfRename
<1> HIDE DEF sw
<1>10. Typed(U, P, T, R, F)
  BY <1>1, <1>4, <1>9 DEF Typed
<1>11. Shaped(U, P)
  BY <1>1, <1>7 DEF Shaped
<1>12. Once(U)
  <2>1. ASSUME NEW v \in Tasks, NEW k \in Names, "SendOnce" \in Ty(U, v, k)
        PROVE  Ty(U, v, k) = {"SendOnce"}
    BY <1>1, <1>7, <2>1 DEF Once
  <2>2. ASSUME NEW v \in Tasks, NEW k \in Names, NEW j \in Names \ {k},
               Ty(U, v, k) \cap Whole # {}, Ob(U, v, j) = Ob(U, v, k), Ty(U, v, j) \cap Whole # {}
        PROVE  FALSE
    <3>1. sw(v, k) \in Names /\ sw(v, j) \in Names /\ sw(v, j) # sw(v, k)
      BY <1>7, <1>8, <2>2
    <3>2. /\ Ty(S, v, sw(v, k)) \cap Whole # {} /\ Ty(S, v, sw(v, j)) \cap Whole # {}
          /\ Ob(S, v, sw(v, j)) = Ob(S, v, sw(v, k))
      BY <1>7, <2>2
    <3>3. Once(S)
      BY <1>1
    <3> QED
      BY <3>1, <3>2, <3>3 DEF Once
  <2> QED
    BY <2>1, <2>2 DEF Once
<1>13. Held(U)
  <2>1. SUFFICES ASSUME NEW v \in Tasks, NEW w \in Tasks, NEW k \in Names, NEW j \in Names,
                        NEW r \in {"Receive", "PortSet"},
                        r \in Ty(U, v, k), r \in Ty(U, w, j), Ob(U, v, k) = Ob(U, w, j)
                 PROVE  v = w /\ k = j
    BY DEF Held
  <2>2. /\ sw(v, k) \in Names /\ sw(w, j) \in Names
        /\ r \in Ty(S, v, sw(v, k)) /\ r \in Ty(S, w, sw(w, j))
        /\ Ob(S, v, sw(v, k)) = Ob(S, w, sw(w, j))
    BY <1>7, <2>1
  <2>3. Held(S)
    BY <1>1
  <2>4. v = w /\ sw(v, k) = sw(w, j)
    BY <2>2, <2>3 DEF Held
  <2> QED
    BY <1>8, <2>4
<1>14. Carried(U, P, T)
  <2>1. ASSUME NEW o \in T, NEW v \in Tasks, NEW k \in Names, Ob(U, v, k) = o
        PROVE  "Receive" \notin Ty(U, v, k)
    <3>1. sw(v, k) \in Names /\ Ob(S, v, sw(v, k)) = o
      BY <1>7, <2>1
    <3>2. "Receive" \notin Ty(S, v, sw(v, k))
      BY <1>1, <3>1 DEF Carried, Unreceived
    <3> QED
      BY <1>7, <3>2
  <2> QED
    BY <1>1, <2>1 DEF Carried, Unreceived
<1>15. Requested(U, P, R)
  <2>1. SUFFICES ASSUME NEW v \in Tasks, NEW k \in Names, R[v][k] # NoObject, P[R[v][k]] # "closed"
                 PROVE  Ob(U, v, k) = R[v][k] /\ Ty(U, v, k) \cap PortRights # {}
    BY DEF Requested, Backed
  <2>2. CASE v = t /\ k = n
    BY <1>9, <2>1, <2>2
  <2>3. CASE v = t /\ k = m
    <3>1. Q[t][m] = NoObject
      BY <1>1, <1>5, <1>9, <2>1, <2>3 DEF Requested, Backed
    <3>2. R[t][m] = Q[t][n]
      BY <1>9, <3>1
    <3>3. Ob(S, t, n) = Q[t][n] /\ Ty(S, t, n) \cap PortRights # {}
      BY <1>1, <2>1, <2>3, <3>2 DEF Requested, Backed
    <3>4. sw(t, m) = n
      BY <1>2 DEF sw
    <3> QED
      BY <1>7, <2>3, <3>2, <3>3, <3>4
  <2>4. CASE v # t \/ (k # n /\ k # m)
    <3>1. sw(v, k) = k /\ R[v][k] = Q[v][k]
      BY <1>9, <2>4 DEF sw
    <3>2. Ob(S, v, k) = Q[v][k] /\ Ty(S, v, k) \cap PortRights # {}
      BY <1>1, <2>1, <3>1 DEF Requested, Backed
    <3> QED
      BY <1>7, <3>1, <3>2
  <2> QED
    BY <2>2, <2>3, <2>4
<1>16. Selves(U, P, R, F)
  <2>1. ASSUME NEW v \in Tasks, F[v] = NoObject, NEW k \in Names
        PROVE  Ty(U, v, k) = {} /\ R[v][k] = NoObject
    <3>1. v # t /\ sw(v, k) = k
      BY <2>1 DEF sw
    <3>2. Ty(S, v, k) = {} /\ Q[v][k] = NoObject
      BY <1>1, <2>1 DEF Selves
    <3>3. R[v][k] = Q[v][k]
      BY <1>9, <3>1
    <3>4. Ty(U, v, k) = Ty(S, v, k)
      BY <1>7, <3>1
    <3> QED
      BY <3>2, <3>3, <3>4
  <2> QED
    BY <1>1, <2>1 DEF Selves
<1> QED
  BY <1>10, <1>11, <1>12, <1>13, <1>14, <1>15, <1>16 DEF NamesInv

-----------------------------------------------------------------------------
(* How ports end.                                                          *)

\* Dead names in every space.
LEMMA MarkedSpaces ==
  ASSUME NEW S, NEW P, NEW T, NEW Q, NEW F, NamesInv(S, P, T, Q, F),
         NEW o \in Objects, P[o] \in Live, Unreceived(S, o),
         NEW V, V = [t \in Tasks |-> MarkDead(S[t], o)]
  PROVE  Wells(V) /\ Dies(S, V, o)
<1>1. ASSUME NEW t \in Tasks
      PROVE  /\ V[t] \in Spaces /\ Well(V[t])
             /\ \A n \in Names :
                  /\ Ob(S, t, n) = o => Ob(V, t, n) = o /\ Ty(V, t, n) = {"DeadName"}
                  /\ Ob(S, t, n) # o => Ob(V, t, n) = Ob(S, t, n) /\ Ty(V, t, n) = Ty(S, t, n)
  <2>1. Well(S[t])
    BY DEF NamesInv, Typed
  <2>2. Killable(S[t], o) /\ \A n \in Names : Ob(S, t, n) = o => Ty(S, t, n) \cap Sending # {}
    BY DyingNames
  <2>3. V[t] = MarkDead(S[t], o)
    OBVIOUS
  <2>4. Killed(S[t], V[t], o)
    BY <2>1, <2>2, <2>3, MarkDeadIs
  <2> QED
    BY <2>2, <2>4 DEF Killed, Ob, Ty, Well
<1> QED
  BY <1>1 DEF Wells, Dies

\* A port that ends without a port-destroyed request leaves dead names; with one,
\* its receive right is in a message.
LEMMA TerminateInv ==
  ASSUME NEW S, NEW Q, NEW F, NamesInv(S, port, transit, Q, F),
         NEW o \in Objects, port[o] \in Live, \A t \in Tasks : F[t] # o, Unreceived(S, o),
         Terminate(S, Q, o)
  PROVE  NamesInv(spaces', port', transit', requests', F)
<1>1. Typed(S, port, transit, Q, F)
  BY DEF NamesInv
<1>2. CASE /\ port[o] = "guest"
           /\ spaces' = S
           /\ requests' = Q
           /\ transit' = transit \cup {o}
           /\ port' = port
  <2> DEFINE T2 == transit \cup {o}
  <2>1. Leaving(S, port, transit, T2)
    BY <1>1, <1>2 DEF Typed, Leaving
  <2> HIDE DEF T2
  <2>5. NamesInv(S, port, T2, Q, F)
    BY <2>1, NothingLost, LoseInv
  <2> QED
    BY <1>2, <2>5 DEF T2
<1>3. CASE /\ spaces' = [t \in Tasks |-> Notified(MarkDead(S[t], o), Q[t], o)]
           /\ requests' = [t \in Tasks |-> [n \in Names |->
                              IF Q[t][n] = o THEN NoObject ELSE Q[t][n]]]
           /\ transit' = transit \ {o}
           /\ port' = [port EXCEPT ![o] = "dead"]
  <2> DEFINE V == [t \in Tasks |-> MarkDead(S[t], o)]
             U == [t \in Tasks |-> Notified(V[t], Q[t], o)]
             R == [t \in Tasks |-> [n \in Names |-> IF Q[t][n] = o THEN NoObject ELSE Q[t][n]]]
             T2 == transit \ {o}
             P2 == [port EXCEPT ![o] = "dead"]
  <2>1. Wells(V) /\ Dies(S, V, o)
    <3>1. V = [t \in Tasks |-> MarkDead(S[t], o)]
      OBVIOUS
    <3> HIDE DEF V
    <3> QED
      BY <3>1, MarkedSpaces
  <2>2. spaces' = U /\ requests' = R /\ transit' = T2 /\ port' = P2
    BY <1>3
  <2> HIDE DEF V
  <2>3. \A t \in Tasks : U[t] = Notified(V[t], Q[t], o)
    OBVIOUS
  <2>4. ASSUME NEW t \in Tasks
        PROVE  /\ U[t] \in Spaces /\ Well(U[t])
               /\ \A n \in Names : Ob(U, t, n) = Ob(V, t, n) /\ Ty(U, t, n) = Ty(V, t, n)
    <3>1. Well(U[t]) /\ \A n \in Names : /\ U[t].entries[n].object = V[t].entries[n].object
                                         /\ U[t].entries[n].type = V[t].entries[n].type
      BY <2>1, <2>3, NotifiedIs DEF Wells
    <3> QED
      BY <3>1 DEF Well, Ob, Ty
  <2>5. Wells(U)
    BY <2>4 DEF Wells
  <2> HIDE DEF U
  <2>6. Dies(S, U, o)
    BY <2>1, <2>4 DEF Dies
  <2>7. \A t \in Tasks, n \in Names : Q[t][n] \in Objects \cup {NoObject}
    BY <1>1 DEF Typed
  <2>8. R \in [Tasks -> [Names -> Objects \cup {NoObject}]]
    BY <2>7
  <2>9. Answered(Q, R, o, "dead")
    BY <2>8 DEF Answered
  <2> HIDE DEF R, T2, P2
  <2>10. NamesInv(U, P2, T2, R, F)
    BY <2>5, <2>6, <2>9, DeadInv DEF T2, P2
  <2> QED
    BY <2>2, <2>10
<1> QED
  BY <1>2, <1>3 DEF Terminate

\* A kernel object without send rights ends unnoticed.
LEMMA ReleasedInv ==
  ASSUME NEW S, NEW T, NEW Q, NamesInv(S, port, T, Q, self),
         NEW o \in Objects, Transient(o), SendReferences(S, o) = {},
         NEW P2, P2 = [port EXCEPT ![o] = "dead"]
  PROVE  NamesInv(S, P2, T, Q, self)
<1>1. ASSUME NEW t \in Tasks, NEW n \in Names, Ob(S, t, n) = o PROVE FALSE
  <2>1. /\ Well(S[t]) /\ Ty(S, t, n) # {} /\ Ty(S, t, n) \subseteq Allowed("kernel")
    BY <1>1, EntryFacts DEF NamesInv, Typed, Shaped, Transient
  <2>2. "Send" \in Ty(S, t, n)
    BY <2>1 DEF Allowed
  <2>3. n \in S[t].index[o].names /\ Has(S[t], n, "Send")
    BY <1>1, <2>1, <2>2, WellNames DEF Ob, Ty, Has, Contains
  <2>4. t \in SendReferences(S, o)
    BY <2>3 DEF SendReferences, NameFor
  <2> QED
    BY <2>4
<1>2. port[o] = "kernel" /\ \A t \in Tasks : self[t] # o
  BY DEF Transient
<1> QED
  BY <1>1, <1>2, UnnamedInv

-----------------------------------------------------------------------------
(* How rights go.                                                          *)

\* One name keeps the rights K.
LEMMA LeavesLoses ==
  ASSUME NEW S, NEW P, NEW T, NEW Q, NEW F, NamesInv(S, P, T, Q, F),
         NEW t \in Tasks, NEW n \in Names, NEW K, K \subseteq Ty(S, t, n),
         NEW u, Leaves(S[t], u, n, K),
         NEW U, U = With(S, t, u)
  PROVE  /\ Wells(U) /\ Fewer(S, U) /\ U[t] = u
         /\ Ty(U, t, n) = K /\ (K # {} => Ob(U, t, n) = Ob(S, t, n))
         /\ \A v \in Tasks, m \in Names : v # t \/ m # n =>
               Ob(U, v, m) = Ob(S, v, m) /\ Ty(U, v, m) = Ty(S, v, m)
<1>1. S \in [Tasks -> Spaces] /\ \A v \in Tasks : Well(S[v])
  BY DEF NamesInv, Typed
<1>2. /\ U \in [Tasks -> Spaces] /\ \A v \in Tasks : Well(U[v])
      /\ U[t] = u /\ \A v \in Tasks \ {t} : U[v] = S[v]
  BY <1>1, OneSpace DEF Leaves
<1>3. Ty(U, t, n) = K /\ (K # {} => Ob(U, t, n) = Ob(S, t, n))
  BY <1>2 DEF Leaves, Ob, Ty
<1>4. \A v \in Tasks, m \in Names : v # t \/ m # n =>
         Ob(U, v, m) = Ob(S, v, m) /\ Ty(U, v, m) = Ty(S, v, m)
  BY <1>2 DEF Leaves, Ob, Ty
<1>5. Fewer(S, U)
  BY <1>3, <1>4 DEF Fewer
<1> QED
  BY <1>2, <1>3, <1>4, <1>5 DEF Wells

\* The names of a port that is alive have port rights only.
LEMMA LiveRights ==
  ASSUME NEW S, NEW P, NEW T, NEW Q, NEW F, NamesInv(S, P, T, Q, F),
         NEW t \in Tasks, NEW n \in Names, Ty(S, t, n) # {}
  PROVE  /\ Ob(S, t, n) \in Objects
         /\ Ty(S, t, n) \cap PortRights # {} =>
               P[Ob(S, t, n)] \in Live /\ Ty(S, t, n) \subseteq PortRights
         /\ "Receive" \in Ty(S, t, n) => P[Ob(S, t, n)] = "guest"
         /\ "SendOnce" \in Ty(S, t, n) => P[Ob(S, t, n)] = "guest"
         /\ "PortSet" \in Ty(S, t, n) => P[Ob(S, t, n)] = "set" /\ Ty(S, t, n) = {"PortSet"}
         /\ "DeadName" \in Ty(S, t, n) =>
               P[Ob(S, t, n)] \in {"dead", "closed"} /\ Ty(S, t, n) = {"DeadName"}
<1> DEFINE o == Ob(S, t, n)
<1>1. o \in Objects /\ P[o] \in Ports
  BY EntryFacts DEF NamesInv, Typed
<1>2. Ty(S, t, n) \subseteq Allowed(P[o])
  BY <1>1 DEF NamesInv, Shaped
<1>3. \/ P[o] = "guest" /\ Ty(S, t, n) \subseteq PortRights
      \/ P[o] = "kernel" /\ Ty(S, t, n) = {"Send"}
      \/ P[o] = "set" /\ Ty(S, t, n) = {"PortSet"}
      \/ P[o] \in {"dead", "closed"} /\ Ty(S, t, n) = {"DeadName"}
  BY <1>1, <1>2 DEF Allowed, Ports, Live
<1> HIDE DEF o
<1> QED
  BY <1>1, <1>3 DEF PortRights, Sending, Live, o

\* One request is withdrawn.
LEMMA CancelledIs ==
  ASSUME requests \in [Tasks -> [Names -> Objects \cup {NoObject}]],
         NEW t \in Tasks, NEW n \in Names
  PROVE  /\ Cancelled(t, n) \in [Tasks -> [Names -> Objects \cup {NoObject}]]
         /\ Cancelled(t, n)[t][n] = NoObject
         /\ \A v \in Tasks, m \in Names : v # t \/ m # n => Cancelled(t, n)[v][m] = requests[v][m]
BY DEF Cancelled

\* The requests after a name has lost rights.
LEMMA StillAskedIs ==
  ASSUME NamesInv(spaces, port, transit, requests, self),
         NEW t \in Tasks, NEW n \in Names, NEW K, K \subseteq Ty(spaces, t, n),
         NEW u, Leaves(spaces[t], u, n, K),
         NEW U, U = With(spaces, t, u)
  PROVE  /\ StillAsked(U, port, requests, Cancelled(t, n))
         /\ StillAsked(U, port, requests, CancelledIfGone(U, t, n))
         /\ Ty(spaces, t, n) \cap PortRights = {} => StillAsked(U, port, requests, requests)
<1>1. /\ U[t] = u /\ Ty(U, t, n) = K
      /\ \A v \in Tasks, m \in Names : v # t \/ m # n =>
            Ob(U, v, m) = Ob(spaces, v, m) /\ Ty(U, v, m) = Ty(spaces, v, m)
  BY LeavesLoses
<1>2. /\ requests \in [Tasks -> [Names -> Objects \cup {NoObject}]]
      /\ \A v \in Tasks, m \in Names :
            requests[v][m] # NoObject /\ port[requests[v][m]] # "closed" =>
               Ty(spaces, v, m) \cap PortRights # {}
  BY DEF NamesInv, Typed, Requested, Backed
<1>3. StillAsked(U, port, requests, Cancelled(t, n))
  BY <1>1, <1>2, CancelledIs DEF StillAsked
<1>4. StillAsked(U, port, requests, CancelledIfGone(U, t, n))
  <2>1. CASE Contains(U[t], n)
    <3>1. CancelledIfGone(U, t, n) = requests
      BY <2>1 DEF CancelledIfGone
    <3>2. K # {}
      BY <1>1, <2>1 DEF Contains, Ty
    <3>3. Ty(spaces, t, n) \cap PortRights # {} => K \cap PortRights # {}
      BY <3>2, LiveRights
    <3> QED
      BY <1>1, <1>2, <3>1, <3>3 DEF StillAsked
  <2>2. CASE ~Contains(U[t], n)
    BY <1>3, <2>2 DEF CancelledIfGone
  <2> QED
    BY <2>1, <2>2
<1>5. Ty(spaces, t, n) \cap PortRights = {} => StillAsked(U, port, requests, requests)
  BY <1>1, <1>2 DEF StillAsked
<1> QED
  BY <1>3, <1>4, <1>5

\* What one name loses leaves the invariant.
LEMMA LeavesInv ==
  ASSUME NamesInv(spaces, port, transit, requests, self),
         NEW t \in Tasks, NEW n \in Names, NEW K, K \subseteq Ty(spaces, t, n),
         NEW u, Leaves(spaces[t], u, n, K),
         NEW U, U = With(spaces, t, u),
         NEW Q2, StillAsked(U, port, requests, Q2)
  PROVE  NamesInv(U, port, transit, Q2, self)
<1>1. Wells(U) /\ Fewer(spaces, U)
  BY LeavesLoses
<1>2. Leaving(U, port, transit, transit)
  BY DEF NamesInv, Typed, Leaving
<1> QED
  BY <1>1, <1>2, LoseInv

\* A whole entry.
LEMMA DestroyLeaves ==
  ASSUME NEW s, Well(s), NEW n \in Names, Contains(s, n)
  PROVE  Leaves(s, DestroyEntry(s, n), n, {})
<1> DEFINE o == s.entries[n].object
<1>1. /\ s \in Spaces /\ \A m \in Names : EntryOK(s.entries[m])
      /\ \A q \in Objects : IndexedAt(s, q)
      /\ o \in Objects
  BY WellNames DEF Well, Indexed, IndexedAt
<1>2. s.entries[n].object = o
  OBVIOUS
<1> HIDE DEF o
<1>3. Loosely(s, n, o)
  BY <1>1, <1>2 DEF Loosely, IndexedAt
<1> QED
  BY <1>1, <1>3, DestroyEntryLeaves

\* The receive right that a name gives up is nowhere else.
LEMMA ReceiveGone ==
  ASSUME NEW S, NEW P, NEW T, NEW Q, NEW F, NamesInv(S, P, T, Q, F),
         NEW t \in Tasks, NEW n \in Names, "Receive" \in Ty(S, t, n),
         NEW K, K \subseteq Ty(S, t, n), "Receive" \notin K,
         NEW u, Leaves(S[t], u, n, K),
         NEW U, U = With(S, t, u)
  PROVE  Unreceived(U, Ob(S, t, n))
<1>1. /\ Ty(U, t, n) = K
      /\ \A v \in Tasks, m \in Names : v # t \/ m # n =>
            Ob(U, v, m) = Ob(S, v, m) /\ Ty(U, v, m) = Ty(S, v, m)
  BY LeavesLoses
<1>2. Held(S)
  BY DEF NamesInv
<1>3. ASSUME NEW v \in Tasks, NEW m \in Names, Ob(U, v, m) = Ob(S, t, n), "Receive" \in Ty(U, v, m)
      PROVE  FALSE
  <2>1. v # t \/ m # n
    BY <1>1, <1>3
  <2>2. Ob(S, v, m) = Ob(S, t, n) /\ "Receive" \in Ty(S, v, m)
    BY <1>1, <1>3, <2>1
  <2> QED
    BY <1>2, <2>1, <2>2 DEF Held
<1> QED
  BY <1>3 DEF Unreceived

\* References within their limits.
LEMMA RefsAre ==
  ASSUME NEW S, \A t \in Tasks : Well(S[t]), NEW t \in Tasks, NEW n \in Names,
         NEW r \in Ty(S, t, n)
  PROVE  /\ r \in Rights /\ Limit(r) \in Nat
         /\ S[t].entries[n].refs[r] \in 1..Limit(r)
<1>1. EntryOK(S[t].entries[n]) /\ r \in Rights
  BY EntryFacts DEF Well
<1>2. Limit(r) \in Nat /\ MaxRefs \in Nat
  BY NamesAssumption DEF Limit
<1>3. S[t].entries[n].refs[r] \in 0..MaxRefs
  BY <1>1 DEF EntryOK, Entries
<1> QED
  BY <1>1, <1>2, <1>3 DEF EntryOK, Ty

NamesHere == NamesInv(spaces, port, transit, requests, self)

\* A right leaves in a message.
LEMMA MoveRightInv ==
  ASSUME NamesHere, NEW t \in Tasks, NEW n \in Names, NEW r \in PortRights, MoveRight(t, n, r)
  PROVE  NamesHere'
<1> DEFINE u == IF r = "Receive" THEN RemoveType(spaces[t], n, r)
                ELSE ModifyReferences(spaces[t], n, r, -1)
           U == With(spaces, t, u)
           o == Ob(spaces, t, n)
           T2 == IF r = "Receive" THEN transit \cup {o} ELSE transit
           Q2 == CancelledIfGone(U, t, n)
<1>1. /\ NamesInv(spaces, port, transit, requests, self)
      /\ Typed(spaces, port, transit, requests, self)
  BY DEF NamesHere, NamesInv
<1>2. /\ r \in Ty(spaces, t, n) /\ Well(spaces[t])
      /\ spaces' = U /\ requests' = Q2 /\ transit' = T2 /\ port' = port /\ self' = self
  <2>1. U = [spaces EXCEPT ![t] = IF r = "Receive" THEN RemoveType(@, n, r)
                                  ELSE ModifyReferences(@, n, r, -1)]
    BY DEF With
  <2> HIDE DEF U, u
  <2> QED
    BY <1>1, <2>1 DEF MoveRight, Typed, Ob, Ty, Has
<1>3. PICK K : /\ K \subseteq Ty(spaces, t, n) /\ Leaves(spaces[t], u, n, K)
               /\ r = "Receive" => r \notin K
  <2>1. CASE r = "Receive"
    <3>1. Leaves(spaces[t], RemoveType(spaces[t], n, r), n, Ty(spaces, t, n) \ {r})
      BY <1>2, RemoveTypeLeaves DEF Ty
    <3> QED
      BY <2>1, <3>1
  <2>2. CASE r # "Receive"
    <3>1. spaces[t].entries[n].refs[r] + -1 \in 0..Limit(r)
      BY <1>1, <1>2, RefsAre DEF Typed
    <3>2. \/ Leaves(spaces[t], u, n, Ty(spaces, t, n) \ {r})
          \/ Leaves(spaces[t], u, n, Ty(spaces, t, n))
      BY <1>2, <2>2, <3>1, ModifyReferencesLeaves DEF Ty
    <3> QED
      BY <2>2, <3>2
  <2> QED
    BY <2>1, <2>2
<1> HIDE DEF u
<1>4. U = With(spaces, t, u)
  OBVIOUS
<1> HIDE DEF U
<1>5. Wells(U) /\ Fewer(spaces, U)
  BY <1>1, <1>3, <1>4, LeavesLoses
<1>6. StillAsked(U, port, requests, Q2)
  BY <1>1, <1>3, <1>4, StillAskedIs
<1>7. Leaving(U, port, transit, T2)
  <2>1. transit \in SUBSET Objects
    BY <1>1 DEF Typed
  <2>2. CASE r = "Receive"
    <3>1. o \in Objects /\ port[o] = "guest"
      BY <1>1, <1>2, <2>2, LiveRights
    <3>2. Unreceived(U, o)
      BY <1>1, <1>2, <1>3, <1>4, <2>2, ReceiveGone
    <3> QED
      BY <2>1, <2>2, <3>1, <3>2 DEF Leaving
  <2>3. CASE r # "Receive"
    BY <2>1, <2>3 DEF Leaving
  <2> QED
    BY <2>2, <2>3
<1> HIDE DEF Q2, T2
<1>8. NamesInv(U, port, T2, Q2, self)
  BY <1>1, <1>5, <1>6, <1>7, LoseInv
<1> QED
  BY <1>2, <1>8 DEF NamesHere

\* A port that is not the kernel's is not the port of a task.
LEMMA NotSelf ==
  ASSUME NEW S, NEW P, NEW T, NEW Q, NEW F, NamesInv(S, P, T, Q, F),
         NEW o \in Objects, P[o] # "kernel"
  PROVE  \A t \in Tasks : F[t] # o
BY NamesAssumption DEF NamesInv, Selves

\* The port set that a name gives up has no other name.
LEMMA SetGone ==
  ASSUME NEW S, NEW P, NEW T, NEW Q, NEW F, NamesInv(S, P, T, Q, F),
         NEW t \in Tasks, NEW n \in Names, "PortSet" \in Ty(S, t, n),
         NEW u, Leaves(S[t], u, n, {}),
         NEW U, U = With(S, t, u)
  PROVE  \A v \in Tasks, m \in Names : Ob(U, v, m) # Ob(S, t, n)
<1>1. /\ Ty(U, t, n) = {} /\ Wells(U)
      /\ \A v \in Tasks, m \in Names : v # t \/ m # n =>
            Ob(U, v, m) = Ob(S, v, m) /\ Ty(U, v, m) = Ty(S, v, m)
  <2>1. {} \subseteq Ty(S, t, n)
    OBVIOUS
  <2> QED
    BY <2>1, LeavesLoses
<1>2. Held(S) /\ Shaped(S, P) /\ \A v \in Tasks : Well(S[v])
  BY DEF NamesInv, Typed
<1>3. Ob(S, t, n) \in Objects /\ P[Ob(S, t, n)] = "set"
  BY LiveRights
<1>4. ASSUME NEW v \in Tasks, NEW m \in Names, Ob(U, v, m) = Ob(S, t, n)
      PROVE  FALSE
  <2>1. CASE v = t /\ m = n
    BY <1>1, <1>3, <1>4, <2>1, EntryFacts DEF Wells
  <2>2. CASE v # t \/ m # n
    <3>1. Ob(S, v, m) = Ob(S, t, n)
      BY <1>1, <1>4, <2>2
    <3>2. Ty(S, v, m) # {} /\ Ty(S, v, m) \subseteq Allowed("set")
      BY <1>2, <1>3, <3>1, EntryFacts DEF Shaped
    <3>3. "PortSet" \in Ty(S, v, m)
      BY <3>2 DEF Allowed
    <3> QED
      BY <1>2, <2>2, <3>1, <3>3 DEF Held
  <2> QED
    BY <2>1, <2>2
<1> QED
  BY <1>4

\* destroy_port_name_locked.
LEMMA DestroyInv ==
  ASSUME NamesHere, NEW t \in Tasks, NEW n \in Names, Destroy(t, n), self' = self
  PROVE  NamesHere'
<1> DEFINE u == DestroyEntry(spaces[t], n)
           U == With(spaces, t, u)
           o == Ob(spaces, t, n)
           Q2 == Cancelled(t, n)
<1>1. /\ NamesInv(spaces, port, transit, requests, self)
      /\ Typed(spaces, port, transit, requests, self)
  BY DEF NamesHere, NamesInv
<1>2. Contains(spaces[t], n) /\ Ty(spaces, t, n) # {} /\ Well(spaces[t])
  BY <1>1 DEF Destroy, Typed, Contains, Ty
<1>3. /\ "Receive" \in Ty(spaces, t, n) => Terminate(U, Q2, o)
      /\ "Receive" \notin Ty(spaces, t, n) =>
            /\ spaces' = U /\ requests' = Q2 /\ transit' = transit
            /\ \/ port' = port
               \/ "PortSet" \in Ty(spaces, t, n) /\ port' = [port EXCEPT ![o] = "dead"]
               \/ Release(U, o)
  <2>1. U = [spaces EXCEPT ![t] = DestroyEntry(@, n)]
    BY DEF With
  <2> HIDE DEF U, u
  <2> QED
    BY <2>1 DEF Destroy, Ob, Ty
<1>4. Leaves(spaces[t], u, n, {})
  BY <1>2, DestroyLeaves
<1> HIDE DEF u
<1>5. U = With(spaces, t, u) /\ {} \subseteq Ty(spaces, t, n)
  OBVIOUS
<1> HIDE DEF U
<1>6. StillAsked(U, port, requests, Q2)
  BY <1>1, <1>4, <1>5, StillAskedIs
<1> HIDE DEF Q2
<1>7. NamesInv(U, port, transit, Q2, self)
  BY <1>1, <1>4, <1>5, <1>6, LeavesInv
<1>8. o \in Objects
  BY <1>1, <1>2, LiveRights
<1>9. CASE "Receive" \in Ty(spaces, t, n)
  <2>1. port[o] = "guest"
    BY <1>1, <1>2, <1>9, LiveRights
  <2>2. port[o] \in Live /\ \A v \in Tasks : self[v] # o
    BY <1>1, <1>8, <2>1, NotSelf DEF Live
  <2>3. Unreceived(U, o)
    <3>1. "Receive" \notin {}
      OBVIOUS
    <3> QED
      BY <1>1, <1>4, <1>5, <1>9, <3>1, ReceiveGone
  <2>4. NamesInv(spaces', port', transit', requests', self)
    BY <1>3, <1>7, <1>8, <1>9, <2>2, <2>3, TerminateInv
  <2> QED
    BY <2>4 DEF NamesHere
<1>10. CASE "Receive" \notin Ty(spaces, t, n)
  <2>1. CASE port' = port
    BY <1>3, <1>7, <1>10, <2>1 DEF NamesHere
  <2>2. CASE "PortSet" \in Ty(spaces, t, n) /\ port' = [port EXCEPT ![o] = "dead"]
    <3>1. port[o] = "set"
      BY <1>1, <1>2, <2>2, LiveRights
    <3>2. \A v \in Tasks : self[v] # o
      BY <1>1, <1>8, <3>1, NotSelf
    <3>3. \A v \in Tasks, m \in Names : Ob(U, v, m) # o
      BY <1>1, <1>4, <1>5, <2>2, SetGone
    <3>4. NamesInv(U, port', transit, Q2, self)
      BY <1>7, <1>8, <2>2, <3>1, <3>2, <3>3, UnnamedInv
    <3> QED
      BY <1>3, <1>10, <3>4 DEF NamesHere
  <2>3. CASE Release(U, o)
    <3>1. NamesInv(U, port', transit, Q2, self)
      BY <1>7, <1>8, <2>3, ReleasedInv DEF Release
    <3> QED
      BY <1>3, <1>10, <3>1 DEF NamesHere
  <2> QED
    BY <1>3, <1>10, <2>1, <2>2, <2>3
<1> QED
  BY <1>9, <1>10

\* A receive right, a port set or a send-once right is given up.
LEMMA DropWholeInv ==
  ASSUME NamesHere, NEW t \in Tasks, NEW n \in Names,
         NEW r \in {"Receive", "PortSet", "SendOnce"}, DropWhole(t, n, r)
  PROVE  NamesHere'
<1> DEFINE u == RemoveType(spaces[t], n, r)
           U == With(spaces, t, u)
           o == Ob(spaces, t, n)
           K == Ty(spaces, t, n) \ {r}
           Q2 == IF r # "PortSet" THEN CancelledIfGone(U, t, n) ELSE requests
<1>1. /\ NamesInv(spaces, port, transit, requests, self)
      /\ Typed(spaces, port, transit, requests, self)
  BY DEF NamesHere, NamesInv
<1>2. r \in Ty(spaces, t, n) /\ Well(spaces[t]) /\ self' = self
  BY <1>1 DEF DropWhole, Typed, Ty
<1>3. /\ r = "Receive" => Terminate(U, Q2, o)
      /\ r # "Receive" =>
            /\ spaces' = U /\ requests' = Q2 /\ transit' = transit
            /\ port' = IF r = "PortSet" THEN [port EXCEPT ![o] = "dead"] ELSE port
  <2>1. U = [spaces EXCEPT ![t] = RemoveType(@, n, r)]
    BY DEF With
  <2> HIDE DEF U, u
  <2> QED
    BY <2>1 DEF DropWhole, Ob, Ty
<1>4. Leaves(spaces[t], u, n, K)
  BY <1>2, RemoveTypeLeaves DEF Ty
<1> HIDE DEF u
<1>5. U = With(spaces, t, u) /\ K \subseteq Ty(spaces, t, n) /\ r \notin K
  OBVIOUS
<1> HIDE DEF U, K
<1>6. StillAsked(U, port, requests, Q2)
  <2>1. CASE r # "PortSet"
    BY <1>1, <1>4, <1>5, <2>1, StillAskedIs
  <2>2. CASE r = "PortSet"
    <3>1. Ty(spaces, t, n) = {"PortSet"}
      BY <1>1, <1>2, <2>2, LiveRights
    <3>2. Ty(spaces, t, n) \cap PortRights = {}
      BY <3>1 DEF PortRights, Sending
    <3> QED
      BY <1>1, <1>4, <1>5, <2>2, <3>2, StillAskedIs
  <2> QED
    BY <2>1, <2>2
<1> HIDE DEF Q2
<1>7. NamesInv(U, port, transit, Q2, self)
  BY <1>1, <1>4, <1>5, <1>6, LeavesInv
<1>8. o \in Objects
  BY <1>1, <1>2, LiveRights
<1>9. CASE r = "Receive"
  <2>1. port[o] = "guest"
    BY <1>1, <1>2, <1>9, LiveRights
  <2>2. port[o] \in Live /\ \A v \in Tasks : self[v] # o
    BY <1>1, <1>8, <2>1, NotSelf DEF Live
  <2>3. Unreceived(U, o)
    BY <1>1, <1>2, <1>4, <1>5, <1>9, ReceiveGone
  <2>4. NamesInv(spaces', port', transit', requests', self)
    BY <1>3, <1>7, <1>8, <1>9, <2>2, <2>3, TerminateInv
  <2> QED
    BY <1>2, <2>4 DEF NamesHere
<1>10. CASE r = "PortSet"
  <2>1. port[o] = "set" /\ Ty(spaces, t, n) = {"PortSet"}
    BY <1>1, <1>2, <1>10, LiveRights
  <2>2. \A v \in Tasks : self[v] # o
    BY <1>1, <1>8, <2>1, NotSelf
  <2>3. Leaves(spaces[t], u, n, {})
    <3>1. K = {}
      BY <1>10, <2>1 DEF K
    <3> QED
      BY <1>4, <3>1
  <2>4. \A v \in Tasks, m \in Names : Ob(U, v, m) # o
    BY <1>1, <1>2, <1>5, <1>10, <2>3, SetGone
  <2>5. port' = [port EXCEPT ![o] = "dead"]
    BY <1>3, <1>10
  <2>6. NamesInv(U, port', transit, Q2, self)
    BY <1>7, <1>8, <2>1, <2>2, <2>4, <2>5, UnnamedInv
  <2> QED
    BY <1>2, <1>3, <1>10, <2>6 DEF NamesHere
<1>11. CASE r = "SendOnce"
  BY <1>2, <1>3, <1>7, <1>11 DEF NamesHere
<1> QED
  BY <1>9, <1>10, <1>11

\* The references of a name change.
LEMMA ModRefsInv ==
  ASSUME NamesHere, NEW t \in Tasks, NEW n \in Names,
         NEW r \in {"Send", "DeadName"}, NEW k \in Int, ModRefs(t, n, r, k)
  PROVE  NamesHere'
<1> DEFINE u == ModifyReferences(spaces[t], n, r, k)
           U == With(spaces, t, u)
           o == Ob(spaces, t, n)
           Q2 == CancelledIfGone(U, t, n)
<1>1. /\ NamesInv(spaces, port, transit, requests, self)
      /\ Typed(spaces, port, transit, requests, self)
  BY DEF NamesHere, NamesInv
<1>2. /\ r \in Ty(spaces, t, n) /\ Well(spaces[t]) /\ self' = self
      /\ spaces[t].entries[n].refs[r] + k \in 0..Limit(r)
  BY <1>1 DEF ModRefs, Typed, Ty
<1>3. /\ spaces' = U /\ requests' = Q2 /\ transit' = transit
      /\ port' = port \/ Release(U, o)
  <2>1. U = [spaces EXCEPT ![t] = ModifyReferences(@, n, r, k)]
    BY DEF With
  <2> HIDE DEF U, u
  <2> QED
    BY <2>1 DEF ModRefs, Ob
<1>4. PICK K : K \subseteq Ty(spaces, t, n) /\ Leaves(spaces[t], u, n, K)
  <2>1. r # "SendOnce"
    OBVIOUS
  <2>2. \/ Leaves(spaces[t], u, n, Ty(spaces, t, n) \ {r})
        \/ Leaves(spaces[t], u, n, Ty(spaces, t, n))
    BY <1>2, <2>1, ModifyReferencesLeaves DEF Ty
  <2> QED
    BY <2>2
<1> HIDE DEF u
<1>5. U = With(spaces, t, u)
  OBVIOUS
<1> HIDE DEF U
<1>6. StillAsked(U, port, requests, Q2)
  BY <1>1, <1>4, <1>5, StillAskedIs
<1> HIDE DEF Q2
<1>7. NamesInv(U, port, transit, Q2, self)
  BY <1>1, <1>4, <1>5, <1>6, LeavesInv
<1>8. o \in Objects
  BY <1>1, <1>2, LiveRights
<1>9. CASE port' = port
  BY <1>2, <1>3, <1>7, <1>9 DEF NamesHere
<1>10. CASE Release(U, o)
  <2>1. NamesInv(U, port', transit, Q2, self)
    BY <1>7, <1>8, <1>10, ReleasedInv DEF Release
  <2> QED
    BY <1>2, <1>3, <2>1 DEF NamesHere
<1> QED
  BY <1>3, <1>9, <1>10

\* A request is withdrawn.
LEMMA ForgetRequestInv ==
  ASSUME NamesHere, NEW t \in Tasks, NEW n \in Names, ForgetRequest(t, n)
  PROVE  NamesHere'
<1>1. /\ NamesInv(spaces, port, transit, requests, self)
      /\ requests \in [Tasks -> [Names -> Objects \cup {NoObject}]]
  BY DEF NamesHere, NamesInv, Typed
<1>2. Wells(spaces) /\ Fewer(spaces, spaces) /\ Leaving(spaces, port, transit, transit)
      /\ StillAsked(spaces, port, requests, requests)
  BY <1>1, NothingLost
<1>3. StillAsked(spaces, port, requests, Cancelled(t, n))
  <2> DEFINE Q2 == Cancelled(t, n)
  <2>1. /\ Q2 \in [Tasks -> [Names -> Objects \cup {NoObject}]]
        /\ Q2[t][n] = NoObject
        /\ \A v \in Tasks, m \in Names : v # t \/ m # n => Q2[v][m] = requests[v][m]
    BY <1>1, CancelledIs
  <2> HIDE DEF Q2
  <2>2. StillAsked(spaces, port, requests, Q2)
    BY <1>2, <2>1 DEF StillAsked
  <2> QED
    BY <2>2 DEF Q2
<1>4. NamesInv(spaces, port, transit, Cancelled(t, n), self)
  BY <1>1, <1>2, <1>3, LoseInv
<1> QED
  BY <1>4 DEF ForgetRequest, NamesHere

\* A request is made, or answered at once.
LEMMA RequestDeadNameInv ==
  ASSUME NamesHere, NEW t \in Tasks, NEW n \in Names, RequestDeadName(t, n)
  PROVE  NamesHere'
<1>1. /\ NamesInv(spaces, port, transit, requests, self)
      /\ Typed(spaces, port, transit, requests, self)
  BY DEF NamesHere, NamesInv
<1>2. self[t] # NoObject /\ self' = self /\ port' = port /\ transit' = transit
  BY DEF RequestDeadName, Runs
<1>3. CASE Ty(spaces, t, n) \cap PortRights # {}
  <2>1. spaces' = spaces /\ requests' = [requests EXCEPT ![t][n] = Ob(spaces, t, n)]
    BY <1>3 DEF RequestDeadName, Ty, Ob
  <2>2. NamesInv(spaces, port, transit, requests', self)
    BY <1>1, <1>2, <1>3, <2>1, RequestInv
  <2> QED
    BY <1>2, <2>1, <2>2 DEF NamesHere
<1>4. CASE Ty(spaces, t, n) \cap PortRights = {}
  <2> DEFINE r == "DeadName"
             u == ModifyReferences(spaces[t], n, r, 1)
             U == With(spaces, t, u)
  <2>1. /\ r \in Ty(spaces, t, n) /\ spaces[t].entries[n].refs[r] < MaxRefs
        /\ Well(spaces[t]) /\ requests' = requests
    BY <1>1, <1>4 DEF RequestDeadName, Ty, Typed
  <2>2. spaces' = U
    <3>1. U = [spaces EXCEPT ![t] = ModifyReferences(@, n, r, 1)]
      BY DEF With
    <3> HIDE DEF U, u
    <3> QED
      BY <1>4, <3>1 DEF RequestDeadName, Ty
  <2>3. spaces[t].entries[n].refs[r] \in 1..Limit(r) /\ Limit(r) = MaxRefs /\ MaxRefs \in Nat
    BY <1>1, <2>1, RefsAre, NamesAssumption DEF Typed, Limit
  <2>4. PICK K : K \subseteq Ty(spaces, t, n) /\ Leaves(spaces[t], u, n, K)
    <3>1. spaces[t].entries[n].refs[r] + 1 \in 0..Limit(r)
      BY <2>1, <2>3
    <3>2. \/ Leaves(spaces[t], u, n, Ty(spaces, t, n) \ {r})
          \/ Leaves(spaces[t], u, n, Ty(spaces, t, n))
      BY <2>1, <3>1, ModifyReferencesLeaves DEF Ty
    <3> QED
      BY <3>2
  <2> HIDE DEF u
  <2>5. U = With(spaces, t, u)
    OBVIOUS
  <2> HIDE DEF U
  <2>6. StillAsked(U, port, requests, requests)
    BY <1>1, <1>4, <2>4, <2>5, StillAskedIs
  <2>7. NamesInv(U, port, transit, requests, self)
    BY <1>1, <2>4, <2>5, <2>6, LeavesInv
  <2> QED
    BY <1>2, <2>1, <2>2, <2>7 DEF NamesHere
<1> QED
  BY <1>3, <1>4

-----------------------------------------------------------------------------
(* How rights come.                                                        *)

\* The parts of the invariant, for one space.
LEMMA SpaceFacts ==
  ASSUME NEW S, NEW P, NEW T, NEW Q, NEW F, NamesInv(S, P, T, Q, F), NEW t \in Tasks
  PROVE  /\ Well(S[t]) /\ NamedOnce(S[t])
         /\ \A o \in Objects : P[o] \in Live => OnlyPort(S[t], o)
<1>1. Well(S[t]) /\ Once(S) /\ Shaped(S, P)
  BY DEF NamesInv, Typed
<1>2. NamedOnce(S[t])
  BY <1>1 DEF NamedOnce, OneName, Once, Ob, Ty, Has
<1>3. ASSUME NEW o \in Objects, P[o] \in Live PROVE OnlyPort(S[t], o)
  <2>1. Allowed(P[o]) \subseteq PortRights
    BY <1>3 DEF Allowed, Live, PortRights, Sending
  <2> QED
    BY <1>1, <1>3, <2>1 DEF Shaped, OnlyPort, Ob, Ty
<1> QED
  BY <1>1, <1>2, <1>3

\* A right that arrives is one that its port allows.
LEMMA ArrivesIs ==
  ASSUME NamesHere, NEW o \in Objects, NEW r \in PortRights, Arrives(o, r)
  PROVE  /\ port[o] \in Live /\ r \in Allowed(port[o]) /\ r \in Rights
         /\ r = "Receive" => o \in transit /\ port[o] = "guest" /\ Unreceived(spaces, o)
<1>1. Carried(spaces, port, transit)
  BY DEF NamesHere, NamesInv
<1>2. r = "Receive" => o \in transit /\ port[o] = "guest" /\ Unreceived(spaces, o)
  BY <1>1 DEF Arrives, Carried
<1>3. \/ r = "Send" /\ port[o] \in Live
      \/ r = "SendOnce" /\ port[o] = "guest"
      \/ r = "Receive" /\ port[o] = "guest"
  BY <1>2 DEF Arrives
<1>4. port[o] \in Live /\ r \in Allowed(port[o]) /\ r \in Rights
  BY <1>3 DEF Allowed, Live, Rights, PortRights, Sending
<1> QED
  BY <1>2, <1>4

\* A right that arrives where it fits.
LEMMA ArrivesInv ==
  ASSUME NamesHere, NEW t \in Tasks, NEW n \in Names, NEW o \in Objects, NEW r \in PortRights,
         self[t] # NoObject, Arrives(o, r),
         NEW u, Gains(spaces[t], u, n, o, r), Fits(spaces[t], n, o, r),
         NEW U, U = With(spaces, t, u),
         NEW T2, T2 = IF r = "Receive" THEN transit \ {o} ELSE transit
  PROVE  NamesInv(U, port, T2, requests, self)
<1>1. NamesInv(spaces, port, transit, requests, self) /\ transit \in SUBSET Objects
  BY DEF NamesHere, NamesInv, Typed
<1>2. /\ r \in Allowed(port[o]) /\ r \in Rights
      /\ r = "Receive" => Unreceived(spaces, o)
  BY ArrivesIs
<1>3. NamesInv(spaces, port, T2, requests, self)
  <2>1. /\ Wells(spaces) /\ Fewer(spaces, spaces) /\ StillAsked(spaces, port, requests, requests)
    BY <1>1, NothingLost
  <2>2. Leaving(spaces, port, transit, T2)
    BY <1>1 DEF Leaving
  <2> QED
    BY <1>1, <2>1, <2>2, LoseInv
<1>4. r = "Receive" => o \notin T2
  OBVIOUS
<1>5. r # "PortSet"
  BY DEF PortRights, Sending
<1>6. r \in {"Receive", "PortSet"} =>
         \A v \in Tasks, m \in Names : Ob(spaces, v, m) = o => r \notin Ty(spaces, v, m)
  BY <1>2, <1>5 DEF Unreceived
<1> QED
  BY <1>2, <1>3, <1>4, <1>6, GainInv

\* A message or the kernel gives a right to a task.
LEMMA PortCopyoutInv ==
  ASSUME NamesHere, NEW t \in Tasks, NEW o \in Objects, NEW r \in PortRights, PortCopyout(t, o, r)
  PROVE  NamesHere'
<1> DEFINE u == Copyout(spaces[t], o, r)
           U == With(spaces, t, u)
           T2 == IF r = "Receive" THEN transit \ {o} ELSE transit
<1>1. /\ NamesInv(spaces, port, transit, requests, self)
      /\ Typed(spaces, port, transit, requests, self)
  BY DEF NamesHere, NamesInv
<1>2. /\ self[t] # NoObject /\ Arrives(o, r) /\ CanCopyout(spaces[t], o, r)
      /\ transit' = T2 /\ self' = self /\ port' = port /\ requests' = requests
  BY DEF PortCopyout, Runs
<1>3. spaces' = U
  <2>1. U = [spaces EXCEPT ![t] = Copyout(@, o, r)]
    BY DEF With
  <2> HIDE DEF U, u
  <2> QED
    BY <2>1 DEF PortCopyout
<1>4. Well(spaces[t]) /\ NamedOnce(spaces[t]) /\ OnlyPort(spaces[t], o)
  BY <1>1, <1>2, SpaceFacts, ArrivesIs
<1>5. PICK n \in Names : Gains(spaces[t], u, n, o, r) /\ Fits(spaces[t], n, o, r)
  BY <1>2, <1>4, CopyoutGains
<1> HIDE DEF u
<1>6. NamesInv(U, port, T2, requests, self)
  BY <1>2, <1>5, ArrivesInv
<1> QED
  BY <1>2, <1>3, <1>6 DEF NamesHere

\* The names that have a right to an object.
LEMMA NameForIs ==
  ASSUME NEW s, Well(s), NEW o \in Objects, NEW r
  PROVE  /\ NameFor(s, o, r) \in SUBSET Names
         /\ \A n \in Names : n \in NameFor(s, o, r) <=> s.entries[n].object = o /\ r \in s.entries[n].type
<1>1. s.index[o].names = Named(s, o)
  BY DEF Well, Indexed
<1> QED
  BY <1>1 DEF NameFor, Named, Has

\* A right is inserted only where it fits.
LEMMA InsertableFits ==
  ASSUME NEW s, Well(s), NamedOnce(s), NEW n \in Names, NEW o \in Objects, NEW r \in PortRights,
         Insertable(s, n, o, r)
  PROVE  Fits(s, n, o, r)
<1> DEFINE owned == IF NameFor(s, o, "Receive") # {} THEN NameFor(s, o, "Receive")
                    ELSE NameFor(s, o, "Send")
<1>1. IF r = "SendOnce" \/ owned = {} THEN ~Contains(s, n) ELSE n = Min(owned)
  BY DEF Insertable
<1>2. CASE r = "SendOnce"
  BY <1>1, <1>2 DEF Fits
<1>3. CASE r # "SendOnce" /\ owned = {}
  <2>1. \A m \in Names : s.entries[m].object = o =>
           "Send" \notin s.entries[m].type /\ "Receive" \notin s.entries[m].type
    BY <1>3, NameForIs
  <2>2. OneName(s, o, n)
    BY <2>1 DEF OneName, Whole
  <2> QED
    BY <1>1, <1>3, <2>2 DEF Fits
<1>4. CASE r # "SendOnce" /\ owned # {}
  <2>1. owned \in SUBSET Names
    BY NameForIs
  <2>2. n \in owned
    BY <1>1, <1>4, <2>1, MinIs
  <2>3. s.entries[n].object = o /\ s.entries[n].type \cap Whole # {}
    BY <2>2, NameForIs DEF Whole
  <2> QED
    BY <1>4, <2>3, FitsNamed
<1> QED
  BY <1>2, <1>3, <1>4

\* A right is inserted, or a receive right that cannot be is lost.
LEMMA InsertRightInv ==
  ASSUME NamesHere, NEW t \in Tasks, NEW n \in Names, NEW o \in Objects, NEW r \in PortRights,
         InsertRight(t, n, o, r)
  PROVE  NamesHere'
<1> DEFINE u == Install(spaces[t], n, o, r)
           U == With(spaces, t, u)
           T2 == IF r = "Receive" THEN transit \ {o} ELSE transit
<1>1. /\ NamesInv(spaces, port, transit, requests, self)
      /\ Typed(spaces, port, transit, requests, self)
  BY DEF NamesHere, NamesInv
<1>2. self[t] # NoObject /\ Arrives(o, r) /\ self' = self
  BY DEF InsertRight, Runs
<1>3. Well(spaces[t]) /\ NamedOnce(spaces[t])
  BY <1>1, SpaceFacts
<1>4. CASE Insertable(spaces[t], n, o, r)
  <2>1. spaces' = U /\ transit' = T2 /\ port' = port /\ requests' = requests
    <3>1. U = [spaces EXCEPT ![t] = Install(@, n, o, r)]
      BY DEF With
    <3> HIDE DEF U, u
    <3> QED
      BY <1>4, <3>1 DEF InsertRight
  <2>2. Fits(spaces[t], n, o, r)
    BY <1>3, <1>4, InsertableFits
  <2>3. Gains(spaces[t], u, n, o, r)
    BY <1>3, <2>2, InstallGains, ArrivesIs, <1>2 DEF Fits
  <2> HIDE DEF u
  <2>4. NamesInv(U, port, T2, requests, self)
    BY <1>2, <2>2, <2>3, ArrivesInv
  <2> QED
    BY <1>2, <2>1, <2>4 DEF NamesHere
<1>5. CASE ~Insertable(spaces[t], n, o, r)
  <2>1. r = "Receive" /\ Terminate(spaces, requests, o)
    BY <1>5 DEF InsertRight
  <2>2. port[o] = "guest" /\ port[o] \in Live /\ Unreceived(spaces, o)
    BY <1>2, <2>1, ArrivesIs
  <2>3. \A v \in Tasks : self[v] # o
    BY <1>1, <2>2, NotSelf
  <2>4. NamesInv(spaces', port', transit', requests', self)
    BY <1>1, <2>1, <2>2, <2>3, TerminateInv
  <2> QED
    BY <1>2, <2>4 DEF NamesHere
<1> QED
  BY <1>4, <1>5

\* A right to a port that no name knows, at a free name.
LEMMA FirstRightInv ==
  ASSUME NEW S, NEW P, NEW T, NEW Q, NEW F, NamesInv(S, P, T, Q, F),
         NEW t \in Tasks, NEW n \in Names, NEW o \in Objects, NEW r \in Rights,
         F[t] # NoObject, r \in Allowed(P[o]), o \notin T, ~Contains(S[t], n),
         \A v \in Tasks, m \in Names : Ob(S, v, m) # o,
         NEW u, Gains(S[t], u, n, o, r),
         NEW U, U = With(S, t, u)
  PROVE  NamesInv(U, P, T, Q, F)
<1>1. Fits(S[t], n, o, r)
  BY DEF Fits, OneName, Ob
<1> QED
  BY <1>1, GainInv

\* A port, a port set or a dead name is allocated.
LEMMA PortAllocateInv ==
  ASSUME NamesHere, NEW t \in Tasks, NEW o \in Objects, NEW r \in {"Receive", "PortSet", "DeadName"},
         PortAllocate(t, o, r)
  PROVE  NamesHere'
<1> DEFINE P2 == [port EXCEPT ![o] = Backing(r)]
<1>1. /\ NamesInv(spaces, port, transit, requests, self)
      /\ Typed(spaces, port, transit, requests, self)
  BY DEF NamesHere, NamesInv
<1>2. /\ self[t] # NoObject /\ port[o] = "unborn" /\ r \in Rights /\ Well(spaces[t])
      /\ port' = P2 /\ self' = self /\ transit' = transit /\ requests' = requests
  BY <1>1 DEF PortAllocate, Runs, Rights, Typed
<1>3. \A v \in Tasks, m \in Names : Ob(spaces, v, m) # o
  BY <1>1, <1>2, NoNames
<1>4. /\ \A v \in Tasks : self[v] # o
      /\ o \notin transit
  <2>1. o \notin transit
    BY <1>2 DEF NamesHere, NamesInv, Carried
  <2> QED
    BY <1>1, <1>2, <2>1, NotSelf
<1>5. /\ Backing(r) \in {"guest", "kernel", "set", "dead"}
      /\ r \in Allowed(Backing(r))
  BY DEF Backing, Allowed, PortRights
<1>6. P2[o] = Backing(r)
  BY <1>1 DEF Typed
<1>7. NamesInv(spaces, P2, transit, requests, self)
  BY <1>1, <1>2, <1>3, <1>4, <1>5, UnnamedInv
<1> HIDE DEF P2
<1>8. ASSUME NEW n \in Names, ~Contains(spaces[t], n), NEW u, Gains(spaces[t], u, n, o, r),
             spaces' = With(spaces, t, u)
      PROVE  NamesHere'
  <2>1. NamesInv(With(spaces, t, u), P2, transit, requests, self)
    BY <1>2, <1>3, <1>4, <1>5, <1>6, <1>7, <1>8, FirstRightInv
  <2> QED
    BY <1>2, <1>8, <2>1 DEF NamesHere
<1>9. CASE /\ Candidates(spaces[t]) # {}
           /\ spaces' = [spaces EXCEPT ![t] = Allocate(@, o, r)]
  <2>1. spaces' = With(spaces, t, Allocate(spaces[t], o, r))
    BY <1>9 DEF With
  <2>2. PICK n \in Names : ~Contains(spaces[t], n) /\ Gains(spaces[t], Allocate(spaces[t], o, r), n, o, r)
    BY <1>2, <1>9, AllocateGains
  <2> QED
    BY <1>8, <2>1, <2>2
<1>10. ASSUME NEW n \in Names, ~Contains(spaces[t], n),
              spaces' = [spaces EXCEPT ![t] = Install(@, n, o, r)]
       PROVE  NamesHere'
  <2>1. spaces' = With(spaces, t, Install(spaces[t], n, o, r))
    BY <1>10 DEF With
  <2>2. Gains(spaces[t], Install(spaces[t], n, o, r), n, o, r)
    BY <1>2, <1>10, InstallGains
  <2> QED
    BY <1>8, <1>10, <2>1, <2>2
<1> QED
  BY <1>9, <1>10 DEF PortAllocate

\* The kernel makes an object.
LEMMA KernelCreatesInv ==
  ASSUME NamesHere, NEW o \in Objects, KernelCreates(o)
  PROVE  NamesHere'
<1>1. NamesInv(spaces, port, transit, requests, self)
  BY DEF NamesHere
<1>2. /\ port[o] = "unborn" /\ port' = [port EXCEPT ![o] = "kernel"]
      /\ UNCHANGED <<spaces, self, transit, requests>>
  BY DEF KernelCreates
<1>3. \A v \in Tasks : self[v] # o
  BY <1>1, <1>2, NotSelf
<1>4. \A v \in Tasks, m \in Names : Ob(spaces, v, m) # o
  BY <1>1, <1>2, NoNames
<1>5. NamesInv(spaces, port', transit, requests, self)
  BY <1>1, <1>2, <1>3, <1>4, UnnamedInv
<1> QED
  BY <1>2, <1>5 DEF NamesHere

\* No name has the receive right of a kernel object.
LEMMA KernelUnreceived ==
  ASSUME NEW S, NEW P, NEW T, NEW Q, NEW F, NamesInv(S, P, T, Q, F),
         NEW o \in Objects, P[o] = "kernel"
  PROVE  Unreceived(S, o)
<1>1. ASSUME NEW t \in Tasks, NEW n \in Names, Ob(S, t, n) = o, "Receive" \in Ty(S, t, n)
      PROVE  FALSE
  BY <1>1, LiveRights
<1> QED
  BY <1>1 DEF Unreceived

\* A port without an owner ends.
LEMMA TerminateUnownedInv ==
  ASSUME NamesHere, NEW o \in Objects, TerminateUnowned(o)
  PROVE  NamesHere'
<1>1. NamesInv(spaces, port, transit, requests, self) /\ Carried(spaces, port, transit)
  BY DEF NamesHere, NamesInv
<1>2. Terminate(spaces, requests, o) /\ self' = self /\ (o \in transit \/ Transient(o))
  BY DEF TerminateUnowned
<1>3. port[o] \in Live /\ Unreceived(spaces, o) /\ \A v \in Tasks : self[v] # o
  <2>1. CASE o \in transit
    BY <1>1, <2>1, NotSelf DEF Carried, Live
  <2>2. CASE Transient(o)
    BY <1>1, <2>2, KernelUnreceived DEF Transient, Live
  <2> QED
    BY <1>2, <2>1, <2>2
<1>4. NamesInv(spaces', port', transit', requests', self)
  BY <1>1, <1>2, <1>3, TerminateInv
<1> QED
  BY <1>2, <1>4 DEF NamesHere

\* The kernel gives up an object that no name has.
LEMMA ReleaseHeldInv ==
  ASSUME NamesHere, NEW o \in Objects, ReleaseHeld(o)
  PROVE  NamesHere'
<1>1. NamesInv(spaces, port, transit, requests, self)
  BY DEF NamesHere
<1>2. /\ Transient(o) /\ SendReferences(spaces, o) = {} /\ port' = [port EXCEPT ![o] = "dead"]
      /\ UNCHANGED <<spaces, self, transit, requests>>
  BY DEF ReleaseHeld
<1>3. NamesInv(spaces, port', transit, requests, self)
  BY <1>1, <1>2, ReleasedInv
<1> QED
  BY <1>2, <1>3 DEF NamesHere

\* A name changes.
LEMMA RenameStepInv ==
  ASSUME NamesHere, NEW t \in Tasks, NEW n \in Names, NEW m \in Names, Rename(t, n, m)
  PROVE  NamesHere'
<1>1. NamesInv(spaces, port, transit, requests, self)
  BY DEF NamesHere
<1>2. /\ self[t] # NoObject /\ Contains(spaces[t], n) /\ ~Contains(spaces[t], m)
      /\ spaces' = [spaces EXCEPT ![t] = RenameEntry(@, n, m)]
      /\ requests' = [requests EXCEPT ![t][n] = NoObject,
                                      ![t][m] = IF @ = NoObject THEN requests[t][n] ELSE @]
      /\ UNCHANGED <<self, port, transit>>
  BY DEF Rename, Runs
<1>3. NamesInv(spaces', port, transit, requests', self)
  BY <1>1, <1>2, RenameInv
<1> QED
  BY <1>2, <1>3 DEF NamesHere

\* A right to a dead port arrives: its names are dead names already.
LEMMA CopyoutOfDeadInv ==
  ASSUME NamesHere, NEW t \in Tasks, NEW o \in Objects, CopyoutOfDead(t, o)
  PROVE  NamesHere'
<1> DEFINE U == [v \in Tasks |-> MarkDead(spaces[v], o)]
<1>1. NamesInv(spaces, port, transit, requests, self)
  BY DEF NamesHere
<1>2. /\ port[o] \in {"dead", "closed"} /\ spaces' = U
      /\ UNCHANGED <<self, port, transit, requests>>
  BY DEF CopyoutOfDead
<1>3. ASSUME NEW v \in Tasks
      PROVE  /\ U[v] \in Spaces /\ Well(U[v])
             /\ \A n \in Names : Ob(U, v, n) = Ob(spaces, v, n) /\ Ty(U, v, n) = Ty(spaces, v, n)
  <2>1. Well(spaces[v])
    BY <1>1, SpaceFacts
  <2>2. ASSUME NEW n \in Names, Ob(spaces, v, n) = o PROVE Ty(spaces, v, n) \cap Sending = {}
    <3>1. Ty(spaces, v, n) # {}
      BY <1>1, <2>2, EntryFacts DEF NamesInv, Typed
    <3>2. port[o] # "guest" /\ port[o] # "kernel"
      BY <1>2
    <3>3. Ty(spaces, v, n) \cap PortRights = {}
      BY <1>1, <2>2, <3>1, <3>2, LiveRights DEF Live
    <3> QED
      BY <3>3 DEF PortRights
  <2>3. Killable(spaces[v], o)
    BY <2>2 DEF Killable, Ob, Ty
  <2>4. U[v] = MarkDead(spaces[v], o)
    OBVIOUS
  <2> HIDE DEF U
  <2>5. Killed(spaces[v], U[v], o)
    BY <2>1, <2>3, <2>4, MarkDeadIs
  <2> QED
    BY <2>2, <2>5 DEF Killed, Well, Ob, Ty
<1>4. U \in [Tasks -> Spaces]
  BY <1>3
<1> HIDE DEF U
<1>5. Wells(U) /\ Fewer(spaces, U)
  BY <1>3, <1>4 DEF Wells, Fewer
<1>6. /\ Leaving(spaces, port, transit, transit)
      /\ StillAsked(spaces, port, requests, requests)
  BY <1>1, NothingLost
<1>7. /\ Leaving(U, port, transit, transit)
      /\ StillAsked(U, port, requests, requests)
  BY <1>3, <1>6 DEF Leaving, StillAsked
<1>8. NamesInv(U, port, transit, requests, self)
  BY <1>1, <1>5, <1>7, LoseInv
<1> QED
  BY <1>2, <1>8 DEF NamesHere

\* A connection is closed: its rights become dead names, and the caller gives up
\* a reference to its own.
LEMMA ServiceCloseInv ==
  ASSUME NamesHere, NEW t \in Tasks, NEW n \in Names, ServiceClose(t, n)
  PROVE  NamesHere'
<1> DEFINE o == Ob(spaces, t, n)
           V == [v \in Tasks |-> MarkDead(spaces[v], o)]
           u == ModifyReferences(V[t], n, "DeadName", -1)
           U == With(V, t, u)
           P2 == [port EXCEPT ![o] = "closed"]
<1>1. /\ NamesInv(spaces, port, transit, requests, self)
      /\ Typed(spaces, port, transit, requests, self)
  BY DEF NamesHere, NamesInv
<1>2. /\ "Send" \in Ty(spaces, t, n) /\ port[o] = "kernel" /\ \A v \in Tasks : self[v] # o
      /\ port' = P2 /\ self' = self /\ transit' = transit /\ requests' = requests
  BY DEF ServiceClose, Transient, Ob, Ty, Has
<1>3. spaces' = U
  <2>1. spaces' = [V EXCEPT ![t] = ModifyReferences(@, n, "DeadName", -1)]
    BY DEF ServiceClose, Ob
  <2> HIDE DEF V
  <2> QED
    BY <2>1 DEF With
<1>4. o \in Objects /\ port[o] \in Live /\ Unreceived(spaces, o)
  <2>1. o \in Objects
    BY <1>1, <1>2, LiveRights
  <2> QED
    BY <1>1, <1>2, <2>1, KernelUnreceived DEF Live
<1>5. V = [v \in Tasks |-> MarkDead(spaces[v], o)]
  OBVIOUS
<1> HIDE DEF V, o
<1>6. Wells(V) /\ Dies(spaces, V, o)
  BY <1>1, <1>4, <1>5, MarkedSpaces
<1>7. NamesInv(V, P2, transit, requests, self)
  <2>1. transit = transit \ {o}
    BY <1>1, <1>2 DEF NamesInv, Carried
  <2>2. Answered(requests, requests, o, "closed")
    BY <1>1 DEF Typed, Answered
  <2>3. P2 = [port EXCEPT ![o] = "closed"]
    OBVIOUS
  <2> HIDE DEF P2
  <2> QED
    BY <1>1, <1>2, <1>4, <1>6, <2>1, <2>2, <2>3, DeadInv
<1>8. Ty(V, t, n) = {"DeadName"}
  BY <1>6 DEF o, Dies
<1> HIDE DEF P2
<1>9. PICK K : K \subseteq Ty(V, t, n) /\ Leaves(V[t], u, n, K)
  <2> DEFINE r == "DeadName"
  <2>1. r \in Ty(V, t, n) /\ r # "SendOnce" /\ Well(V[t])
    BY <1>6, <1>8 DEF Wells
  <2>2. V[t].entries[n].refs[r] \in 1..Limit(r) /\ Limit(r) \in Nat
    BY <1>6, <2>1, RefsAre DEF Wells
  <2>3. V[t].entries[n].refs[r] + -1 \in 0..Limit(r)
    BY <2>2
  <2>4. \/ Leaves(V[t], u, n, Ty(V, t, n) \ {r})
        \/ Leaves(V[t], u, n, Ty(V, t, n))
    BY <2>1, <2>3, ModifyReferencesLeaves DEF Ty
  <2> QED
    BY <2>4
<1> HIDE DEF u
<1>10. U = With(V, t, u)
  OBVIOUS
<1> HIDE DEF U
<1>11. /\ Wells(U) /\ Fewer(V, U) /\ Ty(U, t, n) = K
       /\ \A v \in Tasks, m \in Names : v # t \/ m # n =>
             Ob(U, v, m) = Ob(V, v, m) /\ Ty(U, v, m) = Ty(V, v, m)
  BY <1>7, <1>9, <1>10, LeavesLoses
<1>12. /\ Leaving(V, P2, transit, transit)
       /\ StillAsked(V, P2, requests, requests)
  BY <1>7, NothingLost
<1>13. /\ Leaving(U, P2, transit, transit)
       /\ StillAsked(U, P2, requests, requests)
  <2>1. "DeadName" \notin PortRights
    BY DEF PortRights, Sending
  <2> QED
    BY <1>8, <1>11, <1>12, <2>1 DEF Leaving, StillAsked
<1>14. NamesInv(U, P2, transit, requests, self)
  BY <1>7, <1>11, <1>13, LoseInv
<1> QED
  BY <1>2, <1>3, <1>14 DEF NamesHere

\* A process has gone.
LEMMA ExitEndsInv ==
  ASSUME NamesHere, self[exiting] # NoObject, NEW t \in Tasks, ExitEnds(t)
  PROVE  NamesHere'
<1> DEFINE S == With(spaces, t, EmptySpace)
           Q == [requests EXCEPT ![t] = [n \in Names |-> NoObject]]
           F == [self EXCEPT ![t] = NoObject]
           o == self[t]
<1>1. /\ NamesInv(spaces, port, transit, requests, self)
      /\ Typed(spaces, port, transit, requests, self) /\ Selves(spaces, port, requests, self)
  BY DEF NamesHere, NamesInv
<1>2. /\ o # NoObject /\ self' = F
      /\ \A n \in Names : Ty(spaces, t, n) = {}
      /\ port[o] \in Live => Terminate(S, Q, o)
  BY DEF ExitEnds, Contains, Ty, With
<1>3. /\ o \in Objects /\ port[o] = "kernel" /\ \A v \in Tasks : self[v] = o => v = t
  BY <1>1, <1>2 DEF Typed, Selves
<1>4. /\ Well(EmptySpace) /\ \A n \in Names : EmptySpace.entries[n] = NoEntry
      /\ NoEntry.type = {}
  BY EmptySpaceIs, NoEntryOK
<1>5. /\ S \in [Tasks -> Spaces] /\ \A v \in Tasks : Well(S[v])
      /\ S[t] = EmptySpace /\ \A v \in Tasks \ {t} : S[v] = spaces[v]
  BY <1>1, <1>4, OneSpace DEF Typed
<1> HIDE DEF S
<1>6. /\ \A n \in Names : Ty(S, t, n) = {}
      /\ \A v \in Tasks \ {t}, n \in Names : Ty(S, v, n) = Ty(spaces, v, n) /\ Ob(S, v, n) = Ob(spaces, v, n)
  BY <1>4, <1>5 DEF Ty, Ob
<1>7. /\ Q \in [Tasks -> [Names -> Objects \cup {NoObject}]]
      /\ \A n \in Names : Q[t][n] = NoObject
      /\ \A v \in Tasks \ {t} : Q[v] = requests[v]
  BY <1>1 DEF Typed
<1> HIDE DEF Q
<1>8. /\ Leaving(spaces, port, transit, transit)
      /\ StillAsked(spaces, port, requests, requests)
  BY <1>1, NothingLost
<1>9. Wells(S) /\ Fewer(spaces, S) /\ Leaving(S, port, transit, transit)
  BY <1>5, <1>6, <1>8 DEF Wells, Fewer, Leaving
<1>10. StillAsked(S, port, requests, Q)
  BY <1>6, <1>7, <1>8 DEF StillAsked
<1>11. NamesInv(S, port, transit, Q, self)
  BY <1>1, <1>9, <1>10, LoseInv
<1>12. NamesInv(S, port, transit, Q, F)
  BY <1>6, <1>7, <1>11, SelfGoneInv
<1>13. \A v \in Tasks : F[v] # o
  BY <1>1, <1>2, <1>3 DEF Typed
<1> HIDE DEF F
<1>14. Unreceived(S, o) /\ port[o] \in Live
  BY <1>3, <1>12, KernelUnreceived DEF Live
<1>15. NamesInv(spaces', port', transit', requests', F)
  BY <1>2, <1>3, <1>12, <1>13, <1>14, TerminateInv
<1> QED
  BY <1>2, <1>15 DEF NamesHere

\* A task gets a send right to a live port, at a name where it fits.
LEMMA SendGivenInv ==
  ASSUME NEW S, NEW P, NEW T, NEW Q, NEW F, NamesInv(S, P, T, Q, F),
         NEW t \in Tasks, NEW o \in Objects, F[t] # NoObject, P[o] \in Live,
         NEW u, \E n \in Names : Gains(S[t], u, n, o, "Send") /\ Fits(S[t], n, o, "Send"),
         NEW U, U = With(S, t, u)
  PROVE  /\ NamesInv(U, P, T, Q, F)
         /\ U[t] = u /\ \A v \in Tasks \ {t} : U[v] = S[v]
<1>1. PICK n \in Names : Gains(S[t], u, n, o, "Send") /\ Fits(S[t], n, o, "Send")
  OBVIOUS
<1>2. "Send" \in Rights /\ "Send" \in Allowed(P[o])
  BY DEF Rights, Allowed, Live, PortRights, Sending
<1>3. NamesInv(U, P, T, Q, F)
  BY <1>1, <1>2, GainInv
<1>4. S \in [Tasks -> Spaces] /\ (\A v \in Tasks : Well(S[v])) /\ Well(u)
  BY <1>1 DEF NamesInv, Typed, Gains
<1> QED
  BY <1>3, <1>4, OneSpace

\* The space of a task that has its port only: its next free name is the first one.
LEMMA FirstSpace ==
  ASSUME NEW o \in Objects, NEW s, s = Install(EmptySpace, 1, o, "Send")
  PROVE  /\ Gains(EmptySpace, s, 1, o, "Send") /\ 1 \in Names /\ ~Contains(EmptySpace, 1)
         /\ Candidates(s) # {}
<1>1. Well(EmptySpace) /\ \A n \in Names : ~Contains(EmptySpace, n)
  BY EmptySpaceIs, NoEntryOK DEF Contains
<1>2. /\ 1 \in Names /\ FirstDynamic \in Names /\ FirstDynamic # 1
      /\ FirstDynamic \in FirstDynamic..LastName
  BY NamesAssumption DEF Names
<1>3. "Send" \in Rights
  BY DEF Rights
<1>4. Updated(EmptySpace, s, 1, MakeEntry(o, "Send"))
  BY <1>1, <1>2, <1>3, InstallMakes
<1>5. Gains(EmptySpace, s, 1, o, "Send")
  BY <1>1, <1>2, <1>3, InstallGains
<1>6. s.next_name = FirstDynamic /\ ~Contains(s, FirstDynamic)
  <2>1. EmptySpace.next_name = FirstDynamic
    BY DEF EmptySpace
  <2>2. ~Contains(EmptySpace, FirstDynamic)
    BY <1>1, <1>2
  <2> QED
    BY <1>2, <1>4, <2>1, <2>2 DEF Updated, Contains
<1>7. FirstDynamic \in Candidates(s)
  BY <1>2, <1>6 DEF Candidates
<1> QED
  BY <1>1, <1>2, <1>5, <1>7

\* A process is made: its port, its special port, and the right of its parent.
LEMMA CreateTaskInv ==
  ASSUME NamesHere, NEW t \in Tasks, NEW o \in Objects, NEW special \in Objects \cup {NoObject},
         NEW preferred \in Names, NEW parent \in Tasks \cup {NoObject},
         CreateTask(t, o, special, preferred, parent)
  PROVE  NamesHere'
<1> DEFINE s == Install(EmptySpace, 1, o, "Send")
           c == CopyoutAtName(s, special, "Send", preferred)
           P2 == [port EXCEPT ![o] = "kernel"]
           F2 == [self EXCEPT ![t] = o]
           S0 == With(spaces, t, EmptySpace)
           S1 == With(S0, t, s)
<1>1. /\ NamesInv(spaces, port, transit, requests, self)
      /\ Typed(spaces, port, transit, requests, self)
  BY DEF NamesHere, NamesInv
<1>2. /\ self[t] = NoObject /\ port[o] = "unborn"
      /\ special # NoObject => port[special] \in Live
      /\ parent # NoObject => self[parent] # NoObject /\ CanCopyout(spaces[parent], o, "Send")
      /\ port' = P2 /\ self' = F2 /\ transit' = transit /\ requests' = requests
  BY DEF CreateTask, Runs
<1>3. spaces' = [u \in Tasks |->
         CASE u = t -> IF special = NoObject THEN s ELSE c
           [] u = parent -> Copyout(spaces[u], o, "Send")
           [] OTHER -> spaces[u]]
  BY DEF CreateTask
<1>4. /\ \A v \in Tasks, m \in Names : Ob(spaces, v, m) # o
      /\ \A v \in Tasks : self[v] # o
      /\ o \notin transit
  <2>1. o \notin transit
    BY <1>1, <1>2 DEF NamesInv, Carried
  <2> QED
    BY <1>1, <1>2, <2>1, NoNames, NotSelf
<1>5. P2[o] = "kernel" /\ \A q \in Objects \ {o} : P2[q] = port[q]
  BY <1>1 DEF Typed
<1>6. F2[t] = o /\ o # NoObject /\ \A v \in Tasks \ {t} : F2[v] = self[v]
  BY <1>1, NamesAssumption DEF Typed
<1>7. NamesInv(spaces, P2, transit, requests, F2)
  <2>1. NamesInv(spaces, P2, transit, requests, self)
    BY <1>1, <1>2, <1>4, UnnamedInv
  <2> HIDE DEF P2
  <2> QED
    BY <1>4, <1>5, <2>1, SelfInv
<1>8. /\ Well(EmptySpace) /\ \A m \in Names : EmptySpace.entries[m].type = {}
  BY EmptySpaceIs, NoEntryOK
<1>9. \A m \in Names : Ty(spaces, t, m) = {} /\ requests[t][m] = NoObject
  BY <1>1, <1>2 DEF NamesInv, Selves
<1> HIDE DEF P2, F2, s, c
<1>10. S0 = With(spaces, t, EmptySpace)
  OBVIOUS
<1> HIDE DEF S0
<1>11. /\ S0 \in [Tasks -> Spaces] /\ \A v \in Tasks : Well(S0[v])
       /\ S0[t] = EmptySpace /\ \A v \in Tasks \ {t} : S0[v] = spaces[v]
  <2>1. spaces \in [Tasks -> Spaces] /\ \A v \in Tasks : Well(spaces[v])
    BY <1>1 DEF Typed
  <2> QED
    BY <1>8, <1>10, <2>1, OneSpace
<1>12. NamesInv(S0, P2, transit, requests, F2)
  <2>1. \A m \in Names : Ty(S0, t, m) = {}
    BY <1>8, <1>11 DEF Ty
  <2>2. \A v \in Tasks \ {t}, m \in Names : Ty(S0, v, m) = Ty(spaces, v, m) /\ Ob(S0, v, m) = Ob(spaces, v, m)
    BY <1>11 DEF Ty, Ob
  <2>3. Leaving(spaces, P2, transit, transit) /\ StillAsked(spaces, P2, requests, requests)
    BY <1>7, NothingLost
  <2>4. Wells(S0) /\ Fewer(spaces, S0)
    BY <1>11, <2>1, <2>2 DEF Wells, Fewer
  <2>5. Leaving(S0, P2, transit, transit)
    BY <2>3 DEF Leaving
  <2>6. StillAsked(S0, P2, requests, requests)
    BY <1>9, <2>2, <2>3 DEF StillAsked
  <2> QED
    BY <1>7, <2>4, <2>5, <2>6, LoseInv
<1>13. /\ Gains(EmptySpace, s, 1, o, "Send") /\ 1 \in Names /\ ~Contains(EmptySpace, 1)
       /\ Candidates(s) # {}
  BY FirstSpace DEF s
<1>14. S1 = With(S0, t, s)
  OBVIOUS
<1> HIDE DEF S1
<1>15. /\ NamesInv(S1, P2, transit, requests, F2)
       /\ S1[t] = s /\ \A v \in Tasks \ {t} : S1[v] = spaces[v]
  <2>1. \A v \in Tasks, m \in Names : Ob(S0, v, m) # o
    <3>1. \A m \in Names : EmptySpace.entries[m].object = NoObject
      BY EmptySpaceIs, NoEntryOK DEF NoEntry
    <3> QED
      BY <1>4, <1>6, <1>11, <3>1 DEF Ob
  <2>2. "Send" \in Rights /\ "Send" \in Allowed("kernel")
    BY DEF Rights, Allowed
  <2>3. Fits(S0[t], 1, o, "Send")
    BY <1>11, <1>13, <2>1 DEF Fits, OneName, Ob
  <2>4. Gains(S0[t], s, 1, o, "Send")
    BY <1>11, <1>13
  <2>5. P2[o] \in Live /\ F2[t] # NoObject
    BY <1>5, <1>6 DEF Live
  <2>6. \E m \in Names : Gains(S0[t], s, m, o, "Send") /\ Fits(S0[t], m, o, "Send")
    BY <1>13, <2>3, <2>4
  <2>7. /\ NamesInv(S1, P2, transit, requests, F2)
        /\ S1[t] = s /\ \A v \in Tasks \ {t} : S1[v] = S0[v]
    BY <1>12, <1>14, <2>5, <2>6, SendGivenInv
  <2> QED
    BY <1>11, <2>7
<1>16. PICK S2 : /\ NamesInv(S2, P2, transit, requests, F2)
                 /\ special = NoObject => S2[t] = s
                 /\ special # NoObject => S2[t] = c
                 /\ \A v \in Tasks \ {t} : S2[v] = spaces[v]
  <2>1. CASE special = NoObject
    BY <1>15, <2>1
  <2>2. CASE special # NoObject
    <3>1. special \in Objects /\ special # o /\ P2[special] \in Live
      <4>1. special \in Objects /\ port[special] \in Live
        BY <1>2, <2>2
      <4>2. special # o
        BY <1>2, <4>1 DEF Live
      <4> QED
        BY <1>5, <4>1, <4>2
    <3>2. /\ Well(S1[t]) /\ NamedOnce(S1[t]) /\ OnlyPort(S1[t], special)
      BY <1>15, <3>1, SpaceFacts
    <3>3. CanCopyout(s, special, "Send") /\ "Send" \in PortRights
      BY <1>13 DEF CanCopyout, PortRights, Sending
    <3>4. \E m \in Names : Gains(s, c, m, special, "Send") /\ Fits(s, m, special, "Send")
      BY <1>15, <3>1, <3>2, <3>3, CopyoutAtNameGains DEF c
    <3>5. /\ NamesInv(With(S1, t, c), P2, transit, requests, F2)
          /\ With(S1, t, c)[t] = c /\ \A v \in Tasks \ {t} : With(S1, t, c)[v] = S1[v]
      BY <1>6, <1>15, <3>1, <3>4, SendGivenInv
    <3> QED
      BY <1>15, <2>2, <3>5
  <2> QED
    BY <2>1, <2>2
<1>17. CASE parent = NoObject
  <2>1. \A u \in Tasks : u # parent
    BY <1>17, NamesAssumption
  <2>2. \A u \in Tasks : spaces'[u] = S2[u]
    BY <1>3, <1>16, <2>1
  <2>3. spaces' = S2
    BY <1>3, <1>16, <2>2 DEF NamesInv, Typed
  <2> QED
    BY <1>2, <1>16, <2>3 DEF NamesHere
<1>18. CASE parent # NoObject
  <2> DEFINE k == Copyout(spaces[parent], o, "Send")
             S3 == With(S2, parent, k)
  <2>1. parent \in Tasks /\ parent # t /\ self[parent] # NoObject
    BY <1>2, <1>18
  <2>2. P2[o] \in Live /\ F2[parent] # NoObject /\ S2[parent] = spaces[parent]
    BY <1>5, <1>6, <1>16, <2>1 DEF Live
  <2>3. Well(S2[parent]) /\ NamedOnce(S2[parent]) /\ OnlyPort(S2[parent], o)
    BY <1>16, <2>1, <2>2, SpaceFacts
  <2>4. CanCopyout(S2[parent], o, "Send") /\ "Send" \in PortRights
    BY <1>2, <1>18, <2>2 DEF PortRights, Sending
  <2>5. \E m \in Names : Gains(S2[parent], k, m, o, "Send") /\ Fits(S2[parent], m, o, "Send")
    BY <2>2, <2>3, <2>4, CopyoutGains
  <2> HIDE DEF k
  <2>6. S3 = With(S2, parent, k)
    OBVIOUS
  <2> HIDE DEF S3
  <2>7. /\ NamesInv(S3, P2, transit, requests, F2)
        /\ S3[parent] = k /\ \A v \in Tasks \ {parent} : S3[v] = S2[v]
    BY <1>16, <2>1, <2>2, <2>5, <2>6, SendGivenInv
  <2>8. \A u \in Tasks : spaces'[u] = S3[u]
    BY <1>3, <1>16, <2>1, <2>7 DEF k
  <2>9. spaces' = S3
    BY <1>3, <2>7, <2>8 DEF NamesInv, Typed
  <2> QED
    BY <1>2, <2>7, <2>9 DEF NamesHere
<1> QED
  BY <1>17, <1>18

-----------------------------------------------------------------------------
(* The specification.                                                      *)

\* No task has names, and no object backs a port.
LEMMA NamespaceInit == Init => NamespaceInv
<1> SUFFICES ASSUME Init PROVE NamespaceInv
  OBVIOUS
<1>1. Well(EmptySpace) /\ \A n \in Names : EmptySpace.entries[n].type = {} /\ EmptySpace.entries[n].object = NoObject
  BY EmptySpaceIs, NoEntryOK DEF NoEntry
<1>2. /\ \A t \in Tasks : spaces[t] = EmptySpace
      /\ \A t \in Tasks : self[t] = NoObject
      /\ transit = {}
      /\ \A t \in Tasks, n \in Names : requests[t][n] = NoObject
  BY DEF Init
<1>3. \A t \in Tasks, n \in Names : Ty(spaces, t, n) = {} /\ Ob(spaces, t, n) = NoObject
  BY <1>1, <1>2 DEF Ob, Ty
<1>4. Typed(spaces, port, transit, requests, self)
  <2>1. spaces \in [Tasks -> Spaces] /\ \A t \in Tasks : Well(spaces[t])
    BY <1>1, <1>2 DEF Init, Well
  <2>2. port \in [Objects -> Ports] /\ self \in [Tasks -> Objects \cup {NoObject}]
    BY DEF Init, Ports
  <2>3. requests \in [Tasks -> [Names -> Objects \cup {NoObject}]]
    BY DEF Init
  <2> QED
    BY <1>2, <2>1, <2>2, <2>3 DEF Typed
<1>5. Shaped(spaces, port) /\ Once(spaces) /\ Held(spaces)
  BY <1>3 DEF Shaped, Once, Held
<1>6. Carried(spaces, port, transit) /\ Requested(spaces, port, requests)
      /\ Selves(spaces, port, requests, self)
  BY <1>2, <1>3 DEF Carried, Requested, Selves
<1>7. Exits
  BY DEF Init, Exits
<1> QED
  BY <1>4, <1>5, <1>6, <1>7 DEF NamespaceInv, NamesInv

\* A step leaves the exiting task alone, is the end of its exit, or its start.
LEMMA ExitsStep ==
  ASSUME NamespaceInv, Next
  PROVE  Exits'
<1>1. Exits
  BY DEF NamespaceInv
<1>2. \/ exiting' = exiting /\ self' = self
      \/ exiting' = NoObject
      \/ \E t \in Tasks : Exit(t)
  <2>1. ASSUME NEW o \in Objects,
               KernelCreates(o) \/ TerminateUnowned(o) \/ ReleaseHeld(o)
        PROVE  exiting' = exiting /\ self' = self
    BY <2>1 DEF KernelCreates, TerminateUnowned, ReleaseHeld
  <2>2. ASSUME NEW t, NEW o, NEW special, NEW n, NEW parent, CreateTask(t, o, special, n, parent)
        PROVE  exiting' = NoObject
    BY <2>2 DEF CreateTask
  <2>3. ASSUME NEW t, NEW o, NEW n, NEW r,
               \/ PortAllocate(t, o, r) \/ PortCopyout(t, o, r) \/ InsertRight(t, n, o, r)
               \/ CopyoutOfDead(t, o)
        PROVE  exiting' = exiting /\ self' = self
    BY <2>3 DEF PortAllocate, PortCopyout, InsertRight, CopyoutOfDead
  <2>4. ASSUME NEW t, NEW n, NEW m, NEW r, NEW delta,
               \/ MoveRight(t, n, r) \/ Rename(t, n, m) \/ DestroyName(t, n) \/ ExitDestroys(t, n)
               \/ DropWhole(t, n, r) \/ ModRefs(t, n, r, delta)
               \/ RequestDeadName(t, n) \/ ForgetRequest(t, n) \/ ServiceClose(t, n)
        PROVE  exiting' = exiting /\ self' = self
    BY <2>4 DEF MoveRight, Rename, DestroyName, ExitDestroys, DropWhole, ModRefs,
                RequestDeadName, ForgetRequest, ServiceClose
  <2>5. ASSUME NEW t, ExitEnds(t) PROVE exiting' = NoObject
    BY <2>5 DEF ExitEnds
  <2> QED
    BY <2>1, <2>2, <2>3, <2>4, <2>5 DEF Next
<1>3. ASSUME NEW t \in Tasks, Exit(t) PROVE Exits'
  BY <1>3 DEF Exit, Runs, Exits
<1> QED
  BY <1>1, <1>2, <1>3 DEF Exits

\* Every step keeps the invariant.
LEMMA NamespaceStep == NamespaceInv /\ [Next]_vars => NamespaceInv'
<1> SUFFICES ASSUME NamespaceInv, [Next]_vars PROVE NamespaceInv'
  OBVIOUS
<1>1. NamesHere /\ Exits
  BY DEF NamespaceInv, NamesHere
<1>2. CASE UNCHANGED vars
  <2>1. /\ spaces' = spaces /\ self' = self /\ port' = port /\ transit' = transit
        /\ requests' = requests /\ exiting' = exiting
    BY <1>2 DEF vars
  <2> QED
    BY <2>1 DEF NamespaceInv, Exits
<1>3. ASSUME NEW o \in Objects,
             KernelCreates(o) \/ TerminateUnowned(o) \/ ReleaseHeld(o)
      PROVE  NamesHere'
  BY <1>1, <1>3, KernelCreatesInv, TerminateUnownedInv, ReleaseHeldInv
<1>4. ASSUME NEW o \in Objects, NEW t \in Tasks, NEW special \in Objects \cup {NoObject},
             NEW n \in Names, NEW parent \in Tasks \cup {NoObject},
             CreateTask(t, o, special, n, parent)
      PROVE  NamesHere'
  BY <1>1, <1>4, CreateTaskInv
<1>5. ASSUME NEW o \in Objects, NEW t \in Tasks, NEW r \in {"Receive", "PortSet", "DeadName"},
             PortAllocate(t, o, r)
      PROVE  NamesHere'
  BY <1>1, <1>5, PortAllocateInv
<1>6. ASSUME NEW o \in Objects, NEW t \in Tasks, NEW r \in PortRights,
             PortCopyout(t, o, r) \/ \E n \in Names : InsertRight(t, n, o, r)
      PROVE  NamesHere'
  BY <1>1, <1>6, PortCopyoutInv, InsertRightInv
<1>7. ASSUME NEW o \in Objects, NEW t \in Tasks, CopyoutOfDead(t, o) PROVE NamesHere'
  BY <1>1, <1>7, CopyoutOfDeadInv
<1>8. ASSUME NEW t \in Tasks, NEW n \in Names, NEW r \in PortRights, MoveRight(t, n, r)
      PROVE  NamesHere'
  BY <1>1, <1>8, MoveRightInv
<1>9. ASSUME NEW t \in Tasks, NEW n \in Names, NEW m \in Names, Rename(t, n, m)
      PROVE  NamesHere'
  BY <1>1, <1>9, RenameStepInv
<1>10. ASSUME NEW t \in Tasks, NEW n \in Names, DestroyName(t, n) \/ ExitDestroys(t, n)
       PROVE  NamesHere'
  <2>1. Destroy(t, n) /\ self' = self
    BY <1>10 DEF DestroyName, ExitDestroys
  <2> QED
    BY <1>1, <2>1, DestroyInv
<1>11. ASSUME NEW t \in Tasks, NEW n \in Names, NEW r \in {"Receive", "PortSet", "SendOnce"},
              DropWhole(t, n, r)
       PROVE  NamesHere'
  BY <1>1, <1>11, DropWholeInv
<1>12. ASSUME NEW t \in Tasks, NEW n \in Names, NEW r \in {"Send", "DeadName"},
              NEW delta \in {-2, -1, 1}, ModRefs(t, n, r, delta)
       PROVE  NamesHere'
  <2>1. delta \in Int
    OBVIOUS
  <2> QED
    BY <1>1, <1>12, <2>1, ModRefsInv
<1>13. ASSUME NEW t \in Tasks, NEW n \in Names,
              RequestDeadName(t, n) \/ ForgetRequest(t, n) \/ ServiceClose(t, n)
       PROVE  NamesHere'
  BY <1>1, <1>13, RequestDeadNameInv, ForgetRequestInv, ServiceCloseInv
<1>14. ASSUME NEW t \in Tasks, Exit(t) PROVE NamesHere'
  BY <1>1, <1>14 DEF Exit, NamesHere
<1>15. ASSUME NEW t \in Tasks, ExitEnds(t) PROVE NamesHere'
  <2>1. self[exiting] # NoObject
    BY <1>1, <1>15, NamesAssumption DEF ExitEnds, Exits
  <2> QED
    BY <1>1, <1>15, <2>1, ExitEndsInv
<1>16. ASSUME Next PROVE NamespaceInv'
  <2>1. NamesHere'
    BY <1>3, <1>4, <1>5, <1>6, <1>7, <1>8, <1>9, <1>10, <1>11, <1>12, <1>13, <1>14, <1>15, <1>16
       DEF Next
  <2>2. Exits'
    BY <1>16, ExitsStep
  <2> QED
    BY <2>1, <2>2 DEF NamespaceInv, NamesHere
<1> QED
  BY <1>2, <1>16

\* The names of every task are as the invariant says, whatever the tasks, the
\* objects and the names are.
THEOREM NamespaceInvariant == Spec => []NamespaceInv
BY NamespaceInit, NamespaceStep, PTL DEF Spec

\* Every entry has an object while it has a right, and references exactly to the
\* rights it has, within their limits (add_entry_type, modify_references).
THEOREM NamesTyped == Spec => []TypeOK
<1>1. NamespaceInv => TypeOK
  <2> SUFFICES ASSUME NamespaceInv PROVE TypeOK
    OBVIOUS
  <2>1. Typed(spaces, port, transit, requests, self) /\ exiting \in Tasks \cup {NoObject}
    BY DEF NamespaceInv, NamesInv, Exits
  <2>2. \A t \in Tasks, n \in Names : EntryOK(spaces[t].entries[n])
    BY <2>1 DEF Typed, Well
  <2> QED
    BY <2>1, <2>2 DEF TypeOK, Typed, Spaces, EntryOK
<1> QED
  BY <1>1, NamespaceInvariant, PTL

\* The index of the names of an object is what a scan of the entries would find,
\* after every installation, rename, destruction and death (index_name,
\* unindex_name, refresh_object_rights, mark_object_dead).
THEOREM IndexKept == Spec => []IndexAgrees
<1>1. NamespaceInv => IndexAgrees
  <2> SUFFICES ASSUME NamespaceInv, NEW t \in Tasks, NEW o \in Objects
               PROVE  spaces[t].index[o] = [names |-> Named(spaces[t], o),
                                            rights |-> Types(spaces[t], Named(spaces[t], o))]
    BY DEF IndexAgrees, Named
  <2>1. Well(spaces[t])
    BY DEF NamespaceInv, NamesInv, Typed
  <2>2. spaces[t].index[o] \in [names: SUBSET Names, rights: SUBSET Rights]
    BY <2>1 DEF Well, Spaces
  <2>3. /\ spaces[t].index[o].names = Named(spaces[t], o)
        /\ spaces[t].index[o].rights = Types(spaces[t], Named(spaces[t], o))
    BY <2>1 DEF Well, Indexed
  <2> QED
    BY <2>2, <2>3
<1> QED
  BY <1>1, NamespaceInvariant, PTL

\* A task has one name for its send and receive rights to a port, and a name of
\* its own for each send-once right (copyout, insert_object_locked, rename).
THEOREM NamesUnique == Spec => []CapabilityNamedOnce
<1>1. NamespaceInv => CapabilityNamedOnce
  <2> SUFFICES ASSUME NamespaceInv PROVE CapabilityNamedOnce
    OBVIOUS
  <2>1. Once(spaces) /\ \A t \in Tasks, n \in Names : EntryOK(spaces[t].entries[n])
    BY DEF NamespaceInv, NamesInv, Typed, Well
  <2>2. ASSUME NEW t \in Tasks, NEW n \in Names, "SendOnce" \in spaces[t].entries[n].type
        PROVE  spaces[t].entries[n].type = {"SendOnce"} /\ spaces[t].entries[n].refs["SendOnce"] = 1
    <3>1. spaces[t].entries[n].type = {"SendOnce"}
      BY <2>1, <2>2 DEF Once, Ty
    <3>2. EntryOK(spaces[t].entries[n]) /\ "SendOnce" \in Rights
      BY <2>1 DEF Rights
    <3>3. /\ spaces[t].entries[n].refs["SendOnce"] > 0
          /\ spaces[t].entries[n].refs["SendOnce"] <= 1
      BY <2>2, <3>2 DEF EntryOK
    <3>4. spaces[t].entries[n].refs["SendOnce"] \in Int
      BY <3>2, NamesAssumption DEF EntryOK, Entries
    <3> QED
      BY <3>1, <3>3, <3>4
  <2>3. ASSUME NEW t \in Tasks, NEW n \in Names, NEW m \in Names \ {n},
               spaces[t].entries[n].type \cap Whole # {},
               spaces[t].entries[m].object = spaces[t].entries[n].object
        PROVE  spaces[t].entries[m].type \cap Whole = {}
    BY <2>1, <2>3 DEF Once, Ob, Ty
  <2> QED
    BY <2>2, <2>3 DEF CapabilityNamedOnce, Whole
<1> QED
  BY <1>1, NamespaceInvariant, PTL

\* A dead-name request is on a name that has a right to its target, unless the
\* target was closed as an IOKit connection (request_notification, rename,
\* consume_moved_right_locked, terminate_receive_object_locked).
THEOREM RequestsKept == Spec => []RequestsNamed
<1>1. NamespaceInv => RequestsNamed
  BY DEF NamespaceInv, NamesInv, Requested, Backed, Ob, Ty, RequestsNamed
<1> QED
  BY <1>1, NamespaceInvariant, PTL

-----------------------------------------------------------------------------
(* Where the right to receive from a port is.                              *)

(* The receive right to a port, or a port set, has one name in all tasks,  *)
(* and a receive right that is in a message has none.                      *)
ReceiveUnique ==
    \A t \in Tasks, n \in Names :
        LET e == spaces[t].entries[n]
        IN /\ "Receive" \in e.type => e.object \notin transit
           /\ \A u \in Tasks, m \in Names :
                 /\ u # t \/ m # n
                 /\ spaces[u].entries[m].object = e.object
                 => e.type \cap spaces[u].entries[m].type \cap {"Receive", "PortSet"} = {}

(* The rights at a name are those that the state of the port allows: a     *)
(* dead name is to a port that ended, and to a port that ended there is    *)
(* nothing else.                                                           *)
RightsMatchPorts ==
    \A t \in Tasks, n \in Names :
        LET e == spaces[t].entries[n]
        IN Contains(spaces[t], n) =>
              /\ "DeadName" \in e.type <=> port[e.object] \in {"dead", "closed"}
              /\ "DeadName" \in e.type => e.type = {"DeadName"}
              /\ "PortSet" \in e.type <=> port[e.object] = "set"
              /\ e.type \cap {"Receive", "SendOnce"} # {} => port[e.object] = "guest"
              /\ "Send" \in e.type => port[e.object] \in Live

\* Two tasks never receive from one port, and a receive right in a message is not
\* at a name as well (copyout, insert_object_locked, consume_moved_right_locked,
\* terminate_receive_object_locked).
THEOREM ReceiveRightUnique == Spec => []ReceiveUnique
<1>1. NamespaceInv => ReceiveUnique
  <2> SUFFICES ASSUME NamespaceInv PROVE ReceiveUnique
    OBVIOUS
  <2>1. /\ NamesInv(spaces, port, transit, requests, self)
        /\ Held(spaces) /\ Carried(spaces, port, transit)
    BY DEF NamespaceInv, NamesInv
  <2>2. ASSUME NEW t \in Tasks, NEW n \in Names, "Receive" \in Ty(spaces, t, n)
        PROVE  Ob(spaces, t, n) \notin transit
    BY <2>1, <2>2 DEF Carried, Unreceived
  <2>3. ASSUME NEW t \in Tasks, NEW n \in Names, NEW u \in Tasks, NEW m \in Names,
               u # t \/ m # n, Ob(spaces, u, m) = Ob(spaces, t, n),
               NEW r \in {"Receive", "PortSet"}, r \in Ty(spaces, t, n), r \in Ty(spaces, u, m)
        PROVE  FALSE
    BY <2>1, <2>3 DEF Held
  <2> QED
    BY <2>2, <2>3 DEF ReceiveUnique, Ob, Ty
<1> QED
  BY <1>1, NamespaceInvariant, PTL

\* A port that ended has dead names and nothing else, in every task, and a dead
\* name is to such a port (mark_object_dead, terminate_receive_object_locked,
\* destroy_port_name_locked, allocate_locked).
THEOREM RightsMatch == Spec => []RightsMatchPorts
<1>1. NamespaceInv => RightsMatchPorts
  <2> SUFFICES ASSUME NamespaceInv, NEW t \in Tasks, NEW n \in Names, Ty(spaces, t, n) # {}
               PROVE  /\ "DeadName" \in Ty(spaces, t, n) <=> port[Ob(spaces, t, n)] \in {"dead", "closed"}
                      /\ "DeadName" \in Ty(spaces, t, n) => Ty(spaces, t, n) = {"DeadName"}
                      /\ "PortSet" \in Ty(spaces, t, n) <=> port[Ob(spaces, t, n)] = "set"
                      /\ Ty(spaces, t, n) \cap {"Receive", "SendOnce"} # {} =>
                            port[Ob(spaces, t, n)] = "guest"
                      /\ "Send" \in Ty(spaces, t, n) => port[Ob(spaces, t, n)] \in Live
    BY DEF RightsMatchPorts, Ob, Ty, Contains
  <2> DEFINE o == Ob(spaces, t, n)
             R == Ty(spaces, t, n)
  <2>1. o \in Objects /\ port[o] \in Ports
    BY EntryFacts DEF NamespaceInv, NamesInv, Typed
  <2>2. R \subseteq Allowed(port[o])
    BY <2>1 DEF NamespaceInv, NamesInv, Shaped
  <2> HIDE DEF o, R
  <2>3. R # {}
    BY DEF R
  <2>4. \/ port[o] = "guest" /\ R \subseteq PortRights
        \/ port[o] = "kernel" /\ R = {"Send"}
        \/ port[o] = "set" /\ R = {"PortSet"}
        \/ port[o] \in {"dead", "closed"} /\ R = {"DeadName"}
    BY <2>1, <2>2, <2>3 DEF Allowed, Ports, Live
  <2>5. /\ "DeadName" \in R <=> port[o] \in {"dead", "closed"}
        /\ "DeadName" \in R => R = {"DeadName"}
        /\ "PortSet" \in R <=> port[o] = "set"
        /\ R \cap {"Receive", "SendOnce"} # {} => port[o] = "guest"
        /\ "Send" \in R => port[o] \in Live
    BY <2>4 DEF PortRights, Sending, Live
  <2> QED
    BY <2>5 DEF o, R
<1> QED
  BY <1>1, NamespaceInvariant, PTL

(* A port that tasks made is not lost: its receive right is at a name or   *)
(* in a message, and a port set is at a name.                              *)
Holder(S, o, r) == \E t \in Tasks, n \in Names : Ob(S, t, n) = o /\ r \in Ty(S, t, n)
Reachable(S, P, T, o) ==
    /\ P[o] = "guest" => o \in T \/ Holder(S, o, "Receive")
    /\ P[o] = "set" => Holder(S, o, "PortSet")
AllReachable(S, P, T) == \A o \in Objects : Reachable(S, P, T, o)
PortsReachable == AllReachable(spaces, port, transit)

(* The rights to receive from the objects but x stay.                      *)
Keeps(S, U, x) ==
    \A t \in Tasks, n \in Names :
        Ob(S, t, n) \in Objects \ {x} /\ Ty(S, t, n) \cap {"Receive", "PortSet"} # {} =>
            /\ Ob(U, t, n) = Ob(S, t, n)
            /\ Ty(S, t, n) \cap {"Receive", "PortSet"} \subseteq Ty(U, t, n)

\* The objects but x stay reachable.
LEMMA KeepsReachable ==
  ASSUME NEW S, NEW P, NEW T, NEW o \in Objects, Reachable(S, P, T, o),
         NEW x, x # o, NEW U, Keeps(S, U, x),
         NEW P2, P2[o] = P[o] \/ P2[o] \notin {"guest", "set"},
         NEW T2, o \in T => o \in T2
  PROVE  Reachable(U, P2, T2, o)
<1>1. ASSUME NEW r \in {"Receive", "PortSet"}, Holder(S, o, r) PROVE Holder(U, o, r)
  <2>1. PICK t \in Tasks, n \in Names : Ob(S, t, n) = o /\ r \in Ty(S, t, n)
    BY <1>1 DEF Holder
  <2>2. Ob(U, t, n) = o /\ r \in Ty(U, t, n)
    BY <2>1 DEF Keeps
  <2> QED
    BY <2>2 DEF Holder
<1>2. /\ Holder(S, o, "Receive") => Holder(U, o, "Receive")
      /\ Holder(S, o, "PortSet") => Holder(U, o, "PortSet")
  BY <1>1
<1> QED
  BY <1>2 DEF Reachable

\* The spaces change, and one object with them.
LEMMA StaysReachable ==
  ASSUME NEW S, NEW P, NEW T, NEW x, \A o \in Objects \ {x} : Reachable(S, P, T, o),
         NEW U, Keeps(S, U, x),
         NEW P2, \A o \in Objects \ {x} : P2[o] = P[o] \/ P2[o] \notin {"guest", "set"},
         NEW T2, T \ {x} \subseteq T2,
         x \in Objects => Reachable(U, P2, T2, x)
  PROVE  AllReachable(U, P2, T2)
<1>1. ASSUME NEW o \in Objects, o # x PROVE Reachable(U, P2, T2, o)
  <2>1. Reachable(S, P, T, o)
    BY <1>1
  <2>2. o \in T => o \in T2
    BY <1>1
  <2>3. P2[o] = P[o] \/ P2[o] \notin {"guest", "set"}
    BY <1>1
  <2> QED
    BY <1>1, <2>1, <2>2, <2>3, KeepsReachable
<1> QED
  BY <1>1 DEF AllReachable

\* An object that is not a port of a task, or whose receive right is in a message,
\* is reachable.
LEMMA ReachableOthers ==
  ASSUME NEW S, NEW P, NEW T, NEW o,
         P[o] \notin {"guest", "set"} \/ (P[o] # "set" /\ o \in T)
  PROVE  Reachable(S, P, T, o)
BY DEF Reachable

\* The same spaces.
LEMMA KeepsSame ==
  ASSUME NEW S, NEW U, NEW x,
         \A t \in Tasks, n \in Names : Ob(U, t, n) = Ob(S, t, n) /\ Ty(U, t, n) = Ty(S, t, n)
  PROVE  Keeps(S, U, x)
BY DEF Keeps

\* What one name loses: its object, or a right that is not to receive.
LEMMA KeepsLeaves ==
  ASSUME NEW S, NEW P, NEW T, NEW Q, NEW F, NamesInv(S, P, T, Q, F),
         NEW t \in Tasks, NEW n \in Names, NEW K, K \subseteq Ty(S, t, n),
         NEW u, Leaves(S[t], u, n, K),
         NEW U, U = With(S, t, u), NEW x,
         x = Ob(S, t, n) \/ Ty(S, t, n) \cap {"Receive", "PortSet"} \subseteq K
  PROVE  Keeps(S, U, x)
<1>1. /\ Ty(U, t, n) = K /\ (K # {} => Ob(U, t, n) = Ob(S, t, n))
      /\ \A v \in Tasks, m \in Names : v # t \/ m # n =>
            Ob(U, v, m) = Ob(S, v, m) /\ Ty(U, v, m) = Ty(S, v, m)
  BY LeavesLoses
<1> QED
  BY <1>1 DEF Keeps

\* The other ports stay as they are when one ends.
LEMMA TerminateKeeps ==
  ASSUME NEW S, NEW Q, NEW F, NamesInv(S, port, transit, Q, F),
         NEW o \in Objects, port[o] \in Live, Unreceived(S, o), Terminate(S, Q, o)
  PROVE  /\ Keeps(S, spaces', o) /\ transit \ {o} \subseteq transit'
         /\ \A q \in Objects \ {o} : port'[q] = port[q]
         /\ port'[o] = "dead" \/ (port'[o] = "guest" /\ o \in transit')
<1>1. port \in [Objects -> Ports]
  BY DEF NamesInv, Typed
<1>2. CASE /\ port[o] = "guest"
           /\ spaces' = S
           /\ requests' = Q
           /\ transit' = transit \cup {o}
           /\ port' = port
  BY <1>2, KeepsSame
<1>3. CASE /\ spaces' = [t \in Tasks |-> Notified(MarkDead(S[t], o), Q[t], o)]
           /\ requests' = [t \in Tasks |-> [n \in Names |->
                              IF Q[t][n] = o THEN NoObject ELSE Q[t][n]]]
           /\ transit' = transit \ {o}
           /\ port' = [port EXCEPT ![o] = "dead"]
  <2> DEFINE V == [t \in Tasks |-> MarkDead(S[t], o)]
             U == [t \in Tasks |-> Notified(V[t], Q[t], o)]
  <2>1. V = [t \in Tasks |-> MarkDead(S[t], o)]
    OBVIOUS
  <2>2. spaces' = U
    BY <1>3
  <2> HIDE DEF V
  <2>3. Wells(V) /\ Dies(S, V, o)
    BY <2>1, MarkedSpaces
  <2>4. \A t \in Tasks : U[t] = Notified(V[t], Q[t], o)
    OBVIOUS
  <2> HIDE DEF U
  <2>5. ASSUME NEW t \in Tasks, NEW n \in Names
        PROVE  Ob(U, t, n) = Ob(V, t, n) /\ Ty(U, t, n) = Ty(V, t, n)
    <3>1. /\ U[t].entries[n].object = V[t].entries[n].object
          /\ U[t].entries[n].type = V[t].entries[n].type
      BY <2>3, <2>4, NotifiedIs DEF Wells
    <3> QED
      BY <3>1 DEF Ob, Ty
  <2>6. Keeps(S, U, o)
    BY <2>3, <2>5 DEF Dies, Keeps
  <2>7. port'[o] = "dead" /\ \A q \in Objects \ {o} : port'[q] = port[q]
    BY <1>1, <1>3
  <2> QED
    BY <1>3, <2>2, <2>6, <2>7
<1> QED
  BY <1>2, <1>3 DEF Terminate

\* A port ends, or its receive right is in a message: the others stay reachable.
LEMMA TerminateReachable ==
  ASSUME NEW S, NEW Q, NEW F, NamesInv(S, port, transit, Q, F),
         NEW o \in Objects, port[o] \in Live, Unreceived(S, o), Terminate(S, Q, o),
         \A q \in Objects \ {o} : Reachable(S, port, transit, q)
  PROVE  PortsReachable'
<1>1. /\ Keeps(S, spaces', o) /\ transit \ {o} \subseteq transit'
      /\ \A q \in Objects \ {o} : port'[q] = port[q]
      /\ port'[o] = "dead" \/ (port'[o] = "guest" /\ o \in transit')
  BY TerminateKeeps
<1>2. Reachable(spaces', port', transit', o)
  BY <1>1, ReachableOthers
<1>3. PICK S2, P2, T2 : S2 = spaces' /\ P2 = port' /\ T2 = transit'
  OBVIOUS
<1>4. AllReachable(S2, P2, T2)
  BY <1>1, <1>2, <1>3, StaysReachable
<1> QED
  BY <1>3, <1>4 DEF PortsReachable

\* An object becomes a dead one; the names stay.
LEMMA DeathReachable ==
  ASSUME NEW S, NEW P, NEW T, NEW o \in Objects, P \in [Objects -> Ports],
         \A q \in Objects \ {o} : Reachable(S, P, T, q),
         NEW p, p \notin {"guest", "set"}, NEW P2, P2 = [P EXCEPT ![o] = p]
  PROVE  AllReachable(S, P2, T)
<1>1. P2[o] = p /\ \A q \in Objects \ {o} : P2[q] = P[q]
  OBVIOUS
<1>2. Keeps(S, S, o)
  BY KeepsSame
<1>3. Reachable(S, P2, T, o)
  BY <1>1, ReachableOthers
<1> QED
  BY <1>1, <1>2, <1>3, StaysReachable

\* Rights other than those to receive go from a name.
LEMMA LossReachable ==
  ASSUME NamesHere, PortsReachable,
         NEW t \in Tasks, NEW n \in Names, NEW K, K \subseteq Ty(spaces, t, n),
         Ty(spaces, t, n) \cap {"Receive", "PortSet"} \subseteq K,
         NEW u, Leaves(spaces[t], u, n, K),
         NEW U, U = With(spaces, t, u)
  PROVE  AllReachable(U, port, transit)
<1>1. NamesInv(spaces, port, transit, requests, self)
  BY DEF NamesHere
<1>2. Keeps(spaces, U, NoObject)
  BY <1>1, KeepsLeaves
<1>3. \A o \in Objects \ {NoObject} : Reachable(spaces, port, transit, o)
  BY DEF PortsReachable, AllReachable
<1>4. NoObject \notin Objects
  BY NamesAssumption
<1>5. /\ \A o \in Objects \ {NoObject} : port[o] = port[o] \/ port[o] \notin {"guest", "set"}
      /\ transit \ {NoObject} \subseteq transit
      /\ NoObject \in Objects => Reachable(U, port, transit, NoObject)
  BY <1>4
<1> QED
  BY <1>2, <1>3, <1>5, StaysReachable

\* A name loses rights to an object: the others stay reachable.
LEMMA OthersReachable ==
  ASSUME NamesHere, PortsReachable,
         NEW t \in Tasks, NEW n \in Names, NEW K, K \subseteq Ty(spaces, t, n),
         NEW u, Leaves(spaces[t], u, n, K),
         NEW U, U = With(spaces, t, u)
  PROVE  \A q \in Objects \ {Ob(spaces, t, n)} : Reachable(U, port, transit, q)
<1> DEFINE x == Ob(spaces, t, n)
<1>1. NamesInv(spaces, port, transit, requests, self)
  BY DEF NamesHere
<1>2. Keeps(spaces, U, x)
  BY <1>1, KeepsLeaves
<1> HIDE DEF x
<1>3. ASSUME NEW q \in Objects \ {x} PROVE Reachable(U, port, transit, q)
  <2>1. q \in Objects /\ x # q /\ Reachable(spaces, port, transit, q)
    BY DEF PortsReachable, AllReachable
  <2> QED
    BY <1>2, <2>1, KeepsReachable
<1> QED
  BY <1>3 DEF x

\* A right leaves in a message.
LEMMA MoveRightReachable ==
  ASSUME NamesHere, PortsReachable, NEW t \in Tasks, NEW n \in Names, NEW r \in PortRights,
         MoveRight(t, n, r)
  PROVE  PortsReachable'
<1> DEFINE u == IF r = "Receive" THEN RemoveType(spaces[t], n, r)
                ELSE ModifyReferences(spaces[t], n, r, -1)
           U == With(spaces, t, u)
           o == Ob(spaces, t, n)
           T2 == IF r = "Receive" THEN transit \cup {o} ELSE transit
<1>1. /\ NamesInv(spaces, port, transit, requests, self)
      /\ Typed(spaces, port, transit, requests, self)
  BY DEF NamesHere, NamesInv
<1>2. /\ r \in Ty(spaces, t, n) /\ Well(spaces[t])
      /\ spaces' = U /\ transit' = T2 /\ port' = port
  <2>1. U = [spaces EXCEPT ![t] = IF r = "Receive" THEN RemoveType(@, n, r)
                                  ELSE ModifyReferences(@, n, r, -1)]
    BY DEF With
  <2> HIDE DEF U, u
  <2> QED
    BY <1>1, <2>1 DEF MoveRight, Typed, Ob, Ty, Has
<1>3. PICK K : /\ K \subseteq Ty(spaces, t, n) /\ Leaves(spaces[t], u, n, K)
               /\ r # "Receive" => Ty(spaces, t, n) \ {r} \subseteq K
  <2>1. CASE r = "Receive"
    <3>1. Leaves(spaces[t], RemoveType(spaces[t], n, r), n, Ty(spaces, t, n) \ {r})
      BY <1>2, RemoveTypeLeaves DEF Ty
    <3> QED
      BY <2>1, <3>1
  <2>2. CASE r # "Receive"
    <3>1. spaces[t].entries[n].refs[r] + -1 \in 0..Limit(r)
      BY <1>1, <1>2, RefsAre DEF Typed
    <3>2. \/ Leaves(spaces[t], u, n, Ty(spaces, t, n) \ {r})
          \/ Leaves(spaces[t], u, n, Ty(spaces, t, n))
      BY <1>2, <2>2, <3>1, ModifyReferencesLeaves DEF Ty
    <3> QED
      BY <3>2
  <2> QED
    BY <2>1, <2>2
<1> HIDE DEF u
<1>4. U = With(spaces, t, u)
  OBVIOUS
<1> HIDE DEF U
<1>5. CASE r # "Receive"
  <2>1. Ty(spaces, t, n) \cap {"Receive", "PortSet"} \subseteq K
    BY <1>3, <1>5 DEF PortRights, Sending
  <2>2. AllReachable(U, port, transit)
    BY <1>3, <1>4, <2>1, LossReachable
  <2> QED
    BY <1>2, <1>5, <2>2 DEF PortsReachable
<1>6. CASE r = "Receive"
  <2>1. o \in Objects /\ port[o] = "guest" /\ o \in T2
    BY <1>1, <1>2, <1>6, LiveRights
  <2>2. \A q \in Objects \ {o} : Reachable(U, port, transit, q)
    BY <1>3, <1>4, OthersReachable
  <2>3. Keeps(U, U, o) /\ transit \ {o} \subseteq T2
    BY KeepsSame
  <2> HIDE DEF o, T2
  <2>4. Reachable(U, port, T2, o)
    BY <2>1, ReachableOthers
  <2>5. AllReachable(U, port, T2)
    BY <2>2, <2>3, <2>4, StaysReachable
  <2> QED
    BY <1>2, <2>5 DEF PortsReachable
<1> QED
  BY <1>5, <1>6

\* A kernel object that no name has a send right to may go.
LEMMA ReleaseReachable ==
  ASSUME NamesHere, NEW o \in Objects, NEW S, NEW U, Release(U, o),
         AllReachable(S, port, transit)
  PROVE  AllReachable(S, port', transit)
<1>1. port \in [Objects -> Ports]
  BY DEF NamesHere, NamesInv, Typed
<1>2. CASE port' = port
  BY <1>2
<1>3. CASE port' = [port EXCEPT ![o] = "dead"]
  <2>1. \A q \in Objects \ {o} : Reachable(S, port, transit, q)
    BY DEF AllReachable
  <2>2. "dead" \notin {"guest", "set"}
    OBVIOUS
  <2>3. PICK P2 : P2 = port'
    OBVIOUS
  <2>4. AllReachable(S, P2, transit)
    BY <1>1, <1>3, <2>1, <2>2, <2>3, DeathReachable
  <2> QED
    BY <2>3, <2>4
<1> QED
  BY <1>2, <1>3 DEF Release

\* destroy_port_name_locked.
LEMMA DestroyReachable ==
  ASSUME NamesHere, PortsReachable, NEW t \in Tasks, NEW n \in Names, Destroy(t, n)
  PROVE  PortsReachable'
<1> DEFINE u == DestroyEntry(spaces[t], n)
           U == With(spaces, t, u)
           o == Ob(spaces, t, n)
           Q2 == Cancelled(t, n)
<1>1. /\ NamesInv(spaces, port, transit, requests, self)
      /\ Typed(spaces, port, transit, requests, self)
  BY DEF NamesHere, NamesInv
<1>2. Contains(spaces[t], n) /\ Ty(spaces, t, n) # {} /\ Well(spaces[t])
  BY <1>1 DEF Destroy, Typed, Contains, Ty
<1>3. /\ "Receive" \in Ty(spaces, t, n) => Terminate(U, Q2, o)
      /\ "Receive" \notin Ty(spaces, t, n) =>
            /\ spaces' = U /\ transit' = transit
            /\ "PortSet" \in Ty(spaces, t, n) => port' = [port EXCEPT ![o] = "dead"]
            /\ "PortSet" \notin Ty(spaces, t, n) => port' = port \/ Release(U, o)
  <2>1. U = [spaces EXCEPT ![t] = DestroyEntry(@, n)]
    BY DEF With
  <2> HIDE DEF U, u
  <2> QED
    BY <2>1 DEF Destroy, Ob, Ty
<1>4. Leaves(spaces[t], u, n, {})
  BY <1>2, DestroyLeaves
<1> HIDE DEF u
<1>5. U = With(spaces, t, u) /\ {} \subseteq Ty(spaces, t, n)
  OBVIOUS
<1> HIDE DEF U
<1>6. o \in Objects
  BY <1>1, <1>2, LiveRights
<1>7. \A q \in Objects \ {o} : Reachable(U, port, transit, q)
  BY <1>4, <1>5, OthersReachable
<1>8. CASE "Receive" \in Ty(spaces, t, n)
  <2>1. port[o] \in Live
    BY <1>1, <1>2, <1>8, LiveRights DEF Live
  <2>2. Unreceived(U, o)
    <3>1. "Receive" \notin {}
      OBVIOUS
    <3> QED
      BY <1>1, <1>4, <1>5, <1>8, <3>1, ReceiveGone
  <2>3. StillAsked(U, port, requests, Q2)
    BY <1>1, <1>4, <1>5, StillAskedIs
  <2> HIDE DEF Q2, o
  <2>4. NamesInv(U, port, transit, Q2, self)
    BY <1>1, <1>4, <1>5, <2>3, LeavesInv
  <2> QED
    BY <1>3, <1>6, <1>7, <1>8, <2>1, <2>2, <2>4, TerminateReachable
<1>9. CASE "Receive" \notin Ty(spaces, t, n) /\ "PortSet" \in Ty(spaces, t, n)
  <2>1. spaces' = U /\ transit' = transit /\ port' = [port EXCEPT ![o] = "dead"]
    BY <1>3, <1>9
  <2>2. "dead" \notin {"guest", "set"} /\ port \in [Objects -> Ports]
    BY <1>1 DEF Typed
  <2> HIDE DEF o
  <2>3. PICK P2 : P2 = port'
    OBVIOUS
  <2>4. AllReachable(U, P2, transit)
    BY <1>6, <1>7, <2>1, <2>2, <2>3, DeathReachable
  <2> QED
    BY <2>1, <2>3, <2>4 DEF PortsReachable
<1>10. CASE "Receive" \notin Ty(spaces, t, n) /\ "PortSet" \notin Ty(spaces, t, n)
  <2>1. spaces' = U /\ transit' = transit /\ (port' = port \/ Release(U, o))
    BY <1>3, <1>10
  <2>2. Ty(spaces, t, n) \cap {"Receive", "PortSet"} \subseteq {}
    BY <1>10
  <2>3. AllReachable(U, port, transit)
    BY <1>4, <1>5, <2>2, LossReachable
  <2>4. AllReachable(U, port', transit)
    BY <1>6, <2>1, <2>3, ReleaseReachable
  <2> QED
    BY <2>1, <2>4 DEF PortsReachable
<1> QED
  BY <1>8, <1>9, <1>10

\* A receive right, a port set or a send-once right is given up.
LEMMA DropWholeReachable ==
  ASSUME NamesHere, PortsReachable, NEW t \in Tasks, NEW n \in Names,
         NEW r \in {"Receive", "PortSet", "SendOnce"}, DropWhole(t, n, r)
  PROVE  PortsReachable'
<1> DEFINE u == RemoveType(spaces[t], n, r)
           U == With(spaces, t, u)
           o == Ob(spaces, t, n)
           K == Ty(spaces, t, n) \ {r}
           Q2 == IF r # "PortSet" THEN CancelledIfGone(U, t, n) ELSE requests
<1>1. /\ NamesInv(spaces, port, transit, requests, self)
      /\ Typed(spaces, port, transit, requests, self)
  BY DEF NamesHere, NamesInv
<1>2. r \in Ty(spaces, t, n) /\ Well(spaces[t])
  BY <1>1 DEF DropWhole, Typed, Ty
<1>3. /\ r = "Receive" => Terminate(U, Q2, o)
      /\ r # "Receive" =>
            /\ spaces' = U /\ transit' = transit
            /\ port' = IF r = "PortSet" THEN [port EXCEPT ![o] = "dead"] ELSE port
  <2>1. U = [spaces EXCEPT ![t] = RemoveType(@, n, r)]
    BY DEF With
  <2> HIDE DEF U, u
  <2> QED
    BY <2>1 DEF DropWhole, Ob, Ty
<1>4. Leaves(spaces[t], u, n, K)
  BY <1>2, RemoveTypeLeaves DEF Ty
<1> HIDE DEF u
<1>5. U = With(spaces, t, u) /\ K \subseteq Ty(spaces, t, n) /\ r \notin K
  OBVIOUS
<1> HIDE DEF U
<1>6. o \in Objects
  BY <1>1, <1>2, LiveRights
<1>7. \A q \in Objects \ {o} : Reachable(U, port, transit, q)
  <2> HIDE DEF K
  <2> QED
    BY <1>4, <1>5, OthersReachable
<1>8. CASE r = "Receive"
  <2>1. port[o] \in Live
    BY <1>1, <1>2, <1>8, LiveRights DEF Live
  <2> HIDE DEF K
  <2>2. Unreceived(U, o)
    BY <1>1, <1>2, <1>4, <1>5, <1>8, ReceiveGone
  <2>3. StillAsked(U, port, requests, Q2)
    BY <1>1, <1>4, <1>5, <1>8, StillAskedIs
  <2> HIDE DEF Q2, o
  <2>4. NamesInv(U, port, transit, Q2, self)
    BY <1>1, <1>4, <1>5, <2>3, LeavesInv
  <2> QED
    BY <1>3, <1>6, <1>7, <1>8, <2>1, <2>2, <2>4, TerminateReachable
<1>9. CASE r = "PortSet"
  <2>1. spaces' = U /\ transit' = transit /\ port' = [port EXCEPT ![o] = "dead"]
    BY <1>3, <1>9
  <2>2. "dead" \notin {"guest", "set"} /\ port \in [Objects -> Ports]
    BY <1>1 DEF Typed
  <2> HIDE DEF o
  <2>3. PICK P2 : P2 = port'
    OBVIOUS
  <2>4. AllReachable(U, P2, transit)
    BY <1>6, <1>7, <2>1, <2>2, <2>3, DeathReachable
  <2> QED
    BY <2>1, <2>3, <2>4 DEF PortsReachable
<1>10. CASE r = "SendOnce"
  <2>1. spaces' = U /\ transit' = transit /\ port' = port
    BY <1>3, <1>10
  <2>2. Ty(spaces, t, n) \cap {"Receive", "PortSet"} \subseteq K
    BY <1>10
  <2> HIDE DEF K
  <2>3. AllReachable(U, port, transit)
    BY <1>4, <1>5, <2>2, LossReachable
  <2> QED
    BY <2>1, <2>3 DEF PortsReachable
<1> QED
  BY <1>8, <1>9, <1>10

\* The references of a name change.
LEMMA ModRefsReachable ==
  ASSUME NamesHere, PortsReachable, NEW t \in Tasks, NEW n \in Names,
         NEW r \in {"Send", "DeadName"}, NEW k \in Int, ModRefs(t, n, r, k)
  PROVE  PortsReachable'
<1> DEFINE u == ModifyReferences(spaces[t], n, r, k)
           U == With(spaces, t, u)
           o == Ob(spaces, t, n)
<1>1. /\ NamesInv(spaces, port, transit, requests, self)
      /\ Typed(spaces, port, transit, requests, self)
  BY DEF NamesHere, NamesInv
<1>2. /\ r \in Ty(spaces, t, n) /\ Well(spaces[t])
      /\ spaces[t].entries[n].refs[r] + k \in 0..Limit(r)
  BY <1>1 DEF ModRefs, Typed, Ty
<1>3. spaces' = U /\ transit' = transit /\ (port' = port \/ Release(U, o))
  <2>1. U = [spaces EXCEPT ![t] = ModifyReferences(@, n, r, k)]
    BY DEF With
  <2> HIDE DEF U, u
  <2> QED
    BY <2>1 DEF ModRefs, Ob
<1>4. PICK K : /\ K \subseteq Ty(spaces, t, n) /\ Leaves(spaces[t], u, n, K)
               /\ Ty(spaces, t, n) \ {r} \subseteq K
  <2>1. r # "SendOnce"
    OBVIOUS
  <2>2. \/ Leaves(spaces[t], u, n, Ty(spaces, t, n) \ {r})
        \/ Leaves(spaces[t], u, n, Ty(spaces, t, n))
    BY <1>2, <2>1, ModifyReferencesLeaves DEF Ty
  <2> QED
    BY <2>2
<1> HIDE DEF u
<1>5. U = With(spaces, t, u)
  OBVIOUS
<1> HIDE DEF U
<1>6. Ty(spaces, t, n) \cap {"Receive", "PortSet"} \subseteq K
  BY <1>4
<1>7. o \in Objects
  BY <1>1, <1>2, LiveRights
<1>8. AllReachable(U, port, transit)
  BY <1>4, <1>5, <1>6, LossReachable
<1>9. AllReachable(U, port', transit)
  BY <1>3, <1>7, <1>8, ReleaseReachable
<1> QED
  BY <1>3, <1>9 DEF PortsReachable

\* The same names.
LEMMA SameReachable ==
  ASSUME PortsReachable, NEW U,
         \A t \in Tasks, n \in Names : /\ Ob(U, t, n) = Ob(spaces, t, n)
                                       /\ Ty(U, t, n) = Ty(spaces, t, n)
  PROVE  AllReachable(U, port, transit)
<1>1. Keeps(spaces, U, NoObject)
  BY KeepsSame
<1>2. ASSUME NEW o \in Objects PROVE Reachable(U, port, transit, o)
  <2>1. Reachable(spaces, port, transit, o) /\ NoObject # o
    BY NamesAssumption DEF PortsReachable, AllReachable
  <2> QED
    BY <1>1, <2>1, KeepsReachable
<1> QED
  BY <1>2 DEF AllReachable

\* A request is made, or answered at once.
LEMMA RequestDeadNameReachable ==
  ASSUME NamesHere, PortsReachable, NEW t \in Tasks, NEW n \in Names, RequestDeadName(t, n)
  PROVE  PortsReachable'
<1>1. /\ NamesInv(spaces, port, transit, requests, self)
      /\ Typed(spaces, port, transit, requests, self)
  BY DEF NamesHere, NamesInv
<1>2. port' = port /\ transit' = transit
  BY DEF RequestDeadName
<1>3. CASE Ty(spaces, t, n) \cap PortRights # {}
  <2>1. spaces' = spaces
    BY <1>3 DEF RequestDeadName, Ty
  <2> QED
    BY <1>2, <2>1 DEF PortsReachable
<1>4. CASE Ty(spaces, t, n) \cap PortRights = {}
  <2> DEFINE r == "DeadName"
             u == ModifyReferences(spaces[t], n, r, 1)
             U == With(spaces, t, u)
  <2>1. /\ r \in Ty(spaces, t, n) /\ spaces[t].entries[n].refs[r] < MaxRefs
        /\ Well(spaces[t])
    BY <1>1, <1>4 DEF RequestDeadName, Ty, Typed
  <2>2. spaces' = U
    <3>1. U = [spaces EXCEPT ![t] = ModifyReferences(@, n, r, 1)]
      BY DEF With
    <3> HIDE DEF U, u
    <3> QED
      BY <1>4, <3>1 DEF RequestDeadName, Ty
  <2>3. spaces[t].entries[n].refs[r] \in 1..Limit(r) /\ Limit(r) = MaxRefs /\ MaxRefs \in Nat
    BY <1>1, <2>1, RefsAre, NamesAssumption DEF Typed, Limit
  <2>4. PICK K : /\ K \subseteq Ty(spaces, t, n) /\ Leaves(spaces[t], u, n, K)
                 /\ Ty(spaces, t, n) \ {r} \subseteq K
    <3>1. spaces[t].entries[n].refs[r] + 1 \in 0..Limit(r)
      BY <2>1, <2>3
    <3>2. \/ Leaves(spaces[t], u, n, Ty(spaces, t, n) \ {r})
          \/ Leaves(spaces[t], u, n, Ty(spaces, t, n))
      BY <2>1, <3>1, ModifyReferencesLeaves DEF Ty
    <3> QED
      BY <3>2
  <2> HIDE DEF u
  <2>5. U = With(spaces, t, u)
    OBVIOUS
  <2> HIDE DEF U
  <2>6. Ty(spaces, t, n) \cap {"Receive", "PortSet"} \subseteq K
    BY <2>4
  <2>7. AllReachable(U, port, transit)
    BY <2>4, <2>5, <2>6, LossReachable
  <2> QED
    BY <1>2, <2>2, <2>7 DEF PortsReachable
<1> QED
  BY <1>3, <1>4

\* The kernel makes an object, gives up one that no name has, or ends a port
\* without an owner.
LEMMA KernelReachable ==
  ASSUME NamesHere, PortsReachable, NEW o \in Objects,
         KernelCreates(o) \/ ReleaseHeld(o) \/ TerminateUnowned(o)
  PROVE  PortsReachable'
<1>1. /\ NamesInv(spaces, port, transit, requests, self)
      /\ port \in [Objects -> Ports] /\ Carried(spaces, port, transit)
  BY DEF NamesHere, NamesInv, Typed
<1>2. \A q \in Objects \ {o} : Reachable(spaces, port, transit, q)
  BY DEF PortsReachable, AllReachable
<1>3. ASSUME NEW p \in {"kernel", "dead"}, port' = [port EXCEPT ![o] = p],
             spaces' = spaces, transit' = transit
      PROVE  PortsReachable'
  <2>1. p \notin {"guest", "set"}
    OBVIOUS
  <2>2. PICK P2 : P2 = port'
    OBVIOUS
  <2>3. AllReachable(spaces, P2, transit)
    BY <1>1, <1>2, <1>3, <2>1, <2>2, DeathReachable
  <2> QED
    BY <1>3, <2>2, <2>3 DEF PortsReachable
<1>4. CASE KernelCreates(o)
  BY <1>3, <1>4 DEF KernelCreates
<1>5. CASE ReleaseHeld(o)
  BY <1>3, <1>5 DEF ReleaseHeld
<1>6. CASE TerminateUnowned(o)
  <2>1. Terminate(spaces, requests, o) /\ (o \in transit \/ Transient(o))
    BY <1>6 DEF TerminateUnowned
  <2>2. port[o] \in Live /\ Unreceived(spaces, o)
    BY <1>1, <2>1, KernelUnreceived DEF Carried, Transient, Live
  <2> QED
    BY <1>1, <1>2, <2>1, <2>2, TerminateReachable
<1> QED
  BY <1>4, <1>5, <1>6

\* What one name gains.
LEMMA KeepsGains ==
  ASSUME NEW S, Wells(S), NEW t \in Tasks, NEW n \in Names, NEW o, NEW r,
         NEW u, Gains(S[t], u, n, o, r),
         NEW U, U = With(S, t, u)
  PROVE  (\A x : Keeps(S, U, x)) /\ Ob(U, t, n) = o /\ r \in Ty(U, t, n)
<1>1. /\ U[t] = u /\ \A v \in Tasks \ {t} : U[v] = S[v]
  BY OneSpace DEF Wells, Gains
<1>2. Ob(U, t, n) = o /\ Ty(U, t, n) = Ty(S, t, n) \cup {r}
  BY <1>1 DEF Gains, Ob, Ty
<1>3. Ty(S, t, n) # {} => Ob(S, t, n) = o
  BY DEF Gains, Contains, Ob, Ty
<1>4. \A v \in Tasks, m \in Names : v # t \/ m # n =>
         Ob(U, v, m) = Ob(S, v, m) /\ Ty(U, v, m) = Ty(S, v, m)
  BY <1>1 DEF Gains, Ob, Ty
<1> QED
  BY <1>2, <1>3, <1>4 DEF Keeps

\* A right arrives at a name.
LEMMA GainReachable ==
  ASSUME NamesHere, PortsReachable,
         NEW t \in Tasks, NEW n \in Names, NEW o \in Objects, NEW r,
         NEW u, Gains(spaces[t], u, n, o, r),
         NEW U, U = With(spaces, t, u),
         NEW P2, \A q \in Objects \ {o} : P2[q] = port[q],
         P2[o] = "guest" => r = "Receive" \/ port[o] = "guest",
         P2[o] = "set" => r = "PortSet" \/ port[o] = "set",
         NEW T2, T2 = IF r = "Receive" THEN transit \ {o} ELSE transit
  PROVE  AllReachable(U, P2, T2)
<1>1. Wells(spaces)
  BY DEF NamesHere, NamesInv, Typed, Wells
<1>2. (\A x : Keeps(spaces, U, x)) /\ Ob(U, t, n) = o /\ r \in Ty(U, t, n)
  <2>1. Wells(spaces) /\ Gains(spaces[t], u, n, o, r) /\ U = With(spaces, t, u)
    BY <1>1
  <2> QED
    BY ONLY <2>1, KeepsGains, t \in Tasks, n \in Names
<1>3. Reachable(spaces, port, transit, o)
  BY DEF PortsReachable, AllReachable
<1>4. Reachable(U, port, transit, o)
  <2>1. Keeps(spaces, U, NoObject) /\ NoObject # o
    BY <1>2, NamesAssumption
  <2> QED
    BY <1>3, <2>1, KeepsReachable
<1>5. Holder(U, o, r)
  BY <1>2 DEF Holder
<1>6. Reachable(U, P2, T2, o)
  BY <1>4, <1>5 DEF Reachable
<1>7. \A q \in Objects \ {o} : Reachable(spaces, port, transit, q)
  BY DEF PortsReachable, AllReachable
<1>8. transit \ {o} \subseteq T2 /\ Keeps(spaces, U, o)
  BY <1>2
<1> QED
  BY <1>6, <1>7, <1>8, StaysReachable

\* A right that arrives in a message.
LEMMA ArrivesReachable ==
  ASSUME NamesHere, PortsReachable,
         NEW t \in Tasks, NEW n \in Names, NEW o \in Objects, NEW r \in PortRights, Arrives(o, r),
         NEW u, Gains(spaces[t], u, n, o, r),
         NEW U, U = With(spaces, t, u),
         NEW T2, T2 = IF r = "Receive" THEN transit \ {o} ELSE transit
  PROVE  AllReachable(U, port, T2)
<1>1. /\ \A q \in Objects \ {o} : port[q] = port[q]
      /\ port[o] = "guest" => r = "Receive" \/ port[o] = "guest"
      /\ port[o] = "set" => r = "PortSet" \/ port[o] = "set"
  OBVIOUS
<1> QED
  BY <1>1, GainReachable

\* A message or the kernel gives a right to a task.
LEMMA PortCopyoutReachable ==
  ASSUME NamesHere, PortsReachable, NEW t \in Tasks, NEW o \in Objects, NEW r \in PortRights,
         PortCopyout(t, o, r)
  PROVE  PortsReachable'
<1> DEFINE u == Copyout(spaces[t], o, r)
           U == With(spaces, t, u)
           T2 == IF r = "Receive" THEN transit \ {o} ELSE transit
<1>1. NamesInv(spaces, port, transit, requests, self)
  BY DEF NamesHere
<1>2. /\ Arrives(o, r) /\ CanCopyout(spaces[t], o, r) /\ transit' = T2 /\ port' = port
  BY DEF PortCopyout
<1>3. spaces' = U
  <2>1. U = [spaces EXCEPT ![t] = Copyout(@, o, r)]
    BY DEF With
  <2> HIDE DEF U, u
  <2> QED
    BY <2>1 DEF PortCopyout
<1>4. Well(spaces[t]) /\ NamedOnce(spaces[t]) /\ OnlyPort(spaces[t], o)
  BY <1>1, <1>2, SpaceFacts, ArrivesIs
<1>5. PICK n \in Names : Gains(spaces[t], u, n, o, r)
  BY <1>2, <1>4, CopyoutGains
<1> HIDE DEF u
<1>6. AllReachable(U, port, T2)
  BY <1>2, <1>5, ArrivesReachable
<1> QED
  BY <1>2, <1>3, <1>6 DEF PortsReachable

\* A right is inserted, or a receive right that cannot be is lost.
LEMMA InsertRightReachable ==
  ASSUME NamesHere, PortsReachable, NEW t \in Tasks, NEW n \in Names, NEW o \in Objects,
         NEW r \in PortRights, InsertRight(t, n, o, r)
  PROVE  PortsReachable'
<1> DEFINE u == Install(spaces[t], n, o, r)
           U == With(spaces, t, u)
           T2 == IF r = "Receive" THEN transit \ {o} ELSE transit
<1>1. NamesInv(spaces, port, transit, requests, self)
  BY DEF NamesHere
<1>2. Arrives(o, r) /\ r \in Rights
  BY ArrivesIs DEF InsertRight
<1>3. Well(spaces[t]) /\ NamedOnce(spaces[t])
  BY <1>1, SpaceFacts
<1>4. CASE Insertable(spaces[t], n, o, r)
  <2>1. spaces' = U /\ transit' = T2 /\ port' = port
    <3>1. U = [spaces EXCEPT ![t] = Install(@, n, o, r)]
      BY DEF With
    <3> HIDE DEF U, u
    <3> QED
      BY <1>4, <3>1 DEF InsertRight
  <2>2. ~Contains(spaces[t], n) \/ spaces[t].entries[n].object = o
    BY <1>3, <1>4, InsertableFits DEF Fits
  <2>3. Gains(spaces[t], u, n, o, r)
    BY <1>2, <1>3, <2>2, InstallGains
  <2> HIDE DEF u
  <2>4. AllReachable(U, port, T2)
    BY <1>2, <2>3, ArrivesReachable
  <2> QED
    BY <2>1, <2>4 DEF PortsReachable
<1>5. CASE ~Insertable(spaces[t], n, o, r)
  <2>1. r = "Receive" /\ Terminate(spaces, requests, o)
    BY <1>5 DEF InsertRight
  <2>2. port[o] \in Live /\ Unreceived(spaces, o)
    BY <1>2, <2>1, ArrivesIs
  <2>3. \A q \in Objects \ {o} : Reachable(spaces, port, transit, q)
    BY DEF PortsReachable, AllReachable
  <2> QED
    BY <1>1, <2>1, <2>2, <2>3, TerminateReachable
<1> QED
  BY <1>4, <1>5

\* A port, a port set or a dead name is allocated.
LEMMA PortAllocateReachable ==
  ASSUME NamesHere, PortsReachable, NEW t \in Tasks, NEW o \in Objects,
         NEW r \in {"Receive", "PortSet", "DeadName"}, PortAllocate(t, o, r)
  PROVE  PortsReachable'
<1> DEFINE P2 == [port EXCEPT ![o] = Backing(r)]
<1>1. /\ NamesInv(spaces, port, transit, requests, self)
      /\ Typed(spaces, port, transit, requests, self)
  BY DEF NamesHere, NamesInv
<1>2. /\ port[o] = "unborn" /\ r \in Rights /\ Well(spaces[t])
      /\ port' = P2 /\ transit' = transit
  BY <1>1 DEF PortAllocate, Rights, Typed
<1>3. transit = IF r = "Receive" THEN transit \ {o} ELSE transit
  <2>1. o \notin transit
    BY <1>2 DEF NamesHere, NamesInv, Carried
  <2> QED
    BY <2>1
<1>4. /\ \A q \in Objects \ {o} : P2[q] = port[q]
      /\ P2[o] = "guest" => r = "Receive" \/ port[o] = "guest"
      /\ P2[o] = "set" => r = "PortSet" \/ port[o] = "set"
  BY <1>1 DEF Typed, Backing
<1> HIDE DEF P2
<1>5. ASSUME NEW n \in Names, NEW u, Gains(spaces[t], u, n, o, r), spaces' = With(spaces, t, u)
      PROVE  PortsReachable'
  <2>1. PICK U : U = With(spaces, t, u)
    OBVIOUS
  <2>2. AllReachable(U, P2, transit)
    BY <1>3, <1>4, <1>5, <2>1, GainReachable
  <2> QED
    BY <1>2, <1>5, <2>1, <2>2 DEF PortsReachable
<1>6. CASE /\ Candidates(spaces[t]) # {}
           /\ spaces' = [spaces EXCEPT ![t] = Allocate(@, o, r)]
  <2>1. spaces' = With(spaces, t, Allocate(spaces[t], o, r))
    BY <1>6 DEF With
  <2>2. PICK n \in Names : Gains(spaces[t], Allocate(spaces[t], o, r), n, o, r)
    BY <1>2, <1>6, AllocateGains
  <2> QED
    BY <1>5, <2>1, <2>2
<1>7. ASSUME NEW n \in Names, ~Contains(spaces[t], n),
             spaces' = [spaces EXCEPT ![t] = Install(@, n, o, r)]
      PROVE  PortsReachable'
  <2>1. spaces' = With(spaces, t, Install(spaces[t], n, o, r))
    BY <1>7 DEF With
  <2>2. Gains(spaces[t], Install(spaces[t], n, o, r), n, o, r)
    BY <1>2, <1>7, InstallGains
  <2> QED
    BY <1>5, <2>1, <2>2
<1> QED
  BY <1>6, <1>7 DEF PortAllocate

\* A name changes: the right goes with it.
LEMMA RenameReachable ==
  ASSUME NamesHere, PortsReachable, NEW t \in Tasks, NEW n \in Names, NEW m \in Names,
         Rename(t, n, m)
  PROVE  PortsReachable'
<1> DEFINE u == RenameEntry(spaces[t], n, m)
           U == With(spaces, t, u)
<1>1. Wells(spaces) /\ Contains(spaces[t], n) /\ ~Contains(spaces[t], m)
  BY DEF Rename, NamesHere, NamesInv, Typed, Wells
<1>2. spaces' = U /\ port' = port /\ transit' = transit
  BY DEF Rename, With
<1>3. /\ Well(u) /\ u.entries[m] = spaces[t].entries[n]
      /\ \A k \in Names \ {n, m} : u.entries[k] = spaces[t].entries[k]
  <2>1. Well(spaces[t])
    BY <1>1 DEF Wells
  <2> QED
    BY <1>1, <2>1, RenameEntryIs
<1> HIDE DEF u
<1>4. U[t] = u /\ \A v \in Tasks \ {t} : U[v] = spaces[v]
  BY <1>1, <1>3, OneSpace DEF Wells
<1> HIDE DEF U
<1>5. ASSUME NEW v \in Tasks, NEW k \in Names, Ty(spaces, v, k) # {}
      PROVE  \E j \in Names : Ob(U, v, j) = Ob(spaces, v, k) /\ Ty(U, v, j) = Ty(spaces, v, k)
  <2>1. CASE v # t
    BY <1>4, <2>1 DEF Ob, Ty
  <2>2. CASE v = t /\ k = n
    BY <1>3, <1>4, <2>2 DEF Ob, Ty
  <2>3. CASE v = t /\ k # n
    <3>1. k # m
      BY <1>1, <1>5, <2>3 DEF Contains, Ty
    <3> QED
      BY <1>3, <1>4, <2>3, <3>1 DEF Ob, Ty
  <2> QED
    BY <2>1, <2>2, <2>3
<1>6. ASSUME NEW o, NEW r, Holder(spaces, o, r) PROVE Holder(U, o, r)
  <2>1. PICK v \in Tasks, k \in Names : Ob(spaces, v, k) = o /\ r \in Ty(spaces, v, k)
    BY <1>6 DEF Holder
  <2>2. PICK j \in Names : Ob(U, v, j) = o /\ r \in Ty(U, v, j)
    BY <1>5, <2>1
  <2> QED
    BY <2>2 DEF Holder
<1>7. AllReachable(U, port, transit)
  BY <1>6 DEF PortsReachable, AllReachable, Reachable
<1> QED
  BY <1>2, <1>7 DEF PortsReachable

\* A right to a dead port arrives: its names are dead names already.
LEMMA CopyoutOfDeadReachable ==
  ASSUME NamesHere, PortsReachable, NEW t \in Tasks, NEW o \in Objects, CopyoutOfDead(t, o)
  PROVE  PortsReachable'
<1> DEFINE U == [v \in Tasks |-> MarkDead(spaces[v], o)]
<1>1. NamesInv(spaces, port, transit, requests, self)
  BY DEF NamesHere
<1>2. port[o] \in {"dead", "closed"} /\ spaces' = U /\ port' = port /\ transit' = transit
  BY DEF CopyoutOfDead
<1>3. ASSUME NEW v \in Tasks
      PROVE  \A n \in Names : Ob(U, v, n) = Ob(spaces, v, n) /\ Ty(U, v, n) = Ty(spaces, v, n)
  <2>1. Well(spaces[v])
    BY <1>1, SpaceFacts
  <2>2. ASSUME NEW n \in Names, Ob(spaces, v, n) = o PROVE Ty(spaces, v, n) \cap Sending = {}
    <3>1. Ty(spaces, v, n) # {}
      BY <1>1, <2>2, EntryFacts DEF NamesInv, Typed
    <3>2. port[o] # "guest" /\ port[o] # "kernel"
      BY <1>2
    <3>3. Ty(spaces, v, n) \cap PortRights = {}
      BY <1>1, <2>2, <3>1, <3>2, LiveRights DEF Live
    <3> QED
      BY <3>3 DEF PortRights
  <2>3. Killable(spaces[v], o)
    BY <2>2 DEF Killable, Ob, Ty
  <2>4. U[v] = MarkDead(spaces[v], o)
    OBVIOUS
  <2> HIDE DEF U
  <2>5. Killed(spaces[v], U[v], o)
    BY <2>1, <2>3, <2>4, MarkDeadIs
  <2> QED
    BY <2>2, <2>5 DEF Killed, Ob, Ty
<1> HIDE DEF U
<1>4. AllReachable(U, port, transit)
  BY <1>3, SameReachable
<1> QED
  BY <1>2, <1>4 DEF PortsReachable

\* A connection is closed.
LEMMA ServiceCloseReachable ==
  ASSUME NamesHere, PortsReachable, NEW t \in Tasks, NEW n \in Names, ServiceClose(t, n)
  PROVE  PortsReachable'
<1> DEFINE o == Ob(spaces, t, n)
           V == [v \in Tasks |-> MarkDead(spaces[v], o)]
           u == ModifyReferences(V[t], n, "DeadName", -1)
           U == With(V, t, u)
           P2 == [port EXCEPT ![o] = "closed"]
<1>1. /\ NamesInv(spaces, port, transit, requests, self)
      /\ Typed(spaces, port, transit, requests, self)
  BY DEF NamesHere, NamesInv
<1>2. /\ "Send" \in Ty(spaces, t, n) /\ port[o] = "kernel"
      /\ port' = P2 /\ transit' = transit
  BY DEF ServiceClose, Transient, Ob, Ty, Has
<1>3. spaces' = U
  <2>1. spaces' = [V EXCEPT ![t] = ModifyReferences(@, n, "DeadName", -1)]
    BY DEF ServiceClose, Ob
  <2> HIDE DEF V
  <2> QED
    BY <2>1 DEF With
<1>4. o \in Objects /\ port[o] \in Live /\ Unreceived(spaces, o)
  <2>1. o \in Objects
    BY <1>1, <1>2, LiveRights
  <2> QED
    BY <1>1, <1>2, <2>1, KernelUnreceived DEF Live
<1>5. V = [v \in Tasks |-> MarkDead(spaces[v], o)]
  OBVIOUS
<1> HIDE DEF V, o
<1>6. Wells(V) /\ Dies(spaces, V, o)
  BY <1>1, <1>4, <1>5, MarkedSpaces
<1>7. Ob(V, t, n) = o /\ Ty(V, t, n) = {"DeadName"}
  BY <1>6 DEF o, Dies
<1>8. PICK K : Leaves(V[t], u, n, K)
  <2> DEFINE r == "DeadName"
  <2>1. r \in Ty(V, t, n) /\ r # "SendOnce" /\ Well(V[t])
    BY <1>6, <1>7 DEF Wells
  <2>2. V[t].entries[n].refs[r] \in 1..Limit(r) /\ Limit(r) \in Nat
    BY <1>6, <2>1, RefsAre DEF Wells
  <2>3. V[t].entries[n].refs[r] + -1 \in 0..Limit(r)
    BY <2>2
  <2>4. \/ Leaves(V[t], u, n, Ty(V, t, n) \ {r})
        \/ Leaves(V[t], u, n, Ty(V, t, n))
    BY <2>1, <2>3, ModifyReferencesLeaves DEF Ty
  <2> QED
    BY <2>4
<1>9. Well(u) /\ \A m \in Names \ {n} : u.entries[m] = V[t].entries[m]
  BY <1>8 DEF Leaves
<1> HIDE DEF u
<1>10. U[t] = u /\ \A v \in Tasks \ {t} : U[v] = V[v]
  BY <1>6, <1>9, OneSpace DEF Wells
<1> HIDE DEF U
<1>11. \A v \in Tasks, m \in Names : v # t \/ m # n =>
          Ob(U, v, m) = Ob(V, v, m) /\ Ty(U, v, m) = Ty(V, v, m)
  BY <1>9, <1>10 DEF Ob, Ty
<1>12. Keeps(spaces, U, o)
  BY <1>6, <1>11 DEF Keeps, Dies, o
<1>13. P2[o] = "closed" /\ \A q \in Objects \ {o} : P2[q] = port[q]
  BY <1>1, <1>4 DEF Typed
<1> HIDE DEF P2
<1>14. Reachable(U, P2, transit, o)
  BY <1>13, ReachableOthers
<1>15. \A q \in Objects \ {o} : Reachable(spaces, port, transit, q)
  BY DEF PortsReachable, AllReachable
<1>16. AllReachable(U, P2, transit)
  BY <1>12, <1>13, <1>14, <1>15, StaysReachable
<1> QED
  BY <1>2, <1>3, <1>16 DEF PortsReachable

\* A process has gone: it had no names.
LEMMA ExitEndsReachable ==
  ASSUME NamesHere, PortsReachable, self[exiting] # NoObject, NEW t \in Tasks, ExitEnds(t)
  PROVE  PortsReachable'
<1> DEFINE S == With(spaces, t, EmptySpace)
           Q == [requests EXCEPT ![t] = [n \in Names |-> NoObject]]
           o == self[t]
<1>1. /\ NamesInv(spaces, port, transit, requests, self)
      /\ Typed(spaces, port, transit, requests, self) /\ Selves(spaces, port, requests, self)
  BY DEF NamesHere, NamesInv
<1>2. /\ o # NoObject
      /\ \A n \in Names : Ty(spaces, t, n) = {}
      /\ port[o] \in Live => Terminate(S, Q, o)
  BY DEF ExitEnds, Contains, Ty, With
<1>3. o \in Objects /\ port[o] = "kernel"
  BY <1>1, <1>2 DEF Typed, Selves
<1>4. /\ Well(EmptySpace) /\ \A n \in Names : EmptySpace.entries[n] = NoEntry
      /\ NoEntry.type = {} /\ NoEntry.object = NoObject
  BY EmptySpaceIs, NoEntryOK DEF NoEntry
<1>5. /\ S \in [Tasks -> Spaces] /\ \A v \in Tasks : Well(S[v])
      /\ S[t] = EmptySpace /\ \A v \in Tasks \ {t} : S[v] = spaces[v]
  BY <1>1, <1>4, OneSpace DEF Typed
<1> HIDE DEF S
<1>6. /\ \A n \in Names : Ty(S, t, n) = {} /\ Ob(S, t, n) = NoObject
      /\ \A v \in Tasks \ {t}, n \in Names : Ty(S, v, n) = Ty(spaces, v, n) /\ Ob(S, v, n) = Ob(spaces, v, n)
  BY <1>4, <1>5 DEF Ty, Ob
<1>7. /\ Q \in [Tasks -> [Names -> Objects \cup {NoObject}]]
      /\ \A n \in Names : Q[t][n] = NoObject
      /\ \A v \in Tasks \ {t} : Q[v] = requests[v]
  BY <1>1 DEF Typed
<1> HIDE DEF Q
<1>8. /\ Leaving(spaces, port, transit, transit)
      /\ StillAsked(spaces, port, requests, requests)
  BY <1>1, NothingLost
<1>9. Wells(S) /\ Fewer(spaces, S) /\ Leaving(S, port, transit, transit)
  BY <1>5, <1>6, <1>8 DEF Wells, Fewer, Leaving
<1>10. StillAsked(S, port, requests, Q)
  BY <1>6, <1>7, <1>8 DEF StillAsked
<1>11. NamesInv(S, port, transit, Q, self)
  BY <1>1, <1>9, <1>10, LoseInv
<1>12. Unreceived(S, o) /\ port[o] \in Live
  BY <1>3, <1>11, KernelUnreceived DEF Live
<1>13. \A n \in Names : Ob(spaces, t, n) = NoObject
  BY <1>1, <1>2, EntryFacts DEF Typed
<1>14. AllReachable(S, port, transit)
  BY <1>2, <1>6, <1>13, SameReachable
<1>15. \A q \in Objects \ {o} : Reachable(S, port, transit, q)
  BY <1>14 DEF AllReachable
<1> HIDE DEF o
<1> QED
  BY <1>2, <1>3, <1>11, <1>12, <1>15, TerminateReachable

\* A process is made: no name goes.
LEMMA CreateTaskReachable ==
  ASSUME NamesHere, PortsReachable, NEW t \in Tasks, NEW o \in Objects,
         NEW special, NEW preferred, NEW parent \in Tasks \cup {NoObject},
         CreateTask(t, o, special, preferred, parent)
  PROVE  PortsReachable'
<1> DEFINE P2 == [port EXCEPT ![o] = "kernel"]
<1>1. /\ NamesInv(spaces, port, transit, requests, self)
      /\ Typed(spaces, port, transit, requests, self)
  BY DEF NamesHere, NamesInv
<1>2. /\ self[t] = NoObject /\ port[o] = "unborn"
      /\ parent # NoObject => self[parent] # NoObject /\ CanCopyout(spaces[parent], o, "Send")
      /\ port' = P2 /\ transit' = transit
      /\ \A v \in Tasks : v # t /\ v = parent => spaces'[v] = Copyout(spaces[v], o, "Send")
      /\ \A v \in Tasks : v # t /\ v # parent => spaces'[v] = spaces[v]
  BY DEF CreateTask, Runs
<1>3. \A n \in Names : Ty(spaces, t, n) = {}
  BY <1>1, <1>2 DEF NamesInv, Selves
<1>4. PICK U : U = spaces'
  OBVIOUS
<1>5. ASSUME parent \in Tasks, parent # t
      PROVE  \A n \in Names : Ty(spaces, parent, n) # {} =>
                /\ Ob(U, parent, n) = Ob(spaces, parent, n)
                /\ Ty(spaces, parent, n) \subseteq Ty(U, parent, n)
  <2>1. parent # NoObject
    BY <1>5, NamesAssumption
  <2>2. Well(spaces[parent]) /\ NamedOnce(spaces[parent])
    BY <1>1, <1>5, SpaceFacts
  <2>3. \A v \in Tasks, n \in Names : Ob(spaces, v, n) # o
    BY <1>1, <1>2, NoNames
  <2>4. OnlyPort(spaces[parent], o)
    BY <1>5, <2>3 DEF OnlyPort, Ob
  <2>5. CanCopyout(spaces[parent], o, "Send") /\ "Send" \in PortRights
    BY <1>2, <2>1 DEF PortRights, Sending
  <2>6. PICK k \in Names : Gains(spaces[parent], Copyout(spaces[parent], o, "Send"), k, o, "Send")
    BY <2>2, <2>4, <2>5, CopyoutGains
  <2>7. Gains(spaces[parent], U[parent], k, o, "Send")
    BY <1>2, <1>4, <1>5, <2>6
  <2>8. Ty(spaces, parent, k) # {} => Ob(spaces, parent, k) = o
    BY <2>7 DEF Gains, Contains, Ob, Ty
  <2>9. Ty(spaces, parent, k) = {}
    BY <1>5, <2>3, <2>8
  <2> QED
    BY <2>7, <2>9 DEF Gains, Ob, Ty
<1>6. ASSUME NEW v \in Tasks, NEW n \in Names, Ty(spaces, v, n) # {}
      PROVE  Ob(U, v, n) = Ob(spaces, v, n) /\ Ty(spaces, v, n) \subseteq Ty(U, v, n)
  <2>1. v # t
    BY <1>3, <1>6
  <2>2. CASE v = parent
    BY <1>5, <1>6, <2>1, <2>2
  <2>3. CASE v # parent
    BY <1>2, <1>4, <2>1, <2>3 DEF Ob, Ty
  <2> QED
    BY <2>2, <2>3
<1>7. Keeps(spaces, U, o)
  BY <1>6 DEF Keeps
<1>8. P2[o] = "kernel" /\ \A q \in Objects \ {o} : P2[q] = port[q]
  BY <1>1 DEF Typed
<1> HIDE DEF P2
<1>9. Reachable(U, P2, transit, o)
  BY <1>8, ReachableOthers
<1>10. \A q \in Objects \ {o} : Reachable(spaces, port, transit, q)
  BY DEF PortsReachable, AllReachable
<1>11. AllReachable(U, P2, transit)
  BY <1>7, <1>8, <1>9, <1>10, StaysReachable
<1> QED
  BY <1>2, <1>4, <1>11 DEF PortsReachable

\* Every step leaves the ports reachable.
LEMMA ReachableStep == NamespaceInv /\ PortsReachable /\ [Next]_vars => PortsReachable'
<1> SUFFICES ASSUME NamespaceInv, PortsReachable, [Next]_vars PROVE PortsReachable'
  OBVIOUS
<1>1. NamesHere /\ Exits
  BY DEF NamespaceInv, NamesHere
<1>2. ASSUME spaces' = spaces, port' = port, transit' = transit PROVE PortsReachable'
  BY <1>2 DEF PortsReachable
<1>3. CASE UNCHANGED vars
  BY <1>2, <1>3 DEF vars
<1>4. ASSUME NEW o \in Objects,
             KernelCreates(o) \/ TerminateUnowned(o) \/ ReleaseHeld(o)
      PROVE  PortsReachable'
  BY <1>1, <1>4, KernelReachable
<1>5. ASSUME NEW o \in Objects, NEW t \in Tasks, NEW special \in Objects \cup {NoObject},
             NEW n \in Names, NEW parent \in Tasks \cup {NoObject},
             CreateTask(t, o, special, n, parent)
      PROVE  PortsReachable'
  BY <1>1, <1>5, CreateTaskReachable
<1>6. ASSUME NEW o \in Objects, NEW t \in Tasks, NEW r \in {"Receive", "PortSet", "DeadName"},
             PortAllocate(t, o, r)
      PROVE  PortsReachable'
  BY <1>1, <1>6, PortAllocateReachable
<1>7. ASSUME NEW o \in Objects, NEW t \in Tasks, NEW r \in PortRights,
             PortCopyout(t, o, r) \/ \E n \in Names : InsertRight(t, n, o, r)
      PROVE  PortsReachable'
  BY <1>1, <1>7, PortCopyoutReachable, InsertRightReachable
<1>8. ASSUME NEW o \in Objects, NEW t \in Tasks, CopyoutOfDead(t, o) PROVE PortsReachable'
  BY <1>1, <1>8, CopyoutOfDeadReachable
<1>9. ASSUME NEW t \in Tasks, NEW n \in Names, NEW r \in PortRights, MoveRight(t, n, r)
      PROVE  PortsReachable'
  BY <1>1, <1>9, MoveRightReachable
<1>10. ASSUME NEW t \in Tasks, NEW n \in Names, NEW m \in Names, Rename(t, n, m)
       PROVE  PortsReachable'
  BY <1>1, <1>10, RenameReachable
<1>11. ASSUME NEW t \in Tasks, NEW n \in Names, DestroyName(t, n) \/ ExitDestroys(t, n)
       PROVE  PortsReachable'
  <2>1. Destroy(t, n)
    BY <1>11 DEF DestroyName, ExitDestroys
  <2> QED
    BY <1>1, <2>1, DestroyReachable
<1>12. ASSUME NEW t \in Tasks, NEW n \in Names, NEW r \in {"Receive", "PortSet", "SendOnce"},
              DropWhole(t, n, r)
       PROVE  PortsReachable'
  BY <1>1, <1>12, DropWholeReachable
<1>13. ASSUME NEW t \in Tasks, NEW n \in Names, NEW r \in {"Send", "DeadName"},
              NEW delta \in {-2, -1, 1}, ModRefs(t, n, r, delta)
       PROVE  PortsReachable'
  <2>1. delta \in Int
    OBVIOUS
  <2> QED
    BY <1>1, <1>13, <2>1, ModRefsReachable
<1>14. ASSUME NEW t \in Tasks, NEW n \in Names, RequestDeadName(t, n) PROVE PortsReachable'
  BY <1>1, <1>14, RequestDeadNameReachable
<1>15. ASSUME NEW t \in Tasks, NEW n \in Names, ForgetRequest(t, n) PROVE PortsReachable'
  BY <1>2, <1>15 DEF ForgetRequest
<1>16. ASSUME NEW t \in Tasks, NEW n \in Names, ServiceClose(t, n) PROVE PortsReachable'
  BY <1>1, <1>16, ServiceCloseReachable
<1>17. ASSUME NEW t \in Tasks, Exit(t) PROVE PortsReachable'
  BY <1>2, <1>17 DEF Exit
<1>18. ASSUME NEW t \in Tasks, ExitEnds(t) PROVE PortsReachable'
  <2>1. self[exiting] # NoObject
    BY <1>1, <1>18, NamesAssumption DEF ExitEnds, Exits
  <2> QED
    BY <1>1, <1>18, <2>1, ExitEndsReachable
<1>19. ASSUME Next PROVE PortsReachable'
  BY <1>4, <1>5, <1>6, <1>7, <1>8, <1>9, <1>10, <1>11, <1>12, <1>13, <1>14, <1>15, <1>16, <1>17,
     <1>18, <1>19 DEF Next
<1> QED
  BY <1>3, <1>19

(* A port of a task has its receive right in a message or at a name of a   *)
(* task, and a port set is at a name.                                      *)
PortsNotLost ==
    \A o \in Objects :
        /\ port[o] = "guest" =>
              \/ o \in transit
              \/ \E t \in Tasks, n \in Names :
                    spaces[t].entries[n].object = o /\ Has(spaces[t], n, "Receive")
        /\ port[o] = "set" =>
              \E t \in Tasks, n \in Names :
                 spaces[t].entries[n].object = o /\ Has(spaces[t], n, "PortSet")

\* A port that is alive can be received from: whatever a task destroys, moves,
\* renames or inserts, and when a process exits, no receive right or port set
\* disappears while its port stays (destroy_port_name_locked,
\* modify_port_references_locked, consume_moved_right_locked,
\* insert_object_locked, release_process_mach_rights).
THEOREM NoPortLost == Spec => []PortsNotLost
<1>1. Init => PortsReachable
  BY DEF Init, PortsReachable, AllReachable, Reachable
<1>2. PortsReachable <=> PortsNotLost
  BY DEF PortsReachable, AllReachable, Reachable, Holder, PortsNotLost, Ob, Ty, Has
<1> QED
  BY <1>1, <1>2, NamespaceInvariant, ReachableStep, PTL DEF Spec

(* A port is made once, and one that ended stays so.                       *)
PortsEndOnce ==
    [][\A o \in Objects :
          \/ port'[o] = port[o]
          \/ port[o] = "unborn" /\ port'[o] # "closed"
          \/ port[o] \in {"guest", "kernel", "set"} /\ port'[o] \in {"dead", "closed"}]_vars

\* The part of a step that changes what backs the objects.
Turns(P, P2) ==
    \A o \in Objects :
        \/ P2[o] = P[o]
        \/ P[o] = "unborn" /\ P2[o] # "closed"
        \/ P[o] \in {"guest", "kernel", "set"} /\ P2[o] \in {"dead", "closed"}

\* One object changes its state.
LEMMA OneTurns ==
  ASSUME NEW P, P \in [Objects -> Ports], NEW o, NEW p,
         \/ P[o] = "unborn" /\ p # "closed"
         \/ P[o] \in {"guest", "kernel", "set"} /\ p \in {"dead", "closed"},
         NEW P2, P2 = [P EXCEPT ![o] = p]
  PROVE  Turns(P, P2)
BY DEF Turns

\* A port ends only if it is alive.
LEMMA EndsTurn ==
  ASSUME NEW S, NEW Q, port \in [Objects -> Ports], NEW o, port[o] \in Live,
         Terminate(S, Q, o) \/ Release(S, o)
  PROVE  Turns(port, port')
<1>1. CASE port' = port
  BY <1>1 DEF Turns
<1>2. CASE port' = [port EXCEPT ![o] = "dead"]
  <2>1. PICK P2 : P2 = port'
    OBVIOUS
  <2>2. Turns(port, P2)
    BY <1>2, <2>1, OneTurns DEF Live
  <2> QED
    BY <2>1, <2>2
<1> QED
  BY <1>1, <1>2 DEF Terminate, Release

\* An object is made.
LEMMA BirthTurns ==
  ASSUME port \in [Objects -> Ports], NEW o, port[o] = "unborn",
         NEW p \in {"guest", "kernel", "set", "dead"}, port' = [port EXCEPT ![o] = p]
  PROVE  Turns(port, port')
<1>1. PICK P2 : P2 = port'
  OBVIOUS
<1>2. Turns(port, P2)
  BY <1>1, OneTurns
<1> QED
  BY <1>1, <1>2

\* The kernel's own steps.
LEMMA KernelTurns ==
  ASSUME NamesHere, NEW o \in Objects, KernelCreates(o) \/ TerminateUnowned(o) \/ ReleaseHeld(o)
  PROVE  Turns(port, port')
<1>1. port \in [Objects -> Ports] /\ Carried(spaces, port, transit)
  BY DEF NamesHere, NamesInv, Typed
<1>2. CASE KernelCreates(o)
  BY <1>1, <1>2, BirthTurns DEF KernelCreates
<1>3. CASE ReleaseHeld(o)
  BY <1>1, <1>3 DEF ReleaseHeld, Transient, Turns
<1>4. CASE TerminateUnowned(o)
  <2>1. Terminate(spaces, requests, o) /\ (o \in transit \/ Transient(o))
    BY <1>4 DEF TerminateUnowned
  <2>2. port[o] \in Live
    BY <1>1, <2>1 DEF Carried, Transient, Live
  <2> QED
    BY <1>1, <2>1, <2>2, EndsTurn
<1> QED
  BY <1>2, <1>3, <1>4

\* An object is made for a task.
LEMMA MadeTurns ==
  ASSUME NamesHere, NEW t, NEW o,
         \/ \E special, n, parent : CreateTask(t, o, special, n, parent)
         \/ \E r \in {"Receive", "PortSet", "DeadName"} : PortAllocate(t, o, r)
  PROVE  Turns(port, port')
<1>1. port \in [Objects -> Ports]
  BY DEF NamesHere, NamesInv, Typed
<1>2. ASSUME NEW special, NEW n, NEW parent, CreateTask(t, o, special, n, parent)
      PROVE  Turns(port, port')
  <2>1. port[o] = "unborn" /\ port' = [port EXCEPT ![o] = "kernel"]
    BY <1>2 DEF CreateTask
  <2> QED
    BY <1>1, <2>1, BirthTurns
<1>3. ASSUME NEW r \in {"Receive", "PortSet", "DeadName"}, PortAllocate(t, o, r)
      PROVE  Turns(port, port')
  <2>1. port[o] = "unborn" /\ port' = [port EXCEPT ![o] = Backing(r)]
    BY <1>3 DEF PortAllocate
  <2>2. Backing(r) \in {"guest", "kernel", "set", "dead"}
    BY DEF Backing
  <2> QED
    BY <1>1, <2>1, <2>2, BirthTurns
<1> QED
  BY <1>2, <1>3

\* A receive right cannot be inserted.
LEMMA InsertTurns ==
  ASSUME NamesHere, NEW t \in Tasks, NEW n \in Names, NEW o \in Objects, NEW r \in PortRights,
         InsertRight(t, n, o, r)
  PROVE  Turns(port, port')
<1>1. port \in [Objects -> Ports]
  BY DEF NamesHere, NamesInv, Typed
<1>2. CASE Insertable(spaces[t], n, o, r)
  BY <1>2 DEF InsertRight, Turns
<1>3. CASE ~Insertable(spaces[t], n, o, r)
  <2>1. Terminate(spaces, requests, o) /\ Arrives(o, r)
    BY <1>3 DEF InsertRight
  <2>2. port[o] \in Live
    BY <2>1, ArrivesIs
  <2> QED
    BY <1>1, <2>1, <2>2, EndsTurn
<1> QED
  BY <1>2, <1>3

\* A name is destroyed, or loses a right.
LEMMA LossTurns ==
  ASSUME NamesHere, NEW t \in Tasks, NEW n \in Names,
         \/ Destroy(t, n)
         \/ \E r \in {"Receive", "PortSet", "SendOnce"} : DropWhole(t, n, r)
         \/ \E r, k : ModRefs(t, n, r, k)
  PROVE  Turns(port, port')
<1> DEFINE o == spaces[t].entries[n].object
           R == spaces[t].entries[n].type
<1>1. NamesInv(spaces, port, transit, requests, self) /\ port \in [Objects -> Ports]
  BY DEF NamesHere, NamesInv, Typed
<1>2. /\ "Receive" \in R => port[o] \in Live
      /\ "PortSet" \in R => port[o] = "set"
  BY <1>1, LiveRights DEF Live, Ob, Ty
<1> HIDE DEF o, R
<1>3. ASSUME NEW S, NEW Q, Terminate(S, Q, o), "Receive" \in R PROVE Turns(port, port')
  BY <1>1, <1>2, <1>3, EndsTurn
<1>4. ASSUME "PortSet" \in R, port' = [port EXCEPT ![o] = "dead"] PROVE Turns(port, port')
  BY <1>1, <1>2, <1>4 DEF Turns
<1>5. ASSUME NEW S, Release(S, o) PROVE Turns(port, port')
  <2>1. CASE port' = port
    BY <2>1 DEF Turns
  <2>2. CASE port[o] = "kernel" /\ port' = [port EXCEPT ![o] = "dead"]
    BY <1>1, <2>2 DEF Turns
  <2> QED
    BY <1>5, <2>1, <2>2 DEF Release, Transient
<1>6. ASSUME port' = port PROVE Turns(port, port')
  BY <1>6 DEF Turns
<1>7. CASE Destroy(t, n)
  <2>1. \/ "Receive" \in R /\ \E S, Q : Terminate(S, Q, o)
        \/ "PortSet" \in R /\ port' = [port EXCEPT ![o] = "dead"]
        \/ port' = port \/ \E S : Release(S, o)
    BY <1>7 DEF Destroy, o, R
  <2> QED
    BY <1>3, <1>4, <1>5, <1>6, <2>1
<1>8. ASSUME NEW r \in {"Receive", "PortSet", "SendOnce"}, DropWhole(t, n, r)
      PROVE  Turns(port, port')
  <2>1. \/ "Receive" \in R /\ \E S, Q : Terminate(S, Q, o)
        \/ "PortSet" \in R /\ port' = [port EXCEPT ![o] = "dead"]
        \/ port' = port
    BY <1>8 DEF DropWhole, o, R
  <2> QED
    BY <1>3, <1>4, <1>6, <2>1
<1>9. ASSUME NEW r, NEW k, ModRefs(t, n, r, k) PROVE Turns(port, port')
  <2>1. port' = port \/ \E S : Release(S, o)
    BY <1>9 DEF ModRefs, o
  <2> QED
    BY <1>5, <1>6, <2>1
<1> QED
  BY <1>7, <1>8, <1>9

\* A connection is closed, or a process has gone.
LEMMA GoneTurns ==
  ASSUME NamesHere, Exits, NEW t \in Tasks, ExitEnds(t) \/ \E n \in Names : ServiceClose(t, n)
  PROVE  Turns(port, port')
<1>1. port \in [Objects -> Ports]
  BY DEF NamesHere, NamesInv, Typed
<1>2. ASSUME NEW n \in Names, ServiceClose(t, n) PROVE Turns(port, port')
  <2>1. PICK o : port[o] = "kernel" /\ port' = [port EXCEPT ![o] = "closed"]
    BY <1>2 DEF ServiceClose, Transient
  <2> QED
    BY <1>1, <2>1 DEF Turns
<1>3. ASSUME ExitEnds(t) PROVE Turns(port, port')
  <2>1. CASE port[self[t]] \in Live
    <3>1. PICK S, Q, o : Terminate(S, Q, o) /\ port[o] \in Live
      BY <1>3, <2>1 DEF ExitEnds
    <3> QED
      BY <1>1, <3>1, EndsTurn
  <2>2. CASE port[self[t]] \notin Live
    BY <1>3, <2>2 DEF ExitEnds, Turns
  <2> QED
    BY <2>1, <2>2
<1> QED
  BY <1>2, <1>3

\* The other steps leave the ports alone.
LEMMA StepTurns == NamespaceInv /\ [Next]_vars => Turns(port, port')
<1> SUFFICES ASSUME NamespaceInv, [Next]_vars PROVE Turns(port, port')
  OBVIOUS
<1>1. NamesHere /\ Exits
  BY DEF NamespaceInv, NamesHere
<1>2. ASSUME port' = port PROVE Turns(port, port')
  BY <1>2 DEF Turns
<1>3. ASSUME NEW o \in Objects, NEW t \in Tasks
      PROVE  \A r \in PortRights : PortCopyout(t, o, r) => Turns(port, port')
  BY <1>2 DEF PortCopyout
<1>4. ASSUME NEW o \in Objects, NEW t \in Tasks, CopyoutOfDead(t, o) PROVE Turns(port, port')
  BY <1>2, <1>4 DEF CopyoutOfDead
<1>5. ASSUME NEW t \in Tasks, NEW n \in Names,
             \/ \E r \in PortRights : MoveRight(t, n, r)
             \/ \E m \in Names : Rename(t, n, m)
             \/ RequestDeadName(t, n) \/ ForgetRequest(t, n)
      PROVE  Turns(port, port')
  <2>1. port' = port
    BY <1>5 DEF MoveRight, Rename, RequestDeadName, ForgetRequest
  <2> QED
    BY <1>2, <2>1
<1>6. ASSUME NEW t \in Tasks, NEW n \in Names, DestroyName(t, n) \/ ExitDestroys(t, n)
      PROVE  Turns(port, port')
  <2>1. Destroy(t, n)
    BY <1>6 DEF DestroyName, ExitDestroys
  <2> QED
    BY <1>1, <2>1, LossTurns
<1>7. ASSUME NEW t \in Tasks, Exit(t) PROVE Turns(port, port')
  BY <1>2, <1>7 DEF Exit
<1>8. ASSUME NEW t \in Tasks, NEW n \in Names,
             \/ \E r \in {"Receive", "PortSet", "SendOnce"} : DropWhole(t, n, r)
             \/ \E r \in {"Send", "DeadName"}, delta \in {-2, -1, 1} : ModRefs(t, n, r, delta)
      PROVE  Turns(port, port')
  BY <1>1, <1>8, LossTurns
<1>9. ASSUME NEW t \in Tasks, ExitEnds(t) \/ \E n \in Names : ServiceClose(t, n)
      PROVE  Turns(port, port')
  BY <1>1, <1>9, GoneTurns
<1>10. ASSUME NEW o \in Objects, KernelCreates(o) \/ TerminateUnowned(o) \/ ReleaseHeld(o)
       PROVE  Turns(port, port')
  BY <1>1, <1>10, KernelTurns
<1>11. ASSUME NEW o \in Objects, NEW t \in Tasks,
              \/ \E special \in Objects \cup {NoObject}, n \in Names,
                    parent \in Tasks \cup {NoObject} : CreateTask(t, o, special, n, parent)
              \/ \E r \in {"Receive", "PortSet", "DeadName"} : PortAllocate(t, o, r)
       PROVE  Turns(port, port')
  BY <1>1, <1>11, MadeTurns
<1>12. ASSUME NEW o \in Objects, NEW t \in Tasks, NEW r \in PortRights, NEW n \in Names,
              InsertRight(t, n, o, r)
       PROVE  Turns(port, port')
  BY <1>1, <1>12, InsertTurns
<1>13. CASE Next
  BY <1>3, <1>4, <1>5, <1>6, <1>7, <1>8, <1>9, <1>10, <1>11, <1>12, <1>13 DEF Next
<1>14. CASE UNCHANGED vars
  BY <1>2, <1>14 DEF vars
<1> QED
  BY <1>13, <1>14

\* A port never comes back: the names that turned into dead names are to a port
\* that stays dead, and none ends without having been alive
\* (terminate_receive_object_locked, release_unreferenced_iokit_object_locked,
\* IOServiceClose, destroy_port_name_locked).
THEOREM PortsDieOnce == Spec => PortsEndOnce
<1>1. NamespaceInv /\ [Next]_vars => [\A o \in Objects :
          \/ port'[o] = port[o]
          \/ port[o] = "unborn" /\ port'[o] # "closed"
          \/ port[o] \in {"guest", "kernel", "set"} /\ port'[o] \in {"dead", "closed"}]_vars
  BY StepTurns DEF Turns
<1> QED
  BY <1>1, NamespaceInvariant, PTL DEF Spec, PortsEndOnce
=============================================================================
