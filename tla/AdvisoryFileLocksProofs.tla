------------------------ MODULE AdvisoryFileLocksProofs ------------------------
(* Locks of one file exclude each other for any number of processes,       *)
(* threads, descriptions and bytes, and implement ByteLockTable.           *)
EXTENDS AdvisoryFileLocks, TLAPS

(* The registry as the bytes each owner holds, and how.                    *)
Within(b, r) == r.start <= b /\ b < r.end
Holds(R, o, b, k) == \E c \in R : c.owner = o /\ c.kind = k /\ Within(b, c)

ByteExclusion(R) ==
    \A p, q \in Owners, b \in Bytes, k, l \in Kinds :
        p # q /\ Holds(R, p, b, k) /\ Holds(R, q, b, l) => ~Conflict(k, l)
Excludes(L) ==
    /\ L.exclusive # None => L.shared = {}
    /\ ByteExclusion(L.records)

(* A description that no descriptor and no blocked call refers to has left *)
(* nothing in the registry.                                                *)
OwnsNothing(L, d) ==
    L.exclusive # d /\ d \notin L.shared /\ \A c \in L.records : c.owner # d
DeadOwnNothing == \A d \in Dead(refs, wait) : OwnsNothing(locks, d)

FileInv == TypeOK /\ Excludes(locks) /\ DeadOwnNothing

-----------------------------------------------------------------------------
(* Ranges and requests.                                                    *)

\* The whole file is one of its ranges.
LEMMA WholeType == Whole \in AllRanges
BY FileLockAssumption DEF Whole, AllRanges, Bytes, Eof

\* What a caller may ask for: an owner, a kind and a range that is not empty.
LEMMA RequestType ==
  ASSUME NEW t \in Threads, NEW q \in Asks[t]
  PROVE  /\ q.desc \in Descriptions
         /\ q.owner \in Owners
         /\ q.owner \in {q.desc, ProcessOf[t]}
         /\ q.kind \in Kinds
         /\ q.range \in AllRanges
<1>1. q \in Requests(ProcessOf[t])
  BY FileLockAssumption
<1> QED
  BY <1>1 DEF Requests

\* Two ranges that are not empty overlap exactly when they share a byte.
LEMMA OverlapByte ==
  ASSUME NEW r, NEW s,
         r.start \in Bytes, r.end \in 1..Eof, r.start < r.end,
         s.start \in Bytes, s.end \in 1..Eof, s.start < s.end
  PROVE  Overlap(r, s) <=> \E b \in Bytes : Within(b, r) /\ Within(b, s)
<1>1. /\ LastByte \in Nat /\ Eof \in Nat
      /\ r.start \in Nat /\ r.end \in Nat /\ s.start \in Nat /\ s.end \in Nat
  BY FileLockAssumption DEF Bytes, Eof
<1>2. ASSUME Overlap(r, s) PROVE \E b \in Bytes : Within(b, r) /\ Within(b, s)
  <2>1. CASE r.start <= s.start
    BY <1>1, <1>2, <2>1 DEF Overlap, Within
  <2>2. CASE s.start <= r.start
    BY <1>1, <1>2, <2>2 DEF Overlap, Within
  <2> QED
    BY <1>1, <2>1, <2>2
<1>3. ASSUME NEW b \in Bytes, Within(b, r), Within(b, s) PROVE Overlap(r, s)
  <2>1. b \in Nat
    BY <1>1 DEF Bytes
  <2> QED
    BY <1>1, <1>3, <2>1 DEF Overlap, Within
<1> QED
  BY <1>2, <1>3

\* A record covers at least one byte and is well typed.
LEMMA RecordType ==
  ASSUME NEW c \in Records
  PROVE  /\ c.owner \in Owners /\ c.kind \in Kinds
         /\ c.start \in Bytes /\ c.end \in 1..Eof /\ c.start < c.end
BY DEF Records

\* Records of different owners exclude each other by range exactly when they
\* do so by byte.
LEMMA ByteExclusionExact ==
  ASSUME NEW R \in SUBSET Records
  PROVE  ByteExclusion(R) <=>
            \A b, c \in R : b.owner # c.owner /\ Overlap(b, c) => ~Conflict(b.kind, c.kind)
<1>1. ASSUME ByteExclusion(R), NEW b \in R, NEW c \in R, b.owner # c.owner, Overlap(b, c)
      PROVE  ~Conflict(b.kind, c.kind)
  <2>1. PICK x \in Bytes : Within(x, b) /\ Within(x, c)
    BY <1>1, RecordType, OverlapByte
  <2>2. Holds(R, b.owner, x, b.kind) /\ Holds(R, c.owner, x, c.kind)
    BY <2>1 DEF Holds
  <2> QED
    BY <1>1, <2>2, RecordType DEF ByteExclusion
<1>2. ASSUME \A b, c \in R : b.owner # c.owner /\ Overlap(b, c) => ~Conflict(b.kind, c.kind)
      PROVE  ByteExclusion(R)
  <2> SUFFICES ASSUME NEW p \in Owners, NEW q \in Owners, NEW x \in Bytes,
                      NEW k \in Kinds, NEW l \in Kinds,
                      p # q, Holds(R, p, x, k), Holds(R, q, x, l)
               PROVE  ~Conflict(k, l)
    BY DEF ByteExclusion
  <2>1. PICK b \in R : b.owner = p /\ b.kind = k /\ Within(x, b)
    BY DEF Holds
  <2>2. PICK c \in R : c.owner = q /\ c.kind = l /\ Within(x, c)
    BY DEF Holds
  <2>3. Overlap(b, c)
    BY <2>1, <2>2, RecordType, OverlapByte
  <2> QED
    BY <1>2, <2>1, <2>2, <2>3
<1> QED
  BY <1>1, <1>2

-----------------------------------------------------------------------------
(* Splitting and replacing ranges, by byte.                                *)

\* Carving an owner's range out leaves records: whole ones, and what was
\* before or after the range.
LEMMA CarveType ==
  ASSUME NEW R \in SUBSET Records, NEW o \in Owners, NEW r \in AllRanges
  PROVE  Carve(R, o, r) \in SUBSET Records
<1> DEFINE Mine == {c \in R : c.owner = o /\ Overlap(c, r)}
<1>1. r.start \in Bytes /\ r.end \in 1..Eof /\ LastByte \in Nat
  BY FileLockAssumption DEF AllRanges
<1>2. ASSUME NEW c \in Mine, c.start < r.start
      PROVE  Record(o, c.kind, c.start, r.start) \in Records
  <2>1. c.kind \in Kinds /\ c.start \in Bytes
    BY RecordType
  <2>2. r.start \in 1..Eof
    BY <1>1, <1>2, <2>1 DEF Bytes, Eof
  <2> QED
    BY <1>2, <2>1, <2>2 DEF Record, Records
<1>3. ASSUME NEW c \in Mine, r.end < c.end
      PROVE  Record(o, c.kind, r.end, c.end) \in Records
  <2>1. c.kind \in Kinds /\ c.end \in 1..Eof
    BY RecordType
  <2>2. r.end \in Bytes
    BY <1>1, <1>3, <2>1 DEF Bytes, Eof
  <2> QED
    BY <1>3, <2>1, <2>2 DEF Record, Records
<1> QED
  BY <1>2, <1>3 DEF Carve

\* A record splits at a range into what is before it, what is in it and what
\* is after it.
LEMMA SplitAtRange ==
  ASSUME NEW c \in Records, NEW r \in AllRanges, NEW b \in Bytes, Within(b, c), ~Within(b, r)
  PROVE  \/ ~Overlap(c, r)
         \/ c.start < r.start /\ b < r.start
         \/ r.end < c.end /\ r.end <= b
<1>1. /\ r.start \in Bytes /\ r.end \in 1..Eof /\ LastByte \in Nat
      /\ c.start \in Bytes /\ c.end \in 1..Eof
  BY FileLockAssumption, RecordType DEF AllRanges
<1> QED
  BY <1>1 DEF Overlap, Within, Bytes, Eof

\* What is left of an owner after carving is what it held outside the range;
\* other owners keep theirs.
LEMMA CarveHolds ==
  ASSUME NEW R \in SUBSET Records, NEW o \in Owners, NEW r \in AllRanges,
         NEW q \in Owners, NEW b \in Bytes, NEW k \in Kinds
  PROVE  Holds(Carve(R, o, r), q, b, k) <=> Holds(R, q, b, k) /\ ~(q = o /\ Within(b, r))
<1> DEFINE Mine == {c \in R : c.owner = o /\ Overlap(c, r)}
           Before == {Record(o, c.kind, c.start, r.start) : c \in {d \in Mine : d.start < r.start}}
           After == {Record(o, c.kind, r.end, c.end) : c \in {d \in Mine : r.end < d.end}}
<1>1. Carve(R, o, r) = (R \ Mine) \cup Before \cup After
  BY DEF Carve
<1>2. /\ r.start \in Bytes /\ r.end \in 1..Eof /\ r.start < r.end /\ LastByte \in Nat
      /\ b \in Nat
  BY FileLockAssumption DEF AllRanges, Bytes
<1>3. ASSUME Holds(Carve(R, o, r), q, b, k)
      PROVE  Holds(R, q, b, k) /\ ~(q = o /\ Within(b, r))
  <2>1. PICK x \in Carve(R, o, r) : x.owner = q /\ x.kind = k /\ Within(b, x)
    BY <1>3 DEF Holds
  <2>2. CASE x \in R \ Mine
    <3>1. ~(q = o /\ Within(b, r))
      BY <1>2, <2>1, <2>2, RecordType, OverlapByte DEF AllRanges
    <3> QED
      BY <2>1, <2>2, <3>1 DEF Holds
  <2>3. CASE x \in Before
    <3>1. PICK c \in Mine : c.start < r.start /\ x = Record(o, c.kind, c.start, r.start)
      BY <2>3
    <3>2. q = o /\ c.kind = k /\ c.start <= b /\ b < r.start
      BY <2>1, <3>1 DEF Record, Within
    <3>3. b < c.end
      BY <1>2, <3>1, <3>2, RecordType DEF Overlap, Bytes, Eof
    <3> QED
      BY <1>2, <3>1, <3>2, <3>3 DEF Holds, Within, Bytes
  <2>4. CASE x \in After
    <3>1. PICK c \in Mine : r.end < c.end /\ x = Record(o, c.kind, r.end, c.end)
      BY <2>4
    <3>2. q = o /\ c.kind = k /\ r.end <= b /\ b < c.end
      BY <2>1, <3>1 DEF Record, Within
    <3>3. c.start <= b
      BY <1>2, <3>1, <3>2, RecordType DEF Overlap, Bytes, Eof
    <3> QED
      BY <1>2, <3>1, <3>2, <3>3 DEF Holds, Within, Eof
  <2> QED
    BY <1>1, <2>1, <2>2, <2>3, <2>4
<1>4. ASSUME Holds(R, q, b, k), ~(q = o /\ Within(b, r))
      PROVE  Holds(Carve(R, o, r), q, b, k)
  <2>1. PICK c \in R : c.owner = q /\ c.kind = k /\ Within(b, c)
    BY <1>4 DEF Holds
  <2>2. CASE c \notin Mine
    BY <1>1, <2>1, <2>2 DEF Holds
  <2>3. CASE c \in Mine
    <3>1. q = o /\ ~Within(b, r) /\ Overlap(c, r)
      BY <1>4, <2>1, <2>3
    <3>2. CASE c.start < r.start /\ b < r.start
      <4>1. Record(o, c.kind, c.start, r.start) \in Carve(R, o, r)
        BY <1>1, <2>3, <3>2
      <4> QED
        BY <2>1, <3>1, <3>2, <4>1 DEF Holds, Record, Within
    <3>3. CASE r.end < c.end /\ r.end <= b
      <4>1. Record(o, c.kind, r.end, c.end) \in Carve(R, o, r)
        BY <1>1, <2>3, <3>3
      <4> QED
        BY <2>1, <3>1, <3>3, <4>1 DEF Holds, Record, Within
    <3> QED
      BY <2>1, <3>1, <3>2, <3>3, SplitAtRange
  <2> QED
    BY <2>2, <2>3
<1> QED
  BY <1>3, <1>4

\* Setting a range gives the owner its bytes in the new way, and changes no
\* others.
LEMMA SetHolds ==
  ASSUME NEW L \in Registries, NEW o \in Owners, NEW r \in AllRanges, NEW k \in Kinds
  PROVE  /\ SetRecord(L, o, r, k) \in Registries
         /\ SetRecord(L, o, r, k).exclusive = L.exclusive
         /\ SetRecord(L, o, r, k).shared = L.shared
         /\ \A q \in Owners, b \in Bytes, l \in Kinds :
               Holds(SetRecord(L, o, r, k).records, q, b, l) <=>
                  IF q = o /\ Within(b, r) THEN l = k ELSE Holds(L.records, q, b, l)
<1> DEFINE New == Record(o, k, r.start, r.end)
<1>1. /\ SetRecord(L, o, r, k).records = Carve(L.records, o, r) \cup {New}
      /\ SetRecord(L, o, r, k).exclusive = L.exclusive
      /\ SetRecord(L, o, r, k).shared = L.shared
      /\ L.records \in SUBSET Records
  BY DEF SetRecord, Registries
<1>2. New \in Records
  BY DEF Record, Records, AllRanges
<1>3. Carve(L.records, o, r) \in SUBSET Records
  BY <1>1, CarveType
<1>4. SetRecord(L, o, r, k) \in Registries
  BY <1>1, <1>2, <1>3 DEF SetRecord, Registries
<1>5. ASSUME NEW q \in Owners, NEW b \in Bytes, NEW l \in Kinds
      PROVE  Holds(SetRecord(L, o, r, k).records, q, b, l) <=>
                IF q = o /\ Within(b, r) THEN l = k ELSE Holds(L.records, q, b, l)
  <2>1. Holds(SetRecord(L, o, r, k).records, q, b, l) <=>
           \/ Holds(Carve(L.records, o, r), q, b, l)
           \/ New.owner = q /\ New.kind = l /\ Within(b, New)
    BY <1>1 DEF Holds
  <2>2. New.owner = o /\ New.kind = k /\ (Within(b, New) <=> Within(b, r))
    BY DEF Record, Within
  <2> QED
    BY <1>1, <2>1, <2>2, CarveHolds
<1> QED
  BY <1>1, <1>4, <1>5

\* Unlocking a range takes the owner's bytes in it, and no others.
LEMMA UnlockHolds ==
  ASSUME NEW L \in Registries, NEW o \in Owners, NEW r \in AllRanges
  PROVE  /\ UnlockRecords(L, o, r) \in Registries
         /\ UnlockRecords(L, o, r).exclusive = L.exclusive
         /\ UnlockRecords(L, o, r).shared = L.shared
         /\ \A q \in Owners, b \in Bytes, l \in Kinds :
               Holds(UnlockRecords(L, o, r).records, q, b, l) <=>
                  Holds(L.records, q, b, l) /\ ~(q = o /\ Within(b, r))
<1>1. /\ UnlockRecords(L, o, r).records = Carve(L.records, o, r)
      /\ UnlockRecords(L, o, r).exclusive = L.exclusive
      /\ UnlockRecords(L, o, r).shared = L.shared
      /\ L.records \in SUBSET Records
  BY DEF UnlockRecords, Registries
<1>2. UnlockRecords(L, o, r) \in Registries
  BY <1>1, CarveType DEF UnlockRecords, Registries
<1> QED
  BY <1>1, <1>2, CarveHolds

\* Destroying descriptions takes what they own and nothing else.
LEMMA DestructHolds ==
  ASSUME NEW L \in Registries, NEW D \in SUBSET Descriptions
  PROVE  /\ Destruct(L, D) \in Registries
         /\ Destruct(L, D).exclusive = IF L.exclusive \in D THEN None ELSE L.exclusive
         /\ Destruct(L, D).shared = L.shared \ D
         /\ \A d \in D : OwnsNothing(Destruct(L, D), d)
         /\ \A d \in Descriptions : OwnsNothing(L, d) => OwnsNothing(Destruct(L, D), d)
         /\ \A q \in Owners, b \in Bytes, k \in Kinds :
               Holds(Destruct(L, D).records, q, b, k) <=> Holds(L.records, q, b, k) /\ q \notin D
<1>1. /\ Destruct(L, D).exclusive = IF L.exclusive \in D THEN None ELSE L.exclusive
      /\ Destruct(L, D).shared = L.shared \ D
      /\ Destruct(L, D).records = {c \in L.records : c.owner \notin D}
  BY DEF Destruct
<1>2. Destruct(L, D) \in Registries
  BY DEF Destruct, Registries
<1>3. None \notin D
  BY FileLockAssumption
<1>4. \A d \in D : OwnsNothing(Destruct(L, D), d)
  BY <1>1, <1>3 DEF OwnsNothing
<1>5. \A d \in Descriptions : OwnsNothing(L, d) => OwnsNothing(Destruct(L, D), d)
  BY <1>1, FileLockAssumption DEF OwnsNothing
<1>6. \A q \in Owners, b \in Bytes, k \in Kinds :
         Holds(Destruct(L, D).records, q, b, k) <=> Holds(L.records, q, b, k) /\ q \notin D
  BY <1>1 DEF Holds
<1> QED
  BY <1>1, <1>2, <1>4, <1>5, <1>6

\* The scan of the list of records asks whether another owner holds a byte of
\* the range in a way that excludes the request.
LEMMA FreeHolds ==
  ASSUME NEW R \in SUBSET Records, NEW o \in Owners, NEW r \in AllRanges, NEW k \in Kinds
  PROVE  (\A c \in R : c.owner # o /\ Overlap(c, r) => ~Conflict(c.kind, k)) <=>
            \A q \in Owners \ {o}, b \in Bytes, l \in Kinds :
               Within(b, r) /\ Holds(R, q, b, l) => ~Conflict(l, k)
<1>0. r.start \in Bytes /\ r.end \in 1..Eof /\ r.start < r.end
  BY DEF AllRanges
<1>1. ASSUME \A c \in R : c.owner # o /\ Overlap(c, r) => ~Conflict(c.kind, k),
             NEW q \in Owners \ {o}, NEW b \in Bytes, NEW l \in Kinds,
             Within(b, r), Holds(R, q, b, l)
      PROVE  ~Conflict(l, k)
  <2>1. PICK c \in R : c.owner = q /\ c.kind = l /\ Within(b, c)
    BY <1>1 DEF Holds
  <2>2. Overlap(c, r)
    BY <1>0, <1>1, <2>1, RecordType, OverlapByte
  <2> QED
    BY <1>1, <2>1, <2>2
<1>2. ASSUME \A q \in Owners \ {o}, b \in Bytes, l \in Kinds :
                Within(b, r) /\ Holds(R, q, b, l) => ~Conflict(l, k),
             NEW c \in R, c.owner # o, Overlap(c, r)
      PROVE  ~Conflict(c.kind, k)
  <2>1. PICK b \in Bytes : Within(b, c) /\ Within(b, r)
    BY <1>0, <1>2, RecordType, OverlapByte
  <2>2. Holds(R, c.owner, b, c.kind)
    BY <2>1 DEF Holds
  <2> QED
    BY <1>2, <2>1, <2>2, RecordType
<1> QED
  BY <1>1, <1>2

-----------------------------------------------------------------------------
(* The operations of the registry keep it well formed and exclusive.       *)

\* try_acquire and release leave a registry of the same shape.
LEMMA FlockType ==
  ASSUME NEW L \in Registries, NEW d \in Descriptions, NEW k \in Kinds
  PROVE  /\ SetFlock(L, d, k) \in Registries
         /\ SetFlock(L, d, k).records = L.records
         /\ k = "shared" => /\ SetFlock(L, d, k).exclusive = None
                            /\ SetFlock(L, d, k).shared = L.shared \cup {d}
         /\ k # "shared" => /\ SetFlock(L, d, k).exclusive = d
                            /\ SetFlock(L, d, k).shared = L.shared \ {d}
         /\ ReleaseFlock(L, d) \in Registries
         /\ ReleaseFlock(L, d).records = L.records
         /\ ReleaseFlock(L, d).exclusive = IF L.exclusive = d THEN None ELSE L.exclusive
         /\ ReleaseFlock(L, d).shared = L.shared \ {d}
BY DEF SetFlock, ReleaseFlock, Registries

\* A lock that is granted leaves a registry in which no two owners' locks
\* exclude each other.
LEMMA TakenExcludes ==
  ASSUME TypeOK, Excludes(locks), NEW t \in Threads, NEW q \in Asks[t], Grantable(q)
  PROVE  Taken(q) \in Registries /\ Excludes(Taken(q))
<1>1. locks \in Registries /\ locks.records \in SUBSET Records
  BY DEF TypeOK, Registries
<1>2. /\ q.desc \in Descriptions /\ q.owner \in Owners
      /\ q.kind \in Kinds /\ q.range \in AllRanges
  BY RequestType
<1>3. CASE q.what = "flock"
  <2> DEFINE L == SetFlock(locks, q.desc, q.kind)
  <2>1. /\ L \in Registries /\ L.records = locks.records
        /\ q.kind = "shared" => L.exclusive = None
        /\ q.kind # "shared" => L.shared = locks.shared \ {q.desc}
    BY <1>1, <1>2, FlockType
  <2>2. q.kind = "exclusive" => locks.shared \subseteq {q.desc}
    BY <1>3 DEF Grantable, FlockFree
  <2> HIDE DEF L
  <2>3. L.exclusive # None => L.shared = {}
    BY <1>2, <2>1, <2>2 DEF Kinds
  <2>4. Taken(q) = L
    BY <1>3 DEF Taken, L
  <2> QED
    BY <2>1, <2>3, <2>4 DEF Excludes
<1>4. CASE q.what # "flock"
  <2> DEFINE L == SetRecord(locks, q.owner, q.range, q.kind)
  <2>1. /\ L \in Registries /\ L.exclusive = locks.exclusive /\ L.shared = locks.shared
        /\ \A p \in Owners, b \in Bytes, l \in Kinds :
              Holds(L.records, p, b, l) <=>
                 IF p = q.owner /\ Within(b, q.range) THEN l = q.kind
                 ELSE Holds(locks.records, p, b, l)
    BY <1>1, <1>2, SetHolds
  <2>2. \A p \in Owners \ {q.owner}, b \in Bytes, l \in Kinds :
           Within(b, q.range) /\ Holds(locks.records, p, b, l) => ~Conflict(l, q.kind)
    BY <1>1, <1>2, <1>4, FreeHolds DEF Grantable, RecordFree
  <2>3. ByteExclusion(locks.records)
    BY DEF Excludes
  <2> HIDE DEF L
  <2>4. ByteExclusion(L.records)
    BY <2>1, <2>2, <2>3, <1>2 DEF ByteExclusion, Conflict
  <2>5. Taken(q) = L
    BY <1>4 DEF Taken, L
  <2> QED
    BY <2>1, <2>4, <2>5 DEF Excludes
<1> QED
  BY <1>3, <1>4

\* Giving locks up excludes nobody.
LEMMA LessExcludes ==
  ASSUME NEW L \in Registries, Excludes(L), NEW M \in Registries,
         M.exclusive \in {L.exclusive, None}, M.shared \subseteq L.shared,
         \A q \in Owners, b \in Bytes, k \in Kinds :
            Holds(M.records, q, b, k) => Holds(L.records, q, b, k)
  PROVE  Excludes(M)
BY DEF Excludes, ByteExclusion

\* Destroying descriptions keeps the exclusion.
LEMMA DestructExcludes ==
  ASSUME NEW L \in Registries, Excludes(L), NEW D \in SUBSET Descriptions
  PROVE  Excludes(Destruct(L, D))
<1> DEFINE M == Destruct(L, D)
<1>1. /\ M \in Registries
      /\ M.exclusive \in {L.exclusive, None} /\ M.shared \subseteq L.shared
      /\ \A q \in Owners, b \in Bytes, k \in Kinds :
            Holds(M.records, q, b, k) => Holds(L.records, q, b, k)
  BY DestructHolds
<1> HIDE DEF M
<1>2. Excludes(M)
  BY <1>1, LessExcludes
<1> QED
  BY <1>2 DEF M

\* Unlocking a range keeps the exclusion.
LEMMA UnlockExcludes ==
  ASSUME NEW L \in Registries, Excludes(L), NEW o \in Owners, NEW r \in AllRanges
  PROVE  Excludes(UnlockRecords(L, o, r))
<1> DEFINE M == UnlockRecords(L, o, r)
<1>1. /\ M \in Registries
      /\ M.exclusive \in {L.exclusive, None} /\ M.shared \subseteq L.shared
      /\ \A q \in Owners, b \in Bytes, k \in Kinds :
            Holds(M.records, q, b, k) => Holds(L.records, q, b, k)
  BY UnlockHolds
<1> HIDE DEF M
<1>2. Excludes(M)
  BY <1>1, LessExcludes
<1> QED
  BY <1>2 DEF M

\* Carving leaves records of owners that had records.
LEMMA CarveOwners ==
  ASSUME NEW R, NEW o, NEW r, NEW c \in Carve(R, o, r)
  PROVE  \E b \in R : b.owner = c.owner
<1> DEFINE Mine == {x \in R : x.owner = o /\ Overlap(x, r)}
<1>1. CASE c \in R \ Mine
  BY <1>1
<1>2. CASE c \in {Record(o, x.kind, x.start, r.start) : x \in {d \in Mine : d.start < r.start}}
  BY <1>2 DEF Record
<1>3. CASE c \in {Record(o, x.kind, r.end, x.end) : x \in {d \in Mine : r.end < d.end}}
  BY <1>3 DEF Record
<1> QED
  BY <1>1, <1>2, <1>3 DEF Carve

\* Giving up a range gives no owner anything.
LEMMA UnlockOwns ==
  ASSUME NEW L \in Registries, NEW o, NEW r, NEW d \in Descriptions, OwnsNothing(L, d)
  PROVE  OwnsNothing(UnlockRecords(L, o, r), d)
<1>1. /\ UnlockRecords(L, o, r).records = Carve(L.records, o, r)
      /\ UnlockRecords(L, o, r).exclusive = L.exclusive
      /\ UnlockRecords(L, o, r).shared = L.shared
  BY DEF UnlockRecords, Registries
<1> QED
  BY <1>1, CarveOwners DEF OwnsNothing

\* A lock is granted to its owner only.
LEMMA TakenOwns ==
  ASSUME TypeOK, NEW t \in Threads, NEW q \in Asks[t],
         NEW d \in Descriptions, d # q.desc, OwnsNothing(locks, d)
  PROVE  OwnsNothing(Taken(q), d)
<1>1. q.owner # d /\ q.desc \in Descriptions /\ q.kind \in Kinds /\ locks \in Registries
  BY RequestType, FileLockAssumption DEF TypeOK
<1>2. CASE q.what = "flock"
  <2> DEFINE L == SetFlock(locks, q.desc, q.kind)
  <2>1. /\ L.records = locks.records
        /\ L.exclusive \in {None, q.desc} /\ L.shared \subseteq locks.shared \cup {q.desc}
    BY <1>1, FlockType
  <2>2. Taken(q) = L
    BY <1>2 DEF Taken
  <2> QED
    BY <2>1, <2>2, FileLockAssumption DEF OwnsNothing
<1>3. CASE q.what # "flock"
  <2>1. Taken(q) = SetRecord(locks, q.owner, q.range, q.kind)
    BY <1>3 DEF Taken
  <2>2. /\ Taken(q).records = Carve(locks.records, q.owner, q.range)
                             \cup {Record(q.owner, q.kind, q.range.start, q.range.end)}
        /\ Taken(q).exclusive = locks.exclusive
        /\ Taken(q).shared = locks.shared
    BY <1>1, <2>1 DEF SetRecord, Registries
  <2> QED
    BY <1>1, <2>2, CarveOwners DEF OwnsNothing, Record
<1> QED
  BY <1>2, <1>3

\* A step that destroys the dead descriptions leaves them nothing.
LEMMA DestroyDead ==
  ASSUME NEW L \in Registries, Excludes(L), locks' = Destruct(L, Dead(refs', wait'))
  PROVE  locks' \in Registries /\ Excludes(locks)' /\ DeadOwnNothing'
<1> DEFINE D == Dead(refs', wait')
<1>1. D \in SUBSET Descriptions
  BY DEF Dead
<1>2. /\ Destruct(L, D) \in Registries /\ Excludes(Destruct(L, D))
      /\ \A d \in D : OwnsNothing(Destruct(L, D), d)
  BY <1>1, DestructHolds, DestructExcludes
<1>3. Excludes(locks')
  BY <1>2
<1> QED
  BY <1>2, <1>3 DEF DeadOwnNothing, Excludes, ByteExclusion, Holds

\* A step after which no more descriptions are dead, and which gives those
\* that are dead nothing, keeps them without locks.
LEMMA StayDead ==
  ASSUME DeadOwnNothing, Dead(refs', wait') \subseteq Dead(refs, wait),
         \A d \in Dead(refs', wait') : OwnsNothing(locks, d) => OwnsNothing(locks', d)
  PROVE  DeadOwnNothing'
BY DEF DeadOwnNothing

-----------------------------------------------------------------------------
(* Every step keeps the types.                                             *)

\* The request of a blocked caller is one its thread makes.
LEMMA WaitType ==
  ASSUME TypeOK, NEW t \in Threads, wait[t] # None
  PROVE  wait[t] \in Asks[t] /\ wait[t].desc \in Descriptions
<1>1. wait[t] \in Asks[t]
  BY DEF TypeOK
<1> QED
  BY <1>1, RequestType

\* Ending waits leaves the others as they were.
LEMMA EndedType ==
  ASSUME TypeOK, NEW U \in SUBSET Threads,
         wait' = [t \in Threads |-> IF t \in U THEN None ELSE wait[t]]
  PROVE  /\ wait' \in [Threads -> {None} \cup UNION {Asks[t] : t \in Threads}]
         /\ \A t \in Threads : wait'[t] \in {None} \cup Asks[t]
         /\ cached \ U \subseteq {t \in Threads : wait'[t] # None}
BY DEF TypeOK

-----------------------------------------------------------------------------
(* Every step keeps the invariant.                                         *)

\* No lock is held when the file is first opened.
LEMMA InitInv == Init => FileInv
<1> SUFFICES ASSUME Init PROVE FileInv
  OBVIOUS
<1>1. locks \in Registries
  BY DEF Init, Registries
<1>2. /\ wait \in [Threads -> {None} \cup UNION {Asks[t] : t \in Threads}]
      /\ \A t \in Threads : wait[t] \in {None} \cup Asks[t]
  BY DEF Init
<1>3. TypeOK
  BY <1>1, <1>2, FileLockAssumption DEF Init, TypeOK
<1>4. Excludes(locks)
  BY DEF Init, Excludes, ByteExclusion, Holds
<1>5. DeadOwnNothing
  BY FileLockAssumption DEF Init, DeadOwnNothing, OwnsNothing, Dead
<1> QED
  BY <1>3, <1>4, <1>5 DEF FileInv

\* A lock that is granted at once.
LEMMA InvLock ==
  ASSUME FileInv, NEW t \in Threads, NEW q \in Asks[t], Lock(t, q)
  PROVE  FileInv'
<1>1. TypeOK /\ Excludes(locks) /\ DeadOwnNothing
  BY DEF FileInv
<1>2. /\ Grantable(q) /\ locks' = Taken(q) /\ ProcessOf[t] \in refs[q.desc]
      /\ refs' = refs /\ live' = live /\ wait' = wait /\ cached' = cached
  BY DEF Lock
<1>3. locks' \in Registries /\ Excludes(locks')
  BY <1>1, <1>2, TakenExcludes
<1>4. TypeOK'
  BY <1>1, <1>2, <1>3 DEF TypeOK
<1>5. \A d \in Dead(refs', wait') : OwnsNothing(locks, d) => OwnsNothing(locks', d)
  BY <1>1, <1>2, TakenOwns DEF Dead
<1>6. DeadOwnNothing'
  BY <1>1, <1>2, <1>5, StayDead
<1> QED
  BY <1>3, <1>4, <1>6 DEF FileInv, Excludes, ByteExclusion, Holds

\* A caller that has to wait.
LEMMA InvLockBlocks ==
  ASSUME FileInv, NEW t \in Threads, NEW q \in Asks[t], LockBlocks(t, q)
  PROVE  FileInv'
<1>1. TypeOK /\ Excludes(locks) /\ DeadOwnNothing
  BY DEF FileInv
<1>2. /\ wait[t] = None /\ wait' = [wait EXCEPT ![t] = q]
      /\ refs' = refs /\ live' = live /\ locks' = locks /\ cached' = cached
  BY DEF LockBlocks, Runs
<1>3. /\ wait' \in [Threads -> {None} \cup UNION {Asks[u] : u \in Threads}]
      /\ \A u \in Threads : wait'[u] \in {None} \cup Asks[u]
      /\ \A u \in Threads : u # t => wait'[u] = wait[u]
  BY <1>1, <1>2 DEF TypeOK
<1>4. cached' \subseteq {u \in Threads : wait'[u] # None}
  BY <1>1, <1>2, <1>3 DEF TypeOK
<1>5. TypeOK'
  BY <1>1, <1>2, <1>3, <1>4 DEF TypeOK
<1>6. Dead(refs', wait') \subseteq Dead(refs, wait)
  BY <1>2, <1>3 DEF Dead
<1>7. DeadOwnNothing'
  BY <1>1, <1>2, <1>6, StayDead
<1> QED
  BY <1>1, <1>2, <1>5, <1>7 DEF FileInv, Excludes, ByteExclusion, Holds

\* A step that only gives locks up, and announces it.
LEMMA InvGivesUp ==
  ASSUME FileInv, NEW L, locks' = L, L \in Registries, Excludes(L),
         \A d \in Descriptions : OwnsNothing(locks, d) => OwnsNothing(L, d),
         cached' = {}, UNCHANGED <<refs, live, wait>>
  PROVE  FileInv'
<1>1. TypeOK'
  BY DEF FileInv, TypeOK
<1>2. \A d \in Dead(refs', wait') : OwnsNothing(locks, d) => OwnsNothing(locks', d)
  BY DEF Dead
<1>3. DeadOwnNothing'
  BY <1>2, StayDead DEF FileInv
<1> QED
  BY <1>1, <1>3 DEF FileInv, Excludes, ByteExclusion, Holds

\* flock(LOCK_UN).
LEMMA InvUnlockFlock ==
  ASSUME FileInv, NEW t \in Threads, NEW d \in Descriptions, UnlockFlock(t, d)
  PROVE  FileInv'
<1> DEFINE L == ReleaseFlock(locks, d)
<1>1. locks \in Registries /\ Excludes(locks)
  BY DEF FileInv, TypeOK
<1>2. /\ L \in Registries /\ L.records = locks.records
      /\ L.exclusive = IF locks.exclusive = d THEN None ELSE locks.exclusive
      /\ L.shared = locks.shared \ {d}
  BY <1>1 DEF ReleaseFlock, Registries
<1> HIDE DEF L
<1>3. Excludes(L)
  BY <1>1, <1>2 DEF Excludes
<1>4. \A e \in Descriptions : OwnsNothing(locks, e) => OwnsNothing(L, e)
  BY <1>2, FileLockAssumption DEF OwnsNothing
<1>5. locks' = L /\ cached' = {} /\ UNCHANGED <<refs, live, wait>>
  BY DEF UnlockFlock, L
<1> QED
  BY <1>2, <1>3, <1>4, <1>5, InvGivesUp

\* fcntl with F_UNLCK.
LEMMA InvUnlock ==
  ASSUME FileInv, NEW t \in Threads, NEW d \in Descriptions, NEW o \in Owners,
         NEW r \in Ranges, Unlock(t, d, o, r)
  PROVE  FileInv'
<1> DEFINE L == UnlockRecords(locks, o, r)
<1>1. locks \in Registries /\ Excludes(locks) /\ r \in AllRanges
  BY FileLockAssumption DEF FileInv, TypeOK
<1>2. L \in Registries /\ Excludes(L)
  BY <1>1, UnlockHolds, UnlockExcludes
<1>3. \A e \in Descriptions : OwnsNothing(locks, e) => OwnsNothing(L, e)
  BY <1>1, UnlockOwns
<1>4. locks' = L /\ cached' = {} /\ UNCHANGED <<refs, live, wait>>
  BY DEF Unlock
<1> HIDE DEF L
<1> QED
  BY <1>2, <1>3, <1>4, InvGivesUp

\* The closing of descriptors, by close or by exec.
LEMMA InvClosed ==
  ASSUME FileInv, NEW p \in Processes, NEW C \in SUBSET Descriptions, Closed(p, C, wait')
  PROVE  /\ refs' \in [Descriptions -> SUBSET Processes]
         /\ locks' \in Registries /\ Excludes(locks)' /\ DeadOwnNothing'
<1> DEFINE L == IF C = {} THEN locks ELSE UnlockRecords(locks, p, Whole)
<1>1. locks \in Registries /\ Excludes(locks) /\ p \in Owners
  BY DEF FileInv, TypeOK, Owners
<1>2. L \in Registries /\ Excludes(L)
  BY <1>1, WholeType, UnlockHolds, UnlockExcludes
<1>3. refs' = [d \in Descriptions |-> IF d \in C THEN refs[d] \ {p} ELSE refs[d]]
  BY DEF Closed
<1>4. locks' = Destruct(L, Dead(refs', wait'))
  BY <1>3 DEF Closed
<1> HIDE DEF L
<1>5. refs' \in [Descriptions -> SUBSET Processes]
  BY <1>3 DEF FileInv, TypeOK
<1> QED
  BY <1>2, <1>4, <1>5, DestroyDead

\* A wait that ends, with or without the lock.
LEMMA InvEndWait ==
  ASSUME FileInv, NEW t \in Threads, NEW L \in Registries, Excludes(L), EndWait(t, L)
  PROVE  FileInv'
<1>1. TypeOK
  BY DEF FileInv
<1>2. /\ wait' = [wait EXCEPT ![t] = None] /\ cached' = cached \ {t}
      /\ refs' = refs /\ live' = live
      /\ locks' = Destruct(L, Dead(refs', wait'))
  BY DEF EndWait
<1>3. wait' = [u \in Threads |-> IF u \in {t} THEN None ELSE wait[u]]
  BY <1>1, <1>2 DEF TypeOK
<1>4. locks' \in Registries /\ Excludes(locks)' /\ DeadOwnNothing'
  BY <1>2, DestroyDead
<1>5. TypeOK'
  BY <1>1, <1>2, <1>3, <1>4, EndedType DEF TypeOK
<1> QED
  BY <1>4, <1>5 DEF FileInv

\* close.
LEMMA InvClose ==
  ASSUME FileInv, NEW t \in Threads, NEW d \in Descriptions, Close(t, d)
  PROVE  FileInv'
<1>1. TypeOK /\ ProcessOf[t] \in Processes
  BY FileLockAssumption DEF FileInv
<1>2. /\ Closed(ProcessOf[t], {d}, wait')
      /\ wait' = wait /\ live' = live /\ cached' = {}
  BY DEF Close
<1>3. /\ refs' \in [Descriptions -> SUBSET Processes]
      /\ locks' \in Registries /\ Excludes(locks)' /\ DeadOwnNothing'
  BY <1>1, <1>2, InvClosed
<1>4. TypeOK'
  BY <1>1, <1>2, <1>3 DEF TypeOK
<1> QED
  BY <1>3, <1>4 DEF FileInv

\* exec ends the waits of the process and closes some of its descriptors.
LEMMA InvExec ==
  ASSUME FileInv, NEW t \in Threads, NEW C \in SUBSET Descriptions, Exec(t, C)
  PROVE  FileInv'
<1> DEFINE U == {u \in Threads : ProcessOf[u] = ProcessOf[t]}
<1>1. TypeOK /\ ProcessOf[t] \in Processes
  BY FileLockAssumption DEF FileInv
<1>2. /\ Closed(ProcessOf[t], C, wait')
      /\ wait' = [u \in Threads |-> IF u \in U THEN None ELSE wait[u]]
      /\ live' = live
      /\ cached' \subseteq cached \ U
  BY <1>1 DEF Exec, TypeOK
<1>3. /\ refs' \in [Descriptions -> SUBSET Processes]
      /\ locks' \in Registries /\ Excludes(locks)' /\ DeadOwnNothing'
  BY <1>1, <1>2, InvClosed
<1>4. /\ wait' \in [Threads -> {None} \cup UNION {Asks[u] : u \in Threads}]
      /\ \A u \in Threads : wait'[u] \in {None} \cup Asks[u]
      /\ cached \ U \subseteq {u \in Threads : wait'[u] # None}
  BY <1>1, <1>2, EndedType
<1>5. TypeOK'
  BY <1>1, <1>2, <1>3, <1>4 DEF TypeOK
<1> QED
  BY <1>3, <1>5 DEF FileInv

\* exit_process gives up the records and the descriptors of the process.
LEMMA InvExit ==
  ASSUME FileInv, NEW p \in Processes, Exit(p)
  PROVE  FileInv'
<1> DEFINE L == [locks EXCEPT !.records = {c \in @ : c.owner # p}]
<1>1. TypeOK /\ locks \in Registries /\ Excludes(locks)
  BY DEF FileInv, TypeOK
<1>2. /\ L \in Registries /\ L.exclusive = locks.exclusive /\ L.shared = locks.shared
      /\ L.records = {c \in locks.records : c.owner # p}
  BY <1>1 DEF Registries
<1>3. /\ refs' = [d \in Descriptions |-> refs[d] \ {p}]
      /\ live' = live \ {p} /\ cached' = {} /\ wait' = wait
      /\ locks' = Destruct(L, Dead(refs', wait'))
  BY DEF Exit
<1> HIDE DEF L
<1>4. \A q \in Owners, b \in Bytes, k \in Kinds :
         Holds(L.records, q, b, k) => Holds(locks.records, q, b, k)
  BY <1>2 DEF Holds
<1>5. Excludes(L)
  BY <1>1, <1>2, <1>4, LessExcludes
<1>6. locks' \in Registries /\ Excludes(locks)' /\ DeadOwnNothing'
  BY <1>2, <1>3, <1>5, DestroyDead
<1>7. TypeOK'
  BY <1>1, <1>3, <1>6 DEF TypeOK
<1> QED
  BY <1>6, <1>7 DEF FileInv

\* The destruction of an exited process ends the waits of its threads.
LEMMA InvReap ==
  ASSUME FileInv, NEW p \in Processes, Reap(p)
  PROVE  FileInv'
<1> DEFINE U == {u \in Threads : ProcessOf[u] = p}
<1>1. TypeOK /\ locks \in Registries /\ Excludes(locks)
  BY DEF FileInv, TypeOK
<1>2. /\ wait' = [u \in Threads |-> IF u \in U THEN None ELSE wait[u]]
      /\ cached' = cached \ U /\ refs' = refs /\ live' = live
      /\ locks' = Destruct(locks, Dead(refs', wait'))
  BY <1>1 DEF Reap, TypeOK
<1>3. /\ wait' \in [Threads -> {None} \cup UNION {Asks[u] : u \in Threads}]
      /\ \A u \in Threads : wait'[u] \in {None} \cup Asks[u]
      /\ cached \ U \subseteq {u \in Threads : wait'[u] # None}
  BY <1>1, <1>2, EndedType
<1>4. locks' \in Registries /\ Excludes(locks)' /\ DeadOwnNothing'
  BY <1>1, <1>2, DestroyDead
<1>5. TypeOK'
  BY <1>1, <1>2, <1>3, <1>4 DEF TypeOK
<1> QED
  BY <1>4, <1>5 DEF FileInv

\* A descriptor that another process gets.
LEMMA InvShare ==
  ASSUME FileInv, NEW t \in Threads, NEW d \in Descriptions, NEW p \in Processes,
         Share(t, d, p)
  PROVE  FileInv'
<1>1. TypeOK /\ Excludes(locks) /\ DeadOwnNothing
  BY DEF FileInv
<1>2. /\ refs' = [refs EXCEPT ![d] = @ \cup {p}]
      /\ live' = live /\ locks' = locks /\ wait' = wait /\ cached' = cached
  BY DEF Share
<1>3. TypeOK'
  BY <1>1, <1>2 DEF TypeOK
<1>4. Dead(refs', wait') \subseteq Dead(refs, wait)
  BY <1>1, <1>2 DEF Dead, TypeOK
<1>5. DeadOwnNothing'
  BY <1>1, <1>2, <1>4, StayDead
<1> QED
  BY <1>1, <1>2, <1>3, <1>5 DEF FileInv, Excludes, ByteExclusion, Holds

\* The polls of a blocked caller, and the ends of its wait.
LEMMA InvWaits ==
  ASSUME FileInv, NEW t \in Threads,
         CompleteLock(t) \/ TimeOut(t) \/ Interrupt(t) \/ RetireThread(t)
  PROVE  FileInv'
<1>1. TypeOK /\ locks \in Registries /\ Excludes(locks) /\ wait[t] # None
  BY DEF FileInv, TypeOK, CompleteLock, PollRequired, TimeOut, Interrupt, RetireThread
<1>2. Grantable(wait[t]) => Taken(wait[t]) \in Registries /\ Excludes(Taken(wait[t]))
  BY <1>1, WaitType, TakenExcludes
<1>3. CASE Grantable(wait[t]) /\ EndWait(t, Taken(wait[t]))
  BY <1>2, <1>3, InvEndWait
<1>4. CASE EndWait(t, locks)
  BY <1>1, <1>4, InvEndWait
<1> QED
  BY <1>3, <1>4 DEF CompleteLock, TimeOut, Interrupt, RetireThread

\* A step that changes nothing but the cache of polls.
LEMMA InvCache ==
  ASSUME FileInv, UNCHANGED <<refs, live, locks, wait>>,
         cached' \subseteq {t \in Threads : wait[t] # None}
  PROVE  FileInv'
<1>1. TypeOK'
  BY DEF FileInv, TypeOK
<1> QED
  BY <1>1 DEF FileInv, Excludes, ByteExclusion, Holds, DeadOwnNothing, OwnsNothing, Dead

\* Every step keeps the invariant.
LEMMA InvStep == FileInv /\ [Next]_vars => FileInv'
<1> SUFFICES ASSUME FileInv, [Next]_vars PROVE FileInv'
  OBVIOUS
<1>1. ASSUME NEW t \in Threads, ObserveBusy(t) PROVE FileInv'
  BY <1>1, InvCache DEF ObserveBusy, FileInv, TypeOK
<1>2. CASE OtherEvent
  BY <1>2, InvCache DEF OtherEvent
<1>3. CASE UNCHANGED vars
  BY <1>3, InvCache DEF vars, FileInv, TypeOK
<1>4. ASSUME NEW t \in Threads,
             \/ \E q \in Asks[t] : Lock(t, q) \/ LockBlocks(t, q)
             \/ \E d \in Descriptions : UnlockFlock(t, d) \/ Close(t, d)
             \/ \E d \in Descriptions, o \in Owners, r \in Ranges : Unlock(t, d, o, r)
             \/ \E d \in Descriptions, p \in Processes : Share(t, d, p)
             \/ \E C \in SUBSET Descriptions : Exec(t, C)
      PROVE  FileInv'
  BY <1>4, InvLock, InvLockBlocks, InvUnlockFlock, InvClose, InvUnlock, InvShare, InvExec
<1> QED
  BY <1>1, <1>2, <1>3, <1>4, InvWaits, InvExit, InvReap DEF Next

-----------------------------------------------------------------------------
(* Theorems.                                                               *)

\* The registry's invariant holds whatever is called, blocked or closed.
THEOREM FileLocksInvariant == Spec => []FileInv
BY InitInv, InvStep, PTL DEF Spec

\* The state of the registry and of the blocked callers is well typed.
THEOREM TypeCorrect == Spec => []TypeOK
<1>1. FileInv => TypeOK
  BY DEF FileInv
<1> QED
  BY <1>1, FileLocksInvariant, PTL

\* No two owners hold locks that exclude each other (try_acquire and
\* set_record_lock).
THEOREM LocksExclude == Spec => []Exclusion
<1>1. FileInv => Exclusion
  <2> SUFFICES ASSUME FileInv PROVE Exclusion
    OBVIOUS
  <2>1. locks.records \in SUBSET Records
    BY DEF FileInv, TypeOK, Registries
  <2> QED
    BY <2>1, ByteExclusionExact DEF FileInv, Excludes, Exclusion
<1> QED
  BY <1>1, FileLocksInvariant, PTL

\* A description that nothing refers to any more has left no lock behind
\* (~RegularFileOpenDescription).
THEOREM ClosedOwnNothing == Spec => []DeadOwnNothing
<1>1. FileInv => DeadOwnNothing
  BY DEF FileInv
<1> QED
  BY <1>1, FileLocksInvariant, PTL

-----------------------------------------------------------------------------
(* The record locks implement a table of bytes.                            *)
How(R, o, b) ==
    IF Holds(R, o, b, "exclusive") THEN "exclusive"
    ELSE IF Holds(R, o, b, "shared") THEN "shared" ELSE "none"
Table(R) == [o \in Owners |-> [b \in Bytes |-> How(R, o, b)]]
RecordHeld == [o \in Owners |-> [b \in Bytes |-> HeldRecord(o, b)]]

(* From R to M, owner o's bytes in the range r are given up (k is "none")  *)
(* or held in the way k, and nothing else changes.                         *)
Changes(R, M, o, r, k) ==
    \A q \in Owners, b \in Bytes, l \in Kinds :
        Holds(M, q, b, l) <=> IF q = o /\ Within(b, r) THEN l = k ELSE Holds(R, q, b, l)
Admits(R, o, r, k) ==
    \A q \in Owners \ {o}, b \in Bytes, l \in Kinds :
        Within(b, r) /\ Holds(R, q, b, l) => ~Conflict(l, k)
Without(M, S, D) ==
    \A q \in Owners, b \in Bytes, l \in Kinds :
        Holds(S, q, b, l) <=> Holds(M, q, b, l) /\ q \notin D

\* How an owner holds a byte, read from the list of records.
LEMMA HeldRecordIs ==
  ASSUME NEW R \in SUBSET Records, NEW o, NEW b
  PROVE  How(R, o, b) = LET Mine == {c \in R : c.owner = o /\ c.start <= b /\ b < c.end}
                        IN  CASE Mine = {} -> "none"
                              [] \E c \in Mine : c.kind = "exclusive" -> "exclusive"
                              [] OTHER -> "shared"
<1> DEFINE Mine == {c \in R : c.owner = o /\ c.start <= b /\ b < c.end}
<1>1. \A c \in R : c.kind = "exclusive" \/ c.kind = "shared"
  BY RecordType DEF Kinds
<1>2. Holds(R, o, b, "exclusive") <=> \E c \in Mine : c.kind = "exclusive"
  BY DEF Holds, Within
<1>3. Holds(R, o, b, "shared") <=> \E c \in Mine : c.kind = "shared"
  BY DEF Holds, Within
<1>5. Mine # {} => \E c \in Mine : c.kind = "exclusive" \/ c.kind = "shared"
  BY <1>1
<1> SUFFICES How(R, o, b) = CASE Mine = {} -> "none"
                              [] \E c \in Mine : c.kind = "exclusive" -> "exclusive"
                              [] OTHER -> "shared"
  OBVIOUS
<1> HIDE DEF Mine
<1>6. CASE Mine = {}
  BY <1>2, <1>3, <1>6 DEF How
<1>7. CASE Mine # {} /\ \E c \in Mine : c.kind = "exclusive"
  BY <1>2, <1>7 DEF How
<1>8. CASE Mine # {} /\ ~\E c \in Mine : c.kind = "exclusive"
  BY <1>2, <1>3, <1>5, <1>8 DEF How
<1> QED
  BY <1>6, <1>7, <1>8

\* A call of one owner, perhaps with the end of some descriptions, is a call
\* of the table.
LEMMA RecordCall ==
  ASSUME NEW R, NEW M, NEW S, NEW D, NEW o \in Owners, NEW r, NEW k \in Kinds \cup {"none"},
         Changes(R, M, o, r, k), k # "none" => Admits(R, o, r, k), Without(M, S, D)
  PROVE  RecordTable!Call(Table(R), Table(S))
<1> DEFINE B == {b \in Bytes : Within(b, r)}
           h == Table(R)
           n == Table(S)
<1>1. ASSUME NEW q \in Owners, q \in D PROVE RecordTable!Keep(h, n, q)
  <2>1. \A b \in Bytes : How(S, q, b) = "none"
    BY <1>1 DEF How, Without, Kinds
  <2> QED
    BY <2>1 DEF RecordTable!Keep, RecordTable!NoBytes, Table
<1>2. ASSUME NEW q \in Owners, q # o, q \notin D PROVE RecordTable!Keep(h, n, q)
  <2>1. \A b \in Bytes : How(S, q, b) = How(R, q, b)
    BY <1>2 DEF How, Without, Changes, Kinds
  <2> QED
    BY <2>1 DEF RecordTable!Keep, Table
<1>3. ASSUME o \notin D PROVE n[o] = RecordTable!With(h[o], B, k)
  <2>1. ASSUME NEW b \in Bytes PROVE How(S, o, b) = IF b \in B THEN k ELSE How(R, o, b)
    BY <1>3 DEF How, Without, Changes, Kinds
  <2>2. n[o] = [b \in Bytes |-> How(S, o, b)] /\ h[o] = [b \in Bytes |-> How(R, o, b)]
    BY DEF Table
  <2> QED
    BY <2>1, <2>2 DEF RecordTable!With
<1>4. ASSUME k # "none", NEW q \in Owners \ {o}, NEW b \in B
      PROVE  RecordTable!Compatible(h[q][b], k)
  <2>1. h[q][b] = How(R, q, b)
    BY DEF Table
  <2>2. \A l \in Kinds : Holds(R, q, b, l) => ~Conflict(l, k)
    BY <1>4 DEF Admits
  <2> QED
    BY <1>4, <2>1, <2>2 DEF How, Conflict, Kinds, RecordTable!Compatible
<1>5. \A q \in Owners \ {o} : RecordTable!Keep(h, n, q)
  BY <1>1, <1>2
<1>6. CASE o \in D
  BY <1>1, <1>5, <1>6 DEF RecordTable!Call
<1>7. CASE o \notin D
  <2>1. B \in SUBSET Bytes
    OBVIOUS
  <2>2. CASE k = "none"
    <3>1. RecordTable!Drop(h, n, o, B)
      BY <1>3, <1>7, <2>2 DEF RecordTable!Drop
    <3> QED
      BY <1>5, <2>1, <3>1 DEF RecordTable!Call
  <2>3. CASE k # "none"
    <3>1. RecordTable!Take(h, n, o, B, k)
      BY <1>3, <1>4, <1>7, <2>3 DEF RecordTable!Take
    <3>2. k = "shared" \/ k = "exclusive"
      BY <2>3 DEF Kinds
    <3> QED
      BY <1>5, <2>1, <3>1, <3>2 DEF RecordTable!Call
  <2> QED
    BY <2>2, <2>3
<1> QED
  BY <1>6, <1>7

(* What one call does to the records, before descriptions end.             *)
Nowhere == [start |-> 0, end |-> 0]
Calls(R, M) ==
    \E o \in Owners, r \in AllRanges \cup {Nowhere}, k \in Kinds \cup {"none"} :
        Changes(R, M, o, r, k) /\ (k # "none" => Admits(R, o, r, k))

\* A call that leaves the records alone.
LEMMA CallsSame ==
  ASSUME NEW R, NEW o \in Owners
  PROVE  Calls(R, R)
<1>1. \A b \in Bytes : ~Within(b, Nowhere)
  BY FileLockAssumption DEF Within, Nowhere, Bytes
<1>2. Changes(R, R, o, Nowhere, "none")
  BY <1>1 DEF Changes
<1> QED
  BY <1>2 DEF Calls

\* A lock that is granted.
LEMMA CallsTaken ==
  ASSUME TypeOK, NEW t \in Threads, NEW q \in Asks[t], Grantable(q)
  PROVE  Calls(locks.records, Taken(q).records)
<1>1. /\ q.desc \in Descriptions /\ q.owner \in Owners
      /\ q.kind \in Kinds /\ q.range \in AllRanges
      /\ locks \in Registries /\ locks.records \in SUBSET Records
  BY RequestType DEF TypeOK, Registries
<1>2. CASE q.what = "flock"
  <2>1. Taken(q).records = locks.records
    BY <1>1, <1>2, FlockType DEF Taken
  <2> QED
    BY <1>1, <2>1, CallsSame
<1>3. CASE q.what # "flock"
  <2> DEFINE M == SetRecord(locks, q.owner, q.range, q.kind).records
  <2>1. Changes(locks.records, M, q.owner, q.range, q.kind)
    BY <1>1, SetHolds DEF Changes
  <2>2. Admits(locks.records, q.owner, q.range, q.kind)
    BY <1>1, <1>3, FreeHolds DEF Admits, Grantable, RecordFree
  <2>3. Taken(q).records = M
    BY <1>3 DEF Taken
  <2> HIDE DEF M
  <2> QED
    BY <1>1, <2>1, <2>2, <2>3 DEF Calls
<1> QED
  BY <1>2, <1>3

\* A range that is unlocked.
LEMMA CallsUnlock ==
  ASSUME TypeOK, NEW o \in Owners, NEW r \in AllRanges
  PROVE  Calls(locks.records, UnlockRecords(locks, o, r).records)
<1> DEFINE M == UnlockRecords(locks, o, r).records
<1>1. locks \in Registries
  BY DEF TypeOK
<1>2. \A q \in Owners, b \in Bytes, l \in Kinds :
         Holds(M, q, b, l) <=> Holds(locks.records, q, b, l) /\ ~(q = o /\ Within(b, r))
  BY <1>1, UnlockHolds
<1> HIDE DEF M
<1>3. Changes(locks.records, M, o, r, "none")
  BY <1>2 DEF Changes, Kinds
<1>4. Calls(locks.records, M)
  BY <1>3 DEF Calls
<1> QED
  BY <1>4 DEF M

\* Destroyed descriptions hold no bytes.
LEMMA DestructWithout ==
  ASSUME NEW L \in Registries, NEW D \in SUBSET Descriptions
  PROVE  Without(L.records, Destruct(L, D).records, D)
BY DestructHolds DEF Without

\* A step whose effect on the records is one call, and the end of some
\* descriptions, is a step of the table.
LEMMA SimulateRecords ==
  ASSUME TypeOK, TypeOK', NEW M, NEW D, Calls(locks.records, M),
         Without(M, locks'.records, D)
  PROVE  RecordTable!ANext
<1> DEFINE h == RecordHeld
<1>0. locks.records \in SUBSET Records /\ locks'.records \in SUBSET Records
  BY DEF TypeOK, Registries
<1>1. h = Table(locks.records)
  BY <1>0, HeldRecordIs DEF Table, HeldRecord, RecordHeld
<1>2. ASSUME NEW o, NEW b PROVE HeldRecord(o, b)' = How(locks'.records, o, b)
  BY <1>0, HeldRecordIs DEF HeldRecord
<1>3. h' = Table(locks'.records)
  BY <1>2 DEF Table, RecordHeld
<1>4. RecordTable!Call(Table(locks.records), Table(locks'.records))
  BY RecordCall DEF Calls
<1>5. RecordTable!Call(h, h')
  BY <1>1, <1>3, <1>4
<1> QED
  BY <1>5 DEF RecordTable!ANext, RecordHeld

-----------------------------------------------------------------------------
(* The two owner fields implement a table with one entry.                  *)
HowFlock(L, d) ==
    IF L.exclusive = d THEN "exclusive" ELSE IF d \in L.shared THEN "shared" ELSE "none"
FlockRow(L) == [d \in Descriptions |-> [b \in {0} |-> HowFlock(L, d)]]
FlockHeld == [d \in Descriptions |-> [b \in {0} |-> HeldFlock(d)]]

(* From L to M, description d's lock becomes m, and nothing else changes.  *)
FlockCalls(L, M) ==
    \E d \in Descriptions, m \in Kinds \cup {"none"} :
        /\ \A q \in Descriptions \ {d} : HowFlock(M, q) = HowFlock(L, q)
        /\ HowFlock(M, d) = m
        /\ \/ m \in {"none", HowFlock(L, d)}
           \/ \A q \in Descriptions \ {d} : FlockTable!Compatible(HowFlock(L, q), m)

\* A call about one description, perhaps with the end of some, is a call of
\* the table.
LEMMA FlockCall ==
  ASSUME NEW L, NEW M, NEW S, NEW D, FlockCalls(L, M),
         \A q \in Descriptions : HowFlock(S, q) = IF q \in D THEN "none" ELSE HowFlock(M, q)
  PROVE  FlockTable!Call(FlockRow(L), FlockRow(S))
<1> DEFINE h == FlockRow(L)
           n == FlockRow(S)
<1>1. PICK d \in Descriptions, m \in Kinds \cup {"none"} :
        /\ \A q \in Descriptions \ {d} : HowFlock(M, q) = HowFlock(L, q)
        /\ HowFlock(M, d) = m
        /\ \/ m \in {"none", HowFlock(L, d)}
           \/ \A q \in Descriptions \ {d} : FlockTable!Compatible(HowFlock(L, q), m)
  BY DEF FlockCalls
<1>2. \A q \in Descriptions : h[q] = [b \in {0} |-> HowFlock(L, q)]
  BY DEF FlockRow
<1>3. \A q \in Descriptions : n[q] = [b \in {0} |-> HowFlock(S, q)]
  BY DEF FlockRow
<1> HIDE DEF h, n
<1>4. ASSUME NEW q \in Descriptions,
             HowFlock(S, q) = HowFlock(L, q) \/ HowFlock(S, q) = "none"
      PROVE  FlockTable!Keep(h, n, q)
  BY <1>2, <1>3, <1>4 DEF FlockTable!Keep, FlockTable!NoBytes
<1>5. \A q \in Descriptions \ {d} : FlockTable!Keep(h, n, q)
  BY <1>1, <1>4
<1>6. CASE d \in D \/ m \in {"none", HowFlock(L, d)}
  <2>1. FlockTable!Keep(h, n, d)
    BY <1>1, <1>4, <1>6
  <2> QED
    BY <1>5, <2>1 DEF FlockTable!Call, h, n
<1>7. CASE d \notin D /\ m \notin {"none", HowFlock(L, d)}
  <2>1. n[d] = FlockTable!With(h[d], {0}, m)
    BY <1>1, <1>3, <1>7 DEF FlockTable!With
  <2>2. \A q \in Descriptions \ {d}, b \in {0} : FlockTable!Compatible(h[q][b], m)
    BY <1>1, <1>2, <1>7
  <2>3. FlockTable!Take(h, n, d, {0}, m)
    BY <2>1, <2>2 DEF FlockTable!Take
  <2>4. m = "shared" \/ m = "exclusive"
    BY <1>7 DEF Kinds
  <2>5. {0} \in SUBSET {0}
    OBVIOUS
  <2> QED
    BY <1>5, <2>3, <2>4, <2>5 DEF FlockTable!Call, h, n
<1> QED
  BY <1>6, <1>7

\* A call that leaves the two fields alone.
LEMMA FlockSame ==
  ASSUME NEW L, NEW M, M.exclusive = L.exclusive, M.shared = L.shared, NEW d \in Descriptions
  PROVE  FlockCalls(L, M)
BY DEF FlockCalls, HowFlock, Kinds

\* A lock that is granted.
LEMMA FlockTaken ==
  ASSUME TypeOK, Excludes(locks), NEW t \in Threads, NEW q \in Asks[t], Grantable(q)
  PROVE  FlockCalls(locks, Taken(q))
<1>1. /\ q.desc \in Descriptions /\ q.owner \in Owners
      /\ q.kind \in Kinds /\ q.range \in AllRanges /\ locks \in Registries
  BY RequestType DEF TypeOK
<1>2. CASE q.what = "flock"
  <2> DEFINE M == SetFlock(locks, q.desc, q.kind)
             d == q.desc
  <2>1. /\ q.kind = "shared" => M.exclusive = None /\ M.shared = locks.shared \cup {d}
        /\ q.kind # "shared" => M.exclusive = d /\ M.shared = locks.shared \ {d}
    BY <1>1, FlockType
  <2>2. /\ locks.exclusive \in {None, d}
        /\ q.kind = "exclusive" => locks.shared \subseteq {d}
    BY <1>2 DEF Grantable, FlockFree
  <2>3. Taken(q) = M
    BY <1>2 DEF Taken
  <2> HIDE DEF M
  <2>4. \A e \in Descriptions \ {d} : HowFlock(M, e) = HowFlock(locks, e)
    BY <2>1, <2>2, FileLockAssumption DEF HowFlock
  <2>5. HowFlock(M, d) = q.kind
    BY <1>1, <2>1, FileLockAssumption DEF HowFlock, Kinds
  <2>6. \A e \in Descriptions \ {d} : FlockTable!Compatible(HowFlock(locks, e), q.kind)
    BY <1>1, <2>2, FileLockAssumption DEF HowFlock, Kinds, FlockTable!Compatible
  <2> QED
    BY <1>1, <2>3, <2>4, <2>5, <2>6 DEF FlockCalls
<1>3. CASE q.what # "flock"
  <2>1. Taken(q) = SetRecord(locks, q.owner, q.range, q.kind)
    BY <1>3 DEF Taken
  <2>2. Taken(q).exclusive = locks.exclusive /\ Taken(q).shared = locks.shared
    BY <1>1, <2>1 DEF SetRecord, Registries
  <2> QED
    BY <1>1, <2>2, FlockSame
<1> QED
  BY <1>2, <1>3

\* A step whose effect on the two fields is one call, and the end of some
\* descriptions, is a step of the table.
LEMMA SimulateFlock ==
  ASSUME Excludes(locks), Excludes(locks'), NEW M, NEW D, FlockCalls(locks, M),
         \A q \in Descriptions :
            HowFlock(locks', q) = IF q \in D THEN "none" ELSE HowFlock(M, q)
  PROVE  FlockTable!ANext
<1>1. FlockTable!Call(FlockRow(locks), FlockRow(locks'))
  BY FlockCall
<1>2. FlockHeld = FlockRow(locks)
  <2>1. ASSUME NEW d \in Descriptions PROVE HeldFlock(d) = HowFlock(locks, d)
    <3>1. CASE locks.exclusive = d
      BY <3>1, FileLockAssumption DEF Excludes, HeldFlock, HowFlock
    <3>2. CASE locks.exclusive # d /\ d \in locks.shared
      BY <3>2 DEF HeldFlock, HowFlock
    <3>3. CASE locks.exclusive # d /\ d \notin locks.shared
      BY <3>3 DEF HeldFlock, HowFlock
    <3> QED
      BY <3>1, <3>2, <3>3
  <2> QED
    BY <2>1 DEF FlockHeld, FlockRow
<1>3. FlockHeld' = FlockRow(locks')
  <2>1. ASSUME NEW d \in Descriptions PROVE HeldFlock(d)' = HowFlock(locks', d)
    <3>1. CASE locks'.exclusive = d
      BY <3>1, FileLockAssumption DEF Excludes, HeldFlock, HowFlock
    <3>2. CASE locks'.exclusive # d /\ d \in locks'.shared
      BY <3>2 DEF HeldFlock, HowFlock
    <3>3. CASE locks'.exclusive # d /\ d \notin locks'.shared
      BY <3>3 DEF HeldFlock, HowFlock
    <3> QED
      BY <3>1, <3>2, <3>3
  <2> QED
    BY <2>1 DEF FlockHeld, FlockRow
<1>4. FlockTable!Call(FlockHeld, FlockHeld')
  BY <1>1, <1>2, <1>3
<1> QED
  BY <1>4 DEF FlockTable!ANext, FlockHeld

-----------------------------------------------------------------------------
(* Every step of the registry is a step of both tables.                    *)
Simulates == [RecordTable!ANext]_RecordHeld /\ [FlockTable!ANext]_FlockHeld

\* A call, and the end of some descriptions.
LEMMA SimulateCall ==
  ASSUME FileInv, FileInv', NEW M \in Registries, NEW D \in SUBSET Descriptions,
         Calls(locks.records, M.records), Descriptions # {} => FlockCalls(locks, M),
         locks' = M \/ locks' = Destruct(M, D)
  PROVE  Simulates
<1>1. /\ TypeOK /\ TypeOK' /\ Excludes(locks) /\ Excludes(locks')
  BY DEF FileInv, Excludes, ByteExclusion, Holds
<1>2. PICK E \in SUBSET Descriptions :
         /\ Without(M.records, locks'.records, E)
         /\ \A q \in Descriptions :
               HowFlock(locks', q) = IF q \in E THEN "none" ELSE HowFlock(M, q)
  <2>1. CASE locks' = M
    <3>1. Without(M.records, locks'.records, {})
      BY <2>1 DEF Without
    <3>2. \A q \in Descriptions :
             HowFlock(locks', q) = IF q \in {} THEN "none" ELSE HowFlock(M, q)
      BY <2>1
    <3>3. {} \in SUBSET Descriptions
      OBVIOUS
    <3> QED
      BY <3>1, <3>2, <3>3
  <2>2. CASE locks' = Destruct(M, D)
    <3>1. Without(M.records, locks'.records, D)
      BY <2>2, DestructWithout
    <3>2. /\ locks'.exclusive = IF M.exclusive \in D THEN None ELSE M.exclusive
          /\ locks'.shared = M.shared \ D
      BY <2>2, DestructHolds
    <3>3. \A q \in Descriptions :
             HowFlock(locks', q) = IF q \in D THEN "none" ELSE HowFlock(M, q)
      BY <3>2, FileLockAssumption DEF HowFlock
    <3> QED
      BY <3>1, <3>3
  <2> QED
    BY <2>1, <2>2
<1>3. RecordTable!ANext
  BY <1>1, <1>2, SimulateRecords
<1>4. [FlockTable!ANext]_FlockHeld
  <2>1. CASE Descriptions = {}
    BY <2>1 DEF FlockHeld
  <2>2. CASE Descriptions # {}
    BY <1>1, <1>2, <2>2, SimulateFlock
  <2> QED
    BY <2>1, <2>2
<1> QED
  BY <1>3, <1>4 DEF Simulates

\* A step that gives no lock and takes none, except from descriptions that end.
LEMMA SimulateEnds ==
  ASSUME FileInv, FileInv', NEW o \in Owners, NEW D \in SUBSET Descriptions,
         locks' = locks \/ locks' = Destruct(locks, D)
  PROVE  Simulates
<1>1. locks \in Registries
  BY DEF FileInv, TypeOK
<1>2. Calls(locks.records, locks.records)
  BY CallsSame
<1>3. Descriptions # {} => FlockCalls(locks, locks)
  BY FlockSame
<1> QED
  BY <1>1, <1>2, <1>3, SimulateCall

\* A lock that is granted, at once or late.
LEMMA SimulateTaken ==
  ASSUME FileInv, FileInv', NEW t \in Threads, NEW q \in Asks[t], Grantable(q),
         NEW D \in SUBSET Descriptions,
         locks' = Taken(q) \/ locks' = Destruct(Taken(q), D)
  PROVE  Simulates
<1>1. TypeOK /\ Excludes(locks)
  BY DEF FileInv
<1>2. Taken(q) \in Registries
  BY <1>1, TakenExcludes
<1>3. Calls(locks.records, Taken(q).records) /\ FlockCalls(locks, Taken(q))
  BY <1>1, CallsTaken, FlockTaken
<1> QED
  BY <1>2, <1>3, SimulateCall

\* A range that is unlocked, by a call or by the closing of descriptors.
LEMMA SimulateUnlock ==
  ASSUME FileInv, FileInv', NEW o \in Owners, NEW r \in AllRanges,
         NEW D \in SUBSET Descriptions,
         \/ locks' = UnlockRecords(locks, o, r)
         \/ locks' = Destruct(UnlockRecords(locks, o, r), D)
  PROVE  Simulates
<1> DEFINE M == UnlockRecords(locks, o, r)
<1>1. TypeOK /\ locks \in Registries
  BY DEF FileInv, TypeOK
<1>2. M \in Registries /\ M.exclusive = locks.exclusive /\ M.shared = locks.shared
  BY <1>1, UnlockHolds
<1>3. Calls(locks.records, M.records)
  BY <1>1, CallsUnlock
<1>4. locks' = M \/ locks' = Destruct(M, D)
  OBVIOUS
<1> HIDE DEF M
<1>5. Descriptions # {} => FlockCalls(locks, M)
  BY <1>2, FlockSame
<1> QED
  BY <1>2, <1>3, <1>4, <1>5, SimulateCall

\* flock(LOCK_UN).
LEMMA SimulateUnlockFlock ==
  ASSUME FileInv, FileInv', NEW t \in Threads, NEW d \in Descriptions, UnlockFlock(t, d)
  PROVE  Simulates
<1> DEFINE M == ReleaseFlock(locks, d)
<1>1. /\ locks' = M /\ M \in Registries /\ M.records = locks.records
      /\ M.exclusive = IF locks.exclusive = d THEN None ELSE locks.exclusive
      /\ M.shared = locks.shared \ {d}
  BY DEF UnlockFlock, FileInv, TypeOK, ReleaseFlock, Registries
<1> HIDE DEF M
<1>2. HowFlock(M, d) = "none" /\ \A q \in Descriptions \ {d} : HowFlock(M, q) = HowFlock(locks, q)
  BY <1>1, FileLockAssumption DEF HowFlock
<1>3. FlockCalls(locks, M)
  BY <1>2 DEF FlockCalls
<1>4. d \in Owners
  BY DEF Owners
<1>5. Calls(locks.records, M.records)
  BY <1>1, <1>4, CallsSame
<1> QED
  BY <1>1, <1>3, <1>5, SimulateCall

\* The exit of a process gives up its records.
LEMMA SimulateExit ==
  ASSUME FileInv, FileInv', NEW p \in Processes, Exit(p)
  PROVE  Simulates
<1> DEFINE M == [locks EXCEPT !.records = {c \in @ : c.owner # p}]
           D == Dead(refs', wait)
<1>1. locks \in Registries /\ p \in Owners
  BY DEF FileInv, TypeOK, Owners
<1>2. /\ M \in Registries /\ M.exclusive = locks.exclusive /\ M.shared = locks.shared
      /\ M.records = {c \in locks.records : c.owner # p}
  BY <1>1 DEF Registries
<1>3. locks' = Destruct(M, D) /\ D \in SUBSET Descriptions
  BY DEF Exit, Dead
<1> HIDE DEF M
<1>4. \A b \in Bytes : Within(b, Whole)
  BY FileLockAssumption DEF Within, Whole, Bytes, Eof
<1>5. Changes(locks.records, M.records, p, Whole, "none")
  BY <1>2, <1>4 DEF Changes, Holds, Kinds
<1>6. Calls(locks.records, M.records)
  BY <1>1, <1>5, WholeType DEF Calls
<1>7. Descriptions # {} => FlockCalls(locks, M)
  BY <1>2, FlockSame
<1> HIDE DEF D
<1> QED
  BY <1>2, <1>3, <1>6, <1>7, SimulateCall

\* The closing of descriptors, by close or by exec.
LEMMA SimulateClosed ==
  ASSUME FileInv, FileInv', NEW p \in Processes, NEW C, NEW w, Closed(p, C, w)
  PROVE  Simulates
<1> DEFINE D == Dead(refs', w)
<1>1. locks' = Destruct(IF C = {} THEN locks ELSE UnlockRecords(locks, p, Whole), D)
  BY DEF Closed
<1>2. D \in SUBSET Descriptions /\ p \in Owners
  BY DEF Dead, Owners
<1> HIDE DEF D
<1>3. CASE C = {}
  BY <1>1, <1>2, <1>3, SimulateEnds
<1>4. CASE C # {}
  BY <1>1, <1>2, <1>4, WholeType, SimulateUnlock
<1> QED
  BY <1>3, <1>4

\* A wait that ends, with or without the lock.
LEMMA SimulateWaits ==
  ASSUME FileInv, FileInv', NEW t \in Threads,
         CompleteLock(t) \/ TimeOut(t) \/ Interrupt(t) \/ RetireThread(t)
  PROVE  Simulates
<1> DEFINE D == Dead(refs, wait')
<1>1. wait[t] # None
  BY DEF CompleteLock, PollRequired, TimeOut, Interrupt, RetireThread
<1>2. wait[t] \in Asks[t] /\ wait[t].desc \in Owners
  BY <1>1, WaitType DEF FileInv, Owners
<1>3. D \in SUBSET Descriptions
  BY DEF Dead
<1>4. \/ Grantable(wait[t]) /\ locks' = Destruct(Taken(wait[t]), D)
      \/ locks' = Destruct(locks, D)
  BY DEF CompleteLock, TimeOut, Interrupt, RetireThread, EndWait
<1> HIDE DEF D
<1> QED
  BY <1>2, <1>3, <1>4, SimulateTaken, SimulateEnds

\* A step that leaves the registry alone.
LEMMA SimulateNothing ==
  ASSUME FileInv, locks' = locks
  PROVE  Simulates
BY DEF Simulates, RecordHeld, FlockHeld, HeldRecord, HeldFlock

\* Every step is a step of both tables.
LEMMA SimulateStep ==
  ASSUME FileInv, FileInv', [Next]_vars
  PROVE  Simulates
<1>1. \A t \in Threads : ProcessOf[t] \in Processes /\ ProcessOf[t] \in Owners
  BY FileLockAssumption DEF Owners
<1>2. ASSUME NEW t \in Threads, NEW q \in Asks[t], Lock(t, q) PROVE Simulates
  BY <1>2, SimulateTaken DEF Lock
<1>3. ASSUME NEW t \in Threads, NEW d \in Descriptions, NEW o \in Owners, NEW r \in Ranges,
             Unlock(t, d, o, r) PROVE Simulates
  BY <1>3, SimulateUnlock, FileLockAssumption DEF Unlock
<1>4. ASSUME NEW t \in Threads, NEW d \in Descriptions, Close(t, d) PROVE Simulates
  BY <1>1, <1>4, SimulateClosed DEF Close
<1>5. ASSUME NEW t \in Threads, NEW C \in SUBSET Descriptions, Exec(t, C) PROVE Simulates
  BY <1>1, <1>5, SimulateClosed DEF Exec
<1>6. ASSUME NEW p \in Processes, Reap(p) PROVE Simulates
  <2>1. PICK D \in SUBSET Descriptions : locks' = Destruct(locks, D)
    BY <1>6 DEF Reap, Dead
  <2> QED
    BY <2>1, SimulateEnds DEF Owners
<1>7. ASSUME NEW t \in Threads,
             \/ \E q \in Asks[t] : LockBlocks(t, q)
             \/ \E d \in Descriptions, p \in Processes : Share(t, d, p)
             \/ ObserveBusy(t)
      PROVE  Simulates
  BY <1>7, SimulateNothing DEF LockBlocks, Share, ObserveBusy
<1>8. CASE OtherEvent \/ UNCHANGED vars
  BY <1>8, SimulateNothing DEF OtherEvent, vars
<1> QED
  BY <1>2, <1>3, <1>4, <1>5, <1>6, <1>7, <1>8, SimulateUnlockFlock, SimulateExit, SimulateWaits
     DEF Next

\* Nobody holds anything at first.
LEMMA SimulateInit == Init => RecordTable!AInit /\ FlockTable!AInit
<1> SUFFICES ASSUME Init PROVE RecordTable!AInit /\ FlockTable!AInit
  OBVIOUS
<1>1. locks.exclusive = None /\ locks.shared = {} /\ locks.records = {}
  BY DEF Init
<1>2. \A o \in Owners, b \in Bytes : HeldRecord(o, b) = "none"
  <2>1. \A o \in Owners, b \in Bytes : How({}, o, b) = "none"
    BY DEF How, Holds
  <2> QED
    BY <1>1, <2>1, HeldRecordIs DEF HeldRecord
<1>3. \A d \in Descriptions : HeldFlock(d) = "none"
  BY <1>1, FileLockAssumption DEF HeldFlock
<1> QED
  BY <1>2, <1>3 DEF RecordTable!AInit, FlockTable!AInit, RecordTable!NoBytes, FlockTable!NoBytes

\* Splitting and replacing ranges implements a table of bytes, and the two
\* owner fields a table with one entry.
THEOREM FileLocksImplement == Spec => Implements
<1>1. FileInv /\ FileInv' /\ [Next]_vars => [RecordTable!ANext]_RecordHeld
  BY SimulateStep DEF Simulates
<1>2. FileInv /\ FileInv' /\ [Next]_vars => [FlockTable!ANext]_FlockHeld
  BY SimulateStep DEF Simulates
<1> QED
  BY <1>1, <1>2, SimulateInit, FileLocksInvariant, PTL
     DEF Spec, Implements, RecordTable!ASpec, FlockTable!ASpec, RecordHeld, FlockHeld

-----------------------------------------------------------------------------
(* A caller that a step lets through is looked at again.                   *)
FreeIn(L, q) ==
    IF q.what = "flock"
    THEN /\ L.exclusive \in {None, q.desc}
         /\ q.kind = "exclusive" => L.shared \subseteq {q.desc}
    ELSE Admits(L.records, q.owner, q.range, q.kind)

\* Whether a request is granted, by byte.
LEMMA GrantableIs ==
  ASSUME TypeOK, NEW t \in Threads, NEW q \in Asks[t]
  PROVE  Grantable(q) <=> FreeIn(locks, q)
<1>1. /\ q.owner \in Owners /\ q.kind \in Kinds /\ q.range \in AllRanges
      /\ locks.records \in SUBSET Records
  BY RequestType DEF TypeOK, Registries
<1>2. CASE q.what = "flock"
  BY <1>2 DEF Grantable, FreeIn, FlockFree
<1>3. CASE q.what # "flock"
  BY <1>1, <1>3, FreeHolds DEF Grantable, FreeIn, RecordFree, Admits
<1> QED
  BY <1>2, <1>3

\* The same after a step.
LEMMA GrantableNext ==
  ASSUME TypeOK', NEW t \in Threads, wait'[t] \in Asks[t]
  PROVE  Grantable(wait[t])' <=> FreeIn(locks', wait'[t])
<1> DEFINE q == wait'[t]
<1>1. /\ q.owner \in Owners /\ q.kind \in Kinds /\ q.range \in AllRanges
      /\ locks'.records \in SUBSET Records
  BY RequestType DEF TypeOK, Registries
<1>2. CASE q.what = "flock"
  BY <1>2 DEF Grantable, FreeIn, FlockFree
<1>3. CASE q.what # "flock"
  BY <1>1, <1>3, FreeHolds DEF Grantable, FreeIn, RecordFree, Admits
<1> QED
  BY <1>2, <1>3

\* flock lets another caller through only if it converts to shared.
LEMMA FlockWeakens ==
  ASSUME FileInv, FileInv', NEW t \in Threads, NEW q \in Asks[t], Grantable(q),
         q.what = "flock", locks' = Taken(q),
         NEW u \in Threads, NEW r \in Asks[u], ~FreeIn(locks, r), FreeIn(locks', r)
  PROVE  Weakens
<1> DEFINE d == q.desc
<1>1. /\ d \in Descriptions /\ q.kind \in Kinds /\ r.desc \in Descriptions /\ r.kind \in Kinds
      /\ locks \in Registries
  BY RequestType DEF FileInv, TypeOK
<1>2. /\ locks.exclusive \in {None, d}
      /\ q.kind = "exclusive" => locks.shared \subseteq {d}
  BY DEF Grantable, FlockFree
<1>3. /\ q.kind = "shared" => locks'.exclusive = None /\ locks'.shared = locks.shared \cup {d}
      /\ q.kind # "shared" => locks'.exclusive = d /\ locks'.shared = locks.shared \ {d}
      /\ locks'.records = locks.records
  BY <1>1, FlockType DEF Taken
<1>4. r.what = "flock"
  BY <1>3 DEF FreeIn
<1>5. q.kind = "shared" /\ locks.exclusive = d
  BY <1>1, <1>2, <1>3, <1>4, FileLockAssumption DEF FreeIn, Kinds
<1>6. locks.shared = {} /\ None # d
  BY <1>1, <1>5, FileLockAssumption DEF FileInv, Excludes
<1>7. HeldFlock(d) = "exclusive"
  BY <1>5, <1>6 DEF HeldFlock
<1>8. HeldFlock(d)' = "shared"
  BY <1>3, <1>5, <1>6 DEF HeldFlock
<1> QED
  BY <1>1, <1>7, <1>8 DEF Weakens

\* fcntl lets another caller through only if it converts bytes to shared.
LEMMA RecordWeakens ==
  ASSUME FileInv, FileInv', NEW t \in Threads, NEW q \in Asks[t], Grantable(q),
         q.what # "flock", locks' = Taken(q),
         NEW u \in Threads, NEW r \in Asks[u], ~FreeIn(locks, r), FreeIn(locks', r)
  PROVE  Weakens
<1>1. /\ q.owner \in Owners /\ q.kind \in Kinds /\ q.range \in AllRanges
      /\ r.owner \in Owners /\ r.kind \in Kinds /\ r.range \in AllRanges
      /\ locks \in Registries
      /\ locks.records \in SUBSET Records /\ locks'.records \in SUBSET Records
  BY RequestType DEF FileInv, TypeOK, Registries
<1>2. /\ locks'.exclusive = locks.exclusive /\ locks'.shared = locks.shared
      /\ Changes(locks.records, locks'.records, q.owner, q.range, q.kind)
  BY <1>1, SetHolds DEF Taken, Changes
<1>3. r.what # "flock"
  BY <1>2 DEF FreeIn
<1>4. PICK p \in Owners \ {r.owner}, b \in Bytes, l \in Kinds :
         Within(b, r.range) /\ Holds(locks.records, p, b, l) /\ Conflict(l, r.kind)
  BY <1>3 DEF FreeIn, Admits
<1>5. \A k \in Kinds : Holds(locks'.records, p, b, k) => ~Conflict(k, r.kind)
  BY <1>3, <1>4 DEF FreeIn, Admits
<1>6. p = q.owner /\ Within(b, q.range)
  BY <1>1, <1>2, <1>4, <1>5 DEF Changes
<1>7. \A k \in Kinds : Holds(locks'.records, p, b, k) <=> k = q.kind
  BY <1>2, <1>6 DEF Changes
<1>8. q.kind = "shared" /\ l = "exclusive"
  BY <1>1, <1>4, <1>5, <1>7 DEF Conflict, Kinds
<1>9. How(locks.records, p, b) = "exclusive" /\ How(locks'.records, p, b) = "shared"
  BY <1>4, <1>7, <1>8 DEF How, Kinds
<1>10. HeldRecord(p, b) = "exclusive" /\ HeldRecord(p, b)' = "shared"
  BY <1>1, <1>9, HeldRecordIs DEF HeldRecord
<1> QED
  BY <1>10 DEF Weakens

\* What ends a description that owned nothing lets nobody through.
LEMMA DestructFrees ==
  ASSUME FileInv, locks' = Destruct(locks, Dead(refs, wait)),
         NEW u \in Threads, NEW r \in Asks[u], FreeIn(locks', r)
  PROVE  FreeIn(locks, r)
<1> DEFINE D == Dead(refs, wait)
<1>1. D \in SUBSET Descriptions /\ locks \in Registries /\ \A d \in D : OwnsNothing(locks, d)
  BY DEF Dead, FileInv, TypeOK, DeadOwnNothing
<1>2. /\ locks'.exclusive = IF locks.exclusive \in D THEN None ELSE locks.exclusive
      /\ locks'.shared = locks.shared \ D
      /\ locks'.records = {c \in locks.records : c.owner \notin D}
  BY DEF Destruct
<1> HIDE DEF D
<1>3. /\ locks'.exclusive = locks.exclusive /\ locks'.shared = locks.shared
      /\ locks'.records = locks.records
  BY <1>1, <1>2 DEF OwnsNothing
<1> QED
  BY <1>3 DEF FreeIn

\* A step that lets a blocked caller through has weakened a lock or ended
\* another wait, or has made its poll stale.
LEMMA WakesStep ==
  ASSUME FileInv, FileInv', [Next]_vars, NEW t \in cached',
         wait[t] # None, wait'[t] = wait[t], ~Grantable(wait[t]), Grantable(wait[t])'
  PROVE  Weakens \/ \E u \in Threads : wait[u] # None /\ wait'[u] = None
<1> DEFINE r == wait[t]
           Ends == \E u \in Threads : wait[u] # None /\ wait'[u] = None
<1>1. TypeOK /\ TypeOK' /\ t \in Threads
  BY DEF FileInv, TypeOK
<1>2. r \in Asks[t]
  BY <1>1, WaitType
<1>3. ~FreeIn(locks, r) /\ FreeIn(locks', r)
  BY <1>1, <1>2, GrantableIs, GrantableNext
<1>4. locks' # locks /\ cached' # {}
  BY <1>3
<1> HIDE DEF r
<1>5. ASSUME NEW u \in Threads, NEW q \in Asks[u], Lock(u, q) PROVE Weakens
  BY <1>1, <1>2, <1>3, <1>5, FlockWeakens, RecordWeakens DEF Lock
<1>6. ASSUME NEW u \in Threads,
             CompleteLock(u) \/ TimeOut(u) \/ Interrupt(u) \/ RetireThread(u)
      PROVE  Ends
  <2>1. wait[u] # None /\ wait' = [wait EXCEPT ![u] = None]
    BY <1>6 DEF CompleteLock, PollRequired, TimeOut, Interrupt, RetireThread, EndWait
  <2> QED
    BY <1>1, <2>1 DEF TypeOK
<1>7. ASSUME NEW p \in Processes, Reap(p) PROVE Ends
  <2>1. /\ wait' = [u \in Threads |-> IF ProcessOf[u] = p THEN None ELSE wait[u]]
        /\ wait' # wait
    BY <1>7 DEF Reap
  <2>2. wait \in [Threads -> {None} \cup UNION {Asks[u] : u \in Threads}]
    BY <1>1 DEF TypeOK
  <2>3. PICK u \in Threads : wait'[u] # wait[u]
    BY <2>1, <2>2
  <2> QED
    BY <2>1, <2>3
<1>8. ASSUME NEW v \in Threads, NEW C \in SUBSET Descriptions, Exec(v, C) PROVE Ends
  <2>1. C = {}
    BY <1>4, <1>8 DEF Exec
  <2>2. wait' = [u \in Threads |-> IF ProcessOf[u] = ProcessOf[v] THEN None ELSE wait[u]]
    BY <1>8 DEF Exec
  <2>3. wait \in [Threads -> {None} \cup UNION {Asks[u] : u \in Threads}]
        /\ refs \in [Descriptions -> SUBSET Processes]
    BY <1>1 DEF TypeOK
  <2>4. CASE wait' = wait
    <3>1. locks' = Destruct(locks, Dead([d \in Descriptions |-> refs[d]], wait'))
      BY <1>8, <2>1, <2>2 DEF Exec, Closed
    <3>2. [d \in Descriptions |-> refs[d]] = refs
      BY <2>3
    <3>3. locks' = Destruct(locks, Dead(refs, wait))
      BY <2>4, <3>1, <3>2
    <3> QED
      BY <1>1, <1>2, <1>3, <3>3, DestructFrees
  <2>5. CASE wait' # wait
    <3>1. PICK u \in Threads : wait'[u] # wait[u]
      BY <2>2, <2>3, <2>5
    <3> QED
      BY <2>2, <3>1
  <2> QED
    BY <2>4, <2>5
<1>9. ASSUME NEW u \in Threads,
             \/ \E q \in Asks[u] : LockBlocks(u, q)
             \/ \E d \in Descriptions : UnlockFlock(u, d) \/ Close(u, d)
             \/ \E d \in Descriptions, o \in Owners, x \in Ranges : Unlock(u, d, o, x)
             \/ \E d \in Descriptions, p \in Processes : Share(u, d, p)
             \/ ObserveBusy(u)
      PROVE  FALSE
  BY <1>4, <1>9 DEF LockBlocks, UnlockFlock, Close, Unlock, Share, ObserveBusy
<1>10. ASSUME NEW p \in Processes, Exit(p) PROVE FALSE
  BY <1>4, <1>10 DEF Exit
<1>11. CASE OtherEvent \/ UNCHANGED vars
  BY <1>4, <1>11 DEF OtherEvent, vars
<1> QED
  BY <1>5, <1>6, <1>7, <1>8, <1>9, <1>10, <1>11 DEF Next

\* A step that gives up a lock makes the kernel look again at every caller it
\* lets through (notify_io_event after unlock, close and exit).
THEOREM FileLocksWakeWaiters == Spec => WakesWaiters
<1>1. FileInv /\ FileInv' /\ [Next]_vars =>
         [\A t \in cached' :
             /\ wait[t] # None /\ wait'[t] = wait[t]
             /\ ~Grantable(wait[t]) /\ Grantable(wait[t])'
             => \/ Weakens
                \/ \E u \in Threads : wait[u] # None /\ wait'[u] = None]_vars
  BY WakesStep
<1> QED
  BY <1>1, FileLocksInvariant, PTL DEF Spec, WakesWaiters
=============================================================================
