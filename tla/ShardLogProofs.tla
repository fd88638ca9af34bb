--------------------------- MODULE ShardLogProofs ---------------------------
(***************************************************************************)
(* Proofs about ShardLog for every value of its constants.                 *)
(***************************************************************************)
EXTENDS ShardLog, SequenceTheorems, TLAPS

-----------------------------------------------------------------------------
(***************************************************************************)
(* The sequence helpers the cache is built from.                           *)
(***************************************************************************)

\* Cons puts one element in front: the list grows by one.
LEMMA ConsType ==
  ASSUME NEW S, NEW e \in S, NEW s \in Seq(S)
  PROVE  /\ Cons(e, s) \in Seq(S)
         /\ Len(Cons(e, s)) = Len(s) + 1
  <1>1. <<e>> \in Seq(S) /\ Len(<<e>>) = 1
    OBVIOUS
  <1>2. <<e>> \o s \in Seq(S)
    BY <1>1, ConcatProperties
  <1>3. Len(<<e>> \o s) = Len(s) + 1
    BY <1>1, ConcatProperties
  <1>4. QED
    BY <1>2, <1>3 DEF Cons

\* RemoveAt unlinks one element: the list shrinks by one.
LEMMA RemoveAtType ==
  ASSUME NEW S, NEW s \in Seq(S), NEW i \in 1..Len(s)
  PROVE  /\ RemoveAt(s, i) \in Seq(S)
         /\ Len(RemoveAt(s, i)) = Len(s) - 1
  <1>a. Len(s) \in Nat
    BY LenProperties
  <1>0. \A j \in 1..Len(s) : s[j] \in S
    BY ElementOfSeq
  <1>1. SubSeq(s, 1, i-1) \in Seq(S)
    BY <1>0, <1>a, SubSeqProperties
  <1>2. SubSeq(s, i+1, Len(s)) \in Seq(S)
    BY <1>0, <1>a, SubSeqProperties
  <1>3. Len(SubSeq(s, 1, i-1)) = i - 1
    BY <1>0, <1>a, SubSeqProperties
  <1>4. Len(SubSeq(s, i+1, Len(s))) = Len(s) - i
    BY <1>0, <1>a, SubSeqProperties
  <1>5. Len(SubSeq(s, 1, i-1) \o SubSeq(s, i+1, Len(s)))
          = Len(SubSeq(s, 1, i-1)) + Len(SubSeq(s, i+1, Len(s)))
    BY <1>1, <1>2, ConcatProperties
  <1>6. i \in Int /\ (i - 1) + (Len(s) - i) = Len(s) - 1
    BY <1>a
  <1>7. SubSeq(s, 1, i-1) \o SubSeq(s, i+1, Len(s)) \in Seq(S)
    BY <1>1, <1>2, ConcatProperties
  <1>8. Len(SubSeq(s, 1, i-1) \o SubSeq(s, i+1, Len(s))) = Len(s) - 1
    BY <1>3, <1>4, <1>5, <1>6
  <1>9. QED
    BY <1>7, <1>8 DEF RemoveAt

\* Front pops the back element of a non-empty list.
LEMMA FrontType ==
  ASSUME NEW S, NEW s \in Seq(S), Len(s) >= 1
  PROVE  /\ Front(s) \in Seq(S)
         /\ Len(Front(s)) = Len(s) - 1
  <1>0. Len(s) \in Nat /\ \A j \in 1..Len(s) - 1 : s[j] \in S
    BY LenProperties, ElementOfSeq
  <1>1. SubSeq(s, 1, Len(s) - 1) \in Seq(S)
    BY <1>0, SubSeqProperties
  <1>2. Len(SubSeq(s, 1, Len(s) - 1)) = IF 1 <= Len(s) - 1 THEN Len(s) - 1 ELSE 0
    BY <1>0, SubSeqProperties
  <1>a. Len(s) \in Nat
    BY LenProperties
  <1>3. Len(SubSeq(s, 1, Len(s) - 1)) = Len(s) - 1
    BY <1>a, <1>2
  <1>4. QED
    BY <1>1, <1>3 DEF Front

\* lruMap.find(k) succeeds exactly at a position of lruList holding k.
LEMMA SlotType ==
  ASSUME NEW c \in Seq(Entry), NEW k \in CachedKeys(c)
  PROVE  /\ Slot(c, k) \in 1..Len(c)
         /\ c[Slot(c, k)].key = k
  BY DEF CachedKeys, Slot

\* element->value of a cached key is a stored value.
LEMMA CacheValType ==
  ASSUME NEW c \in Seq(Entry), NEW k \in CachedKeys(c)
  PROVE  CacheVal(c, k) \in Values
  <1>1. Slot(c, k) \in 1..Len(c)
    BY SlotType
  <1>2. c[Slot(c, k)] \in Entry
    BY <1>1, ElementOfSeq
  <1>3. QED
    BY <1>2 DEF CacheVal, Entry

\* LRUCacheSegment::put keeps lruList a list of entries no longer than
\* the capacity it is given.
LEMMA CachePutType ==
  ASSUME NEW c \in Seq(Entry), NEW k \in Keys, NEW v \in Values,
         NEW cap \in Nat, Len(c) <= cap, cap >= 1
  PROVE  /\ CachePut(c, k, v, cap) \in Seq(Entry)
         /\ Len(CachePut(c, k, v, cap)) <= cap
  <1>0. [key |-> k, val |-> v] \in Entry /\ Len(c) \in Nat
    BY LenProperties DEF Entry
  <1>1. CASE k \in CachedKeys(c)
    <2>1. Slot(c, k) \in 1..Len(c)
      BY <1>1, SlotType
    <2>2. RemoveAt(c, Slot(c, k)) \in Seq(Entry)
      BY <2>1, RemoveAtType
    <2>3. Len(RemoveAt(c, Slot(c, k))) = Len(c) - 1
      BY <2>1, RemoveAtType
    <2>4. Cons([key |-> k, val |-> v], RemoveAt(c, Slot(c, k))) \in Seq(Entry)
      BY <1>0, <2>2, ConsType
    <2>5. Len(Cons([key |-> k, val |-> v], RemoveAt(c, Slot(c, k)))) = Len(c)
      BY <1>0, <2>2, <2>3, ConsType
    <2>6. QED
      BY <1>1, <2>4, <2>5 DEF CachePut
  <1>2. CASE k \notin CachedKeys(c)
    <2> DEFINE c1 == Cons([key |-> k, val |-> v], c)
    <2>1. c1 \in Seq(Entry)
      BY <1>0, ConsType
    <2>2. Len(c1) = Len(c) + 1
      BY <1>0, ConsType
    <2>3. CASE Len(c1) > cap
      <3>1. Front(c1) \in Seq(Entry)
        BY <2>1, <2>2, <1>0, FrontType
      <3>2. Len(Front(c1)) = Len(c1) - 1
        BY <2>1, <2>2, <1>0, FrontType
      <3>3. Len(Front(c1)) <= cap
        BY <3>2, <2>2, <1>0
      <3>4. QED
        BY <1>2, <2>3, <3>1, <3>3 DEF CachePut
    <2>4. CASE ~(Len(c1) > cap)
      <3>1. Len(c1) <= cap
        BY <2>4, <2>2, <1>0
      <3>2. QED
        BY <1>2, <2>4, <2>1, <3>1 DEF CachePut
    <2>5. QED
      BY <2>3, <2>4
  <1>3. QED
    BY <1>1, <1>2

\* Moving an entry to the front keeps the list and its length.
LEMMA PromoteType ==
  ASSUME NEW c \in Seq(Entry), NEW k \in CachedKeys(c)
  PROVE  /\ Promote(c, k) \in Seq(Entry)
         /\ Len(Promote(c, k)) = Len(c)
  <1>0. Len(c) \in Nat
    BY LenProperties
  <1>1. Slot(c, k) \in 1..Len(c)
    BY SlotType
  <1>2. c[Slot(c, k)] \in Entry
    BY <1>1, ElementOfSeq
  <1>3. RemoveAt(c, Slot(c, k)) \in Seq(Entry)
    BY <1>1, RemoveAtType
  <1>4. Len(RemoveAt(c, Slot(c, k))) = Len(c) - 1
    BY <1>1, RemoveAtType
  <1>5. Cons(c[Slot(c, k)], RemoveAt(c, Slot(c, k))) \in Seq(Entry)
    BY <1>2, <1>3, ConsType
  <1>8. Len(Cons(c[Slot(c, k)], RemoveAt(c, Slot(c, k))))
          = Len(RemoveAt(c, Slot(c, k))) + 1
    BY <1>2, <1>3, ConsType
  <1>6. Len(Cons(c[Slot(c, k)], RemoveAt(c, Slot(c, k)))) = Len(c)
    BY <1>0, <1>4, <1>8
  <1>7. QED
    BY <1>5, <1>6 DEF Promote

\* LRUCacheSegment::remove never lengthens lruList.
LEMMA CacheRemoveType ==
  ASSUME NEW c \in Seq(Entry), NEW k
  PROVE  /\ CacheRemove(c, k) \in Seq(Entry)
         /\ Len(CacheRemove(c, k)) <= Len(c)
  <1>0. Len(c) \in Nat
    BY LenProperties
  <1>1. CASE k \in CachedKeys(c)
    <2>1. Slot(c, k) \in 1..Len(c)
      BY <1>1, SlotType
    <2>2. RemoveAt(c, Slot(c, k)) \in Seq(Entry)
      BY <2>1, RemoveAtType
    <2>3. Len(RemoveAt(c, Slot(c, k))) = Len(c) - 1
      BY <2>1, RemoveAtType
    <2>4. QED
      BY <1>0, <1>1, <2>2, <2>3 DEF CacheRemove
  <1>2. CASE k \notin CachedKeys(c)
    BY <1>0, <1>2 DEF CacheRemove
  <1>3. QED
    BY <1>1, <1>2

\* When the scan for k matches, it stops at a live record of k in the file.
LEMMA FirstLiveType ==
  ASSUME NEW f \in Seq(Record), NEW k, HasLive(f, k)
  PROVE  /\ FirstLive(f, k) \in 1..Len(f)
         /\ f[FirstLive(f, k)].key = k
         /\ ~f[FirstLive(f, k)].del
  <1>1. IsFirstLive(f, k, FirstLive(f, k)) /\ FirstLive(f, k) \in DOMAIN f
    BY DEF HasLive, FirstLive
  <1>2. DOMAIN f = 1..Len(f)
    BY LenProperties
  <1>3. QED
    BY <1>1, <1>2 DEF IsFirstLive, LiveAt

\* Writing the deleted byte keeps the file a sequence of records of the
\* same length.
LEMMA TombstoneType ==
  ASSUME NEW f \in Seq(Record), NEW k
  PROVE  /\ Tombstone(f, k) \in Seq(Record)
         /\ Len(Tombstone(f, k)) = Len(f)
  <1>1. CASE HasLive(f, k)
    <2> DEFINE i == FirstLive(f, k)
    <2>1. i \in 1..Len(f)
      BY <1>1, FirstLiveType
    <2>2. f[i] \in Record
      BY <2>1, ElementOfSeq
    <2>3. [f[i] EXCEPT !.del = TRUE] \in Record
      BY <2>2 DEF Record
    <2>4. [f EXCEPT ![i].del = TRUE] = [f EXCEPT ![i] = [f[i] EXCEPT !.del = TRUE]]
      OBVIOUS
    <2>5. [f EXCEPT ![i] = [f[i] EXCEPT !.del = TRUE]] \in Seq(Record)
      BY <2>1, <2>3, ExceptSeq
    <2>6. Len([f EXCEPT ![i] = [f[i] EXCEPT !.del = TRUE]]) = Len(f)
      BY <2>1, <2>3, ExceptSeq
    <2>7. QED
      BY <1>1, <2>4, <2>5, <2>6 DEF Tombstone
  <1>2. CASE ~HasLive(f, k)
    BY <1>2 DEF Tombstone
  <1>3. QED
    BY <1>1, <1>2

\* get's file scan returns a stored value or std::nullopt.
LEMMA DiskValueType ==
  ASSUME NEW f \in Seq(Record), NEW k
  PROVE  /\ DiskValue(f, k) \in Values \cup {NoValue}
         /\ HasLive(f, k) => DiskValue(f, k) \in Values
  <1>1. CASE HasLive(f, k)
    <2>1. FirstLive(f, k) \in 1..Len(f)
      BY <1>1, FirstLiveType
    <2>2. f[FirstLive(f, k)] \in Record
      BY <2>1, ElementOfSeq
    <2>3. QED
      BY <1>1, <2>2 DEF DiskValue, Record
  <1>2. CASE ~HasLive(f, k)
    BY <1>2 DEF DiskValue
  <1>3. QED
    BY <1>1, <1>2

-----------------------------------------------------------------------------
(***************************************************************************)
(* Type correctness.  TypeOK alone is not inductive: compressFile's        *)
(* resize_file(write_pos) yields a sequence of records only because        *)
(* write_pos <= read_pos <= the file's end (CompactCursors), and insert's  *)
(* append stays within MaxRecords only because the room was checked when   *)
(* the insert took the lock.                                               *)
(***************************************************************************)
IInv == /\ TypeOK
        /\ CompactCursors
        /\ (writer = "insert" => Len(file) < MaxRecords)

\* The answers get and erase give are replies.
LEMMA ReplyType ==
  ASSUME NEW k \in Keys, NEW r \in Values \cup {NoValue}, NEW b \in BOOLEAN
  PROVE  /\ <<"get", k, r>> \in Reply
         /\ <<"erase", k, b>> \in Reply
  BY DEF Reply

\* insert's return, with its key and value, is a reply.
LEMMA InsertReplyType ==
  ASSUME NEW k \in Keys, NEW v \in Values
  PROVE  <<"insert", k, v>> \in Reply
  BY DEF Reply

\* The process starts (CREATE mode) in a state of IInv.
LEMMA IInvInit == Init => IInv
  <1> SUFFICES ASSUME Init PROVE IInv
    OBVIOUS
  <1>1. (CHOOSE k \in Keys : TRUE) \in Keys /\ (CHOOSE v \in Values : TRUE) \in Values
    BY KeysValuesAssumption
  <1>2. pending \in Pending
    BY <1>1 DEF Init, Pending
  <1>3. <<>> \in Seq(Record) /\ <<>> \in Seq(Entry) /\ Len(<<>>) = 0
    OBVIOUS
  <1>4. file \in Seq(Record) /\ Len(file) <= MaxRecords
    BY <1>3, MaxRecordsAssumption DEF Init
  <1>5. cache \in Seq(Entry) /\ Len(cache) <= K
    BY <1>3, KAssumption DEF Init
  <1>6. rd \in 1..(MaxRecords + 1) /\ wr \in 1..(MaxRecords + 1)
    BY MaxRecordsAssumption DEF Init
  <1>7. reply \in Reply
    BY DEF Init, Reply
  <1>8. TypeOK
    BY <1>2, <1>4, <1>5, <1>6, <1>7 DEF Init, TypeOK
  <1>9. QED
    BY <1>8 DEF Init, IInv, CompactCursors

\* Each step of the shard keeps IInv.
LEMMA IInvNext == IInv /\ [Next]_vars => IInv'
  <1> SUFFICES ASSUME IInv, [Next]_vars PROVE IInv'
    OBVIOUS
  <1>0. /\ file \in Seq(Record) /\ Len(file) \in Nat /\ Len(file) <= MaxRecords
        /\ cache \in Seq(Entry) /\ Len(cache) \in Nat /\ Len(cache) <= K
        /\ K \in Nat /\ K >= 1 /\ MaxRecords \in Nat
    BY LenProperties, KAssumption, MaxRecordsAssumption DEF IInv, TypeOK
  <1>1. ASSUME NEW k \in Keys, Get(k) PROVE IInv'
    <2>1. cache' \in Seq(Entry) /\ Len(cache') <= K /\ reply' \in Reply
      <3>1. CASE k \in CachedKeys(cache)
        <4>1. cache' = Promote(cache, k) /\ reply' = <<"get", k, CacheVal(cache, k)>>
          BY <1>1, <3>1 DEF Get
        <4>2. Promote(cache, k) \in Seq(Entry) /\ Len(Promote(cache, k)) = Len(cache)
          BY <1>0, <3>1, PromoteType
        <4>3. CacheVal(cache, k) \in Values
          BY <1>0, <3>1, CacheValType
        <4>4. QED
          BY <1>0, <4>1, <4>2, <4>3, ReplyType
      <3>2. CASE k \notin CachedKeys(cache)
        <4>1. reply' = <<"get", k, DiskValue(file, k)>>
          BY <1>1, <3>2 DEF Get
        <4>2. reply' \in Reply
          BY <1>0, <4>1, DiskValueType, ReplyType
        <4>3. CASE HasLive(file, k)
          <5>1. cache' = CachePut(cache, k, DiskValue(file, k), K)
            BY <1>1, <3>2, <4>3 DEF Get
          <5>2. DiskValue(file, k) \in Values
            BY <1>0, <4>3, DiskValueType
          <5>3. QED
            BY <1>0, <4>2, <5>1, <5>2, CachePutType
        <4>4. CASE ~HasLive(file, k)
          BY <1>0, <1>1, <3>2, <4>2, <4>4 DEF Get
        <4>5. QED
          BY <4>3, <4>4
      <3>3. QED
        BY <3>1, <3>2
    <2>2. UNCHANGED <<file, tail, writer, pending, rd, wr, up>> /\ writer = "none"
      BY <1>1 DEF Get, LockFree
    <2>3. QED
      BY <2>1, <2>2 DEF IInv, TypeOK, CompactCursors
  <1>2. ASSUME NEW k \in Keys, Erase(k) PROVE IInv'
    <2>1. cache' \in Seq(Entry) /\ Len(cache') <= K
      BY <1>0, <1>2, CacheRemoveType DEF Erase
    <2>2. file' \in Seq(Record) /\ Len(file') = Len(file)
      BY <1>0, <1>2, TombstoneType DEF Erase
    <2>3. reply' \in Reply
      <3>1. HasLive(file, k) \in BOOLEAN
        BY DEF HasLive
      <3>2. QED
        BY <1>2, <3>1, ReplyType DEF Erase
    <2>4. UNCHANGED <<tail, writer, pending, rd, wr, up>> /\ writer = "none"
      BY <1>2 DEF Erase, LockFree
    <2>5. QED
      BY <1>0, <2>1, <2>2, <2>3, <2>4 DEF IInv, TypeOK, CompactCursors
  <1>3. ASSUME NEW k \in Keys, EraseOpenFail(k) PROVE IInv'
    <2>1. cache' \in Seq(Entry) /\ Len(cache') <= K
      BY <1>0, <1>3, CacheRemoveType DEF EraseOpenFail
    <2>2. UNCHANGED <<file, tail, writer, pending, rd, wr, up, reply>>
      BY <1>3 DEF EraseOpenFail
    <2>3. QED
      BY <2>1, <2>2 DEF IInv, TypeOK, CompactCursors
  <1>4. ASSUME NEW k \in Keys, NEW v \in Values, InsertOpenFail(k, v) PROVE IInv'
    <2>1. cache' \in Seq(Entry) /\ Len(cache') <= K
      BY <1>0, <1>4, CachePutType DEF InsertOpenFail
    <2>2. UNCHANGED <<file, tail, writer, pending, rd, wr, up, reply>>
      BY <1>4 DEF InsertOpenFail
    <2>3. QED
      BY <2>1, <2>2 DEF IInv, TypeOK, CompactCursors
  <1>5. ASSUME NEW k \in Keys, NEW v \in Values, Insert(k, v) PROVE IInv'
    <2>1. cache' \in Seq(Entry) /\ Len(cache') <= K
      BY <1>0, <1>5, CachePutType DEF Insert
    <2>2. file' \in Seq(Record) /\ Len(file') = Len(file)
      BY <1>0, <1>5, TombstoneType DEF Insert
    <2>3. Current(k) \in Values \cup {NoValue}
      <3>1. LogicalFile = file
        BY <1>5 DEF Insert, LockFree, LogicalFile
      <3>2. CASE k \in CachedKeys(cache)
        BY <1>0, <3>2, CacheValType DEF Current
      <3>3. CASE k \notin CachedKeys(cache)
        BY <1>0, <3>1, <3>3, DiskValueType DEF Current
      <3>4. QED
        BY <3>2, <3>3
    <2>4. pending' \in Pending
      BY <1>5, <2>3 DEF Insert, Pending
    <2>5. Len(file') < MaxRecords /\ writer' = "insert"
      BY <1>5, <2>2 DEF Insert
    <2>6. UNCHANGED <<tail, rd, wr, up, reply>>
      BY <1>5 DEF Insert
    <2>7. QED
      BY <1>0, <2>1, <2>2, <2>4, <2>5, <2>6 DEF IInv, TypeOK, CompactCursors
  <1>6. ASSUME InsertAppend PROVE IInv'
    <2>1. Len(file) < MaxRecords /\ pending \in Pending
      BY <1>6 DEF InsertAppend, IInv, TypeOK
    <2>2. [key |-> pending.key, val |-> pending.val, del |-> FALSE] \in Record
      BY <2>1 DEF Pending, Record
    <2>3. file' \in Seq(Record)
      BY <1>0, <1>6, <2>2, AppendProperties DEF InsertAppend
    <2>4. Len(file') = Len(file) + 1
      BY <1>0, <1>6, <2>2, AppendProperties DEF InsertAppend
    <2>5. Len(file') <= MaxRecords
      BY <1>0, <2>1, <2>4
    <2>6. writer' = "none" /\ UNCHANGED <<tail, cache, pending, rd, wr, up>>
      BY <1>6 DEF InsertAppend
    <2>7. reply' \in Reply
      <3>1. reply' = <<"insert", pending.key, pending.val>>
        BY <1>6 DEF InsertAppend
      <3>2. QED
        BY <2>1, <3>1, InsertReplyType DEF Pending
    <2>8. QED
      BY <2>3, <2>5, <2>6, <2>7 DEF IInv, TypeOK, CompactCursors
  <1>7. ASSUME CompactBegin PROVE IInv'
    <2>1. rd' = 1 /\ wr' = 1 /\ writer' = "compact"
      BY <1>7 DEF CompactBegin
    <2>2. UNCHANGED <<file, tail, cache, pending, up, reply>>
      BY <1>7 DEF CompactBegin
    <2>3. 1 \in 1..(MaxRecords + 1) /\ 1 <= Len(file) + 1
      BY <1>0
    <2>4. QED
      BY <2>1, <2>2, <2>3 DEF IInv, TypeOK, CompactCursors
  <1>8. ASSUME CompactSkip PROVE IInv'
    <2>1. writer = "compact" /\ rd <= Len(file) /\ wr <= rd /\ rd \in Nat /\ wr \in Nat
      BY <1>8 DEF CompactSkip, IInv, TypeOK, CompactCursors
    <2>2. rd' = rd + 1 /\ UNCHANGED <<file, tail, cache, writer, pending, wr, up, reply>>
      BY <1>8 DEF CompactSkip
    <2>3. rd' \in 1..(MaxRecords + 1) /\ wr' <= rd' /\ rd' <= Len(file') + 1
      BY <1>0, <2>1, <2>2
    <2>4. QED
      BY <2>2, <2>3 DEF IInv, TypeOK, CompactCursors
  <1>9. ASSUME CompactCopy PROVE IInv'
    <2>1. /\ writer = "compact" /\ rd <= Len(file) /\ wr <= rd
          /\ rd \in 1..(MaxRecords + 1) /\ wr \in 1..(MaxRecords + 1)
      BY <1>9 DEF CompactCopy, IInv, TypeOK, CompactCursors
    <2>2. wr \in 1..Len(file) /\ rd \in 1..Len(file)
      BY <1>0, <2>1
    <2>3. file[rd] \in Record
      BY <1>0, <2>2, ElementOfSeq
    <2>4. file' \in Seq(Record) /\ Len(file') = Len(file)
      BY <1>0, <1>9, <2>2, <2>3, ExceptSeq DEF CompactCopy
    <2>5. rd' = rd + 1 /\ wr' = wr + 1
      BY <1>9 DEF CompactCopy
    <2>6. UNCHANGED <<tail, cache, writer, pending, up, reply>>
      BY <1>9 DEF CompactCopy
    <2>7. /\ rd' \in 1..(MaxRecords + 1) /\ wr' \in 1..(MaxRecords + 1)
          /\ wr' <= rd' /\ rd' <= Len(file') + 1
      BY <1>0, <2>1, <2>4, <2>5
    <2>8. QED
      BY <1>0, <2>4, <2>6, <2>7 DEF IInv, TypeOK, CompactCursors
  <1>10. ASSUME CompactEnd PROVE IInv'
    <2>1. /\ writer = "compact" /\ wr <= rd /\ rd <= Len(file) + 1
          /\ wr \in 1..(MaxRecords + 1) /\ rd \in 1..(MaxRecords + 1)
      BY <1>10 DEF CompactEnd, IInv, TypeOK, CompactCursors
    <2>9. \A j \in 1..Len(file) : file[j] \in Record
      BY <1>0, ElementOfSeq
    <2>2. \A j \in 1..(wr - 1) : file[j] \in Record
      <3>1. SUFFICES ASSUME NEW j \in 1..(wr - 1) PROVE file[j] \in Record
        OBVIOUS
      <3>2. j \in 1..Len(file)
        BY <1>0, <2>1
      <3>3. QED
        BY <3>2, <2>9
    <2>3. SubSeq(file, 1, wr - 1) \in Seq(Record)
      BY <2>1, <2>2, SubSeqProperties
    <2>4. Len(SubSeq(file, 1, wr - 1)) = IF 1 <= wr - 1 THEN wr - 1 ELSE 0
      BY <2>1, <2>2, SubSeqProperties
    <2>5. Len(SubSeq(file, 1, wr - 1)) <= MaxRecords
      BY <1>0, <2>1, <2>4
    <2>6. file' = SubSeq(file, 1, wr - 1) /\ writer' = "none"
      BY <1>10 DEF CompactEnd
    <2>7. UNCHANGED <<tail, cache, pending, rd, wr, up, reply>>
      BY <1>10 DEF CompactEnd
    <2>8. QED
      BY <2>3, <2>5, <2>6, <2>7 DEF IInv, TypeOK, CompactCursors
  <1>11. ASSUME CompactFail PROVE IInv'
    BY <1>11 DEF CompactFail, IInv, TypeOK, CompactCursors
  <1>12. ASSUME Crash PROVE IInv'
    <2>1. cache' = <<>> /\ writer' = "none" /\ up' = FALSE /\ tail' \in BOOLEAN
      BY <1>12 DEF Crash, IInv, TypeOK
    <2>2. UNCHANGED <<file, pending, rd, wr, reply>>
      BY <1>12 DEF Crash
    <2>3. <<>> \in Seq(Entry) /\ Len(<<>>) <= K
      BY <1>0
    <2>4. QED
      BY <2>1, <2>2, <2>3 DEF IInv, TypeOK, CompactCursors
  <1>13. ASSUME Restart PROVE IInv'
    BY <1>13 DEF Restart, IInv, TypeOK, CompactCursors
  <1>14. CASE UNCHANGED vars
    BY <1>14 DEF vars, IInv, TypeOK, CompactCursors
  <1>15. QED
    BY <1>1, <1>2, <1>3, <1>4, <1>5, <1>6, <1>7, <1>8, <1>9, <1>10,
       <1>11, <1>12, <1>13, <1>14 DEF Next

\* Type correctness of the shard: every reachable state satisfies TypeOK,
\* in particular the cache never outgrows LRU_CACHE_CAPACITY and the
\* file never outgrows the record bound.
THEOREM TypeCorrect == Spec => []TypeOK
  <1>1. IInv => TypeOK
    BY DEF IInv
  <1>2. QED
    BY <1>1, IInvInit, IInvNext, PTL DEF Spec

\* compressFile's write_pos never passes read_pos and read_pos never
\* passes the end of the file, whatever the shard did before.
THEOREM CompactCursorsInvariant == Spec => []CompactCursors
  <1>1. IInv => CompactCursors
    BY DEF IInv
  <1>2. QED
    BY <1>1, IInvInit, IInvNext, PTL DEF Spec

=============================================================================
