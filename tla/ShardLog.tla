------------------------------ MODULE ShardLog ------------------------------
(***************************************************************************)
(* One shard of the store: BinControl (src/Assignment3/parta/src/          *)
(* persistent_hashmap.cpp) with its LRUCacheSegment, its shard file, the   *)
(* shared_mutex that guards both, and the compaction the background        *)
(* thread runs on it.                                                      *)
(*                                                                         *)
(* The file is a sequence of records [key, val, del].  The code writes    *)
(* length-prefixed records of any size; this model gives every record the  *)
(* same footprint, an abstraction of its own: the in-place compaction then *)
(* copies whole record slots, and a slot left behind by an unfinished      *)
(* compaction still parses as a record.  With records of mixed sizes a     *)
(* crash mid-compaction leaves bytes that need not parse, and binCheck may *)
(* cut live records with them; that case is not represented.  A partly     *)
(* written record at the end of the file is the flag tail.                 *)
(*                                                                         *)
(* Readers (get) and writers (insert, erase, compressFile) take the        *)
(* shared_mutex in shared and exclusive mode.  A get only changes the      *)
(* cache, under its own spin lock, so each get and each erase is one       *)
(* step.  insert is two steps (cache.put and the tombstoning scan, then    *)
(* the append) and compressFile one step per record, because a crash may   *)
(* fall between them; writer records who holds the exclusive lock.        *)
(*                                                                         *)
(* The faults a run admits are constants: CrashPoints says where the       *)
(* process may die (between operations, inside insert, inside              *)
(* compaction), Faults which I/O failures the code's error paths meet.     *)
(***************************************************************************)
EXTENDS Naturals, Sequences, SequencesExt, LRUCache

CONSTANTS Keys,        \* the keys clients use
          Values,      \* the values clients store
          NoValue,     \* std::nullopt
          K,           \* LRU_CACHE_CAPACITY
          MaxRecords,  \* bound on the number of records in the file
          CrashPoints, \* where the process may be killed
          Faults       \* which I/O failures occur

ASSUME KAssumption == K \in Nat \ {0}
ASSUME MaxRecordsAssumption == MaxRecords \in Nat
ASSUME NoValueAssumption == NoValue \notin Values
ASSUME CrashPointsAssumption == CrashPoints \subseteq {"idle", "insert", "compact"}
ASSUME KeysValuesAssumption == Keys # {} /\ Values # {}
ASSUME FaultsAssumption == Faults \subseteq {"openfail", "compactfail"}

VARIABLES file,    \* the records of <bin_id>.bkt
          tail,    \* a partly written record follows them
          cache,   \* the LRUCacheSegment, most recently used first
          writer,  \* the holder of the exclusive lock: "none", "insert", "compact"
          pending, \* the key and value of the insert holding the lock, and
                   \* (auxiliary, for the refinement) the value it replaces
          rd,      \* compressFile's read_pos, as a record index
          wr,      \* compressFile's write_pos, as a record index
          up,      \* the process is running
          reply    \* the return of the last call: get's value, erase's
                   \* flag, or insert's return with its arguments

vars == <<file, tail, cache, writer, pending, rd, wr, up, reply>>

\* The on-disk record: key_len, value_len, deleted, key bytes, value bytes.
Record == [key : Keys, val : Values, del : BOOLEAN]

Entry == [key : Keys, val : Values]

Pending == [key : Keys, val : Values, old : Values \cup {NoValue}]

Reply == {<<>>}
         \cup {<<"get", k, r>> : k \in Keys, r \in Values \cup {NoValue}}
         \cup {<<"erase", k, b>> : k \in Keys, b \in BOOLEAN}
         \cup {<<"insert", k, v>> : k \in Keys, v \in Values}

-----------------------------------------------------------------------------
(***************************************************************************)
(* The scans.  Each handler reads the records from offset 0 and skips the  *)
(* deleted ones and the ones with another key; the first live record of    *)
(* the key stops get and erase, and stops insert's scan too (it seeks to   *)
(* the end after tombstoning).                                             *)
(***************************************************************************)
LiveAt(f, k) == {i \in DOMAIN f : f[i].key = k /\ ~f[i].del}

\* Record i is the one the scan for k stops at.
IsFirstLive(f, k, i) == i \in LiveAt(f, k) /\ \A j \in LiveAt(f, k) : i <= j

\* The scan for k finds a match (in a finite file: there is a live record).
HasLive(f, k) == \E i \in DOMAIN f : IsFirstLive(f, k, i)

FirstLive(f, k) == CHOOSE i \in DOMAIN f : IsFirstLive(f, k, i)

\* What get's file scan returns for k.
DiskValue(f, k) == IF HasLive(f, k) THEN f[FirstLive(f, k)].val ELSE NoValue

\* Mutant: the scan finds the record but never writes the deleted byte.
TombstoneNone(f, k) == f

\* Set the deleted byte of the first live record of k, if there is one.
Tombstone(f, k) ==
    IF HasLive(f, k) THEN [f EXCEPT ![FirstLive(f, k)].del = TRUE] ELSE f

-----------------------------------------------------------------------------
\* An abstraction function, not code: the file as readers will find it
\* once the lock holder is done.  During compressFile it is the records
\* already written back followed by the ones not yet read.
LogicalFile ==
    IF writer = "compact"
    THEN SubSeq(file, 1, wr - 1) \o SubSeq(file, rd, Len(file))
    ELSE file

\* What a get of k answers when the lock is free: the cache if it holds k,
\* else the file.
Current(k) ==
    IF k \in CachedKeys(cache) THEN CacheVal(cache, k)
    ELSE DiskValue(LogicalFile, k)

\* PersistentHashMap constructed in CREATE mode: empty bucket files.
Init == /\ file = <<>>
        /\ tail = FALSE
        /\ cache = <<>>
        /\ writer = "none"
        /\ pending = [key |-> CHOOSE k \in Keys : TRUE,
                      val |-> CHOOSE v \in Values : TRUE,
                      old |-> NoValue]
        /\ rd = 1
        /\ wr = 1
        /\ up = TRUE
        /\ reply = <<>>

\* The exclusive lock is free (no reader holds the shared lock between steps).
LockFree == up /\ writer = "none"

\* insert, up to the append: cache.put, open, and the scan that tombstones
\* the live record of the key.  The append is bounded by MaxRecords.
\* pending.old, what a get of k would answer now, is recorded only for
\* the refinement mapping.
Insert(k, v) ==
    /\ LockFree
    /\ Len(file) < MaxRecords
    /\ cache' = CachePut(cache, k, v, K)
    /\ file' = Tombstone(file, k)
    /\ writer' = "insert"
    /\ pending' = [key |-> k, val |-> v, old |-> Current(k)]
    /\ UNCHANGED <<tail, rd, wr, up, reply>>

\* insert whose fstream fails to open: cache.put has already run, then
\* runtime_error is thrown and the unique_lock is released.
InsertOpenFail(k, v) ==
    /\ "openfail" \in Faults
    /\ LockFree
    /\ cache' = CachePut(cache, k, v, K)
    /\ UNCHANGED <<file, tail, writer, pending, rd, wr, up, reply>>

\* The rest of insert: append the new live record, close, unlock and
\* return to the caller.
InsertAppend ==
    /\ up
    /\ writer = "insert"
    /\ file' = Append(file, [key |-> pending.key, val |-> pending.val,
                             del |-> FALSE])
    /\ writer' = "none"
    /\ reply' = <<"insert", pending.key, pending.val>>
    /\ UNCHANGED <<tail, cache, pending, rd, wr, up>>

\* get under the shared lock: a cache hit promotes the entry; a miss scans
\* the file and, on a match, puts the value into the cache.
Get(k) ==
    /\ LockFree
    /\ IF k \in CachedKeys(cache)
       THEN /\ cache' = Promote(cache, k)
            /\ reply' = <<"get", k, CacheVal(cache, k)>>
       ELSE /\ cache' = IF HasLive(file, k)
                        THEN CachePut(cache, k, DiskValue(file, k), K)
                        ELSE cache
            /\ reply' = <<"get", k, DiskValue(file, k)>>
    /\ UNCHANGED <<file, tail, writer, pending, rd, wr, up>>

\* Mutant: erase that leaves the key in the cache.
EraseKeepCache(k) ==
    /\ LockFree
    /\ file' = Tombstone(file, k)
    /\ reply' = <<"erase", k, HasLive(file, k)>>
    /\ UNCHANGED <<cache, tail, writer, pending, rd, wr, up>>

\* erase: cache.remove, then tombstone the live record and answer whether
\* there was one.
Erase(k) ==
    /\ LockFree
    /\ cache' = CacheRemove(cache, k)
    /\ file' = Tombstone(file, k)
    /\ reply' = <<"erase", k, HasLive(file, k)>>
    /\ UNCHANGED <<tail, writer, pending, rd, wr, up>>

\* erase whose fstream fails to open, after cache.remove.
EraseOpenFail(k) ==
    /\ "openfail" \in Faults
    /\ LockFree
    /\ cache' = CacheRemove(cache, k)
    /\ UNCHANGED <<file, tail, writer, pending, rd, wr, up, reply>>

-----------------------------------------------------------------------------
(***************************************************************************)
(* compressFile, called by runGarbageCollector for each bin in turn.       *)
(***************************************************************************)
CompactBegin ==
    /\ LockFree
    /\ writer' = "compact"
    /\ rd' = 1
    /\ wr' = 1
    /\ UNCHANGED <<file, tail, cache, pending, up, reply>>

\* A deleted record: read_pos moves past it, write_pos stays.
CompactSkip ==
    /\ up
    /\ writer = "compact"
    /\ rd <= Len(file)
    /\ file[rd].del
    /\ rd' = rd + 1
    /\ UNCHANGED <<file, tail, cache, writer, pending, wr, up, reply>>

\* Mutant: read_pos is not moved past the record written back.
CompactCopyNoRead ==
    /\ up
    /\ writer = "compact"
    /\ rd <= Len(file)
    /\ ~file[rd].del
    /\ file' = [file EXCEPT ![wr] = file[rd]]
    /\ wr' = wr + 1
    /\ UNCHANGED <<tail, cache, writer, pending, rd, up, reply>>

\* A live record: written back at write_pos; both cursors move.
CompactCopy ==
    /\ up
    /\ writer = "compact"
    /\ rd <= Len(file)
    /\ ~file[rd].del
    /\ file' = [file EXCEPT ![wr] = file[rd]]
    /\ rd' = rd + 1
    /\ wr' = wr + 1
    /\ UNCHANGED <<tail, cache, writer, pending, up, reply>>

\* Mutant: the file is closed but never resized to write_pos.
CompactEndNoTruncate ==
    /\ up
    /\ writer = "compact"
    /\ rd > Len(file)
    /\ writer' = "none"
    /\ UNCHANGED <<file, tail, cache, pending, rd, wr, up, reply>>

\* End of file: close and resize_file(bin_path, write_pos).
CompactEnd ==
    /\ up
    /\ writer = "compact"
    /\ rd > Len(file)
    /\ file' = SubSeq(file, 1, wr - 1)
    /\ writer' = "none"
    /\ UNCHANGED <<tail, cache, pending, rd, wr, up, reply>>

\* A read or write inside the loop fails: runtime_error leaves compressFile
\* (releasing the lock) before the truncation, and runGarbageCollector
\* logs it and carries on.
CompactFail ==
    /\ "compactfail" \in Faults
    /\ up
    /\ writer = "compact"
    /\ writer' = "none"
    /\ UNCHANGED <<file, tail, cache, pending, rd, wr, up, reply>>

-----------------------------------------------------------------------------
(***************************************************************************)
(* Process death and restart.  The cache and the locks are memory and are  *)
(* lost; the file keeps what was written.  A crash inside insert after the *)
(* tombstoning may leave part of the appended record on disk.  The server  *)
(* and the REPL reopen the store in OPEN mode, which runs binCheck on the  *)
(* existing file.  With the fixed-size records of this model every whole  *)
(* record passes binCheck's header and size checks, so all binCheck can    *)
(* cut is the partial trailing record; its truncation of good records      *)
(* behind a bad header is not represented.                                 *)
(***************************************************************************)
Phase == IF writer = "none" THEN "idle" ELSE writer

Crash ==
    /\ up
    /\ Phase \in CrashPoints
    /\ up' = FALSE
    /\ cache' = <<>>
    /\ writer' = "none"
    /\ tail' \in IF writer = "insert" THEN BOOLEAN ELSE {tail}
    /\ UNCHANGED <<file, pending, rd, wr, reply>>

\* PersistentHashMap in OPEN mode: a fresh BinControl, then binCheck.
Restart ==
    /\ ~up
    /\ up' = TRUE
    /\ tail' = FALSE
    /\ UNCHANGED <<file, cache, writer, pending, rd, wr, reply>>

Next ==
    \/ \E k \in Keys :
          \/ Get(k)
          \/ Erase(k)
          \/ EraseOpenFail(k)
          \/ \E v \in Values : Insert(k, v) \/ InsertOpenFail(k, v)
    \/ InsertAppend
    \/ CompactBegin \/ CompactSkip \/ CompactCopy \/ CompactEnd \/ CompactFail
    \/ Crash \/ Restart

Spec == Init /\ [][Next]_vars

-----------------------------------------------------------------------------
(***************************************************************************)
(* Properties.                                                             *)
(***************************************************************************)

\* Every variable holds a value of its type; the cache never holds more
\* than LRU_CACHE_CAPACITY entries (LRUCacheSegment::put's eviction).
TypeOK ==
    /\ file \in Seq(Record)
    /\ Len(file) <= MaxRecords
    /\ tail \in BOOLEAN
    /\ cache \in Seq(Entry)
    /\ Len(cache) <= K
    /\ writer \in {"none", "insert", "compact"}
    /\ pending \in Pending
    /\ rd \in 1..(MaxRecords + 1)
    /\ wr \in 1..(MaxRecords + 1)
    /\ up \in BOOLEAN
    /\ reply \in Reply

\* Spec invariant 2, for insert's tombstone-then-append, erase and
\* compressFile: no two live records of the file have the same key.
AtMostOneLive ==
    \A i, j \in DOMAIN LogicalFile :
        /\ i # j
        /\ ~LogicalFile[i].del
        /\ ~LogicalFile[j].del
        => LogicalFile[i].key # LogicalFile[j].key

\* Spec invariant 1, for get's fill, insert's put-before-write, erase's
\* remove and eviction: every cached value is the value get's file scan
\* would find, except the one an insert in progress has just put.
CacheCoherent ==
    \A i \in DOMAIN cache :
        (writer = "insert" => cache[i].key # pending.key)
            => DiskValue(LogicalFile, cache[i].key) = cache[i].val

\* Spec invariant 3, for LRUCacheSegment::put, get and remove: no key has
\* two entries in lruList (lruMap is the set of the list's keys here, so
\* this is the half of the list/map agreement the model can state).
CacheWellFormed ==
    \A i, j \in DOMAIN cache : i # j => cache[i].key # cache[j].key

\* Spec 4.2.4: compressFile's write_pos never passes its read_pos, so the
\* in-place rewrite never overwrites a record before it has been read.
CompactCursors ==
    writer = "compact" => wr <= rd /\ rd <= Len(file) + 1

\* What a caller can observe of k.  While an insert holds the lock no one
\* can look; its key still has the value it replaces, and the insert takes
\* effect when its record is appended.
Visible(k) ==
    IF writer = "insert" /\ k = pending.key THEN pending.old ELSE Current(k)

KV == INSTANCE KVStore WITH store <- [k \in Keys |-> Visible(k)]

\* Spec 4.2.1-4.2.3 and 5 (per-shard linearizability): the shard, with its
\* cache, compaction, crashes and recovery, behaves as a map in which
\* insert, erase and get take effect atomically.  A key's visible value
\* changes only by an erase, or by an insert that returns with that key and
\* that value; every other step (compaction, crash, restart, a failed
\* open) leaves every visible value and the last return as they were.
KVRefinement == KV!Spec
=============================================================================
