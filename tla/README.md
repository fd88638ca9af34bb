# TLA+ models of the DOCS key-value store and its RESP server

This directory holds TLA+ specifications of the persistent key-value store in
`src/Assignment3/parta`, and of the RESP TCP server and client in
`src/Assignment3/partc` that are built on it. It also holds TLC configurations
that model-check the specifications on small instances, and TLAPS proofs of
the invariants that hold for every instance.

## The system

* **StorageEngine** (`storage_engine.cpp/.h`) is the public facade. It has
  three operations: `insert(key, value)`, `get(key) -> optional` and
  `erase(key) -> bool`. Each one delegates to a `PersistentHashMap`.
* **PersistentHashMap** (`persistent_hashmap.cpp:312-391`) hashes a key to
  one of `num_bins` shards, called `BinControl`s. It also runs a background
  thread, `runGarbageCollector`. Every `GARBAGE_COLLECTOR_INTERVAL` seconds
  that thread calls `compressFile` on every bin and catches any
  `runtime_error` it throws.
* **BinControl** (`persistent_hashmap.cpp:5-310`) owns one file of records
  (`key_len, value_len, deleted, key, value`), one `LRUCacheSegment`, and a
  `shared_mutex` that guards both.
  * `get` takes the lock shared. It looks in the cache first. On a miss it
    scans the file for the first live record of the key and fills the cache.
  * `insert` takes the lock exclusive. It puts the value in the cache, then
    tombstones the live record of the key by setting its deleted byte in
    place, then appends the new record.
  * `erase` takes the lock exclusive. It removes the key from the cache and
    tombstones the key's record.
  * `compressFile` takes the lock exclusive and rewrites live records
    towards the front of the file. It uses two cursors, `read_pos` and
    `write_pos`, and truncates the file at the end.
  * `binCheck` runs at startup. It truncates a partial trailing record.
* **LRUCacheSegment** (`lru_cache.cpp`, `lru_cache.h`) is a list plus a map,
  guarded by a spin lock. `put` evicts the least recently used entry past the
  capacity. `get` moves the entry to the front. `remove` deletes it.
* **RESP server** (`partc/src/server.cpp`) accepts connections and runs an
  `asio::io_context` on a pool of threads. Each connection is a `Session`.
  * `read_line` reads up to `\r\n` and hands the line to `process_line`.
  * `process_line` parses `*n` and `$len` headers and bulk bodies. When the
    command is complete it calls `process_command`, which calls the shared
    `StorageEngine`.
  * `send_response` writes the reply with `async_write`.
  * `reset_state` clears the parser for the next command.
* **RESP client** (`partc/src/client.cpp`) does three things:
  * `format_resp` encodes a command as a RESP array;
  * `send_command` writes it and waits for the answer;
  * `read_response` parses the answer.
* The rest of `src/` is not modelled (see below):
  * the REPL;
  * the partb throughput benchmarks over TCP and DPDK;
  * the Assignment 1 garbage-collection programs;
  * the unit tests.

## Modules

| Module | Models | Notes |
|---|---|---|
| `LRUCache` | `LRUCacheSegment::put/get/remove` | Operators on a sequence of `[key, val]` entries, most recently used first. |
| `KVStore` | the `StorageEngine` contract | A map `Keys -> Values \cup {NoValue}`. `insert`, `erase` and `get` act atomically. This is the abstract specification. |
| `ShardLog` | one `BinControl` with its cache, file, lock, compactor, crashes and restart | The detailed specification. It refines `KVStore` through `KV == INSTANCE KVStore WITH store <- ...`. |
| `ShardLogProofs` | TLAPS proofs about `ShardLog` | Sequence and cache lemmas, the inductive invariant `IInv`, and the theorems `TypeCorrect` and `CompactCursorsInvariant`. |
| `RespSession` | one `Session` of `server.cpp`, its client, and the process around it | A line-level model of the byte stream. |
| `MCShardLog`, `MCRespSession` | model values and small input sets for TLC | |

### ShardLog: state and actions

**State.** Each variable corresponds to code:

* `file` is the sequence of whole records in `<bin_id>.bkt`.
* `tail` says whether a partly written record follows them.
* `cache` is the LRU list.
* `writer` is the holder of the exclusive lock: `"none"`, `"insert"` or
  `"compact"`.
* `pending` is the key and value of the insert in progress. It also keeps,
  as an auxiliary variable for the refinement, the value that insert
  replaces.
* `rd` and `wr` are `read_pos` and `write_pos`, counted in record slots.
* `up` says whether the process is running.
* `reply` is the last return of a call: get's value, erase's flag, or
  insert's return together with its key and value.

Every record has the same footprint. This is an abstraction of the model:
the code writes length-prefixed records of any size, and its tests use keys
and values of different lengths. With fixed-size records, a slot that an
unfinished compaction leaves behind still parses as a record, and `binCheck`
(`Restart`) can only cut the partial trailing record. With mixed sizes, a
crash inside compaction can leave bytes that do not parse. `binCheck` then
truncates at the first bad header, possibly together with live records
behind it. That case is not represented, and no property here covers it
(hazard H10 in `PROJECT.json`).

**Actions.** Each action is one atomic stretch of the code under the lock.
The `map` of `PROJECT.json` gives the exact lines.

* `Get(k)` is a whole `get`: a cache hit, or a scan for the first live
  record (`LiveAt`, `FirstLive`, `DiskValue`) and a cache fill.
* `Erase(k)` is `cache.remove` plus the tombstoning scan.
* `EraseOpenFail` is the open failure after `cache.remove`.
* `insert` is split at the point where a crash changes what is left on disk:
  * `Insert(k, v)` is `cache.put` plus the tombstoning scan;
  * `InsertAppend` is the append;
  * `InsertOpenFail` is the open failure after `cache.put`.
* `compressFile` is one step per record:
  * `CompactBegin`;
  * `CompactSkip`, for a deleted record;
  * `CompactCopy`, for a live record copied to `write_pos`;
  * `CompactEnd`, the `resize_file`;
  * `CompactFail`, a read or write error. `runGarbageCollector` catches it
    and the lock is released with the file half rewritten.
* `Crash` kills the process at a point allowed by the constant
  `CrashPoints`. The cache is lost, and so is any `tail` written so far.
* `Restart` is the constructor's OPEN path, `binCheck`, which truncates the
  tail.

`Current(k)` is what a `get` would return now. `Visible(k)` is what a caller
can observe, given that an insert holding the lock hides its key.
`LogicalFile` is an abstraction function, not code. It is the file as
readers will find it once compaction is done.

`KVRefinement` maps the shard onto `KVStore` through `Visible` and `reply`.
In both modules an insert's return records its key and value. So a step
may change a key's visible value only if it is an erase, or the end of an
insert that returns with that key and value. A step that changes a value
silently maps to no step of `KVStore`, and TLC reports it.

### RespSession: state and actions

**State.** Each variable corresponds to code:

* `in` is the unread input on the socket, a sequence of symbols. A symbol is
  a word, `CRLF`, a bare `LF`, a header `*n`/`$n`, or a header whose number
  does not parse.
* `cmd`, `expected`, `reading`, `blen` and `bulk` are the `Session` members
  `command_parts_`, `expected_parts_`, `reading_bulk_string_`,
  `bulk_string_length_` and `bulk_string_`.
* `store` is the shared store.
* `out` is what the client has received.
* `pend` holds the replies whose second half is still being written.
* `alive` is false once the process has terminated.
* For the client, `sent` counts the commands sent. `expect` is the replies
  the client should get in order, computed against `ref`, a reference map.

**Server actions.** Each of the `process_line` actions consumes one line, as
`read_line` does with `getline`, and runs the branch of `process_line` that
the parser state selects:

* `ReadBulkPart` appends a body line plus `"\r\n"`;
* `ReadBulkLast` completes a bulk string;
* `ReadBulkDispatch` completes the command and runs `process_command`,
  `send_response` and `reset_state`;
* `ReadBulkDispatchFail` is a store exception escaping the handler;
* `ReadEmpty`, `ReadArrayHeader`, `ReadBulkHeader`, `ReadBadHeader` (`stoi`
  throws) and `ReadOther` are the other branches.

`SendResponse` either writes the whole reply, or (fault `"partialwrite"`)
writes its first part and leaves the rest outstanding. `WriteRest` later
sends the rest: either the right bytes, or `Garbage`, when the local string
the buffer pointed at is gone.

**Client actions.** `ClientSend(c)` is the first half of `send_command`:
`serialize_command` (`Encode`) and `asio::write`. The model does not wait
for the reply before the next write, so the client may pipeline.
`read_response` is not modelled. The repository's client, which waits for
each reply, is one of the schedules this admits. `ClientSendJunk` is a client that writes a non-RESP frame.

## Runs

`PROJECT.json` lists every run. All runs use `SPECIFICATION Spec`.

**ShardLog** runs use keys `{k1,k2}` and values `{v1,v2}`, with
`LRU_CACHE_CAPACITY = 1` and at most 3 records in the file. These bounds let
TLC reach the following cases:

* a cache eviction followed by a miss that re-reads the file;
* two versions of a key in the file with one tombstoned;
* a compaction that moves a live record over a dead one;
* a crash at every step between.

The faults run uses three keys, one value, capacity 2 and 2 records.

| Run | Expect | Shows |
|---|---|---|
| `shardlog_ok` | pass | With crashes between operations only, these hold: `CacheCoherent` (every cached value is what the file scan returns), `AtMostOneLive`, and `KVRefinement` (the shard implements `KVStore`). |
| `shardlog_faults` | pass | Under every crash point and I/O fault, these hold: `CacheWellFormed` (the list has no duplicate key) and `CompactCursors` (`write_pos <= read_pos <= end`). |
| `shardlog_crash_compact` | violation of `AtMostOneLive` | A crash inside `compressFile` leaves a moved record twice in the file. |
| `shardlog_compact_fail` | violation of `KVRefinement` | A caught compaction error leaves duplicates. An erase then brings an old value back. |
| `shardlog_crash_insert` | violation of `KVRefinement` | A crash between tombstone and append erases the key. |
| `shardlog_open_fail` | violation of `KVRefinement` | A failed open leaves the new value in the cache. |

**RespSession** runs allow at most 3 commands, 3 parts per command and 3
symbols in a bulk body. That is enough for these cases:

* a pipelined `SET` followed by a `GET` and a `DEL` of the same key;
* a value that spans two lines;
* an empty value;
* a wrong arity;
* an unknown command.

| Run | Expect | Shows |
|---|---|---|
| `resp_ok` | pass | Two properties hold. `RepliesInOrder`: the bytes the client receives are a prefix of the replies it expects, in request order. `EveryCommandAnswered`: every command sent is eventually answered, under the fairness below. |
| `resp_faults` | pass | `TypeOK` holds with junk input, partial writes and store errors. |
| `resp_empty_array` | violation of `EveryCommandAnswered` | `*0` is never answered. |
| `resp_bare_lf` | violation of `EveryCommandAnswered` | A value containing `\n` desynchronises the connection. |
| `resp_partial_write` | violation of `RepliesInOrder` | The rest of a partial write comes from a freed string. |
| `resp_store_error` | violation of `NoTeardown` | A store exception terminates the server. |

The RESP runs set `CHECK_DEADLOCK FALSE`. After its last command the client
stops and the server waits in `async_read_until` forever, which is a
legitimate final state. A terminated server also stops.

Each property of a passing run has a mutant in `PROJECT.json`. The mutant is
a plausible bug in the mapped code that TLC finds under the run's own
configuration. Examples are a `put` that does not evict, an erase that keeps
the cache entry, and a compaction that skips the truncation.

## Fairness

`ShardLog` assumes no fairness. The shard only reacts to callers and to the
collector's timer, and none of its properties is a liveness property.

`RespSession` assumes weak fairness of `ServerStep` and of `WriteRest`. The
code justifies both:

* A thread of the pool runs the read handler whenever a line is available.
* Asio completes an outstanding `async_write` while the socket is open.

The client is given no fairness, so it may stop sending at any point.

## Proofs

`ShardLogProofs` proves the following for every value of the constants. It
assumes `KAssumption`, `MaxRecordsAssumption`, `NoValueAssumption`,
`KeysValuesAssumption`, `CrashPointsAssumption` and `FaultsAssumption`, all
declared in `ShardLog`.

* `TypeCorrect == Spec => []TypeOK`. This covers the cache bound
  `Len(cache) <= K`, the file bound and the cursors' ranges.
* `CompactCursorsInvariant == Spec => []CompactCursors`.

Neither invariant is inductive by itself, so both theorems rest on

    IInv == TypeOK /\ CompactCursors /\ (writer = "insert" => Len(file) < MaxRecords)

The third conjunct is needed because `InsertAppend` has no guard on the file
length: the bound is checked by `Insert`, the step before it. The proof has three parts:

* `IInvInit` proves `Init => IInv`.
* `IInvNext` proves `IInv /\ [Next]_vars => IInv'`, with one step per action.
  The steps rest on lemmas about the helpers:
  * `CachePutType`: `put` keeps the list a sequence of entries no longer than
    the capacity;
  * `PromoteType` and `CacheRemoveType`;
  * `TombstoneType`: setting a deleted flag keeps the length;
  * `DiskValueType`;
  * `RemoveAtType` and `ConsType`.
* Each theorem then follows by `PTL`.

The following are only model-checked, because they are out of TLAPS' reach
or not proved yet:

* `EveryCommandAnswered`. It is a liveness property.
* `KVRefinement`, `AtMostOneLive`, `CacheCoherent` and `RepliesInOrder`.
  Their inductive strengthenings talk about the first live record of a scan,
  which is planned work.

## Not modelled

* **Hash routing to several bins.** Bins share no state, so one shard
  stands for all of them.
* **The collector's sleep, stop flag and join.** A hazard about the
  destructor's wait is recorded in `PROJECT.json`.
* **Several sessions sharing one store.** These are planned. The store's
  locking is covered by `ShardLog`.
* **`read_response` of the client.** The client model only writes frames.
* **Byte-level record layout.** A partial record in the middle of the file,
  left by a failed append at run time, needs it.
* **The REPL.** It is console I/O and string slicing.
* **The partb benchmarks, the Assignment 1 programs and the tests.** They
  are not part of the store.

## Plan for later sittings

1. Model several concurrent sessions over a shared store, two shards, and
   the collector thread's lifecycle.
2. Model `read_response` and the client's over-read.
3. Prove `AtMostOneLive` and `CacheCoherent` with inductive strengthenings.
4. Prove the refinement step by step.
