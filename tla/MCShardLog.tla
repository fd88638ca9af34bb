----------------------------- MODULE MCShardLog -----------------------------
(***************************************************************************)
(* Small instances of ShardLog for TLC.  Two keys and a cache of one entry *)
(* make every get of the other key evict; two values tell a stale record   *)
(* from a fresh one; three records leave room for a tombstone, its         *)
(* superseding record and a third, which is what a compaction that copies *)
(* over a tombstone needs.                                                 *)
(***************************************************************************)
EXTENDS ShardLog

CONSTANTS k1, k2, k3, v1, v2

MCKeys == {k1, k2}

MCKeys3 == {k1, k2, k3}
MCValues == {v1, v2}

MCValues1 == {v1}
=============================================================================
