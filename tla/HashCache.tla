------------------------------ MODULE HashCache ------------------------------
(***************************************************************************)
(* The hash cache of internal/cache/cache.go: a map from a path to the     *)
(* size, modification time and algorithm its file had when it was hashed,  *)
(* and the digest found.  The map lives in memory (Store) and is written   *)
(* to and loaded from one JSON file (CacheFile).                           *)
(*                                                                         *)
(* The operators are pure; module Task holds the map and the file in its   *)
(* variables and splits Save into the steps other goroutines can observe.  *)
(***************************************************************************)
EXTENDS Naturals

CONSTANTS
    Files,       \* the paths a scan may meet
    Algos,       \* the values of ScanOptions.HashAlgo
    Hashes,      \* the digests, as ComputeHash prints them
    NoHash,      \* the empty string: no digest
    NoEntry,     \* the map has no such key
    Unreadable   \* a cache file os.ReadFile or json.Unmarshal rejects

Entry == [size : Nat, modTime : Nat, algo : Algos, hash : Hashes]
Store == [Files -> Entry \cup {NoEntry}]
CacheFile == Store \cup {Unreadable}

ASSUME SentinelAssumption ==
    /\ NoHash \notin Hashes
    /\ NoEntry \notin Entry
    /\ Unreadable \notin Store

EmptyStore == [f \in Files |-> NoEntry]

\* Wrong: the error of json.Unmarshal leaves no usable map.
LoadRaw(file) == file

\* Load: a file that cannot be read or parsed is an empty cache.
Load(file) == IF file = Unreadable THEN EmptyStore ELSE file

\* Wrong variants of the comparison in Get.
HitAnyAlgo(store, f, info, algo) ==
    /\ store[f] # NoEntry
    /\ store[f].size = info.size /\ store[f].modTime = info.modTime
HitAnyTime(store, f, info, algo) ==
    /\ store[f] # NoEntry
    /\ store[f].size = info.size /\ store[f].algo = algo

\* Get: the entry answers only for the size, time and algorithm it was made for.
Hit(store, f, info, algo) ==
    /\ store[f] # NoEntry
    /\ store[f].size = info.size
    /\ store[f].modTime = info.modTime
    /\ store[f].algo = algo

Get(store, f, info, algo) ==
    IF Hit(store, f, info, algo) THEN store[f].hash ELSE NoHash

Put(store, f, info, algo, hash) ==
    [store EXCEPT ![f] = [size |-> info.size, modTime |-> info.modTime,
                          algo |-> algo, hash |-> hash]]

\* os.WriteFile truncates first and writes afterwards.  Whoever writes into a
\* file another writer filled since the truncation may leave the other's tail.
Truncated == Unreadable
Written(file, buf) == IF file = Truncated THEN {buf} ELSE {buf, Unreadable}
==============================================================================
