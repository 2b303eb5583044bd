------------------------------- MODULE PduCache -------------------------------
(***************************************************************************)
(* The two in-memory caches of an endpoint: PduLatestBuffer and            *)
(* PduLatestQueue (include/hakoniwa/pdu/cache/).  The classes differ only  *)
(* in what write and read do to the sequence stored under a key, so one    *)
(* module models both and the constant Kind picks the class.               *)
(*                                                                         *)
(* One thread runs the life cycle (open, close, start, stop) and any       *)
(* number of Threads call write and read.  write and read look at          *)
(* is_running_ before they take mtx_, so each of them is two steps: the    *)
(* unguarded look, and the critical section.  A lock that is held only     *)
(* within one step needs no variable.                                      *)
(***************************************************************************)
EXTENDS Integers, Sequences

CONSTANTS Keys, Values, Threads, Kind, NoValue,
          Size,      \* Size[v]: length of the payload v in bytes
          Caps,      \* lengths of the readers' buffers
          Depths,    \* values a config may give to store.depth (a C++ int)
          SizeMod,   \* 2^64: the int becomes a size_t
          MaxHist    \* bound: writes accepted per key between two clears

ASSUME CacheAssumption ==
    /\ Kind \in {"buffer", "queue"}
    /\ NoValue \notin Values
    /\ Size \in [Values -> Nat]
    /\ Caps \subseteq Nat
    /\ Depths \subseteq Int
    /\ SizeMod \in Nat \ {0}

VARIABLES opened,    \* open() was called: an endpoint opens a cache once
          running,   \* is_running_
          depth,     \* depth_; a latest buffer keeps one value
          store,     \* store[k]: the values held under k, oldest first
          pc,        \* pc[t]: what t is about to do under the lock
          got,       \* got[t]: the payload t's last successful read copied out
          hist, next \* history variables, see CacheContract

vars == <<opened, running, depth, store, pc, got, hist, next>>
callers == <<pc, got>>

Idle == [op |-> "idle"]
WriteOp == [op : {"write"}, key : Keys, val : Values]
ReadOp == [op : {"read"}, key : Keys, cap : Caps]

TypeOK ==
    /\ opened \in BOOLEAN
    /\ running \in BOOLEAN
    /\ depth \in Nat \ {0}
    /\ store \in [Keys -> Seq(Values)]
    /\ pc \in [Threads -> {Idle} \cup WriteOp \cup ReadOp]
    /\ got \in [Threads -> Values \cup {NoValue}]
    /\ hist \in [Keys -> Seq(Values)]
    /\ next \in [Keys -> Nat \ {0}]

Init == /\ opened = FALSE
        /\ running = FALSE
        /\ depth = 1
        /\ store = [k \in Keys |-> <<>>]
        /\ pc = [t \in Threads |-> Idle]
        /\ got = [t \in Threads |-> NoValue]
        /\ hist = [k \in Keys |-> <<>>]
        /\ next = [k \in Keys |-> 1]
-----------------------------------------------------------------------------
(* Life cycle, called by one thread. *)

(* size_t depth_ = config.get<int>(): zero is corrected to one, a negative *)
(* number wraps to a bound no queue ever reaches.                          *)
DepthOf(d) == IF d % SizeMod = 0 THEN 1 ELSE d % SizeMod

(* Endpoint::open creates a fresh cache and opens it, hence ~opened. *)
Open(d) == /\ ~opened
           /\ opened' = TRUE
           /\ depth' = IF Kind = "queue" THEN DepthOf(d) ELSE 1
           /\ UNCHANGED <<running, store, callers, hist, next>>

(* A missing or malformed config: the default depth stays, and nothing     *)
(* keeps the endpoint from starting the cache all the same.                *)
OpenFails == /\ ~opened
             /\ opened' = TRUE
             /\ UNCHANGED <<running, depth, store, callers, hist, next>>

Start == /\ opened
         /\ running' = TRUE
         /\ UNCHANGED <<opened, depth, store, callers, hist, next>>

Stop == /\ opened
        /\ running' = FALSE
        /\ UNCHANGED <<opened, depth, store, callers, hist, next>>

Close == /\ opened
         /\ store' = [k \in Keys |-> <<>>]
         /\ running' = FALSE
         /\ hist' = [k \in Keys |-> <<>>]
         /\ next' = [k \in Keys |-> 1]
         /\ UNCHANGED <<opened, depth, callers>>
-----------------------------------------------------------------------------
(* write and read, called by any thread. *)

(* The look at is_running_, before the lock is taken; if it is FALSE the   *)
(* call returns NOT_RUNNING and nothing changes.                           *)
Call(t, op) ==
    /\ pc[t] = Idle
    /\ running
    /\ pc' = [pc EXCEPT ![t] = op]
    /\ UNCHANGED <<opened, running, depth, store, got, hist, next>>

Return(t) == /\ pc' = [pc EXCEPT ![t] = Idle]
             /\ UNCHANGED <<opened, running, depth>>

(* Fault: a full entry drops the new value.                                *)
StoredDropsNewest(q, v) == IF Len(q) + 1 > depth THEN q ELSE Append(q, v)

(* What a write leaves under its key. *)
Stored(q, v) ==
    IF Kind = "buffer"
    THEN <<v>>
    ELSE IF Len(q) + 1 > depth THEN Tail(Append(q, v)) ELSE Append(q, v)

Write(t) ==
    /\ pc[t].op = "write"
    /\ LET k == pc[t].key
           v == pc[t].val
       IN  /\ Len(hist[k]) < MaxHist
           /\ store' = [store EXCEPT ![k] = Stored(@, v)]
           /\ hist' = [hist EXCEPT ![k] = Append(@, v)]
    /\ Return(t)
    /\ UNCHANGED <<got, next>>

(* Fault: the newest value is read first.                                  *)
Newest(t) == LET q == store[pc[t].key] IN q[Len(q)]

Front(t) == Head(store[pc[t].key])

(* NO_ENTRY, or NO_SPACE when the front value is longer than the reader's  *)
(* buffer: what is stored stays where it is.                               *)
ReadNothing(t) ==
    /\ pc[t].op = "read"
    /\ store[pc[t].key] # <<>> => Size[Front(t)] > pc[t].cap
    /\ Return(t)
    /\ UNCHANGED <<store, got, hist, next>>

ReadValue(t) ==
    /\ pc[t].op = "read"
    /\ LET k == pc[t].key
       IN  /\ store[k] # <<>>
           /\ Size[Front(t)] <= pc[t].cap
           /\ got' = [got EXCEPT ![t] = Front(t)]
           /\ IF Kind = "queue"
              THEN /\ store' = [store EXCEPT ![k] = Tail(@)]
                   /\ next' = [next EXCEPT ![k] =
                                  Len(hist[k]) - Len(store[k]) + 2]
              ELSE UNCHANGED <<store, next>>
    /\ Return(t)
    /\ UNCHANGED hist

LifeCycle == \/ \E d \in Depths : Open(d)
             \/ OpenFails
             \/ Start
             \/ Stop
             \/ Close

Caller(t) == \/ \E op \in WriteOp \cup ReadOp : Call(t, op)
             \/ Write(t)
             \/ ReadNothing(t)
             \/ ReadValue(t)

Next == LifeCycle \/ \E t \in Threads : Caller(t)

Spec == Init /\ [][Next]_vars
-----------------------------------------------------------------------------
(* How many of the values written under k the cache should still hold. *)
Unread(k) == Len(hist[k]) - next[k] + 1

(* The cache holds exactly the newest values that were written and not yet *)
(* taken: never more than its depth, and all of them while they fit        *)
(* (cache_queue.hpp:80-93, cache_buffer.hpp:77-87).                        *)
WindowLength ==
    \A k \in Keys :
       Len(store[k]) = IF Unread(k) > depth THEN depth ELSE Unread(k)

(* What the cache holds is the end of what was written, in writing order:  *)
(* no write is lost in the middle, doubled or overtaken.                   *)
WindowContents ==
    \A k \in Keys : \A i \in 1 .. Len(store[k]) :
       store[k][i] = hist[k][Len(hist[k]) - Len(store[k]) + i]

(* Both: what the cache holds is exactly the newest values not yet read.   *)
Window == WindowLength /\ WindowContents

(* What makes the two facts above inductive: nothing is stored, nor any    *)
(* call past its look at is_running_, before open (which sets the depth),  *)
(* and a latest buffer never consumes.                                     *)
Shape == /\ ~opened => /\ ~running
                       /\ \A t \in Threads : pc[t] = Idle
                       /\ \A k \in Keys : hist[k] = <<>>
         /\ \A k \in Keys : next[k] <= Len(hist[k]) + 1
         /\ Kind = "buffer" => /\ depth = 1
                               /\ \A k \in Keys : next[k] = 1

Contract == INSTANCE CacheContract

(* Both caches implement the contract, whatever calls run concurrently.    *)
ImplementsContract == Contract!Spec
=============================================================================
