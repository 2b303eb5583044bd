---------------------------- MODULE CacheContract ----------------------------
(***************************************************************************)
(* What an endpoint's cache promises to its readers, for both storage      *)
(* modes of the README ("latest" and "queue"), independent of how the      *)
(* cache stores anything.                                                  *)
(*                                                                         *)
(* Every accepted write is remembered in `hist'.  A queue hands out each   *)
(* value at most once, oldest first, but forgets all but the newest        *)
(* `depth' values; a latest buffer shows the newest value and never        *)
(* consumes it.                                                            *)
(***************************************************************************)
EXTENDS Integers, Sequences

CONSTANTS Keys,     \* resolved PDU keys (robot, channel)
          Values,   \* PDU payloads
          Threads,  \* callers of write and read
          Kind,     \* "buffer" (PduLatestBuffer) or "queue" (PduLatestQueue)
          NoValue   \* what `got' holds before a thread's first successful read

VARIABLES hist,     \* hist[k]: the values written under k since the last clear
          next,     \* next[k]: position in hist[k] of the first value not yet taken
          depth,    \* how many values per key are remembered
          got       \* got[t]: the value of t's last successful read

vars == <<hist, next, depth, got>>

(* The oldest position that a reader may still be given. *)
Oldest(k) == LET kept == Len(hist[k]) - depth + 1
             IN  IF next[k] >= kept THEN next[k] ELSE kept

(* The position the next successful read of k returns. *)
Position(k) == IF Kind = "queue" THEN Oldest(k) ELSE Len(hist[k])

Init == /\ hist = [k \in Keys |-> <<>>]
        /\ next = [k \in Keys |-> 1]
        /\ depth = 1
        /\ got = [t \in Threads |-> NoValue]

(* The depth is fixed before anything is stored. *)
Configure == /\ \A k \in Keys : hist[k] = <<>>
             /\ depth' \in Nat \ {0}
             /\ UNCHANGED <<hist, next, got>>

Put(k, v) == /\ hist' = [hist EXCEPT ![k] = Append(@, v)]
             /\ UNCHANGED <<next, depth, got>>

Take(t, k) == /\ Position(k) \in 1 .. Len(hist[k])
              /\ got' = [got EXCEPT ![t] = hist[k][Position(k)]]
              /\ next' = [next EXCEPT ![k] =
                            IF Kind = "queue" THEN Position(k) + 1 ELSE @]
              /\ UNCHANGED <<hist, depth>>

Clear == /\ hist' = [k \in Keys |-> <<>>]
         /\ next' = [k \in Keys |-> 1]
         /\ UNCHANGED <<depth, got>>

Next == \/ Configure
        \/ \E k \in Keys, v \in Values : Put(k, v)
        \/ \E t \in Threads, k \in Keys : Take(t, k)
        \/ Clear

Spec == Init /\ [][Next]_vars
=============================================================================
