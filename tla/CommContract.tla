----------------------------- MODULE CommContract -----------------------------
(***************************************************************************)
(* What an endpoint relies on from a comm with a receive thread: received  *)
(* packets are handed to the callback one at a time, only between start    *)
(* and stop, and when stop returns no callback is running or will run.     *)
(***************************************************************************)
EXTENDS Sequences

CONSTANT Packets      \* whatever identifies a received packet

VARIABLES started,    \* start has been called and stop has not returned
          inCallback, \* the receive thread is inside the callback
          delivered   \* the packets handed to the callback so far

vars == <<started, inCallback, delivered>>

Init == /\ started = FALSE
        /\ inCallback = FALSE
        /\ delivered = <<>>

Start == /\ ~started
         /\ started' = TRUE
         /\ UNCHANGED <<inCallback, delivered>>

Deliver == /\ started
           /\ ~inCallback
           /\ inCallback' = TRUE
           /\ \E p \in Packets : delivered' = Append(delivered, p)
           /\ UNCHANGED started

Return == /\ inCallback
          /\ inCallback' = FALSE
          /\ UNCHANGED <<started, delivered>>

Stop == /\ started
        /\ ~inCallback
        /\ started' = FALSE
        /\ UNCHANGED <<inCallback, delivered>>

Next == Start \/ Deliver \/ Return \/ Stop

Spec == Init /\ [][Next]_vars
=============================================================================
