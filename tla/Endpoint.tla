------------------------------- MODULE Endpoint -------------------------------
(***************************************************************************)
(* Endpoint (include/hakoniwa/pdu/endpoint.hpp) between its cache, which   *)
(* is the module PduCache with its own steps, and its comm, of which it    *)
(* relies on CommContract: start makes a receive thread, stop joins it.    *)
(* The comm is a PduCommRaw (comm_raw.hpp): on_raw_data_received looks at  *)
(* on_recv_callback_ and then calls it.                                    *)
(*                                                                         *)
(* One owner opens, starts, stops and closes.  Of the Threads, CommThread  *)
(* is the comm's receive thread, or, in an endpoint without a comm, the    *)
(* application's sender; the others call recv.  send of an endpoint with a *)
(* comm goes to the comm and touches nothing here.                         *)
(***************************************************************************)
EXTENDS PduCache, FiniteSets

CONSTANTS CommThread,
          Subscribers,  \* callbacks in per_pdu_callbacks_
          KeyOf,        \* KeyOf[i]: the key subscriber i registered for
          MaxReceived   \* bound: packets received or sent

ASSUME EndpointAssumption ==
    /\ CommThread \in Threads
    /\ KeyOf \in [Subscribers -> Keys]
    /\ MaxReceived \in Nat

VARIABLES
    hasComm,     \* the config names a comm; it does not change
    process,     \* "up", or "badcall": an empty std::function was called
    owner,       \* where the owner is in its call
    commMade,    \* comm_ is set: open got as far as creating it
    callbackSet, \* the comm's on_recv_callback_ is the endpoint's lambda
    commRunning, \* the comm was started and not told to stop
    commThread,  \* the receive thread exists and is not joined
    stage,       \* where CommThread is in a packet
    packet,      \* the packet it is at, NoValue when there is none
    targets,     \* subscribers notify_subscribers_ copied and has not called
    received,    \* history: packets recv_callback_ was called with, or, with
                 \* no comm, packets that send wrote
    seen         \* history: seen[i], the packets subscriber i was called with

commVars == <<hasComm, commMade, callbackSet, commRunning, commThread>>
packetVars == <<stage, packet, targets, received, seen>>
endpointVars == <<process, owner, commVars, packetVars>>
cacheVars == vars
allVars == <<cacheVars, endpointVars>>

Packets == [key : Keys, val : Values]
OwnerSteps == {"idle", "commStart", "commStop", "commJoin", "cacheStop",
               "unset", "commClose", "commCloseJoin", "cacheClose"}

EndpointTypeOK ==
    /\ TypeOK
    /\ process \in {"up", "badcall"}
    /\ owner \in OwnerSteps
    /\ hasComm \in BOOLEAN
    /\ commMade \in BOOLEAN
    /\ callbackSet \in BOOLEAN
    /\ commRunning \in BOOLEAN
    /\ commThread \in BOOLEAN
    /\ stage \in {"idle", "wait", "check", "call", "write", "copy", "notify"}
    /\ packet \in Packets \cup {NoValue}
    /\ targets \in SUBSET Subscribers
    /\ received \in Seq(Packets)
    /\ seen \in [Subscribers -> Seq(Packets)]

EndpointInit ==
    /\ Init
    /\ process = "up"
    /\ owner = "idle"
    /\ hasComm \in BOOLEAN
    /\ commMade = FALSE
    /\ callbackSet = FALSE
    /\ commRunning = FALSE
    /\ commThread = FALSE
    /\ stage = "idle"
    /\ packet = NoValue
    /\ targets = {}
    /\ received = <<>>
    /\ seen = [i \in Subscribers |-> <<>>]
-----------------------------------------------------------------------------
(* The owner: open, start, stop and close. *)

(* open makes a cache and opens it, then opens the comm and, at the end,   *)
(* sets its callback.  An open that fails on the way leaves what it has    *)
(* made.  Repeated opens are the subject of no run: see the README.        *)
OpenEndpoint ==
    /\ owner = "idle"
    /\ \/ /\ \E d \in Depths : Open(d)
          /\ commMade' \in {hasComm, FALSE}
          /\ callbackSet' \in {commMade', FALSE}
       \/ OpenFails /\ UNCHANGED <<commMade, callbackSet>>
    /\ UNCHANGED <<process, owner, hasComm, commRunning, commThread, packetVars>>

(* The cache first.                                                        *)
StartEndpoint ==
    /\ owner = "idle"
    /\ Start
    /\ owner' = IF commMade THEN "commStart" ELSE "idle"
    /\ UNCHANGED <<process, commVars, packetVars>>

(* A comm that is running already answers BUSY; any other may fail, too,   *)
(* and the cache stays started.                                            *)
StartComm ==
    /\ owner = "commStart"
    /\ \/ commRunning' = TRUE /\ commThread' = TRUE
       \/ UNCHANGED <<commRunning, commThread>>
    /\ owner' = "idle"
    /\ UNCHANGED <<process, hasComm, commMade, callbackSet, packetVars, cacheVars>>

Enter(step) == /\ owner = "idle"
               /\ opened
               /\ owner' = step
               /\ UNCHANGED <<process, commVars, packetVars, cacheVars>>

(* Fault: the cache stops before the comm.                                 *)
StopCacheOnly == Enter("cacheStop")

StopEndpoint == Enter(IF commMade THEN "commStop" ELSE "cacheStop")

CloseEndpoint == Enter(IF commMade THEN "unset" ELSE "cacheClose")

UnsetCallback ==
    /\ owner = "unset"
    /\ callbackSet' = FALSE
    /\ owner' = "commClose"
    /\ UNCHANGED <<process, hasComm, commMade, commRunning, commThread, packetVars,
                   cacheVars>>

(* The comm's stop, called directly or by its close: clear the flag,       *)
(* interrupt what blocks, join.                                            *)
CommFlag ==
    /\ owner \in {"commStop", "commClose"}
    /\ owner' = IF owner = "commStop" THEN "commJoin" ELSE "commCloseJoin"
    /\ commRunning' = FALSE
    /\ UNCHANGED <<process, hasComm, commMade, callbackSet, commThread, packetVars,
                   cacheVars>>

(* Fault: the receive thread is not waited for.                            *)
CommDetaches ==
    /\ owner \in {"commJoin", "commCloseJoin"}
    /\ owner' = IF owner = "commJoin" THEN "cacheStop" ELSE "cacheClose"
    /\ UNCHANGED <<process, commVars, packetVars, cacheVars>>

CommJoin ==
    /\ owner \in {"commJoin", "commCloseJoin"}
    /\ ~commThread
    /\ owner' = IF owner = "commJoin" THEN "cacheStop" ELSE "cacheClose"
    /\ UNCHANGED <<process, commVars, packetVars, cacheVars>>

StopCache ==
    /\ owner = "cacheStop"
    /\ Stop
    /\ owner' = "idle"
    /\ UNCHANGED <<process, commVars, packetVars>>

CloseCache ==
    /\ owner = "cacheClose"
    /\ Close
    /\ owner' = "idle"
    /\ UNCHANGED <<process, commVars, packetVars>>
-----------------------------------------------------------------------------
(* A packet on its way: from the comm's receive thread through             *)
(* on_raw_data_received and recv_callback_, or from send.                  *)

OwnerUnchanged ==
    UNCHANGED <<process, owner, hasComm, commMade, callbackSet, commRunning>>

(* Where CommThread goes next in its packet; it is done with it at "idle". *)
GoTo(step) == /\ stage' = step
              /\ packet' = IF step = "idle" THEN NoValue ELSE packet

(* The receive loop looks at the flag before every packet it waits for.    *)
Wait ==
    /\ commThread
    /\ stage = "idle"
    /\ commRunning
    /\ stage' = "wait"
    /\ OwnerUnchanged
    /\ UNCHANGED <<commThread, packet, targets, received, seen, cacheVars>>

Receive ==
    /\ stage = "wait"
    /\ Len(received) < MaxReceived
    /\ packet' \in Packets
    /\ stage' = "check"
    /\ OwnerUnchanged
    /\ UNCHANGED <<commThread, targets, received, seen, cacheVars>>

(* Fault: stop does not interrupt a read.                                  *)
ReceiverExitsIdle ==
    /\ commThread
    /\ stage = "idle"
    /\ ~commRunning
    /\ commThread' = FALSE
    /\ OwnerUnchanged
    /\ UNCHANGED <<packetVars, cacheVars>>

ReceiverExits ==
    /\ commThread
    /\ stage \in {"idle", "wait"}
    /\ ~commRunning
    /\ commThread' = FALSE
    /\ stage' = "idle"
    /\ OwnerUnchanged
    /\ UNCHANGED <<packet, targets, received, seen, cacheVars>>

Check ==
    /\ stage = "check"
    /\ GoTo(IF callbackSet THEN "call" ELSE "idle")
    /\ OwnerUnchanged
    /\ UNCHANGED <<commThread, targets, received, seen, cacheVars>>

(* The look of Check and this call are not one step: close assigns an      *)
(* empty function to on_recv_callback_ while the receive thread runs.      *)
CallBack ==
    /\ stage = "call"
    /\ IF callbackSet
       THEN /\ stage' = "write"
            /\ received' = Append(received, packet)
            /\ UNCHANGED process
       ELSE /\ process' = "badcall"
            /\ UNCHANGED <<stage, received>>
    /\ UNCHANGED <<owner, commVars, packet, targets, seen, cacheVars>>

(* Endpoint::send without a comm.                                          *)
Send ==
    /\ ~commMade
    /\ opened
    /\ stage = "idle"
    /\ Len(received) < MaxReceived
    /\ packet' \in Packets
    /\ stage' = "write"
    /\ OwnerUnchanged
    /\ UNCHANGED <<commThread, targets, received, seen, cacheVars>>

WriteLook ==
    /\ stage = "write"
    /\ Call(CommThread, [op |-> "write", key |-> packet.key, val |-> packet.val])
    /\ OwnerUnchanged
    /\ UNCHANGED <<commThread, packetVars>>

(* A cache that is not running refuses.  recv_callback_ ignores that and   *)
(* notifies all the same; send returns the error.                          *)
WriteRefused ==
    /\ stage = "write"
    /\ pc[CommThread] = Idle
    /\ ~running
    /\ GoTo(IF commMade THEN "copy" ELSE "idle")
    /\ OwnerUnchanged
    /\ UNCHANGED <<commThread, targets, received, seen, cacheVars>>

WriteCache ==
    /\ stage = "write"
    /\ Write(CommThread)
    /\ stage' = "copy"
    /\ received' = IF commMade THEN received ELSE Append(received, packet)
    /\ OwnerUnchanged
    /\ UNCHANGED <<commThread, packet, targets, seen>>

(* Fault: the key is not compared.                                         *)
CopyAll ==
    /\ stage = "copy"
    /\ targets' = Subscribers
    /\ stage' = "notify"
    /\ OwnerUnchanged
    /\ UNCHANGED <<commThread, packet, received, seen, cacheVars>>

(* notify_subscribers_ copies the matching callbacks under cb_mtx_ and     *)
(* calls them without it.                                                  *)
CopyTargets ==
    /\ stage = "copy"
    /\ targets' = {i \in Subscribers : KeyOf[i] = packet.key}
    /\ GoTo(IF targets' = {} THEN "idle" ELSE "notify")
    /\ OwnerUnchanged
    /\ UNCHANGED <<commThread, received, seen, cacheVars>>

Notify(i) ==
    /\ stage = "notify"
    /\ i \in targets
    /\ seen' = [seen EXCEPT ![i] = Append(@, packet)]
    /\ targets' = targets \ {i}
    /\ GoTo(IF targets' = {} THEN "idle" ELSE "notify")
    /\ OwnerUnchanged
    /\ UNCHANGED <<commThread, received, cacheVars>>

(* Endpoint::recv: the cache's read; when that fails, a raw comm's recv,   *)
(* which is UNSUPPORTED and changes nothing.                               *)
Recv(t) ==
    /\ \/ \E op \in ReadOp : Call(t, op)
       \/ ReadNothing(t)
       \/ ReadValue(t)
    /\ UNCHANGED endpointVars
-----------------------------------------------------------------------------
OwnerStep == StartComm \/ UnsetCallback \/ CommFlag \/ CommJoin \/ StopCache \/ CloseCache

PacketStep == \/ Wait \/ ReceiverExits \/ Check \/ CallBack
              \/ WriteLook \/ WriteRefused \/ WriteCache \/ CopyTargets
              \/ \E i \in Subscribers : Notify(i)

EndpointNext ==
    /\ process = "up"
    /\ \/ OpenEndpoint \/ StartEndpoint \/ StopEndpoint \/ CloseEndpoint
       \/ OwnerStep
       \/ Receive \/ Send \/ PacketStep
       \/ \E t \in Threads \ {CommThread} : Recv(t)

EndpointSpec == EndpointInit /\ [][EndpointNext]_allVars

(* A call goes on, the receive thread is scheduled, and subscribers return. *)
EndpointFairSpec == /\ EndpointSpec
                    /\ WF_allVars(process = "up" /\ OwnerStep)
                    /\ WF_allVars(process = "up" /\ PacketStep)
-----------------------------------------------------------------------------
(* While the comm can receive, the cache takes what it receives: start     *)
(* starts the cache first, stop and close end the comm first.  No packet   *)
(* that reaches recv_callback_ is refused by a stopped cache.  (With the   *)
(* types of the state.)                                                    *)
CacheOutlivesComm == EndpointTypeOK /\ (commThread => running)

(* A subscriber that is being told of a packet and calls recv finds it:    *)
(* the cache was written before, and holds it as its newest value unless a *)
(* reader has already taken it from the queue.                             *)
StoredBeforeNotified ==
    (commMade /\ stage = "notify") =>
        LET q == store[packet.key]
        IN  IF q = <<>> THEN Kind = "queue" ELSE q[Len(q)] = packet.val

(* t is what s holds of the key k, once each and in order: the n-th of the *)
(* packets of k in s is t's n-th, and t has no others.                     *)
OfKey(s, k) == {n \in DOMAIN s : s[n].key = k}

Selects(t, s, k) ==
    /\ Len(t) = Cardinality(OfKey(s, k))
    /\ \A n \in OfKey(s, k) : t[Cardinality({m \in OfKey(s, k) : m <= n})] = s[n]

(* The packet that subscriber i is still to be called with.                *)
Untold(i) == IF /\ \/ stage = "write" /\ commMade
                   \/ stage = "copy"
                   \/ stage = "notify" /\ i \in targets
                /\ packet.key = KeyOf[i]
             THEN <<packet>> ELSE <<>>

(* Every subscriber is called once for every packet of its key, in the     *)
(* order of reception, and for no other.                                   *)
EverySubscriberOnce ==
    \A i \in Subscribers : Selects(seen[i] \o Untold(i), received, KeyOf[i])

(* Once stop or close has ended the comm, no packet is on its way: no      *)
(* subscriber is called, and the cache is stopped or cleared with no write *)
(* of the comm thread past its look at is_running_.                        *)
QuietAfterStop ==
    (commMade /\ ~commRunning /\ owner \in {"idle", "cacheStop", "cacheClose"}) =>
        stage = "idle"

(* The comm thread calls on_recv_callback_ only while it is set; close is  *)
(* how blocking I/O of a background thread may be interrupted.             *)
CallbackAlive == process # "badcall"

(* That call is lost only to a close that ends a running comm itself:      *)
(* after a stop, close finds no receive thread left to hurt.               *)
BadCallNeedsClose ==
    process = "badcall" => commThread /\ owner \in {"commClose", "commCloseJoin"}

(* start, stop and close return, joins of the receive thread included.     *)
OwnerReturns == owner # "idle" ~> owner = "idle" \/ process = "badcall"
=============================================================================
