------------------------------- MODULE TcpMux -------------------------------
(***************************************************************************)
(* EndpointCommMultiplexer over TcpCommMultiplexer and TcpSessionComm      *)
(* (src/endpoint_comm_multiplexer.cpp, src/comm_tcp_mux.cpp): one owner    *)
(* thread calls the multiplexer and the endpoints it took, one accept      *)
(* thread turns connections into pending sessions, and every started       *)
(* session has a receive thread of its own.                                *)
(*                                                                         *)
(* A session never changes its connection, so a connection stands for its  *)
(* session, its session's endpoint and its descriptor.                     *)
(***************************************************************************)
EXTENDS Integers, Sequences, FiniteSets, SequencesExt

CONSTANTS Conns,        \* the clients' connections
          Nobody,       \* stands for "no connection"
          Expected,     \* expected_clients of the mux comm config
          MaxPackets    \* bound: packets the clients send

ASSUME MuxAssumption == /\ IsFiniteSet(Conns)
                        /\ Nobody \notin Conns
                        /\ Expected \in Nat
                        /\ MaxPackets \in Nat

VARIABLES
    process,     \* "up", or "terminate": the destructor of, or an assignment
                 \* to, a std::thread that is still joinable
    owner,       \* where the owner is in its call
    target,      \* the session the owner's call is about
    batch,       \* take_endpoints: sessions it took and has not opened yet
    created,     \* EndpointCommMultiplexer::comm_ is set
    listening,   \* listen_fd_ is a listening socket
    muxRunning,  \* TcpCommMultiplexer::is_running_
    accepter,    \* accept_thread_: "none" (not joinable) or where it is
    accepted,    \* the connection accept returned
    pending,     \* pending_sessions_
    count,       \* connected_clients_
    conn,        \* conn[c]: what became of the connection
    fin,         \* fin[c]: the client closed or reset it
    shut,        \* shut[c]: raw_stop shut it down
    inbox,       \* inbox[c]: packets sent and not received
    sent,        \* how many packets the clients sent
    endpoint,    \* endpoint[c]: how far the session got in the owner's hands
    running,     \* running[c]: TcpSessionComm::is_running_
    receiver     \* receiver[c]: recv_thread_, "none" or where it is

ownerVars == <<owner, target, batch, created>>
muxVars == <<listening, muxRunning, accepter, accepted, pending, count>>
clientVars == <<fin, sent>>
sessionVars == <<shut, inbox, endpoint, running, receiver>>
vars == <<process, ownerVars, muxVars, conn, clientVars, sessionVars>>

OwnerSteps == {"idle", "muxFlag", "muxListen", "muxJoin", "muxClose",
               "open", "flag", "shutdown", "join", "close"}
Purposes == {"stop", "close", "destroy"}
AccepterSteps == {"none", "loop", "accept", "push", "count", "done"}
ReceiverSteps == {"none", "loop", "read", "callback", "ending", "exited"}

TypeOK ==
    /\ process \in {"up", "terminate"}
    /\ owner \in [step : OwnerSteps, for : Purposes]
    /\ target \in Conns \cup {Nobody}
    /\ batch \in Seq(Conns)
    /\ created \in BOOLEAN
    /\ listening \in BOOLEAN
    /\ muxRunning \in BOOLEAN
    /\ accepter \in AccepterSteps
    /\ accepted \in Conns \cup {Nobody}
    /\ pending \in Seq(Conns)
    /\ count \in 0 .. Cardinality(Conns)
    /\ conn \in [Conns -> {"none", "backlog", "open", "closed"}]
    /\ fin \in [Conns -> BOOLEAN]
    /\ shut \in [Conns -> BOOLEAN]
    /\ inbox \in [Conns -> 0 .. MaxPackets]
    /\ sent \in 0 .. MaxPackets
    /\ endpoint \in [Conns -> {"none", "held", "closed", "gone"}]
    /\ running \in [Conns -> BOOLEAN]
    /\ receiver \in [Conns -> ReceiverSteps]

At(step, for) == [step |-> step, for |-> for]
Idle == At("idle", "stop")

Init ==
    /\ process = "up"
    /\ owner = Idle
    /\ target = Nobody
    /\ batch = <<>>
    /\ created = FALSE
    /\ listening = FALSE
    /\ muxRunning = FALSE
    /\ accepter = "none"
    /\ accepted = Nobody
    /\ pending = <<>>
    /\ count = 0
    /\ conn = [c \in Conns |-> "none"]
    /\ fin = [c \in Conns |-> FALSE]
    /\ shut = [c \in Conns |-> FALSE]
    /\ inbox = [c \in Conns |-> 0]
    /\ sent = 0
    /\ endpoint = [c \in Conns |-> "none"]
    /\ running = [c \in Conns |-> FALSE]
    /\ receiver = [c \in Conns |-> "none"]
-----------------------------------------------------------------------------
(* The multiplexer, as the owner calls it. *)

(* socket, options, bind and listen; each may fail.                        *)
ListenerOpens == listening' \in BOOLEAN

(* comm_ is kept whether or not its open succeeds, so a second open is BUSY; *)
(* an error before comm_ is created changes nothing.                       *)
Open == /\ owner = Idle
        /\ ~created
        /\ created' = TRUE
        /\ ListenerOpens
        /\ UNCHANGED <<process, owner, target, batch, muxRunning,
                       accepter, accepted, pending, count, conn, clientVars,
                       sessionVars>>

Start ==
    /\ owner = Idle
    /\ created
    /\ ~muxRunning
    /\ muxRunning' = TRUE
    /\ IF accepter = "none"
       THEN accepter' = "loop" /\ UNCHANGED process
       ELSE process' = "terminate" /\ UNCHANGED accepter
    /\ UNCHANGED <<ownerVars, listening, accepted, pending, count, conn,
                   clientVars, sessionVars>>

(* A step of stop or close of the multiplexer.                             *)
MuxCall(next) ==
    /\ owner' = next
    /\ UNCHANGED <<process, target, batch, created, accepted, pending, count,
                   clientVars, sessionVars>>

MuxStopOrClose ==
    /\ owner = Idle
    /\ created
    /\ MuxCall(At("muxFlag", "stop")) \/ MuxCall(At("muxFlag", "close"))
    /\ UNCHANGED <<listening, muxRunning, accepter, conn>>

MuxAfterStop == IF owner.for = "close" THEN At("muxClose", "close") ELSE Idle

MuxFlag ==
    /\ owner.step = "muxFlag"
    /\ muxRunning' = FALSE
    /\ MuxCall(IF muxRunning THEN At("muxListen", owner.for) ELSE MuxAfterStop)
    /\ UNCHANGED <<listening, accepter, conn>>

CloseListener ==
    /\ listening' = FALSE
    /\ conn' = [c \in Conns |-> IF conn[c] = "backlog" THEN "closed" ELSE conn[c]]

(* Fault: the socket is closed only, which wakes no accept waiting on it.  *)
MuxListenClosesOnly ==
    /\ owner.step = "muxListen"
    /\ MuxCall(At("muxJoin", owner.for))
    /\ UNCHANGED <<listening, muxRunning, accepter, conn>>

(* shutdown, which ends a waiting accept and resets the backlog, and close. *)
MuxListen ==
    /\ owner.step = "muxListen"
    /\ CloseListener
    /\ MuxCall(At("muxJoin", owner.for))
    /\ UNCHANGED <<muxRunning, accepter>>

AccepterEnded == accepter \in {"none", "done"}

MuxJoin ==
    /\ owner.step = "muxJoin"
    /\ AccepterEnded
    /\ accepter' = IF accepter = "done" THEN "none" ELSE accepter
    /\ MuxCall(MuxAfterStop)
    /\ UNCHANGED <<listening, muxRunning, conn>>

MuxClose ==
    /\ owner.step = "muxClose"
    /\ CloseListener
    /\ MuxCall(Idle)
    /\ UNCHANGED <<muxRunning, accepter>>

(* Fault: pending_sessions_ is copied, not swapped with an empty list.     *)
CopiedSessions == pending

SwappedSessions == <<>>

(* take_sessions swaps pending_sessions_ out under its mutex.              *)
TakeEndpoints ==
    /\ owner = Idle
    /\ created
    /\ batch' = pending
    /\ pending' = SwappedSessions
    /\ owner' = IF pending = <<>> THEN Idle ELSE At("open", "stop")
    /\ UNCHANGED <<process, target, created, listening, muxRunning, accepter,
                   accepted, count, conn, clientVars, sessionVars>>

AfterOpen == IF Len(batch) = 1 THEN Idle ELSE At("open", "stop")

(* open and start of one endpoint; its receive thread begins.              *)
OpenEndpoint ==
    /\ owner.step = "open"
    /\ LET c == Head(batch)
       IN  /\ endpoint' = [endpoint EXCEPT ![c] = "held"]
           /\ running' = [running EXCEPT ![c] = TRUE]
           /\ receiver' = [receiver EXCEPT ![c] = "loop"]
    /\ batch' = Tail(batch)
    /\ owner' = AfterOpen
    /\ UNCHANGED <<process, target, created, muxVars, conn, clientVars,
                   shut, inbox>>

(* open failed: the endpoint is destroyed, and with it the session.        *)
GiveUpEndpoint ==
    /\ owner.step = "open"
    /\ endpoint' = [endpoint EXCEPT ![Head(batch)] = "gone"]
    /\ conn' = [conn EXCEPT ![Head(batch)] = "closed"]
    /\ batch' = Tail(batch)
    /\ owner' = AfterOpen
    /\ UNCHANGED <<process, target, created, muxVars, clientVars, shut,
                   inbox, running, receiver>>
-----------------------------------------------------------------------------
(* The endpoints the owner took: start, stop, close and destruction. *)

(* Endpoint::start starts the cache and the session, closed or not.        *)
Restart(c) ==
    /\ owner = Idle
    /\ endpoint[c] \in {"held", "closed"}
    /\ ~running[c]
    /\ running' = [running EXCEPT ![c] = TRUE]
    /\ IF receiver[c] = "none"
       THEN receiver' = [receiver EXCEPT ![c] = "loop"] /\ UNCHANGED process
       ELSE process' = "terminate" /\ UNCHANGED receiver
    /\ UNCHANGED <<ownerVars, muxVars, conn, clientVars, shut, inbox, endpoint>>

SessionCall == UNCHANGED <<process, batch, created, muxVars, conn, clientVars,
                           inbox, endpoint>>

Call(c, purpose) ==
    /\ owner = Idle
    /\ endpoint[c] \in {"held", "closed"}
    /\ owner' = At("flag", purpose)
    /\ target' = c
    /\ SessionCall
    /\ UNCHANGED <<shut, running, receiver>>

AfterStop == IF owner.for = "stop"
             THEN owner' = Idle /\ target' = Nobody
             ELSE owner' = At("close", owner.for) /\ UNCHANGED target

(* raw_stop returns at once when the receive thread cleared is_running_.   *)
StopFlag ==
    /\ owner.step = "flag"
    /\ IF running[target]
       THEN owner' = At("shutdown", owner.for) /\ UNCHANGED target
       ELSE AfterStop
    /\ running' = [running EXCEPT ![target] = FALSE]
    /\ SessionCall
    /\ UNCHANGED <<shut, receiver>>

Interrupted(c) == conn[c] = "open"

StopShutdown ==
    /\ owner.step = "shutdown"
    /\ owner' = At("join", owner.for)
    /\ shut' = [shut EXCEPT ![target] = Interrupted(target)]
    /\ SessionCall
    /\ UNCHANGED <<target, running, receiver>>

(* Fault: the receive thread is not waited for.                            *)
ReceiverIgnored(c) == TRUE

ReceiverEnded(c) == receiver[c] \in {"none", "exited"}

StopJoin ==
    /\ owner.step = "join"
    /\ ReceiverEnded(target)
    /\ receiver' = [receiver EXCEPT ![target] = IF @ = "exited" THEN "none" ELSE @]
    /\ AfterStop
    /\ SessionCall
    /\ UNCHANGED <<shut, running>>

(* The socket of c is no more, nor what was known of it.                   *)
CloseSocket(c) == /\ conn' = [conn EXCEPT ![c] = "closed"]
                  /\ fin' = [fin EXCEPT ![c] = FALSE]
                  /\ shut' = [shut EXCEPT ![c] = FALSE]
                  /\ inbox' = [inbox EXCEPT ![c] = 0]

(* raw_close after raw_stop; the destructor goes on to destroy the members. *)
CloseSession ==
    /\ owner.step = "close"
    /\ owner' = Idle
    /\ target' = Nobody
    /\ CloseSocket(target)
    /\ endpoint' = [endpoint EXCEPT ![target] =
                      IF owner.for = "destroy" THEN "gone" ELSE "closed"]
    /\ process' = IF owner.for = "destroy" /\ receiver[target] # "none"
                  THEN "terminate" ELSE process
    /\ UNCHANGED <<batch, created, muxVars, sent, running, receiver>>
-----------------------------------------------------------------------------
(* accept_loop_ *)

AccepterGoes(step) ==
    /\ accepter' = step
    /\ UNCHANGED <<process, ownerVars, listening, muxRunning, clientVars,
                   sessionVars>>

(* Fault: a client is counted before its session is pending.               *)
CountFirst == [accept |-> "count", count |-> "push", push |-> "loop"]

(* What follows in the body of the loop.                                   *)
Then == [accept |-> "push", push |-> "count", count |-> "loop"]

AcceptLoop ==
    /\ accepter = "loop"
    /\ AccepterGoes(IF muxRunning THEN "accept" ELSE "done")
    /\ UNCHANGED <<accepted, pending, count, conn>>

Accept ==
    /\ accepter = "accept"
    /\ \E c \in Conns : /\ conn[c] = "backlog"
                        /\ accepted' = c
                        /\ conn' = [conn EXCEPT ![c] = "open"]
    /\ AccepterGoes(Then[accepter])
    /\ UNCHANGED <<pending, count>>

(* Fault: the first accept in vain ends the loop.                          *)
Break == "done"

Continue == "loop"

AcceptInVain ==
    /\ accepter = "accept"
    /\ AccepterGoes(Continue)
    /\ UNCHANGED <<accepted, pending, count, conn>>

(* The socket is shut down or closed, or never listened.  The listener has *)
(* no receive time-out: on an open one, accept waits for a client.         *)
AcceptFails == ~listening /\ AcceptInVain

(* EINTR, ECONNABORTED, EMFILE.                                            *)
AcceptErrors == listening /\ AcceptInVain

Push ==
    /\ accepter = "push"
    /\ pending' = Append(pending, accepted)
    /\ accepted' = Nobody
    /\ AccepterGoes(Then[accepter])
    /\ UNCHANGED <<count, conn>>

CountOne == count + 1

Count ==
    /\ accepter = "count"
    /\ count' = CountOne
    /\ AccepterGoes(Then[accepter])
    /\ UNCHANGED <<accepted, pending, conn>>
-----------------------------------------------------------------------------
(* recv_loop_ of session c *)

Goto(c, step) ==
    /\ receiver' = [receiver EXCEPT ![c] = step]
    /\ UNCHANGED <<process, ownerVars, muxVars, conn, clientVars, shut, endpoint>>

ReceiveLoop(c) ==
    /\ receiver[c] = "loop"
    /\ Goto(c, IF running[c] THEN "read" ELSE "ending")
    /\ UNCHANGED <<inbox, running>>

ReadPacket(c) ==
    /\ receiver[c] = "read"
    /\ conn[c] = "open"
    /\ inbox[c] > 0
    /\ inbox' = [inbox EXCEPT ![c] = @ - 1]
    /\ Goto(c, "callback")
    /\ UNCHANGED running

(* The connection ended, fd_ was closed before the thread was started, or  *)
(* a header carried an invalid length.                                     *)
ReadFails(c) ==
    /\ receiver[c] = "read"
    /\ shut[c] \/ fin[c] \/ inbox[c] > 0 \/ conn[c] = "closed"
    /\ Goto(c, "ending")
    /\ UNCHANGED <<inbox, running>>

CallbackReturns(c) ==
    /\ receiver[c] = "callback"
    /\ Goto(c, "loop")
    /\ UNCHANGED <<inbox, running>>

ReceiverEnds(c) ==
    /\ receiver[c] = "ending"
    /\ running' = [running EXCEPT ![c] = FALSE]
    /\ Goto(c, "exited")
    /\ UNCHANGED inbox
-----------------------------------------------------------------------------
(* The clients: external programs. *)

ClientUnchanged == UNCHANGED <<process, ownerVars, muxVars, shut, endpoint,
                               running, receiver>>

ClientConnects(c) ==
    /\ listening
    /\ conn[c] = "none"
    /\ conn' = [conn EXCEPT ![c] = "backlog"]
    /\ ClientUnchanged
    /\ UNCHANGED <<clientVars, inbox>>

ClientSends(c) ==
    /\ conn[c] \in {"backlog", "open"}
    /\ ~fin[c]
    /\ sent < MaxPackets
    /\ sent' = sent + 1
    /\ inbox' = [inbox EXCEPT ![c] = @ + 1]
    /\ ClientUnchanged
    /\ UNCHANGED <<conn, fin>>

ClientCloses(c) ==
    /\ conn[c] \in {"backlog", "open"}
    /\ ~fin[c]
    /\ fin' = [fin EXCEPT ![c] = TRUE]
    /\ ClientUnchanged
    /\ UNCHANGED <<conn, sent, inbox>>
-----------------------------------------------------------------------------
OwnerStep == \/ MuxFlag \/ MuxListen \/ MuxJoin \/ MuxClose
             \/ OpenEndpoint \/ GiveUpEndpoint
             \/ StopFlag \/ StopShutdown \/ StopJoin \/ CloseSession

AccepterStep == AcceptLoop \/ Accept \/ Push \/ Count

ReceiverStep(c) == \/ ReceiveLoop(c) \/ ReadPacket(c) \/ ReadFails(c)
                   \/ CallbackReturns(c) \/ ReceiverEnds(c)

Next ==
    /\ process = "up"
    /\ \/ Open \/ Start \/ MuxStopOrClose \/ TakeEndpoints
       \/ \E c \in Conns : \/ Restart(c)
                          \/ \E purpose \in Purposes : Call(c, purpose)
       \/ OwnerStep
       \/ AccepterStep \/ AcceptFails \/ AcceptErrors
       \/ \E c \in Conns : \/ ReceiverStep(c)
                          \/ ClientConnects(c) \/ ClientSends(c) \/ ClientCloses(c)

Spec == Init /\ [][Next]_vars

ClientWaits == \E c \in Conns : conn[c] = "backlog"

(* Threads are scheduled, system calls return when they can, and a call    *)
(* the owner made goes on.  accept may fail any number of times, but not   *)
(* for ever while a client waits; without one it need not return at all.   *)
FairSpec == /\ Spec
            /\ WF_vars(process = "up" /\ OwnerStep)
            /\ WF_vars(process = "up" /\ (AccepterStep \/ AcceptFails))
            /\ <>[][AcceptErrors => ~ClientWaits]_vars
            /\ \A c \in Conns : WF_vars(process = "up" /\ ReceiverStep(c))
-----------------------------------------------------------------------------
Pushed == {c \in Conns : endpoint[c] # "none"} \cup ToSet(pending) \cup ToSet(batch)

(* Every accepted connection is in one place: in the accept thread's hand, *)
(* once in pending_sessions_ or in a batch being opened, or in an endpoint *)
(* the owner holds; what the owner closed or gave up is closed.            *)
NoSessionLost ==
    LET hand == IF accepted = Nobody THEN <<>> ELSE <<accepted>>
        waiting == hand \o pending \o batch
    IN  /\ TypeOK
        /\ IsInjective(waiting)
        /\ \A c \in Conns :
              /\ c \in ToSet(waiting) <=> conn[c] = "open" /\ endpoint[c] = "none"
              /\ endpoint[c] = "held" => conn[c] = "open"
              /\ endpoint[c] \in {"closed", "gone"} => conn[c] = "closed"

(* connected_clients_ never runs ahead of the sessions: the clients        *)
(* is_ready has seen can all be taken, whatever the accept thread does     *)
(* between pushing a session and counting it.                              *)
ReadyMeansAccepted == count >= Expected => Cardinality(Pushed) >= Expected

(* When stop or close of the multiplexer has returned, the accept thread   *)
(* is joined, and start can make another.                                  *)
AccepterJoined ==
    (owner.step \in {"idle", "muxClose"} /\ ~muxRunning) => accepter = "none"

(* A session that is not running, once stop or close of it has returned,   *)
(* is in no callback and makes no other, and reads its descriptor no more. *)
QuietWhenStopped ==
    \A c \in Conns :
        (~running[c] /\ (target = c => owner.step = "close")) =>
            receiver[c] \in {"none", "exited"}

(* Both: what a stop has ended has ended for good, of whoever it was.      *)
StopsAreFinal == AccepterJoined /\ QuietWhenStopped

(* close releases what the comm holds (comm.hpp): no joinable thread is    *)
(* left in a closed session.                                               *)
CloseReleases == \A c \in Conns : endpoint[c] = "closed" => receiver[c] = "none"

(* Calls return, those that join a thread too.                             *)
CallsReturn == owner # Idle ~> owner = Idle \/ process = "terminate"

(* A client that connects while the multiplexer runs becomes a session     *)
(* that can be taken.                                                      *)
ClientsBecomeSessions ==
    \A c \in Conns :
        conn[c] = "backlog" ~>
            c \in Pushed \/ ~muxRunning \/ process = "terminate"
=============================================================================
