------------------------------- MODULE TcpComm -------------------------------
(***************************************************************************)
(* TcpComm (src/comm_tcp.cpp, include/hakoniwa/pdu/comm/comm_tcp.hpp) with *)
(* the parts of PduCommRaw it runs through (comm_raw.hpp): one owner       *)
(* thread that opens, starts, stops and closes, one comm thread            *)
(* (server_loop or client_loop) that accepts or connects and receives, and *)
(* any number of senders, over sockets named by file descriptors.          *)
(*                                                                         *)
(* Granularity: one step per access to shared state that another thread    *)
(* can come between: an atomic load or store, or a system call.  The       *)
(* kernel gives out the lowest free descriptor, so a number that one       *)
(* thread still holds may come to name another connection.                 *)
(***************************************************************************)
EXTENDS Integers, Sequences, FiniteSetsExt

CONSTANTS Direction,      \* "in", "out" or "inout": config_direction_
          Fds,            \* descriptor numbers of the process
          Conns,          \* connections, numbered in the order they are made
          Senders,        \* threads that call send
          Shapes,         \* packets a peer sends: with a body ("full"),
                          \* without, or with a header of invalid length
          Nobody,         \* who holds send_mutex_ when no sender does
          SigpipeIgnored, \* the host program ignores SIGPIPE
          MaxIn,          \* bound: packets a peer sends on a connection
          MaxOut,         \* bound: packets the senders start to send
          MaxPackets      \* bound: packets either way, together

ASSUME TcpAssumption ==
    /\ Direction \in {"in", "out", "inout"}
    /\ Fds \subseteq Nat
    /\ Conns \subseteq Nat \ {0}
    /\ Shapes \subseteq {"full", "empty", "bad"}
    /\ Nobody \notin Senders
    /\ SigpipeIgnored \in BOOLEAN
    /\ MaxIn \in Nat
    /\ MaxOut \in Nat
    /\ MaxPackets \in Nat

NoFd == -1          \* the value of an unset listen_fd_ or client_fd_
Free == 0           \* what an unused descriptor names
Listener == -1      \* what the listening socket's descriptor names

VARIABLES
    role,           \* role_: "server" or "client", from the config
    process,        \* "up", or how the process died
    owner,          \* where the owner is in its call
    closing,        \* the owner's stop was called by raw_close
    ownerFd,        \* raw_stop's current_client_fd
    running,        \* is_running_flag_
    connected,      \* is_connected_
    listenFd,       \* listen_fd_
    clientFd,       \* client_fd_
    thread,         \* comm_thread_: "none" (not joinable) or where it is
    threadFd,       \* the descriptor accept or socket returned
    head,           \* the packet whose header the comm thread read last
    sock,           \* sock[f]: the socket the descriptor f names
    conn,           \* conn[c]: state of connection c as its socket shows it
    shut,           \* shut[c]: c was shut down here, or reset
    fin,            \* fin[c]: the peer closed or reset c
    inbox,          \* inbox[c]: what the peer sent and nobody received
    sent,           \* sent[c]: packets the peer began on c
    owes,           \* owes[c]: the peer sent a header and not yet its body
    outbox,         \* outbox[c]: what the senders wrote to c
    lock,           \* send_mutex_: the sender that holds it
    sender,         \* sender[s]: where s is in its send
    sendFd,         \* sendFd[s]: raw_send's current_client_fd
    packet,         \* packet[s]: the packet s is sending
    outCount,       \* packets the senders began to send
    cut,            \* history: packets whose send failed after their header
    delivered       \* history: packets handed to on_raw_data_received

fdVars == <<listenFd, clientFd>>
lifeVars == <<owner, closing, ownerFd, running, connected, fdVars>>
threadVars == <<thread, threadFd, head, delivered>>
peerVars == <<fin, inbox, sent, owes>>
sockVars == <<sock, conn, shut>>
netVars == <<sockVars, peerVars, outbox>>
sendVars == <<lock, sender, sendFd, packet, outCount, cut>>
vars == <<role, process, lifeVars, threadVars, netVars, sendVars>>

OwnerSteps == {"idle", "flag", "listen", "load", "shutdown", "join", "close"}
ThreadSteps == {"none", "loop", "accept", "socket", "store", "connect",
                "connecting", "options", "receive", "header", "body",
                "callback", "drop", "close", "dropped", "failed", "done"}
SenderSteps == {"idle", "load", "header", "body"}
Parts == [part : {"header", "body"}, shape : Shapes \cup {"full"}, num : 1 .. MaxIn]
OutParts == [part : {"header", "body"}, num : 1 .. MaxOut]
Packets == [conn : Conns, header : 1 .. MaxIn, body : 1 .. MaxIn]

TypeOK ==
    /\ role \in {"server", "client"}
    /\ process \in {"up", "sigpipe", "terminate"}
    /\ owner \in OwnerSteps
    /\ closing \in BOOLEAN
    /\ ownerFd \in Fds \cup {NoFd}
    /\ running \in BOOLEAN
    /\ connected \in BOOLEAN
    /\ listenFd \in Fds \cup {NoFd}
    /\ clientFd \in Fds \cup {NoFd}
    /\ thread \in ThreadSteps
    /\ threadFd \in Fds \cup {NoFd}
    /\ head \in 0 .. MaxIn
    /\ sock \in [Fds -> {Free, Listener} \cup Conns]
    /\ conn \in [Conns -> {"unused", "backlog", "fresh", "syn", "open", "closed"}]
    /\ shut \in [Conns -> BOOLEAN]
    /\ fin \in [Conns -> BOOLEAN]
    /\ inbox \in [Conns -> Seq(Parts)]
    /\ sent \in [Conns -> 0 .. MaxIn]
    /\ owes \in [Conns -> BOOLEAN]
    /\ outbox \in [Conns -> Seq(OutParts)]
    /\ lock \in Senders \cup {Nobody}
    /\ sender \in [Senders -> SenderSteps]
    /\ sendFd \in [Senders -> Fds \cup {NoFd}]
    /\ packet \in [Senders -> 0 .. MaxOut]
    /\ outCount \in 0 .. MaxOut
    /\ cut \subseteq 1 .. MaxOut
    /\ delivered \in Seq(Packets)

Init ==
    /\ role \in {"server", "client"}
    /\ process = "up"
    /\ owner = "idle"
    /\ closing = FALSE
    /\ ownerFd = NoFd
    /\ running = FALSE
    /\ connected = FALSE
    /\ listenFd = NoFd
    /\ clientFd = NoFd
    /\ thread = "none"
    /\ threadFd = NoFd
    /\ head = 0
    /\ sock = [f \in Fds |-> Free]
    /\ conn = [c \in Conns |-> "unused"]
    /\ shut = [c \in Conns |-> FALSE]
    /\ fin = [c \in Conns |-> FALSE]
    /\ inbox = [c \in Conns |-> <<>>]
    /\ sent = [c \in Conns |-> 0]
    /\ owes = [c \in Conns |-> FALSE]
    /\ outbox = [c \in Conns |-> <<>>]
    /\ lock = Nobody
    /\ sender = [s \in Senders |-> "idle"]
    /\ sendFd = [s \in Senders |-> NoFd]
    /\ packet = [s \in Senders |-> 0]
    /\ outCount = 0
    /\ cut = {}
    /\ delivered = <<>>
-----------------------------------------------------------------------------
(* The kernel. *)

LowestFree(f) == /\ sock[f] = Free
                 /\ \A g \in Fds : g < f => sock[g] # Free

NextConn(c) == /\ conn[c] = "unused"
               /\ \A d \in Conns : d < c => conn[d] # "unused"

(* A socket on connection c, under the lowest number.                      *)
NewSocket(c, state) ==
    \E f \in Fds : /\ LowestFree(f)
                   /\ sock' = [sock EXCEPT ![f] = c]
                   /\ conn' = [conn EXCEPT ![c] = state]
                   /\ threadFd' = f

(* Fault: the connection is ended, its descriptor is not closed.           *)
CloseFdLeaks(f) ==
    /\ conn' = [c \in Conns |-> IF sock[f] = c THEN "closed" ELSE conn[c]]
    /\ UNCHANGED sock

(* close(2): the descriptor becomes free and its connection ends.          *)
CloseFd(f) ==
    /\ sock' = [sock EXCEPT ![f] = Free]
    /\ conn' = [c \in Conns |-> IF sock[f] = c THEN "closed" ELSE conn[c]]

(* shutdown and close of the listening socket reset the backlog.           *)
CloseListener ==
    IF listenFd = NoFd
    THEN UNCHANGED <<listenFd, sock, conn>>
    ELSE /\ listenFd' = NoFd
         /\ sock' = [sock EXCEPT ![listenFd] = Free]
         /\ conn' = [c \in Conns |->
                       IF conn[c] = "backlog" THEN "closed" ELSE conn[c]]
-----------------------------------------------------------------------------
(* The owner: open, start, stop and close, called by one thread. *)

OwnerOnly == UNCHANGED <<process, threadVars, peerVars, outbox, sendVars>>

(* A server creates its listening socket; a client only resolves the       *)
(* peer's address.  BUSY, and every config error found before the socket   *)
(* is created, change nothing.                                             *)
Open ==
    /\ owner = "idle"
    /\ clientFd = NoFd /\ listenFd = NoFd
    /\ role = "server"
    /\ \E f \in Fds : /\ LowestFree(f)
                      /\ listenFd' = f
                      /\ sock' = [sock EXCEPT ![f] = Listener]
                      \* listening, or bind, listen or an option failed
                      /\ \/ UNCHANGED <<owner, closing>>
                         \/ owner' = "flag" /\ closing' = TRUE
    /\ OwnerOnly
    /\ UNCHANGED <<ownerFd, running, connected, clientFd, conn, shut>>

(* Assigning to a std::thread that is still joinable ends the process.     *)
Start ==
    /\ owner = "idle"
    /\ ~running
    /\ running' = TRUE
    /\ IF thread = "none"
       THEN thread' = "loop" /\ UNCHANGED process
       ELSE process' = "terminate" /\ UNCHANGED thread
    /\ UNCHANGED <<owner, closing, ownerFd, connected, fdVars, threadFd, head,
                   delivered, netVars, sendVars>>

StopOrClose ==
    /\ owner = "idle"
    /\ owner' = "flag"
    /\ closing' \in BOOLEAN
    /\ OwnerOnly
    /\ UNCHANGED <<ownerFd, running, connected, fdVars, sockVars>>

AfterStop == IF closing THEN "close" ELSE "idle"

(* Fault: with no connection there is nothing to stop.                     *)
HasToStopIfConnected == running /\ connected

HasToStop == running

StopFlag == /\ owner = "flag"
            /\ owner' = IF HasToStop THEN "listen" ELSE AfterStop
            /\ running' = FALSE
            /\ OwnerOnly
            /\ UNCHANGED <<closing, ownerFd, connected, fdVars, sockVars>>

StopListen == /\ owner = "listen"
              /\ owner' = "load"
              /\ CloseListener
              /\ OwnerOnly
              /\ UNCHANGED <<closing, ownerFd, running, connected, clientFd, shut>>

StopLoad == /\ owner = "load"
            /\ owner' = "shutdown"
            /\ ownerFd' = clientFd
            /\ OwnerOnly
            /\ UNCHANGED <<closing, running, connected, fdVars, sockVars>>

(* shutdown(SHUT_RDWR) on whatever the number names by now: nothing if it  *)
(* was closed; a connection attempt under way is aborted.                  *)
StopShutdown ==
    /\ owner = "shutdown"
    /\ owner' = "join"
    /\ ownerFd' = NoFd
    /\ shut' = [c \in Conns |-> \/ shut[c]
                                \/ /\ ownerFd # NoFd
                                   /\ sock[ownerFd] = c
                                   /\ conn[c] \in {"syn", "open"}]
    /\ OwnerOnly
    /\ UNCHANGED <<closing, running, connected, fdVars, sock, conn>>

(* Fault: a thread that is in a callback is not waited for.                *)
MayJoinBusy == thread \in {"none", "done", "callback"}

MayJoin == thread \in {"none", "done"}

StopJoin == /\ owner = "join"
            /\ MayJoin
            /\ thread' = IF thread = "done" THEN "none" ELSE thread
            /\ connected' = FALSE
            /\ owner' = AfterStop
            /\ UNCHANGED <<process, closing, ownerFd, running, fdVars, threadFd,
                           head, delivered, netVars, sendVars>>

(* What raw_close does after raw_stop.                                     *)
CloseSockets ==
    /\ owner = "close"
    /\ owner' = "idle"
    /\ IF clientFd = NoFd
       THEN CloseListener /\ UNCHANGED clientFd
       ELSE /\ clientFd' = NoFd
            /\ listenFd' = NoFd
            /\ sock' = [f \in Fds |->
                          IF f \in {clientFd, listenFd} THEN Free ELSE sock[f]]
            /\ conn' = [c \in Conns |->
                          IF sock[clientFd] = c \/ conn[c] = "backlog"
                          THEN "closed" ELSE conn[c]]
    /\ OwnerOnly
    /\ UNCHANGED <<closing, ownerFd, running, connected, shut>>
-----------------------------------------------------------------------------
(* The comm thread: server_loop and client_loop. *)

Go(step) ==
    /\ thread' = step
    /\ UNCHANGED <<process, owner, closing, ownerFd, running, listenFd, outbox,
                   sendVars>>

(* A step that only looks at something.                                    *)
Goes(step) == /\ Go(step)
              /\ UNCHANGED <<connected, clientFd, threadFd, head, delivered,
                             sockVars, peerVars>>

(* A step that makes or ends a connection, and one that reads.             *)
Connects(step) == Go(step) /\ UNCHANGED <<delivered, shut, peerVars>>
Reads(step) == /\ Go(step)
               /\ UNCHANGED <<connected, clientFd, threadFd, sockVars, fin, sent,
                              owes>>

(* The flag at the head of the outer loop.                                 *)
Loop == /\ thread = "loop"
        /\ Goes(IF ~running THEN "done"
                ELSE IF role = "server" THEN "accept" ELSE "socket")

Waiting(c) == /\ conn[c] = "backlog"
              /\ \A d \in Conns : d < c => conn[d] # "backlog"

Accept ==
    /\ thread = "accept"
    /\ listenFd # NoFd
    /\ \E c \in Conns : Waiting(c) /\ NewSocket(c, "open")
    /\ Connects("store")
    /\ UNCHANGED <<connected, clientFd, head>>

(* accept on a closed descriptor, or with no descriptor left: try again.   *)
AcceptFails == /\ thread = "accept"
               /\ listenFd = NoFd \/ \A f \in Fds : sock[f] # Free
               /\ Goes("loop")

(* SO_RCVTIMEO, set on the listening socket too, ends a wait in vain.      *)
AcceptTimeout == /\ thread = "accept"
                 /\ \A c \in Conns : conn[c] # "backlog"
                 /\ Goes("loop")

Socket ==
    /\ thread = "socket"
    /\ \E c \in Conns : NextConn(c) /\ NewSocket(c, "fresh")
    /\ Connects("store")
    /\ UNCHANGED <<connected, clientFd, head>>

(* No socket to be had: sleep, and start over.                             *)
SocketFails == /\ thread = "socket"
               /\ clientFd' = NoFd
               /\ Connects("loop")
               /\ UNCHANGED <<connected, threadFd, head, sock, conn>>

(* The new descriptor is published, before is_connected_ is set.           *)
StoreFd == /\ thread = "store"
           /\ clientFd' = threadFd
           /\ threadFd' = NoFd
           /\ Connects(IF role = "server" THEN "options" ELSE "connect")
           /\ UNCHANGED <<connected, head, sock, conn>>

Connect == /\ thread = "connect"
           /\ conn' = [conn EXCEPT ![sock[clientFd]] = "syn"]
           /\ Connects("connecting")
           /\ UNCHANGED <<connected, clientFd, threadFd, head, sock>>

ConnectOk == /\ thread = "connecting"
             /\ ~shut[sock[clientFd]]
             /\ conn' = [conn EXCEPT ![sock[clientFd]] = "open"]
             /\ Connects("options")
             /\ UNCHANGED <<connected, clientFd, threadFd, head, sock>>

(* The options of the socket are set; now is_running says so.              *)
SetConnected == /\ thread = "options"
                /\ connected' = TRUE
                /\ Connects("receive")
                /\ UNCHANGED <<clientFd, threadFd, head, sock, conn>>

(* Refused, timed out or aborted: close the socket, then forget it.        *)
ConnectFails == /\ thread = "connecting"
                /\ CloseFd(clientFd)
                /\ Connects("failed")
                /\ UNCHANGED <<connected, clientFd, threadFd, head>>

Forget == /\ thread \in {"failed", "dropped"}
          /\ clientFd' = NoFd
          /\ Connects("loop")
          /\ UNCHANGED <<connected, threadFd, head, sock, conn>>

(* Fault: the receive loop does not look at the flag.                      *)
ReceiveAlways == thread = "receive" /\ Goes("header")

(* The flag at the head of the receive loop.                               *)
Receive == /\ thread = "receive"
           /\ Goes(IF running THEN "header" ELSE "drop")

Packet(c, h, b) == [conn |-> c, header |-> h, body |-> b]

Input == inbox[sock[clientFd]]
TakeInput == /\ Input # <<>>
             /\ inbox' = [inbox EXCEPT ![sock[clientFd]] = Tail(@)]

(* The packet the header announces: meta in server_loop and client_loop.   *)
Meta == Head(Input).num

(* A malformed v1 length ends the connection; an empty v2 body is not read. *)
HeaderLeadsTo == [bad |-> "drop", full |-> "body", empty |-> "callback"]

ReadHeader ==
    /\ thread = "header"
    /\ TakeInput
    /\ head' = Meta
    /\ delivered' = IF Head(Input).shape = "empty"
                    THEN Append(delivered, Packet(sock[clientFd], head', head'))
                    ELSE delivered
    /\ Reads(HeaderLeadsTo[Head(Input).shape])

ReadBody ==
    /\ thread = "body"
    /\ TakeInput
    /\ delivered' = Append(delivered, Packet(sock[clientFd], head, Head(Input).num))
    /\ UNCHANGED head
    /\ Reads("callback")

(* Fault: a read timeout ends the packet and not the connection.           *)
ReadTimesOut == thread \in {"header", "body"} /\ Goes("receive")

(* Fault: recv returning 0 is taken for a timeout.                         *)
EndedByShutdown(c) == shut[c]

Ended(c) == shut[c] \/ fin[c]

(* recv returned 0 or an error.  A reset may discard what was not read.    *)
ReadFails == /\ thread \in {"header", "body"}
             /\ Ended(sock[clientFd])
             /\ Goes("drop")

CallbackReturns == /\ thread = "callback"
                   /\ head' = 0
                   /\ Reads("receive")
                   /\ UNCHANGED <<delivered, inbox>>

(* The receive loop has ended.  client_loop leaves is_connected_ as it is. *)
ClearConnected(step) ==
    /\ connected' = (role = "client" /\ connected)
    /\ head' = 0
    /\ Connects(step)
    /\ UNCHANGED <<clientFd, threadFd, sock, conn>>

CloseClient(step) ==
    /\ CloseFd(clientFd)
    /\ Connects(step)
    /\ UNCHANGED <<connected, clientFd, threadFd, head>>

(* Fault: the descriptor is closed before is_connected_ is cleared.        *)
DropCloseFirst == \/ thread = "drop" /\ CloseClient("close")
                  \/ thread = "close" /\ ClearConnected("dropped")

(* The end of a connection; Forget clears client_fd_ afterwards.           *)
Drop == \/ thread = "drop" /\ ClearConnected("close")
        \/ thread = "close" /\ CloseClient("dropped")
-----------------------------------------------------------------------------
(* The peers: external programs at the other ends of the connections. *)

ThreadAndLifeUnchanged == UNCHANGED <<process, lifeVars, threadVars>>

PeerOnly == ThreadAndLifeUnchanged /\ UNCHANGED <<sock, shut, outbox, sendVars>>

PeerConnects(c) ==
    /\ role = "server"
    /\ \E f \in Fds : sock[f] = Listener
    /\ NextConn(c)
    /\ conn' = [conn EXCEPT ![c] = "backlog"]
    /\ PeerOnly
    /\ UNCHANGED peerVars

PeerMay(c) == conn[c] \in {"backlog", "open"} /\ ~fin[c]

PeerSends(c, part, shape, num) ==
    /\ PeerMay(c)
    /\ inbox' = [inbox EXCEPT ![c] =
                    Append(@, [part |-> part, shape |-> shape, num |-> num])]
    /\ PeerOnly
    /\ UNCHANGED <<conn, fin>>

(* The bounds on both directions together.                                 *)
MorePackets == outCount + MapThenSumSet(LAMBDA c : sent[c], Conns) < MaxPackets

PeerHeader(c) ==
    /\ ~owes[c]
    /\ sent[c] < MaxIn
    /\ MorePackets
    /\ \E shape \in Shapes : /\ PeerSends(c, "header", shape, sent[c] + 1)
                             /\ owes' = [owes EXCEPT ![c] = shape = "full"]
    /\ sent' = [sent EXCEPT ![c] = @ + 1]

PeerBody(c) ==
    /\ owes[c]
    /\ PeerSends(c, "body", "full", sent[c])
    /\ owes' = [owes EXCEPT ![c] = FALSE]
    /\ UNCHANGED sent

PeerCloses(c) ==
    /\ PeerMay(c)
    /\ fin' = [fin EXCEPT ![c] = TRUE]
    /\ PeerOnly
    /\ UNCHANGED <<conn, inbox, sent, owes>>
-----------------------------------------------------------------------------
(* The senders: PduCommRaw::send holds send_mutex_ around raw_send, which  *)
(* loads client_fd_ once and writes the packet in as many parts as the     *)
(* socket takes.  A packet is its header and its body here.                *)

SendUnchanged == UNCHANGED <<lifeVars, threadVars, sock, conn, peerVars, outCount>>

(* Fault: send does not take send_mutex_.                                  *)
LockNothing(s) == UNCHANGED lock

Lock(s) == lock = Nobody /\ lock' = s

SendStart(s) ==
    /\ sender[s] = "idle"
    /\ outCount < MaxOut
    /\ MorePackets
    /\ Lock(s)
    /\ sender' = [sender EXCEPT ![s] = "load"]
    /\ outCount' = outCount + 1
    /\ packet' = [packet EXCEPT ![s] = outCount + 1]
    /\ ThreadAndLifeUnchanged
    /\ UNCHANGED <<netVars, sendFd, cut>>

Unlock(s) == /\ lock' = Nobody
             /\ sender' = [sender EXCEPT ![s] = "idle"]
             /\ sendFd' = [sendFd EXCEPT ![s] = NoFd]
             /\ packet' = [packet EXCEPT ![s] = 0]

SendLoad(s) ==
    /\ sender[s] = "load"
    /\ IF clientFd = NoFd \/ Direction = "in"
       THEN Unlock(s)
       ELSE /\ sender' = [sender EXCEPT ![s] = "header"]
            /\ sendFd' = [sendFd EXCEPT ![s] = clientFd]
            /\ UNCHANGED <<lock, packet>>
    /\ SendUnchanged
    /\ UNCHANGED <<process, shut, outbox, cut>>

Writing(s) == sender[s] \in {"header", "body"}

(* The descriptor is not loaded again: the part goes to whatever it names. *)
SendPart(s) ==
    /\ Writing(s)
    /\ \E c \in Conns :
          /\ sock[sendFd[s]] = c
          /\ conn[c] = "open"
          /\ ~shut[c]
          /\ outbox' = [outbox EXCEPT ![c] =
                           Append(@, [part |-> sender[s], num |-> packet[s]])]
    /\ IF sender[s] = "header"
       THEN /\ sender' = [sender EXCEPT ![s] = "body"]
            /\ UNCHANGED <<lock, sendFd, packet>>
       ELSE Unlock(s)
    /\ SendUnchanged
    /\ UNCHANGED <<process, shut, cut>>

(* Every errno but EAGAIN ends the send where it is: the descriptor names  *)
(* nothing, the peer reset the connection, or the call was interrupted or  *)
(* found no memory and the connection stays as it is.                      *)
SendError(s) ==
    /\ Writing(s)
    /\ \/ sock[sendFd[s]] = Free /\ UNCHANGED shut
       \/ \E c \in Conns, reset \in BOOLEAN :
             /\ sock[sendFd[s]] = c
             /\ conn[c] # "fresh" /\ ~shut[c]
             /\ reset => fin[c]
             /\ shut' = [shut EXCEPT ![c] = reset]
    /\ cut' = IF sender[s] = "body" THEN cut \cup {packet[s]} ELSE cut
    /\ Unlock(s)
    /\ SendUnchanged
    /\ UNCHANGED <<process, outbox>>

(* send(2) without MSG_NOSIGNAL on a socket that is not connected or can   *)
(* send no more: the error comes with a SIGPIPE.                           *)
SendEpipe(s) ==
    /\ Writing(s)
    /\ \/ sock[sendFd[s]] = Listener
       \/ \E c \in Conns : /\ sock[sendFd[s]] = c
                           /\ conn[c] = "fresh" \/ shut[c]
    /\ IF SigpipeIgnored
       THEN Unlock(s) /\ UNCHANGED process
       ELSE process' = "sigpipe" /\ UNCHANGED <<lock, sender, sendFd, packet>>
    /\ SendUnchanged
    /\ UNCHANGED <<shut, outbox, cut>>
-----------------------------------------------------------------------------
OwnerStep == \/ StopFlag \/ StopListen \/ StopLoad \/ StopShutdown
             \/ StopJoin \/ CloseSockets

TryConnect == ConnectOk \/ ConnectFails

TrySocket == Socket \/ SocketFails

ThreadStep == \/ Loop \/ Accept \/ AcceptFails \/ TrySocket \/ StoreFd
              \/ Connect \/ TryConnect \/ SetConnected \/ Forget
              \/ Receive \/ ReadHeader \/ ReadBody \/ ReadFails
              \/ CallbackReturns \/ Drop

PeerStep(c) == \/ PeerConnects(c) \/ PeerHeader(c) \/ PeerBody(c)
               \/ PeerCloses(c)

SenderStep(s) == \/ SendStart(s) \/ SendLoad(s) \/ SendPart(s)
                 \/ SendError(s) \/ SendEpipe(s)

(* The process lives; its config names the role once and for all.          *)
Up == process = "up" /\ UNCHANGED role

Next == /\ Up
        /\ \/ Open \/ Start \/ StopOrClose \/ OwnerStep
           \/ ThreadStep \/ AcceptTimeout
           \/ \E c \in Conns : PeerStep(c)
           \/ \E s \in Senders : SenderStep(s)

Spec == Init /\ [][Next]_vars

(* Calls in progress advance, and the comm thread is scheduled; its        *)
(* blocking calls return when the kernel has something for them.  Callers  *)
(* and peers owe nothing.                                                  *)
FairSpec == Spec /\ WF_vars(Up /\ OwnerStep)
                 /\ WF_vars(Up /\ ThreadStep)
-----------------------------------------------------------------------------
(* Every descriptor in use is one the comm remembers: listen_fd_,          *)
(* client_fd_, or the one server_loop or client_loop is about to publish.  *)
(* None is leaked by a disconnect, a failed connect, or a stop that races  *)
(* an accept, and after a close all are free again.  (With the types.)     *)
FdsAccounted ==
    /\ TypeOK
    /\ \A f \in Fds :
         sock[f] # Free => \/ f \in {listenFd, clientFd}
                           \/ thread = "store" /\ f = threadFd

(* When stop or close has returned, the comm thread is joined: raw_start   *)
(* never assigns to a joinable std::thread, and no callback is running.    *)
JoinedWhenStopped == (owner \in {"idle", "close"} /\ ~running) => thread = "none"

(* While a server reports is_running (raw_is_running), a send that loads   *)
(* client_fd_ finds a descriptor of an open connection: is_connected_ is   *)
(* set after client_fd_ and cleared before the descriptor is closed.       *)
SendableWhenRunning ==
    (role = "server" /\ running /\ connected) =>
        \E c \in Conns : clientFd # NoFd /\ sock[clientFd] = c /\ conn[c] = "open"

(* send_mutex_ keeps the parts of two packets apart on every connection,   *)
(* whatever the descriptors come to name and wherever a send fails: what   *)
(* stands before a body is its own header, and what stands before a header *)
(* is the end of a packet, or a header whose send reported that it failed. *)
WholePackets ==
    \A c \in Conns : \A i \in 2 .. Len(outbox[c]) :
        LET before == outbox[c][i - 1]
            this == outbox[c][i]
        IN  IF this.part = "body"
            THEN before = [part |-> "header", num |-> this.num]
            ELSE before.part = "header" => before.num \in cut

(* PduCommRaw frames packets (comm_tcp.hpp): the body of a packet arrives  *)
(* on the connection its header went to.                                   *)
Framed ==
    \A c \in Conns : \A i \in DOMAIN outbox[c] :
        outbox[c][i].part = "body" =>
            /\ i > 1
            /\ outbox[c][i - 1] = [part |-> "header", num |-> outbox[c][i].num]

(* Of every connection, the packets handed to on_raw_data_received are     *)
(* those the peer sent, whole, in order and without a gap, across stops    *)
(* and reconnects: a read that fails half-way ends the connection.         *)
DeliveredInOrder ==
    \A i \in DOMAIN delivered :
        LET p == delivered[i]
            place == Cardinality({j \in 1 .. i : delivered[j].conn = p.conn})
        IN  p.header = place /\ p.body = place

(* Seen from the endpoint, a TcpComm is a CommContract.                    *)
Started == running \/ owner \in {"listen", "load", "shutdown", "join"}

Contract == INSTANCE CommContract WITH started <- Started,
                                       inCallback <- (thread = "callback")

ImplementsContract == Contract!Spec

(* A stop or close returns, whatever the comm thread is blocked in and     *)
(* wherever it is between accept or connect and its receive loop.          *)
StopReturns == owner # "idle" ~> owner = "idle"

(* A waiting peer is served as soon as the one before it is gone, however  *)
(* that one left.                                                          *)
WaitingPeerServed ==
    \A c \in Conns :
        conn[c] = "backlog" ~> \/ conn[c] # "backlog"
                               \/ ~running
                               \/ \E d \in Conns : conn[d] = "open" /\ ~fin[d]
=============================================================================
