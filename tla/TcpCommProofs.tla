----------------------------- MODULE TcpCommProofs -----------------------------
(***************************************************************************)
(* TcpComm's life cycle, descriptors and packets on the wire, for any      *)
(* descriptors, connections, senders and bounds, and that it implements    *)
(* CommContract.                                                           *)
(***************************************************************************)
EXTENDS TcpComm, SequenceTheorems, FiniteSetTheorems, TLAPS

(* Who is_running_flag_ tells of: without it, and outside of a stop that   *)
(* has begun, there is no comm thread.                                     *)
LifeInv ==
    /\ owner \in {"idle", "flag", "close"} /\ ~running => thread = "none"
    /\ owner \notin {"idle", "flag"} => ~running

NoConnection == {"none", "loop", "accept", "socket", "store", "done"}
Published == {"receive", "header", "body", "callback", "drop"}
Opened == Published \cup {"options", "close"}
OnConnection == Opened \cup {"connect", "connecting"}

(* What the descriptors that the comm remembers name, by where its thread  *)
(* is; there are no others.                                                *)
SockInv ==
    /\ listenFd # NoFd => sock[listenFd] = Listener
    /\ thread \in NoConnection => clientFd = NoFd
    /\ thread \in OnConnection => clientFd \in Fds /\ sock[clientFd] \in Conns
    /\ thread \in {"failed", "dropped"} => clientFd \in Fds /\ sock[clientFd] = Free
    /\ thread = "store" => threadFd \in Fds /\ sock[threadFd] \in Conns
    /\ \A f \in Fds :
         sock[f] # Free => f \in {listenFd, clientFd} \/ (thread = "store" /\ f = threadFd)

(* A server's connection is open from the accept until it is dropped, and  *)
(* is_connected_ is set only in between: after client_fd_ was stored, and  *)
(* cleared before the descriptor is closed.                                *)
ServerInv ==
    role = "server" =>
        /\ thread \notin {"socket", "connect", "connecting", "failed"}
        /\ thread = "store" => conn[sock[threadFd]] = "open"
        /\ thread \in Opened => conn[sock[clientFd]] = "open"
        /\ connected => thread \in Published

(* Numbers of packets under way, in and out.                               *)
CountInv ==
    /\ thread = "body" => head \in 1 .. MaxIn
    /\ \A c \in Conns : owes[c] => sent[c] \in 1 .. MaxIn
    /\ \A s \in Senders : sender[s] # "idle" => packet[s] \in 1 .. MaxOut

(* Who holds send_mutex_ is who is in a send.                              *)
LockInv ==
    /\ \A s \in Senders : sender[s] # "idle" <=> lock = s
    /\ \A s \in Senders : sender[s] \in {"header", "body"} => sendFd[s] \in Fds

(* Only a server accepts; a connection is new where the thread takes it    *)
(* for new, and nothing was written to one that was not open yet.          *)
NewInv ==
    /\ thread = "accept" => role = "server"
    /\ thread = "store" => conn[sock[threadFd]] \in {"fresh", "open"}
    /\ role = "client" /\ thread = "store" => conn[sock[threadFd]] = "fresh"
    /\ thread = "connect" => conn[sock[clientFd]] = "fresh"
    /\ thread = "connecting" => conn[sock[clientFd]] = "syn"
    /\ \A c \in Conns :
         conn[c] \in {"unused", "backlog", "fresh", "syn"} => outbox[c] = <<>>

(* What the last part written to c is, who is to write the next one, and   *)
(* whether the socket would take it.                                       *)
EndsInHeader(c) == outbox[c] # <<>> /\ outbox[c][Len(outbox[c])].part = "header"
EndsCut(c) == outbox[c][Len(outbox[c])].num \in cut
AwaitsBody(c, s) == /\ sender[s] = "body"
                    /\ sock[sendFd[s]] = c
Writable(c) == conn[c] = "open" /\ ~shut[c]

(* A header on a connection that can still be written to is its last part  *)
(* only while the sender of the packet is about to write the body there,   *)
(* or if its send has failed; and a sender that is about to write a body   *)
(* finds its header, or, on a connection that took over the descriptor,    *)
(* nothing.                                                                *)
PendingInv ==
    /\ \A c \in Conns :
         Writable(c) /\ EndsInHeader(c) => \/ EndsCut(c)
                                            \/ \E s \in Senders : AwaitsBody(c, s)
    /\ \A c \in Conns, s \in Senders :
         Writable(c) /\ AwaitsBody(c, s) /\ outbox[c] # <<>>
           => outbox[c][Len(outbox[c])] = [part |-> "header", num |-> packet[s]]

SendInv == LockInv /\ NewInv /\ PendingInv /\ WholePackets

IInv == TypeOK /\ LifeInv /\ SockInv /\ ServerInv /\ CountInv
-----------------------------------------------------------------------------
(* What the proofs use of the constants.                                   *)
LEMMA Constants ==
    /\ Fds \subseteq Nat /\ NoFd \notin Fds
    /\ Conns \subseteq Nat \ {0} /\ Free \notin Conns /\ Listener \notin Conns
    /\ Free # Listener
    /\ Shapes \subseteq {"full", "empty", "bad"}
    /\ MaxIn \in Nat /\ MaxOut \in Nat
    /\ Nobody \notin Senders
  BY TcpAssumption DEF NoFd, Free, Listener

(* Before open there are no descriptors, connections or threads.           *)
LEMMA InitIInv == Init => IInv
  <1> SUFFICES ASSUME Init PROVE IInv
    OBVIOUS
  <1>1. TypeOK
    <2>1. /\ inbox \in [Conns -> Seq(Parts)]
          /\ outbox \in [Conns -> Seq(OutParts)]
          /\ delivered \in Seq(Packets)
      BY DEF Init
    <2>2. sent \in [Conns -> 0 .. MaxIn] /\ packet \in [Senders -> 0 .. MaxOut]
      BY Constants DEF Init
    <2>3. head \in 0 .. MaxIn /\ outCount \in 0 .. MaxOut
      BY Constants DEF Init
    <2> QED
      BY <2>1, <2>2, <2>3 DEF Init, TypeOK, OwnerSteps, ThreadSteps, SenderSteps
  <1>2. LifeInv /\ SockInv /\ ServerInv /\ CountInv
    BY DEF Init, LifeInv, SockInv, ServerInv, CountInv, NoConnection, OnConnection, Published,
       Opened
  <1> QED
    BY <1>1, <1>2 DEF IInv

(* What the next packet of the connection looks like.                      *)
LEMMA InputParts ==
    ASSUME TypeOK, thread \in OnConnection, SockInv, Input # <<>>
    PROVE  /\ Head(Input) \in Parts
           /\ Tail(Input) \in Seq(Parts)
           /\ Meta \in 1 .. MaxIn
           /\ HeaderLeadsTo[Head(Input).shape] \in {"drop", "body", "callback"}
  <1>1. Input \in Seq(Parts)
    BY DEF TypeOK, SockInv, Input
  <1>2. Head(Input) \in Parts /\ Tail(Input) \in Seq(Parts)
    BY <1>1
  <1>3. Head(Input).num \in 1 .. MaxIn /\ Head(Input).shape \in {"full", "empty", "bad"}
    BY <1>2, Constants DEF Parts
  <1> QED
    BY <1>2, <1>3 DEF Meta, HeaderLeadsTo

(* TypeOK in parts, as groups of actions leave them alone.                 *)
LifeTypes ==
    /\ role \in {"server", "client"}
    /\ process \in {"up", "sigpipe", "terminate"}
    /\ owner \in OwnerSteps
    /\ closing \in BOOLEAN
    /\ ownerFd \in Fds \cup {NoFd}
    /\ running \in BOOLEAN
    /\ connected \in BOOLEAN
    /\ listenFd \in Fds \cup {NoFd}
    /\ clientFd \in Fds \cup {NoFd}

ThreadTypes ==
    /\ thread \in ThreadSteps
    /\ threadFd \in Fds \cup {NoFd}
    /\ head \in 0 .. MaxIn
    /\ delivered \in Seq(Packets)

SockTypes ==
    /\ sock \in [Fds -> {Free, Listener} \cup Conns]
    /\ conn \in [Conns -> {"unused", "backlog", "fresh", "syn", "open", "closed"}]
    /\ shut \in [Conns -> BOOLEAN]

PeerTypes ==
    /\ fin \in [Conns -> BOOLEAN]
    /\ inbox \in [Conns -> Seq(Parts)]
    /\ sent \in [Conns -> 0 .. MaxIn]
    /\ owes \in [Conns -> BOOLEAN]

SendTypes ==
    /\ outbox \in [Conns -> Seq(OutParts)]
    /\ lock \in Senders \cup {Nobody}
    /\ sender \in [Senders -> SenderSteps]
    /\ sendFd \in [Senders -> Fds \cup {NoFd}]
    /\ packet \in [Senders -> 0 .. MaxOut]
    /\ outCount \in 0 .. MaxOut
    /\ cut \subseteq 1 .. MaxOut

(* The types in five parts, by who changes them.                           *)
LEMMA TypeParts ==
    /\ TypeOK <=> LifeTypes /\ ThreadTypes /\ SockTypes /\ PeerTypes /\ SendTypes
    /\ TypeOK' <=> LifeTypes' /\ ThreadTypes' /\ SockTypes' /\ PeerTypes' /\ SendTypes'
  BY DEF TypeOK, LifeTypes, ThreadTypes, SockTypes, PeerTypes, SendTypes

(* Who does not touch a part keeps its types.                              *)
LEMMA TypesKept ==
    ASSUME TypeOK
    PROVE  /\ UNCHANGED <<role, process, lifeVars>> => LifeTypes'
           /\ UNCHANGED threadVars => ThreadTypes'
           /\ UNCHANGED sockVars => SockTypes'
           /\ UNCHANGED peerVars => PeerTypes'
           /\ UNCHANGED <<outbox, sendVars>> => SendTypes'
  <1>1. LifeTypes /\ ThreadTypes /\ SockTypes /\ PeerTypes /\ SendTypes
    BY TypeParts
  <1>2. UNCHANGED <<role, process, lifeVars>> => LifeTypes'
    BY <1>1 DEF LifeTypes, lifeVars, fdVars
  <1>3. UNCHANGED threadVars => ThreadTypes'
    BY <1>1 DEF ThreadTypes, threadVars
  <1>4. UNCHANGED sockVars => SockTypes'
    BY <1>1 DEF SockTypes, sockVars
  <1>5. UNCHANGED peerVars => PeerTypes'
    BY <1>1 DEF PeerTypes, peerVars
  <1>6. UNCHANGED <<outbox, sendVars>> => SendTypes'
    BY <1>1 DEF SendTypes, sendVars
  <1> QED
    BY <1>2, <1>3, <1>4, <1>5, <1>6

(* The types, under the steps of the owner.                                *)
LEMMA OwnerType ==
    ASSUME IInv, Open \/ Start \/ StopOrClose \/ OwnerStep, UNCHANGED role
    PROVE  TypeOK'
  <1>0. TypeOK /\ LifeTypes /\ ThreadTypes /\ SockTypes
    BY TypeParts DEF IInv
  <1>a. UNCHANGED <<peerVars, outbox, sendVars>>
    BY DEF Open, Start, StopOrClose, OwnerStep, StopFlag, StopListen, StopLoad,
       StopShutdown, StopJoin, CloseSockets, OwnerOnly, netVars
  <1>b. PeerTypes' /\ SendTypes'
    BY <1>0, <1>a, TypesKept
  <1> SUFFICES LifeTypes' /\ ThreadTypes' /\ SockTypes'
    BY <1>b, TypeParts
  <1> USE <1>0 DEF LifeTypes, ThreadTypes, SockTypes, OwnerSteps, ThreadSteps
  <1>1. CASE Open
    <2>1. LifeTypes'
      BY <1>1 DEF Open, OwnerOnly
    <2>2. ThreadTypes'
      BY <1>1 DEF Open, OwnerOnly, threadVars
    <2>3. SockTypes'
      BY <1>1 DEF Open
    <2> QED
      BY <2>1, <2>2, <2>3
  <1>2. CASE Start
    BY <1>2 DEF Start, fdVars, netVars, sockVars
  <1>3. CASE StopOrClose
    BY <1>3 DEF StopOrClose, OwnerOnly, fdVars, threadVars, sockVars
  <1>4. CASE StopFlag
    <2>1. LifeTypes'
      BY <1>4 DEF StopFlag, AfterStop, OwnerOnly, fdVars
    <2>2. ThreadTypes' /\ SockTypes'
      BY <1>4 DEF StopFlag, OwnerOnly, threadVars, sockVars
    <2> QED
      BY <2>1, <2>2
  <1>5. CASE StopListen
    BY <1>5 DEF StopListen, CloseListener, OwnerOnly, threadVars
  <1>6. CASE StopLoad
    BY <1>6 DEF StopLoad, OwnerOnly, fdVars, threadVars, sockVars
  <1>7. CASE StopShutdown
    BY <1>7 DEF StopShutdown, OwnerOnly, fdVars, threadVars
  <1>8. CASE StopJoin
    BY <1>8 DEF StopJoin, AfterStop, fdVars, netVars, sockVars
  <1>9. CASE CloseSockets
    BY <1>9 DEF CloseSockets, CloseListener, OwnerOnly, threadVars
  <1> QED
    BY <1>1, <1>2, <1>3, <1>4, <1>5, <1>6, <1>7, <1>8, <1>9 DEF OwnerStep

(* The types, under the steps of the comm thread.                          *)
LEMMA ThreadType ==
    ASSUME IInv, ThreadStep \/ AcceptTimeout, UNCHANGED role
    PROVE  TypeOK'
  <1>0. TypeOK /\ SockInv /\ CountInv
    BY DEF IInv
  <1>t. LifeTypes /\ ThreadTypes /\ SockTypes /\ PeerTypes
    BY <1>0, TypeParts
  <1>a. UNCHANGED <<process, owner, closing, ownerFd, running, listenFd, outbox, sendVars>>
    BY DEF ThreadStep, TrySocket, TryConnect, Loop, Accept, AcceptFails, AcceptTimeout, Socket,
       SocketFails, StoreFd, Connect, ConnectOk, SetConnected, ConnectFails, Forget, Receive,
       ReadHeader,
       ReadBody, ReadFails, CallbackReturns, Drop, ClearConnected, CloseClient, Goes, Connects,
       Reads, Go
  <1>b. SendTypes'
    BY <1>0, <1>a, TypesKept
  <1> SUFFICES /\ connected' \in BOOLEAN /\ clientFd' \in Fds \cup {NoFd}
               /\ ThreadTypes' /\ SockTypes' /\ PeerTypes'
    <2>1. ASSUME connected' \in BOOLEAN, clientFd' \in Fds \cup {NoFd}
          PROVE  LifeTypes'
      BY <1>t, <1>a, <2>1 DEF LifeTypes
    <2> QED
      BY <1>b, <2>1, TypeParts
  <1> USE <1>t DEF LifeTypes, ThreadTypes, SockTypes, PeerTypes, ThreadSteps
  <1>1. CASE Loop \/ AcceptFails \/ AcceptTimeout \/ Receive \/ ReadFails
    BY <1>1 DEF Loop, AcceptFails, AcceptTimeout, Receive, ReadFails, Goes, Go, sockVars,
       peerVars
  <1>2. CASE Accept \/ Socket
    <2>1. PICK c \in Conns, state \in {"open", "fresh"} : NewSocket(c, state)
      BY <1>2 DEF Accept, Socket
    <2>2. SockTypes' /\ threadFd' \in Fds
      BY <1>2, <2>1 DEF Accept, Socket, NewSocket, Connects
    <2>3. /\ thread' = "store"
          /\ UNCHANGED <<connected, clientFd, head, delivered, peerVars>>
      BY <1>2 DEF Accept, Socket, Connects, Go
    <2>4. PeerTypes'
      BY <2>3 DEF peerVars
    <2> QED
      BY <2>2, <2>3, <2>4
  <1>3. CASE SocketFails \/ StoreFd \/ Forget
    BY <1>3 DEF SocketFails, StoreFd, Forget, Connects, Go, peerVars
  <1>4. CASE Connect \/ ConnectOk \/ SetConnected
    <2>1. SockTypes'
      BY <1>4 DEF Connect, ConnectOk, SetConnected, Connects
    <2>2. /\ connected' \in {connected, TRUE}
          /\ thread' \in {"connecting", "options", "receive"}
          /\ UNCHANGED <<clientFd, threadFd, head, delivered, peerVars>>
      BY <1>4 DEF Connect, ConnectOk, SetConnected, Connects, Go
    <2>3. PeerTypes'
      BY <2>2 DEF peerVars
    <2>4. /\ ThreadTypes'
          /\ connected' \in BOOLEAN /\ clientFd' \in Fds \cup {NoFd}
      BY <2>2
    <2> QED
      BY <2>1, <2>3, <2>4
  <1>5. CASE ConnectFails
    BY <1>5 DEF ConnectFails, CloseFd, Connects, Go, peerVars
  <1>6. CASE Drop
    <2>1. CASE ClearConnected("close")
      <3>1. head' = 0 /\ 0 \in 0 .. MaxIn
        BY <2>1, Constants DEF ClearConnected
      <3>2. /\ connected' \in BOOLEAN /\ thread' = "close"
            /\ UNCHANGED <<clientFd, threadFd, delivered, sockVars, peerVars>>
        BY <2>1 DEF ClearConnected, Connects, Go, sockVars
      <3> QED
        BY <3>1, <3>2 DEF sockVars, peerVars
    <2>2. CASE CloseClient("dropped")
      BY <2>2 DEF CloseClient, CloseFd, Connects, Go, peerVars
    <2> QED
      BY <1>6, <2>1, <2>2 DEF Drop
  <1>7. CASE ReadHeader
    <2>1. thread \in OnConnection /\ Input # <<>>
      BY <1>7 DEF ReadHeader, TakeInput, OnConnection, Opened, Published
    <2>2. /\ Tail(Input) \in Seq(Parts) /\ Meta \in 1 .. MaxIn
          /\ HeaderLeadsTo[Head(Input).shape] \in {"drop", "body", "callback"}
      BY <1>0, <2>1, InputParts
    <2>3. head' \in 1 .. MaxIn /\ head' \in 0 .. MaxIn
      BY <1>7, <2>2, Constants DEF ReadHeader
    <2>4. delivered' \in Seq(Packets)
      <3>1. Packet(sock[clientFd], head', head') \in Packets
        BY <1>0, <2>1, <2>3 DEF SockInv, Packet, Packets
      <3>2. Append(delivered, Packet(sock[clientFd], head', head')) \in Seq(Packets)
        BY <3>1
      <3> QED
        BY <1>7, <3>2 DEF ReadHeader
    <2>5. inbox' \in [Conns -> Seq(Parts)]
      BY <1>7, <2>2 DEF ReadHeader, TakeInput, Input
    <2>6. thread' \in ThreadSteps
      BY <1>7, <2>2 DEF ReadHeader, Reads, Go
    <2> QED
      BY <1>7, <2>3, <2>4, <2>5, <2>6 DEF ReadHeader, Reads, sockVars
  <1>8. CASE ReadBody
    <2>1. thread \in OnConnection /\ Input # <<>> /\ thread = "body"
      BY <1>8 DEF ReadBody, TakeInput, OnConnection, Opened, Published
    <2>2. Tail(Input) \in Seq(Parts) /\ Head(Input).num \in 1 .. MaxIn
      BY <1>0, <2>1, InputParts DEF Meta
    <2>3. delivered' \in Seq(Packets)
      <3>1. Packet(sock[clientFd], head, Head(Input).num) \in Packets
        BY <1>0, <2>1, <2>2 DEF SockInv, CountInv, Packet, Packets
      <3> QED
        BY <1>8, <3>1 DEF ReadBody
    <2>4. inbox' \in [Conns -> Seq(Parts)]
      BY <1>8, <2>2 DEF ReadBody, TakeInput, Input
    <2> QED
      BY <1>8, <2>3, <2>4 DEF ReadBody, Reads, Go, sockVars
  <1>9. CASE CallbackReturns
    BY <1>9, Constants DEF CallbackReturns, Reads, Go, sockVars
  <1> QED
    BY <1>1, <1>2, <1>3, <1>4, <1>5, <1>6, <1>7, <1>8, <1>9
    DEF ThreadStep, TrySocket, TryConnect

(* The types, under the steps of a peer.                                   *)
LEMMA PeerType ==
    ASSUME IInv, NEW c \in Conns, PeerStep(c), UNCHANGED role
    PROVE  TypeOK'
  <1>0. TypeOK /\ CountInv /\ SockTypes /\ PeerTypes
    BY TypeParts DEF IInv
  <1>a. UNCHANGED <<process, lifeVars, threadVars, sock, shut, outbox, sendVars>>
    BY DEF PeerStep, PeerConnects, PeerHeader, PeerBody, PeerCloses, PeerSends, PeerOnly,
       ThreadAndLifeUnchanged
  <1>b. LifeTypes' /\ ThreadTypes' /\ SendTypes'
    BY <1>0, <1>a, TypesKept
  <1> SUFFICES SockTypes' /\ PeerTypes'
    BY <1>b, TypeParts
  <1> USE <1>0, <1>a DEF SockTypes, PeerTypes
  <1>1. CASE PeerConnects(c)
    BY <1>1 DEF PeerConnects, peerVars
  <1>2. ASSUME NEW part \in {"header", "body"}, NEW shape \in Shapes \cup {"full"},
               NEW num \in 1 .. MaxIn, PeerSends(c, part, shape, num)
        PROVE  inbox' \in [Conns -> Seq(Parts)] /\ UNCHANGED <<conn, fin>>
    <2>1. [part |-> part, shape |-> shape, num |-> num] \in Parts
      BY DEF Parts
    <2> QED
      BY <1>2, <2>1 DEF PeerSends
  <1>3. CASE PeerHeader(c)
    <2>1. PICK shape \in Shapes : /\ PeerSends(c, "header", shape, sent[c] + 1)
                                  /\ owes' = [owes EXCEPT ![c] = shape = "full"]
      BY <1>3 DEF PeerHeader
    <2>2. /\ sent[c] + 1 \in 1 .. MaxIn
          /\ sent' = [sent EXCEPT ![c] = sent[c] + 1]
      BY <1>3, Constants DEF PeerHeader
    <2>3. sent' \in [Conns -> 0 .. MaxIn] /\ owes' \in [Conns -> BOOLEAN]
      BY <2>1, <2>2
    <2> QED
      BY <1>2, <2>1, <2>2, <2>3
  <1>4. CASE PeerBody(c)
    <2>1. sent[c] \in 1 .. MaxIn /\ PeerSends(c, "body", "full", sent[c])
      BY <1>4 DEF PeerBody, CountInv
    <2>2. sent' \in [Conns -> 0 .. MaxIn] /\ owes' \in [Conns -> BOOLEAN]
      BY <1>4 DEF PeerBody
    <2> QED
      BY <1>2, <2>1, <2>2
  <1>5. CASE PeerCloses(c)
    BY <1>5 DEF PeerCloses
  <1> QED
    BY <1>1, <1>3, <1>4, <1>5 DEF PeerStep

(* The types, under the steps of a sender.                                 *)
LEMMA SenderType ==
    ASSUME IInv, NEW s \in Senders, SenderStep(s), UNCHANGED role
    PROVE  TypeOK'
  <1>0. TypeOK /\ CountInv /\ LifeTypes /\ SockTypes /\ SendTypes
    BY TypeParts DEF IInv
  <1>a. UNCHANGED <<lifeVars, threadVars, sock, conn, peerVars>>
    BY DEF SenderStep, SendStart, SendLoad, SendPart, SendError, SendEpipe, SendUnchanged,
       ThreadAndLifeUnchanged, netVars, sockVars
  <1>b. process' \in {"up", "sigpipe", "terminate"} /\ shut' \in [Conns -> BOOLEAN]
    BY <1>0 DEF SenderStep, SendStart, SendLoad, SendPart, SendError, SendEpipe,
       ThreadAndLifeUnchanged, netVars, sockVars, LifeTypes, SockTypes
  <1>c. LifeTypes' /\ SockTypes' /\ ThreadTypes' /\ PeerTypes'
    BY <1>0, <1>a, <1>b, TypesKept DEF LifeTypes, SockTypes, lifeVars, fdVars
  <1> SUFFICES SendTypes'
    BY <1>c, TypeParts
  <1> USE <1>0 DEF SendTypes, SenderSteps
  <1>1. CASE SendStart(s)
    <2>1. outCount' \in 0 .. MaxOut /\ packet' \in [Senders -> 0 .. MaxOut]
      BY <1>1, Constants DEF SendStart
    <2> QED
      BY <1>1, <2>1 DEF SendStart, Lock, netVars
  <1>2. ASSUME Unlock(s)
        PROVE  /\ lock' \in Senders \cup {Nobody}
               /\ sender' \in [Senders -> SenderSteps]
               /\ sendFd' \in [Senders -> Fds \cup {NoFd}]
               /\ packet' \in [Senders -> 0 .. MaxOut]
    BY <1>2, Constants DEF Unlock
  <1>3. CASE SendLoad(s)
    BY <1>2, <1>3 DEF SendLoad, SendUnchanged, LifeTypes
  <1>4. CASE SendPart(s)
    <2>1. outbox' \in [Conns -> Seq(OutParts)]
      <3>1. [part |-> sender[s], num |-> packet[s]] \in OutParts
        BY <1>4 DEF SendPart, Writing, CountInv, OutParts
      <3> QED
        BY <1>4, <3>1 DEF SendPart
    <2>2. /\ lock' \in Senders \cup {Nobody}
          /\ sender' \in [Senders -> SenderSteps]
          /\ sendFd' \in [Senders -> Fds \cup {NoFd}]
          /\ packet' \in [Senders -> 0 .. MaxOut]
      BY <1>2, <1>4 DEF SendPart
    <2> QED
      BY <1>4, <2>1, <2>2 DEF SendPart, SendUnchanged
  <1>5. CASE SendError(s)
    <2>1. packet[s] \in 1 .. MaxOut
      BY <1>5 DEF SendError, Writing, CountInv
    <2>2. cut' \subseteq 1 .. MaxOut
      BY <1>5, <2>1 DEF SendError
    <2> QED
      BY <1>2, <1>5, <2>2 DEF SendError, SendUnchanged
  <1>6. CASE SendEpipe(s)
    BY <1>2, <1>6 DEF SendEpipe, SendUnchanged
  <1> QED
    BY <1>1, <1>3, <1>4, <1>5, <1>6 DEF SenderStep

(* Every step keeps the types.                                             *)
LEMMA TypeNext == IInv /\ [Next]_vars => TypeOK'
  <1> SUFFICES ASSUME IInv, [Next]_vars PROVE TypeOK'
    OBVIOUS
  <1>1. CASE UNCHANGED vars
    BY <1>1, TypesKept, TypeParts DEF IInv, vars, netVars
  <1>2. CASE Next
    BY <1>2, OwnerType, ThreadType, PeerType, SenderType DEF Next, Up
  <1> QED
    BY <1>1, <1>2

(* The rest of the invariant, under the steps of the owner.                *)
LEMMA OwnerInv ==
    ASSUME IInv, Open \/ Start \/ StopOrClose \/ OwnerStep, UNCHANGED role, TypeOK'
    PROVE  LifeInv' /\ SockInv' /\ ServerInv' /\ CountInv'
  <1>0. TypeOK /\ LifeInv /\ SockInv /\ ServerInv /\ CountInv
    BY DEF IInv
  <1>a. CountInv'
    <2>1. UNCHANGED <<head, owes, sent, sender, packet>> /\ (thread' = "body" => thread = "body")
      BY DEF Open, Start, StopOrClose, OwnerStep, StopFlag, StopListen, StopLoad,
         StopShutdown, StopJoin, CloseSockets, OwnerOnly, threadVars, peerVars, sendVars, netVars
    <2> QED
      BY <1>0, <2>1 DEF CountInv
  <1>b. /\ thread \in ThreadSteps /\ running \in BOOLEAN /\ owner \in OwnerSteps
        /\ listenFd \in Fds \cup {NoFd} /\ clientFd \in Fds \cup {NoFd}
        /\ sock \in [Fds -> {Free, Listener} \cup Conns]
        /\ conn \in [Conns -> {"unused", "backlog", "fresh", "syn", "open", "closed"}]
    BY <1>0 DEF TypeOK
  <1>c. Fds \subseteq Nat /\ NoFd \notin Fds /\ Free \notin Conns /\ Listener \notin Conns
        /\ Free # Listener
    BY Constants
  <1>1. CASE StopOrClose \/ StopFlag \/ StopLoad \/ StopShutdown
    <2>1. UNCHANGED <<thread, threadFd, sock, conn, listenFd, clientFd, connected>>
      BY <1>1 DEF StopOrClose, StopFlag, StopLoad, StopShutdown, OwnerOnly, threadVars,
         fdVars, sockVars
    <2>2. SockInv' /\ ServerInv'
      BY <1>0, <2>1 DEF SockInv, ServerInv
    <2>3. LifeInv'
      BY <1>0, <1>1, <1>b, <2>1 DEF LifeInv, StopOrClose, StopFlag, StopLoad, StopShutdown,
         HasToStop, AfterStop, OwnerSteps
    <2> QED
      BY <1>a, <2>2, <2>3
  <1>2. CASE Open
    <2>1. PICK f \in Fds : /\ LowestFree(f)
                           /\ listenFd' = f
                           /\ sock' = [sock EXCEPT ![f] = Listener]
      BY <1>2 DEF Open
    <2>2. /\ UNCHANGED <<thread, threadFd, conn, clientFd, connected, running>>
          /\ listenFd = NoFd /\ clientFd = NoFd
          /\ owner = "idle" /\ owner' \in {"idle", "flag"}
      BY <1>2 DEF Open, OwnerOnly, threadVars
    <2>3. LifeInv'
      BY <1>0, <2>2 DEF LifeInv
    <2>4. sock[f] = Free
      BY <2>1 DEF LowestFree
    <2>5. SockInv'
      BY <1>0, <1>b, <1>c, <2>1, <2>2, <2>4 DEF SockInv
    <2>6. ServerInv'
      BY <1>0, <1>b, <1>c, <2>1, <2>2, <2>4 DEF SockInv, ServerInv, Opened, Published, OnConnection
    <2> QED
      BY <1>a, <2>3, <2>5, <2>6
  <1>3. CASE Start
    <2>1. thread = "none" /\ thread' = "loop" /\ running'
      BY <1>0, <1>3 DEF Start, LifeInv
    <2>2. UNCHANGED <<owner, threadFd, sock, conn, listenFd, clientFd, connected>>
          /\ owner = "idle"
      BY <1>3 DEF Start, fdVars, netVars, sockVars
    <2> QED
      BY <1>0, <1>a, <2>1, <2>2 DEF LifeInv, SockInv, ServerInv, NoConnection, OnConnection,
                                    Published,
         Opened
  <1>4. CASE StopListen
    <2>1. UNCHANGED <<thread, threadFd, clientFd, connected, running>>
          /\ owner = "listen" /\ owner' = "load" /\ CloseListener
      BY <1>4 DEF StopListen, OwnerOnly, threadVars
    <2>2. LifeInv'
      BY <1>0, <2>1 DEF LifeInv
    <2>3. SockInv'
      BY <1>0, <1>b, <1>c, <2>1 DEF SockInv, CloseListener, NoConnection, OnConnection, Opened,
                                    Published,
         ThreadSteps
    <2>4. ServerInv'
      <3>1. ASSUME NEW f \in Fds, sock[f] \in Conns, conn[sock[f]] = "open"
            PROVE  sock'[f] = sock[f] /\ conn'[sock[f]] = "open"
        BY <1>0, <1>b, <1>c, <2>1, <3>1 DEF SockInv, CloseListener
      <3>2. thread = "store" => threadFd \in Fds /\ sock[threadFd] \in Conns
        BY <1>0 DEF SockInv
      <3>3. thread \in Opened => clientFd \in Fds /\ sock[clientFd] \in Conns
        BY <1>0 DEF SockInv, Opened, Published, OnConnection
      <3> QED
        BY <1>0, <2>1, <3>1, <3>2, <3>3 DEF ServerInv
    <2> QED
      BY <1>a, <2>2, <2>3, <2>4
  <1>5. CASE StopJoin
    <2>1. /\ thread' = "none" /\ ~connected' /\ owner = "join" /\ owner' \in {"idle", "close"}
          /\ thread \in {"none", "done"}
          /\ UNCHANGED <<threadFd, sock, conn, listenFd, clientFd, running>>
      BY <1>5, <1>0 DEF StopJoin, MayJoin, AfterStop, fdVars, netVars, sockVars, TypeOK
    <2> QED
      BY <1>0, <1>a, <2>1 DEF LifeInv, SockInv, ServerInv, NoConnection, OnConnection, Published,
         Opened
  <1>6. CASE CloseSockets
    <2>1. /\ UNCHANGED <<thread, threadFd, connected, running>>
          /\ owner = "close" /\ owner' = "idle"
      BY <1>6 DEF CloseSockets, OwnerOnly, threadVars
    <2>2. LifeInv' /\ thread = "none"
      BY <1>0, <2>1 DEF LifeInv
    <2>3. clientFd = NoFd
      BY <1>0, <2>2 DEF SockInv, NoConnection
    <2>4. CloseListener /\ UNCHANGED clientFd
      BY <1>6, <2>3 DEF CloseSockets
    <2>5. SockInv'
      BY <1>0, <1>b, <1>c, <2>1, <2>2, <2>4 DEF SockInv, CloseListener, NoConnection,
         OnConnection, Opened, Published
    <2>6. ServerInv'
      BY <1>0, <2>1, <2>2 DEF ServerInv, Opened, Published
    <2> QED
      BY <1>a, <2>2, <2>5, <2>6
  <1> QED
    BY <1>1, <1>2, <1>3, <1>4, <1>5, <1>6 DEF OwnerStep

(* The rest of the invariant, under the steps of the comm thread.          *)
LEMMA ThreadInvariant ==
    ASSUME IInv, ThreadStep \/ AcceptTimeout, UNCHANGED role, TypeOK'
    PROVE  LifeInv' /\ SockInv' /\ ServerInv' /\ CountInv'
  <1>0. TypeOK /\ LifeInv /\ SockInv /\ ServerInv /\ CountInv
    BY DEF IInv
  <1>a. UNCHANGED <<owner, running, listenFd, sendVars>> /\ thread # "none"
    BY DEF ThreadStep, TrySocket, TryConnect, Loop, Accept, AcceptFails, AcceptTimeout, Socket,
       SocketFails, StoreFd, Connect, ConnectOk, SetConnected, ConnectFails, Forget, Receive,
       ReadHeader,
       ReadBody, ReadFails, CallbackReturns, Drop, ClearConnected, CloseClient, Goes, Connects,
       Reads, Go
  <1>b. LifeInv'
    BY <1>0, <1>a DEF LifeInv
  <1>c. /\ thread \in ThreadSteps /\ role \in {"server", "client"} /\ connected \in BOOLEAN
        /\ threadFd \in Fds \cup {NoFd}
        /\ listenFd \in Fds \cup {NoFd} /\ clientFd \in Fds \cup {NoFd}
        /\ sock \in [Fds -> {Free, Listener} \cup Conns]
        /\ conn \in [Conns -> {"unused", "backlog", "fresh", "syn", "open", "closed"}]
    BY <1>0 DEF TypeOK
  <1>d. Fds \subseteq Nat /\ NoFd \notin Fds /\ Free \notin Conns /\ Listener \notin Conns
        /\ Free # Listener
    BY Constants
  <1>e. (thread' # "body") /\ UNCHANGED peerVars => CountInv'
    BY <1>0, <1>a DEF CountInv, peerVars, sendVars
  <1>1. CASE Loop \/ AcceptFails \/ AcceptTimeout \/ Receive \/ ReadFails
    <2>1. UNCHANGED <<connected, clientFd, threadFd, sock, conn, peerVars>>
      BY <1>1 DEF Loop, AcceptFails, AcceptTimeout, Receive, ReadFails, Goes, sockVars
    <2>2. \/ thread \in {"loop", "accept"} /\ thread' \in {"loop", "accept", "done"}
          \/ role = "client" /\ thread = "loop" /\ thread' = "socket"
          \/ thread \in {"receive", "header", "body"} /\ thread' \in {"header", "drop"}
      BY <1>1, <1>c DEF Loop, AcceptFails, AcceptTimeout, Receive, ReadFails, Goes, Go
    <2>3. SockInv'
      BY <1>0, <1>a, <2>1, <2>2 DEF SockInv, NoConnection, OnConnection, Opened, Published
    <2>4. ServerInv'
      BY <1>0, <2>1, <2>2 DEF ServerInv, Opened, Published
    <2>5. CountInv'
      BY <1>e, <2>1, <2>2
    <2> QED
      BY <1>b, <2>3, <2>4, <2>5
  <1>2. CASE Accept \/ Socket
    <2>1. PICK c \in Conns, state \in {"open", "fresh"} :
            /\ NewSocket(c, state)
            /\ role = "server" /\ thread = "accept" => state = "open"
      BY <1>2 DEF Accept, Socket
    <2>2. PICK f \in Fds : /\ sock[f] = Free
                           /\ sock' = [sock EXCEPT ![f] = c]
                           /\ conn' = [conn EXCEPT ![c] = state]
                           /\ threadFd' = f
      BY <2>1 DEF NewSocket, LowestFree
    <2>3. /\ thread' = "store" /\ thread \in {"accept", "socket"}
          /\ UNCHANGED <<connected, clientFd, peerVars>>
      BY <1>2 DEF Accept, Socket, Connects, Go
    <2>4. clientFd = NoFd
      BY <1>0, <2>3 DEF SockInv, NoConnection
    <2>5. SockInv'
      BY <1>0, <1>a, <1>c, <1>d, <2>2, <2>3, <2>4 DEF SockInv, NoConnection, OnConnection,
                                                      Opened, Published
    <2>6. ServerInv'
      BY <1>0, <1>c, <2>1, <2>2, <2>3 DEF ServerInv, Opened, Published
    <2>7. CountInv'
      BY <1>e, <2>3
    <2> QED
      BY <1>b, <2>5, <2>6, <2>7
  <1>3. CASE SocketFails
    <2>1. /\ thread = "socket" /\ thread' = "loop" /\ clientFd' = NoFd
          /\ UNCHANGED <<connected, threadFd, sock, conn, peerVars>>
      BY <1>3 DEF SocketFails, Connects, Go
    <2> QED
      BY <1>0, <1>a, <1>b, <1>e, <2>1 DEF SockInv, ServerInv, NoConnection, OnConnection, Published,
         Opened
  <1>4. CASE StoreFd
    <2>1. /\ thread = "store" /\ clientFd' = threadFd /\ threadFd' = NoFd
          /\ thread' = IF role = "server" THEN "options" ELSE "connect"
          /\ UNCHANGED <<connected, sock, conn, peerVars>>
      BY <1>4 DEF StoreFd, Connects, Go
    <2>2. clientFd = NoFd /\ threadFd \in Fds /\ sock[threadFd] \in Conns
      BY <1>0, <2>1 DEF SockInv, NoConnection
    <2>3. SockInv'
      BY <1>0, <1>a, <1>c, <1>d, <2>1, <2>2 DEF SockInv, NoConnection, OnConnection, Opened,
                                                Published
    <2>4. ServerInv'
      BY <1>0, <1>c, <2>1 DEF ServerInv, Opened, Published
    <2> QED
      BY <1>b, <1>e, <2>1, <2>3, <2>4
  <1>5. CASE Connect \/ ConnectOk
    <2>1. /\ thread \in {"connect", "connecting"}
          /\ thread' \in {"connecting", "options"}
          /\ UNCHANGED <<clientFd, threadFd, sock, peerVars>>
      BY <1>5 DEF Connect, ConnectOk, Connects, Go
    <2>2. SockInv'
      BY <1>0, <1>a, <2>1 DEF SockInv, NoConnection, OnConnection, Opened, Published
    <2>3. role # "server"
      BY <1>0, <2>1 DEF ServerInv
    <2>4. ServerInv'
      BY <2>3 DEF ServerInv
    <2> QED
      BY <1>b, <1>e, <2>1, <2>2, <2>4
  <1>6. CASE ConnectFails \/ (thread = "close" /\ CloseClient("dropped"))
    <2>1. /\ thread \in {"connecting", "close"}
          /\ thread' = IF thread = "close" THEN "dropped" ELSE "failed"
          /\ UNCHANGED <<connected, clientFd, threadFd, peerVars>>
          /\ sock' = [sock EXCEPT ![clientFd] = Free]
      BY <1>6 DEF ConnectFails, CloseClient, CloseFd, Connects, Go
    <2>2. clientFd \in Fds /\ sock[clientFd] \in Conns
      BY <1>0, <2>1 DEF SockInv, OnConnection, Opened, Published
    <2>3. SockInv'
      BY <1>0, <1>a, <1>c, <1>d, <2>1, <2>2 DEF SockInv, NoConnection, OnConnection, Opened,
         Published
    <2>4. ServerInv'
      BY <1>0, <2>1 DEF ServerInv, Opened, Published
    <2> QED
      BY <1>b, <1>e, <2>1, <2>3, <2>4
  <1>9. CASE SetConnected \/ (thread = "drop" /\ ClearConnected("close"))
    <2>1. /\ \/ thread = "options" /\ thread' = "receive"
             \/ /\ thread = "drop" /\ thread' = "close"
                /\ connected' = (role = "client" /\ connected)
          /\ UNCHANGED <<clientFd, threadFd, sock, conn, peerVars>>
      BY <1>9 DEF SetConnected, ClearConnected, Connects, Go
    <2>2. SockInv'
      BY <1>0, <1>a, <2>1 DEF SockInv, NoConnection, OnConnection, Opened, Published
    <2>3. ServerInv'
      BY <1>0, <1>c, <2>1 DEF ServerInv, Opened, Published
    <2> QED
      BY <1>b, <1>e, <2>1, <2>2, <2>3
  <1>7. CASE Forget
    <2>1. /\ thread \in {"failed", "dropped"} /\ thread' = "loop" /\ clientFd' = NoFd
          /\ UNCHANGED <<connected, threadFd, sock, conn, peerVars>>
      BY <1>7 DEF Forget, Connects, Go
    <2>2. SockInv'
      BY <1>0, <1>a, <2>1 DEF SockInv, NoConnection, OnConnection, Opened, Published
    <2>3. ServerInv'
      BY <1>0, <2>1 DEF ServerInv, Opened, Published
    <2> QED
      BY <1>b, <1>e, <2>1, <2>2, <2>3
  <1>8. CASE ReadHeader \/ ReadBody \/ CallbackReturns
    <2>1. /\ thread \in {"header", "body", "callback"}
          /\ UNCHANGED <<connected, clientFd, threadFd, sock, conn, sent, owes>>
      BY <1>8 DEF ReadHeader, ReadBody, CallbackReturns, Reads, sockVars
    <2>2. thread' \in {"drop", "body", "callback", "receive"}
      <3>1. CASE ReadHeader
        <4>1. Input # <<>> /\ thread \in OnConnection
          BY <2>1, <3>1 DEF ReadHeader, TakeInput, OnConnection, Opened, Published
        <4> QED
          BY <1>0, <3>1, <4>1, InputParts DEF ReadHeader, Reads, Go
      <3>2. CASE ReadBody \/ CallbackReturns
        BY <3>2 DEF ReadBody, CallbackReturns, Reads, Go
      <3> QED
        BY <1>8, <3>1, <3>2
    <2>3. SockInv'
      BY <1>0, <1>a, <2>1, <2>2 DEF SockInv, NoConnection, OnConnection, Opened, Published
    <2>4. ServerInv'
      BY <1>0, <2>1, <2>2 DEF ServerInv, Opened, Published
    <2>5. thread' = "body" => head' \in 1 .. MaxIn
      <3>1. CASE ReadHeader
        <4>1. Input # <<>> /\ thread \in OnConnection
          BY <2>1, <3>1 DEF ReadHeader, TakeInput, OnConnection, Opened, Published
        <4> QED
          BY <1>0, <3>1, <4>1, InputParts DEF ReadHeader
      <3>2. CASE ReadBody \/ CallbackReturns
        BY <3>2 DEF ReadBody, CallbackReturns, Reads, Go
      <3> QED
        BY <1>8, <3>1, <3>2
    <2>6. CountInv'
      BY <1>0, <1>a, <2>1, <2>5 DEF CountInv, sendVars
    <2> QED
      BY <1>b, <2>3, <2>4, <2>6
  <1> QED
    BY <1>1, <1>2, <1>3, <1>4, <1>5, <1>6, <1>7, <1>8, <1>9
    DEF ThreadStep, TrySocket, TryConnect, Drop

(* The rest of the invariant, under the steps of a peer.                   *)
LEMMA PeerInvariant ==
    ASSUME IInv, NEW c \in Conns, PeerStep(c), UNCHANGED role, TypeOK'
    PROVE  LifeInv' /\ SockInv' /\ ServerInv' /\ CountInv'
  <1>0. TypeOK /\ LifeInv /\ SockInv /\ ServerInv /\ CountInv
    BY DEF IInv
  <1>1. UNCHANGED <<lifeVars, threadVars, sock, sendVars>>
    BY DEF PeerStep, PeerConnects, PeerHeader, PeerBody, PeerCloses, PeerSends, PeerOnly,
       ThreadAndLifeUnchanged
  <1>2. \A d \in Conns : conn[d] = "open" => conn'[d] = "open"
    BY <1>0 DEF PeerStep, PeerConnects, PeerHeader, PeerBody, PeerCloses, PeerSends, NextConn,
       TypeOK
  <1>3. LifeInv' /\ SockInv'
    BY <1>0, <1>1 DEF LifeInv, SockInv, lifeVars, fdVars, threadVars
  <1>4. ServerInv'
    BY <1>0, <1>1, <1>2 DEF ServerInv, SockInv, Opened, Published, OnConnection, lifeVars, fdVars,
       threadVars
  <1>5. \A d \in Conns : owes'[d] => sent'[d] \in 1 .. MaxIn
    <2>0. /\ owes \in [Conns -> BOOLEAN] /\ sent \in [Conns -> 0 .. MaxIn] /\ MaxIn \in Nat
      BY <1>0, Constants DEF TypeOK
    <2>1. CASE PeerHeader(c)
      <3>1. sent' = [sent EXCEPT ![c] = sent[c] + 1] /\ sent[c] + 1 \in 1 .. MaxIn
        BY <2>0, <2>1 DEF PeerHeader
      <3>2. \A d \in Conns : d # c => owes'[d] = owes[d]
        BY <2>0, <2>1 DEF PeerHeader
      <3> QED
        BY <1>0, <2>0, <3>1, <3>2 DEF CountInv
    <2>2. CASE PeerBody(c)
      BY <1>0, <2>0, <2>2 DEF CountInv, PeerBody
    <2>3. CASE PeerConnects(c) \/ PeerCloses(c)
      BY <1>0, <2>3 DEF CountInv, PeerConnects, PeerCloses, peerVars
    <2> QED
      BY <2>1, <2>2, <2>3 DEF PeerStep
  <1>6. CountInv'
    BY <1>0, <1>1, <1>5 DEF CountInv, threadVars, sendVars
  <1> QED
    BY <1>3, <1>4, <1>6

(* The rest of the invariant, under the steps of a sender.                 *)
LEMMA SenderInvariant ==
    ASSUME IInv, NEW s \in Senders, SenderStep(s), UNCHANGED role, TypeOK'
    PROVE  LifeInv' /\ SockInv' /\ ServerInv' /\ CountInv'
  <1>0. TypeOK /\ LifeInv /\ SockInv /\ ServerInv /\ CountInv
    BY DEF IInv
  <1>1. UNCHANGED <<lifeVars, threadVars, sock, conn, peerVars>>
    BY DEF SenderStep, SendStart, SendLoad, SendPart, SendError, SendEpipe, SendUnchanged,
       ThreadAndLifeUnchanged, netVars, sockVars
  <1>2. LifeInv' /\ SockInv' /\ ServerInv'
    BY <1>0, <1>1 DEF LifeInv, SockInv, ServerInv, lifeVars, fdVars, threadVars
  <1>3. \A r \in Senders : sender'[r] # "idle" => packet'[r] \in 1 .. MaxOut
    <2>0. /\ sender \in [Senders -> SenderSteps] /\ packet \in [Senders -> 0 .. MaxOut]
          /\ outCount \in 0 .. MaxOut /\ MaxOut \in Nat
      BY <1>0, Constants DEF TypeOK
    <2>1. CASE SendStart(s)
      BY <1>0, <2>0, <2>1 DEF CountInv, SendStart
    <2>2. ASSUME Unlock(s)
          PROVE  \A r \in Senders : sender'[r] # "idle" => packet'[r] \in 1 .. MaxOut
      BY <1>0, <2>0, <2>2 DEF CountInv, Unlock
    <2>3. CASE SendLoad(s)
      BY <1>0, <2>0, <2>2, <2>3 DEF CountInv, SendLoad
    <2>4. CASE SendPart(s)
      BY <1>0, <2>0, <2>2, <2>4 DEF CountInv, SendPart, Writing
    <2>5. CASE SendError(s)
      BY <2>2, <2>5 DEF SendError
    <2>6. CASE SendEpipe(s)
      BY <1>0, <2>2, <2>6 DEF CountInv, SendEpipe
    <2> QED
      BY <2>1, <2>3, <2>4, <2>5, <2>6 DEF SenderStep
  <1>4. CountInv'
    BY <1>0, <1>1, <1>3 DEF CountInv, threadVars, peerVars
  <1> QED
    BY <1>2, <1>4

(* No step of the comm breaks the invariant.                               *)
LEMMA NextIInv == IInv /\ [Next]_vars => IInv'
  <1> SUFFICES ASSUME IInv, [Next]_vars PROVE IInv'
    OBVIOUS
  <1>0. TypeOK'
    BY TypeNext
  <1>1. CASE UNCHANGED vars
    <2>1. LifeInv /\ SockInv /\ ServerInv /\ CountInv
      BY DEF IInv
    <2>2. LifeInv' /\ SockInv' /\ ServerInv' /\ CountInv'
      BY <1>1, <2>1 DEF LifeInv, SockInv, ServerInv, CountInv, vars, lifeVars, fdVars,
         threadVars, netVars, sockVars, peerVars, sendVars
    <2> QED
      BY <1>0, <2>2 DEF IInv
  <1>2. CASE Next
    <2>1. LifeInv' /\ SockInv' /\ ServerInv' /\ CountInv'
      BY <1>0, <1>2, OwnerInv, ThreadInvariant, PeerInvariant, SenderInvariant DEF Next, Up
    <2> QED
      BY <1>0, <2>1 DEF IInv
  <1> QED
    BY <1>1, <1>2

(* Every state of the comm satisfies it.                                   *)
LEMMA Invariance == Spec => []IInv
  BY InitIInv, NextIInv, PTL DEF Spec

(* Every descriptor in use is one the comm remembers: none is leaked.      *)
THEOREM FdsCorrectness == Spec => []FdsAccounted
  <1>1. IInv => FdsAccounted
    BY DEF IInv, SockInv, FdsAccounted
  <1> QED
    BY <1>1, Invariance, PTL

(* When stop or close has returned, the comm thread is joined.             *)
THEOREM JoinedCorrectness == Spec => []JoinedWhenStopped
  <1>1. IInv => JoinedWhenStopped
    BY DEF IInv, LifeInv, JoinedWhenStopped
  <1> QED
    BY <1>1, Invariance, PTL

(* While a server reports is_running, client_fd_ names an open connection. *)
THEOREM SendableCorrectness == Spec => []SendableWhenRunning
  <1>1. IInv => SendableWhenRunning
    <2> SUFFICES ASSUME IInv, role = "server", connected
                 PROVE  \E c \in Conns : clientFd # NoFd /\ sock[clientFd] = c
                                                         /\ conn[c] = "open"
      BY DEF SendableWhenRunning
    <2>1. thread \in Opened /\ conn[sock[clientFd]] = "open"
      BY DEF IInv, ServerInv, Opened
    <2>2. clientFd \in Fds /\ sock[clientFd] \in Conns
      BY <2>1 DEF IInv, SockInv, Opened, Published, OnConnection
    <2> QED
      BY <2>1, <2>2, Constants
  <1> QED
    BY <1>1, Invariance, PTL
-----------------------------------------------------------------------------
(* The packets the senders write. *)

(* Before open nobody sends.                                               *)
LEMMA InitSendInv == Init => SendInv
  BY Constants DEF Init, SendInv, LockInv, NewInv, PendingInv, EndsInHeader, AwaitsBody,
     WholePackets

(* Steps that write nothing and only take over a descriptor for a          *)
(* connection that nothing was written to.                                 *)
LEMMA NothingSent ==
    ASSUME TypeOK, SendInv, UNCHANGED <<outbox, sendVars>>,
           \A c \in Conns : Writable(c)' => Writable(c) \/ outbox[c] = <<>>,
           \A c \in Conns, f \in Fds :
             Writable(c)' => \/ sock'[f] = c <=> sock[f] = c
                             \/ outbox[c] = <<>>
    PROVE  LockInv' /\ PendingInv' /\ WholePackets'
  <1>1. LockInv /\ PendingInv /\ WholePackets
    BY DEF SendInv
  <1>2. UNCHANGED <<lock, sender, sendFd, packet, cut, outbox>>
    BY DEF sendVars
  <1>3. LockInv' /\ WholePackets'
    BY <1>1, <1>2 DEF LockInv, WholePackets
  <1>4. ASSUME NEW c \in Conns, Writable(c)', outbox[c] # <<>>
        PROVE  /\ Writable(c)
               /\ \A s \in Senders : AwaitsBody(c, s)' <=> AwaitsBody(c, s)
    BY <1>1, <1>2, <1>4 DEF LockInv, AwaitsBody
  <1>5. PendingInv'
    <2>1. ASSUME NEW c \in Conns, Writable(c)', EndsInHeader(c)'
          PROVE  EndsCut(c)' \/ \E s \in Senders : AwaitsBody(c, s)'
      <3>1. outbox[c] # <<>> /\ EndsInHeader(c)
        BY <1>2, <2>1 DEF EndsInHeader
      <3>2. CASE EndsCut(c)
        BY <1>2, <3>2 DEF EndsCut
      <3>3. ASSUME NEW s \in Senders, AwaitsBody(c, s) PROVE AwaitsBody(c, s)'
        BY <1>4, <2>1, <3>1, <3>3
      <3> QED
        BY <1>1, <1>4, <2>1, <3>1, <3>2, <3>3 DEF PendingInv
    <2>2. ASSUME NEW c \in Conns, NEW s \in Senders, Writable(c)', AwaitsBody(c, s)',
                 outbox'[c] # <<>>
          PROVE  outbox'[c][Len(outbox'[c])] = [part |-> "header", num |-> packet'[s]]
      BY <1>1, <1>2, <1>4, <2>2 DEF PendingInv
    <2> QED
      BY <2>1, <2>2 DEF PendingInv
  <1> QED
    BY <1>3, <1>5

(* The owner ends connections, it writes to none.                          *)
LEMMA OwnerSends ==
    ASSUME IInv, SendInv, Open \/ Start \/ StopOrClose \/ OwnerStep, UNCHANGED role
    PROVE  SendInv'
  <1>0. TypeOK /\ LifeInv /\ SockInv /\ NewInv
    BY DEF IInv, SendInv
  <1>a. UNCHANGED <<outbox, sendVars>>
    BY DEF Open, Start, StopOrClose, OwnerStep, StopFlag, StopListen, StopLoad,
       StopShutdown, StopJoin, CloseSockets, OwnerOnly, netVars
  <1>b. /\ thread \in ThreadSteps
        /\ listenFd \in Fds \cup {NoFd} /\ clientFd \in Fds \cup {NoFd}
        /\ sock \in [Fds -> {Free, Listener} \cup Conns]
        /\ conn \in [Conns -> {"unused", "backlog", "fresh", "syn", "open", "closed"}]
        /\ shut \in [Conns -> BOOLEAN]
    BY <1>0 DEF TypeOK
  <1>c. Fds \subseteq Nat /\ NoFd \notin Fds /\ Free \notin Conns /\ Listener \notin Conns
    BY Constants
  <1>1. /\ UNCHANGED clientFd \/ thread = "none"
        /\ UNCHANGED <<thread, threadFd>> \/ {thread, thread'} \subseteq {"none", "loop", "done"}
    BY <1>0 DEF Open, Start, StopOrClose, OwnerStep, StopFlag, StopListen, StopLoad,
       StopShutdown, StopJoin, MayJoin, CloseSockets, OwnerOnly, threadVars, fdVars, LifeInv,
       TypeOK
  <1>2. CASE UNCHANGED sock /\ UNCHANGED conn
    <2>1. \A c \in Conns : shut'[c] \/ shut'[c] = shut[c]
      BY <1>b DEF Open, Start, StopOrClose, OwnerStep, StopFlag, StopListen, StopLoad,
         StopShutdown, StopJoin, CloseSockets, OwnerOnly, netVars, sockVars
    <2>2. \A c \in Conns : Writable(c)' => Writable(c)
      BY <1>2, <2>1 DEF Writable
    <2>3. LockInv' /\ PendingInv' /\ WholePackets'
      BY <1>0, <1>2, <1>a, <2>2, NothingSent
    <2>4. NewInv'
      BY <1>0, <1>1, <1>2, <1>a DEF NewInv
    <2> QED
      BY <2>3, <2>4 DEF SendInv
  <1>3. CASE Open
    <2>1. PICK f \in Fds : sock[f] = Free /\ sock' = [sock EXCEPT ![f] = Listener]
      BY <1>3 DEF Open, LowestFree
    <2>2. UNCHANGED <<conn, shut, thread, threadFd, clientFd>>
      BY <1>3 DEF Open, OwnerOnly, threadVars
    <2>3. \A c \in Conns, g \in Fds : sock'[g] = c <=> sock[g] = c
      BY <1>b, <1>c, <2>1
    <2>4. LockInv' /\ PendingInv' /\ WholePackets'
      BY <1>0, <1>a, <2>2, <2>3, NothingSent DEF Writable
    <2>5. /\ thread = "store" => sock'[threadFd] = sock[threadFd]
          /\ thread \in OnConnection => sock'[clientFd] = sock[clientFd]
      BY <1>0, <2>3 DEF SockInv
    <2>6. NewInv'
      <3>1. UNCHANGED role
        OBVIOUS
      <3> QED
        BY <1>0, <1>a, <2>2, <2>5, <3>1 DEF NewInv, OnConnection, Opened, Published
    <2> QED
      BY <2>4, <2>6 DEF SendInv
  <1>4. CASE StopListen \/ CloseSockets
    <2>1. CloseListener /\ UNCHANGED <<shut, thread, threadFd, clientFd>>
      <3>1. CASE StopListen
        BY <3>1 DEF StopListen, OwnerOnly, threadVars
      <3>2. CASE CloseSockets
        <4>1. clientFd = NoFd
          BY <1>0, <3>2 DEF CloseSockets, LifeInv, SockInv, NoConnection, OwnerSteps
        <4> QED
          BY <3>2, <4>1 DEF CloseSockets, OwnerOnly, threadVars
      <3> QED
        BY <1>4, <3>1, <3>2
    <2>2. \A c \in Conns, g \in Fds : sock'[g] = c <=> sock[g] = c
      BY <1>0, <1>b, <1>c, <2>1 DEF CloseListener, SockInv
    <2>3. \A c \in Conns : conn'[c] = conn[c] \/ (conn[c] = "backlog" /\ conn'[c] = "closed")
      BY <1>b, <2>1 DEF CloseListener
    <2>4. LockInv' /\ PendingInv' /\ WholePackets'
      BY <1>0, <1>a, <2>1, <2>2, <2>3, NothingSent DEF Writable
    <2>5. /\ thread = "store" => /\ sock[threadFd] \in Conns
                                 /\ sock'[threadFd] = sock[threadFd]
          /\ thread \in OnConnection => /\ sock[clientFd] \in Conns
                                        /\ sock'[clientFd] = sock[clientFd]
      BY <1>0, <2>2 DEF SockInv
    <2>6. \A c \in Conns : conn[c] \in {"fresh", "syn", "open"} => conn'[c] = conn[c]
      BY <2>3
    <2>7. \A c \in Conns : conn'[c] \in {"unused", "backlog", "fresh", "syn"} => conn'[c] = conn[c]
      BY <2>3
    <2>8. NewInv'
      <3>1. UNCHANGED <<role, thread, threadFd, clientFd, outbox>>
        BY <1>a, <2>1
      <3>2. \A c \in Conns : conn'[c] \in {"unused", "backlog", "fresh", "syn"} => outbox'[c] = <<>>
        BY <1>0, <2>7, <3>1 DEF NewInv
      <3>3. /\ thread = "store" => conn'[sock'[threadFd]] = conn[sock[threadFd]]
            /\ thread \in {"connect", "connecting"} =>
                 conn'[sock'[clientFd]] = conn[sock[clientFd]]
        BY <1>0, <2>5, <2>6 DEF NewInv, OnConnection, Opened, Published
      <3> QED
        BY <1>0, <3>1, <3>2, <3>3 DEF NewInv
    <2> QED
      BY <2>4, <2>8 DEF SendInv
  <1>5. CASE Start \/ StopOrClose \/ StopFlag \/ StopLoad \/ StopShutdown \/ StopJoin
    BY <1>2, <1>5 DEF Start, StopOrClose, StopFlag, StopLoad, StopShutdown, StopJoin, netVars,
       sockVars
  <1> QED
    BY <1>3, <1>4, <1>5 DEF OwnerStep

(* What a send knows survives a disconnect and a new connection.           *)
LEMMA ThreadSends ==
    ASSUME IInv, SendInv, ThreadStep \/ AcceptTimeout, UNCHANGED role
    PROVE  SendInv'
  <1>0. TypeOK /\ SockInv /\ ServerInv /\ NewInv
    BY DEF IInv, SendInv
  <1>a. UNCHANGED <<outbox, sendVars>>
    BY DEF ThreadStep, TrySocket, TryConnect, Loop, Accept, AcceptFails, AcceptTimeout, Socket,
       SocketFails, StoreFd, Connect, ConnectOk, SetConnected, ConnectFails, Forget, Receive,
       ReadHeader,
       ReadBody, ReadFails, CallbackReturns, Drop, ClearConnected, CloseClient, Goes, Connects,
       Reads, Go
  <1>s. UNCHANGED shut
    BY DEF ThreadStep, TrySocket, TryConnect, Loop, Accept, AcceptFails, AcceptTimeout, Socket,
       SocketFails, StoreFd, Connect, ConnectOk, SetConnected, ConnectFails, Forget, Receive,
       ReadHeader,
       ReadBody, ReadFails, CallbackReturns, Drop, ClearConnected, CloseClient, Goes, Connects,
       Reads, sockVars
  <1>b. /\ thread \in ThreadSteps /\ role \in {"server", "client"}
        /\ clientFd \in Fds \cup {NoFd}
        /\ sock \in [Fds -> {Free, Listener} \cup Conns]
        /\ conn \in [Conns -> {"unused", "backlog", "fresh", "syn", "open", "closed"}]
    BY <1>0 DEF TypeOK
  <1>c. Free \notin Conns /\ Listener \notin Conns
    BY Constants
  <1>1. CASE UNCHANGED sock /\ UNCHANGED conn
    <2>1. LockInv' /\ PendingInv' /\ WholePackets'
      BY <1>0, <1>1, <1>a, <1>s, NothingSent DEF Writable
    <2>2. CASE StoreFd
      <3>1. /\ thread = "store" /\ clientFd' = threadFd
            /\ thread' = IF role = "server" THEN "options" ELSE "connect"
        BY <2>2 DEF StoreFd, Connects, Go
      <3>2. NewInv'
        BY <1>0, <1>1, <1>a, <1>b, <3>1 DEF NewInv
      <3> QED
        BY <2>1, <3>2 DEF SendInv
    <2>3. CASE thread' \notin {"accept", "store", "connect", "connecting"}
      <3>1. NewInv'
        BY <1>0, <1>1, <1>a, <2>3 DEF NewInv
      <3> QED
        BY <2>1, <3>1 DEF SendInv
    <2>4. CASE ~StoreFd
      <3>1. CASE Accept \/ Socket
        <4>1. PICK f \in Fds, c \in Conns : sock[f] = Free /\ sock' = [sock EXCEPT ![f] = c]
          BY <3>1 DEF Accept, Socket, NewSocket, LowestFree
        <4> QED
          BY <1>1, <1>b, <1>c, <4>1
      <3>2. CASE Connect
        <4>1. sock[clientFd] \in Conns /\ conn[sock[clientFd]] = "fresh"
          BY <1>0, <3>2 DEF Connect, SockInv, OnConnection, Opened, Published, NewInv
        <4>2. conn'[sock[clientFd]] = "syn"
          BY <1>b, <3>2, <4>1 DEF Connect
        <4> QED
          BY <1>1, <4>1, <4>2
      <3>3. CASE ReadHeader
        <4>1. Input # <<>> /\ thread \in OnConnection
          BY <3>3 DEF ReadHeader, TakeInput, OnConnection, Opened, Published
        <4>2. thread' \in {"drop", "body", "callback"}
          BY <1>0, <3>3, <4>1, InputParts DEF ReadHeader, Reads, Go
        <4> QED
          BY <2>3, <4>2
      <3>4. CASE Loop
        <4>1. /\ thread' \notin {"store", "connect", "connecting"}
              /\ thread' = "accept" => role = "server"
          BY <3>4 DEF Loop, Goes, Go
        <4>2. NewInv'
          BY <1>0, <1>1, <1>a, <4>1 DEF NewInv
        <4> QED
          BY <2>1, <4>2 DEF SendInv
      <3>5. CASE ~(Accept \/ Socket \/ Connect \/ ReadHeader \/ Loop)
        <4>1. thread' \notin {"accept", "store", "connect", "connecting"}
          BY <2>4, <3>5 DEF ThreadStep, TrySocket, TryConnect, AcceptFails,
             AcceptTimeout, SocketFails, ConnectOk, SetConnected, ConnectFails, Forget, Receive,
             ReadBody, ReadFails, CallbackReturns, Drop, ClearConnected, CloseClient, Goes,
             Connects, Reads, Go
        <4> QED
          BY <2>3, <4>1
      <3> QED
        BY <3>1, <3>2, <3>3, <3>4, <3>5
    <2> QED
      BY <2>2, <2>4
  <1>2. CASE Accept \/ Socket
    <2>1. PICK c \in Conns, state \in {"open", "fresh"} :
            /\ NewSocket(c, state)
            /\ conn[c] \in {"backlog", "unused"}
            /\ role = "client" => state = "fresh"
      <3>1. CASE Accept
        <4>1. role # "client"
          BY <1>0, <3>1 DEF Accept, NewInv
        <4> QED
          BY <3>1, <4>1 DEF Accept, Waiting
      <3>2. CASE Socket
        BY <3>2 DEF Socket, NextConn
      <3> QED
        BY <1>2, <3>1, <3>2
    <2>2. PICK f \in Fds : /\ sock[f] = Free
                           /\ sock' = [sock EXCEPT ![f] = c]
                           /\ conn' = [conn EXCEPT ![c] = state]
                           /\ threadFd' = f
      BY <2>1 DEF NewSocket, LowestFree
    <2>3. thread' = "store"
      BY <1>2 DEF Accept, Socket, Connects, Go
    <2>4. outbox[c] = <<>>
      BY <1>0, <2>1 DEF NewInv
    <2>5. \A d \in Conns : d # c => conn'[d] = conn[d]
      BY <1>b, <2>2
    <2>6. \A d \in Conns, g \in Fds : d # c => (sock'[g] = d <=> sock[g] = d)
      BY <1>b, <1>c, <2>2
    <2>7. LockInv' /\ PendingInv' /\ WholePackets'
      BY <1>0, <1>a, <1>s, <2>4, <2>5, <2>6, NothingSent DEF Writable
    <2>8. NewInv'
      BY <1>0, <1>a, <1>b, <2>1, <2>2, <2>3, <2>4, <2>5 DEF NewInv
    <2> QED
      BY <2>7, <2>8 DEF SendInv
  <1>3. CASE Connect \/ ConnectOk
    <2>1. PICK c \in Conns, state \in {"syn", "open"} :
            /\ c = sock[clientFd]
            /\ conn[c] \in {"fresh", "syn"}
            /\ conn' = [conn EXCEPT ![c] = state]
            /\ thread' = IF state = "syn" THEN "connecting" ELSE "options"
            /\ UNCHANGED <<sock, clientFd>>
      <3>1. thread \in {"connect", "connecting"}
        BY <1>3 DEF Connect, ConnectOk
      <3>2. sock[clientFd] \in Conns /\ conn[sock[clientFd]] \in {"fresh", "syn"}
        BY <1>0, <3>1 DEF SockInv, OnConnection, Opened, Published, NewInv
      <3> QED
        BY <1>3, <3>2 DEF Connect, ConnectOk, Connects, Go
    <2>2. outbox[c] = <<>>
      BY <1>0, <2>1 DEF NewInv
    <2>3. \A d \in Conns : d # c => conn'[d] = conn[d]
      BY <1>b, <2>1
    <2>4. LockInv' /\ PendingInv' /\ WholePackets'
      BY <1>0, <1>a, <1>s, <2>1, <2>2, <2>3, NothingSent DEF Writable
    <2>5. NewInv'
      BY <1>0, <1>a, <1>b, <2>1, <2>2, <2>3 DEF NewInv
    <2> QED
      BY <2>4, <2>5 DEF SendInv
  <1>4. CASE ConnectFails \/ (thread = "close" /\ CloseClient("dropped"))
    <2>1. CloseFd(clientFd) /\ thread \in OnConnection /\ thread' \in {"failed", "dropped"}
      BY <1>4 DEF ConnectFails, CloseClient, OnConnection, Opened, Published, Connects, Go
    <2>2. clientFd \in Fds /\ sock[clientFd] \in Conns
      BY <1>0, <2>1 DEF SockInv
    <2>3. \A d \in Conns : conn'[d] = IF sock[clientFd] = d THEN "closed" ELSE conn[d]
      BY <2>1 DEF CloseFd
    <2>4. \A d \in Conns, g \in Fds : d # sock[clientFd] => (sock'[g] = d <=> sock[g] = d)
      BY <1>b, <1>c, <2>1, <2>2 DEF CloseFd
    <2>5. LockInv' /\ PendingInv' /\ WholePackets'
      BY <1>0, <1>a, <1>s, <2>3, <2>4, NothingSent DEF Writable
    <2>6. NewInv'
      BY <1>0, <1>a, <2>1, <2>3 DEF NewInv
    <2> QED
      BY <2>5, <2>6 DEF SendInv
  <1>5. CASE \/ Loop \/ AcceptFails \/ AcceptTimeout \/ SocketFails \/ StoreFd \/ Forget
             \/ Receive \/ ReadHeader \/ ReadBody \/ ReadFails \/ CallbackReturns
             \/ SetConnected \/ ClearConnected("close")
    <2>1. UNCHANGED sock /\ UNCHANGED conn
      BY <1>5 DEF SetConnected, ClearConnected, Loop, AcceptFails, AcceptTimeout, SocketFails,
                  StoreFd, Forget, Receive,
         ReadHeader, ReadBody, ReadFails, CallbackReturns, Goes, Reads, sockVars
    <2> QED
      BY <1>1, <2>1
  <1> QED
    BY <1>2, <1>3, <1>4, <1>5 DEF ThreadStep, TrySocket, TryConnect, Drop

(* The peer writes on its own side only.                                   *)
LEMMA PeerSendsNothing ==
    ASSUME IInv, SendInv, NEW c \in Conns, PeerStep(c), UNCHANGED role
    PROVE  SendInv'
  <1>0. TypeOK /\ NewInv
    BY DEF IInv, SendInv
  <1>1. UNCHANGED <<lifeVars, threadVars, sock, shut, outbox, sendVars>>
    BY DEF PeerStep, PeerConnects, PeerHeader, PeerBody, PeerCloses, PeerSends, PeerOnly,
       ThreadAndLifeUnchanged
  <1>2. \A d \in Conns : \/ conn'[d] = conn[d]
                         \/ conn[d] = "unused" /\ conn'[d] = "backlog"
    BY <1>0 DEF PeerStep, PeerConnects, PeerHeader, PeerBody, PeerCloses, PeerSends, NextConn,
       TypeOK
  <1>3. LockInv' /\ PendingInv' /\ WholePackets'
    BY <1>0, <1>1, <1>2, NothingSent DEF Writable
  <1>4. SockInv
    BY DEF IInv
  <1>5. NewInv'
    BY <1>0, <1>1, <1>2, <1>4 DEF NewInv, SockInv, OnConnection, Opened, Published, lifeVars,
                                  fdVars, threadVars
  <1> QED
    BY <1>3, <1>5 DEF SendInv

(* What Append does to the places of a sequence.                           *)
LEMMA Appended ==
    ASSUME NEW q \in Seq(OutParts), NEW e \in OutParts, NEW r, r = Append(q, e)
    PROVE  /\ Len(q) \in Nat /\ Len(r) = Len(q) + 1
           /\ r[Len(r)] = e
           /\ \A i \in 1 .. Len(q) : r[i] = q[i]
           /\ DOMAIN q = 1 .. Len(q)
           /\ DOMAIN r = 1 .. Len(q) + 1
           /\ r # <<>>
           /\ q # <<>> => Len(q) > 0
  <1>1. /\ Len(q) \in Nat
        /\ r \in Seq(OutParts)
        /\ r # <<>>
        /\ Len(r) = Len(q) + 1
        /\ \A i \in 1 .. Len(q) : r[i] = q[i]
        /\ r[Len(q) + 1] = e
    BY AppendProperties, LenProperties
  <1>2. DOMAIN q = 1 .. Len(q)
    BY LenProperties
  <1>3. DOMAIN r = 1 .. Len(q) + 1
    BY <1>1, LenProperties
  <1>4. q # <<>> => Len(q) > 0
    <2>1. q # <<>> => Len(q) \in Nat \ {0}
      BY EmptySeq
    <2> QED
      BY <2>1
  <1> QED
    BY <1>1, <1>2, <1>3, <1>4

(* A sender in a send is the only one.                                     *)
LEMMA OneSends ==
    ASSUME LockInv, NEW s \in Senders, sender[s] # "idle"
    PROVE  \A r \in Senders : sender[r] # "idle" => r = s
  BY DEF LockInv

(* Under send_mutex_ a header is followed by its body, or its send fails.  *)
LEMMA SenderSends ==
    ASSUME IInv, SendInv, NEW s \in Senders, SenderStep(s), UNCHANGED role
    PROVE  SendInv'
  <1>0. TypeOK /\ LockInv /\ NewInv /\ PendingInv /\ WholePackets
    BY DEF IInv, SendInv
  <1>a. UNCHANGED <<lifeVars, threadVars, sock, conn>>
    BY DEF SenderStep, SendStart, SendLoad, SendPart, SendError, SendEpipe, SendUnchanged,
       ThreadAndLifeUnchanged, netVars, sockVars
  <1>b. /\ sender \in [Senders -> SenderSteps] /\ packet \in [Senders -> 0 .. MaxOut]
        /\ sendFd \in [Senders -> Fds \cup {NoFd}] /\ clientFd \in Fds \cup {NoFd}
        /\ outbox \in [Conns -> Seq(OutParts)]
        /\ shut \in [Conns -> BOOLEAN]
        /\ Nobody \notin Senders
    BY <1>0, Constants DEF TypeOK
  <1>c. UNCHANGED outbox => NewInv'
    BY <1>0, <1>a DEF NewInv, lifeVars, fdVars, threadVars
  <1>1. ASSUME Unlock(s), UNCHANGED outbox, sender[s] # "idle",
               \A c \in Conns : shut[c] => shut'[c], cut \subseteq cut',
               \A c \in Conns : AwaitsBody(c, s) => ~Writable(c)' \/ packet[s] \in cut'
        PROVE  SendInv'
    <2>1. LockInv'
      BY <1>0, <1>1, <1>b DEF LockInv, Unlock
    <2>2. \A r \in Senders : sender'[r] = "idle"
      BY <1>0, <1>1, <1>b, OneSends DEF Unlock
    <2>3. ASSUME NEW c \in Conns, Writable(c)', EndsInHeader(c)' PROVE EndsCut(c)'
      <3>1. Writable(c) /\ EndsInHeader(c)
        BY <1>1, <1>a, <2>3 DEF Writable, EndsInHeader
      <3>2. CASE EndsCut(c)
        BY <1>1, <3>2 DEF EndsCut
      <3>3. CASE ~EndsCut(c)
        <4>1. AwaitsBody(c, s)
          BY <1>0, <1>1, <3>1, <3>3, OneSends DEF PendingInv, AwaitsBody
        <4>2. outbox[c][Len(outbox[c])] = [part |-> "header", num |-> packet[s]]
          BY <1>0, <3>1, <4>1 DEF PendingInv, EndsInHeader
        <4> QED
          BY <1>1, <2>3, <4>1, <4>2 DEF EndsCut
      <3> QED
        BY <3>2, <3>3
    <2>4. PendingInv'
      BY <2>2, <2>3 DEF PendingInv, AwaitsBody
    <2>5. WholePackets'
      BY <1>0, <1>1 DEF WholePackets
    <2> QED
      BY <1>1, <1>c, <2>1, <2>4, <2>5 DEF SendInv
  <1>2. CASE SendStart(s)
    <2>1. /\ sender[s] = "idle" /\ lock = Nobody /\ lock' = s
          /\ sender' = [sender EXCEPT ![s] = "load"]
          /\ packet' = [packet EXCEPT ![s] = outCount + 1]
          /\ UNCHANGED <<sendFd, outbox, shut, cut>>
      BY <1>2 DEF SendStart, Lock, netVars, sockVars
    <2>2. \A r \in Senders : sender[r] = "idle"
      BY <1>0, <1>b, <2>1 DEF LockInv
    <2>3. LockInv'
      BY <1>b, <2>1, <2>2 DEF LockInv
    <2>4. PendingInv'
      BY <1>0, <1>a, <1>b, <2>1, <2>2 DEF PendingInv, Writable, EndsInHeader, EndsCut,
         AwaitsBody
    <2>5. WholePackets'
      BY <1>0, <2>1 DEF WholePackets
    <2> QED
      BY <1>c, <2>1, <2>3, <2>4, <2>5 DEF SendInv
  <1>3. CASE SendLoad(s)
    <2>0. sender[s] = "load" /\ UNCHANGED <<outbox, shut, cut>>
      BY <1>3 DEF SendLoad
    <2>1. CASE Unlock(s)
      BY <1>1, <2>0, <2>1 DEF AwaitsBody
    <2>2. CASE ~Unlock(s)
      <3>1. /\ clientFd # NoFd
            /\ sender' = [sender EXCEPT ![s] = "header"]
            /\ sendFd' = [sendFd EXCEPT ![s] = clientFd]
            /\ UNCHANGED <<lock, packet>>
        BY <1>3, <2>2 DEF SendLoad
      <3>2. LockInv'
        BY <1>0, <1>b, <2>0, <3>1 DEF LockInv
      <3>3. \A r \in Senders : sender[r] # "body" /\ sender'[r] # "body"
        BY <1>0, <1>b, <2>0, <3>1, OneSends
      <3>4. PendingInv'
        BY <1>0, <1>a, <2>0, <3>3 DEF PendingInv, Writable, EndsInHeader, EndsCut, AwaitsBody
      <3>5. WholePackets'
        BY <1>0, <2>0 DEF WholePackets
      <3> QED
        BY <1>c, <2>0, <3>2, <3>4, <3>5 DEF SendInv
    <2> QED
      BY <2>1, <2>2
  <1>4. CASE SendPart(s)
    <2> DEFINE e == [part |-> sender[s], num |-> packet[s]]
    <2>1. PICK c \in Conns : /\ sock[sendFd[s]] = c
                             /\ Writable(c)
                             /\ outbox' = [outbox EXCEPT ![c] = Append(outbox[c], e)]
      BY <1>4 DEF SendPart, Writable
    <2>2. sender[s] \in {"header", "body"} /\ UNCHANGED <<shut, cut>>
      BY <1>4 DEF SendPart, Writing
    <2>3. /\ outbox'[c] = Append(outbox[c], e) /\ outbox[c] \in Seq(OutParts)
          /\ \A d \in Conns : d # c => outbox'[d] = outbox[d]
      BY <1>b, <2>1
    <2>4. /\ Len(outbox[c]) \in Nat /\ Len(outbox'[c]) = Len(outbox[c]) + 1
          /\ outbox'[c][Len(outbox'[c])] = e
          /\ \A i \in 1 .. Len(outbox[c]) : outbox'[c][i] = outbox[c][i]
          /\ DOMAIN outbox[c] = 1 .. Len(outbox[c])
          /\ DOMAIN outbox'[c] = 1 .. Len(outbox[c]) + 1
          /\ outbox'[c] # <<>>
          /\ outbox[c] # <<>> => Len(outbox[c]) > 0
      <3> HIDE DEF e
      <3>1. e \in OutParts
        <4>1. packet[s] \in 1 .. MaxOut
          BY <2>2 DEF IInv, CountInv
        <4> QED
          BY <2>2, <4>1 DEF e, OutParts
      <3> DEFINE q == outbox[c]
                 r == outbox'[c]
      <3>2. q \in Seq(OutParts) /\ r = Append(q, e)
        BY <2>3
      <3>3. /\ Len(q) \in Nat /\ Len(r) = Len(q) + 1
            /\ r[Len(r)] = e
            /\ \A i \in 1 .. Len(q) : r[i] = q[i]
            /\ DOMAIN q = 1 .. Len(q)
            /\ DOMAIN r = 1 .. Len(q) + 1
            /\ r # <<>>
            /\ q # <<>> => Len(q) > 0
        <4> HIDE DEF q, r
        <4> QED
          BY <3>1, <3>2, Appended
      <3> QED
        BY <3>3
    <2>5. \A r \in Senders : sender[r] # "idle" => r = s
      BY <1>0, <2>2, OneSends
    <2>6. \A d \in Conns : Writable(d)' <=> Writable(d)
      BY <1>a, <2>2 DEF Writable
    <2>7. WholePackets'
      <3>1. ASSUME outbox[c] # <<>>
            PROVE  LET last == outbox[c][Len(outbox[c])]
                   IN  IF e.part = "body"
                       THEN last = [part |-> "header", num |-> e.num]
                       ELSE last.part = "header" => last.num \in cut
        <4>1. CASE sender[s] = "body"
          <5>1. AwaitsBody(c, s)
            BY <2>1, <4>1 DEF AwaitsBody
          <5> QED
            BY <1>0, <2>1, <3>1, <4>1, <5>1 DEF PendingInv
        <4>2. CASE sender[s] = "header"
          <5>1. \A r \in Senders : ~AwaitsBody(c, r)
            BY <2>5, <4>2 DEF AwaitsBody
          <5> QED
            BY <1>0, <2>1, <3>1, <4>2, <5>1 DEF PendingInv, EndsInHeader, EndsCut
        <4> QED
          BY <2>2, <4>1, <4>2
      <3>2. ASSUME NEW d \in Conns, NEW i \in 2 .. Len(outbox'[d])
            PROVE  IF outbox'[d][i].part = "body"
                   THEN outbox'[d][i - 1] = [part |-> "header", num |-> outbox'[d][i].num]
                   ELSE outbox'[d][i - 1].part = "header" => outbox'[d][i - 1].num \in cut
        <4>1. CASE d # c
          BY <1>0, <2>3, <3>2, <4>1 DEF WholePackets
        <4>2. CASE d = c /\ i = Len(outbox[c]) + 1
          <5>1. /\ outbox[c] # <<>> /\ outbox'[c][i] = e
                /\ i - 1 = Len(outbox[c]) /\ i - 1 \in 1 .. Len(outbox[c])
            BY <2>4, <3>2, <4>2
          <5>2. outbox'[c][i - 1] = outbox[c][Len(outbox[c])]
            <6> HIDE DEF e
            <6> QED
              BY <2>4, <5>1
          <5> HIDE DEF e
          <5> QED
            BY <3>1, <4>2, <5>1, <5>2
        <4>3. CASE d = c /\ i # Len(outbox[c]) + 1
          <5>1. i \in 2 .. Len(outbox[c]) /\ i \in 1 .. Len(outbox[c])
                /\ i - 1 \in 1 .. Len(outbox[c])
            BY <2>4, <3>2, <4>3
          <5>2. outbox'[c][i] = outbox[c][i] /\ outbox'[c][i - 1] = outbox[c][i - 1]
            <6> HIDE DEF e
            <6> QED
              BY <2>4, <5>1
          <5> QED
            BY <1>0, <4>3, <5>1, <5>2 DEF WholePackets
        <4> QED
          BY <4>1, <4>2, <4>3
      <3> QED
        BY <2>2, <3>2 DEF WholePackets
    <2>8. NewInv'
      <3>1. \A d \in Conns : conn[d] \in {"unused", "backlog", "fresh", "syn"} => d # c
        BY <2>1 DEF Writable
      <3> QED
        BY <1>0, <1>a, <2>3, <3>1 DEF NewInv, lifeVars, fdVars, threadVars
    <2>9. ASSUME NEW d \in Conns, d # c, Writable(d)', EndsInHeader(d)' PROVE EndsCut(d)'
      <3>1. Writable(d) /\ EndsInHeader(d)
        BY <2>3, <2>6, <2>9 DEF EndsInHeader
      <3>2. \A r \in Senders : ~AwaitsBody(d, r)
        BY <2>1, <2>5, <2>9 DEF AwaitsBody
      <3>3. EndsCut(d)
        BY <1>0, <3>1, <3>2 DEF PendingInv
      <3> QED
        BY <2>2, <2>3, <2>9, <3>3 DEF EndsCut
    <2>10. CASE sender[s] = "header"
      <3>1. sender' = [sender EXCEPT ![s] = "body"] /\ UNCHANGED <<lock, sendFd, packet>>
        BY <1>4, <2>10 DEF SendPart
      <3>2. LockInv'
        BY <1>0, <1>b, <2>10, <3>1 DEF LockInv
      <3>3. \A r \in Senders, d \in Conns : AwaitsBody(d, r)' <=> r = s /\ d = c
        BY <1>a, <1>b, <2>1, <2>5, <2>10, <3>1 DEF AwaitsBody
      <3>4. \A d \in Conns : Writable(d)' /\ EndsInHeader(d)' => d = c \/ EndsCut(d)'
        BY <2>9
      <3>5. PendingInv'
        BY <2>4, <2>10, <3>1, <3>3, <3>4 DEF PendingInv
      <3> QED
        BY <2>7, <2>8, <3>2, <3>5 DEF SendInv
    <2>11. CASE sender[s] = "body"
      <3>1. Unlock(s)
        BY <1>4, <2>11 DEF SendPart
      <3>2. LockInv'
        BY <1>0, <1>b, <2>11, <3>1 DEF LockInv, Unlock
      <3>3. \A r \in Senders : sender'[r] = "idle"
        BY <1>b, <2>5, <3>1 DEF Unlock
      <3>4. ASSUME NEW d \in Conns, Writable(d)', EndsInHeader(d)' PROVE EndsCut(d)'
        <4>1. CASE d = c
          BY <2>4, <2>11, <3>4, <4>1 DEF EndsInHeader
        <4>2. CASE d # c
          BY <2>9, <3>4, <4>2
        <4> QED
          BY <4>1, <4>2
      <3>5. PendingInv'
        BY <3>3, <3>4 DEF PendingInv, AwaitsBody
      <3> QED
        BY <2>7, <2>8, <3>2, <3>5 DEF SendInv
    <2> QED
      BY <2>2, <2>10, <2>11
  <1>5. CASE SendError(s)
    <2>1. sender[s] \in {"header", "body"} /\ Unlock(s) /\ UNCHANGED outbox
      BY <1>5 DEF SendError, Writing
    <2>2. \A c \in Conns : shut[c] => shut'[c]
      BY <1>5, <1>b DEF SendError
    <2>3. /\ cut \subseteq cut'
          /\ \A c \in Conns : AwaitsBody(c, s) => packet[s] \in cut'
      BY <1>5 DEF SendError, AwaitsBody
    <2> QED
      BY <1>1, <2>1, <2>2, <2>3
  <1>6. CASE SendEpipe(s)
    <2>1. sender[s] \in {"header", "body"} /\ UNCHANGED <<outbox, shut, cut>>
      BY <1>6 DEF SendEpipe, Writing
    <2>2. CASE SigpipeIgnored
      <3>1. Unlock(s)
        BY <1>6, <2>2 DEF SendEpipe
      <3>2. ASSUME NEW c \in Conns, AwaitsBody(c, s) PROVE ~Writable(c)'
        BY <1>6, <1>a, <2>1, <3>2, Constants DEF SendEpipe, AwaitsBody, Writable
      <3> QED
        BY <1>1, <2>1, <3>1, <3>2
    <2>3. CASE ~SigpipeIgnored
      <3>1. UNCHANGED <<lock, sender, sendFd, packet>>
        BY <1>6, <2>3 DEF SendEpipe
      <3>2. LockInv' /\ PendingInv' /\ WholePackets'
        BY <1>0, <1>a, <2>1, <3>1 DEF LockInv, PendingInv, WholePackets, AwaitsBody,
           EndsInHeader, EndsCut, Writable
      <3> QED
        BY <1>c, <2>1, <3>2 DEF SendInv
    <2> QED
      BY <2>2, <2>3
  <1> QED
    BY <1>2, <1>3, <1>4, <1>5, <1>6 DEF SenderStep

(* No step of the comm mixes two packets.                                  *)
LEMMA NextSendInv == IInv /\ SendInv /\ [Next]_vars => SendInv'
  <1> SUFFICES ASSUME IInv, SendInv, [Next]_vars PROVE SendInv'
    OBVIOUS
  <1>1. CASE UNCHANGED vars
    <2>1. LockInv /\ NewInv /\ PendingInv /\ WholePackets
      BY DEF SendInv
    <2>2. UNCHANGED <<role, thread, threadFd, clientFd, sock, conn, shut, outbox, lock, sender,
                      sendFd, packet, cut>>
      BY <1>1 DEF vars, lifeVars, fdVars, threadVars, netVars, sockVars, sendVars
    <2>3. LockInv' /\ NewInv'
      BY <2>1, <2>2 DEF LockInv, NewInv
    <2>4. PendingInv' /\ WholePackets'
      BY <2>1, <2>2 DEF PendingInv, WholePackets, AwaitsBody, EndsInHeader, EndsCut,
         Writable
    <2> QED
      BY <2>3, <2>4 DEF SendInv
  <1>2. CASE Next
    BY <1>2, OwnerSends, ThreadSends, PeerSendsNothing, SenderSends DEF Next, Up
  <1> QED
    BY <1>1, <1>2

(* send_mutex_ keeps the parts of two packets apart, whatever descriptors  *)
(* come to name; a header without its body is that of a send that failed.  *)
THEOREM WholeCorrectness == Spec => []WholePackets
  <1>1. Spec => []SendInv
    BY InitSendInv, NextSendInv, Invariance, PTL DEF Spec
  <1>2. SendInv => WholePackets
    BY DEF SendInv
  <1> QED
    BY <1>1, <1>2, PTL
-----------------------------------------------------------------------------
(* The packets the peers send. *)

(* The thread reads a connection that is open.                             *)
OpenInv == thread \in Opened => conn[sock[clientFd]] = "open"

(* The connection's bytes will be read, or are left in a live socket.      *)
Live(c) == conn[c] # "closed" /\ ~(thread \in {"drop", "close"} /\ sock[clientFd] = c)

AtBody(c) == thread = "body" /\ sock[clientFd] = c

HandedOver(c) == {i \in DOMAIN delivered : delivered[i].conn = c}

(* What a part is, and what has to come after it.                          *)
Name(p) == <<p.part, p.num>>
After(p) == IF p.part = "header" /\ p.shape = "full" THEN <<"body", p.num>>
            ELSE <<"header", p.num + 1>>

(* q leads from a part that is due to the one that is due at its end.      *)
Leads(q, from, to) ==
    IF q = <<>> THEN from = to
    ELSE /\ Name(q[1]) = from
         /\ After(q[Len(q)]) = to
         /\ \A i \in 1 .. Len(q) - 1 : Name(q[i + 1]) = After(q[i])

(* The part the comm thread needs next of c, and the peer's next one.      *)
DueHere(c) == IF AtBody(c) THEN <<"body", head>>
              ELSE <<"header", Cardinality(HandedOver(c)) + 1>>
DueThere(c) == IF owes[c] THEN <<"body", sent[c]>> ELSE <<"header", sent[c] + 1>>

(* What is between the two is the rest of the stream, without a gap; a     *)
(* header that was read is that of the packet after those handed over.     *)
StreamInv ==
    \A c \in Conns : Live(c) =>
        /\ Leads(inbox[c], DueHere(c), DueThere(c))
        /\ AtBody(c) => head = Cardinality(HandedOver(c)) + 1

OrderInv == OpenInv /\ StreamInv /\ DeliveredInOrder

(* The peer adds the part that is due at the end.                          *)
LEMMA LeadsAppend ==
    ASSUME NEW q \in Seq(Parts), NEW p \in Parts, NEW from, NEW to,
           Leads(q, from, to), Name(p) = to
    PROVE  Leads(Append(q, p), from, After(p))
  <1> DEFINE r == Append(q, p)
             n == Len(q)
  <1>1. /\ n \in Nat /\ Len(r) = n + 1 /\ r[n + 1] = p /\ r # <<>>
        /\ \A i \in 1 .. n : r[i] = q[i]
        /\ q = <<>> <=> n = 0
    OBVIOUS
  <1> HIDE DEF r, n
  <1>2. CASE n = 0
    BY <1>1, <1>2 DEF Leads
  <1>3. CASE n # 0
    <2>1. /\ Name(q[1]) = from /\ After(q[n]) = to
          /\ \A i \in 1 .. n - 1 : Name(q[i + 1]) = After(q[i])
      BY <1>1, <1>3 DEF Leads, n
    <2>2. r[1] = q[1] /\ r[n] = q[n] /\ n \in 1 .. n
      BY <1>1, <1>3
    <2>3. ASSUME NEW i \in 1 .. n PROVE Name(r[i + 1]) = After(r[i])
      <3>1. CASE i = n
        BY <1>1, <2>1, <2>2, <3>1
      <3>2. CASE i # n
        <4>1. i \in 1 .. n - 1 /\ i + 1 \in 1 .. n
          BY <1>1, <3>2
        <4> DEFINE k == i + 1
        <4>2. r[k] = q[k] /\ r[i] = q[i]
          BY <1>1, <4>1
        <4>3. Name(q[k]) = After(q[i])
          BY <2>1, <4>1
        <4> HIDE DEF k
        <4>4. Name(r[k]) = After(r[i])
          BY <4>2, <4>3
        <4> QED
          BY <4>4 DEF k
      <3> QED
        BY <3>1, <3>2
    <2>4. Len(r) - 1 = n
      BY <1>1
    <2>5. \A i \in 1 .. Len(r) - 1 : Name(r[i + 1]) = After(r[i])
      BY <2>3, <2>4
    <2> QED
      BY <1>1, <2>1, <2>2, <2>5 DEF Leads
  <1> QED
    BY <1>2, <1>3 DEF r

(* The comm thread takes the part that is due at the front.                *)
LEMMA LeadsTail ==
    ASSUME NEW q \in Seq(Parts), NEW from, NEW to, Leads(q, from, to), q # <<>>
    PROVE  Name(Head(q)) = from /\ Leads(Tail(q), After(Head(q)), to)
  <1> DEFINE r == Tail(q)
             n == Len(q)
  <1>1. /\ n \in Nat \ {0} /\ Len(r) = n - 1 /\ Head(q) = q[1]
        /\ \A i \in 1 .. n - 1 : r[i] = q[i + 1]
    OBVIOUS
  <1>r. r = <<>> <=> Len(r) = 0
    <2>1. r \in Seq(Parts)
      OBVIOUS
    <2> HIDE DEF r
    <2> QED
      BY <2>1
  <1>2. /\ Name(q[1]) = from /\ After(q[n]) = to
        /\ \A i \in 1 .. n - 1 : Name(q[i + 1]) = After(q[i])
    BY DEF Leads
  <1> HIDE DEF r, n
  <1>3. ASSUME n = 1 PROVE Leads(r, After(q[1]), to)
    <2>1. r = <<>> /\ After(q[1]) = to
      BY <1>1, <1>r, <1>2, <1>3
    <2> QED
      BY <2>1 DEF Leads
  <1>4. ASSUME n # 1 PROVE Leads(r, After(q[1]), to)
    <2>1. 1 \in 1 .. n - 1 /\ n - 1 \in 1 .. n - 1 /\ (n - 1) + 1 = n /\ 1 + 1 = 2
      BY <1>1, <1>4
    <2>2. r[1] = q[1 + 1] /\ r[n - 1] = q[(n - 1) + 1]
      BY <1>1, <2>1
    <2>3. Name(r[1]) = After(q[1]) /\ After(r[Len(r)]) = to
      BY <1>1, <1>2, <2>1, <2>2
    <2>4. ASSUME NEW i \in 1 .. Len(r) - 1 PROVE Name(r[i + 1]) = After(r[i])
      <3> DEFINE k == i + 1
                 l == k + 1
      <3>1. i \in 1 .. n - 1 /\ k \in 1 .. n - 1
        BY <1>1
      <3>2. r[k] = q[l] /\ r[i] = q[k]
        BY <1>1, <3>1
      <3>3. Name(q[l]) = After(q[k])
        BY <1>2, <3>1
      <3> HIDE DEF k, l
      <3>4. Name(r[k]) = After(r[i])
        BY <3>2, <3>3
      <3> QED
        BY <3>4 DEF k
    <2>5. r # <<>>
      BY <1>1, <1>r, <1>4
    <2> QED
      BY <2>3, <2>4, <2>5 DEF Leads
  <1> QED
    BY <1>1, <1>2, <1>3, <1>4 DEF r

(* One more packet handed over, of the connection it came on.              *)
LEMMA HandOne ==
    ASSUME TypeOK, NEW p \in Packets, delivered' = Append(delivered, p), DeliveredInOrder,
           p.header = Cardinality(HandedOver(p.conn)) + 1, p.body = p.header
    PROVE  /\ DeliveredInOrder'
           /\ Cardinality(HandedOver(p.conn)') = Cardinality(HandedOver(p.conn)) + 1
           /\ \A c \in Conns : c # p.conn => HandedOver(c)' = HandedOver(c)
  <1> DEFINE n == Len(delivered)
             H == HandedOver(p.conn)
  <1>1. /\ delivered \in Seq(Packets) /\ n \in Nat
        /\ DOMAIN delivered = 1 .. n /\ DOMAIN delivered' = 1 .. n + 1
        /\ \A i \in 1 .. n : delivered'[i] = delivered[i]
        /\ delivered'[n + 1] = p
    BY DEF TypeOK
  <1>2. H \subseteq 1 .. n /\ IsFiniteSet(H)
    <2>1. IsFiniteSet(1 .. n)
      BY <1>1, FS_Interval
    <2>2. H \subseteq 1 .. n
      BY <1>1 DEF HandedOver
    <2> QED
      BY <2>1, <2>2, FS_Subset
  <1>3. HandedOver(p.conn)' = H \cup {n + 1}
    BY <1>1 DEF HandedOver
  <1>4. Cardinality(HandedOver(p.conn)') = Cardinality(H) + 1
    <2>1. n + 1 \notin H
      BY <1>1, <1>2
    <2> QED
      BY <1>2, <1>3, <2>1, FS_AddElement
  <1>5. \A c \in Conns : c # p.conn => HandedOver(c)' = HandedOver(c)
    BY <1>1 DEF HandedOver
  <1>6. DeliveredInOrder'
    <2> DEFINE Place(d, i) == Cardinality({j \in 1 .. i : d[j].conn = d[i].conn})
    <2>1. ASSUME NEW i \in 1 .. n
          PROVE  /\ delivered'[i].header = Place(delivered', i)
                 /\ delivered'[i].body = Place(delivered', i)
      <3>1. {j \in 1 .. i : delivered'[j].conn = delivered'[i].conn}
              = {j \in 1 .. i : delivered[j].conn = delivered[i].conn}
        BY <1>1
      <3> QED
        BY <1>1, <3>1 DEF DeliveredInOrder
    <2>2. {j \in 1 .. n + 1 : delivered'[j].conn = delivered'[n + 1].conn}
            = HandedOver(p.conn)'
      BY <1>1 DEF HandedOver
    <2>3. /\ delivered'[n + 1].header = Place(delivered', n + 1)
          /\ delivered'[n + 1].body = Place(delivered', n + 1)
      BY <1>1, <1>4, <2>2
    <2>4. ASSUME NEW i \in 1 .. n + 1
          PROVE  /\ delivered'[i].header = Place(delivered', i)
                 /\ delivered'[i].body = Place(delivered', i)
      <3> HIDE DEF Place
      <3>1. CASE i = n + 1
        BY <2>3, <3>1
      <3>2. CASE i # n + 1
        <4>1. i \in 1 .. n
          BY <1>1, <3>2
        <4> QED
          BY <2>1, <4>1
      <3> QED
        BY <3>1, <3>2
    <2> QED
      BY <1>1, <2>4 DEF DeliveredInOrder
  <1> QED
    BY <1>4, <1>5, <1>6

(* Steps that neither send nor read, and bring no connection back.         *)
LEMMA StreamsKept ==
    ASSUME StreamInv, DeliveredInOrder, UNCHANGED <<delivered, inbox, sent, owes>>,
           \A c \in Conns : Live(c)' => /\ Live(c)
                                        /\ AtBody(c)' <=> AtBody(c)
                                        /\ AtBody(c) => head' = head
    PROVE  StreamInv' /\ DeliveredInOrder'
  <1>1. DeliveredInOrder'
    BY DEF DeliveredInOrder
  <1>2. ASSUME NEW c \in Conns, Live(c)'
        PROVE  /\ Leads(inbox'[c], DueHere(c)', DueThere(c)')
               /\ AtBody(c)' => head' = Cardinality(HandedOver(c)') + 1
    <2>1. HandedOver(c)' = HandedOver(c)
      BY DEF HandedOver
    <2>2. DueHere(c)' = DueHere(c) /\ DueThere(c)' = DueThere(c)
      BY <1>2, <2>1 DEF DueHere, DueThere
    <2> QED
      BY <1>2, <2>1, <2>2 DEF StreamInv
  <1> QED
    BY <1>1, <1>2 DEF StreamInv

(* Before open there is no connection, and nothing was handed over.        *)
LEMMA InitOrderInv == Init => OrderInv
  <1> SUFFICES ASSUME Init PROVE OrderInv
    OBVIOUS
  <1>1. OpenInv /\ DeliveredInOrder
    BY DEF Init, OpenInv, Opened, Published, DeliveredInOrder
  <1>2. ASSUME NEW c \in Conns
        PROVE  Leads(inbox[c], DueHere(c), DueThere(c)) /\ ~AtBody(c)
    <2>1. HandedOver(c) = {} /\ Cardinality({}) = 0
      BY FS_EmptySet DEF Init, HandedOver
    <2> QED
      BY <2>1 DEF Init, AtBody, DueHere, DueThere, Leads
  <1> QED
    BY <1>1, <1>2 DEF OrderInv, StreamInv

(* open, start, stop and close: they end connections, and leave the rest   *)
(* of the streams alone.                                                   *)
LEMMA OwnerStreams ==
    ASSUME IInv, SendInv, OrderInv, Open \/ Start \/ StopOrClose \/ OwnerStep
    PROVE  OrderInv'
  <1>0. TypeOK /\ LifeInv /\ SockInv /\ OpenInv /\ StreamInv /\ DeliveredInOrder
    BY DEF IInv, OrderInv
  <1>a. /\ UNCHANGED <<delivered, inbox, sent, owes, head>>
        /\ thread' = thread \/ {thread, thread'} \subseteq {"none", "loop", "done"}
    BY <1>0 DEF Open, Start, StopOrClose, OwnerStep, StopFlag, StopListen, StopLoad,
       StopShutdown, StopJoin, MayJoin, CloseSockets, OwnerOnly, threadVars, netVars, peerVars,
       LifeInv, TypeOK
  <1>b. /\ listenFd \in Fds \cup {NoFd} /\ clientFd \in Fds \cup {NoFd}
        /\ sock \in [Fds -> {Free, Listener} \cup Conns]
        /\ conn \in [Conns -> {"unused", "backlog", "fresh", "syn", "open", "closed"}]
    BY <1>0 DEF TypeOK
  <1>c. Fds \subseteq Nat /\ NoFd \notin Fds /\ Free \notin Conns /\ Listener \notin Conns
    BY Constants
  <1>d. /\ \A c \in Conns : \/ conn'[c] = conn[c]
                            \/ conn'[c] = "closed" /\ conn[c] = "backlog"
        /\ thread \in OnConnection => /\ clientFd' = clientFd /\ sock[clientFd] \in Conns
                                      /\ sock'[clientFd] = sock[clientFd]
    <2>0. thread \in OnConnection => clientFd \in Fds /\ sock[clientFd] \in Conns
      BY <1>0 DEF SockInv
    <2>1. CASE Open
      <3>1. PICK f \in Fds : sock[f] = Free /\ sock' = [sock EXCEPT ![f] = Listener]
        BY <2>1 DEF Open, LowestFree
      <3>2. UNCHANGED <<conn, clientFd>>
        BY <2>1 DEF Open
      <3> QED
        BY <1>b, <1>c, <2>0, <3>1, <3>2
    <2>2. CASE StopListen \/ CloseSockets
      <3>1. CloseListener /\ UNCHANGED clientFd
        <4>1. CASE StopListen
          BY <4>1 DEF StopListen
        <4>2. CASE CloseSockets
          <5>1. clientFd = NoFd
            BY <1>0, <4>2 DEF CloseSockets, LifeInv, SockInv, NoConnection, OwnerSteps
          <5> QED
            BY <4>2, <5>1 DEF CloseSockets
        <4> QED
          BY <2>2, <4>1, <4>2
      <3>2. listenFd # NoFd => sock[listenFd] = Listener
        BY <1>0 DEF SockInv
      <3> QED
        BY <1>b, <1>c, <2>0, <3>1, <3>2 DEF CloseListener
    <2>3. CASE Start \/ StopOrClose \/ StopFlag \/ StopLoad \/ StopShutdown \/ StopJoin
      <3>1. UNCHANGED <<sock, conn, clientFd>>
        BY <2>3 DEF Start, StopOrClose, StopFlag, StopLoad, StopShutdown, StopJoin, netVars,
           sockVars, fdVars
      <3> QED
        BY <2>0, <3>1
    <2> QED
      BY <2>1, <2>2, <2>3 DEF OwnerStep
  <1>1. OpenInv'
    BY <1>0, <1>a, <1>d DEF OpenInv, Opened, Published, OnConnection
  <1>2. \A c \in Conns : Live(c)' => /\ Live(c)
                                     /\ AtBody(c)' <=> AtBody(c)
                                     /\ AtBody(c) => head' = head
    BY <1>a, <1>d DEF Live, AtBody, OnConnection, Opened, Published
  <1>3. StreamInv' /\ DeliveredInOrder'
    BY <1>0, <1>a, <1>2, StreamsKept
  <1> QED
    BY <1>1, <1>3 DEF OrderInv

(* The steps of the comm thread that read nothing.                         *)
LEMMA ThreadStreams ==
    ASSUME IInv, SendInv, OrderInv, ThreadStep \/ AcceptTimeout, ~ReadHeader, ~ReadBody
    PROVE  OrderInv'
  <1>0. TypeOK /\ SockInv /\ ServerInv /\ NewInv /\ OpenInv /\ StreamInv /\ DeliveredInOrder
    BY DEF IInv, SendInv, OrderInv
  <1>a. UNCHANGED <<delivered, inbox, sent, owes>>
    BY DEF ThreadStep, TrySocket, TryConnect, Loop, Accept, AcceptFails, AcceptTimeout, Socket,
       SocketFails, StoreFd, Connect, ConnectOk, SetConnected, ConnectFails, Forget, Receive,
       ReadFails, CallbackReturns, Drop, ClearConnected, CloseClient, Goes, Connects, Reads,
       Go, peerVars
  <1>b. /\ thread \in ThreadSteps /\ role \in {"server", "client"}
        /\ sock \in [Fds -> {Free, Listener} \cup Conns]
        /\ conn \in [Conns -> {"unused", "backlog", "fresh", "syn", "open", "closed"}]
    BY <1>0 DEF TypeOK
  <1>c. ASSUME OpenInv',
               \A c \in Conns : Live(c)' => Live(c) /\ ~AtBody(c) /\ ~AtBody(c)'
        PROVE  OrderInv'
    BY <1>0, <1>a, <1>c, StreamsKept DEF OrderInv
  <1>1. CASE \/ Loop \/ AcceptFails \/ AcceptTimeout \/ SocketFails \/ Forget
             \/ Receive \/ ReadFails \/ CallbackReturns \/ SetConnected
             \/ (thread = "drop" /\ ClearConnected("close"))
    <2>1. /\ UNCHANGED <<sock, conn>> /\ thread # "close" /\ thread' # "body"
          /\ thread \in {"body", "drop"} => thread' \in {"drop", "close"}
          /\ thread' \in Opened => thread \in Opened /\ clientFd' = clientFd
      BY <1>1 DEF SetConnected, ClearConnected, Loop, AcceptFails, AcceptTimeout, SocketFails,
                  Forget, Receive, ReadFails,
         CallbackReturns, Goes, Connects, Reads, Go, sockVars, Opened, Published
    <2> QED
      BY <1>0, <1>c, <2>1 DEF OpenInv, Live, AtBody, Opened, Published
  <1>2. CASE Accept \/ Socket
    <2>1. PICK c \in Conns, state \in {"open", "fresh"} :
            NewSocket(c, state) /\ conn[c] \in {"backlog", "unused"}
      BY <1>2 DEF Accept, Socket, Waiting, NextConn
    <2>2. conn' = [conn EXCEPT ![c] = state]
      BY <2>1 DEF NewSocket
    <2>3. thread \in {"accept", "socket"} /\ thread' = "store"
      BY <1>2 DEF Accept, Socket, Connects, Go
    <2> QED
      BY <1>b, <1>c, <2>1, <2>2, <2>3 DEF OpenInv, Opened, Published, Live, AtBody
  <1>3. CASE StoreFd
    <2>1. /\ thread = "store" /\ UNCHANGED <<sock, conn>> /\ clientFd' = threadFd
          /\ thread' = IF role = "server" THEN "options" ELSE "connect"
      BY <1>3 DEF StoreFd, Connects, Go
    <2>2. OpenInv'
      BY <1>0, <2>1 DEF OpenInv, ServerInv, Opened, Published
    <2> QED
      BY <1>c, <2>1, <2>2 DEF Live, AtBody
  <1>4. CASE Connect \/ ConnectOk
    <2>1. /\ thread \in {"connect", "connecting"} /\ UNCHANGED <<sock, clientFd>>
          /\ \/ thread' = "connecting"
                /\ conn' = [conn EXCEPT ![sock[clientFd]] = "syn"]
             \/ thread' = "options"
                /\ conn' = [conn EXCEPT ![sock[clientFd]] = "open"]
      BY <1>4 DEF Connect, ConnectOk, Connects, Go
    <2>2. sock[clientFd] \in Conns /\ conn[sock[clientFd]] \in {"fresh", "syn"}
      BY <1>0, <2>1 DEF SockInv, OnConnection, Opened, Published, NewInv
    <2> QED
      BY <1>b, <1>c, <2>1, <2>2 DEF OpenInv, Opened, Published, Live, AtBody
  <1>5. CASE ConnectFails \/ (thread = "close" /\ CloseClient("dropped"))
    <2>1. /\ CloseFd(clientFd) /\ thread \in {"connecting", "close"}
          /\ thread' \in {"failed", "dropped"}
      BY <1>5 DEF ConnectFails, CloseClient, Connects, Go
    <2>2. \A d \in Conns : conn'[d] = IF sock[clientFd] = d THEN "closed" ELSE conn[d]
      BY <2>1 DEF CloseFd
    <2> QED
      BY <1>c, <2>1, <2>2 DEF OpenInv, Opened, Published, Live, AtBody
  <1> QED
    BY <1>1, <1>2, <1>3, <1>4, <1>5 DEF ThreadStep, TrySocket, TryConnect, Drop

(* A part that is read is the one that is due, so that the packet it       *)
(* completes is the next one of its connection.                            *)
LEMMA ReadStreams ==
    ASSUME IInv, OrderInv, ReadHeader \/ ReadBody
    PROVE  OrderInv'
  <1> DEFINE c == sock[clientFd]
             p == Head(inbox[c])
             n == Cardinality(HandedOver(c))
  <1>0. TypeOK /\ SockInv /\ OpenInv /\ StreamInv /\ DeliveredInOrder
    BY DEF IInv, OrderInv
  <1>a. /\ UNCHANGED <<sock, conn, clientFd, sent, owes>>
        /\ inbox' = [inbox EXCEPT ![c] = Tail(inbox[c])] /\ inbox[c] # <<>>
        /\ thread \in {"header", "body"}
    BY DEF ReadHeader, ReadBody, Reads, TakeInput, Input, sockVars
  <1>b. /\ c \in Conns /\ inbox \in [Conns -> Seq(Parts)] /\ inbox[c] \in Seq(Parts)
        /\ p \in Parts /\ p.shape \in {"full", "empty", "bad"} /\ p.num \in Nat \ {0}
    <2>1. c \in Conns /\ inbox \in [Conns -> Seq(Parts)] /\ inbox[c] \in Seq(Parts)
      BY <1>0, <1>a DEF SockInv, OnConnection, Opened, Published, TypeOK
    <2>2. p \in Parts
      BY <1>a, <2>1
    <2>3. \A x \in Parts : x.shape \in {"full", "empty", "bad"} /\ x.num \in Nat \ {0}
      <3>1. \A x \in Parts : x.shape \in Shapes \cup {"full"} /\ x.num \in 1 .. MaxIn
        BY DEF Parts
      <3>2. \A k \in 1 .. MaxIn : k \in Nat \ {0}
        BY Constants
      <3>3. Shapes \cup {"full"} \subseteq {"full", "empty", "bad"}
        BY Constants
      <3> QED
        BY <3>1, <3>2, <3>3
    <2> QED
      BY <2>1, <2>2, <2>3
  <1>c. Live(c) /\ n \in Nat
    <2>1. HandedOver(c) \subseteq DOMAIN delivered /\ IsFiniteSet(DOMAIN delivered)
      <3>1. DOMAIN delivered = 1 .. Len(delivered) /\ Len(delivered) \in Nat
        BY <1>0 DEF TypeOK
      <3>2. IsFiniteSet(1 .. Len(delivered))
        BY <3>1, FS_Interval
      <3> QED
        BY <3>1, <3>2 DEF HandedOver
    <2>2. n \in Nat
      BY <2>1, FS_Subset, FS_CardinalityType
    <2>3. Live(c)
      BY <1>0, <1>a DEF OpenInv, Opened, Published, Live
    <2> QED
      BY <2>2, <2>3
  <1>d. /\ Name(p) = DueHere(c)
        /\ Leads(inbox'[c], After(p), DueThere(c))
        /\ AtBody(c) => head = n + 1
    <2>1. Leads(inbox[c], DueHere(c), DueThere(c)) /\ (AtBody(c) => head = n + 1)
      BY <1>0, <1>b, <1>c DEF StreamInv
    <2>2. inbox'[c] = Tail(inbox[c])
      BY <1>a, <1>b
    <2>3. /\ Name(Head(inbox[c])) = DueHere(c)
          /\ Leads(Tail(inbox[c]), After(Head(inbox[c])), DueThere(c))
      BY <1>a, <1>b, <2>1, LeadsTail
    <2> QED
      BY <2>1, <2>2, <2>3
  <1>e. thread' \in {"drop", "body", "callback"}
    BY <1>b DEF ReadHeader, ReadBody, Reads, Go, HeaderLeadsTo, Input
  <1>f. OpenInv'
    BY <1>0, <1>a, <1>e DEF OpenInv, Opened, Published
  <1>g. DueThere(c)' = DueThere(c)
    BY <1>a DEF DueThere
  <1>h. ASSUME \A d \in Conns : d # c => HandedOver(d)' = HandedOver(d),
               Live(c)' => /\ After(p) = DueHere(c)'
                           /\ AtBody(c)' => head' = Cardinality(HandedOver(c)') + 1
        PROVE  StreamInv'
    <2>1. ASSUME NEW d \in Conns, d # c, Live(d)'
          PROVE  /\ Leads(inbox'[d], DueHere(d)', DueThere(d)')
                 /\ AtBody(d)' => head' = Cardinality(HandedOver(d)') + 1
      <3>1. inbox'[d] = inbox[d] /\ Live(d) /\ ~AtBody(d) /\ ~AtBody(d)'
        BY <1>a, <1>b, <2>1 DEF Live, AtBody
      <3>2. HandedOver(d)' = HandedOver(d)
        BY <1>h, <2>1
      <3>3. DueHere(d)' = DueHere(d) /\ DueThere(d)' = DueThere(d)
        BY <1>a, <3>1, <3>2 DEF DueHere, DueThere
      <3> QED
        BY <1>0, <3>1, <3>2, <3>3 DEF StreamInv
    <2>2. ASSUME Live(c)'
          PROVE  /\ Leads(inbox'[c], DueHere(c)', DueThere(c)')
                 /\ AtBody(c)' => head' = Cardinality(HandedOver(c)') + 1
      BY <1>d, <1>g, <1>h, <2>2
    <2>3. ASSUME NEW d \in Conns, d = c, Live(d)'
          PROVE  /\ Leads(inbox'[d], DueHere(d)', DueThere(d)')
                 /\ AtBody(d)' => head' = Cardinality(HandedOver(d)') + 1
      <3>1. Live(c)' /\ (AtBody(d)' <=> AtBody(c)') /\ inbox'[d] = inbox'[c]
        BY <1>a, <2>3 DEF Live, AtBody
      <3>2. HandedOver(d)' = HandedOver(c)'
        BY <1>a, <2>3 DEF HandedOver
      <3>3. DueHere(d)' = DueHere(c)' /\ DueThere(d)' = DueThere(c)'
        BY <1>a, <2>3, <3>1, <3>2 DEF DueHere, DueThere
      <3> QED
        BY <2>2, <3>1, <3>2, <3>3
    <2> HIDE DEF c
    <2> QED
      BY <2>1, <2>3 DEF StreamInv
  <1>i. ASSUME NEW m \in Nat, m = n + 1,
               delivered' = Append(delivered, Packet(c, m, m)), Packet(c, m, m) \in Packets
        PROVE  /\ DeliveredInOrder'
               /\ Cardinality(HandedOver(c)') = n + 1
               /\ \A d \in Conns : d # c => HandedOver(d)' = HandedOver(d)
    <2>0. PICK r \in Packets : r = Packet(c, m, m)
      BY <1>i
    <2>1. r.conn = c /\ r.header = m /\ r.body = m
      BY <2>0 DEF Packet
    <2>2. delivered' = Append(delivered, r)
      BY <1>i, <2>0
    <2>3. r.header = Cardinality(HandedOver(r.conn)) + 1 /\ r.body = r.header
      BY <1>i, <2>1
    <2>4. /\ DeliveredInOrder'
          /\ Cardinality(HandedOver(r.conn)') = Cardinality(HandedOver(r.conn)) + 1
          /\ \A d \in Conns : d # r.conn => HandedOver(d)' = HandedOver(d)
      BY <1>0, <2>2, <2>3, HandOne
    <2>5. HandedOver(r.conn)' = HandedOver(c)'
      BY <1>a, <2>1 DEF HandedOver
    <2> QED
      BY <2>1, <2>4, <2>5
  <1>1. CASE ReadHeader
    <2>1. /\ thread = "header" /\ head' = p.num /\ thread' = HeaderLeadsTo[p.shape]
          /\ delivered' = IF p.shape = "empty"
                          THEN Append(delivered, Packet(c, p.num, p.num)) ELSE delivered
      BY <1>1, <1>a DEF ReadHeader, Reads, Go, Meta, Input
    <2>2. p.part = "header" /\ p.num = n + 1
      BY <1>d, <2>1 DEF Name, DueHere, AtBody
    <2>3. CASE p.shape = "empty"
      <3>1. Packet(c, p.num, p.num) \in Packets
        BY <1>b DEF Packet, Packets, Parts
      <3>2. /\ DeliveredInOrder'
            /\ Cardinality(HandedOver(c)') = n + 1
            /\ \A d \in Conns : d # c => HandedOver(d)' = HandedOver(d)
        BY <1>b, <1>i, <2>1, <2>2, <2>3, <3>1
      <3>3. thread' = "callback"
        BY <2>1, <2>3 DEF HeaderLeadsTo
      <3>4. After(p) = DueHere(c)' /\ ~AtBody(c)'
        BY <2>2, <2>3, <3>2, <3>3 DEF After, DueHere, AtBody
      <3> QED
        BY <1>f, <1>h, <3>2, <3>4 DEF OrderInv
    <2>4. CASE p.shape # "empty"
      <3>1. delivered' = delivered
        BY <2>1, <2>4
      <3>2. DeliveredInOrder' /\ \A d \in Conns : HandedOver(d)' = HandedOver(d)
        BY <1>0, <3>1 DEF DeliveredInOrder, HandedOver
      <3>3. CASE p.shape = "full"
        <4>1. thread' = "body" /\ AtBody(c)'
          BY <1>a, <2>1, <3>3 DEF HeaderLeadsTo, AtBody
        <4>2. After(p) = DueHere(c)'
          BY <2>1, <2>2, <3>3, <4>1 DEF After, DueHere
        <4>3. HandedOver(c)' = HandedOver(c)
          BY <1>a, <3>1 DEF HandedOver
        <4>4. head' = Cardinality(HandedOver(c)') + 1
          BY <2>1, <2>2, <4>3
        <4> QED
          BY <1>f, <1>h, <3>2, <4>2, <4>4 DEF OrderInv
      <3>4. CASE p.shape = "bad"
        <4>1. thread' = "drop"
          BY <2>1, <3>4 DEF HeaderLeadsTo
        <4>2. ~Live(c)'
          BY <1>a, <4>1 DEF Live
        <4> QED
          BY <1>f, <1>h, <3>2, <4>2 DEF OrderInv
      <3> QED
        BY <1>b, <2>4, <3>3, <3>4
    <2> QED
      BY <2>3, <2>4
  <1>2. CASE ReadBody
    <2>1. /\ thread = "body" /\ thread' = "callback"
          /\ delivered' = Append(delivered, Packet(c, head, p.num))
      BY <1>2, <1>a DEF ReadBody, Reads, Go, Input
    <2>2. AtBody(c) /\ p.num = n + 1 /\ head = n + 1 /\ p.part = "body"
      BY <1>d, <2>1 DEF Name, DueHere, AtBody
    <2>3. Packet(c, p.num, p.num) \in Packets
      BY <1>b DEF Packet, Packets, Parts
    <2>4. /\ DeliveredInOrder'
          /\ Cardinality(HandedOver(c)') = n + 1
          /\ \A d \in Conns : d # c => HandedOver(d)' = HandedOver(d)
      BY <1>b, <1>i, <2>1, <2>2, <2>3
    <2>5. After(p) = DueHere(c)' /\ ~AtBody(c)'
      BY <2>1, <2>2, <2>4 DEF After, DueHere, AtBody
    <2> QED
      BY <1>f, <1>h, <2>4, <2>5 DEF OrderInv
  <1> QED
    BY <1>1, <1>2

(* The peer sends the part that is due at its end, or connects and closes. *)
LEMMA PeerStreams ==
    ASSUME IInv, OrderInv, NEW c \in Conns, PeerStep(c)
    PROVE  OrderInv'
  <1>0. TypeOK /\ SockInv /\ CountInv /\ OpenInv /\ StreamInv /\ DeliveredInOrder
    BY DEF IInv, OrderInv
  <1>a. UNCHANGED <<thread, head, delivered, clientFd, sock>>
    BY DEF PeerStep, PeerConnects, PeerHeader, PeerBody, PeerCloses, PeerSends, PeerOnly,
       ThreadAndLifeUnchanged, lifeVars, fdVars, threadVars
  <1>b. \A d \in Conns : \/ conn'[d] = conn[d]
                         \/ conn[d] = "unused" /\ conn'[d] = "backlog"
    BY <1>0 DEF PeerStep, PeerConnects, PeerHeader, PeerBody, PeerCloses, PeerSends, NextConn,
       TypeOK
  <1>c. /\ inbox \in [Conns -> Seq(Parts)] /\ inbox[c] \in Seq(Parts)
        /\ sent \in [Conns -> 0 .. MaxIn] /\ owes \in [Conns -> BOOLEAN] /\ MaxIn \in Nat
    BY <1>0, Constants DEF TypeOK
  <1>1. OpenInv'
    BY <1>0, <1>a, <1>b DEF OpenInv, SockInv, Opened, Published, OnConnection
  <1>2. \A d \in Conns : Live(d)' => Live(d) /\ (AtBody(d)' <=> AtBody(d))
    BY <1>a, <1>b DEF Live, AtBody
  <1>3. CASE PeerConnects(c) \/ PeerCloses(c)
    <2>1. UNCHANGED <<inbox, sent, owes>>
      BY <1>3 DEF PeerConnects, PeerCloses, peerVars
    <2>2. StreamInv' /\ DeliveredInOrder'
      BY <1>0, <1>2, <1>a, <2>1, StreamsKept
    <2> QED
      BY <1>1, <2>2 DEF OrderInv
  <1>4. DeliveredInOrder' /\ \A d \in Conns : HandedOver(d)' = HandedOver(d)
    BY <1>0, <1>a DEF DeliveredInOrder, HandedOver
  <1>5. ASSUME NEW p \in Parts, inbox' = [inbox EXCEPT ![c] = Append(inbox[c], p)],
               \A d \in Conns : d # c => owes'[d] = owes[d] /\ sent'[d] = sent[d],
               Name(p) = DueThere(c), After(p) = DueThere(c)'
        PROVE  OrderInv'
    <2>1. \A d \in Conns : DueHere(d)' = IF AtBody(d)' THEN <<"body", head>>
                                         ELSE <<"header", Cardinality(HandedOver(d)) + 1>>
      BY <1>4, <1>a DEF DueHere
    <2>2. ASSUME NEW d \in Conns, Live(d)'
          PROVE  /\ Leads(inbox'[d], DueHere(d)', DueThere(d)')
                 /\ AtBody(d)' => head' = Cardinality(HandedOver(d)') + 1
      <3>1. /\ Live(d) /\ (AtBody(d)' <=> AtBody(d))
            /\ Leads(inbox[d], DueHere(d), DueThere(d))
            /\ AtBody(d) => head = Cardinality(HandedOver(d)) + 1
        BY <1>0, <1>2, <2>2 DEF StreamInv
      <3>2. DueHere(d)' = DueHere(d)
        BY <2>1, <3>1 DEF DueHere
      <3>3. CASE d # c
        <4>1. inbox'[d] = inbox[d] /\ DueThere(d)' = DueThere(d)
          BY <1>5, <1>c, <3>3 DEF DueThere
        <4> QED
          BY <1>4, <1>a, <3>1, <3>2, <4>1
      <3>4. CASE d = c
        <4>1. inbox'[c] = Append(inbox[c], p)
          BY <1>5, <1>c
        <4>2. Leads(Append(inbox[c], p), DueHere(c), After(p))
          BY <1>5, <1>c, <3>1, <3>4, LeadsAppend
        <4>3. Leads(inbox'[d], DueHere(d)', DueThere(d)')
          BY <1>5, <3>2, <3>4, <4>1, <4>2
        <4> QED
          BY <1>4, <1>a, <3>1, <4>3
      <3> QED
        BY <3>3, <3>4
    <2> QED
      BY <1>1, <1>4, <2>2 DEF OrderInv, StreamInv
  <1>6. CASE PeerHeader(c)
    <2>1. PICK shape \in Shapes : /\ PeerSends(c, "header", shape, sent[c] + 1)
                                  /\ owes' = [owes EXCEPT ![c] = shape = "full"]
      BY <1>6 DEF PeerHeader
    <2>2. /\ ~owes[c] /\ sent[c] + 1 \in 1 .. MaxIn
          /\ sent' = [sent EXCEPT ![c] = sent[c] + 1]
      BY <1>6, <1>c DEF PeerHeader
    <2> DEFINE p == [part |-> "header", shape |-> shape, num |-> sent[c] + 1]
    <2>3. p \in Parts /\ inbox' = [inbox EXCEPT ![c] = Append(inbox[c], p)]
      BY <2>1, <2>2 DEF PeerSends, Parts
    <2>4. Name(p) = DueThere(c) /\ After(p) = DueThere(c)'
      BY <1>c, <2>1, <2>2 DEF Name, After, DueThere
    <2>5. \A d \in Conns : d # c => owes'[d] = owes[d] /\ sent'[d] = sent[d]
      BY <1>c, <2>1, <2>2
    <2> HIDE DEF p
    <2> QED
      BY <1>5, <2>3, <2>4, <2>5
  <1>7. CASE PeerBody(c)
    <2> DEFINE p == [part |-> "body", shape |-> "full", num |-> sent[c]]
    <2>1. /\ owes[c] /\ sent[c] \in 1 .. MaxIn /\ UNCHANGED sent
          /\ owes' = [owes EXCEPT ![c] = FALSE]
          /\ inbox' = [inbox EXCEPT ![c] = Append(inbox[c], p)]
      BY <1>0, <1>7 DEF PeerBody, PeerSends, CountInv
    <2>2. p \in Parts
      BY <2>1 DEF Parts
    <2>3. Name(p) = DueThere(c) /\ After(p) = DueThere(c)'
      BY <1>c, <2>1 DEF Name, After, DueThere
    <2>4. \A d \in Conns : d # c => owes'[d] = owes[d] /\ sent'[d] = sent[d]
      BY <1>c, <2>1
    <2> HIDE DEF p
    <2> QED
      BY <1>5, <2>1, <2>2, <2>3, <2>4
  <1> QED
    BY <1>3, <1>6, <1>7 DEF PeerStep

(* The senders do not touch what comes in.                                 *)
LEMMA NextOrderInv == IInv /\ SendInv /\ OrderInv /\ [Next]_vars => OrderInv'
  <1> SUFFICES ASSUME IInv, SendInv, OrderInv, [Next]_vars PROVE OrderInv'
    OBVIOUS
  <1>1. CASE \/ UNCHANGED vars
             \/ \E s \in Senders : SenderStep(s)
    <2>1. OpenInv /\ StreamInv /\ DeliveredInOrder
      BY DEF OrderInv
    <2>2. UNCHANGED <<thread, head, delivered, clientFd, sock, conn, inbox, sent, owes>>
      BY <1>1 DEF vars, netVars, SenderStep, SendStart, SendLoad, SendPart, SendError,
         SendEpipe, SendUnchanged, ThreadAndLifeUnchanged, lifeVars, fdVars, threadVars,
         peerVars, sockVars
    <2>3. OpenInv'
      BY <2>1, <2>2 DEF OpenInv
    <2>4. \A c \in Conns : (Live(c)' <=> Live(c)) /\ (AtBody(c)' <=> AtBody(c))
      BY <2>2 DEF Live, AtBody
    <2>5. StreamInv' /\ DeliveredInOrder'
      BY <2>1, <2>2, <2>4, StreamsKept
    <2> QED
      BY <2>3, <2>5 DEF OrderInv
  <1>2. CASE Open \/ Start \/ StopOrClose \/ OwnerStep
    BY <1>2, OwnerStreams
  <1>3. CASE ThreadStep \/ AcceptTimeout
    BY <1>3, ThreadStreams, ReadStreams
  <1>4. ASSUME NEW c \in Conns, PeerStep(c) PROVE OrderInv'
    BY <1>4, PeerStreams
  <1> QED
    BY <1>1, <1>2, <1>3, <1>4 DEF Next

(* The packets handed over of any connection are its first ones, whole and *)
(* in order, across stops, time-outs, malformed headers and reconnects.    *)
THEOREM DeliveryCorrectness == Spec => []DeliveredInOrder
  <1>1. OrderInv => DeliveredInOrder
    BY DEF OrderInv
  <1> QED
    BY <1>1, Invariance, InitSendInv, NextSendInv, InitOrderInv, NextOrderInv, PTL DEF Spec
-----------------------------------------------------------------------------
(* Why a stop comes to its end.                                            *)

(* What raw_stop does for the thread it will join: the listening socket is *)
(* closed before client_fd_ is loaded, and as no connection is begun once  *)
(* is_running_flag_ is cleared, the one that is loaded is the one that is  *)
(* read, and still open when it is shut down.                              *)
StopInv ==
    /\ owner \in {"load", "shutdown", "join"} => listenFd = NoFd
    /\ thread \in {"header", "body"} =>
         /\ owner = "shutdown" => ownerFd = clientFd
         /\ owner = "join" => shut[sock[clientFd]]

(* The thread that is joined waits for nobody outside of the comm: accept  *)
(* has no descriptor, and a read has come to its end.                      *)
JoinInterrupts ==
    owner = "join" => /\ thread = "accept" => listenFd = NoFd
                      /\ thread \in {"header", "body"} => Ended(sock[clientFd])

(* The owner's steps, each of which prepares the next.                     *)
LEMMA OwnerStops ==
    ASSUME IInv, OrderInv, StopInv, Open \/ Start \/ StopOrClose \/ OwnerStep
    PROVE  StopInv'
  <1>0. TypeOK /\ LifeInv /\ SockInv /\ OpenInv
    BY DEF IInv, OrderInv
  <1>a. thread' = thread \/ thread' \notin {"header", "body"}
    BY DEF Open, Start, StopOrClose, OwnerStep, StopFlag, StopListen, StopLoad, StopShutdown,
       StopJoin, CloseSockets, OwnerOnly, threadVars
  <1>1. CASE Open \/ Start \/ StopOrClose \/ StopFlag \/ StopJoin \/ CloseSockets
    <2>1. owner' \notin {"load", "shutdown", "join"}
      BY <1>1 DEF Open, Start, StopOrClose, StopFlag, StopJoin, CloseSockets, AfterStop
    <2> QED
      BY <2>1 DEF StopInv
  <1>2. CASE StopListen
    <2>1. owner' = "load" /\ listenFd' = NoFd
      BY <1>2 DEF StopListen, CloseListener
    <2> QED
      BY <2>1 DEF StopInv
  <1>3. CASE StopLoad
    <2>1. owner = "load" /\ owner' = "shutdown" /\ ownerFd' = clientFd
          /\ UNCHANGED <<listenFd, clientFd>>
      BY <1>3 DEF StopLoad, fdVars
    <2> QED
      BY <2>1 DEF StopInv
  <1>4. CASE StopShutdown
    <2>1. /\ owner = "shutdown" /\ owner' = "join"
          /\ UNCHANGED <<listenFd, clientFd, sock, conn, thread>>
          /\ \A c \in Conns : ownerFd # NoFd /\ sock[ownerFd] = c /\ conn[c] = "open"
                                => shut'[c]
      BY <1>4 DEF StopShutdown, fdVars, OwnerOnly, threadVars
    <2>2. ASSUME thread \in {"header", "body"}
          PROVE  shut'[sock[clientFd]]
      <3>1. clientFd \in Fds /\ sock[clientFd] \in Conns /\ conn[sock[clientFd]] = "open"
        BY <1>0, <2>2 DEF SockInv, OnConnection, Published, OpenInv, Opened
      <3>2. clientFd # NoFd
        BY <3>1, Constants
      <3>3. ownerFd = clientFd
        BY <2>1, <2>2 DEF StopInv
      <3> QED
        BY <2>1, <3>1, <3>2, <3>3
    <2>3. listenFd' = NoFd
      BY <2>1 DEF StopInv
    <2> QED
      BY <2>1, <2>2, <2>3 DEF StopInv
  <1> QED
    BY <1>1, <1>2, <1>3, <1>4 DEF OwnerStep

(* The thread begins to read only while the flag is set, and reads on from *)
(* the descriptor it has.                                                  *)
LEMMA ThreadStops ==
    ASSUME IInv, StopInv, ThreadStep \/ AcceptTimeout
    PROVE  StopInv'
  <1>0. LifeInv
    BY DEF IInv
  <1>1. UNCHANGED <<owner, ownerFd, listenFd, running, shut>>
    BY DEF ThreadStep, TrySocket, TryConnect, Loop, Accept, AcceptFails, AcceptTimeout, Socket,
       SocketFails, StoreFd, Connect, ConnectOk, SetConnected, ConnectFails, Forget, Receive,
       ReadHeader,
       ReadBody, ReadFails, CallbackReturns, Drop, ClearConnected, CloseClient, Goes, Connects,
       Reads, Go, sockVars
  <1>2. ASSUME thread' \in {"header", "body"}
        PROVE  \/ running
               \/ thread = "header" /\ UNCHANGED <<clientFd, sock>>
    <2>1. CASE Receive
      BY <1>2, <2>1 DEF Receive, Goes, Go
    <2>2. CASE ReadHeader
      BY <2>2 DEF ReadHeader, Reads, sockVars
    <2> QED
      BY <1>2, <2>1, <2>2
      DEF ThreadStep, TrySocket, TryConnect, Loop, Accept, AcceptFails, AcceptTimeout, Socket,
          SocketFails, StoreFd, Connect, ConnectOk, SetConnected, ConnectFails, Forget,
          ReadBody, ReadFails,
          CallbackReturns, Drop, ClearConnected, CloseClient, Goes, Connects, Reads, Go
  <1>3. running => owner \notin {"load", "shutdown", "join"}
    BY <1>0 DEF LifeInv
  <1>4. owner \in {"load", "shutdown", "join"} => listenFd' = NoFd
    BY <1>1 DEF StopInv
  <1> QED
    BY <1>1, <1>2, <1>3, <1>4 DEF StopInv

(* Peers and senders let go of no descriptor; what was shut down stays so. *)
LEMMA NextStopInv == IInv /\ OrderInv /\ StopInv /\ [Next]_vars => StopInv'
  <1> SUFFICES ASSUME IInv, OrderInv, StopInv, [Next]_vars PROVE StopInv'
    OBVIOUS
  <1>0. TypeOK /\ SockInv
    BY DEF IInv
  <1>1. CASE UNCHANGED vars
    BY <1>1 DEF vars, lifeVars, fdVars, threadVars, netVars, sockVars, StopInv
  <1>2. CASE (\E c \in Conns : PeerStep(c)) \/ (\E s \in Senders : SenderStep(s))
    <2>1. UNCHANGED <<owner, ownerFd, listenFd, clientFd, thread, sock>>
      BY <1>2 DEF PeerStep, PeerConnects, PeerHeader, PeerBody, PeerCloses, PeerSends,
         PeerOnly, SenderStep, SendStart, SendLoad, SendPart, SendError, SendEpipe,
         SendUnchanged, ThreadAndLifeUnchanged, lifeVars, fdVars, threadVars, netVars, sockVars
    <2>2. \A c \in Conns : shut[c] => shut'[c]
      BY <1>0, <1>2 DEF PeerStep, PeerConnects, PeerHeader, PeerBody, PeerCloses, PeerSends,
         PeerOnly, SenderStep, SendStart, SendLoad, SendPart, SendError, SendEpipe,
         netVars, sockVars, TypeOK
    <2>3. thread \in {"header", "body"} => sock[clientFd] \in Conns
      BY <1>0 DEF SockInv, OnConnection, Opened, Published
    <2> QED
      BY <2>1, <2>2, <2>3 DEF StopInv
  <1> QED
    BY <1>1, <1>2, OwnerStops, ThreadStops DEF Next

(* A stop, wherever it meets the comm thread, leaves it no call that waits *)
(* for a peer: of StopReturns, what does not depend on scheduling.         *)
THEOREM StopInterrupts == Spec => []JoinInterrupts
  <1>1. Init => StopInv
    BY DEF Init, StopInv
  <1>2. StopInv => JoinInterrupts
    BY DEF StopInv, JoinInterrupts, Ended
  <1> QED
    BY <1>1, <1>2, Invariance, InitSendInv, NextSendInv, InitOrderInv, NextOrderInv,
       NextStopInv, PTL DEF Spec
-----------------------------------------------------------------------------
(* TcpComm is what an endpoint takes it for.                               *)
LEMMA InitContract == Init => Contract!Init
  BY DEF Init, Contract!Init, Started

(* The owner's steps, as the contract sees them.                           *)
LEMMA OwnerContract ==
    ASSUME IInv, Open \/ Start \/ StopOrClose \/ OwnerStep
    PROVE  [Contract!Next]_(Contract!vars)
  <1>0. running \in BOOLEAN /\ thread \in ThreadSteps
    BY DEF IInv, TypeOK
  <1>1. LifeInv
    BY DEF IInv
  <1> USE DEF Contract!vars, Started
  <1>2. CASE Open \/ StopOrClose \/ StopListen \/ StopLoad \/ StopShutdown
    BY <1>2, <1>1 DEF LifeInv, Open, StopOrClose, StopListen, StopLoad, StopShutdown, OwnerOnly,
       threadVars
  <1>3. CASE Start
    <2>1. thread = "none" /\ thread' = "loop" /\ delivered' = delivered
      BY <1>1, <1>3 DEF Start, LifeInv
    <2>2. ~Started /\ Started'
      BY <1>3 DEF Start
    <2> QED
      BY <2>1, <2>2 DEF Contract!Next, Contract!Start
  <1>4. CASE StopFlag
    BY <1>0, <1>4 DEF StopFlag, HasToStop, AfterStop, OwnerOnly, threadVars
  <1>5. CASE StopJoin
    <2>1. Started /\ ~Started'
      BY <1>1, <1>5 DEF StopJoin, AfterStop, LifeInv
    <2>2. thread # "callback" /\ thread' # "callback" /\ delivered' = delivered
      BY <1>5 DEF StopJoin, MayJoin
    <2> QED
      BY <2>1, <2>2 DEF Contract!Next, Contract!Stop
  <1>6. CASE CloseSockets
    BY <1>6 DEF CloseSockets, OwnerOnly, threadVars
  <1> QED
    BY <1>2, <1>3, <1>4, <1>5, <1>6 DEF OwnerStep

(* The comm thread's steps, as the contract sees them.                     *)
LEMMA ThreadContract ==
    ASSUME IInv, ThreadStep \/ AcceptTimeout
    PROVE  [Contract!Next]_(Contract!vars)
  <1>0. TypeOK /\ LifeInv /\ SockInv /\ CountInv
    BY DEF IInv
  <1>a. UNCHANGED <<owner, running>> /\ thread # "none"
    BY DEF ThreadStep, TrySocket, TryConnect, Loop, Accept, AcceptFails, AcceptTimeout, Socket,
       SocketFails, StoreFd, Connect, ConnectOk, SetConnected, ConnectFails, Forget, Receive,
       ReadHeader,
       ReadBody, ReadFails, CallbackReturns, Drop, ClearConnected, CloseClient, Goes, Connects,
       Reads, Go
  <1>b. Started /\ Started'
    BY <1>0, <1>a DEF LifeInv, Started, TypeOK, OwnerSteps
  <1> USE DEF Contract!vars
  <1>1. CASE ReadHeader \/ ReadBody
    <2>1. Input # <<>> /\ thread \in OnConnection /\ thread # "callback"
      BY <1>1 DEF ReadHeader, ReadBody, TakeInput, OnConnection, Opened, Published
    <2>2. CASE delivered' = delivered /\ thread' # "callback"
      BY <1>b, <2>1, <2>2
    <2>3. ASSUME NEW h \in 1 .. MaxIn, NEW b \in 1 .. MaxIn, thread' = "callback",
                 delivered' = Append(delivered, Packet(sock[clientFd], h, b))
          PROVE  Contract!Deliver
      <3>1. Packet(sock[clientFd], h, b) \in Packets
        BY <1>0, <2>1 DEF SockInv, Packet, Packets
      <3> QED
        BY <1>b, <2>1, <2>3, <3>1 DEF Contract!Deliver
    <2>4. Meta \in 1 .. MaxIn /\ Head(Input) \in Parts
      BY <1>0, <2>1, InputParts
    <2>5. CASE ReadHeader
      <3>1. Head(Input).shape \in {"full", "empty", "bad"}
        BY <2>4, Constants DEF Parts
      <3>2. thread' = HeaderLeadsTo[Head(Input).shape] /\ head' = Meta
        BY <2>5 DEF ReadHeader, Reads, Go
      <3>3. CASE Head(Input).shape = "empty"
        BY <2>3, <2>4, <2>5, <3>2, <3>3 DEF ReadHeader, HeaderLeadsTo, Contract!Next
      <3>4. CASE Head(Input).shape # "empty"
        BY <2>2, <2>5, <3>1, <3>2, <3>4 DEF ReadHeader, HeaderLeadsTo
      <3> QED
        BY <3>3, <3>4
    <2>6. CASE ReadBody
      <3>1. head \in 1 .. MaxIn /\ Head(Input).num \in 1 .. MaxIn
        BY <1>0, <2>4, <2>6 DEF CountInv, ReadBody, Meta
      <3>2. Contract!Deliver
        BY <2>3, <2>6, <3>1 DEF ReadBody, Reads, Go
      <3> QED
        BY <3>2 DEF Contract!Next
    <2> QED
      BY <1>1, <2>5, <2>6
  <1>2. CASE CallbackReturns
    BY <1>2, <1>b DEF CallbackReturns, Reads, Go, Contract!Next, Contract!Return
  <1>3. CASE \/ Loop \/ Accept \/ AcceptFails \/ AcceptTimeout \/ TrySocket \/ StoreFd
             \/ Connect \/ TryConnect \/ SetConnected \/ Forget \/ Receive \/ ReadFails \/ Drop
    <2>1. delivered' = delivered /\ thread # "callback" /\ thread' # "callback"
      BY <1>3 DEF ClearConnected, CloseClient, SetConnected, TrySocket, TryConnect, Loop,
                  Accept, AcceptFails, AcceptTimeout, Socket,
         SocketFails, StoreFd, Connect, ConnectOk, SetConnected, ConnectFails, Forget, Receive,
         ReadFails, Drop, Goes, Connects, Go
    <2> QED
      BY <1>b, <2>1
  <1> QED
    BY <1>1, <1>2, <1>3 DEF ThreadStep

(* Every step of the comm is one of the contract, or a stutter.            *)
LEMMA StepContract == IInv /\ [Next]_vars => [Contract!Next]_(Contract!vars)
  <1> SUFFICES ASSUME IInv, [Next]_vars PROVE [Contract!Next]_(Contract!vars)
    OBVIOUS
  <1>1. ASSUME NEW c \in Conns, PeerStep(c) PROVE UNCHANGED Contract!vars
    <2>1. ThreadAndLifeUnchanged
      BY <1>1 DEF PeerStep, PeerConnects, PeerHeader, PeerBody, PeerCloses, PeerSends, PeerOnly
    <2> QED
      BY <2>1 DEF ThreadAndLifeUnchanged, lifeVars, threadVars, Contract!vars, Started
  <1>2. ASSUME NEW s \in Senders, SenderStep(s) PROVE UNCHANGED Contract!vars
    <2>1. UNCHANGED <<lifeVars, threadVars>>
      BY <1>2 DEF SenderStep, SendStart, SendLoad, SendPart, SendError, SendEpipe,
         SendUnchanged, ThreadAndLifeUnchanged
    <2> QED
      BY <2>1 DEF lifeVars, threadVars, Contract!vars, Started
  <1>3. CASE UNCHANGED vars
    BY <1>3 DEF vars, lifeVars, threadVars, Contract!vars, Started
  <1> QED
    BY <1>1, <1>2, <1>3, OwnerContract, ThreadContract DEF Next

(* Callbacks come between start and the return of stop, one at a time.     *)
THEOREM TcpRefinement == Spec => ImplementsContract
  BY InitContract, StepContract, Invariance, PTL DEF Spec, ImplementsContract, Contract!Spec
===============================================================================
