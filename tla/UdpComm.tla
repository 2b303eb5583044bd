------------------------------- MODULE UdpComm -------------------------------
(***************************************************************************)
(* UdpComm (src/comm_udp.cpp, include/hakoniwa/pdu/comm/comm_udp.hpp) with *)
(* the send and on_raw_data_received of PduCommRaw (comm_raw.hpp) around   *)
(* it: one owner that opens, starts, stops and closes, the receive thread, *)
(* and a sender.  send_mutex_ makes one sender of all that there are.      *)
(*                                                                         *)
(* The network may lose, duplicate, delay and reorder datagrams: recvfrom  *)
(* returns any datagram of any client, at any time, as often as it likes.  *)
(*                                                                         *)
(* last_client_addr_ and its length are written by the receive thread and  *)
(* read by the sender without a lock.  An address is the set of clients    *)
(* whose bytes it is made of: one, or two while one is copied over another.*)
(***************************************************************************)
EXTENDS PacketCodec, Sequences

CONSTANTS Clients,     \* addresses that send to the comm
          Configs,     \* contents a config file may have
          Foreign,     \* datagrams a client sends that this code did not make
          ToSend,      \* packets the sender sends
          NoOne,       \* no address, no packet and no datagram
          MaxDelivered \* bound: packets handed to on_recv_callback_

Directions == {"in", "out", "inout"}

ASSUME UdpAssumption ==
    /\ Configs \subseteq [direction : Directions, remote : BOOLEAN,
                          version : Versions \cup {"unset"}]
    /\ \A c \in Configs : c.direction = "out" => c.remote
    /\ Foreign \subseteq DatagramsV1 \cup DatagramsV2
    /\ ToSend \subseteq Packets
    /\ NoOne \notin Clients \cup Packets \cup DatagramsV1 \cup DatagramsV2
    /\ MaxDelivered \in Nat

VARIABLES
    version,    \* packet_version_
    direction,  \* config_direction_
    remote,     \* the config of the open socket names a remote address
    fixed,      \* has_fixed_remote_
    dest,       \* dest_addr_len_ is not zero
    fd,         \* socket_fd_ is a descriptor
    readShut,   \* the socket was shut down for reading
    running,    \* is_running_flag_
    owner,      \* where the owner is in its call
    closing,    \* its stop was called by raw_close
    thread,     \* recv_thread_: "none" (not joinable) or where it is
    from,       \* recv_loop's from: the client, or NoOne if recvfrom gave none
    taken,      \* the datagram it received
    lastAddr,   \* last_client_addr_
    lastLen,    \* last_client_addr_len_ is not zero
    sender,     \* where the sender is in its send
    target,     \* raw_send's target_addr: "dest" or "last"
    sending,    \* the packet it sends
    overtaken,  \* history: the comm was closed since that send began
    heard,      \* history: clients received from since open
    noSocket,   \* history: an open found no socket, and no close came since
    delivered   \* history: packets handed to on_recv_callback_

configVars == <<version, direction, remote, fixed, dest, noSocket>>
ownerVars == <<running, owner, closing>>
sockVars == <<fd, readShut>>
lastVars == <<lastAddr, lastLen, heard>>
threadVars == <<thread, from, taken, delivered>>
senderVars == <<sender, target, sending, overtaken>>
vars == <<configVars, ownerVars, sockVars, lastVars, threadVars, senderVars>>

Datagrams == Foreign \cup {Encode(v, p) : v \in Versions, p \in ToSend}

TypeOK ==
    /\ version \in Versions
    /\ direction \in Directions
    /\ owner \in {"idle", "flag", "shutdown", "join", "close"}
    /\ thread \in {"none", "loop", "recv", "copy", "copying", "length", "decode",
                   "callback", "done"}
    /\ from \in Clients \cup {NoOne}
    /\ taken \in Datagrams \cup {NoOne}
    /\ lastAddr \in SUBSET Clients
    /\ sender \in {"idle", "load", "target", "sendto"}
    /\ target \in {"dest", "last"}
    /\ sending \in ToSend \cup {NoOne}
    /\ heard \in SUBSET Clients
    /\ delivered \in Seq(Packets)
    /\ {remote, fixed, dest, fd, readShut, running, closing, lastLen, overtaken,
        noSocket} \subseteq BOOLEAN

Init ==
    /\ version = "v2"
    /\ direction = "inout"
    /\ owner = "idle"
    /\ thread = "none"
    /\ from = NoOne
    /\ taken = NoOne
    /\ lastAddr = {}
    /\ sender = "idle"
    /\ target = "dest"
    /\ sending = NoOne
    /\ heard = {}
    /\ delivered = <<>>
    /\ remote = FALSE /\ fixed = FALSE /\ dest = FALSE /\ noSocket = FALSE
    /\ fd = FALSE /\ readShut = FALSE
    /\ running = FALSE /\ closing = FALSE
    /\ lastLen = FALSE /\ overtaken = FALSE
-----------------------------------------------------------------------------
(* The owner. *)

OwnerOnly == UNCHANGED <<threadVars, senderVars>>

(* A config without comm_raw_version leaves the version of an earlier one. *)
VersionOf(c) == IF c.version = "unset" THEN version ELSE c.version

FixedBy(c) == fixed \/ (c.direction = "inout" /\ c.remote)

(* The config is read into the members before there is a socket.           *)
Configure(c) ==
    /\ owner = "idle"
    /\ ~fd
    /\ direction' = c.direction
    /\ OwnerOnly
    /\ UNCHANGED <<ownerVars, readShut, lastAddr, heard>>

Open(c) ==
    /\ Configure(c)
    /\ version' = VersionOf(c)
    /\ remote' = c.remote
    /\ fixed' = FixedBy(c)
    /\ dest' = c.remote
    /\ fd' = TRUE
    /\ UNCHANGED <<lastLen, noSocket>>

(* A version that is not supported, or an address that does not resolve.   *)
OpenRefused(c) ==
    /\ Configure(c)
    /\ version' \in {version, VersionOf(c)}
    /\ UNCHANGED <<remote, fixed, dest, fd, lastLen, noSocket>>

(* socket(2) fails: has_fixed_remote_ is left as the config set it.        *)
OpenNoSocket(c) ==
    /\ Configure(c)
    /\ version' = VersionOf(c)
    /\ fixed' = FixedBy(c)
    /\ noSocket' = TRUE
    /\ UNCHANGED <<remote, dest, fd, lastLen>>

(* An option, bind or the multicast group fails: raw_close cleans up.      *)
OpenUndone(c) ==
    /\ Configure(c)
    /\ version' = VersionOf(c)
    /\ remote' = FALSE /\ fixed' = FALSE /\ dest' = FALSE /\ lastLen' = FALSE
    /\ noSocket' = FALSE
    /\ UNCHANGED fd

Start ==
    /\ owner = "idle"
    /\ fd /\ ~running
    /\ running' = TRUE
    /\ thread' = IF direction = "out" THEN thread ELSE "loop"
    /\ UNCHANGED <<configVars, owner, closing, sockVars, lastVars, from, taken,
                   delivered, senderVars>>

StopOrClose ==
    /\ owner = "idle"
    /\ owner' = "flag"
    /\ closing' \in BOOLEAN
    /\ OwnerOnly
    /\ UNCHANGED <<configVars, running, sockVars, lastVars>>

AfterStop == IF closing THEN "close" ELSE "idle"

StopFlag ==
    /\ owner = "flag"
    /\ running' = FALSE
    /\ owner' = IF running /\ thread # "none" THEN "shutdown" ELSE AfterStop
    /\ OwnerOnly
    /\ UNCHANGED <<configVars, closing, sockVars, lastVars>>

(* shutdown(SHUT_RD); only a new socket can be read from again.            *)
StopShutdown ==
    /\ owner = "shutdown"
    /\ readShut' = TRUE
    /\ owner' = "join"
    /\ OwnerOnly
    /\ UNCHANGED <<configVars, running, closing, fd, lastVars>>

(* Fault: a thread that is in a callback is not waited for.                *)
MayJoinBusy == thread \in {"done", "callback"}

MayJoin == thread = "done"

StopJoin ==
    /\ owner = "join"
    /\ MayJoin
    /\ thread' = "none"
    /\ owner' = AfterStop
    /\ UNCHANGED <<configVars, running, closing, sockVars, lastVars, from, taken,
                   delivered, senderVars>>

(* Fault: the last client of one opening is kept for the next.             *)
LastLenKept == lastLen

LastLenAfterClose == FALSE

(* Fault: the fixed remote of one opening is kept for the next.            *)
FixedKept == fixed

FixedAfterClose == FALSE

(* What raw_close does after raw_stop.  last_client_addr_ keeps its bytes. *)
CloseSocket ==
    /\ owner = "close"
    /\ owner' = "idle"
    /\ fd' = FALSE /\ readShut' = FALSE
    /\ remote' = FALSE
    /\ fixed' = FixedAfterClose
    /\ dest' = FALSE
    /\ lastLen' = LastLenAfterClose
    /\ heard' = {}
    /\ noSocket' = FALSE
    /\ overtaken' = (sender # "idle")
    /\ UNCHANGED <<version, direction, running, closing, lastAddr, threadVars,
                   sender, target, sending>>
-----------------------------------------------------------------------------
(* The receive thread: recv_loop and on_raw_data_received. *)

Go(step) == /\ thread' = step
            /\ UNCHANGED <<configVars, ownerVars, sockVars, senderVars>>

(* Fault: the flag is looked at only when a read fails.                    *)
LoopAlways == thread = "loop" /\ Go("recv") /\ UNCHANGED <<lastVars, from, taken, delivered>>

Loop == /\ thread = "loop"
        /\ Go(IF running THEN "recv" ELSE "done")
        /\ UNCHANGED <<lastVars, from, taken, delivered>>

Remembers == direction = "inout" /\ ~fixed

Receive(c, d) ==
    /\ thread = "recv"
    /\ Len(delivered) < MaxDelivered
    /\ from' = c
    /\ taken' = d
    /\ heard' = heard \cup {c}
    /\ Go(IF Remembers THEN "copy" ELSE "decode")
    /\ UNCHANGED <<lastAddr, lastLen, delivered>>

(* A socket shut down for reading has no more to wait for: recvfrom gives  *)
(* zero bytes and an address of length zero.                               *)
ReceiveNothing ==
    /\ thread = "recv"
    /\ readShut
    /\ from' = NoOne
    /\ taken' = NoOne
    /\ Go(IF Remembers THEN "length" ELSE "decode")
    /\ UNCHANGED <<lastVars, delivered>>

(* SO_RCVTIMEO, a signal, or an error, which is not fatal either.          *)
ReceiveFails == /\ thread = "recv"
                /\ Go("loop")
                /\ UNCHANGED <<lastVars, from, taken, delivered>>

(* memcpy of the address, of which another thread may see the middle.      *)
CopyBegins == /\ thread = "copy"
              /\ lastAddr' = lastAddr \cup {from}
              /\ Go("copying")
              /\ UNCHANGED <<lastLen, heard, from, taken, delivered>>

CopyEnds == /\ thread = "copying"
            /\ lastAddr' = {from}
            /\ Go("length")
            /\ UNCHANGED <<lastLen, heard, from, taken, delivered>>

StoreLength == /\ thread = "length"
               /\ lastLen' = (from # NoOne)
               /\ Go("decode")
               /\ UNCHANGED <<lastAddr, heard, from, taken, delivered>>

Decodes == taken # NoOne /\ Accepts(version, taken) /\ IsPduData(taken)

DecodeDatagram ==
    /\ thread = "decode"
    /\ IF Decodes
       THEN delivered' = Append(delivered, Decode(taken)) /\ Go("callback")
       ELSE Go("loop") /\ UNCHANGED delivered
    /\ from' = NoOne
    /\ taken' = NoOne
    /\ UNCHANGED lastVars

CallbackReturns == /\ thread = "callback"
                   /\ Go("loop")
                   /\ UNCHANGED <<lastVars, from, taken, delivered>>
-----------------------------------------------------------------------------
(* The sender, with send_mutex_: PduCommRaw::send and raw_send. *)

Sends(step) == /\ sender' = step
               /\ UNCHANGED <<configVars, ownerVars, sockVars, lastVars, threadVars>>

(* The packet is encoded, and then the descriptor loaded.                  *)
SendStart(p) == /\ sender = "idle"
                /\ Sends("load")
                /\ sending' = p
                /\ overtaken' = FALSE
                /\ UNCHANGED target

SendEnds == Sends("idle") /\ sending' = NoOne /\ target' = "dest" /\ overtaken' = FALSE

SendRefused == sender = "load" /\ (~fd \/ direction = "in") /\ SendEnds

SendLoad == /\ sender = "load"
            /\ fd /\ direction # "in"
            /\ Sends("target")
            /\ UNCHANGED <<target, sending, overtaken>>

ToLast == ~fixed /\ direction = "inout"

(* Where to: a pointer to an address, and the length the address has now.  *)
PickTarget == /\ sender = "target"
              /\ IF ToLast THEN lastLen ELSE dest
              /\ target' = IF ToLast THEN "last" ELSE "dest"
              /\ Sends("sendto")
              /\ UNCHANGED <<sending, overtaken>>

NoTarget == /\ sender = "target"
            /\ ~(IF ToLast THEN lastLen ELSE dest)
            /\ SendEnds

(* sendto(2) reads the address now, or fails: EBADF after a close, say.    *)
SendTo == sender = "sendto" /\ SendEnds
-----------------------------------------------------------------------------
OwnerStep == StopFlag \/ StopShutdown \/ StopJoin \/ CloseSocket

ThreadStep == \/ Loop \/ ReceiveNothing \/ ReceiveFails
              \/ CopyBegins \/ CopyEnds \/ StoreLength
              \/ DecodeDatagram \/ CallbackReturns

OwnerCall == \/ \E c \in Configs : \/ Open(c) \/ OpenRefused(c)
                                   \/ OpenNoSocket(c) \/ OpenUndone(c)
             \/ Start \/ StopOrClose

SenderStep == \/ \E p \in ToSend : SendStart(p)
              \/ SendRefused \/ SendLoad \/ PickTarget \/ NoTarget \/ SendTo

Next == \/ OwnerCall \/ OwnerStep \/ ThreadStep \/ SenderStep
        \/ \E c \in Clients, d \in Datagrams : Receive(c, d)

Spec == Init /\ [][Next]_vars

(* A call that was entered goes on, and the receive thread is scheduled:   *)
(* raw_open sets a timeout for recvfrom, so that it always returns.        *)
FairSpec == Spec /\ WF_vars(OwnerStep) /\ WF_vars(ThreadStep)
-----------------------------------------------------------------------------
(* A reply goes to one client, of those heard since the socket was opened, *)
(* unless the receive thread is copying another client's address at that   *)
(* moment, or the comm was closed while the reply was on its way.          *)
RepliesGoToClients ==
    /\ TypeOK
    /\ (sender = "sendto" /\ target = "last" /\ ~overtaken) =>
          /\ lastAddr \subseteq heard
          /\ IF thread = "copying"
             THEN lastAddr # {}
             ELSE \E c \in Clients : lastAddr = {c}

(* Who talked to an inout comm without a remote can be answered, until the *)
(* socket is shut down for reading by a stop, or unless an earlier open    *)
(* failed for want of a socket and left has_fixed_remote_ set.             *)
HeardCanBeAnswered ==
    /\ fd /\ direction = "inout" /\ ~remote
    /\ heard # {}
    /\ thread \in {"none", "loop", "recv"}
    /\ ~readShut
    /\ ~noSocket
    => ToLast /\ lastLen

(* Seen from the endpoint, a UdpComm is a CommContract.                    *)
Started == running \/ owner \in {"shutdown", "join"}

Contract == INSTANCE CommContract WITH started <- Started,
                                       inCallback <- (thread = "callback")

ImplementsContract == Contract!Spec

(* A stop or close returns: the socket that is shut down, and the timeout  *)
(* of recvfrom, each bring the receive thread back to the flag.            *)
StopReturns == owner # "idle" ~> owner = "idle"
=============================================================================
