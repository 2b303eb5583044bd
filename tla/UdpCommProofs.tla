----------------------------- MODULE UdpCommProofs -----------------------------
(***************************************************************************)
(* PacketCodec's promises of both layouts, for all robots and bodies and   *)
(* every modulus above the size of a datagram; and UdpComm's replies, for  *)
(* any clients, configs and packets, and that it implements CommContract.  *)
(***************************************************************************)
EXTENDS UdpComm, TLAPS

(* A sum that fits does not wrap.                                          *)
LEMMA NoWrap ==
    ASSUME NEW n \in Nat, n < Mod
    PROVE  n % Mod = n
  BY CodecAssumption

(* The lengths a packet has that fits under both layouts.                  *)
LEMMA Lengths ==
    ASSUME NEW p \in Packets, Fits(p)
    PROVE  /\ Cut[p.robot] \in Robots
           /\ NameLen[Cut[p.robot]] \in Nat
           /\ BodyLen[p.body] \in Nat
           /\ 12 + NameLen[Cut[p.robot]] + BodyLen[p.body] <= MaxSize
           /\ Meta + BodyLen[p.body] <= MaxSize
           /\ MaxSize \in Nat /\ Mod \in Nat /\ Meta \in Nat
           /\ Mod > MaxSize + 12
  BY CodecAssumption DEF Packets, Fits

(* What one side encodes in v1, the other accepts and reads back.          *)
LEMMA RoundTripV1 ==
    ASSUME NEW p \in Packets, Fits(p)
    PROVE  /\ Accepts("v1", EncodeV1(p))
           /\ Decode(EncodeV1(p)) = [p EXCEPT !.robot = Cut[p.robot]]
           /\ BodyBytes(EncodeV1(p)) = BodyLen[p.body]
           /\ p.body \notin ControlBodies => IsPduData(EncodeV1(p))
  <1> DEFINE n == NameLen[Cut[p.robot]]
             b == BodyLen[p.body]
             d == EncodeV1(p)
  <1>1. /\ n \in Nat /\ b \in Nat /\ Mod \in Nat /\ MaxSize \in Nat
        /\ 12 + n + b <= MaxSize
        /\ Mod > MaxSize + 12
    BY Lengths
  <1>2. HeaderLen(p) = 8 + n + b
    <2>1. 4 + n + 4 + b \in Nat /\ 4 + n + 4 + b < Mod
      BY <1>1
    <2>2. (4 + n + 4 + b) % Mod = 4 + n + 4 + b
      BY <2>1, NoWrap
    <2> QED
      BY <1>1, <2>2 DEF HeaderLen
  <1>3. (4 + HeaderLen(p)) % Mod = 12 + n + b
    <2>1. 12 + n + b \in Nat /\ 12 + n + b < Mod
      BY <1>1
    <2>2. (12 + n + b) % Mod = 12 + n + b
      BY <2>1, NoWrap
    <2>3. 4 + HeaderLen(p) = 12 + n + b
      BY <1>1, <1>2
    <2> QED
      BY <2>2, <2>3
  <1>4. n % Mod = n /\ (4 + n + 4) % Mod = 8 + n
    <2>1. n < Mod /\ 4 + n + 4 \in Nat /\ 4 + n + 4 < Mod
      BY <1>1
    <2>2. (4 + n + 4) % Mod = 4 + n + 4
      BY <2>1, NoWrap
    <2>3. n % Mod = n
      BY <1>1, <2>1, NoWrap
    <2> QED
      BY <1>1, <2>2, <2>3
  <1>5. /\ d.layout = "v1" /\ d.size = 12 + n + b
        /\ d.header = 8 + n + b /\ d.nameLen = n
        /\ d.robot = Cut[p.robot] /\ d.channel = p.channel /\ d.body = p.body
    BY <1>2, <1>3, <1>4 DEF EncodeV1
  <1> HIDE DEF d, n, b
  <1>6. Accepts("v1", d)
    BY <1>1, <1>3, <1>4, <1>2, <1>5 DEF Accepts, AcceptsV1
  <1>7. Decode(d) = [p EXCEPT !.robot = Cut[p.robot]]
    BY <1>5 DEF Decode, Packets
  <1>8. BodyBytes(d) = b
    BY <1>1, <1>5 DEF BodyBytes
  <1>9. p.body \notin ControlBodies => IsPduData(d)
    BY <1>5 DEF IsPduData
  <1> QED
    BY <1>6, <1>7, <1>8, <1>9 DEF d, b

(* The same for the layout of version 2.                                   *)
LEMMA RoundTripV2 ==
    ASSUME NEW p \in Packets, Fits(p)
    PROVE  /\ Accepts("v2", EncodeV2(p))
           /\ Decode(EncodeV2(p)) = [p EXCEPT !.robot = Cut[p.robot]]
           /\ BodyBytes(EncodeV2(p)) = BodyLen[p.body]
           /\ IsPduData(EncodeV2(p))
  <1> DEFINE b == BodyLen[p.body]
             d == EncodeV2(p)
  <1>1. /\ b \in Nat /\ Mod \in Nat /\ MaxSize \in Nat /\ Meta \in Nat
        /\ Meta + b <= MaxSize
        /\ Mod > MaxSize + 12
    BY Lengths
  <1>2. b % Mod = b
    BY <1>1, NoWrap
  <1>3. /\ d.layout = "v2" /\ d.size = Meta + b /\ d.magic /\ d.isData
        /\ d.bodyLen = b
        /\ d.robot = Cut[p.robot] /\ d.channel = p.channel /\ d.body = p.body
    BY <1>2 DEF EncodeV2
  <1> HIDE DEF d, b
  <1>4. Accepts("v2", d)
    BY <1>1, <1>3 DEF Accepts, AcceptsV2
  <1>5. Decode(d) = [p EXCEPT !.robot = Cut[p.robot]]
    BY <1>3 DEF Decode, Packets
  <1>6. BodyBytes(d) = b /\ IsPduData(d)
    BY <1>3 DEF BodyBytes, IsPduData
  <1> QED
    BY <1>4, <1>5, <1>6 DEF d, b

(* decode_v1's checks are exact, for every header_len whose sum with four  *)
(* does not wrap.                                                          *)
LEMMA ChecksV1 ==
    ASSUME NEW d \in DatagramsV1
    PROVE  /\ AcceptsV1(d) => 12 + d.nameLen <= d.size
           /\ d.header < Mod - 4 => (AcceptsV1(d) <=> WellFramedV1(d))
  <1>1. /\ d.size \in Nat /\ d.size <= MaxSize
        /\ d.header \in Nat /\ d.nameLen \in Nat
        /\ Mod \in Nat /\ MaxSize \in Nat /\ Mod > MaxSize + 12
    BY CodecAssumption DEF DatagramsV1, U32
  <1>2. AcceptsV1(d) => 12 + d.nameLen <= d.size
    BY <1>1 DEF AcceptsV1
  <1>3. ASSUME d.header < Mod - 4
        PROVE  AcceptsV1(d) <=> WellFramedV1(d)
    <2>1. (4 + d.header) % Mod = 4 + d.header
      BY <1>1, <1>3, NoWrap
    <2>2. ASSUME 12 + d.nameLen <= d.size
          PROVE  (4 + d.nameLen + 4) % Mod = 8 + d.nameLen
      <3>1. 4 + d.nameLen + 4 \in Nat /\ 4 + d.nameLen + 4 < Mod
        BY <1>1, <2>2
      <3>2. (4 + d.nameLen + 4) % Mod = 4 + d.nameLen + 4
        BY <3>1, NoWrap
      <3> QED
        BY <1>1, <3>2
    <2>3. AcceptsV1(d) => WellFramedV1(d)
      BY <1>1, <1>2, <2>1, <2>2 DEF AcceptsV1, WellFramedV1
    <2>4. WellFramedV1(d) => AcceptsV1(d)
      BY <1>1, <2>1, <2>2 DEF AcceptsV1, WellFramedV1
    <2> QED
      BY <2>3, <2>4
  <1> QED
    BY <1>2, <1>3

(* What decode_v2 accepts holds the body it announces.                     *)
LEMMA ChecksV2 ==
    ASSUME NEW d \in DatagramsV2
    PROVE  AcceptsV2(d) => Meta + d.bodyLen <= d.size
  <1>1. d.size \in Nat /\ d.bodyLen \in Nat /\ Meta \in Nat
    BY CodecAssumption DEF DatagramsV2, U32
  <1> QED
    BY <1>1 DEF AcceptsV2

(* Encoding and decoding agree in both layouts, and no length field makes  *)
(* decode_v1 or decode_v2 read beyond the datagram.                        *)
THEOREM CodecCorrectness == FramingAgrees
  <1>1. RoundTrip
    <2> SUFFICES ASSUME NEW v \in Versions, NEW p \in Packets, Fits(p)
                 PROVE  LET d == Encode(v, p)
                        IN  /\ Accepts(v, d)
                            /\ Decode(d) = [p EXCEPT !.robot = Cut[p.robot]]
                            /\ BodyBytes(d) = BodyLen[p.body]
                            /\ (v = "v2" \/ p.body \notin ControlBodies)
                                  => IsPduData(d)
      BY DEF RoundTrip
    <2>1. CASE v = "v1"
      BY <2>1, RoundTripV1 DEF Encode
    <2>2. CASE v = "v2"
      BY <2>2, RoundTripV2 DEF Encode
    <2> QED
      BY <2>1, <2>2 DEF Versions
  <1>2. ReadsWithin
    BY ChecksV1, ChecksV2 DEF ReadsWithin
  <1> QED
    BY <1>1, <1>2 DEF FramingAgrees
-----------------------------------------------------------------------------
(* The receive thread lives from start to the join, and on a socket.       *)
Stopping == owner \in {"shutdown", "join"}

ThreadInv ==
    /\ thread # "none" => running \/ Stopping
    /\ running => fd /\ ~Stopping /\ owner # "close"
    /\ Stopping => fd

(* has_fixed_remote_ is what the config of the open socket says.           *)
FixedInv == ~noSocket => (fixed <=> (fd /\ direction = "inout" /\ remote))

(* Whose address the receive thread is storing.                            *)
CopyInv ==
    /\ thread \in {"copy", "copying"} => from # NoOne
    /\ thread \in {"copy", "copying", "length"} =>
          from \in heard \cup {NoOne}
    /\ thread = "copying" => from \in lastAddr
    /\ thread = "length" /\ from # NoOne => lastAddr = {from}
    /\ thread = "length" /\ from = NoOne => readShut

OfOneHeard ==
    /\ lastAddr \subseteq heard
    /\ IF thread = "copying"
       THEN lastAddr # {}
       ELSE \E c \in Clients : lastAddr = {c}

(* The address is of clients heard, where its length says there is one and *)
(* where a sender is about to use it.                                      *)
AddressInv ==
    /\ lastLen => OfOneHeard
    /\ (sender = "sendto" /\ target = "last" /\ ~overtaken) => OfOneHeard

(* Whoever was heard has been stored, or is about to be.                   *)
HeardInv ==
    /\ heard # {} => fd
    /\ fd /\ direction = "inout" /\ ~fixed /\ heard # {} /\ ~readShut =>
          lastLen \/ thread \in {"copy", "copying", "length"}

IInv == TypeOK /\ ThreadInv /\ FixedInv /\ CopyInv /\ AddressInv /\ HeardInv
-----------------------------------------------------------------------------
(* What the network and the decoder handle keeps its type.                 *)
LEMMA DecodedPacket ==
    ASSUME NEW d \in Datagrams
    PROVE  Decode(d) \in Packets
  <1>1. CASE d \in Foreign
    BY <1>1, UdpAssumption DEF Decode, Packets, DatagramsV1, DatagramsV2
  <1>2. ASSUME NEW v \in Versions, NEW p \in ToSend, d = Encode(v, p)
        PROVE  Decode(d) \in Packets
    <2>1. p \in Packets /\ Cut[p.robot] \in Robots
      BY UdpAssumption, CodecAssumption DEF Packets
    <2>2. CASE v = "v1"
      BY <1>2, <2>1, <2>2 DEF Encode, EncodeV1, Decode, Packets
    <2>3. CASE v # "v1"
      BY <1>2, <2>1, <2>3 DEF Encode, EncodeV2, Decode, Packets
    <2> QED
      BY <2>2, <2>3
  <1> QED
    BY <1>1, <1>2 DEF Datagrams

(* Before open nobody was heard, and there is no thread.                   *)
LEMMA InitIInv == Init => IInv
  <1> SUFFICES ASSUME Init PROVE IInv
    OBVIOUS
  <1>1. TypeOK
    <2>1. delivered \in Seq(Packets)
      BY DEF Init
    <2> QED
      BY <2>1 DEF Init, TypeOK, Versions, Directions
  <1>2. ThreadInv /\ FixedInv /\ CopyInv
    BY DEF Init, ThreadInv, FixedInv, CopyInv, Stopping
  <1>3. AddressInv /\ HeardInv
    BY DEF Init, AddressInv, HeardInv
  <1> QED
    BY <1>1, <1>2, <1>3 DEF IInv

(* Every step keeps the types.                                             *)
LEMMA TypeNext == TypeOK /\ CopyInv /\ [Next]_vars => TypeOK'
  <1> SUFFICES ASSUME TypeOK, CopyInv, [Next]_vars PROVE TypeOK'
    OBVIOUS
  <1> USE DEF TypeOK
  <1>1. CASE OwnerCall
    <2>1. ASSUME NEW c \in Configs, Open(c) PROVE TypeOK'
      BY <2>1, UdpAssumption DEF Open, Configure, OwnerOnly, VersionOf, FixedBy,
         ownerVars, threadVars, senderVars
    <2>2. ASSUME NEW c \in Configs, OpenRefused(c) PROVE TypeOK'
      BY <2>2, UdpAssumption DEF OpenRefused, Configure, OwnerOnly, VersionOf,
         ownerVars, threadVars, senderVars
    <2>3. ASSUME NEW c \in Configs, OpenNoSocket(c) PROVE TypeOK'
      BY <2>3, UdpAssumption DEF OpenNoSocket, Configure, OwnerOnly, VersionOf, FixedBy,
         ownerVars, threadVars, senderVars
    <2>4. ASSUME NEW c \in Configs, OpenUndone(c) PROVE TypeOK'
      BY <2>4, UdpAssumption DEF OpenUndone, Configure, OwnerOnly, VersionOf,
         ownerVars, threadVars, senderVars
    <2>5. ASSUME Start PROVE TypeOK'
      BY <2>5 DEF Start, configVars, sockVars, lastVars, senderVars
    <2>6. ASSUME StopOrClose PROVE TypeOK'
      BY <2>6 DEF StopOrClose, OwnerOnly, configVars, sockVars, lastVars, threadVars,
         senderVars
    <2> QED
      BY <1>1, <2>1, <2>2, <2>3, <2>4, <2>5, <2>6 DEF OwnerCall
  <1>2. CASE OwnerStep
    <2>1. CASE StopFlag
      BY <2>1 DEF StopFlag, AfterStop, OwnerOnly, configVars, sockVars, lastVars,
         threadVars, senderVars
    <2>2. CASE StopShutdown
      BY <2>2 DEF StopShutdown, OwnerOnly, configVars, lastVars, threadVars, senderVars
    <2>3. CASE StopJoin
      BY <2>3 DEF StopJoin, AfterStop, configVars, sockVars, lastVars, senderVars
    <2>4. CASE CloseSocket
      <3>1. /\ overtaken' \in BOOLEAN /\ lastLen' \in BOOLEAN /\ fixed' \in BOOLEAN
            /\ heard' \in SUBSET Clients
        BY <2>4 DEF CloseSocket, LastLenAfterClose, FixedAfterClose
      <3> QED
        BY <2>4, <3>1 DEF CloseSocket, threadVars
    <2> QED
      BY <1>2, <2>1, <2>2, <2>3, <2>4 DEF OwnerStep
  <1>3. CASE ThreadStep
    <2>1. CASE DecodeDatagram
      <3>1. delivered' \in Seq(Packets)
        <4>1. CASE Decodes
          <5>1. Decode(taken) \in Packets
            BY <4>1, DecodedPacket DEF Decodes
          <5> QED
            BY <2>1, <4>1, <5>1 DEF DecodeDatagram
        <4>2. CASE ~Decodes
          BY <2>1, <4>2 DEF DecodeDatagram
        <4> QED
          BY <4>1, <4>2
      <3> QED
        BY <2>1, <3>1 DEF DecodeDatagram, Go, configVars, ownerVars, sockVars, lastVars,
           senderVars
    <2>2. CASE CopyBegins \/ CopyEnds
      <3>1. from \in Clients
        BY <2>2 DEF CopyInv, CopyBegins, CopyEnds
      <3>2. lastAddr' \in SUBSET Clients
        BY <2>2, <3>1 DEF CopyBegins, CopyEnds
      <3> QED
        BY <2>2, <3>1, <3>2 DEF CopyBegins, CopyEnds, Go, configVars, ownerVars, sockVars,
           senderVars
    <2>3. CASE Loop \/ ReceiveNothing \/ ReceiveFails \/ StoreLength \/ CallbackReturns
      BY <2>3 DEF Loop, ReceiveNothing, ReceiveFails, StoreLength, CallbackReturns, Go,
         Remembers, configVars, ownerVars, sockVars, lastVars, senderVars
    <2> QED
      BY <1>3, <2>1, <2>2, <2>3 DEF ThreadStep
  <1>4. CASE SenderStep
    BY <1>4 DEF SenderStep, SendStart, SendRefused, SendLoad, PickTarget, NoTarget,
       SendTo, SendEnds, Sends, ToLast, configVars, ownerVars, sockVars, lastVars,
       threadVars
  <1>5. ASSUME NEW c \in Clients, NEW d \in Datagrams, Receive(c, d) PROVE TypeOK'
    BY <1>5 DEF Receive, Go, Remembers, configVars, ownerVars, sockVars, senderVars
  <1>6. CASE UNCHANGED vars
    BY <1>6 DEF vars, configVars, ownerVars, sockVars, lastVars, threadVars, senderVars
  <1> QED
    BY <1>1, <1>2, <1>3, <1>4, <1>5, <1>6 DEF Next

(* The invariant, by the kinds of steps: each says which of its parts a    *)
(* step can disturb by what it changes.                                    *)
LEMMA ThreadNext == IInv /\ [Next]_vars => ThreadInv' /\ FixedInv' /\ CopyInv'
  <1> SUFFICES ASSUME IInv, [Next]_vars PROVE ThreadInv' /\ FixedInv' /\ CopyInv'
    OBVIOUS
  <1> USE DEF IInv, TypeOK, ThreadInv, FixedInv, CopyInv, Stopping
  <1>1. CASE OwnerCall
    <2>1. ASSUME NEW c \in Configs,
                 Open(c) \/ OpenRefused(c) \/ OpenNoSocket(c) \/ OpenUndone(c)
          PROVE  ThreadInv' /\ FixedInv' /\ CopyInv'
      BY <2>1, UdpAssumption DEF Open, OpenRefused, OpenNoSocket, OpenUndone, Configure,
         OwnerOnly, FixedBy, ownerVars, threadVars, senderVars
    <2>2. CASE Start
      BY <2>2 DEF Start, configVars, sockVars, lastVars, senderVars
    <2>3. CASE StopOrClose
      BY <2>3 DEF StopOrClose, OwnerOnly, configVars, sockVars, lastVars, threadVars
    <2> QED
      BY <1>1, <2>1, <2>2, <2>3 DEF OwnerCall
  <1>2. CASE OwnerStep
    <2>1. CASE StopFlag
      BY <2>1 DEF StopFlag, AfterStop, OwnerOnly, configVars, sockVars, lastVars, threadVars
    <2>2. CASE StopShutdown
      BY <2>2 DEF StopShutdown, OwnerOnly, configVars, lastVars, threadVars
    <2>3. CASE StopJoin
      BY <2>3 DEF StopJoin, MayJoin, AfterStop, configVars, sockVars, lastVars
    <2>4. CASE CloseSocket
      BY <2>4 DEF CloseSocket, LastLenAfterClose, FixedAfterClose, threadVars
    <2> QED
      BY <1>2, <2>1, <2>2, <2>3, <2>4 DEF OwnerStep
  <1>3. CASE ThreadStep
    BY <1>3 DEF ThreadStep, Loop, ReceiveNothing, ReceiveFails, CopyBegins, CopyEnds,
       StoreLength, DecodeDatagram, CallbackReturns, Go, Remembers, configVars,
       ownerVars, sockVars, lastVars
  <1>4. CASE SenderStep
    BY <1>4 DEF SenderStep, SendStart, SendRefused, SendLoad, PickTarget, NoTarget,
       SendTo, SendEnds, Sends, configVars, ownerVars, sockVars, lastVars, threadVars
  <1>5. ASSUME NEW c \in Clients, NEW d \in Datagrams, Receive(c, d)
        PROVE  ThreadInv' /\ FixedInv' /\ CopyInv'
    BY <1>5, UdpAssumption DEF Receive, Go, Remembers, configVars, ownerVars, sockVars
  <1>6. CASE UNCHANGED vars
    BY <1>6 DEF vars, configVars, ownerVars, sockVars, lastVars, threadVars
  <1> QED
    BY <1>1, <1>2, <1>3, <1>4, <1>5, <1>6 DEF Next

(* The address is that of one client, and there is one once somebody was   *)
(* heard.                                                                  *)
LEMMA AddressNext == IInv /\ [Next]_vars => AddressInv' /\ HeardInv'
  <1> SUFFICES ASSUME IInv, [Next]_vars PROVE AddressInv' /\ HeardInv'
    OBVIOUS
  <1> USE DEF IInv, TypeOK, ThreadInv, CopyInv, AddressInv, OfOneHeard, HeardInv, Stopping
  <1>1. CASE OwnerCall
    <2>1. ASSUME NEW c \in Configs,
                 Open(c) \/ OpenRefused(c) \/ OpenNoSocket(c) \/ OpenUndone(c)
          PROVE  AddressInv' /\ HeardInv'
      BY <2>1, UdpAssumption DEF Open, OpenRefused, OpenNoSocket, OpenUndone, Configure,
         OwnerOnly, FixedBy, ownerVars, threadVars, senderVars
    <2>2. CASE Start
      BY <2>2 DEF Start, configVars, sockVars, lastVars, senderVars
    <2>3. CASE StopOrClose
      BY <2>3 DEF StopOrClose, OwnerOnly, configVars, sockVars, lastVars, threadVars,
         senderVars
    <2> QED
      BY <1>1, <2>1, <2>2, <2>3 DEF OwnerCall
  <1>2. CASE OwnerStep
    <2>1. CASE StopFlag
      BY <2>1 DEF StopFlag, OwnerOnly, configVars, sockVars, lastVars, threadVars, senderVars
    <2>2. CASE StopShutdown
      BY <2>2 DEF StopShutdown, OwnerOnly, configVars, lastVars, threadVars, senderVars
    <2>3. CASE StopJoin
      BY <2>3 DEF StopJoin, MayJoin, configVars, sockVars, lastVars, senderVars
    <2>4. CASE CloseSocket
      BY <2>4 DEF CloseSocket, LastLenAfterClose, threadVars
    <2> QED
      BY <1>2, <2>1, <2>2, <2>3, <2>4 DEF OwnerStep
  <1>3. CASE ThreadStep
    <2>1. CASE CopyBegins
      BY <2>1 DEF CopyBegins, Go, configVars, ownerVars, sockVars, senderVars
    <2>2. CASE CopyEnds
      BY <2>2 DEF CopyEnds, Go, configVars, ownerVars, sockVars, senderVars
    <2>3. CASE StoreLength
      BY <2>3 DEF StoreLength, Go, configVars, ownerVars, sockVars, senderVars
    <2>4. CASE Loop \/ ReceiveNothing \/ ReceiveFails \/ DecodeDatagram \/ CallbackReturns
      BY <2>4 DEF Loop, ReceiveNothing, ReceiveFails, DecodeDatagram, CallbackReturns,
         Go, configVars, ownerVars, sockVars, lastVars, senderVars
    <2> QED
      BY <1>3, <2>1, <2>2, <2>3, <2>4 DEF ThreadStep
  <1>4. CASE SenderStep
    BY <1>4 DEF SenderStep, SendStart, SendRefused, SendLoad, PickTarget, NoTarget,
       SendTo, SendEnds, Sends, ToLast, configVars, ownerVars, sockVars, lastVars,
       threadVars
  <1>5. ASSUME NEW c \in Clients, NEW d \in Datagrams, Receive(c, d)
        PROVE  AddressInv' /\ HeardInv'
    BY <1>5 DEF Receive, Go, Remembers, configVars, ownerVars, sockVars, senderVars
  <1>6. CASE UNCHANGED vars
    BY <1>6 DEF vars, configVars, ownerVars, sockVars, lastVars, threadVars, senderVars
  <1> QED
    BY <1>1, <1>2, <1>3, <1>4, <1>5, <1>6 DEF Next

(* No step of the comm breaks the invariant.                               *)
LEMMA NextIInv == IInv /\ [Next]_vars => IInv'
  BY TypeNext, ThreadNext, AddressNext DEF IInv

(* Every state of the comm satisfies it.                                   *)
LEMMA Invariance == Spec => []IInv
  BY InitIInv, NextIInv, PTL DEF Spec

(* A reply goes to one client that was heard on the open socket, unless    *)
(* the address is being copied or a close came in between.                 *)
THEOREM RepliesCorrectness == Spec => []RepliesGoToClients
  <1>1. IInv => RepliesGoToClients
    BY DEF IInv, AddressInv, OfOneHeard, RepliesGoToClients
  <1> QED
    BY <1>1, Invariance, PTL

(* raw_send finds an address whenever somebody was heard on an inout       *)
(* socket without a remote that was not shut down.                         *)
THEOREM AnswersCorrectness == Spec => []HeardCanBeAnswered
  <1>1. IInv => HeardCanBeAnswered
    BY DEF IInv, FixedInv, HeardInv, HeardCanBeAnswered, ToLast
  <1> QED
    BY <1>1, Invariance, PTL
-----------------------------------------------------------------------------
(* UdpComm is what an endpoint takes it for.                               *)
LEMMA InitContract == Init => Contract!Init
  BY DEF Init, Contract!Init, Started

(* Every step of the comm is one of the contract, or a stutter.            *)
LEMMA StepContract == IInv /\ [Next]_vars => [Contract!Next]_(Contract!vars)
  <1> SUFFICES ASSUME IInv, [Next]_vars PROVE [Contract!Next]_(Contract!vars)
    OBVIOUS
  <1> USE DEF IInv, TypeOK, ThreadInv, Stopping, Started, Contract!vars
  <1>1. CASE OwnerCall
    <2>1. ASSUME NEW c \in Configs,
                 Open(c) \/ OpenRefused(c) \/ OpenNoSocket(c) \/ OpenUndone(c)
          PROVE  UNCHANGED Contract!vars
      BY <2>1 DEF Open, OpenRefused, OpenNoSocket, OpenUndone, Configure, OwnerOnly,
         ownerVars, threadVars
    <2>2. CASE Start
      <3>1. ~Started /\ Started'
        BY <2>2 DEF Start
      <3>2. thread = "none" /\ thread' \in {"none", "loop"} /\ delivered' = delivered
        BY <2>2 DEF Start
      <3> QED
        BY <3>1, <3>2 DEF Contract!Next, Contract!Start
    <2>3. CASE StopOrClose
      BY <2>3 DEF StopOrClose, OwnerOnly, threadVars
    <2> QED
      BY <1>1, <2>1, <2>2, <2>3 DEF OwnerCall
  <1>2. CASE OwnerStep
    <2>1. CASE StopFlag
      <3>1. UNCHANGED <<thread, delivered>>
        BY <2>1 DEF StopFlag, OwnerOnly, threadVars
      <3>2. CASE running /\ thread = "none"
        <4>1. Started /\ ~Started'
          BY <2>1, <3>2 DEF StopFlag, AfterStop
        <4> QED
          BY <3>1, <3>2, <4>1 DEF Contract!Next, Contract!Stop
      <3>3. CASE ~(running /\ thread = "none")
        <4>1. Started' = Started
          BY <2>1, <3>3 DEF StopFlag, AfterStop
        <4> QED
          BY <3>1, <4>1
      <3> QED
        BY <3>2, <3>3
    <2>2. CASE StopShutdown
      BY <2>2 DEF StopShutdown, OwnerOnly, threadVars
    <2>3. CASE StopJoin
      <3>1. Started /\ ~Started'
        BY <2>3 DEF StopJoin, AfterStop
      <3>2. thread = "done" /\ thread' = "none" /\ delivered' = delivered
        BY <2>3 DEF StopJoin, MayJoin
      <3> QED
        BY <3>1, <3>2 DEF Contract!Next, Contract!Stop
    <2>4. CASE CloseSocket
      BY <2>4 DEF CloseSocket, threadVars
    <2> QED
      BY <1>2, <2>1, <2>2, <2>3, <2>4 DEF OwnerStep
  <1>3. CASE ThreadStep
    <2>1. CASE DecodeDatagram
      <3>1. Started /\ Started'
        BY <2>1 DEF DecodeDatagram, Go, ownerVars
      <3>2. CASE Decodes
        <4>1. taken \in Datagrams
          BY <3>2 DEF Decodes
        <4>2. Decode(taken) \in Packets
          BY <4>1, DecodedPacket
        <4>3. /\ thread = "decode" /\ thread' = "callback"
              /\ delivered' = Append(delivered, Decode(taken))
          BY <2>1, <3>2 DEF DecodeDatagram, Go
        <4> QED
          BY <3>1, <4>2, <4>3 DEF Contract!Next, Contract!Deliver
      <3>3. CASE ~Decodes
        BY <2>1, <3>1, <3>3 DEF DecodeDatagram, Go
      <3> QED
        BY <3>2, <3>3
    <2>2. CASE CallbackReturns
      <3>1. thread = "callback" /\ thread' = "loop" /\ delivered' = delivered
        BY <2>2 DEF CallbackReturns, Go
      <3>2. Started' = Started
        BY <2>2 DEF CallbackReturns, Go, ownerVars
      <3> QED
        BY <3>1, <3>2 DEF Contract!Next, Contract!Return
    <2>3. CASE \/ Loop \/ ReceiveNothing \/ ReceiveFails
               \/ CopyBegins \/ CopyEnds \/ StoreLength
      BY <2>3 DEF Loop, ReceiveNothing, ReceiveFails, CopyBegins, CopyEnds, StoreLength,
         Go, ownerVars
    <2> QED
      BY <1>3, <2>1, <2>2, <2>3 DEF ThreadStep
  <1>4. CASE SenderStep
    BY <1>4 DEF SenderStep, SendStart, SendRefused, SendLoad, PickTarget, NoTarget,
       SendTo, SendEnds, Sends, ownerVars, threadVars
  <1>5. ASSUME NEW c \in Clients, NEW d \in Datagrams, Receive(c, d)
        PROVE  UNCHANGED Contract!vars
    BY <1>5 DEF Receive, Go, ownerVars
  <1>6. CASE UNCHANGED vars
    BY <1>6 DEF vars, ownerVars, threadVars
  <1> QED
    BY <1>1, <1>2, <1>3, <1>4, <1>5, <1>6 DEF Next

(* Callbacks come between start and the return of stop, one at a time.     *)
THEOREM UdpRefinement == Spec => ImplementsContract
  BY InitContract, StepContract, Invariance, PTL DEF Spec, ImplementsContract, Contract!Spec
================================================================================
