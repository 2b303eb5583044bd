----------------------------- MODULE PacketCodec -----------------------------
(***************************************************************************)
(* DataPacket (include/hakoniwa/pdu/comm/packet.hpp): how PduCommRaw turns *)
(* a PDU into bytes and back, in the layouts "v1" and "v2".                *)
(*                                                                         *)
(* A datagram is the record of the fields its bytes hold and its size in   *)
(* bytes.  A sender that is not this code may write any numbers into the   *)
(* length fields.  They are uint32_t, of which Mod stands for the modulus. *)
(* A datagram of one layout is not read as the other: robot names have at  *)
(* least four characters, and a body does not hold a whole header.         *)
(***************************************************************************)
EXTENDS Integers

CONSTANTS Robots,        \* names of robots
          Cut,           \* Cut[r]: the first 127 characters of r
          NameLen,       \* NameLen[r]: length of r
          Channels,
          Bodies,
          BodyLen,       \* BodyLen[b]: length of b
          ControlBodies, \* bodies that begin with a control magic number
          Meta,          \* TOTAL_PDU_META_SIZE, 304 bytes
          Mod,           \* 2^32
          MaxSize        \* the longest datagram

ASSUME CodecAssumption ==
    /\ Cut \in [Robots -> Robots]
    /\ NameLen \in [Robots -> Nat]
    /\ BodyLen \in [Bodies -> Nat]
    /\ ControlBodies \subseteq Bodies
    /\ Meta \in Nat
    /\ MaxSize \in Nat
    /\ Mod \in Nat
    /\ Mod > MaxSize + 12

Versions == {"v1", "v2"}
U32 == 0 .. Mod - 1

Packets == [robot : Robots, channel : Channels, body : Bodies]

(* What fits into a datagram under both layouts.                           *)
Fits(p) == /\ Meta + BodyLen[p.body] <= MaxSize
           /\ 12 + NameLen[Cut[p.robot]] + BodyLen[p.body] <= MaxSize

DatagramsV1 == [layout : {"v1"}, size : 0 .. MaxSize, header : U32, nameLen : U32,
                robot : Robots, channel : Channels, body : Bodies]

DatagramsV2 == [layout : {"v2"}, size : 0 .. MaxSize, magic : BOOLEAN,
                isData : BOOLEAN, bodyLen : U32,
                robot : Robots, channel : Channels, body : Bodies]
-----------------------------------------------------------------------------
EncodeV2(p) ==
    [layout |-> "v2", size |-> Meta + BodyLen[p.body], magic |-> TRUE,
     isData |-> TRUE, bodyLen |-> BodyLen[p.body] % Mod,
     robot |-> Cut[p.robot], channel |-> p.channel, body |-> p.body]

(* Fault: header_len counts the name's length field only once.             *)
HeaderLenShort(p) == (4 + NameLen[Cut[p.robot]] + BodyLen[p.body]) % Mod

HeaderLen(p) == (4 + NameLen[Cut[p.robot]] + 4 + BodyLen[p.body]) % Mod

EncodeV1(p) ==
    [layout |-> "v1", size |-> (4 + HeaderLen(p)) % Mod, header |-> HeaderLen(p),
     nameLen |-> NameLen[Cut[p.robot]] % Mod,
     robot |-> Cut[p.robot], channel |-> p.channel, body |-> p.body]

Encode(version, p) == IF version = "v1" THEN EncodeV1(p) ELSE EncodeV2(p)

(* A body that is there in full: bytes after it are ignored.               *)
AcceptsV2(d) == /\ d.size >= Meta
                /\ d.magic
                /\ d.size - Meta >= d.bodyLen

(* The sums with a uint32_t on both sides wrap; index is a size_t.         *)
AcceptsV1(d) == /\ d.size >= 4
                /\ d.size >= (4 + d.header) % Mod
                /\ d.size >= 8
                /\ 8 + d.nameLen + 4 <= d.size
                /\ d.header >= (4 + d.nameLen + 4) % Mod

Accepts(version, d) ==
    /\ d.layout = version
    /\ IF version = "v1" THEN AcceptsV1(d) ELSE AcceptsV2(d)

(* In v1 the body is all that follows the channel.                         *)
BodyBytes(d) == IF d.layout = "v1" THEN d.size - (12 + d.nameLen) ELSE d.bodyLen

Decode(d) == [robot |-> d.robot, channel |-> d.channel, body |-> d.body]

(* v1 has no type field: a body that looks like a control message is one.  *)
IsPduData(d) == IF d.layout = "v1"
                THEN d.body \notin ControlBodies \/ BodyBytes(d) < 4
                ELSE d.isData
-----------------------------------------------------------------------------
(* What a sender encodes, a receiver of the same version accepts and reads *)
(* back, the robot's name cut to the length the header has room for; only  *)
(* a v1 body that looks like a control message is then dropped.            *)
RoundTrip ==
    \A version \in Versions : \A p \in Packets :
        Fits(p) =>
            LET d == Encode(version, p)
            IN  /\ Accepts(version, d)
                /\ Decode(d) = [p EXCEPT !.robot = Cut[p.robot]]
                /\ BodyBytes(d) = BodyLen[p.body]
                /\ (version = "v2" \/ p.body \notin ControlBodies) => IsPduData(d)

(* Whatever the length fields claim, decode stays within the datagram; and *)
(* it accepts a v1 datagram exactly if the lengths are consistent in       *)
(* unbounded arithmetic, but for a header_len within 4 of 2^32.            *)
WellFramedV1(d) == /\ 12 + d.nameLen <= d.size
                   /\ 8 + d.nameLen <= d.header
                   /\ 4 + d.header <= d.size

ReadsWithin ==
    /\ \A d \in DatagramsV2 : AcceptsV2(d) => Meta + d.bodyLen <= d.size
    /\ \A d \in DatagramsV1 :
          /\ AcceptsV1(d) => 12 + d.nameLen <= d.size
          /\ d.header < Mod - 4 => (AcceptsV1(d) <=> WellFramedV1(d))

FramingAgrees == RoundTrip /\ ReadsWithin
=============================================================================
