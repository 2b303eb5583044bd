------------------------------ MODULE MCUdpComm ------------------------------
(* Two clients, configs of every direction, and a modulus of 32.           *)
EXTENDS UdpComm

CONSTANTS long, cut, plain, control

MCCut == [r \in Robots |-> cut]
MCNameLen == [r \in Robots |-> IF r = cut THEN 4 ELSE 5]
MCBodyLen == [b \in Bodies |-> IF b = plain THEN 1 ELSE 4]

Config(d, r, v) == [direction |-> d, remote |-> r, version |-> v]

MCConfigs == {Config("inout", FALSE, "v1"), Config("inout", FALSE, "unset"),
              Config("inout", TRUE, "v2"), Config("out", TRUE, "unset"),
              Config("in", FALSE, "unset")}

(* A v1 header that claims more than there is, and one that wraps.         *)
MCForeign == {[layout |-> "v1", size |-> 17, header |-> h, nameLen |-> 4,
               robot |-> cut, channel |-> 1, body |-> plain] : h \in {20, 31}}

MCToSend == [robot : {long}, channel : {1}, body : Bodies]
=============================================================================
