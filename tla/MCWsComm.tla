------------------------------- MODULE MCWsComm -------------------------------
(* Two connections, and five events: two starts, two connections and a     *)
(* message, say, or a start, a connection, two messages and a failure.     *)
EXTENDS WsComm

MCSessions == 1 .. 2
===============================================================================
