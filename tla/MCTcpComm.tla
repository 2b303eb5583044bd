------------------------------ MODULE MCTcpComm ------------------------------
(* Small instances of TcpComm: two connections after each other, so that a *)
(* descriptor number is used again.                                        *)
EXTENDS TcpComm

MCFds == 0 .. 2
MCConns == 1 .. 2
=============================================================================
