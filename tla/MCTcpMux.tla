------------------------------- MODULE MCTcpMux -------------------------------
(* Small instances of TcpMux.  Clients are alike: they are symmetric where *)
(* no liveness is checked.                                                 *)
EXTENDS TcpMux, TLC

Clients == Permutations(Conns)
===============================================================================
