------------------------------ MODULE MCEndpoint ------------------------------
(* Two keys, one of them with two subscribers, a short and a long payload, *)
(* one reader with buffers of both sizes.                                  *)
EXTENDS Endpoint

CONSTANTS k1, k2, s1, s2, short, long

MCSize == [v \in Values |-> IF v = short THEN 1 ELSE 2]
MCDepths == {0, 2}
MCKeyOf == [i \in Subscribers |-> k1]
===============================================================================
