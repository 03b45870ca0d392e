---------------------------- MODULE MCRpcChannel ----------------------------
(***************************************************************************)
(* Small instances of RpcChannel for TLC.                                  *)
(***************************************************************************)
EXTENDS RpcChannel, TLC

CONSTANTS c1, c2, k1, k2

OneConsumer == [c \in Call |-> k1]
TwoConsumers == [c \in Call |-> IF c = c1 THEN k1 ELSE k2]

(* The calls of one consumer are interchangeable.                          *)
CallSymmetry == Permutations(Call)
=============================================================================
