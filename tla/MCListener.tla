----------------------------- MODULE MCListener -----------------------------
(***************************************************************************)
(* Small instance of Listener for TLC: two connections of one address.      *)
(***************************************************************************)
EXTENDS Listener

CONSTANT i1

SameIp == [c \in Conns |-> i1]
=============================================================================
