---------------------------- MODULE MCSocketPools ----------------------------
(* SocketPools for TLC: four clients and contexts, and one connection more     *)
(* than there are clients.                                                 *)
EXTENDS SocketPools
=============================================================================
