--------------------------- MODULE MCSessionTable ---------------------------
(* SessionTable for TLC: two workers, three sockets.  A handled accept makes  *)
(* at most one client, so as many clients as sockets are enough.             *)
EXTENDS SessionTable

ClientBound == Cardinality(Client) >= Cardinality(Socket)

ASSUME ClientBound
=============================================================================
