---------------------------- MODULE MCDispatcher ----------------------------
(* Dispatcher with two I/O workers and a pool that starts with one object  *)
(* and may grow to four.                                                  *)
EXTENDS Dispatcher

CONSTANTS w1, w2, p1, p2, p3, p4

MCWorker == {w1, w2}
MCObj == {p1, p2, p3, p4}
MCInitPool == {p1}
=============================================================================
