--------------------------- MODULE MCDispatchOrder ---------------------------
(* DispatchOrder with two I/O workers, four Packet objects and up to five   *)
(* arrivals.                                                               *)
EXTENDS DispatchOrder

CONSTANTS w1, w2, p1, p2, p3, p4

MCWorker == {w1, w2}
MCObj == {p1, p2, p3, p4}
MCInitPool == {p1, p2}
=============================================================================
