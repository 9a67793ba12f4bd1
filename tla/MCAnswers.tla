------------------------------ MODULE MCAnswers ------------------------------
(* Answers for TLC: two workers; two sockets, of which the second is accepted  *)
(* by the first one's client or by another; two packets, so that one answer  *)
(* may wait behind the other.                                              *)
EXTENDS Answers
=============================================================================
