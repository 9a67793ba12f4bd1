---------------------------- MODULE MCReceivePath ----------------------------
(* ReceivePath with a peer that sends five packets of one to three bytes to  *)
(* a buffer of four: a completion that fills the buffer may leave a data     *)
(* size below zero, and bodies that are copied from past it.               *)
EXTENDS ReceivePath

MCStart == <<1, 4, 6, 7, 9, 10>>
=============================================================================
