----------------------------- MODULE MCChatSlot -----------------------------
(* ChatSlot for TLC: a slot is used twice, and one message waits behind       *)
(* another.                                                                *)
EXTENDS ChatSlot

ReuseBound == MaxSocket >= 2 /\ MaxMsg >= 2

ASSUME ReuseBound
=============================================================================
