---------------------------- MODULE MCChatPackets ----------------------------
(* ChatPackets for TLC: packets of one, one and two bytes. *)
EXTENDS ChatPackets

MCStart == <<1, 2, 3, 5>>
=============================================================================
