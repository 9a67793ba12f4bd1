----------------------------- MODULE SendChannel -----------------------------
(***************************************************************************)
(* What the send path promises: the packets a service answers with reach    *)
(* the wire whole, once and in the order they were queued, one piece after  *)
(* the other, as long as the connection is up.                             *)
(***************************************************************************)
EXTENDS Naturals, Sequences

CONSTANTS Packet, Size,
          MaxSize   \* no packet is longer

VARIABLES up,      \* the connection is up
          chan,    \* the packets that have not left whole, in order
          off,     \* how many bytes of the first one have left
          line     \* the bytes that left last

chanVars == <<up, chan, off, line>>

ChanInit == up = TRUE /\ chan = <<>> /\ off = 0 /\ line = <<>>

Enqueue(p) ==
  /\ up
  /\ chan' = Append(chan, p)
  /\ UNCHANGED <<up, off, line>>

(* The next n bytes of the first packet leave. *)
Leave(n) ==
  /\ up /\ chan # <<>>
  /\ off + n <= Size[Head(chan)]
  /\ line' = [k \in 1..n |-> <<Head(chan), off + k>>]
  /\ IF off + n = Size[Head(chan)]
     THEN chan' = Tail(chan) /\ off' = 0
     ELSE chan' = chan /\ off' = off + n
  /\ UNCHANGED up

Break ==
  /\ up
  /\ up' = FALSE /\ chan' = <<>> /\ off' = 0
  /\ UNCHANGED line

ChanNext == \/ \E p \in Packet : Enqueue(p)
            \/ \E n \in 1..MaxSize : Leave(n)
            \/ Break

ChanSpec == ChanInit /\ [][ChanNext]_chanVars
=============================================================================
