----------------------------- MODULE MCSendPath -----------------------------
(* SendPath with two workers, three packets of different sizes and a buffer  *)
(* that holds the largest but not two of them.                             *)
EXTENDS SendPath, TLC

CONSTANTS w1, w2, a, b, c

MCWorker == {w1, w2}
MCPacket == {a, b, c}
MCSize == a :> 1 @@ b :> 2 @@ c :> 3
=============================================================================
