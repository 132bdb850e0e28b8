-------------------------- MODULE MCSendPipeline --------------------------
(* The actor and one other thread send.  With chunks of two units a first  *)
(* message of one unit leaves room behind a write in flight, and one of    *)
(* three units ends in the middle of a second chunk.                       *)
EXTENDS SendPipeline

MCSizes == [k \in 1..MaxSend |-> IF k % 2 = 1 THEN 1 ELSE 3]
=============================================================================
