------------------------- MODULE MCReceivePipeline -------------------------
(* Three packets of every kind, empty or with a body as long as a header,  *)
(* and reads from one unit to a unit more than the longest packet: headers *)
(* and bodies split everywhere, and reads that hold several packets.       *)
EXTENDS ReceivePipeline

MCKinds == {"good", "unhandled", "ignored", "unknown"}
=============================================================================
