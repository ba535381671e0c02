---------------------------- MODULE MCTokenGate ----------------------------
(* The client process with a watermark of two packets and batches of two *)
EXTENDS TokenGate

MCDurations == {1, 3}
=============================================================================
