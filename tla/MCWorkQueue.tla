---------------------------- MODULE MCWorkQueue -----------------------------
(* Instances of WorkQueue for TLC.                                         *)
EXTENDS WorkQueue, TLC

CONSTANTS i1, i2, w1, w2, w3

=============================================================================
