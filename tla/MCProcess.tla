----------------------------- MODULE MCProcess ------------------------------
(* Instances of Process for TLC.                                           *)
EXTENDS Process, TLC

=============================================================================
