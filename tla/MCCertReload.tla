---------------------------- MODULE MCCertReload ----------------------------
(* Instances of CertReload for TLC.                                        *)
EXTENDS CertReload, TLC

=============================================================================
