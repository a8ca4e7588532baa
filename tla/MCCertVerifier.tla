--------------------------- MODULE MCCertVerifier ---------------------------
(* Small instances of CertVerifier for TLC.                                *)
EXTENDS CertVerifier

CONSTANTS v1, b1
=============================================================================
