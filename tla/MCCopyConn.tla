----------------------------- MODULE MCCopyConn ------------------------------
(* Instances of CopyConn for TLC *)
EXTENDS CopyConn
==============================================================================
