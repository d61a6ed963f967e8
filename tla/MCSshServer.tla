----------------------------- MODULE MCSshServer -----------------------------
(* Instances of SshServer for TLC *)
EXTENDS SshServer
==============================================================================
