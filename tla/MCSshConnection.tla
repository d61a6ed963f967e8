--------------------------- MODULE MCSshConnection ---------------------------
(* Instances of SshConnection for TLC; the configurations give the constants *)
EXTENDS SshConnection
==============================================================================
