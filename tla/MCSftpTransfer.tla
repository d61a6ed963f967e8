--------------------------- MODULE MCSftpTransfer ----------------------------
(* Instances of SftpTransfer for TLC *)
EXTENDS SftpTransfer
==============================================================================
