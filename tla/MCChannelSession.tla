--------------------------- MODULE MCChannelSession --------------------------
(* The instances of ChannelSession are given by the configurations. *)
EXTENDS ChannelSession
==============================================================================
