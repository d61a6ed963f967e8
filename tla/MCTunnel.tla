------------------------------ MODULE MCTunnel -------------------------------
(* Instances of Tunnel for TLC *)
EXTENDS Tunnel, TLC

CONSTANTS c1, c2, a1, a2

\* Every client has an address of its own.
OwnAddr == (c1 :> a1) @@ (c2 :> a2)

\* One client.
OneAddr == (c1 :> a1)
==============================================================================
