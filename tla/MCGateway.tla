------------------------------ MODULE MCGateway ------------------------------
(* Instances of Gateway for TLC. *)
EXTENDS Gateway

\* Every packet of Paper's but the first.
AllButFirst == 2 .. MaxPackets
=============================================================================
