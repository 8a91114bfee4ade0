------------------------------- MODULE MCGate -------------------------------
(* Instances of Gate for TLC: one player, because nothing but the removal  *)
(* of expired leases touches more than one.                                *)
EXTENDS Gate
=============================================================================
