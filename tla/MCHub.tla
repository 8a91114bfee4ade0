------------------------------- MODULE MCHub -------------------------------
(* An instance of Hub for TLC. *)
EXTENDS Hub, TLC

HubSymmetry == UNION {Permutations(S) : S \in {Requests, Tokens, Identities, Names}}
=============================================================================
