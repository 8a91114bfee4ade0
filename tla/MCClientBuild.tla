---------------------------- MODULE MCClientBuild ----------------------------
(* Instances of ClientBuild for TLC. *)
EXTENDS ClientBuild

\* Sources that every replacement matches.
Everywhere == [c \in Copies |-> Hands \ {"column"}]
=============================================================================
