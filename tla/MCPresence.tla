----------------------------- MODULE MCPresence -----------------------------
(* Instances of Presence for TLC. *)
EXTENDS Presence

\* Every post has a millisecond of its own.
DistinctMillis == {1}
=============================================================================
