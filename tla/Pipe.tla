-------------------------------- MODULE Pipe --------------------------------
(***************************************************************************)
(* What one direction of a raw TCP tunnel promises its ends: a stream that *)
(* arrives in the order in which it was sent, without gaps or repetitions, *)
(* until the connection closes; what had not arrived by then is lost.      *)
(***************************************************************************)
EXTENDS Integers, Sequences

VARIABLES
    sent,      \* everything put in so far
    received,  \* everything taken out so far
    open       \* something may still arrive

\* t is s with something added.
Extended(s, t) == Len(s) <= Len(t) /\ SubSeq(t, 1, Len(s)) = s

Init == sent = <<>> /\ received = <<>> /\ open = TRUE

\* One end writes; it may not know yet that the connection is closed.
Put == Extended(sent, sent') /\ UNCHANGED <<received, open>>

\* Some more of it arrives, perhaps the last.
Deliver ==
    /\ open
    /\ \E n \in Len(received) .. Len(sent) : received' = SubSeq(sent, 1, n)
    /\ open' \in BOOLEAN
    /\ UNCHANGED sent

Spec == Init /\ [][Put \/ Deliver]_<<sent, received, open>>
=============================================================================
