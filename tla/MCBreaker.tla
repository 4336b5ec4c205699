----------------------------- MODULE MCBreaker -----------------------------
(* Instances of Breaker.                                                       *)
EXTENDS Breaker
CONSTANTS a, b

Fetch(what, of) == [fetches |-> what, room |-> of]
\* The stream of a public room, or of one in a private show, beside the profile of
\* a deleted channel.
Pairs ==
    {[c \in Callers |-> IF c = a THEN Fetch("stream", room) ELSE Fetch("profile", "deleted")]
        : room \in {"public", "private"}}
=============================================================================
