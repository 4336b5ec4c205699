----------------------------- MODULE MCSegments -----------------------------
(* Instances of Segments.                                                     *)
EXTENDS Segments
AllFaults == {"probe", "encode", "merge", "sessionmerge", "upload", "rename"}

\* With a minimum of 3: alone short or long, joined short or long.
ShortOrLong == <<{1, 3}, {1, 2, 3}>>
Short == <<{1, 2}, {1, 2}>>
ShortOne == <<{1, 2}>>
=============================================================================
