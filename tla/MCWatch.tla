------------------------------- MODULE MCWatch -------------------------------
(* Instances of Watch.                                                         *)
EXTENDS Watch

AllModes == {"video", "paired", "timed"}
\* Video is the cheap mode and the one whose list is cut short by an error:
\* with one more segment the playlist rolls past what was left.
SomeSegments == [m \in AllModes |-> IF m = "video" THEN 4 ELSE 3]
Either == {TRUE, FALSE}
\* The width asked for, a smaller one, and only one that is too wide.
SomeOffers == {{1, 2, 3}, {1, 3}, {3}}
==============================================================================
