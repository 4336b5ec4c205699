---------------------------- MODULE MCHostUpload ----------------------------
(* Two files, one of a pipeline and one an orphan; a host with a loop and      *)
(* AnonMP4.                                                                    *)
EXTENDS HostUpload
CONSTANTS p, o, g, a

\* Every kind once, in pairs.
Pairs == {[h \in Hosts |-> IF h = a THEN k[1] ELSE k[2]] :
            k \in {<<"AnonMP4", "Vidara">>, <<"VOE.sx", "GoFile">>, <<"Streamtape", "Mixdrop">>}}
=============================================================================
