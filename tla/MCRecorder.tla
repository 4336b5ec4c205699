------------------------------ MODULE MCRecorder ------------------------------
(* Instances of Recorder.                                                      *)
EXTENDS Recorder

TwoGoroutines == {"g1", "g2"}
AllCommands == {"pause", "resume", "stop", "shutdown"}
WithSessions == {"record"}
NoSessions == {"off"}
NoDeadline == {FALSE}
WithDeadline == {TRUE}
NoCommands == {}
PauseResume == {"pause", "resume"}
===============================================================================
