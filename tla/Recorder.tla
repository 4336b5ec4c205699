------------------------------- MODULE Recorder -------------------------------
(* One channel on a node: the goroutines that run Monitor (channel_record.go), *)
(* pause, resume and stop (channel.go), the closing and flushing of recordings *)
(* (channel_file.go), and the session loop of the manager, which cancels,      *)
(* drains, pauses and resumes every channel when a session is over.            *)
(* What becomes of a flushed recording is in Segments.                         *)
EXTENDS Integers, FiniteSets

CONSTANTS
    Goroutines,   \* goroutines Resume may have alive at once (a bound)
    Sessions,     \* record: recording is cut into sessions; off: it is not
    Deadlines,    \* whether RUN_DEADLINE is set
    Commands,     \* what happens around it: pause resume stop shutdown
    MaxCommands,  \* how often
    MaxFaults     \* failing syncs and creations of a file

ASSUME RecorderAssumption ==
    /\ IsFiniteSet(Goroutines) /\ Goroutines # {} /\ "none" \notin Goroutines
    /\ Deadlines \subseteq BOOLEAN /\ Sessions \subseteq {"record", "off"}
    /\ MaxCommands \in Nat /\ MaxFaults \in Nat

VARIABLES
    paused, reason,      \* Config.IsPaused and pauseReason
    running, restart,    \* monitorRunning, monitorRestartRequested
    current, cancel,     \* whose run monitorRunID is; whose context CancelFunc cancels
    go,                  \* the goroutines: [pc, ctx]
    file,                \* the open recording: none, empty or full
    queued,              \* pendingFiles holds a recording
    cleaners,            \* Cleanup(CloseProcess) goroutines of a pause, before their close
    call,                \* pause and resume calls in progress
    stop,                \* Stop: [pc, on]
    closed, listed,      \* ch.done is closed; the channel is in the manager's map
    session,             \* the session loop: [pc, stopped, has]
    deadline, shut, commands, faults

monitor == <<running, restart, current, cancel, go>>
pauseFlags == <<paused, reason>>
recording == <<file, queued, cleaners>>
around == <<deadline, shut, commands>>
vars == <<pauseFlags, monitor, recording, call, stop, closed, listed, session, around, faults>>

Callers == {"user", "session"}
InMonitor == {"begin", "fetch", "watch", "close", "wait", "exit", "finish"}
NoGo == [pc |-> "free", ctx |-> "none", paused |-> FALSE]

Init ==
    /\ paused = FALSE /\ reason = "" /\ running = FALSE /\ restart = FALSE
    /\ current = "none" /\ cancel = "none" /\ go = [g \in Goroutines |-> NoGo]
    /\ file = "none" /\ queued = FALSE /\ cleaners = 0
    \* The channel has just been made and stored, and its first Resume is on its way.
    /\ call = [c \in Callers |-> IF c = "user" THEN "go" ELSE "idle"]
    /\ stop = [pc |-> "no", on |-> "none"] /\ closed = FALSE /\ listed = TRUE
    /\ session \in [pc : Sessions, stopped : {FALSE}, has : {FALSE}]
    /\ deadline \in Deadlines /\ shut = "no" /\ commands = 0 /\ faults = 0

Fails == faults < MaxFaults /\ faults' = faults + 1
Works == UNCHANGED faults
Command(k) == k \in Commands /\ commands < MaxCommands /\ commands' = commands + 1
-----------------------------------------------------------------------------
(* The open file.  fileMu makes each of these one step.                        *)

\* cleanupLocked: an empty file is removed, any other queued.
CloseFile ==
    \/ /\ Works /\ file' = "none" /\ queued' = (queued \/ file = "full")
    \/ /\ file # "none" /\ Fails /\ UNCHANGED <<file, queued>>

\* cleanupLocked and flushPending, which takes all that is queued: the two halves
\* of Cleanup(CloseProcess) and of a change of files.  Between them another flush
\* may take the file, to the same end.
CloseAndFlush ==
    \/ Works /\ file' = "none" /\ queued' = FALSE
    \/ file # "none" /\ Fails /\ UNCHANGED <<file, queued>>
-----------------------------------------------------------------------------
(* The goroutine of a Resume, and Monitor in it.                               *)

At(g, pc) == go[g].pc = pc
To(g, pc) == go' = [go EXCEPT ![g].pc = pc]
Dead(g) == go[g].ctx = "dead"
Beside == UNCHANGED <<call, stop, closed, listed, session, around>>

\* The done check of the goroutine.
Ask(g) ==
    /\ At(g, "spawned") /\ To(g, IF closed THEN "free" ELSE "ask")
    /\ Beside /\ UNCHANGED <<pauseFlags, running, restart, current, cancel, recording, faults>>

StartMonitorLocked(g) ==
    /\ paused' = FALSE /\ reason' = "" /\ running' = TRUE /\ restart' = FALSE /\ current' = g
    /\ go' = [go EXCEPT ![g] = [NoGo EXCEPT !.pc = "begin"]]

\* Mutant of RequestMonitorStart: it does not look whether one is running.
RequestWithoutLook(g) ==
    /\ At(g, "ask") /\ StartMonitorLocked(g)
    /\ Beside /\ UNCHANGED <<cancel, recording, faults>>

RequestMonitorStart(g) ==
    /\ At(g, "ask")
    /\ IF running THEN
           /\ restart' = (restart \/ paused)
           /\ To(g, "free") /\ UNCHANGED <<pauseFlags, running, current>>
       ELSE StartMonitorLocked(g)
    /\ Beside /\ UNCHANGED <<cancel, recording, faults>>

\* Monitor asks the site for the last broadcast before it has a context.
WithCancel(g) ==
    /\ At(g, "begin") /\ cancel' = g
    /\ go' = [go EXCEPT ![g].pc = "fetch", ![g].ctx = "live"]
    /\ Beside /\ UNCHANGED <<pauseFlags, running, restart, current, recording, faults>>

\* The room is offline, private, blocked ..., or the call was cancelled.
FetchFails(g) ==
    /\ At(g, "fetch") /\ To(g, "wait")
    /\ Beside /\ UNCHANGED <<pauseFlags, running, restart, current, cancel, recording, faults>>

\* The room is live: a file is made, in place of one that could not be closed.
NextFile(g) ==
    /\ At(g, "fetch")
    /\ \/ /\ Works /\ To(g, "watch")
          /\ file' = "empty" /\ queued' = (queued \/ file = "full")
       \/ /\ Fails /\ To(g, "wait")
          /\ \/ UNCHANGED <<file, queued>>
             \/ file' = "none" /\ queued' = (queued \/ file = "full")
    /\ Beside /\ UNCHANGED <<pauseFlags, running, restart, current, cancel, cleaners>>

\* Mutant of WriteSegment: a segment of a paused channel is written too.
WriteThoughPaused(g) ==
    /\ At(g, "watch") /\ file # "none" /\ file' = "full" /\ Works
    /\ Beside /\ UNCHANGED <<pauseFlags, monitor, queued, cleaners>>

\* handleSegmentForMonitor writes; at the maximal length it changes files.
WriteSegment(g) ==
    /\ At(g, "watch") /\ ~paused /\ current = g /\ file # "none"
    /\ \/ /\ Works /\ file' = "full" /\ UNCHANGED <<queued, go>>
       \/ /\ Works /\ file' = "empty" /\ queued' = FALSE /\ UNCHANGED go
       \/ /\ Fails /\ To(g, "close")
          /\ \/ file' \in {file, "full"} /\ UNCHANGED queued
             \/ file' = "none" /\ queued' = TRUE
    /\ Beside /\ UNCHANGED <<pauseFlags, running, restart, current, cancel, cleaners>>

\* ErrPaused cannot be retried; a missing file can.
RefuseSegment(g) ==
    /\ At(g, "watch") /\ (paused \/ current # g \/ file = "none")
    /\ go' = [go EXCEPT ![g].pc = "close", ![g].paused = paused \/ current # g]
    /\ Beside /\ UNCHANGED <<pauseFlags, running, restart, current, cancel, recording, faults>>

\* A stall, a refused playlist, a show gone private, a cancelled context.
WatchEnds(g) ==
    /\ At(g, "watch") /\ To(g, "close")
    /\ Beside /\ UNCHANGED <<pauseFlags, running, restart, current, cancel, recording, faults>>

\* The deferred Cleanup(CloseProcess) of RecordStream, ...
DeferredCleanup(g) ==
    /\ At(g, "close") /\ CloseAndFlush
    /\ To(g, IF go[g].paused THEN "exit" ELSE "wait")
    /\ Beside /\ UNCHANGED <<pauseFlags, running, restart, current, cancel, cleaners>>

\* ... then the delay of the retry, which a cancelled context cuts short.
WaitRetry(g) ==
    /\ At(g, "wait") /\ To(g, IF Dead(g) THEN "exit" ELSE "fetch")
    /\ Beside /\ UNCHANGED <<pauseFlags, running, restart, current, cancel, recording, faults>>

\* Monitor's own Cleanup only queues when it was cancelled.
ExitCleanup(g) ==
    /\ At(g, "exit") /\ To(g, "finish")
    /\ IF Dead(g) THEN CloseFile ELSE CloseAndFlush
    /\ Beside /\ UNCHANGED <<pauseFlags, running, restart, current, cancel, cleaners>>

\* The context and the run id of a monitor that is over mean nothing any more.
FinishMonitor(g) ==
    /\ At(g, "finish") /\ cancel' = IF cancel = g THEN "none" ELSE cancel
    /\ IF restart THEN StartMonitorLocked(g)
       ELSE /\ running' = FALSE /\ restart' = FALSE /\ current' = "none"
            /\ go' = [go EXCEPT ![g] = NoGo] /\ UNCHANGED pauseFlags
    /\ stop' = IF stop.on = g THEN [stop EXCEPT !.on = "none"] ELSE stop
    /\ UNCHANGED <<recording, call, closed, listed, session, around, faults>>

Monitor(g) ==
    \/ Ask(g) \/ RequestMonitorStart(g) \/ WithCancel(g)
    \/ FetchFails(g) \/ NextFile(g)
    \/ WriteSegment(g) \/ RefuseSegment(g) \/ WatchEnds(g) \/ DeferredCleanup(g)
    \/ WaitRetry(g) \/ ExitCleanup(g) \/ FinishMonitor(g)
-----------------------------------------------------------------------------
(* Pause and resume, called by the user and by the session loop.               *)

Calls(c, from, to) == call[c] = from /\ call' = [call EXCEPT ![c] = to]
Sticky(r) == IF reason = "manual" THEN reason ELSE r
CancelFunc == IF cancel # "none" /\ go[cancel].ctx = "live"
              THEN go' = [go EXCEPT ![cancel].ctx = "dead"] ELSE UNCHANGED go

\* PauseWithReason: the reason and the restart, the flag, then the context and a Cleanup.
SetPauseReason(c) ==
    /\ Calls(c, "pause", "flag")
    /\ reason' = IF c = "user" THEN "manual" ELSE Sticky("boundary")
    /\ restart' = FALSE
    /\ UNCHANGED <<paused, running, current, cancel, go, recording, stop, closed, listed, session,
                   around, faults>>

SetPaused(c) ==
    /\ Calls(c, "flag", "cancel") /\ paused' = TRUE
    /\ UNCHANGED <<reason, monitor, recording, stop, closed, listed, session, around, faults>>

\* MaxCleaners bounds the cleanups a slow disk may leave behind.
MaxCleaners == 1
CancelAndClean(c) ==
    /\ Calls(c, "cancel", "idle") /\ CancelFunc
    /\ cleaners < MaxCleaners /\ cleaners' = cleaners + 1
    /\ UNCHANGED <<pauseFlags, running, restart, current, cancel, file, queued, stop,
                   closed, listed, session, around, faults>>

\* Mutant of Cleaned: it is counted off twice.
CleanedTwice ==
    /\ cleaners > 0 /\ cleaners' = cleaners - 2 /\ CloseAndFlush
    /\ UNCHANGED <<pauseFlags, monitor, call, stop, closed, listed, session, around>>

\* The Cleanup(CloseProcess) of a pause.
Cleaned ==
    /\ cleaners > 0 /\ cleaners' = cleaners - 1 /\ CloseAndFlush
    /\ UNCHANGED <<pauseFlags, monitor, call, stop, closed, listed, session, around>>

\* Resume: the flag and the reason, then the goroutine.
ClearPaused(c) ==
    /\ Calls(c, "unpause", "go") /\ paused' = FALSE /\ reason' = ""
    /\ UNCHANGED <<monitor, recording, stop, closed, listed, session, around, faults>>

Spawn(c) ==
    /\ Calls(c, "go", "idle")
    /\ \E g \in Goroutines : At(g, "free")
    /\ To(CHOOSE g \in Goroutines : At(g, "free"), "spawned")
    /\ UNCHANGED <<pauseFlags, running, restart, current, cancel, recording, stop, closed, listed,
                   session, around, faults>>

Caller(c) ==
    \/ SetPauseReason(c) \/ SetPaused(c) \/ CancelAndClean(c)
    \/ ClearPaused(c) \/ Spawn(c)

\* PauseChannel and ResumeChannel of a listed channel.
UserPauses ==
    /\ Command("pause") /\ listed /\ Calls("user", "idle", "pause")
    /\ UNCHANGED <<pauseFlags, monitor, recording, stop, closed, listed, session, deadline, shut, faults>>

UserResumes ==
    /\ Command("resume") /\ listed /\ ~closed /\ Calls("user", "idle", "unpause")
    /\ UNCHANGED <<pauseFlags, monitor, recording, stop, closed, listed, session, deadline, shut, faults>>
-----------------------------------------------------------------------------
(* Stop: the channel leaves the map first.                                     *)

StopTo(pc) == stop' = [stop EXCEPT !.pc = pc]

\* StopChannel always; RemoveChannelForReassignment only a channel that is
\* neither paused by the user nor recording.
StopChannel ==
    /\ Command("stop") /\ listed /\ listed' = FALSE /\ StopTo("flag")
    /\ UNCHANGED <<pauseFlags, monitor, recording, call, closed, session, deadline, shut, faults>>

StopFlag ==
    /\ stop.pc = "flag" /\ StopTo("cancel")
    /\ restart' = FALSE /\ paused' = TRUE /\ reason' = Sticky("handoff")
    /\ UNCHANGED <<running, current, cancel, go, recording, call, closed, listed, session, around, faults>>

StopCancel ==
    /\ stop.pc = "cancel" /\ StopTo("look") /\ CancelFunc
    /\ UNCHANGED <<pauseFlags, running, restart, current, cancel, recording, call, closed, listed,
                   session, around, faults>>

\* waitForMonitorStop waits for the run it finds.
StopLook ==
    /\ stop.pc = "look"
    /\ stop' = [pc |-> "await", on |-> IF running THEN current ELSE "none"]
    /\ UNCHANGED <<pauseFlags, monitor, recording, call, closed, listed, session, around, faults>>

\* ProcessPending, then Close.
StopProcess ==
    /\ stop.pc = "await" /\ stop.on = "none" /\ StopTo("done")
    /\ queued' = FALSE /\ closed' = TRUE
    /\ UNCHANGED <<pauseFlags, monitor, file, cleaners, call, listed, session, around, faults>>

Stop == StopFlag \/ StopCancel \/ StopLook \/ StopProcess
-----------------------------------------------------------------------------
(* The session loop, and what ends it.                                         *)

SessionAt(pc) == session.pc = pc
SessionTo(pc) == session' = [session EXCEPT !.pc = pc]
CancelListed == IF listed THEN CancelFunc ELSE UNCHANGED go

\* The duration is over, or TriggerSessionStop or checkEarlyFinalDrain ended it early.
SessionOver ==
    /\ SessionAt("record")
    /\ session' = [session EXCEPT !.pc = "cancel", !.has = listed]
    /\ UNCHANGED <<pauseFlags, monitor, recording, call, stop, closed, listed, around, faults>>

CancelAllChannels ==
    /\ SessionAt("cancel") /\ SessionTo("wait") /\ CancelListed
    /\ UNCHANGED <<pauseFlags, running, restart, current, cancel, recording, call, stop, closed,
                   listed, around, faults>>

\* monitorWg counts the goroutines of Resume too.
MonitorsGone == \A g \in Goroutines : At(g, "free")

WaitForAllChannels ==
    /\ SessionAt("wait") /\ (listed => MonitorsGone) /\ SessionTo("process")
    /\ UNCHANGED <<pauseFlags, monitor, recording, call, stop, closed, listed, around, faults>>

\* The worker drains the channel and pauses it, listed or not.
ProcessAndPause ==
    /\ SessionAt("process")
    /\ IF session.has
       THEN queued' = FALSE /\ Calls("session", "idle", "pause") /\ SessionTo("pausing")
       ELSE SessionTo("decide") /\ UNCHANGED <<queued, call>>
    /\ UNCHANGED <<pauseFlags, monitor, file, cleaners, stop, closed, listed, around, faults>>

Pausing ==
    /\ SessionAt("pausing") /\ call["session"] = "idle" /\ SessionTo("decide")
    /\ UNCHANGED <<pauseFlags, monitor, recording, call, stop, closed, listed, around, faults>>

\* With a deadline, the next session begins as it is, or does not fit any more.
Decide ==
    /\ SessionAt("decide")
    /\ session' \in
         IF deadline
         THEN {[session EXCEPT !.pc = "record", !.stopped = FALSE],
               [session EXCEPT !.pc = "off", !.stopped = TRUE]}
         ELSE {[session EXCEPT !.pc = IF session.stopped THEN "off" ELSE "resume"]}
    /\ UNCHANGED <<pauseFlags, monitor, recording, call, stop, closed, listed, around, faults>>

\* Mutant of ResumeAllChannels: only channels that nobody paused are resumed.
ResumeUnpaused ==
    /\ SessionAt("resume")
    /\ IF listed /\ reason = "" /\ ~closed
       THEN Calls("session", "idle", "unpause") /\ SessionTo("resuming")
       ELSE SessionTo("record") /\ UNCHANGED call
    /\ UNCHANGED <<pauseFlags, monitor, recording, stop, closed, listed, around, faults>>

ResumeAllChannels ==
    /\ SessionAt("resume")
    /\ IF listed /\ reason # "manual" /\ ~closed
       THEN Calls("session", "idle", "unpause") /\ SessionTo("resuming")
       ELSE SessionTo("record") /\ UNCHANGED call
    /\ UNCHANGED <<pauseFlags, monitor, recording, stop, closed, listed, around, faults>>

Resuming ==
    /\ SessionAt("resuming") /\ call["session"] = "idle" /\ SessionTo("record")
    /\ UNCHANGED <<pauseFlags, monitor, recording, call, stop, closed, listed, around, faults>>

SessionLoop ==
    \/ SessionOver \/ CancelAllChannels \/ WaitForAllChannels \/ ProcessAndPause \/ Pausing
    \/ Decide \/ ResumeAllChannels \/ Resuming

\* A signal: StopSession, StopAllChannels, then the waits before the exit.
ShutdownBegins ==
    /\ Command("shutdown") /\ shut = "no" /\ shut' = "flag"
    /\ UNCHANGED <<pauseFlags, monitor, recording, call, stop, closed, listed, session, deadline, faults>>

StopSession ==
    /\ shut = "flag" /\ shut' = "cancel" /\ session' = [session EXCEPT !.stopped = TRUE]
    /\ UNCHANGED <<pauseFlags, monitor, recording, call, stop, closed, listed, deadline, commands, faults>>

StopAllChannels ==
    /\ shut = "cancel" /\ shut' = "wait" /\ CancelListed
    /\ UNCHANGED <<pauseFlags, running, restart, current, cancel, recording, call, stop, closed,
                   listed, session, deadline, commands, faults>>

WaitForUploads ==
    /\ shut = "wait" /\ shut' = "done"
    /\ IF listed THEN MonitorsGone /\ queued' = FALSE ELSE UNCHANGED queued
    /\ UNCHANGED <<pauseFlags, monitor, file, cleaners, call, stop, closed, listed,
                   session, deadline, commands, faults>>

Shutdown == StopSession \/ StopAllChannels \/ WaitForUploads
-----------------------------------------------------------------------------
Next ==
    \/ Cleaned \/ Stop \/ SessionLoop \/ Shutdown
    \/ \E g \in Goroutines : Monitor(g)
    \/ \E c \in Callers : Caller(c)
    \/ UserPauses \/ UserResumes \/ StopChannel
    \/ ShutdownBegins

Spec == Init /\ [][Next]_vars

\* Goroutines run on and timers fire; no broadcast lasts for ever.
Fairness ==
    /\ WF_vars(Cleaned) /\ WF_vars(Stop)
    /\ WF_vars(SessionLoop) /\ WF_vars(Shutdown)
    /\ \A c \in Callers : WF_vars(Caller(c))
    /\ \A g \in Goroutines : WF_vars(Monitor(g) /\ ~At(g, "watch")')

FairSpec == Spec /\ Fairness
-----------------------------------------------------------------------------
Monitoring == {g \in Goroutines : go[g].pc \in InMonitor}

\* Types of channel.go, channel_record.go and manager.go.
TypeOK ==
    /\ paused \in BOOLEAN /\ reason \in {"", "manual", "boundary", "handoff"}
    /\ running \in BOOLEAN /\ restart \in BOOLEAN /\ closed \in BOOLEAN /\ listed \in BOOLEAN
    /\ current \in Goroutines \cup {"none"} /\ cancel \in Goroutines \cup {"none"}
    /\ go \in [Goroutines -> [pc : InMonitor \cup {"free", "spawned", "ask"},
                              ctx : {"none", "live", "dead"}, paused : BOOLEAN]]
    /\ file \in {"none", "empty", "full"} /\ queued \in BOOLEAN
    /\ cleaners \in 0..MaxCleaners

\* At most one goroutine is in Monitor, and monitorRunning says whether one is
\* (requestMonitorStart, finishMonitor), whatever is paused, resumed, stopped
\* and restarted in whatever order.
OneMonitor ==
    /\ \A g, h \in Monitoring : g = h
    /\ running <=> Monitoring # {}

\* A channel that stays paused comes to rest: sooner or later its footage is
\* closed for good and no more is recorded, even when the cancel came before the
\* monitor had a context to cancel.
PausedGoesQuiet == <>[]paused => <>[](file # "full")

\* Without a run deadline, a pause at the end of a session does not outlive it
\* (ResumeAllChannels), unless the node is stopping or the channel left the map.
BoundaryPauseEnds ==
    (reason = "boundary" /\ ~deadline)
        ~> (reason # "boundary" \/ session.stopped \/ ~listed)

\* What sessionLoop says of a run with a deadline: it resumes for the remainder
\* of the run instead of leaving channels unrecorded.
NextSessionRecords ==
    (reason = "boundary" /\ deadline)
        ~> (reason # "boundary" \/ session.stopped \/ ~listed)

\* What requestMonitorStart says: a start asked for while the previous monitor
\* is shutting down is recorded and made good.  So a channel that is neither
\* paused nor stopped is monitored.
ResumedIsMonitored ==
    [](~paused /\ listed /\ shut = "no" => <>(running \/ paused \/ ~listed \/ shut # "no"))
===============================================================================
