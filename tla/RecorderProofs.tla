---------------------------- MODULE RecorderProofs ----------------------------
(* Theorems about Recorder, for any number of goroutines, commands and faults. *)
(* The argument: monitorRunning is set and cleared by the one goroutine that   *)
(* enters or leaves Monitor, and whoever enters found it cleared.  Pauses and  *)
(* stops change contexts and flags, never where a goroutine is.                *)
EXTENDS Recorder, TLAPS

\* The monitor that runs is the current one, and once it has a context of its own
\* it is this context that CancelFunc cancels: no pause, stop or shutdown
\* (PauseWithReason, Stop, CancelAllChannels) cancels that of another run instead.
CancelReachesMonitor ==
    \A g \in Monitoring : current = g /\ (~At(g, "begin") => cancel = g)

IInv == TypeOK /\ (running <=> Monitoring # {}) /\ CancelReachesMonitor

\* A step that leaves every goroutine where it is, and monitorMu's fields.
Still ==
    /\ UNCHANGED <<running, current, cancel>>
    /\ \A g \in Goroutines : go'[g].pc = go[g].pc

-----------------------------------------------------------------------------
(* What EXCEPT does to one field of one goroutine.                              *)
Places == InMonitor \cup {"free", "spawned", "ask"}
GoType == [pc : Places, ctx : {"none", "live", "dead"}, paused : BOOLEAN]

LEMMA CtxUpdate ==
  ASSUME go \in [Goroutines -> GoType], NEW h \in Goroutines,
         go' = [go EXCEPT ![h].ctx = "dead"]
  PROVE  go' \in [Goroutines -> GoType] /\ \A g \in Goroutines : go'[g].pc = go[g].pc
<1>1. \A g \in Goroutines : go'[g] \in GoType /\ go'[g].pc = go[g].pc
  BY DEF GoType
<1> QED BY <1>1

LEMMA PlaceUpdate ==
  ASSUME go \in [Goroutines -> GoType], NEW h \in Goroutines, NEW p \in Places,
         go' = [go EXCEPT ![h].pc = p]
  PROVE  /\ go' \in [Goroutines -> GoType] /\ go'[h].pc = p
         /\ \A g \in Goroutines \ {h} : go'[g].pc = go[g].pc
<1>1. \A g \in Goroutines : go'[g] \in GoType /\ go'[g].pc = IF g = h THEN p ELSE go[g].pc
  BY DEF GoType
<1> QED BY <1>1

(* CancelFunc changes a context only.                                          *)
LEMMA CancelKeepsPlaces ==
  ASSUME TypeOK, CancelFunc
  PROVE  go' \in [Goroutines -> GoType] /\ \A g \in Goroutines : go'[g].pc = go[g].pc
<1>1. go \in [Goroutines -> GoType] /\ cancel \in Goroutines \cup {"none"}
  BY DEF TypeOK, GoType, Places
<1> QED BY <1>1, CtxUpdate DEF CancelFunc

(* Where nobody moves the invariant stays, if the types do.                    *)
LEMMA StillKeeps ==
  ASSUME IInv, TypeOK', Still
  PROVE  IInv'
  BY DEF IInv, Still, CancelReachesMonitor, Monitoring, At
(* So it does where a monitor goes on, past the making of its context.         *)
LEMMA GoingOnKeeps ==
  ASSUME IInv, TypeOK', NEW h \in Goroutines, go[h].pc \in InMonitor \ {"begin"},
         go'[h].pc \in InMonitor \ {"begin"},
         \A g \in Goroutines \ {h} : go'[g].pc = go[g].pc,
         UNCHANGED <<running, current, cancel>>
  PROVE  IInv'
<1>1. Monitoring' = Monitoring
  BY DEF Monitoring
<1> QED BY <1>1 DEF IInv, CancelReachesMonitor, Monitoring, At

(* Where a goroutine moves outside Monitor.                                    *)
LEMMA OutsideKeeps ==
  ASSUME IInv, TypeOK', NEW h \in Goroutines, go[h].pc \notin InMonitor,
         go'[h].pc \notin InMonitor,
         \A g \in Goroutines \ {h} : go'[g].pc = go[g].pc,
         UNCHANGED <<running, current, cancel>>
  PROVE  IInv'
<1>1. Monitoring' = Monitoring
  BY DEF Monitoring
<1> QED BY <1>1 DEF IInv, CancelReachesMonitor, Monitoring, At

(* Where the only monitor starts.                                              *)
LEMMA StartKeeps ==
  ASSUME IInv, TypeOK', NEW h \in Goroutines, Monitoring \subseteq {h},
         StartMonitorLocked(h)
  PROVE  IInv'
<1>1. go \in [Goroutines -> GoType]
  BY DEF IInv, TypeOK, GoType, Places
<1>2. go'[h].pc = "begin" /\ \A g \in Goroutines \ {h} : go'[g].pc = go[g].pc
  BY <1>1 DEF StartMonitorLocked, NoGo
<1>3. Monitoring' = {h}
  BY <1>2 DEF Monitoring, InMonitor
<1> QED BY <1>2, <1>3 DEF IInv, CancelReachesMonitor, At, StartMonitorLocked
-----------------------------------------------------------------------------
(* The steps of a goroutine.                                                   *)
USE DEF Places

\* What TypeOK says, with the type of a goroutine by its name.
LEMMA TypeOKIs ==
  TypeOK <=> /\ paused \in BOOLEAN /\ reason \in {"", "manual", "boundary", "handoff"}
             /\ running \in BOOLEAN /\ restart \in BOOLEAN
             /\ closed \in BOOLEAN /\ listed \in BOOLEAN
             /\ current \in Goroutines \cup {"none"} /\ cancel \in Goroutines \cup {"none"}
             /\ go \in [Goroutines -> GoType]
             /\ file \in {"none", "empty", "full"} /\ queued \in BOOLEAN
             /\ cleaners \in 0..1
  BY DEF TypeOK, GoType, MaxCleaners

LEMMA TypeOKWill ==
  TypeOK' <=> /\ paused' \in BOOLEAN /\ reason' \in {"", "manual", "boundary", "handoff"}
              /\ running' \in BOOLEAN /\ restart' \in BOOLEAN
              /\ closed' \in BOOLEAN /\ listed' \in BOOLEAN
              /\ current' \in Goroutines \cup {"none"} /\ cancel' \in Goroutines \cup {"none"}
              /\ go' \in [Goroutines -> GoType]
              /\ file' \in {"none", "empty", "full"} /\ queued' \in BOOLEAN
              /\ cleaners' \in 0..1
  BY DEF TypeOK, GoType, MaxCleaners

\* Closing a file is a matter of types.
LEMMA ClosingTyped ==
  ASSUME TypeOK, CloseFile \/ CloseAndFlush
  PROVE  file' \in {"none", "empty", "full"} /\ queued' \in BOOLEAN
  BY TypeOKIs DEF CloseFile, CloseAndFlush

\* What a pause adds a cleanup to, and what takes one away.
LEMMA CleanersTyped ==
  ASSUME cleaners \in 0..1,
         \/ cleaners < MaxCleaners /\ cleaners' = cleaners + 1
         \/ cleaners > 0 /\ cleaners' = cleaners - 1
  PROVE  cleaners' \in 0..1
  BY DEF MaxCleaners

LEMMA StartStep ==
  ASSUME IInv, NEW g \in Goroutines,
         Ask(g) \/ RequestMonitorStart(g) \/ WithCancel(g)
  PROVE  IInv'
<1> USE TypeOKIs DEF IInv
<1>1. CASE Ask(g)
  <2>1. \E p \in {"free", "ask"} : go' = [go EXCEPT ![g].pc = p]
    BY <1>1 DEF Ask, To
  <2>2. go' \in [Goroutines -> GoType] /\ go'[g].pc \in {"free", "ask"}
        /\ \A h \in Goroutines \ {g} : go'[h].pc = go[h].pc
    BY <2>1, PlaceUpdate
  <2>3. TypeOK'
    BY <1>1, <2>2, TypeOKWill DEF Ask, Beside, pauseFlags, recording
  <2> QED BY <1>1, <2>2, <2>3, OutsideKeeps DEF Ask, At, InMonitor
<1>2. CASE RequestMonitorStart(g) /\ running
  <2>1. go' = [go EXCEPT ![g].pc = "free"]
    BY <1>2 DEF RequestMonitorStart, To
  <2>2. go' \in [Goroutines -> GoType] /\ go'[g].pc = "free"
        /\ \A h \in Goroutines \ {g} : go'[h].pc = go[h].pc
    BY <2>1, PlaceUpdate
  <2>3. restart' \in BOOLEAN
    BY <1>2 DEF RequestMonitorStart
  <2>4. TypeOK'
    BY <1>2, <2>2, <2>3, TypeOKWill DEF RequestMonitorStart, Beside, pauseFlags, recording
  <2> QED BY <1>2, <2>2, <2>4, OutsideKeeps DEF RequestMonitorStart, At, InMonitor
<1>3. CASE RequestMonitorStart(g) /\ ~running
  <2>1. StartMonitorLocked(g) /\ Monitoring = {}
    BY <1>3 DEF RequestMonitorStart
  <2>2. go' \in [Goroutines -> GoType]
    BY <2>1 DEF StartMonitorLocked, NoGo, GoType, InMonitor
  <2>3. TypeOK'
    BY <1>3, <2>1, <2>2, TypeOKWill DEF RequestMonitorStart, StartMonitorLocked, Beside, recording
  <2> QED BY <2>1, <2>3, StartKeeps
<1>4. CASE WithCancel(g)
  <2>1. \A h \in Goroutines : /\ go'[h] \in GoType
                              /\ go'[h].pc = IF h = g THEN "fetch" ELSE go[h].pc
    BY <1>4 DEF WithCancel, GoType, InMonitor
  <2>2. go' \in [Goroutines -> GoType]
    BY <1>4, <2>1 DEF WithCancel
  <2>3. TypeOK'
    BY <1>4, <2>2, TypeOKWill DEF WithCancel, Beside, pauseFlags, recording
  <2>4. g \in Monitoring /\ Monitoring' = Monitoring
    BY <1>4, <2>1 DEF Monitoring, WithCancel, At, InMonitor
  <2> QED BY <1>4, <2>1, <2>3, <2>4 DEF WithCancel, CancelReachesMonitor, Monitoring, At
<1> QED BY <1>1, <1>2, <1>3, <1>4

\* A monitor that goes on from where it has a context.
LEMMA MoveStep ==
  ASSUME IInv, NEW g \in Goroutines, go[g].pc \in InMonitor \ {"begin"},
         NEW p \in InMonitor \ {"begin"}, To(g, p),
         UNCHANGED <<pauseFlags, running, restart, current, cancel, closed, listed, cleaners>>,
         file' \in {"none", "empty", "full"}, queued' \in BOOLEAN
  PROVE  IInv'
<1> USE TypeOKIs DEF IInv
<1>1. go' \in [Goroutines -> GoType] /\ go'[g].pc = p
      /\ \A h \in Goroutines \ {g} : go'[h].pc = go[h].pc
  BY PlaceUpdate DEF To
<1>2. TypeOK'
  BY <1>1, TypeOKWill DEF pauseFlags
<1> QED BY <1>1, <1>2, GoingOnKeeps

LEMMA RunStep ==
  ASSUME IInv, NEW g \in Goroutines,
         \/ FetchFails(g) \/ NextFile(g) \/ WriteSegment(g) \/ RefuseSegment(g) \/ WatchEnds(g)
         \/ DeferredCleanup(g) \/ WaitRetry(g) \/ ExitCleanup(g)
  PROVE  IInv'
<1> USE TypeOKIs DEF IInv
<1>1. UNCHANGED <<pauseFlags, running, restart, current, cancel, closed, listed, cleaners>>
  BY DEF FetchFails, NextFile, WriteSegment, RefuseSegment, WatchEnds, DeferredCleanup, WaitRetry,
         ExitCleanup, Beside, recording, monitor
<1>2. file' \in {"none", "empty", "full"} /\ queued' \in BOOLEAN
  BY ClosingTyped DEF FetchFails, NextFile, WriteSegment, RefuseSegment, WatchEnds, DeferredCleanup,
         WaitRetry, ExitCleanup, recording
<1>3. go[g].pc \in InMonitor \ {"begin"}
  BY DEF FetchFails, NextFile, WriteSegment, RefuseSegment, WatchEnds, DeferredCleanup, WaitRetry,
         ExitCleanup, At, InMonitor
<1>4. CASE RefuseSegment(g)
  <2>1. \A h \in Goroutines : /\ go'[h] \in GoType
                              /\ go'[h].pc = IF h = g THEN "close" ELSE go[h].pc
    BY <1>4 DEF RefuseSegment, GoType, InMonitor
  <2>2. go' \in [Goroutines -> GoType]
    BY <1>4, <2>1 DEF RefuseSegment
  <2>3. TypeOK'
    BY <1>1, <1>2, <2>2, TypeOKWill DEF pauseFlags
  <2> QED BY <1>1, <1>3, <2>1, <2>3, GoingOnKeeps DEF InMonitor
<1>5. CASE UNCHANGED go
  <2>1. TypeOK'
    BY <1>1, <1>2, <1>5, TypeOKWill DEF pauseFlags
  <2> QED BY <1>1, <1>5, <2>1, StillKeeps DEF Still
<1>6. CASE \E p \in InMonitor \ {"begin"} : To(g, p)
  BY <1>1, <1>2, <1>3, <1>6, MoveStep
<1> QED BY <1>4, <1>5, <1>6 DEF FetchFails, NextFile, WriteSegment, WatchEnds, DeferredCleanup,
         WaitRetry, ExitCleanup, InMonitor

LEMMA FinishStep ==
  ASSUME IInv, NEW g \in Goroutines, FinishMonitor(g)
  PROVE  IInv'
<1> USE TypeOKIs DEF IInv
<1>1. Monitoring = {g}
  BY DEF FinishMonitor, At, Monitoring, InMonitor, CancelReachesMonitor
<1>2. cancel' \in Goroutines \cup {"none"}
  BY DEF FinishMonitor
<1>3. CASE restart
  <2>1. StartMonitorLocked(g)
    BY <1>3 DEF FinishMonitor
  <2>2. go' \in [Goroutines -> GoType]
    BY <2>1 DEF StartMonitorLocked, NoGo, GoType, InMonitor
  <2>3. TypeOK'
    BY <1>2, <2>1, <2>2, TypeOKWill DEF FinishMonitor, StartMonitorLocked, recording
  <2> QED BY <1>1, <2>1, <2>3, StartKeeps
<1>4. CASE ~restart
  <2>1. go' = [go EXCEPT ![g] = NoGo] /\ running' = FALSE
    BY <1>4 DEF FinishMonitor
  <2>2. go' \in [Goroutines -> GoType] /\ Monitoring' = {}
    BY <1>1, <2>1 DEF NoGo, GoType, InMonitor, Monitoring
  <2>3. TypeOK'
    BY <1>2, <1>4, <2>2, TypeOKWill DEF FinishMonitor, recording, pauseFlags
  <2> QED BY <2>1, <2>2, <2>3 DEF CancelReachesMonitor
<1> QED BY <1>3, <1>4

LEMMA MonitorStep ==
  ASSUME IInv, NEW g \in Goroutines, Monitor(g)
  PROVE  IInv'
  BY StartStep, RunStep, FinishStep DEF Monitor
-----------------------------------------------------------------------------
(* The steps of everybody else.  They change contexts and flags, and make one  *)
(* goroutine.                                                                  *)
LEMMA SpawnStep ==
  ASSUME IInv, NEW c \in Callers, Spawn(c)
  PROVE  IInv'
<1> USE TypeOKIs DEF IInv
<1> DEFINE h == CHOOSE g \in Goroutines : At(g, "free")
<1>1. h \in Goroutines /\ go[h].pc = "free" /\ go' = [go EXCEPT ![h].pc = "spawned"]
  BY DEF Spawn, At, To
<1> HIDE DEF h
<1>2. go' \in [Goroutines -> GoType] /\ go'[h].pc = "spawned"
      /\ \A g \in Goroutines \ {h} : go'[g].pc = go[g].pc
  BY <1>1, PlaceUpdate
<1>3. TypeOK'
  BY <1>2, TypeOKWill DEF Spawn, pauseFlags, recording
<1> QED BY <1>1, <1>2, <1>3, OutsideKeeps DEF Spawn, InMonitor

\* What all the others have in common.
LEMMA Aside ==
  ASSUME IInv, CancelFunc \/ UNCHANGED go, UNCHANGED <<running, current, cancel>>,
         paused' \in BOOLEAN, reason' \in {"", "manual", "boundary", "handoff"},
         restart' \in BOOLEAN, closed' \in BOOLEAN, listed' \in BOOLEAN,
         file' \in {"none", "empty", "full"}, queued' \in BOOLEAN, cleaners' \in 0..1
  PROVE  IInv'
<1> USE TypeOKIs DEF IInv
<1>1. go' \in [Goroutines -> GoType] /\ \A g \in Goroutines : go'[g].pc = go[g].pc
  BY CancelKeepsPlaces
<1>2. TypeOK'
  BY <1>1, TypeOKWill
<1> QED BY <1>1, <1>2, StillKeeps DEF Still

LEMMA CallerStep ==
  ASSUME IInv, NEW c \in Callers, Caller(c)
  PROVE  IInv'
<1> USE TypeOKIs DEF IInv
<1>1. CASE SetPauseReason(c)
  BY <1>1, Aside DEF SetPauseReason, Sticky, recording
<1>2. CASE SetPaused(c)
  BY <1>2, Aside DEF SetPaused, monitor, recording
<1>3. CASE CancelAndClean(c)
  <2>1. cleaners' \in 0..1
    BY <1>3, CleanersTyped DEF CancelAndClean
  <2>2. /\ CancelFunc
        /\ UNCHANGED <<paused, reason, running, restart, current, cancel, file, queued, closed, listed>>
    BY <1>3 DEF CancelAndClean, pauseFlags
  <2> QED BY <2>1, <2>2, Aside
<1>4. CASE ClearPaused(c)
  BY <1>4, Aside DEF ClearPaused, monitor, recording
<1> QED BY <1>1, <1>2, <1>3, <1>4, SpawnStep DEF Caller

LEMMA OtherStep ==
  ASSUME IInv,
         \/ Cleaned \/ Stop \/ SessionLoop \/ Shutdown \/ UserPauses \/ UserResumes
         \/ StopChannel \/ ShutdownBegins
  PROVE  IInv'
<1> USE TypeOKIs DEF IInv, pauseFlags, recording, monitor
<1>1. CASE Cleaned
  <2>1. cleaners' \in 0..1
    BY <1>1, CleanersTyped DEF Cleaned
  <2>2. file' \in {"none", "empty", "full"} /\ queued' \in BOOLEAN
    BY <1>1, ClosingTyped DEF Cleaned
  <2>3. UNCHANGED <<paused, reason, running, restart, current, cancel, go, closed, listed>>
    BY <1>1 DEF Cleaned
  <2> QED BY <2>1, <2>2, <2>3, Aside
<1>2. CASE Stop
  <2>1. CASE StopFlag
    BY <2>1, Aside DEF StopFlag, Sticky
  <2>2. CASE StopCancel
    BY <2>2, Aside DEF StopCancel
  <2>3. CASE StopLook
    BY <2>3, Aside DEF StopLook
  <2>4. CASE StopProcess
    BY <2>4, Aside DEF StopProcess
  <2> QED BY <1>2, <2>1, <2>2, <2>3, <2>4 DEF Stop
<1>3. CASE SessionLoop
  <2>1. CASE SessionOver \/ WaitForAllChannels \/ Pausing \/ Decide \/ ResumeAllChannels \/ Resuming
    BY <2>1, Aside DEF SessionOver, WaitForAllChannels, Pausing, Decide, ResumeAllChannels, Resuming
  <2>2. CASE CancelAllChannels
    BY <2>2, Aside DEF CancelAllChannels, CancelListed
  <2>3. CASE ProcessAndPause
    BY <2>3, Aside DEF ProcessAndPause
  <2> QED BY <1>3, <2>1, <2>2, <2>3 DEF SessionLoop
<1>4. CASE Shutdown
  <2>1. CASE StopSession
    BY <2>1, Aside DEF StopSession
  <2>2. CASE StopAllChannels
    BY <2>2, Aside DEF StopAllChannels, CancelListed
  <2>3. CASE WaitForUploads
    BY <2>3, Aside DEF WaitForUploads
  <2> QED BY <1>4, <2>1, <2>2, <2>3 DEF Shutdown
<1>5. CASE UserPauses \/ UserResumes \/ StopChannel \/ ShutdownBegins
  BY <1>5, Aside DEF UserPauses, UserResumes, StopChannel, ShutdownBegins
<1> QED BY <1>1, <1>2, <1>3, <1>4, <1>5

-----------------------------------------------------------------------------
LEMMA Initially == Init => IInv
<1> SUFFICES ASSUME Init PROVE IInv
  OBVIOUS
<1>1. go \in [Goroutines -> GoType] /\ \A g \in Goroutines : go[g].pc = "free"
  BY DEF Init, NoGo, GoType
<1>2. TypeOK
  <2>1. cleaners \in 0..1
    <3>1. cleaners = 0
      BY DEF Init
    <3> QED BY <3>1
  <2>2. /\ paused = FALSE /\ reason = "" /\ running = FALSE /\ restart = FALSE
        /\ current = "none" /\ cancel = "none" /\ closed = FALSE /\ listed = TRUE
        /\ file = "none" /\ queued = FALSE
    BY DEF Init
  <2> QED BY <1>1, <2>1, <2>2, TypeOKIs
<1>3. Monitoring = {}
  BY <1>1 DEF Monitoring, InMonitor
<1> QED BY <1>2, <1>3 DEF Init, IInv, CancelReachesMonitor

LEMMA Always == Spec => []IInv
<1>1. IInv /\ [Next]_vars => IInv'
  <2> SUFFICES ASSUME IInv, [Next]_vars PROVE IInv'
    OBVIOUS
  <2>1. CASE UNCHANGED vars
    BY <2>1, TypeOKIs, Aside DEF vars, pauseFlags, monitor, recording, IInv
  <2> QED BY <2>1, MonitorStep, CallerStep, OtherStep DEF Next
<1> QED BY Initially, <1>1, PTL DEF Spec

(* The types of a channel hold whatever is called in whatever order.           *)
THEOREM RecorderTyped == Spec => []TypeOK
<1>1. IInv => TypeOK
  BY DEF IInv
<1> QED BY Always, <1>1, PTL

(* requestMonitorStart and finishMonitor admit one monitor at a time, and      *)
(* monitorRunning tells whether there is one: no second recording of a channel *)
(* on its node, for any number of resumes, pauses, stops and sessions.         *)
THEOREM MonitorUnique == Spec => []OneMonitor
<1>1. IInv => OneMonitor
  BY DEF IInv, OneMonitor, CancelReachesMonitor
<1> QED BY Always, <1>1, PTL

(* What a pause, a stop or a session's end cancels is the context of the       *)
(* monitor that runs, as soon as that has one.                                 *)
THEOREM CancelReaches == Spec => []CancelReachesMonitor
<1>1. IInv => CancelReachesMonitor
  BY DEF IInv
<1> QED BY Always, <1>1, PTL
===============================================================================
