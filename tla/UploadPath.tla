----------------------------- MODULE UploadPath -----------------------------
(* One finished file on its way to the hosts: the channel's pipeline queue     *)
(* (pipeline.go), the orphan scan, the directory watcher and the drain of      *)
(* .pending (channel_file.go, watcher.go), the upload journal, and the disk    *)
(* monitor (server/).  All of them take the same file, mark it in flight,      *)
(* upload it, save its row and links and remove it.                            *)
(* Other files share only the queue, the workers and the upload slots.         *)
EXTENDS Integers, FiniteSets

CONSTANTS
    Hosts,        \* configured upload hosts
    Slots,        \* pipeline objects of the file alive at once (a bound)
    MaxRetries,   \* maxPipelineRetries
    MaxAttempts,  \* attempts of one upload job
    Orphans,      \* who takes files beside the pipelines: scan watcher
    Places,       \* where the file may lie: main muxed pending
    FaultKinds,   \* what may fail: upload db thumb remove; limit: a host ends rate limited
    MaxFaults, MaxCrashes, MaxAdmin

ASSUME UploadAssumption ==
    /\ Hosts # {} /\ IsFiniteSet(Hosts)
    /\ Orphans \subseteq {"scan", "watcher"} /\ Slots \cap {"scan", "watcher", "none"} = {} /\ IsFiniteSet(Slots)
    /\ MaxRetries \in Nat /\ MaxAttempts \in Nat \ {0} /\ MaxFaults \in Nat
    /\ MaxCrashes \in Nat /\ MaxAdmin \in Nat /\ Places \subseteq {"main", "muxed", "pending"}

Uploaders == Slots \cup Orphans

VARIABLES
    disk,      \* the file is on disk
    hosted,    \* hosts that took the file and said so
    limited,   \* hosts that ever ended with neither link nor error (a history)
    row, links, preview, \* recordings row, its upload_links row per host, its preview_images row
    journal,   \* what the upload journal says of every host
    saved,     \* the file's pipeline_state row
    marker,    \* the file is in pendingUploads
    queue,     \* the channel's queue: [started, stopped, stopping]
    wg,        \* UploadWg
    enq,       \* the goroutine in enqueueFile: [pc, slot]
    up,        \* pipelines and orphan uploads
    place, deleteAfter, \* where the file lies; delete_local_after_upload
    faults, crashes, admin

vars == <<disk, hosted, limited, row, links, preview, journal, saved, marker, queue, wg, enq,
          up, place, deleteAfter, faults, crashes, admin>>
settings == <<place, deleteAfter, crashes, admin>>
answers == <<hosted, limited>>
record == <<row, links, preview>>
channel == <<saved, queue, wg, enq>>

NoState == [stage |-> "none", retries |-> 0, links |-> {}, thumb |-> FALSE]
NewState == [NoState EXCEPT !.stage = "upload"]
FreshQueue == [started |-> FALSE, stopped |-> FALSE, stopping |-> FALSE]

\* An uploader: where it is, hosts to try, hosts that took the file in this
\* attempt or ended it without a link, attempts left; and what a pipeline carries from stage to stage.
Free == [pc |-> "free", try |-> {}, good |-> {}, bare |-> {}, left |-> 0, stage |-> "upload", retries |-> 0,
         links |-> {}, thumb |-> FALSE, retried |-> FALSE]
FromState(s) == [Free EXCEPT !.pc = "queued", !.stage = s.stage, !.retries = s.retries,
                             !.links = s.links, !.thumb = s.thumb]
ToState(p) == [stage |-> p.stage, retries |-> p.retries, links |-> p.links, thumb |-> p.thumb]

Step(u, p) == up' = [up EXCEPT ![u] = p]
Goto(u, pc) == Step(u, [up[u] EXCEPT !.pc = pc])
Idle(u) == up[u].pc = "free"
\* A finished pipeline is forgotten, unless enqueueFile still holds it.
Retired(s) == IF s = enq.slot THEN [up[s] EXCEPT !.pc = "free"] ELSE Free
ContainsHash == \E s \in Slots : up[s].pc = "queued"
Running(s) == up[s].pc \notin {"free", "queued", "waiting"}

\* An upload_links row has its URL or, of a host that gave none, an empty one; so
\* has a journal entry of a host that is done.
None == [h \in Hosts |-> "none"]
With(entries, kinds) == {h \in Hosts : entries[h] \in kinds}
Put(entries, new, kind) == [h \in Hosts |-> IF h \in new THEN kind ELSE entries[h]]
LoadCompletedHosts == With(journal, {"url", "empty"})
LoadJournalLinks == With(journal, {"url"})
FullyJournaled == LoadCompletedHosts = Hosts

Fails(k) == k \in FaultKinds /\ faults < MaxFaults /\ faults' = faults + 1
FailAll(kinds) ==
    kinds \subseteq FaultKinds /\ faults' = faults + Cardinality(kinds) /\ faults' <= MaxFaults
Works == UNCHANGED faults
Admin == admin < MaxAdmin /\ admin' = admin + 1

\* ffmpeg and an image host make the thumbnail, of a file that is there.
MakesThumbnail(ok) ==
    \/ ok /\ disk /\ Works
    \/ ~ok /\ ~disk /\ Works
    \/ ~ok /\ disk /\ Fails("thumb")

Init ==
    /\ disk = TRUE /\ hosted = {} /\ limited = {} /\ row = FALSE /\ links = None /\ preview = FALSE
    /\ journal = None /\ saved = NoState /\ queue = FreshQueue /\ wg = 0
    /\ place \in Places /\ deleteAfter \in BOOLEAN
    \* The recorder delivers a main file claimed; a segment or a split part is just there.
    /\ enq = [pc |-> IF place = "main" THEN "deliver" ELSE "none", slot |-> "none"]
    /\ marker = (place = "main")
    /\ up = [u \in Uploaders |-> IF u = "watcher" /\ place # "pending"
                                 THEN [Free EXCEPT !.pc = "event"] ELSE Free]
    /\ faults = 0 /\ crashes = 0 /\ admin = 0
-----------------------------------------------------------------------------
(* The queue of a channel.                                                     *)

\* startOnce: a stopped queue is started anew.
StartOnce(q) == [q EXCEPT !.started = TRUE, !.stopped = FALSE]

EnqueueFileClaimed ==
    /\ enq.pc = "deliver"
    /\ enq' = [enq EXCEPT !.pc = "add"] /\ marker' = TRUE /\ queue' = StartOnce(queue)
    /\ UNCHANGED <<disk, answers, record, journal, saved, wg, up, faults, settings>>

EnqueueFile ==
    /\ enq.pc = "add"
    /\ IF queue.stopped THEN
           /\ \/ Works /\ saved' = NewState
              \/ Fails("db") /\ UNCHANGED saved
           /\ marker' = FALSE /\ enq' = [enq EXCEPT !.pc = "none"] /\ UNCHANGED <<wg, up>>
       ELSE
           \E s \in Slots :
             /\ Idle(s) /\ wg' = wg + 1 /\ Step(s, [Free EXCEPT !.pc = "queued"])
             /\ enq' = [pc |-> "basics", slot |-> s] /\ UNCHANGED <<saved, marker, faults>>
    /\ UNCHANGED <<disk, answers, record, journal, queue, settings>>

SaveRecordingBasics ==
    /\ enq.pc = "basics" /\ enq' = [enq EXCEPT !.pc = "state"]
    /\ \/ Works /\ row' = TRUE
       \/ Fails("db") /\ UNCHANGED row
    /\ UNCHANGED <<disk, answers, links, preview, journal, saved, marker, queue, wg, up,
                   settings>>

\* The state is saved last, of whatever the pipeline has become by then.
SaveQueuedState ==
    /\ enq.pc = "state" /\ enq' = [pc |-> "none", slot |-> "none"]
    /\ \/ Works /\ saved' = ToState(up[enq.slot])
       \/ Fails("db") /\ UNCHANGED saved
    /\ up' = [u \in Uploaders |-> IF u = enq.slot /\ Idle(u) THEN Free ELSE up[u]]
    /\ UNCHANGED <<disk, answers, record, journal, marker, queue, wg, settings>>

\* When the channel is made or, later, pinned to this node again.
ResumePending ==
    /\ saved # NoState
    /\ IF queue.started THEN Admin ELSE UNCHANGED admin
    /\ queue' = StartOnce(queue)
    /\ IF ~disk \/ saved.retries >= MaxRetries
       THEN saved' = NoState /\ UNCHANGED <<marker, wg, up>>
       ELSE /\ UNCHANGED saved
            /\ \/ (ContainsHash \/ marker) /\ UNCHANGED <<marker, wg, up>>
               \/ /\ ~ContainsHash /\ ~marker
                  /\ marker' = TRUE /\ wg' = wg + 1
                  /\ \E s \in Slots : Idle(s) /\ s # enq.slot /\ Step(s, FromState(saved))
    /\ UNCHANGED <<disk, answers, record, journal, enq, faults, place, deleteAfter, crashes>>

\* Mutant of Take: a stopped queue is left as it is.
TakeUnlessStopped(s) ==
    /\ up[s].pc = "queued" /\ ~queue.stopped
    /\ Goto(s, IF up[s].stage = "done" THEN "finish" ELSE up[s].stage)
    /\ UNCHANGED <<disk, answers, record, journal, channel, marker, faults, settings>>

\* A pipeline takes its turn at the stage it stopped at.
Take(s) ==
    /\ up[s].pc = "queued"
    /\ Goto(s, IF up[s].stage = "done" THEN "finish" ELSE up[s].stage)
    /\ UNCHANGED <<disk, answers, record, journal, channel, marker, faults, settings>>

\* Stop follows ProcessPending, which waits for UploadWg; the workers leave once
\* the queue is empty.  A channel added again has a queue of its own.
Stop ==
    /\ wg = 0 /\ queue.started /\ ~queue.stopping /\ Admin
    /\ queue' = [queue EXCEPT !.stopped = TRUE, !.stopping = TRUE]
    /\ UNCHANGED <<disk, answers, record, journal, saved, marker, wg, enq, up, faults,
                   place, deleteAfter, crashes>>

StopReturns ==
    /\ queue.stopping /\ queue.stopped /\ ~ContainsHash /\ \A s \in Slots : ~Running(s)
    /\ queue' = FreshQueue
    /\ UNCHANGED <<disk, answers, record, journal, saved, marker, wg, enq, up, faults,
                   settings>>

\* Mutant of MarkedOnRetry: the file is marked before the queue is looked at.
MarkedAnyway(dropped) == dropped \/ TRUE
MarkedOnRetry(dropped) == ~dropped \/ marker

\* scheduleRetry's timer.  A stop ends it; a queued pipeline of the file replaces it.
RetryFires(s) ==
    /\ up[s].pc = "waiting"
    /\ LET dropped == queue.stopped \/ ContainsHash IN
         /\ IF dropped THEN Step(s, Retired(s)) ELSE Goto(s, "queued")
         /\ marker' = MarkedOnRetry(dropped)
    /\ UNCHANGED <<disk, answers, record, journal, channel, faults, settings>>

\* The deferred end of processPipeline.
Outcome(p) ==
    IF p.stage = "done" THEN "done"
    ELSE IF p.retries < MaxRetries /\ disk THEN "retry" ELSE "drop"

\* Mutant of Counted: a retry gives the token back once more.
CountedAgain(p) == TRUE \/ p.retried
Counted(p) == ~p.retried

FinishPipeline(s) ==
    LET p == up[s]  again == [p EXCEPT !.retries = @ + 1] IN
    /\ p.pc = "finish"
    /\ IF Outcome(p) = "retry"
       THEN Step(s, [again EXCEPT !.pc = "waiting", !.retried = TRUE])
       ELSE Step(s, Retired(s))
    \* The state is saved, if not done, then saved again or deleted.
    /\ \/ Works /\ saved' = IF Outcome(p) = "retry" THEN ToState(again) ELSE NoState
       \/ Fails("db") /\ saved' \in {saved, IF p.stage = "done" THEN saved ELSE ToState(p)}
    /\ wg' = IF Counted(p) THEN wg - 1 ELSE wg
    /\ marker' = FALSE
    /\ UNCHANGED <<disk, answers, record, journal, queue, enq, settings>>
-----------------------------------------------------------------------------
(* Uploading, which a pipeline and an orphan upload do alike.                  *)

\* The callback of a pipeline puts what a host answers on the row at once, if the
\* row exists.
OnHost(u, good, bare) ==
    links' = IF u \in Slots /\ row THEN Put(Put(links, good, "url"), bare, "empty") ELSE links

\* An attempt tries the hosts that are not done yet.  Some take the file, some fail,
\* and some, rate limited to the last, end with neither a link nor an error.
Attempt(u) ==
    /\ up[u].pc = "attempt"
    /\ \E good, bare \in SUBSET up[u].try :
         /\ good \cap bare = {}
         /\ IF disk THEN FailAll((IF good \cup bare = up[u].try THEN {} ELSE {"upload"})
                                \cup (IF bare = {} THEN {} ELSE {"limit"}))
            ELSE good \cup bare = {} /\ Works
         /\ hosted' = hosted \cup good /\ limited' = limited \cup bare
         /\ OnHost(u, good, bare)
         /\ Step(u, [up[u] EXCEPT !.pc = "journal", !.good = good, !.bare = bare, !.left = @ - 1])
    /\ UNCHANGED <<disk, row, preview, journal, channel, marker, settings>>

\* As Attempt, when the links of its callback cannot be saved.
AttemptUnlinked(u) ==
    /\ u \in Slots /\ up[u].pc = "attempt" /\ row /\ disk /\ Fails("db")
    /\ hosted' = hosted \cup up[u].try
    /\ Step(u, [up[u] EXCEPT !.pc = "journal", !.good = @ \cup up[u].try, !.left = @ - 1])
    /\ UNCHANGED <<disk, limited, record, journal, channel, marker, settings>>

\* What ended without an error is a success, with a link or without one.
Journaled(u) == Put(Put(Put(journal, up[u].try, "none"), up[u].good, "url"), up[u].bare, "empty")

\* Where an upload job goes when it has no host or no attempt left.  Without a link
\* only an error ends it; an orphan's save wants a thumbnail only with links.
AfterUpload(u, took, failed) ==
    IF took = {} /\ failed # {} THEN (IF u \in Slots THEN "finish" ELSE "giveup")
    ELSE IF u \in Slots THEN "thumb"
    ELSE IF up[u].thumb \/ took = {} THEN "save" ELSE "regenerate"

SaveJournalEntries(u) ==
    LET rest == up[u].try \ (up[u].good \cup up[u].bare)
        took == up[u].links \cup up[u].good
        again == rest # {} /\ up[u].left > 0 IN
    /\ up[u].pc = "journal"
    /\ journal' = Journaled(u)
    /\ Step(u, [up[u] EXCEPT !.pc = IF again THEN "attempt" ELSE AfterUpload(u, took, rest),
                  !.try = IF again THEN rest ELSE {}, !.good = {}, !.bare = {},
                  !.links = took, !.left = IF rest = {} THEN 0 ELSE @])
    /\ UNCHANGED <<disk, answers, record, channel, marker, faults, settings>>

TryHosts(u, hosts) ==
    Step(u, [up[u] EXCEPT !.pc = "attempt", !.try = hosts, !.good = {}, !.bare = {}, !.left = MaxAttempts])
-----------------------------------------------------------------------------
(* The stages of a pipeline.                                                   *)

StageUploadVideos(s) ==
    /\ up[s].pc = "upload"
    /\ IF ~disk THEN Goto(s, "finish") /\ UNCHANGED journal
       ELSE IF ~FullyJournaled THEN TryHosts(s, Hosts \ LoadCompletedHosts) /\ UNCHANGED journal
       ELSE IF up[s].links # {} THEN Goto(s, "thumb") /\ UNCHANGED journal
       ELSE TryHosts(s, Hosts) /\ journal' = None
    /\ UNCHANGED <<disk, answers, record, channel, marker, faults, settings>>

\* Runs beside the upload; its failure is tolerated for now.
StageThumbnail(s) ==
    /\ up[s].pc = "thumb"
    /\ \E ok \in BOOLEAN :
         /\ IF up[s].thumb THEN ok /\ Works
            ELSE MakesThumbnail(ok)
         /\ preview' = (preview \/ ok)
         /\ Step(s, [up[s] EXCEPT !.thumb = ok, !.pc = IF disk THEN "save" ELSE "finish",
                                  !.stage = IF disk THEN "save" ELSE @])
    /\ UNCHANGED <<disk, answers, row, links, journal, channel, marker, settings>>

\* Mutant of SaveRecordingWithLinks: the links are saved only on a row that was there.
SaveRecordingThenLinks(new) ==
    row' = TRUE /\ links' = IF row THEN Put(links, new, "url") ELSE links

\* SaveRecordingWithLinks saves the row, then the links; it may fail at either.
SaveRecordingWithLinks(new) == row' = TRUE /\ links' = Put(links, new, "url")
SaveRecordingFails == row' \in {row, TRUE} /\ UNCHANGED links

\* The preview's links are saved first; without a link to the file nothing else is.
StageSaveMetadata(s) ==
    /\ up[s].pc = "save"
    /\ \/ /\ up[s].thumb \/ disk
          /\ preview' = TRUE
          /\ \/ /\ Works /\ up[s].links # {} /\ SaveRecordingWithLinks(up[s].links)
                /\ Step(s, [up[s] EXCEPT !.thumb = TRUE, !.pc = "cleanup", !.stage = "cleanup"])
                /\ UNCHANGED journal
             \/ /\ Fails("db") /\ up[s].links # {} /\ SaveRecordingFails /\ journal' = None
                /\ Step(s, [up[s] EXCEPT !.thumb = TRUE, !.pc = "finish"])
             \/ /\ Works /\ up[s].links = {}
                /\ Step(s, [up[s] EXCEPT !.thumb = TRUE, !.pc = "finish"])
                /\ UNCHANGED <<row, links, journal>>
       \/ \* no thumbnail, even now, or its links cannot be saved
          /\ ~up[s].thumb /\ (MakesThumbnail(FALSE) \/ (disk /\ Fails("db")))
          /\ Goto(s, "finish") /\ UNCHANGED <<record, journal>>
    /\ UNCHANGED <<disk, answers, channel, marker, settings>>

StageCleanup(s) ==
    /\ up[s].pc = "cleanup"
    /\ \/ /\ deleteAfter /\ Works /\ disk' = FALSE
          /\ Step(s, [up[s] EXCEPT !.pc = "forget", !.stage = "done"])
       \/ /\ (~deleteAfter /\ Works) \/ (deleteAfter /\ disk /\ Fails("remove"))
          /\ Step(s, [up[s] EXCEPT !.pc = "finish", !.stage = "done"]) /\ UNCHANGED disk
    /\ UNCHANGED <<answers, record, journal, channel, marker, settings>>

DeleteJournal(u) ==
    /\ up[u].pc = "forget"
    /\ journal' = None
    /\ Goto(u, IF u \in Slots THEN "finish" ELSE "return")
    /\ UNCHANGED <<disk, answers, record, channel, marker, faults, settings>>
-----------------------------------------------------------------------------
(* The orphan scan, the watcher and the drain of .pending.  The drain and the  *)
(* scan of split parts remove the file themselves when told it was handled.    *)

CallerRemoves == place = "pending"

\* The scan comes round again; the watcher has one event of the file's creation,
\* if it gets it: MaxAdmin bounds events, stops and resumptions together.
Find(o) ==
    /\ up[o].pc = (IF o = "scan" THEN "free" ELSE "event")
    /\ IF o = "watcher" THEN Admin ELSE UNCHANGED admin
    /\ IF disk /\ ((place = "muxed" /\ o = "scan") \/ ~marker)
       THEN Goto(o, IF place = "pending" THEN "look" ELSE "judge")
       ELSE o = "watcher" /\ Goto(o, "gone")
    /\ UNCHANGED <<disk, answers, record, journal, channel, marker, faults, place, deleteAfter,
                   crashes>>

GoneFor(o) == [Free EXCEPT !.pc = IF o = "scan" THEN "free" ELSE "gone"]

\* Mutant of IsAlreadyFullyUploaded: the row alone is proof.
RowExists == row
IsAlreadyFullyUploaded == row /\ FullyJournaled

\* What is fully uploaded is dropped (the watcher and the scan of main files want
\* its thumbnail first).  A lookup that fails finds nothing.
Judge(o) ==
    /\ up[o].pc = "judge"
    /\ \/ /\ IsAlreadyFullyUploaded /\ Works
          /\ disk' = IF o = "scan" THEN disk /\ place = "main" /\ ~preview
                     ELSE disk /\ ~(deleteAfter /\ preview)
          /\ Step(o, GoneFor(o))
       \/ /\ (~IsAlreadyFullyUploaded /\ Works) \/ (IsAlreadyFullyUploaded /\ Fails("db"))
          /\ Goto(o, "look") /\ UNCHANGED disk
    /\ UNCHANGED <<answers, record, journal, channel, marker, settings>>

\* The thumbnail is made before the file is claimed, which takes minutes.
GenerateThumbnail(o) ==
    /\ up[o].pc = "look"
    /\ \/ /\ place = "muxed" /\ marker /\ Works /\ Step(o, GoneFor(o))
       \/ /\ ~(place = "muxed" /\ marker)
          /\ \E ok \in BOOLEAN :
               /\ MakesThumbnail(ok)
               /\ Step(o, [up[o] EXCEPT !.pc = "claim", !.thumb = ok])
    /\ UNCHANGED <<disk, answers, record, journal, channel, marker, settings>>

\* uploadOrphanedFile
UploadOrphanedFile(o) ==
    /\ up[o].pc = "claim" /\ marker' = TRUE
    /\ IF ~disk THEN Goto(o, "giveup") /\ UNCHANGED preview
       ELSE /\ preview' = (preview \/ up[o].thumb)
            /\ IF ~FullyJournaled THEN TryHosts(o, Hosts \ LoadCompletedHosts)
               ELSE IF row THEN Goto(o, "return") ELSE Goto(o, "recover")
    /\ UNCHANGED <<disk, answers, row, links, journal, channel, faults, settings>>

\* No row, but the journal has links: the metadata is restored from it.
RecoverFromJournal(o) ==
    /\ up[o].pc = "recover"
    /\ IF LoadJournalLinks = {} THEN TryHosts(o, Hosts) /\ journal' = None /\ Works /\ UNCHANGED preview
       ELSE \E ok \in BOOLEAN :
              /\ IF preview THEN ok /\ Works ELSE MakesThumbnail(ok)
              /\ preview' = (preview \/ ok)
              /\ Step(o, [up[o] EXCEPT !.thumb = ok, !.links = LoadJournalLinks,
                                       !.pc = IF ok THEN "save" ELSE "giveup"])
              /\ UNCHANGED journal
    /\ UNCHANGED <<disk, answers, row, links, channel, marker, settings>>

\* A missing thumbnail is tried once more before the save, and the save deferred.
RegenerateThumbnail(o) ==
    /\ up[o].pc = "regenerate"
    /\ \/ disk /\ Works /\ preview' = TRUE /\ Step(o, [up[o] EXCEPT !.thumb = TRUE, !.pc = "save"])
       \/ MakesThumbnail(FALSE) /\ Goto(o, "giveup") /\ UNCHANGED preview
    /\ UNCHANGED <<disk, answers, row, links, journal, channel, marker, settings>>

\* saveOrphanMetadataAndCleanup
SaveOrphanMetadata(o) ==
    /\ up[o].pc = "save"
    /\ \/ Works /\ SaveRecordingWithLinks(up[o].links) /\ Goto(o, IF deleteAfter /\ up[o].thumb THEN "remove" ELSE "return")
       \/ Fails("db") /\ SaveRecordingFails /\ Goto(o, "return")
    /\ UNCHANGED <<disk, answers, preview, journal, channel, marker, settings>>

RemoveUploaded(o) ==
    /\ up[o].pc = "remove"
    /\ \/ Works /\ disk' = FALSE /\ Goto(o, "forget")
       \/ disk /\ Fails("remove") /\ Goto(o, "return") /\ UNCHANGED disk
    /\ UNCHANGED <<answers, record, journal, channel, marker, settings>>

\* Handled, or to be tried again; the marker goes either way.
Return(o) ==
    /\ up[o].pc \in {"return", "giveup"} /\ marker' = FALSE
    /\ IF up[o].pc = "return" /\ CallerRemoves THEN Step(o, [Free EXCEPT !.pc = "unlink"])
       ELSE Step(o, GoneFor(o))
    /\ UNCHANGED <<disk, answers, record, journal, channel, faults, settings>>

Unlink(o) ==
    /\ up[o].pc = "unlink" /\ disk' = FALSE /\ Step(o, GoneFor(o))
    /\ UNCHANGED <<answers, record, journal, channel, marker, faults, settings>>

\* Mutant of ScanThumbnails: only what has been saved is looked at.
ScanSavedThumbnails ==
    /\ disk /\ ~marker /\ ~preview /\ place # "pending" /\ With(links, {"url"}) # {} /\ preview' = TRUE
    /\ UNCHANGED <<disk, answers, row, links, journal, channel, marker, up, faults, settings>>

ScanThumbnails ==
    /\ disk /\ ~marker /\ ~preview /\ place # "pending" /\ preview' = TRUE
    /\ UNCHANGED <<disk, answers, row, links, journal, channel, marker, up, faults, settings>>
-----------------------------------------------------------------------------
(* The disk monitor, and a restart.                                            *)

HasUploadedLinks == row /\ With(links, {"url", "empty"}) # {}

\* Its look at the marker, if it takes one, is older than the removal.
FreeDiskSpace ==
    /\ disk /\ place = "main" /\ HasUploadedLinks /\ disk' = FALSE
    /\ UNCHANGED <<answers, record, journal, channel, marker, up, faults, settings>>

Crash ==
    /\ crashes < MaxCrashes /\ crashes' = crashes + 1 /\ faults < MaxFaults /\ faults' = faults + 1
    /\ marker' = FALSE /\ queue' = FreshQueue /\ wg' = 0
    /\ enq' = [pc |-> "none", slot |-> "none"]
    /\ up' = [u \in Uploaders |-> IF u = "watcher" THEN GoneFor(u) ELSE Free]
    /\ UNCHANGED <<disk, answers, record, journal, saved, place, deleteAfter, admin>>

Enqueue == EnqueueFileClaimed \/ EnqueueFile \/ SaveRecordingBasics \/ SaveQueuedState
Upload(u) == Attempt(u) \/ AttemptUnlinked(u) \/ SaveJournalEntries(u) \/ DeleteJournal(u)
Pipeline(s) ==
    \/ Take(s) \/ RetryFires(s) \/ StageUploadVideos(s) \/ StageThumbnail(s)
    \/ StageSaveMetadata(s) \/ StageCleanup(s) \/ FinishPipeline(s) \/ Upload(s)
Orphan(o) ==
    \/ Find(o) \/ Judge(o) \/ GenerateThumbnail(o) \/ UploadOrphanedFile(o)
    \/ RecoverFromJournal(o) \/ RegenerateThumbnail(o) \/ SaveOrphanMetadata(o)
    \/ RemoveUploaded(o) \/ Return(o) \/ Unlink(o) \/ Upload(o)

Next ==
    \/ Enqueue \/ ResumePending \/ Stop \/ StopReturns \/ (\E s \in Slots : Pipeline(s))
    \/ (\E o \in Orphans : Orphan(o)) \/ ScanThumbnails \/ FreeDiskSpace \/ Crash

Spec == Init /\ [][Next]_vars

\* Every goroutine runs on, the scans come round, the channel resumes what it has
\* saved.  Nobody owes a fault, a stop, a crash or a full disk.
FairSpec ==
    /\ Spec /\ WF_vars(Enqueue) /\ WF_vars(StopReturns) /\ WF_vars(ScanThumbnails)
    /\ \A s \in Slots : WF_vars(Pipeline(s))
    /\ \A o \in Orphans : WF_vars(Orphan(o))
-----------------------------------------------------------------------------
\* Types; and UploadWg holds one token for each pipeline that is queued or runs
\* for the first time: Stop neither waits forever nor leaves an upload behind.
TypeOK ==
    /\ disk \in BOOLEAN /\ hosted \subseteq Hosts /\ limited \subseteq Hosts /\ row \in BOOLEAN
    /\ links \in [Hosts -> {"none", "url", "empty"}] /\ journal \in [Hosts -> {"none", "url", "empty"}]
    /\ preview \in BOOLEAN /\ marker \in BOOLEAN
    /\ wg = Cardinality({s \in Slots : ~up[s].retried /\ up[s].pc \notin {"free", "waiting"}})
    /\ saved.stage \in {"none", "upload", "save", "cleanup", "done"}
    /\ saved.retries \in 0..MaxRetries
    /\ \A u \in Uploaders : up[u].try \subseteq Hosts /\ up[u].good \cup up[u].bare \subseteq up[u].try
                            /\ up[u].left \in 0..MaxAttempts /\ up[u].retries \in 0..MaxRetries

\* Whatever fails, the file leaves the disk only when some host has a copy of it,
\* but for what hosts that end without a link or an error lead to: an empty row in
\* upload_links, or every host recorded as done without a link.
Accounted == hosted # {} \/ (row /\ With(links, {"empty"}) # {}) \/ limited = Hosts
NoFootageLost == ~disk => Accounted

\* A marker has an owner that will remove it; one left behind would hide the
\* file from every scan until a restart.
MarkerOwned ==
    marker => \/ enq.pc \in {"deliver", "add"}
              \/ \E s \in Slots : Running(s) \/ up[s].pc = "queued"
              \/ \E o \in Orphans : up[o].pc \notin {"free", "event", "judge", "look", "claim", "unlink", "gone"}

\* A pipeline that has come to its cleanup, here or after a restart, has its
\* row and a row of every link it knows of saved; nothing but a later answer without
\* a link can have emptied it.
CleanupIsSaved ==
    /\ \A s \in Slots : up[s].stage = "cleanup" /\ ~Idle(s) => row /\ up[s].links \subseteq With(links, {"url", "empty"})
    /\ saved.stage \in {"cleanup", "done"} => row /\ saved.links \subseteq With(links, {"url", "empty"})

\* Once faults and crashes are over the file is uploaded and leaves the
\* disk for good: no path of the code keeps it, or uploads it, forever.
FileLeavesDisk == <>[](~disk)

\* "Delete local file only once ALL hosts have the file safely, metadata is persisted"
DeletedOnlyWhenSaved == ~disk => row /\ With(links, {"url"}) # {}

\* "Only the presence of a persisted upload_link proves the content is safe in the
\* cloud."
LinkProvesCopy == HasUploadedLinks => hosted # {}

\* "If the runner VM dies before other hosts finish, this link survives."
LinkSurvives == [][With(links, {"url"}) \subseteq With(links', {"url"})]_links

\* "preventing duplicate uploads": no two of them upload the file at once.
Uploading(u) == up[u].pc \in {"attempt", "journal"}
OneUploader == \A u, v \in Uploaders : Uploading(u) /\ Uploading(v) => u = v

\* Stop returns once the work it waits for has drained, whatever fails: the
\* workers take what is still queued and no retry comes back to a stopped queue.
StopDrains == queue.stopping /\ queue.stopped ~> ~(queue.stopping /\ queue.stopped)
=============================================================================
