----------------------------- MODULE HostUpload -----------------------------
(* How a file gets to the hosts (uploader/, channel/retrymanager.go): the      *)
(* retry manager's queue and workers, the upload slots and the slots of every  *)
(* host, each host's own attempts, the journal, and what the pipeline or the   *)
(* orphan upload makes of the results.  The database, the image hosts and the  *)
(* disk do not fail here (UploadPath has that), and local copies are deleted   *)
(* after upload.                                                               *)
EXTENDS Integers, Sequences, FiniteSets

CONSTANTS
    Files, Hosts,
    Pipelined,     \* the files a pipeline uploads; the others are orphans
    Kinds,         \* the assignments of a kind to every host that are looked at
    Workers,       \* numWorkers
    QueueLength,   \* capacity of the manager's queue
    UploadSlots,   \* capacity of UploadSem
    HostSlots,     \* capacity of each host's semaphore
    HostAttempts,  \* attempts a host's uploader makes
    MaxAttempts,   \* attempts of a job
    FailThreshold, \* failingHostsThreshold
    Chunks, MaxParallel, \* AnonMP4: chunks of the file, and of a batch
    MaxAgain,      \* how often a file that failed is taken up again (a bound)
    Lossy,         \* the kinds whose answers get lost (a bound)
    MaxUnknown     \* copies at a time that nobody was told of (a bound)

KindNames == {"GoFile", "VOE.sx", "Streamtape", "Mixdrop", "Vidara", "AnonMP4"}

ASSUME HostAssumption ==
    /\ IsFiniteSet(Files) /\ IsFiniteSet(Hosts) /\ Hosts # {} /\ Pipelined \subseteq Files
    /\ "none" \notin Files
    /\ Kinds \subseteq [Hosts -> KindNames]
    /\ \A n \in {Workers, QueueLength, UploadSlots, HostSlots, HostAttempts, MaxAttempts,
                 FailThreshold, Chunks, MaxParallel} : n \in Nat \ {0}
    /\ MaxAgain \in Nat /\ MaxUnknown \in Nat /\ Lossy \subseteq KindNames

VARIABLES
    kind,     \* what each host is
    queue,    \* jobs in the manager's queue
    mu,       \* who holds the manager's mutex over a send
    stopped,  \* Stop was called
    job,      \* job of every file
    up,       \* upload of a file to a host
    disabled, \* hosts the file's MultiHostUploader has given up
    holds,    \* hosts that hold the file
    acked,    \* hosts that have ever answered with their link (history)
    journal,  \* the file's upload journal
    links,    \* the file's link row of every host: none, with a URL, or with an empty one
    disk,     \* files on disk
    again
vars == <<kind, queue, mu, stopped, job, up, disabled, holds, acked, journal, links, disk,
          again>>
manager == <<queue, mu, stopped>>
record == <<acked, journal, links, disk, again>>

NoUpload == [at |-> "off", n |-> 0, next |-> 1, out |-> {}, sent |-> {}, bad |-> FALSE]
NoJob == [pc |-> "new", attempt |-> 0, try |-> {}, results |-> [h \in Hosts |-> "none"],
          err |-> FALSE]
Blank == [h \in Hosts |-> "none"]

Init ==
    /\ kind \in Kinds /\ queue = <<>> /\ mu = "none" /\ stopped = FALSE
    /\ job = [f \in Files |-> NoJob] /\ up = [f \in Files |-> [h \in Hosts |-> NoUpload]]
    /\ disabled = [f \in Files |-> {}] /\ holds = [f \in Files |-> {}]
    /\ acked = [f \in Files |-> {}]
    /\ journal = [f \in Files |-> Blank] /\ links = [f \in Files |-> Blank]
    /\ disk = Files /\ again = 0

Goto(f, pc) == job' = [job EXCEPT ![f].pc = pc]
At(pcs) == {f \in Files : job[f].pc \in pcs}
-----------------------------------------------------------------------------
(* The caller: what is left to try.                                            *)

LoadCompletedHosts(f) == {h \in Hosts : journal[f][h] = "success"}

\* A journal that is full while no link is known is stale: it is cleared, and all
\* hosts are tried.
Begin(f) ==
    LET left == Hosts \ LoadCompletedHosts(f) IN
    /\ job[f].pc = "new"
    /\ job' = [job EXCEPT ![f] = [NoJob EXCEPT !.pc = "submit",
                                  !.try = IF left = {} THEN Hosts ELSE left]]
    /\ journal' = IF left = {} THEN [journal EXCEPT ![f] = Blank] ELSE journal
    /\ UNCHANGED <<kind, manager, up, disabled, holds, acked, links, disk, again>>
-----------------------------------------------------------------------------
(* The retry manager.                                                          *)

Room == Len(queue) < QueueLength
Busy == At({"taken", "uploading"})

\* Mutant of Refused: a job the manager does not take is dropped silently.
Dropped(f) == Goto(f, "lost")
\* A job the stopped manager does not take is answered with an error.
Refused(f) == job' = [job EXCEPT ![f].pc = "answered", ![f].err = TRUE]

\* The send happens under the mutex, and blocks while the queue is full.
Enqueue(f) ==
    /\ job[f].pc \in {"submit", "resend"} /\ mu = "none"
    /\ IF stopped THEN Refused(f) /\ UNCHANGED <<queue, mu>>
       ELSE IF Room THEN Goto(f, "queued") /\ queue' = Append(queue, f) /\ UNCHANGED mu
       ELSE Goto(f, "sending") /\ mu' = f /\ UNCHANGED queue
    /\ UNCHANGED <<kind, stopped, up, disabled, holds, record>>

Send(f) ==
    /\ job[f].pc = "sending" /\ Room
    /\ Goto(f, "queued") /\ queue' = Append(queue, f) /\ mu' = "none"
    /\ UNCHANGED <<kind, stopped, up, disabled, holds, record>>

\* A worker takes a job, of a stopped manager too, until its queue is empty.
Take ==
    /\ queue # <<>> /\ Cardinality(Busy) < Workers
    /\ queue' = Tail(queue)
    /\ job' = [job EXCEPT ![Head(queue)].pc = "taken", ![Head(queue)].attempt = @ + 1]
    /\ UNCHANGED <<kind, mu, stopped, up, disabled, holds, record>>

\* With an upload slot the job starts all its hosts, but those given up.
UploadSelected(f) ==
    /\ job[f].pc = "taken" /\ Cardinality(At({"uploading"})) < UploadSlots
    /\ Goto(f, "uploading")
    /\ up' = [up EXCEPT ![f] = [h \in Hosts |->
                 [NoUpload EXCEPT !.at = IF h \in job[f].try \ disabled[f] THEN "wait" ELSE "off"]]]
    /\ UNCHANGED <<kind, manager, disabled, holds, record>>

Backoff(f) ==
    /\ job[f].pc = "backoff"
    /\ Goto(f, "resend") \/ (stopped /\ Refused(f))
    /\ UNCHANGED <<kind, manager, up, disabled, holds, record>>

\* StopRetryManager.  It returns when the queue is drained and no worker is busy.
Stop ==
    /\ ~stopped /\ mu = "none" /\ stopped' = TRUE
    /\ UNCHANGED <<kind, queue, mu, job, up, disabled, holds, record>>
-----------------------------------------------------------------------------
(* One host.                                                                   *)

Uploading(f, h) == up[f][h].at \in {"try", "chunks", "finalize"}

AcquireHostSem(f, h) ==
    /\ up[f][h].at = "wait"
    /\ Cardinality({g \in Files : Uploading(g, h)}) < HostSlots
    /\ up' = [up EXCEPT ![f][h].at = "try", ![f][h].n = 1]
    /\ UNCHANGED <<kind, manager, job, disabled, holds, record>>

\* The pipeline's callback saves the link of a host that ends without an error,
\* an empty one too.
OnHost(f, h, result) ==
    links' = IF f \in Pipelined /\ result # "error"
             THEN [links EXCEPT ![f][h] = IF result = "link" THEN "url" ELSE "empty"] ELSE links

\* The goroutine of a host ends: with a link, with neither link nor error, or
\* with an error.  A host that is gone, or has failed often in a row, is given
\* up: a host tried at all has failed in every earlier attempt.
Ends(f, h, result) ==
    /\ up' = [up EXCEPT ![f][h] = [NoUpload EXCEPT !.at = result]]
    /\ acked' = IF result = "link" THEN [acked EXCEPT ![f] = @ \cup {h}] ELSE acked
    /\ OnHost(f, h, result)
    /\ UNCHANGED <<kind, manager, job, journal, disk, again>>
GivesUp(f, why) == why = "gone" \/ job[f].attempt >= FailThreshold
Stored(f, h) == holds' = [holds EXCEPT ![f] = @ \cup {h}]
\* The answer is lost, or not understood: the host may have the file or not.
Unknown == {fh \in Files \X Hosts : fh[2] \in holds[fh[1]] \ acked[fh[1]]}
MayHold(f, h) ==
    \/ UNCHANGED holds
    \/ kind[h] \in Lossy /\ Cardinality(Unknown) < MaxUnknown /\ Stored(f, h)

Uploaded(f, h) == Ends(f, h, "link") /\ Stored(f, h) /\ UNCHANGED disabled
Failed(f, h, why) ==
    /\ Ends(f, h, "error")
    /\ disabled' = [disabled EXCEPT ![f] = IF GivesUp(f, why) THEN @ \cup {h} ELSE @]
FailsUnsent(f, h, whys) == UNCHANGED holds /\ \E why \in whys : Failed(f, h, why)

TryAgain(f, h) ==
    /\ up' = [up EXCEPT ![f][h] = [NoUpload EXCEPT !.at = "try", !.n = up[f][h].n + 1]]
    /\ UNCHANGED <<kind, manager, job, disabled, record>>
FailsOrTriesAgain(f, h, why) ==
    /\ MayHold(f, h)
    /\ IF up[f][h].n < HostAttempts THEN TryAgain(f, h) ELSE Failed(f, h, why)

\* A rate limit clears the last error.  After the last attempt that leaves a
\* result with no link and no error.
RateLimited(f, h) ==
    /\ UNCHANGED holds
    /\ IF up[f][h].n < HostAttempts THEN TryAgain(f, h)
       ELSE Ends(f, h, "bare") /\ UNCHANGED disabled

\* What every host's loop does.  Gone stands for a full storage, a refused or timed
\* out connection and status 500, other for the rest.
Loop(f, h) ==
    \/ Uploaded(f, h)
    \/ RateLimited(f, h)
    \/ \E why \in {"gone", "other"} : FailsOrTriesAgain(f, h, why)

GoFile(f, h) == kind[h] = "GoFile" /\ Loop(f, h)
Mixdrop(f, h) == kind[h] = "Mixdrop" /\ Loop(f, h)
VoeSX(f, h) == kind[h] = "VOE.sx" /\ (Loop(f, h) \/ FailsUnsent(f, h, {"gone"}))
\* No upload server is healthy: the host's loop ends at once.
Vidara(f, h) == kind[h] = "Vidara" /\ (Loop(f, h) \/ FailsUnsent(f, h, {"other"}))
\* The upload URL is asked for once, before the loop.
Streamtape(f, h) ==
    /\ kind[h] = "Streamtape"
    /\ Loop(f, h) \/ (up[f][h].n = 1 /\ FailsUnsent(f, h, {"gone", "other"}))

UploadWithProgress(f, h) ==
    /\ up[f][h].at = "try"
    /\ GoFile(f, h) \/ Mixdrop(f, h) \/ VoeSX(f, h) \/ Vidara(f, h) \/ Streamtape(f, h)

\* AnonMP4's loop leaves at once on what it calls futile: a rate limit, a dead
\* connection, a rejection.
AnonMP4Fails(f, h) ==
    \/ \E why \in {"gone", "other"} : Failed(f, h, why)
    \/ up[f][h].n < HostAttempts /\ TryAgain(f, h)

\* The next batch of chunks, which are sent in parallel.
Batch(f, h) ==
    LET u == up[f][h]
        last == IF u.next + MaxParallel > Chunks THEN Chunks ELSE u.next + MaxParallel - 1 IN
    /\ up' = [up EXCEPT ![f][h] = [u EXCEPT !.at = "chunks", !.out = u.next..last, !.next = last + 1]]
    /\ UNCHANGED <<kind, manager, job, disabled, holds, record>>

AssignUploadNode(f, h) ==
    /\ kind[h] = "AnonMP4" /\ up[f][h].at = "try"
    /\ Batch(f, h) \/ (UNCHANGED holds /\ AnonMP4Fails(f, h))

\* One chunk of the batch is taken by the node, or has failed in all its tries.
UploadChunk(f, h, c) ==
    /\ up[f][h].at = "chunks" /\ c \in up[f][h].out
    /\ \/ up' = [up EXCEPT ![f][h].out = @ \ {c}, ![f][h].sent = @ \cup {c}]
       \/ up' = [up EXCEPT ![f][h].out = @ \ {c}, ![f][h].bad = TRUE]
    /\ UNCHANGED <<kind, manager, job, disabled, holds, record>>

\* Mutant of BatchFailed: only a batch that failed altogether is a failure.
WholeBatchFailed(u) == u.sent = {}
BatchFailed(u) == u.bad

\* The batch is waited for, and the next one sent.
UploadChunked(f, h) ==
    LET u == up[f][h] IN
    /\ u.at = "chunks" /\ u.out = {}
    /\ IF BatchFailed(u) THEN UNCHANGED holds /\ AnonMP4Fails(f, h)
       ELSE IF u.next <= Chunks THEN Batch(f, h)
       ELSE /\ up' = [up EXCEPT ![f][h].at = "finalize"]
            /\ UNCHANGED <<kind, manager, job, disabled, holds, record>>

\* The link is had whether or not the node has all of the file.  It has the file
\* when it published it, though its answer be lost.
FetchVideoNode(f, h) ==
    LET whole == up[f][h].sent = 1..Chunks IN
    /\ up[f][h].at = "finalize"
    /\ \/ /\ Ends(f, h, "link") /\ UNCHANGED disabled
          /\ IF whole THEN Stored(f, h) ELSE UNCHANGED holds
       \/ /\ AnonMP4Fails(f, h)
          /\ IF whole THEN MayHold(f, h) ELSE UNCHANGED holds
-----------------------------------------------------------------------------
(* The job.                                                                    *)

Ended(f) == \A h \in Hosts : up[f][h].at \in {"off", "link", "bare", "error"}
\* What this attempt brought, and what all attempts did; a link outlasts an error.
Attempted(f) == [h \in Hosts |-> IF up[f][h].at = "off" THEN "none" ELSE up[f][h].at]
\* Mutant of Results: those of the last attempt only.
LastResults(f) == Attempted(f)
Results(f) == [h \in Hosts |-> IF Attempted(f)[h] = "none" THEN job[f].results[h]
                               ELSE Attempted(f)[h]]
With(results, rs) == {h \in Hosts : results[h] \in rs}

\* Mutant of FailedHostNames: every host that has a result.
AllHostNames(results) == With(results, {"link", "bare", "error"})
FailedHostNames(results) == With(results, {"error"})

\* Only a pipeline goes by the results of all attempts.
Pending(f) == FailedHostNames(IF f \in Pipelined THEN Results(f) ELSE Attempted(f))
Journaled(f) == [h \in Hosts |-> CASE Attempted(f)[h] \in {"link", "bare"} -> "success"
                                    [] Attempted(f)[h] = "error" -> "failed"
                                    [] OTHER -> journal[f][h]]

\* Mutant of MayRetry: one attempt more.
MayRetryOnceMore(f) == job[f].attempt <= MaxAttempts
MayRetry(f) == job[f].attempt < MaxAttempts

\* All hosts have ended: the results are journaled and the job is answered or
\* waits for its next attempt.
ExecuteJob(f) ==
    /\ job[f].pc = "uploading" /\ Ended(f)
    /\ journal' = [journal EXCEPT ![f] = Journaled(f)]
    /\ job' = [job EXCEPT ![f] = [@ EXCEPT !.results = Results(f), !.try = Pending(f),
                 !.err = Pending(f) # {},
                 !.pc = IF Pending(f) # {} /\ MayRetry(f) THEN "backoff" ELSE "answered"]]
    /\ up' = [up EXCEPT ![f] = [h \in Hosts |-> NoUpload]]
    /\ UNCHANGED <<kind, manager, disabled, holds, acked, links, disk, again>>
-----------------------------------------------------------------------------
(* The caller again.                                                           *)

HasLink(f) == With(links[f], {"url"})
Linked(f) == HasLink(f) \cup With(job[f].results, {"link"})

\* stageUploadVideos gives up when there is an error and no link, stageSaveMetadata
\* when there is no link.  An orphan upload gives up only in the first case.
Saves(f) == Linked(f) # {} \/ (f \notin Pipelined /\ ~job[f].err)

\* The row and its links are saved, the local file and the journal removed.  The
\* call's results and its MultiHostUploader are gone.
Conclude(f) ==
    /\ job[f].pc = "answered"
    /\ links' = [links EXCEPT ![f] = [h \in Hosts |-> IF h \in Linked(f) THEN "url" ELSE @[h]]]
    /\ disabled' = [disabled EXCEPT ![f] = {}]
    /\ job' = [job EXCEPT ![f] = [NoJob EXCEPT !.pc = IF Saves(f) THEN "done" ELSE "failed"]]
    /\ IF Saves(f) THEN disk' = disk \ {f} /\ journal' = [journal EXCEPT ![f] = Blank]
       ELSE UNCHANGED <<disk, journal>>
    /\ UNCHANGED <<kind, manager, up, holds, acked, again>>

\* The pipeline's retry, or the next orphan scan; the manager is stopped last.
Again(f) ==
    /\ job[f].pc = "failed" /\ ~stopped /\ again < MaxAgain
    /\ Goto(f, "new") /\ again' = again + 1
    /\ UNCHANGED <<kind, manager, up, disabled, holds, acked, journal, links, disk>>

HostStep(f, h) ==
    \/ AcquireHostSem(f, h) \/ UploadWithProgress(f, h) \/ AssignUploadNode(f, h)
    \/ (\E c \in 1..Chunks : UploadChunk(f, h, c)) \/ UploadChunked(f, h) \/ FetchVideoNode(f, h)
FileStep(f) ==
    \/ Begin(f) \/ Enqueue(f) \/ Send(f) \/ UploadSelected(f) \/ Backoff(f) \/ ExecuteJob(f)
    \/ Conclude(f) \/ Again(f)
Work == Take \/ \E f \in Files : FileStep(f) \/ \E h \in Hosts : HostStep(f, h)
Next == Work \/ Stop

Spec == Init /\ [][Next]_vars
\* Go runs what can run, and every request to a host has a timeout.  Work is
\* bounded, so that nobody waits for ever behind the others.
FairSpec == Spec /\ WF_vars(Work)
-----------------------------------------------------------------------------
(* Types: jobs and uploads keep within their attempts, the queue and the       *)
(* slots within their capacities.                                              *)
TypeOK ==
    /\ kind \in [Hosts -> KindNames] /\ stopped \in BOOLEAN
    /\ Len(queue) <= QueueLength /\ \A i \in DOMAIN queue : queue[i] \in At({"queued"})
    /\ mu \in Files \cup {"none"} /\ At({"sending"}) = {mu} \ {"none"}
    /\ \A f \in Files :
         /\ job[f].attempt \in 0..MaxAttempts
         /\ job[f].try \subseteq Hosts /\ disabled[f] \subseteq Hosts
         /\ acked[f] \subseteq Hosts /\ holds[f] \subseteq Hosts
         /\ links[f] \in [Hosts -> {"none", "url", "empty"}]
         /\ \A h \in Hosts : up[f][h].n \in 0..HostAttempts
    /\ Cardinality(Busy) <= Workers /\ disk \subseteq Files

(* What a recording links is what the hosts hold: no link with a URL stands    *)
(* for a file its host does not have in full, and no link a host answered with *)
(* in any attempt is missing from the recording that is saved.                 *)
LinksAreCopies ==
    \A f \in Files : HasLink(f) \subseteq holds[f] /\ (job[f].pc = "done" => acked[f] \subseteq HasLink(f))

(* A host that answered with its link is not sent the file again: not by a     *)
(* later attempt, not by a retry of the file, whatever the other hosts         *)
(* answered in between.                                                        *)
NotSentAgain(f, h) == up'[f][h].at = "try" => up[f][h].at = "try"
NoSecondCopy == [][\A f \in Files : \A h \in acked[f] : NotSentAgain(f, h)]_vars

(* Every caller of DoWithRetry is answered, though the queue is full, slots are *)
(* short, hosts fail or the manager is stopped meanwhile.                      *)
EveryCallAnswered == <>[](At({"done", "failed"}) = Files)

(* saveOrphanMetadataAndCleanup: "Delete local file only once ALL hosts have   *)
(* the file safely".  A deleted file is held by one host at the least.         *)
DeletedOnlyWhenHeld == \A f \in Files : f \in disk \/ holds[f] # {}

(* stageUploadVideos: "Uses the upload journal to skip hosts that already have *)
(* the file" (pipeline.go:336).                                                *)
HolderNotSentAgain == [][\A f \in Files : \A h \in holds[f] : NotSentAgain(f, h)]_vars

(* LoadCompletedHosts: "returns the list of hosts that have successfully       *)
(* received the file" (db.go:1463).                                            *)
JournaledIsHeld == \A f \in Files : LoadCompletedHosts(f) \subseteq holds[f]
=============================================================================
