------------------------------ MODULE Segments ------------------------------
(* From a closed recording to a file the upload pipeline owns: finalizing,    *)
(* merging the fragments of a session, parking what is too short in .pending  *)
(* and merging that, and the orphan scan that runs beside it all              *)
(* (channel_file.go, channel_session_merge.go, channel_compress.go).          *)
(* One channel.  A file's content is the set of recordings whose footage it   *)
(* holds; its duration is the sum of theirs.  A file whose ffmpeg run is not  *)
(* finished is not on `disk': every such leftover is removed or unreadable.   *)
EXTENDS Integers, SequencesExt

CONSTANTS
    N,            \* recordings closed in a behaviour
    MinDur,       \* min_duration_before_upload
    Lengths,      \* durations each recording may have (a bound)
    MergedFirst,  \* "merged-" sorts before the channel's own file names
    FaultKinds,   \* what may fail: probe encode merge sessionmerge upload rename
    MaxFaults, MaxCrashes

ASSUME SegmentsAssumption ==
    /\ N \in Nat \ {0} /\ MinDur \in Nat \ {0} /\ Lengths \in [1..N -> SUBSET (Nat \ {0})]
    /\ MergedFirst \in BOOLEAN /\ MaxFaults \in Nat /\ MaxCrashes \in Nat

Recs == 1..N
Procs == 0..N          \* process r post-processes recording r; 0 is the orphan scan
Scan == 0

\* Why a recording ended: at max duration, interrupted, or for good.
Reasons == {"cut", "cont", "end"}
IsDefinitiveStop(reason) == reason # "cont"

\* Files are named by what they are and by the place of their base name in the
\* order of names: recording r is X_r, and what is joined to it makes X_r.merged,
\* whose scratch is X_r.merged.tmp.
File(kind, base, run) == [kind |-> kind, base |-> base, run |-> run]
Raw(r) == File("dir", 3 * r - 2, 0)

\* Mutant of Joined: without its extension the name sorts before X_r.
JoinedTrimmed(f) == File("dir", IF f.base % 3 = 1 THEN f.base - 1 ELSE f.base, 0)

Joined(f) == File("dir", IF f.base % 3 = 1 THEN f.base + 1 ELSE f.base, 0)
NoFile == File("none", 0, 0)

VARIABLES
    disk,      \* the finished files: name -> recordings it holds
    closed,    \* recordings closed so far
    reason, len, batch, \* of each recording: end reason, duration, goroutine
    proc,      \* the goroutines: [pc, file, lock, held, job]
    group,     \* sessionMergeByUser: the file held for the next fragment
    inflight,  \* pendingUploads: files marked as being uploaded
    sent,      \* contents given to the upload pipeline or uploaded
    discarded, \* recordings deleted by policy: too short or too old
    compress, prompt, \* settings: re-encode; post-processing beats the settle window
    faults, crashes, renameFailed,
    stranded   \* held files whose merge with the next fragment failed (history)

vars == <<disk, closed, reason, len, batch, proc, group, inflight, sent, discarded,
          compress, prompt, faults, crashes, renameFailed, stranded>>
settings == <<compress, prompt, crashes, stranded>>
source == <<closed, reason, len, batch>>

NoJob == [del |-> <<>>, tmp |-> NoFile, dst |-> NoFile, then |-> "done"]
At(pc, f, lock, job) == [pc |-> pc, file |-> f, lock |-> lock, held |-> {}, job |-> job]
Idle == At("idle", NoFile, "none", NoJob)
NoGroup == [file |-> NoFile, cont |-> FALSE]

Exists(f) == f \in DOMAIN disk
Content(f) == IF Exists(f) THEN disk[f] ELSE {}
Duration(c) == FoldFunction(+, 0, [r \in c |-> len[r]])
Long(c) == Duration(c) >= MinDur

Without(d, fs) == Restrict(d, DOMAIN d \ fs)
Put(d, f, c) == [g \in DOMAIN d \cup {f} |-> IF g = f THEN c ELSE d[g]]
Rename(d, f, g) == IF f \in DOMAIN d THEN Put(Without(d, {f}), g, d[f]) ELSE d

\* An operation of kind k succeeds, or fails if faults are left for it.
Fails(k) == k \in FaultKinds /\ faults < MaxFaults /\ faults' = faults + 1
Works == UNCHANGED faults

\* The sorted segments of .pending; merge scratch is no segment.
Before(f, g) ==
    IF f.kind = g.kind THEN f.base < g.base ELSE (f.kind = "merged") = MergedFirst
Segments(d) == {f \in DOMAIN d : f.kind \in {"pending", "merged"}}
InOrder(fs) == CHOOSE s \in [1..Cardinality(fs) -> fs] :
                  \A i, j \in 1..Cardinality(fs) : i < j => Before(s[i], s[j])
MergedName(fs) == File("merged", (CHOOSE f \in fs : \A g \in fs \ {f} : Before(f, g)).base, 0)
Parked(f) == File(IF f.kind = "merged" THEN "merged" ELSE "pending", f.base, 0)
Scratch(fs) == File("merging", MergedName(fs).base, crashes + 1)

\* Mutant of Free: the locks are not taken.
Unlocked(p, lock) == p \in Procs /\ lock \in {"session", "merge"}

Free(p, lock) == \A q \in Procs \ {p} : proc[q].lock # lock
Step(p, upd) == proc' = [proc EXCEPT ![p] = upd]
Goto(p, pc, f, lock) == Step(p, At(pc, f, lock, NoJob))
Finish(p) == Goto(p, "done", NoFile, "none")

Init ==
    /\ disk = [f \in {} |-> {}] /\ closed = 0 /\ crashes = 0 /\ faults = 0
    /\ reason = [r \in Recs |-> "cont"] /\ len = [r \in Recs |-> 0]
    /\ batch = [r \in Recs |-> 0] /\ proc = [p \in Procs |-> Idle]
    /\ group = NoGroup /\ inflight = {} /\ sent = {} /\ discarded = {} /\ stranded = {}
    /\ compress \in BOOLEAN /\ prompt \in BOOLEAN /\ (compress => prompt)  \* a bound
    /\ renameFailed = FALSE
-----------------------------------------------------------------------------
(* The recorder closes its file and queues it (an empty file is removed at     *)
(* once and never gets here).                                                 *)

CloseFile(why, d) ==
    LET r == closed + 1 IN
    /\ r \in Recs
    /\ closed' = r /\ reason' = [reason EXCEPT ![r] = why] /\ len' = [len EXCEPT ![r] = d]
    /\ disk' = Put(disk, Raw(r), {r})
    /\ Goto(r, "queued", NoFile, "none")
    /\ UNCHANGED <<batch, group, inflight, sent, discarded, faults, renameFailed, settings>>

Queued == {r \in Recs : proc[r].pc = "queued"}
Working(r) == proc[r].pc \notin {"idle", "queued", "done", "compress"}

\* Hands the queue to one goroutine, which works through it in order.
StartBatch ==
    /\ Queued # {}
    /\ batch' = [r \in Recs |-> IF r \in Queued THEN Max(Queued) ELSE batch[r]]
    /\ proc' = [p \in Procs |-> IF p \in Queued THEN At("ready", NoFile, "none", NoJob) ELSE proc[p]]
    /\ UNCHANGED <<disk, closed, reason, len, group, inflight, sent, discarded, faults,
                   renameFailed, settings>>

FlushPending == StartBatch
ProcessPending == (\A r \in Recs : ~Working(r)) /\ StartBatch

\* Mutant of ProcessPendingFile: an entry of the queue waits for itself too.
ProcessPendingSelf(r) ==
    /\ proc[r].pc = "ready"
    /\ \A q \in Recs : q <= r /\ batch[q] = batch[r] => ~Working(q)
    /\ IF Exists(Raw(r)) THEN Goto(r, "encode", Raw(r), "none") ELSE Finish(r)
    /\ UNCHANGED <<source, disk, group, inflight, sent, discarded, faults, renameFailed, settings>>

ProcessPendingFile(r) ==
    /\ proc[r].pc = "ready"
    /\ \A q \in Recs : q < r /\ batch[q] = batch[r] => ~Working(q)
    /\ IF Exists(Raw(r)) THEN Goto(r, "encode", Raw(r), "none") ELSE Finish(r)
    /\ UNCHANGED <<source, disk, group, inflight, sent, discarded, faults, renameFailed, settings>>

\* runFFmpegFinalizer, in place: the output replaces the recording under its name.
FinalizeRecording(r) ==
    LET tmp == File("finalizing", 3 * r - 2, 0) IN
    /\ proc[r].pc = "encode"
    /\ \/ /\ Exists(Raw(r)) /\ Works
          /\ disk' = Put(disk, tmp, disk[Raw(r)])
          /\ Step(r, At("publish", Raw(r), "none",
                  [del |-> <<Raw(r)>>, tmp |-> tmp, dst |-> Raw(r), then |-> "session"]))
       \/ /\ Exists(Raw(r)) /\ Fails("encode")
          /\ Goto(r, "session", Raw(r), "none") /\ UNCHANGED disk
       \/ ~Exists(Raw(r)) /\ Works /\ Finish(r) /\ UNCHANGED disk
    /\ UNCHANGED <<source, group, inflight, sent, discarded, renameFailed, settings>>
-----------------------------------------------------------------------------
(* Every rewrite ends alike: remove the inputs one by one, rename the scratch. *)

DeleteInput(p) ==
    LET j == proc[p].job IN
    /\ proc[p].pc = "publish" /\ j.del # <<>>
    /\ disk' = Without(disk, {Head(j.del)})
    /\ Step(p, At("publish", proc[p].file, proc[p].lock, [j EXCEPT !.del = Tail(@)]))
    /\ UNCHANGED <<source, group, inflight, sent, discarded, faults, renameFailed, settings>>

PublishOutput(p) ==
    LET j == proc[p].job IN
    /\ proc[p].pc = "publish" /\ j.del = <<>> /\ Works
    /\ disk' = Rename(disk, j.tmp, j.dst)
    /\ IF j.then = "done" THEN Finish(p)
       ELSE Step(p, At(j.then, j.dst, proc[p].lock, j))
    /\ UNCHANGED <<source, group, inflight, sent, discarded, renameFailed, settings>>

\* The finalizer and mergeTwoFiles remove the scratch they cannot rename; the
\* merges of .pending go on with it under its scratch name.
RenameFails(p) ==
    LET j == proc[p].job IN
    /\ proc[p].pc = "publish" /\ j.del = <<>> /\ Fails("rename")
    /\ renameFailed' = TRUE
    /\ IF j.tmp.kind = "merging" /\ j.then # "done"
       THEN Step(p, At(j.then, j.tmp, proc[p].lock, j)) /\ UNCHANGED disk
       ELSE /\ disk' = IF j.tmp.kind = "merging" THEN disk ELSE Without(disk, {j.tmp})
            /\ Finish(p)
    /\ group' = IF proc[p].lock = "session" THEN NoGroup ELSE group
    /\ UNCHANGED <<source, inflight, sent, discarded, settings>>
-----------------------------------------------------------------------------
(* trySessionMerge, under the channel's session lock.                         *)

\* MoveToOutputDir: what is too short is deleted, the rest goes to the pipeline.
Deliver(f) ==
    /\ disk' = Without(disk, {f})
    /\ \/ /\ Exists(f) /\ Works /\ ~Long(disk[f])
          /\ discarded' = discarded \cup disk[f] /\ UNCHANGED sent
       \/ /\ Exists(f) /\ IF Long(disk[f]) THEN Works ELSE Fails("probe")
          /\ sent' = sent \cup {disk[f]} /\ UNCHANGED discarded
       \/ ~Exists(f) /\ Works /\ UNCHANGED <<sent, discarded>>

\* The file becomes the one held for the next fragment.
Hold(p, f, cont) ==
    /\ group' = [file |-> f, cont |-> cont]
    /\ inflight' = inflight \cup {f}
    /\ Finish(p)

HoldFirst(p) ==
    LET f == proc[p].file IN
    /\ proc[p].pc = "session" /\ Free(p, "session") /\ Exists(f)
    /\ group = NoGroup
    /\ IF reason[p] = "end"
       THEN Goto(p, "mindur", f, "none") /\ UNCHANGED <<group, inflight>>
       ELSE Hold(p, f, reason[p] = "cont")
    /\ UNCHANGED <<source, disk, sent, discarded, faults, renameFailed, settings>>

\* A file cut at max duration, or an end after one, sends the held file off.
ReleaseHeld(p) ==
    /\ proc[p].pc = "session" /\ Free(p, "session") /\ Exists(proc[p].file)
    /\ group # NoGroup
    /\ reason[p] = "cut" \/ (reason[p] = "end" /\ ~group.cont)
    /\ inflight' = inflight \ {group.file}
    /\ Goto(p, "flush", proc[p].file, "session")
    /\ UNCHANGED <<source, disk, group, sent, discarded, faults, renameFailed, settings>>

FlushSessionEntry(p) ==
    LET f == proc[p].file IN
    /\ proc[p].pc = "flush"
    /\ Deliver(group.file)
    /\ IF reason[p] = "cut" THEN Hold(p, f, FALSE)
       ELSE Goto(p, "mindur", f, "none") /\ UNCHANGED <<group, inflight>>
    /\ UNCHANGED <<source, renameFailed, settings>>

MergeTwoFiles(p) ==
    LET a == group.file  b == proc[p].file
        tmp == File("sessiontmp", Joined(a).base + 1, 0)
    IN
    /\ proc[p].pc = "session" /\ Free(p, "session") /\ Exists(b)
    /\ group # NoGroup
    /\ reason[p] = "cont" \/ (reason[p] = "end" /\ group.cont)
    /\ \/ /\ Exists(a) /\ Works
          /\ disk' = Put(disk, tmp, disk[a] \cup disk[b])
          /\ Step(p, At("publish", b, "session",
                  [del |-> <<a, b>>, tmp |-> tmp, dst |-> Joined(a),
                   then |-> IF reason[p] = "end" THEN "deliver" ELSE "regroup"]))
          /\ UNCHANGED <<group, stranded>>
       \/ /\ \/ ~Exists(a) /\ Works /\ UNCHANGED stranded
             \/ Exists(a) /\ Fails("sessionmerge") /\ stranded' = stranded \cup {a}
          /\ group' = NoGroup
          /\ Goto(p, "mindur", b, "none") /\ UNCHANGED disk
    /\ UNCHANGED <<source, inflight, sent, discarded, compress, prompt, crashes, renameFailed>>

Regroup(p) ==
    /\ proc[p].pc = "regroup"
    /\ Hold(p, proc[p].file, TRUE)
    /\ UNCHANGED <<source, disk, sent, discarded, faults, renameFailed, settings>>

DeliverSession(p) ==
    /\ proc[p].pc = "deliver"
    /\ group' = NoGroup /\ inflight' = inflight \ {group.file}
    /\ Deliver(proc[p].file) /\ Finish(p)
    /\ UNCHANGED <<source, renameFailed, settings>>

\* The scan took the file while the goroutine waited for the lock.
Vanished(p) ==
    /\ proc[p].pc \in {"session", "mindur"} /\ ~Exists(proc[p].file)
    /\ Free(p, IF proc[p].pc = "session" THEN "session" ELSE "merge")
    /\ Finish(p)
    /\ UNCHANGED <<source, disk, group, inflight, sent, discarded, faults, renameFailed, settings>>
-----------------------------------------------------------------------------
(* handleMinDurationAndMerge, under the channel's merge lock.                 *)

\* What is left of the segments after unreadable ones went to corrupt/, under
\* their own names: one replaces what has its name there.
Corrupt(f) == File("corrupt", f.base, IF f.kind = "merged" THEN 1 ELSE 0)
Quarantined(d, bad) ==
    LET moved == {Corrupt(g) : g \in bad} IN
    [f \in (DOMAIN d \ bad) \cup moved |->
        IF f \in moved THEN d[CHOOSE g \in bad : Corrupt(g) = f] ELSE d[f]]

\* The probe of one segment may fail, which sends it to corrupt/.
Suspects == {{}} \cup {{f} : f \in Segments(disk)}
Checked(bad) == IF bad = {} THEN Works ELSE Fails("probe")

\* mergeVideos over the segments of d and the files of more: the scratch appears,
\* then the inputs go in the order of del.
MergeVideos(p, d, more, del, then) ==
    LET segs == Segments(d) IN
    /\ disk' = Put(d, Scratch(segs), UNION {d[f] : f \in segs \cup more})
    /\ Step(p, At("publish", NoFile, "merge",
            [del |-> del, tmp |-> Scratch(segs), dst |-> MergedName(segs), then |-> then]))

\* A file of the minimum takes the parked segments along.
MinDurationLong(p) ==
    LET f == proc[p].file IN
    /\ proc[p].pc = "mindur" /\ Free(p, "merge") /\ Exists(f) /\ Long(disk[f])
    /\ \E bad \in Suspects :
         LET d == Quarantined(disk, bad)
             segs == Segments(d)
         IN
         \/ segs = {} /\ Checked(bad) /\ disk' = d /\ Goto(p, "egress", f, "none")
         \/ segs # {} /\ Checked(bad) /\ MergeVideos(p, d, {f}, InOrder(segs) \o <<f>>, "egress")
         \/ /\ segs # {} /\ bad = {} /\ Fails("merge")
            /\ disk' = Rename(d, f, Parked(f)) /\ Finish(p)
         \/ /\ segs # {} /\ bad = {} /\ Fails("probe")
            /\ MergeVideos(p, d, {f}, <<f>> \o InOrder(segs), "done")
    /\ UNCHANGED <<source, group, inflight, sent, discarded, renameFailed, settings>>

\* An unreadable file is parked and left alone.
MinDurationUnread(p) ==
    LET f == proc[p].file IN
    /\ proc[p].pc = "mindur" /\ Free(p, "merge") /\ Exists(f) /\ Fails("probe")
    /\ disk' = Rename(disk, f, Parked(f)) /\ Finish(p)
    /\ UNCHANGED <<source, group, inflight, sent, discarded, renameFailed, settings>>

\* A short one is parked; the segments are merged, and given out if they reach
\* the minimum or nothing more is to come.
MinDurationShort(p) ==
    LET f == proc[p].file IN
    /\ proc[p].pc = "mindur" /\ Free(p, "merge") /\ Exists(f) /\ ~Long(disk[f])
    /\ \E bad \in Suspects :
         LET parked == Rename(disk, f, Parked(f))
             d == Quarantined(parked, bad)
             segs == Segments(d)
             total == UNION {d[g] : g \in segs}
         IN
         \/ /\ Cardinality(segs) > 1 /\ Checked(bad)
            /\ MergeVideos(p, d, {}, InOrder(segs),
                 IF Long(total) \/ IsDefinitiveStop(reason[p]) THEN "egress" ELSE "done")
         \/ /\ Cardinality(segs) > 1 /\ bad = {} /\ Fails("merge")
            /\ disk' = d /\ Finish(p)
         \/ /\ Cardinality(segs) > 1 /\ bad = {} /\ Fails("probe")
            /\ MergeVideos(p, d, {}, InOrder(segs), "done")
         \/ /\ Cardinality(segs) <= 1 /\ Checked(bad) /\ disk' = d
            /\ IF segs # {} /\ IsDefinitiveStop(reason[p])
               THEN Goto(p, "orphan", CHOOSE g \in segs : TRUE, "merge")
               ELSE Finish(p)
    /\ UNCHANGED <<source, group, inflight, sent, discarded, renameFailed, settings>>
-----------------------------------------------------------------------------
(* Out of the segment machinery: the pipeline, the compressor, an upload.     *)

MoveToOutputDir(p) ==
    /\ proc[p].pc = "egress" /\ ~compress
    /\ Deliver(proc[p].file) /\ Finish(p)
    /\ UNCHANGED <<source, group, inflight, renameFailed, settings>>

\* CompressFile runs in a goroutine of its own and holds no lock.
CompressFile(p) ==
    /\ proc[p].pc = "egress" /\ compress
    /\ IF Exists(proc[p].file)
       THEN Step(p, [At("compress", proc[p].file, "none", NoJob)
                       EXCEPT !.held = disk[proc[p].file]])
       ELSE Finish(p)
    /\ UNCHANGED <<source, disk, group, inflight, sent, discarded, faults, renameFailed, settings>>

\* The .mkv made from what was there then goes out; the source path is removed.
Compressed(p) ==
    LET c == proc[p].held IN
    /\ proc[p].pc = "compress" /\ Works
    /\ disk' = Without(disk, {proc[p].file}) /\ Finish(p)
    /\ IF Long(c) THEN sent' = sent \cup {c} /\ UNCHANGED discarded
       ELSE discarded' = discarded \cup c /\ UNCHANGED sent
    /\ UNCHANGED <<source, group, inflight, renameFailed, settings>>

CompressFails(p) ==
    /\ proc[p].pc = "compress" /\ "encode" \in FaultKinds
    /\ Deliver(proc[p].file) /\ Finish(p)
    /\ UNCHANGED <<source, group, inflight, renameFailed, settings>>

\* UploadOrphanedFile marks its file, uploads it where it is and removes it.
BeginUpload(p) ==
    LET f == proc[p].file IN
    /\ proc[p].pc = "orphan"
    /\ IF Exists(f)
       THEN /\ Step(p, [At("upload", f, proc[p].lock, NoJob) EXCEPT !.held = disk[f]])
            /\ inflight' = inflight \cup {f}
       ELSE Finish(p) /\ UNCHANGED inflight
    /\ UNCHANGED <<source, disk, group, sent, discarded, faults, renameFailed, settings>>

\* Mutant of EndUpload: a failed upload leaves its marker.
EndUploadKeepsMarker(p) ==
    LET f == proc[p].file  c == proc[p].held IN
    /\ proc[p].pc = "upload" /\ Finish(p)
    /\ \/ /\ Works /\ disk' = Without(disk, {f}) /\ inflight' = inflight \ {f}
          /\ IF Long(c) THEN sent' = sent \cup {c} /\ UNCHANGED discarded
             ELSE discarded' = discarded \cup c /\ UNCHANGED sent
       \/ Fails("upload") /\ UNCHANGED <<disk, inflight, sent, discarded>>
    /\ UNCHANGED <<source, group, renameFailed, settings>>

EndUpload(p) ==
    LET f == proc[p].file  c == proc[p].held IN
    /\ proc[p].pc = "upload"
    /\ inflight' = inflight \ {f} /\ Finish(p)
    /\ \/ /\ ~Long(c) /\ Works
          /\ discarded' = discarded \cup c /\ disk' = Without(disk, {f}) /\ UNCHANGED sent
       \/ /\ IF Long(c) THEN Works ELSE Fails("probe")
          /\ sent' = sent \cup {c} /\ disk' = Without(disk, {f}) /\ UNCHANGED discarded
       \/ Fails("upload") /\ UNCHANGED <<disk, sent, discarded>>
    /\ UNCHANGED <<source, group, renameFailed, settings>>
-----------------------------------------------------------------------------
(* The orphan scan, and the drain that forces what is pending out.            *)

ScanIdle == proc[Scan].pc \in {"idle", "done"}

\* A file is settled when no ffmpeg run just wrote it and, if post-processing
\* beats the settle window, when no goroutine still works on it.
Settled(f) ==
    \A r \in Recs :
        /\ proc[r].pc \in {"publish", "regroup", "deliver", "egress"} => f # proc[r].job.dst
        /\ prompt => proc[r].pc \in {"idle", "done"} \/ f \notin {proc[r].file, Raw(r)}

\* An unclaimed recording is parked when short or unreadable, else uploaded.
ScanMain(f) ==
    /\ ScanIdle /\ Exists(f) /\ f.kind \in {"dir", "sessiontmp"}
    /\ f \notin inflight /\ Settled(f)
    /\ \A r \in Recs : f # proc[r].job.tmp
    /\ \/ /\ (~Long(disk[f]) /\ Works) \/ Fails("probe")
          /\ disk' = Rename(disk, f, Parked(f)) /\ UNCHANGED proc
       \/ /\ Long(disk[f]) /\ Works /\ Goto(Scan, "orphan", f, "none") /\ UNCHANGED disk
    /\ UNCHANGED <<source, group, inflight, sent, discarded, renameFailed, settings>>

\* Mutant of RemoveStaleScratch: the leftovers of session merges go too.
RemoveAllScratch(f) ==
    /\ ScanIdle /\ Exists(f) /\ f.kind \in {"finalizing", "sessiontmp"}
    /\ \A r \in Recs : f # proc[r].job.tmp
    /\ disk' = Without(disk, {f})
    /\ UNCHANGED <<source, proc, group, inflight, sent, discarded, faults, renameFailed, settings>>

\* Finalizer scratch older than any ffmpeg run is deleted.
RemoveStaleScratch(f) ==
    /\ ScanIdle /\ Exists(f) /\ f.kind = "finalizing"
    /\ \A r \in Recs : f # proc[r].job.tmp
    /\ disk' = Without(disk, {f})
    /\ UNCHANGED <<source, proc, group, inflight, sent, discarded, faults, renameFailed, settings>>

\* A merge scratch of a dead run is deleted if any segment is left, else it is
\* the finished merge and becomes a segment.
RecoverMergeScratch(d) ==
    LET left == {f \in DOMAIN d : f.kind = "merging"}
        f == CHOOSE g \in left : TRUE
    IN IF Cardinality(left) # 1 THEN d
       ELSE IF Segments(d) # {} THEN Without(d, left)
       ELSE Rename(d, f, File("merged", f.base, 0))

\* processPendingUserSegments: force uploads what is below the minimum.
ScanPending(force) ==
    /\ ScanIdle /\ Free(Scan, "merge")
    /\ \E bad \in Suspects, aged \in Suspects :
         LET recovered == RecoverMergeScratch(disk)
             d == Quarantined(Without(recovered, aged), bad)
             segs == Segments(d)
             lone == CHOOSE g \in segs : TRUE
             goes == force \/ Long(UNION {d[g] : g \in segs})
         IN
         /\ aged \subseteq IF force THEN {} ELSE Segments(recovered)
         /\ bad \subseteq Segments(recovered) \ aged
         /\ discarded' = discarded \cup UNION {recovered[f] : f \in aged}
         /\ \/ /\ segs = {} /\ Checked(bad) /\ disk' = d /\ UNCHANGED proc
            \/ /\ Cardinality(segs) = 1 /\ Checked(bad) /\ disk' = d
               /\ IF goes /\ lone \notin inflight
                  THEN Goto(Scan, "orphan", lone, "merge") ELSE UNCHANGED proc
            \/ /\ Cardinality(segs) > 1 /\ Checked(bad)
               /\ MergeVideos(Scan, d, {}, InOrder(segs), IF goes THEN "orphan" ELSE "done")
            \/ /\ Cardinality(segs) > 1 /\ bad = {} /\ Fails("merge")
               /\ disk' = d /\ UNCHANGED proc
            \/ /\ Cardinality(segs) > 1 /\ bad = {} /\ Fails("probe")
               /\ MergeVideos(Scan, d, {}, InOrder(segs), "done")
    /\ UNCHANGED <<source, group, inflight, sent, renameFailed, settings>>
-----------------------------------------------------------------------------
\* The process dies; only the files survive.  A crash counts as a fault.
Crash ==
    /\ crashes < MaxCrashes /\ crashes' = crashes + 1
    /\ faults < MaxFaults /\ faults' = faults + 1
    /\ proc' = [p \in Procs |-> IF p \in 1..closed THEN At("done", NoFile, "none", NoJob) ELSE Idle]
    /\ group' = NoGroup /\ inflight' = {} /\ stranded' = {}
    /\ UNCHANGED <<source, disk, sent, discarded, compress, prompt, renameFailed>>

Record ==
    \E why \in Reasons : \E d \in IF closed < N THEN Lengths[closed + 1] ELSE {} : CloseFile(why, d)
PostProcess(r) ==
    \/ ProcessPendingFile(r) \/ FinalizeRecording(r)
    \/ HoldFirst(r) \/ ReleaseHeld(r) \/ FlushSessionEntry(r) \/ MergeTwoFiles(r)
    \/ Regroup(r) \/ DeliverSession(r) \/ Vanished(r)
    \/ MinDurationLong(r) \/ MinDurationUnread(r) \/ MinDurationShort(r)
    \/ MoveToOutputDir(r) \/ CompressFile(r) \/ Compressed(r) \/ CompressFails(r)
Work(p) ==
    DeleteInput(p) \/ PublishOutput(p) \/ RenameFails(p) \/ BeginUpload(p) \/ EndUpload(p)
OrphanScan ==
    \/ \E f \in DOMAIN disk : ScanMain(f) \/ RemoveStaleScratch(f)
    \/ ScanPending(FALSE)

Next ==
    \/ Record \/ FlushPending \/ ProcessPending \/ Crash
    \/ \E r \in Recs : PostProcess(r)
    \/ \E p \in Procs : Work(p)
    \/ OrphanScan
    \/ ScanPending(TRUE)

Spec == Init /\ [][Next]_vars

(* Goroutines run on, and the manager's ticker starts the scan over and over;  *)
(* each pass looks at every file, whatever other work comes between passes.   *)
Fairness ==
    /\ WF_vars(FlushPending)
    /\ \A r \in Recs : WF_vars(PostProcess(r))
    /\ \A p \in Procs : WF_vars(Work(p))
    /\ SF_vars(\E f \in DOMAIN disk : ScanMain(f))
FairSpec == Spec /\ Fairness
-----------------------------------------------------------------------------
Names == {File(k, b, 0) : k \in {"dir", "finalizing", "sessiontmp", "pending", "merged", "corrupt"},
                          b \in 1..3*N}
         \cup {File("corrupt", b, 1) : b \in 1..3*N}
         \cup {File("merging", b, c) : b \in 1..3*N, c \in 1..MaxCrashes + 1}

\* The state stays within its types; an existing file holds footage.
TypeOK ==
    /\ DOMAIN disk \subseteq Names /\ \A f \in DOMAIN disk : disk[f] \in (SUBSET (1..closed)) \ {{}}
    /\ closed \in 0..N /\ reason \in [Recs -> Reasons] /\ len \in [Recs -> (UNION Range(Lengths)) \cup {0}]
    /\ batch \in [Recs -> 0..N] /\ group.file \in Names \cup {NoFile} /\ inflight \subseteq Names
    /\ sent \subseteq SUBSET Recs /\ discarded \subseteq Recs
    /\ \A p \in Procs : proc[p].lock \in {"none", "session", "merge"}

OnDisk == UNION {disk[f] : f \in DOMAIN disk}
Lost == 1..closed \ (OnDisk \cup (UNION sent) \cup discarded)

\* Footage is always on disk, sent, or deleted by policy, whatever fails and in
\* whatever order fragments, merges and scans interleave; only a crash, a
\* failed rename or the compressor's removal of its source path may lose it
\* (channel_session_merge.go:28, handleMinDurationAndMerge).
NoFootageLost == Lost # {} => crashes > 0 \/ renameFailed \/ compress

\* A crash itself loses nothing: footage is lost only by a step that deletes a
\* scratch file left behind, by a failed rename, by the compressor, or with the
\* unreadable segment whose place in corrupt/ another takes
\* (recoverMergeScratch, removeStaleFinalizingScratch, quarantineSegment).
GivenUp ==
    {f \in DOMAIN disk : /\ f.kind \in {"merging", "finalizing", "corrupt"}
                         /\ ~(f \in DOMAIN disk' /\ disk'[f] = disk[f])}
LostOnlyWithScratch ==
    [][renameFailed' \/ compress \/ Lost' \ Lost \subseteq UNION {disk[f] : f \in GivenUp}]_vars

\* A file marked as in flight is the one held for the session or one that some
\* goroutine is at work on: a marker nobody will clear hides the file from the
\* scan for good (trySessionMerge, MarkUploadDone).  The one exception is the held
\* file whose merge with the next fragment fails.
InHand(f) ==
    f = group.file \/ \E p \in Procs : proc[p].pc \notin {"idle", "done"}
                         /\ (f = proc[p].file \/ f = proc[p].job.dst \/ f \in Range(proc[p].job.del))
MarkersOwned == \A f \in inflight \cap DOMAIN disk : InHand(f) \/ f \in stranded

\* What sits in the recording directory unclaimed leaves it in the end: sent,
\* discarded, parked, or held for a fragment to come (CleanupOrphanedFiles:1151);
\* or stranded.
AtRest(r) ==
    \/ r \in (UNION sent) \cup discarded \cup Lost
    \/ \E f \in DOMAIN disk :
          /\ r \in disk[f]
          /\ \/ f = group.file \/ f \in stranded
             \/ f.kind \in {"pending", "merged", "corrupt", "merging", "finalizing"}
FootageComesToRest == <>[](\A r \in 1..closed : AtRest(r))

\* "on any failure the original files are uploaded individually so nothing is
\* ever lost" (channel_session_merge.go:28): no footage stays marked in a file
\* that no goroutine and no session entry knows.
NoFootageStranded == \A f \in inflight \cap DOMAIN disk : InHand(f)

\* "the original recording is still present, so the scratch is pure garbage"
\* (channel_file.go:1280): a deleted scratch never held the only copy.
ScratchIsGarbage ==
    [][\A f \in DOMAIN disk \ DOMAIN disk' :
         f.kind = "finalizing" /\ (\A p \in Procs : f # proc[p].job.tmp)
            => disk[f] \subseteq OnDisk' \cup (UNION sent') \cup discarded']_vars
=============================================================================
