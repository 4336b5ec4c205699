--------------------------- MODULE HostUploadProofs ---------------------------
(* Theorems about HostUpload, for any files, hosts, workers, slots, attempts   *)
(* and chunks, whatever answers are lost.  The argument: a host has answered   *)
(* with its link exactly when the upload of this attempt, or an earlier        *)
(* attempt of the job, ended with it; it holds the file then, though others    *)
(* may too; only hosts without a link are tried again, and a job that fails    *)
(* has none at all.                                                            *)
EXTENDS HostUpload, FiniteSetTheorems, TLAPS

JobPCs == {"new", "submit", "resend", "sending", "queued", "taken", "uploading", "backoff",
           "answered", "done", "failed"}
Outcomes == {"none", "link", "bare", "error"}
JobType == [pc : JobPCs, attempt : 0..MaxAttempts, try : SUBSET Hosts,
            results : [Hosts -> Outcomes], err : BOOLEAN]
UploadType == [at : {"off", "wait", "try", "chunks", "finalize", "link", "bare", "error"},
               n : 0..HostAttempts, next : 1..(Chunks + 1), out : SUBSET (1..Chunks),
               sent : SUBSET (1..Chunks), bad : BOOLEAN]

\* Unless a chunk failed, all before the next batch are with the node or under way.
UploadOK(u) ==
    /\ u.at \in {"off", "wait", "try"} => u.sent = {} /\ u.next = 1 /\ ~u.bad
    /\ u.at = "chunks" /\ ~u.bad => u.sent \cup u.out = 1..(u.next - 1)
    /\ u.at = "finalize" => u.sent = 1..Chunks

\* The job, the uploads, the hosts that answered and the link rows of one file.
FileOK(j, ups, A, L) ==
    /\ j.pc \in {"new", "submit", "resend", "sending", "queued", "backoff"} => j.attempt < MaxAttempts
    /\ j.pc \in {"new", "failed", "done"} => j.attempt = 0 /\ j.results = Blank
    /\ \A h \in Hosts : ups[h].at # "off" => j.pc = "uploading" /\ j.results[h] # "link"
    /\ j.pc \in {"submit", "resend", "sending", "queued", "taken", "backoff"} =>
         \A h \in j.try : j.results[h] # "link"
    /\ j.pc # "done" => \A h \in Hosts : h \in A <=> ups[h].at = "link" \/ j.results[h] = "link"
    /\ \A h \in Hosts : L[h] = "url" => h \in A
    /\ j.pc = "done" => \A h \in A : L[h] = "url"

QueueOK ==
    /\ queue \in Seq(Files) /\ Len(queue) <= QueueLength
    /\ \A i \in 1..Len(queue) : job[queue[i]].pc = "queued"
    /\ \A i, k \in 1..Len(queue) : queue[i] = queue[k] => i = k
MutexOK == mu \in Files \cup {"none"} /\ \A f \in Files : job[f].pc = "sending" <=> mu = f
BusyOK == Cardinality(Busy) <= Workers
Rows == {"none", "url", "empty"}
Frame ==
    /\ kind \in [Hosts -> KindNames] /\ stopped \in BOOLEAN /\ disk \subseteq Files
    /\ disabled \in [Files -> SUBSET Hosts]

IInv ==
    /\ Frame /\ QueueOK /\ MutexOK /\ BusyOK
    /\ job \in [Files -> JobType] /\ up \in [Files -> [Hosts -> UploadType]]
    /\ holds \in [Files -> SUBSET Hosts] /\ acked \in [Files -> SUBSET Hosts]
    /\ links \in [Files -> [Hosts -> Rows]]
    /\ \A f \in Files : \A h \in Hosts : UploadOK(up[f][h])
    /\ \A f \in Files : acked[f] \subseteq holds[f] /\ FileOK(job[f], up[f], acked[f], links[f])
-----------------------------------------------------------------------------
LEMMA BusyFinite == IsFiniteSet(Busy) /\ Busy \subseteq Files
  BY HostAssumption, FS_Subset DEF Busy, At

\* What is known of a file before its step.
LEMMA Before ==
  ASSUME IInv, NEW f \in Files
  PROVE  /\ job[f] \in JobType /\ up[f] \in [Hosts -> UploadType]
         /\ acked[f] \subseteq holds[f] /\ holds[f] \subseteq Hosts /\ links[f] \in [Hosts -> Rows]
         /\ FileOK(job[f], up[f], acked[f], links[f])
         /\ \A h \in Hosts : up[f][h] \in UploadType /\ UploadOK(up[f][h])
  BY DEF IInv

(* A job moves, and neither the queue nor the mutex.                           *)
LEMMA ManagerStays ==
  ASSUME IInv, NEW f \in Files, NEW j \in JobType, job' = [job EXCEPT ![f] = j],
         UNCHANGED <<queue, mu>>, job[f].pc \notin {"queued", "sending"},
         j.pc \notin {"queued", "sending"},
         j.pc \in {"taken", "uploading"} => job[f].pc \in {"taken", "uploading"}
  PROVE  QueueOK' /\ MutexOK' /\ BusyOK'
<1>1. \A g \in Files : job'[g] = IF g = f THEN j ELSE job[g]
  BY DEF IInv
<1>2. QueueOK'
  BY <1>1 DEF IInv, QueueOK
<1>3. MutexOK'
  BY <1>1 DEF IInv, MutexOK
<1>4. Busy' \subseteq Busy
  BY <1>1 DEF Busy, At
<1>5. Cardinality(Busy') <= Cardinality(Busy)
  BY <1>4, BusyFinite, FS_Subset
<1>6. Cardinality(Busy) \in Nat /\ Cardinality(Busy') \in Nat
  BY <1>4, BusyFinite, FS_Subset, FS_CardinalityType
<1>7. BusyOK'
  BY <1>5, <1>6, HostAssumption DEF IInv, BusyOK
<1> QED BY <1>2, <1>3, <1>7

(* The job of a file moves; its uploads, holders and links with it.            *)
LEMMA JobMoves ==
  ASSUME IInv, NEW f \in Files, NEW j \in JobType, job' = [job EXCEPT ![f] = j],
         NEW ups \in [Hosts -> UploadType], up' = [up EXCEPT ![f] = ups],
         \A h \in Hosts : UploadOK(ups[h]),
         NEW L \in [Hosts -> Rows], links' = [links EXCEPT ![f] = L], UNCHANGED <<holds, acked>>,
         FileOK(j, ups, acked[f], L), Frame', QueueOK', MutexOK', BusyOK'
  PROVE  IInv'
<1>1. /\ job' \in [Files -> JobType] /\ up' \in [Files -> [Hosts -> UploadType]]
      /\ holds' \in [Files -> SUBSET Hosts] /\ acked' \in [Files -> SUBSET Hosts]
      /\ links' \in [Files -> [Hosts -> Rows]] /\ \A g \in Files : acked'[g] \subseteq holds'[g]
  BY DEF IInv
<1>2. \A g \in Files : /\ job'[g] = IF g = f THEN j ELSE job[g]
                       /\ up'[g] = IF g = f THEN ups ELSE up[g]
                       /\ links'[g] = IF g = f THEN L ELSE links[g]
  BY DEF IInv
<1>3. \A g \in Files : \A h \in Hosts : UploadOK(up'[g][h])
  BY <1>2 DEF IInv
<1>4. \A g \in Files : FileOK(job'[g], up'[g], acked'[g], links'[g])
  BY <1>2 DEF IInv
<1> QED BY <1>1, <1>3, <1>4 DEF IInv

\* The job alone moves.
LEMMA JobOnly ==
  ASSUME IInv, NEW f \in Files, NEW j \in JobType, job' = [job EXCEPT ![f] = j],
         UNCHANGED <<up, links, holds, acked>>, FileOK(j, up[f], acked[f], links[f]),
         Frame', QueueOK', MutexOK', BusyOK'
  PROVE  IInv'
<1>1. up' = [up EXCEPT ![f] = up[f]] /\ links' = [links EXCEPT ![f] = links[f]]
  BY DEF IInv
<1> QED BY <1>1, Before, JobMoves

(* The upload of a file to a host moves; with a link the host has answered.    *)
AckMoves(f, h, u) == acked' = IF u.at = "link" THEN [acked EXCEPT ![f] = @ \cup {h}] ELSE acked
HoldMoves(f, h, u) == Stored(f, h) \/ (UNCHANGED holds /\ u.at # "link")
LinkMoves(f, h, u) ==
    \/ UNCHANGED links
    \/ \E row \in Rows : links' = [links EXCEPT ![f][h] = row] /\ (row = "url" => u.at = "link")

LEMMA HostMoves ==
  ASSUME IInv, NEW f \in Files, NEW h \in Hosts, NEW u \in UploadType,
         up' = [up EXCEPT ![f][h] = u], UploadOK(u), u.at # "off",
         up[f][h].at \in {"wait", "try", "chunks", "finalize"},
         AckMoves(f, h, u), HoldMoves(f, h, u), LinkMoves(f, h, u),
         disabled' \in [Files -> SUBSET Hosts],
         UNCHANGED <<kind, manager, job, disk>>
  PROVE  IInv'
<1>1. /\ up' \in [Files -> [Hosts -> UploadType]]
      /\ \A g \in Files : \A k \in Hosts :
           up'[g][k] = IF g = f /\ k = h THEN u ELSE up[g][k]
  BY DEF IInv
<1>2. /\ acked' \in [Files -> SUBSET Hosts]
      /\ \A g \in Files : \A k \in Hosts :
           k \in acked'[g] <=> k \in acked[g] \/ (g = f /\ k = h /\ u.at = "link")
  BY DEF IInv, AckMoves
<1>3. UNCHANGED <<kind, queue, mu, stopped, job, disk>>
  BY DEF manager
<1>4. Frame' /\ QueueOK' /\ MutexOK'
  BY <1>3 DEF IInv, Frame, QueueOK, MutexOK
<1>5. BusyOK'
  BY <1>3 DEF IInv, BusyOK, Busy, At
<1>6. \A g \in Files : \A k \in Hosts : UploadOK(up'[g][k])
  BY <1>1 DEF IInv
<1>7. /\ links' \in [Files -> [Hosts -> Rows]]
      /\ \A g \in Files : g # f => links'[g] = links[g]
      /\ \A k \in Hosts : links'[f][k] = "url" => links[f][k] = "url" \/ (k = h /\ u.at = "link")
  <2>1. links[f] \in [Hosts -> Rows]
    BY Before
  <2>2. ASSUME NEW row \in Rows, links' = [links EXCEPT ![f][h] = row], row = "url" => u.at = "link"
        PROVE  /\ links' \in [Files -> [Hosts -> Rows]]
               /\ \A g \in Files : g # f => links'[g] = links[g]
               /\ \A k \in Hosts : links'[f][k] = "url" => links[f][k] = "url" \/ (k = h /\ u.at = "link")
    <3>1. links' = [links EXCEPT ![f] = [links[f] EXCEPT ![h] = row]]
      BY <2>2
    <3>2. links'[f] = [links[f] EXCEPT ![h] = row]
      BY <3>1 DEF IInv
    <3> QED BY <2>1, <2>2, <3>1, <3>2 DEF IInv
  <2>3. CASE UNCHANGED links
    BY <2>3 DEF IInv
  <2> QED BY <2>2, <2>3 DEF LinkMoves
<1>8. /\ holds' \in [Files -> SUBSET Hosts]
      /\ \A g \in Files : \A k \in holds[g] : k \in holds'[g]
      /\ u.at = "link" => h \in holds'[f]
  <2>1. holds[f] \subseteq Hosts
    BY Before
  <2>2. CASE Stored(f, h)
    <3>1. holds'[f] = holds[f] \cup {h} /\ \A g \in Files : g # f => holds'[g] = holds[g]
      BY <2>2 DEF IInv, Stored
    <3>2. holds' \in [Files -> SUBSET Hosts]
      BY <2>1, <2>2 DEF IInv, Stored
    <3> QED BY <3>1, <3>2
  <2>3. CASE UNCHANGED holds /\ u.at # "link"
    BY <2>3 DEF IInv
  <2> QED BY <2>2, <2>3 DEF HoldMoves
<1>9. \A g \in Files : acked'[g] \subseteq holds'[g]
  BY <1>2, <1>8 DEF IInv
<1>10. ASSUME NEW g \in Files
       PROVE  FileOK(job[g], up'[g], acked'[g], links'[g])
  <2>1. FileOK(job[g], up[g], acked[g], links[g])
    BY <1>10, Before
  <2>2. CASE g # f
    <3>1. acked'[g] = acked[g]
      BY <1>2, <1>10, <2>2 DEF IInv
    <3>2. up'[g] = up[g] /\ links'[g] = links[g]
      BY <1>7, <2>2, <1>10 DEF IInv
    <3> QED BY <2>1, <3>1, <3>2
  <2>3. CASE g = f
    <3>1. job[f].pc = "uploading" /\ job[f].results[h] # "link"
      BY <2>1, <2>3 DEF FileOK
    <3> QED BY <1>1, <1>2, <1>7, <2>1, <2>3, <3>1 DEF FileOK
  <2> QED BY <2>2, <2>3
<1> QED BY <1>1, <1>2, <1>3, <1>4, <1>5, <1>6, <1>7, <1>8, <1>9, <1>10 DEF IInv

\* It goes on, without an answer from the host.
LEMMA HostGoesOn ==
  ASSUME IInv, NEW f \in Files, NEW h \in Hosts, NEW u \in UploadType,
         up' = [up EXCEPT ![f][h] = u], UploadOK(u), u.at \notin {"off", "link"},
         up[f][h].at \in {"wait", "try", "chunks", "finalize"},
         UNCHANGED holds \/ Stored(f, h),
         UNCHANGED <<kind, manager, job, disabled, record>>
  PROVE  IInv'
<1>1. UNCHANGED <<acked, links, disk>> /\ disabled' \in [Files -> SUBSET Hosts]
  BY DEF record, IInv, Frame
<1>2. AckMoves(f, h, u) /\ HoldMoves(f, h, u) /\ LinkMoves(f, h, u)
  BY <1>1 DEF AckMoves, HoldMoves, LinkMoves
<1>3. UNCHANGED <<kind, manager, job, disk>>
  BY <1>1
<1> QED BY <1>1, <1>2, <1>3, HostMoves

-----------------------------------------------------------------------------
(* The steps of a host.                                                        *)

LEMMA FreshUpload ==
  ASSUME NEW at \in {"off", "wait", "try", "link", "bare", "error"}, NEW n \in 0..HostAttempts
  PROVE  LET u == [NoUpload EXCEPT !.at = at, !.n = n]
         IN  u \in UploadType /\ UploadOK(u) /\ u.at = at
<1>1. 1 \in 1..(Chunks + 1)
  BY HostAssumption
<1> QED BY <1>1 DEF NoUpload, UploadType, UploadOK

LEMMA EndedUpload ==
  ASSUME NEW at \in {"off", "wait", "try", "link", "bare", "error"}
  PROVE  LET u == [NoUpload EXCEPT !.at = at]
         IN  u \in UploadType /\ UploadOK(u) /\ u.at = at
<1>1. 0 \in 0..HostAttempts /\ 1 \in 1..(Chunks + 1)
  BY HostAssumption
<1> QED BY <1>1 DEF NoUpload, UploadType, UploadOK

\* How the upload of a file to a host that is under way may go on.
Active == {"wait", "try", "chunks", "finalize"}

LEMMA EndsMoves ==
  ASSUME IInv, NEW f \in Files, NEW h \in Hosts, NEW at \in {"link", "bare", "error"},
         up[f][h].at \in Active, Ends(f, h, at), disabled' \in [Files -> SUBSET Hosts],
         UNCHANGED holds \/ Stored(f, h), at = "link" => Stored(f, h)
  PROVE  IInv'
<1> DEFINE u == [NoUpload EXCEPT !.at = at]
           r == IF at = "link" THEN "url" ELSE "empty"
<1>1. u \in UploadType /\ UploadOK(u) /\ u.at = at
  BY EndedUpload
<1>2. r \in Rows /\ (r = "url" => at = "link")
  BY DEF Rows
<1>3. LinkMoves(f, h, u)
  BY <1>1, <1>2 DEF Ends, OnHost, LinkMoves
<1>4. AckMoves(f, h, u) /\ HoldMoves(f, h, u)
  BY <1>1 DEF Ends, AckMoves, HoldMoves
<1>5. up' = [up EXCEPT ![f][h] = u] /\ UNCHANGED <<kind, manager, job, disk>>
  BY DEF Ends
<1>6. u.at # "off" /\ up[f][h].at \in {"wait", "try", "chunks", "finalize"}
  BY <1>1 DEF Active
<1> HIDE DEF u, r
<1> QED BY <1>1, <1>3, <1>4, <1>5, <1>6, HostMoves

LEMMA FailsMoves ==
  ASSUME IInv, NEW f \in Files, NEW h \in Hosts, NEW why, up[f][h].at \in Active, Failed(f, h, why),
         UNCHANGED holds \/ Stored(f, h)
  PROVE  IInv'
<1>1. disabled' \in [Files -> SUBSET Hosts]
  BY DEF Failed, IInv, Frame
<1>2. Ends(f, h, "error")
  BY DEF Failed
<1> QED BY <1>1, <1>2, EndsMoves

LEMMA TryAgainMoves ==
  ASSUME IInv, NEW f \in Files, NEW h \in Hosts, up[f][h].at \in Active,
         up[f][h].n < HostAttempts, TryAgain(f, h), UNCHANGED holds \/ Stored(f, h)
  PROVE  IInv'
<1> DEFINE n == up[f][h].n + 1
           u == [NoUpload EXCEPT !.at = "try", !.n = n]
<1>1. up[f][h].n \in 0..HostAttempts
  BY Before DEF UploadType
<1>2. n \in 0..HostAttempts
  BY <1>1, HostAssumption
<1>3. u \in UploadType /\ UploadOK(u) /\ u.at = "try"
  BY <1>2, FreshUpload
<1> QED BY <1>3, HostGoesOn DEF TryAgain, Active

LEMMA LoopMoves ==
  ASSUME IInv, NEW f \in Files, NEW h \in Hosts, up[f][h].at \in Active, Loop(f, h)
  PROVE  IInv'
<1> USE DEF Loop
<1>1. CASE Uploaded(f, h)
  <2>1. disabled' \in [Files -> SUBSET Hosts]
    BY <1>1 DEF Uploaded, IInv, Frame
  <2> QED BY <1>1, <2>1, EndsMoves DEF Uploaded
<1>2. CASE UNCHANGED holds /\ Ends(f, h, "bare") /\ UNCHANGED disabled
  <2>1. disabled' \in [Files -> SUBSET Hosts]
    BY <1>2 DEF IInv, Frame
  <2> QED BY <1>2, <2>1, EndsMoves
<1>3. CASE RateLimited(f, h)
  BY <1>2, <1>3, TryAgainMoves DEF RateLimited
<1>4. ASSUME NEW why, FailsOrTriesAgain(f, h, why) PROVE IInv'
  <2>1. UNCHANGED holds \/ Stored(f, h)
    BY <1>4 DEF FailsOrTriesAgain, MayHold
  <2> QED BY <1>4, <2>1, TryAgainMoves, FailsMoves DEF FailsOrTriesAgain
<1> QED BY <1>1, <1>3, <1>4

LEMMA AnonMP4FailsMoves ==
  ASSUME IInv, NEW f \in Files, NEW h \in Hosts, up[f][h].at \in Active, AnonMP4Fails(f, h),
         UNCHANGED holds \/ Stored(f, h)
  PROVE  IInv'
  BY TryAgainMoves, FailsMoves DEF AnonMP4Fails

LEMMA ChunksSent ==
  ASSUME NEW u, NEW m \in Nat, u.at = "chunks", u.next = m + 1, u.sent \cup u.out = 1..m
  PROVE  UploadOK(u)
  BY DEF UploadOK

\* Chunks are sent up to the last, each once.
LEMMA BatchMoves ==
  ASSUME IInv, NEW f \in Files, NEW h \in Hosts, up[f][h].at \in {"try", "chunks"},
         ~up[f][h].bad, up[f][h].out = {} \/ up[f][h].at = "try", up[f][h].next <= Chunks,
         Batch(f, h)
  PROVE  IInv'
<1> DEFINE v == up[f][h]
           last == IF v.next + MaxParallel > Chunks THEN Chunks ELSE v.next + MaxParallel - 1
           u == [v EXCEPT !.at = "chunks", !.out = v.next..last, !.next = last + 1]
<1>1. v \in UploadType /\ UploadOK(v)
  BY Before
<1>2. v.next \in 1..(Chunks + 1) /\ Chunks \in Nat /\ MaxParallel \in Nat \ {0}
  BY <1>1, HostAssumption DEF UploadType
<1>3. last \in Nat /\ last <= Chunks /\ last >= v.next /\ last + 1 \in 1..(Chunks + 1)
  BY <1>2
<1> HIDE DEF last
<1>4. v.next..last \subseteq 1..Chunks
  BY <1>2, <1>3
<1>5. v.sent = 1..(v.next - 1)
  <2>1. CASE v.at = "try"
    <3>1. v.sent = {} /\ v.next = 1
      BY <1>1, <2>1 DEF UploadOK
    <3>2. 1..(1 - 1) = {}
      OBVIOUS
    <3> QED BY <3>1, <3>2
  <2>2. CASE v.at = "chunks" /\ v.out = {}
    BY <1>1, <2>2 DEF UploadOK
  <2> QED BY <2>1, <2>2
<1>6. (1..(v.next - 1)) \cup (v.next..last) = 1..last
  BY <1>2, <1>3
<1>7. u \in UploadType
  BY <1>1, <1>3, <1>4 DEF UploadType
<1>8. u.at = "chunks" /\ u.sent = v.sent /\ u.out = v.next..last /\ u.next = last + 1
  BY <1>1 DEF UploadType
<1>9. up' = [up EXCEPT ![f][h] = u] /\ UNCHANGED <<kind, manager, job, disabled, holds, record>>
  BY DEF Batch, last
<1> HIDE DEF u
<1>10. UploadOK(u)
  <2>1. u.sent \cup u.out = 1..last
    BY <1>5, <1>6, <1>8, Zenon
  <2> QED BY <1>3, <1>8, <2>1, ChunksSent
<1> QED BY <1>7, <1>8, <1>9, <1>10, HostGoesOn

LEMMA ChunkMoves ==
  ASSUME IInv, NEW f \in Files, NEW h \in Hosts, NEW c \in 1..Chunks, UploadChunk(f, h, c)
  PROVE  IInv'
<1> DEFINE v == up[f][h]
<1>1. v \in UploadType /\ UploadOK(v) /\ v.at = "chunks" /\ c \in v.out
  BY Before DEF UploadChunk
<1>2. UNCHANGED <<kind, manager, job, disabled, holds, record>>
  BY DEF UploadChunk
<1>3. CASE up' = [up EXCEPT ![f][h].out = @ \ {c}, ![f][h].sent = @ \cup {c}]
  <2> DEFINE u == [v EXCEPT !.out = @ \ {c}, !.sent = @ \cup {c}]
  <2>1. up' = [up EXCEPT ![f][h] = u]
    BY <1>3 DEF IInv, UploadType
  <2>2. u \in UploadType
    BY <1>1 DEF UploadType
  <2>3. u.at = "chunks" /\ u.sent \cup u.out = v.sent \cup v.out /\ u.next = v.next /\ u.bad = v.bad
    BY <1>1 DEF UploadType
  <2>4. UploadOK(u)
    BY <1>1, <2>3 DEF UploadOK
  <2> QED BY <1>1, <1>2, <2>1, <2>2, <2>3, <2>4, HostGoesOn
<1>4. CASE up' = [up EXCEPT ![f][h].out = @ \ {c}, ![f][h].bad = TRUE]
  <2> DEFINE u == [v EXCEPT !.out = @ \ {c}, !.bad = TRUE]
  <2>1. up' = [up EXCEPT ![f][h] = u]
    BY <1>4 DEF IInv, UploadType
  <2>2. u \in UploadType
    BY <1>1 DEF UploadType
  <2>3. u.at = "chunks" /\ u.bad
    BY <1>1 DEF UploadType
  <2>4. UploadOK(u)
    BY <2>3 DEF UploadOK
  <2> QED BY <1>1, <1>2, <2>1, <2>2, <2>3, <2>4, HostGoesOn
<1> QED BY <1>3, <1>4 DEF UploadChunk

LEMMA HostStepMoves ==
  ASSUME IInv, NEW f \in Files, NEW h \in Hosts, HostStep(f, h)
  PROVE  IInv'
<1> DEFINE v == up[f][h]
<1>1. v \in UploadType /\ UploadOK(v)
  BY Before
<1>2. CASE AcquireHostSem(f, h)
  <2> DEFINE u == [v EXCEPT !.at = "try", !.n = 1]
  <2>1. up' = [up EXCEPT ![f][h] = u] /\ v.at = "wait"
        /\ UNCHANGED <<kind, manager, job, disabled, holds, record>>
    BY <1>2 DEF AcquireHostSem, IInv, UploadType
  <2>2. 1 \in 0..HostAttempts
    BY HostAssumption
  <2>3. u \in UploadType /\ u.at = "try" /\ u.sent = v.sent /\ u.next = v.next /\ u.bad = v.bad
    BY <1>1, <2>2 DEF UploadType
  <2>4. UploadOK(u)
    BY <1>1, <2>1, <2>3 DEF UploadOK
  <2> QED BY <2>1, <2>3, <2>4, HostGoesOn
<1>3. CASE UploadWithProgress(f, h)
  <2>1. up[f][h].at \in Active
    BY <1>3 DEF UploadWithProgress, Active
  <2>2. Loop(f, h) \/ (UNCHANGED holds /\ \E why \in {"gone", "other"} : Failed(f, h, why))
    BY <1>3 DEF UploadWithProgress, GoFile, Mixdrop, VoeSX, Vidara, Streamtape, FailsUnsent
  <2> QED BY <2>1, <2>2, LoopMoves, FailsMoves
<1>4. CASE AssignUploadNode(f, h)
  <2>1. v.at = "try" /\ ~v.bad /\ v.next = 1 /\ v.at \in Active
    BY <1>1, <1>4 DEF AssignUploadNode, UploadOK, Active
  <2>2. v.next <= Chunks
    BY <2>1, HostAssumption
  <2> QED BY <1>4, <2>1, <2>2, BatchMoves, AnonMP4FailsMoves DEF AssignUploadNode
<1>5. CASE \E c \in 1..Chunks : UploadChunk(f, h, c)
  BY <1>5, ChunkMoves
<1>6. CASE UploadChunked(f, h)
  <2>1. v.at = "chunks" /\ v.out = {} /\ v.at \in Active
    BY <1>6 DEF UploadChunked, Active
  <2>2. CASE v.bad
    BY <1>6, <2>1, <2>2, AnonMP4FailsMoves DEF UploadChunked, BatchFailed
  <2>3. CASE ~v.bad /\ v.next <= Chunks
    BY <1>6, <2>1, <2>3, BatchMoves DEF UploadChunked, BatchFailed
  <2>4. CASE ~v.bad /\ ~(v.next <= Chunks)
    <3> DEFINE u == [v EXCEPT !.at = "finalize"]
    <3>1. up' = [up EXCEPT ![f][h] = u] /\ UNCHANGED <<kind, manager, job, disabled, holds, record>>
      BY <1>6, <2>4 DEF UploadChunked, BatchFailed, IInv, UploadType
    <3>2. v.next = Chunks + 1
      <4>1. v.next \in 1..(Chunks + 1)
        BY <1>1 DEF UploadType
      <4> QED BY <2>4, <4>1, HostAssumption
    <3>3. v.sent = 1..(v.next - 1)
      BY <1>1, <2>1, <2>4 DEF UploadOK
    <3>4. v.sent = 1..Chunks
      <4>1. v.next - 1 = Chunks
        BY <3>2, HostAssumption
      <4> QED BY <3>3, <4>1
    <3>5. u \in UploadType /\ u.at = "finalize" /\ u.sent = v.sent
      BY <1>1 DEF UploadType
    <3>6. UploadOK(u)
      BY <3>4, <3>5 DEF UploadOK
    <3> QED BY <2>1, <3>1, <3>5, <3>6, HostGoesOn
  <2> QED BY <2>2, <2>3, <2>4
<1>7. CASE FetchVideoNode(f, h)
  <2>1. v.at = "finalize" /\ v.sent = 1..Chunks /\ v.at \in Active
    BY <1>1, <1>7 DEF FetchVideoNode, UploadOK, Active
  <2>2. CASE AnonMP4Fails(f, h) /\ MayHold(f, h)
    BY <2>1, <2>2, AnonMP4FailsMoves DEF MayHold
  <2>3. CASE Ends(f, h, "link") /\ UNCHANGED disabled /\ Stored(f, h)
    <3>1. disabled' \in [Files -> SUBSET Hosts]
      BY <2>3 DEF IInv, Frame
    <3> QED BY <2>1, <2>3, <3>1, EndsMoves
  <2> QED BY <1>7, <2>1, <2>2, <2>3 DEF FetchVideoNode
<1> QED BY <1>2, <1>3, <1>4, <1>5, <1>6, <1>7 DEF HostStep

-----------------------------------------------------------------------------
(* The steps of a job.                                                         *)

LEMMA NoJobIsOK ==
  NoJob \in JobType /\ NoJob.pc = "new" /\ NoJob.attempt = 0 /\ NoJob.results = Blank
<1>1. 0 \in 0..MaxAttempts
  BY HostAssumption
<1>2. Blank \in [Hosts -> Outcomes] /\ NoJob.results = Blank
  BY DEF Blank, NoJob, Outcomes
<1> QED BY <1>1, <1>2 DEF NoJob, JobType, JobPCs

\* The journal decides only which hosts are tried: none holds the file yet.
LEMMA BeginMoves ==
  ASSUME IInv, NEW f \in Files, Begin(f)
  PROVE  IInv'
<1> DEFINE left == Hosts \ LoadCompletedHosts(f)
           try == IF left = {} THEN Hosts ELSE left
           j == [NoJob EXCEPT !.pc = "submit", !.try = try]
<1>1. /\ job[f].pc = "new" /\ job' = [job EXCEPT ![f] = j]
      /\ UNCHANGED <<kind, queue, mu, stopped, up, disabled, holds, acked, links, disk>>
  BY DEF Begin, manager
<1>2. try \in SUBSET Hosts /\ "submit" \in JobPCs
  BY DEF JobPCs
<1> HIDE DEF try
<1>3. j \in JobType /\ j.pc = "submit" /\ j.attempt = 0 /\ j.results = Blank /\ j.try = try
  BY <1>2, NoJobIsOK DEF JobType
<1>4. job[f].results = Blank
  BY <1>1, Before DEF FileOK
<1>5. 0 < MaxAttempts
  BY HostAssumption
<1>6. FileOK(j, up[f], acked[f], links[f])
  <2>1. \A h \in try : Blank[h] # "link"
    BY <1>2 DEF Blank
  <2> QED BY <1>1, <1>3, <1>4, <1>5, <2>1, Before DEF FileOK
<1>7. Frame'
  BY <1>1 DEF IInv, Frame
<1>8. QueueOK' /\ MutexOK' /\ BusyOK'
  BY <1>1, <1>3, ManagerStays
<1> QED BY <1>1, <1>3, <1>6, <1>7, <1>8, JobOnly

LEMMA RefusedMoves ==
  ASSUME IInv, NEW f \in Files, job[f].pc \in {"submit", "resend", "backoff"}, Refused(f),
         UNCHANGED <<kind, queue, mu, stopped, up, disabled, holds, acked, links, disk>>
  PROVE  IInv'
<1> DEFINE j == [job[f] EXCEPT !.pc = "answered", !.err = TRUE]
<1>1. job' = [job EXCEPT ![f] = j]
  BY DEF Refused, IInv, JobType
<1>2. j \in JobType /\ j.pc = "answered" /\ j.results = job[f].results
  BY Before DEF JobType, JobPCs
<1>3. FileOK(j, up[f], acked[f], links[f])
  BY <1>2, Before DEF FileOK
<1>4. Frame'
  BY DEF IInv, Frame
<1>5. QueueOK' /\ MutexOK' /\ BusyOK'
  BY <1>1, <1>2, ManagerStays
<1> QED BY <1>1, <1>2, <1>3, <1>4, <1>5, JobOnly

\* The job joins the queue, of which it is not yet part.
LEMMA JoinsQueue ==
  ASSUME IInv, NEW f \in Files, job[f].pc \in {"submit", "resend", "sending"}, Room,
         Goto(f, "queued"), queue' = Append(queue, f),
         mu' \in {mu, "none"}, mu' = "none" <=> mu \in {"none", f},
         UNCHANGED <<kind, stopped, up, disabled, holds, acked, links, disk>>
  PROVE  IInv'
<1> DEFINE j == [job[f] EXCEPT !.pc = "queued"]
<1>1. job' = [job EXCEPT ![f] = j] /\ \A g \in Files : job'[g] = IF g = f THEN j ELSE job[g]
  BY DEF Goto, IInv
<1>2. j \in JobType /\ j.pc = "queued" /\ j.attempt = job[f].attempt
      /\ j.results = job[f].results /\ j.try = job[f].try
  BY Before DEF JobType, JobPCs
<1>3. FileOK(j, up[f], acked[f], links[f])
  BY <1>2, Before DEF FileOK
<1>4. Frame'
  BY DEF IInv, Frame
<1>5. QueueOK'
  <2>1. /\ queue' \in Seq(Files) /\ Len(queue') = Len(queue) + 1 /\ Len(queue) \in Nat
        /\ \A i \in 1..Len(queue') : queue'[i] = IF i <= Len(queue) THEN queue[i] ELSE f
    BY DEF IInv, QueueOK
  <2>2. Len(queue') <= QueueLength
    BY <2>1, HostAssumption DEF Room
  <2>3. \A i \in 1..Len(queue) : queue[i] \in Files /\ queue[i] # f
    BY DEF IInv, QueueOK
  <2>4. \A i \in 1..Len(queue') : i \in 1..Len(queue) \/ (i = Len(queue) + 1 /\ ~(i <= Len(queue)))
    BY <2>1
  <2>5. \A i \in 1..Len(queue') : job'[queue'[i]].pc = "queued"
    BY <1>1, <1>2, <2>1, <2>3, <2>4 DEF IInv, QueueOK
  <2>6. \A i, k \in 1..Len(queue') : queue'[i] = queue'[k] => i = k
    BY <2>1, <2>3, <2>4 DEF IInv, QueueOK
  <2> QED BY <2>1, <2>2, <2>5, <2>6 DEF QueueOK
<1>6. MutexOK'
  BY <1>1, <1>2, HostAssumption DEF IInv, MutexOK
<1>7. BusyOK'
  <2>1. Busy' = Busy
    BY <1>1, <1>2 DEF Busy, At
  <2> QED BY <2>1 DEF IInv, BusyOK
<1> QED BY <1>1, <1>2, <1>3, <1>4, <1>5, <1>6, <1>7, JobOnly

LEMMA EnqueueMoves ==
  ASSUME IInv, NEW f \in Files, Enqueue(f)
  PROVE  IInv'
<1>1. /\ job[f].pc \in {"submit", "resend"} /\ mu = "none"
      /\ UNCHANGED <<kind, stopped, up, disabled, holds, acked, links, disk>>
  BY DEF Enqueue, record
<1>2. CASE stopped
  BY <1>1, <1>2, RefusedMoves DEF Enqueue
<1>3. CASE ~stopped /\ Room
  BY <1>1, <1>3, JoinsQueue DEF Enqueue
<1>4. CASE ~stopped /\ ~Room
  <2> DEFINE j == [job[f] EXCEPT !.pc = "sending"]
  <2>1. /\ job' = [job EXCEPT ![f] = j] /\ mu' = f /\ UNCHANGED queue
        /\ \A g \in Files : job'[g] = IF g = f THEN j ELSE job[g]
    BY <1>4 DEF Enqueue, Goto, IInv
  <2>2. j \in JobType /\ j.pc = "sending" /\ j.attempt = job[f].attempt
        /\ j.results = job[f].results /\ j.try = job[f].try
    BY Before DEF JobType, JobPCs
  <2>3. FileOK(j, up[f], acked[f], links[f])
    BY <1>1, <2>2, Before DEF FileOK
  <2>4. Frame'
    BY <1>1 DEF IInv, Frame
  <2>5. QueueOK'
    BY <1>1, <2>1, <2>2 DEF IInv, QueueOK
  <2>6. MutexOK'
    BY <1>1, <2>1, <2>2, HostAssumption DEF IInv, MutexOK
  <2>7. BusyOK'
    <3>1. Busy' = Busy
      BY <1>1, <2>1, <2>2 DEF Busy, At
    <3> QED BY <3>1 DEF IInv, BusyOK
  <2> QED BY <1>1, <2>1, <2>2, <2>3, <2>4, <2>5, <2>6, <2>7, JobOnly
<1> QED BY <1>2, <1>3, <1>4

LEMMA SendMoves ==
  ASSUME IInv, NEW f \in Files, Send(f)
  PROVE  IInv'
<1>1. mu = f
  BY DEF Send, IInv, MutexOK
<1> QED BY <1>1, JoinsQueue DEF Send, record

LEMMA TakeMoves ==
  ASSUME IInv, Take
  PROVE  IInv'
<1> DEFINE f == Head(queue)
           j == [job[f] EXCEPT !.pc = "taken", !.attempt = @ + 1]
<1>1. /\ queue # <<>> /\ Cardinality(Busy) < Workers /\ queue' = Tail(queue)
      /\ UNCHANGED <<kind, mu, stopped, up, disabled, holds, acked, links, disk>>
  BY DEF Take, record
<1>2. /\ queue \in Seq(Files) /\ Len(queue) \in Nat \ {0} /\ f = queue[1] /\ f \in Files
      /\ job[f].pc = "queued"
  BY <1>1 DEF IInv, QueueOK
<1>3. job' = [job EXCEPT ![f] = j] /\ \A g \in Files : job'[g] = IF g = f THEN j ELSE job[g]
  BY <1>2 DEF Take, IInv, JobType
<1>4. job[f].attempt + 1 \in 0..MaxAttempts
  <2>1. job[f].attempt \in 0..MaxAttempts /\ job[f].attempt < MaxAttempts
    BY <1>2, Before DEF JobType, FileOK
  <2> QED BY <2>1, HostAssumption
<1>5. j \in JobType /\ j.pc = "taken" /\ j.results = job[f].results /\ j.try = job[f].try
  BY <1>2, <1>4, Before DEF JobType, JobPCs
<1>6. FileOK(j, up[f], acked[f], links[f])
  BY <1>2, <1>5, Before DEF FileOK
<1>7. Frame'
  BY <1>1 DEF IInv, Frame
<1>8. QueueOK'
  <2>1. /\ queue' \in Seq(Files) /\ Len(queue') = Len(queue) - 1
        /\ \A i \in 1..Len(queue') : queue'[i] = queue[i + 1]
    BY <1>1, <1>2
  <2>2. \A i \in 1..Len(queue') : i + 1 \in 1..Len(queue) /\ i + 1 # 1
    BY <1>2, <2>1
  <2>3. Len(queue') <= QueueLength
    BY <1>2, <2>1, HostAssumption DEF IInv, QueueOK
  <2>4. \A i \in 1..Len(queue') : queue[i + 1] # f /\ queue[i + 1] \in Files
    BY <1>2, <2>2 DEF IInv, QueueOK
  <2>5. \A i \in 1..Len(queue') : job'[queue'[i]].pc = "queued"
    BY <1>3, <2>1, <2>2, <2>4 DEF IInv, QueueOK
  <2>6. \A i, k \in 1..Len(queue') : queue'[i] = queue'[k] => i = k
    <3>1. TAKE i, k \in 1..Len(queue')
    <3>2. HAVE queue'[i] = queue'[k]
    <3>3. i + 1 = k + 1
      BY <2>1, <2>2, <3>2 DEF IInv, QueueOK
    <3> QED BY <3>3
  <2> QED BY <2>1, <2>3, <2>5, <2>6 DEF QueueOK
<1>9. MutexOK'
  BY <1>1, <1>2, <1>3, <1>5 DEF IInv, MutexOK
<1>10. BusyOK'
  <2> HIDE DEF f, j
  <2>1. Busy' = Busy \cup {f} /\ f \notin Busy
    BY <1>2, <1>3, <1>5 DEF Busy, At
  <2>2. Cardinality(Busy') = Cardinality(Busy) + 1 /\ Cardinality(Busy) \in Nat
    BY <2>1, BusyFinite, FS_AddElement, FS_CardinalityType
  <2> QED BY <1>1, <2>2, HostAssumption DEF BusyOK
<1> QED BY <1>1, <1>2, <1>3, <1>5, <1>6, <1>7, <1>8, <1>9, <1>10, JobOnly

\* Only hosts that do not hold the file are started.
LEMMA SelectedMoves ==
  ASSUME IInv, NEW f \in Files, UploadSelected(f)
  PROVE  IInv'
<1> DEFINE j == [job[f] EXCEPT !.pc = "uploading"]
           at(h) == IF h \in job[f].try \ disabled[f] THEN "wait" ELSE "off"
           ups == [h \in Hosts |-> [NoUpload EXCEPT !.at = at(h)]]
<1>1. /\ job[f].pc = "taken" /\ job' = [job EXCEPT ![f] = j] /\ up' = [up EXCEPT ![f] = ups]
      /\ UNCHANGED <<kind, queue, mu, stopped, disabled, holds, acked, links, disk>>
  BY DEF UploadSelected, Goto, manager, record
<1>2. j \in JobType /\ j.pc = "uploading" /\ j.results = job[f].results /\ j.try = job[f].try
  BY Before DEF JobType, JobPCs
<1>3. \A h \in Hosts : ups[h] \in UploadType /\ UploadOK(ups[h]) /\ ups[h].at = at(h)
  <2>1. \A h \in Hosts : at(h) \in {"off", "wait", "try", "link", "bare", "error"}
    OBVIOUS
  <2> HIDE DEF at
  <2> QED BY <2>1, EndedUpload
<1>4. ups \in [Hosts -> UploadType]
  BY <1>3
<1>5. \A h \in Hosts : /\ up[f][h].at = "off" /\ ups[h].at # "link"
                       /\ ups[h].at # "off" => h \in job[f].try /\ job[f].results[h] # "link"
  BY <1>1, <1>3, Before DEF FileOK
<1>6. FileOK(j, ups, acked[f], links[f])
  <2> HIDE DEF ups
  <2> QED BY <1>1, <1>2, <1>5, Before DEF FileOK
<1>7. links' = [links EXCEPT ![f] = links[f]] /\ Frame'
  BY <1>1 DEF IInv, Frame
<1>8. QueueOK' /\ MutexOK' /\ BusyOK'
  BY <1>1, <1>2, ManagerStays
<1> QED BY <1>1, <1>2, <1>3, <1>4, <1>6, <1>7, <1>8, Before, JobMoves

LEMMA BackoffMoves ==
  ASSUME IInv, NEW f \in Files, Backoff(f)
  PROVE  IInv'
<1>1. /\ job[f].pc = "backoff"
      /\ UNCHANGED <<kind, queue, mu, stopped, up, disabled, holds, acked, links, disk>>
  BY DEF Backoff, manager, record
<1>2. CASE Refused(f)
  BY <1>1, <1>2, RefusedMoves
<1>3. CASE Goto(f, "resend")
  <2> DEFINE j == [job[f] EXCEPT !.pc = "resend"]
  <2>1. job' = [job EXCEPT ![f] = j]
    BY <1>3 DEF Goto
  <2>2. j \in JobType /\ j.pc = "resend" /\ j.attempt = job[f].attempt
        /\ j.results = job[f].results /\ j.try = job[f].try
    BY Before DEF JobType, JobPCs
  <2>3. FileOK(j, up[f], acked[f], links[f])
    BY <1>1, <2>2, Before DEF FileOK
  <2>4. Frame'
    BY <1>1 DEF IInv, Frame
  <2>5. QueueOK' /\ MutexOK' /\ BusyOK'
    BY <1>1, <2>1, <2>2, ManagerStays
  <2> QED BY <1>1, <2>1, <2>2, <2>3, <2>4, <2>5, JobOnly
<1> QED BY <1>2, <1>3 DEF Backoff

\* A link of an earlier attempt is kept, and its host is not tried again.
LEMMA ExecuteMoves ==
  ASSUME IInv, NEW f \in Files, ExecuteJob(f)
  PROVE  IInv'
<1> DEFINE pc == IF Pending(f) # {} /\ MayRetry(f) THEN "backoff" ELSE "answered"
           j == [job[f] EXCEPT !.results = Results(f), !.try = Pending(f), !.err = Pending(f) # {},
                               !.pc = pc]
           ups == [h \in Hosts |-> NoUpload]
<1>1. /\ job[f].pc = "uploading" /\ Ended(f) /\ up' = [up EXCEPT ![f] = ups]
      /\ job' = [job EXCEPT ![f] = j]
      /\ UNCHANGED <<kind, queue, mu, stopped, disabled, holds, acked, links, disk>>
  BY DEF ExecuteJob, manager
<1>2. \A h \in Hosts : up[f][h].at \in {"off", "link", "bare", "error"}
  BY <1>1 DEF Ended
<1>3. Results(f) = [h \in Hosts |-> IF up[f][h].at = "off" THEN job[f].results[h] ELSE up[f][h].at]
  BY <1>2 DEF Results, Attempted
<1>4. Results(f) \in [Hosts -> Outcomes]
  BY <1>2, <1>3, Before DEF JobType, Outcomes
<1>5. Pending(f) \subseteq Hosts /\ \A h \in Pending(f) : Results(f)[h] = "error"
  <2>1. \A h \in Hosts : Attempted(f)[h] = "error" => Results(f)[h] = "error"
    BY DEF Results, Attempted
  <2> QED BY <2>1 DEF Pending, FailedHostNames, With
<1>6. \A h \in Hosts : h \in acked[f] <=> Results(f)[h] = "link"
  BY <1>1, <1>2, <1>3, Before DEF FileOK
<1>7. pc \in JobPCs \cap {"backoff", "answered"} /\ (pc = "backoff" => job[f].attempt < MaxAttempts)
  BY DEF JobPCs, MayRetry
<1> HIDE DEF pc
<1>8. /\ j \in JobType /\ j.pc = pc /\ j.attempt = job[f].attempt
      /\ j.results = Results(f) /\ j.try = Pending(f)
  <2>1. (Pending(f) # {}) \in BOOLEAN
    OBVIOUS
  <2> QED BY <1>4, <1>5, <1>7, <2>1, Before DEF JobType
<1>9. \A h \in Hosts : ups[h] \in UploadType /\ UploadOK(ups[h]) /\ ups[h].at = "off"
  <2>1. NoUpload = [NoUpload EXCEPT !.at = "off"]
    BY DEF NoUpload
  <2> QED BY <2>1, EndedUpload
<1>10. ups \in [Hosts -> UploadType]
  BY <1>9
<1>11. FileOK(j, ups, acked[f], links[f])
  <2> HIDE DEF j, ups
  <2>1. \A h \in Hosts : links[f][h] = "url" => h \in acked[f]
    BY Before DEF FileOK
  <2>2. \A h \in Pending(f) : Results(f)[h] # "link"
    BY <1>5
  <2> QED BY <1>6, <1>7, <1>8, <1>9, <2>1, <2>2 DEF FileOK
<1>12. links' = [links EXCEPT ![f] = links[f]] /\ Frame'
  BY <1>1 DEF IInv, Frame
<1>13. QueueOK' /\ MutexOK' /\ BusyOK'
  BY <1>1, <1>7, <1>8, ManagerStays
<1> QED BY <1>1, <1>8, <1>9, <1>10, <1>11, <1>12, <1>13, Before, JobMoves

\* A job that fails has no link, and so no host has answered.
LEMMA ConcludeMoves ==
  ASSUME IInv, NEW f \in Files, Conclude(f)
  PROVE  IInv'
<1> DEFINE pc == IF Saves(f) THEN "done" ELSE "failed"
           j == [NoJob EXCEPT !.pc = pc]
           L == [h \in Hosts |-> IF h \in Linked(f) THEN "url" ELSE links[f][h]]
<1>1. /\ job[f].pc = "answered" /\ job' = [job EXCEPT ![f] = j]
      /\ disabled' = [disabled EXCEPT ![f] = {}] /\ links' = [links EXCEPT ![f] = L]
      /\ disk' \subseteq disk /\ UNCHANGED <<kind, queue, mu, stopped, up, holds, acked>>
  BY DEF Conclude, manager, IInv
<1>2. pc \in JobPCs \cap {"done", "failed"} /\ (pc = "failed" => Linked(f) = {})
  BY DEF JobPCs, Saves
<1> HIDE DEF pc
<1>3. Linked(f) = acked[f] /\ \A h \in Hosts : links[f][h] = "url" => h \in Linked(f)
  <2>1. acked[f] \subseteq Hosts /\ FileOK(job[f], up[f], acked[f], links[f])
    BY Before
  <2>2. \A h \in Hosts : h \in Linked(f) <=> links[f][h] = "url" \/ job[f].results[h] = "link"
    BY DEF Linked, HasLink, With
  <2>3. Linked(f) \subseteq Hosts
    BY DEF Linked, HasLink, With
  <2>4. \A h \in Hosts : h \in Linked(f) <=> h \in acked[f]
    BY <1>1, <2>1, <2>2 DEF FileOK
  <2> QED BY <2>1, <2>2, <2>3, <2>4
<1>4. j \in JobType /\ j.pc = pc /\ j.attempt = 0 /\ j.results = Blank
  BY <1>2, NoJobIsOK DEF JobType
<1>5. \A h \in Hosts : up[f][h].at = "off"
  BY <1>1, Before DEF FileOK
<1>6. L \in [Hosts -> Rows] /\ \A h \in Hosts : L[h] = "url" <=> h \in acked[f]
  BY <1>3, Before DEF Rows
<1>7. FileOK(j, up[f], acked[f], L)
  <2> HIDE DEF j, L
  <2>1. \A h \in Hosts : Blank[h] = "none"
    BY DEF Blank
  <2>2. acked[f] \subseteq Hosts
    BY Before
  <2> QED BY <1>2, <1>3, <1>4, <1>5, <1>6, <2>1, <2>2 DEF FileOK
<1>8. up' = [up EXCEPT ![f] = up[f]] /\ Frame'
  BY <1>1 DEF IInv, Frame
<1>9. QueueOK' /\ MutexOK' /\ BusyOK'
  BY <1>1, <1>2, <1>4, ManagerStays
<1> QED BY <1>1, <1>4, <1>6, <1>7, <1>8, <1>9, Before, JobMoves

LEMMA AgainMoves ==
  ASSUME IInv, NEW f \in Files, Again(f)
  PROVE  IInv'
<1> DEFINE j == [job[f] EXCEPT !.pc = "new"]
<1>1. /\ job[f].pc = "failed" /\ job' = [job EXCEPT ![f] = j]
      /\ UNCHANGED <<kind, queue, mu, stopped, up, disabled, holds, acked, links, disk>>
  BY DEF Again, Goto, manager
<1>2. j \in JobType /\ j.pc = "new" /\ j.attempt = job[f].attempt /\ j.results = job[f].results
  BY Before DEF JobType, JobPCs
<1>3. FileOK(j, up[f], acked[f], links[f])
  BY <1>1, <1>2, HostAssumption, Before DEF FileOK
<1>4. Frame'
  BY <1>1 DEF IInv, Frame
<1>5. QueueOK' /\ MutexOK' /\ BusyOK'
  BY <1>1, <1>2, ManagerStays
<1> QED BY <1>1, <1>2, <1>3, <1>4, <1>5, JobOnly

-----------------------------------------------------------------------------
LEMMA Start == Init => IInv
<1> SUFFICES ASSUME Init PROVE IInv
  OBVIOUS
<1>1. Frame
  BY HostAssumption DEF Init, Frame
<1>2. NoUpload \in UploadType /\ UploadOK(NoUpload) /\ NoUpload.at = "off"
  <2>1. NoUpload = [NoUpload EXCEPT !.at = "off"]
    BY DEF NoUpload
  <2> QED BY <2>1, EndedUpload
<1>3. QueueOK /\ MutexOK
  BY NoJobIsOK, HostAssumption DEF Init, QueueOK, MutexOK
<1>4. BusyOK
  <2>1. Busy = {}
    BY NoJobIsOK DEF Init, Busy, At
  <2> QED BY <2>1, FS_EmptySet, HostAssumption DEF BusyOK
<1>5. \A f \in Files : FileOK(job[f], up[f], acked[f], links[f])
  <2>1. \A h \in Hosts : Blank[h] = "none"
    BY DEF Blank
  <2> QED BY NoJobIsOK, <1>2, <2>1, HostAssumption DEF Init, FileOK
<1>6. Blank \in [Hosts -> Rows]
  BY DEF Blank, Rows
<1> QED BY <1>1, NoJobIsOK, <1>2, <1>3, <1>4, <1>5, <1>6 DEF Init, IInv

LEMMA NextStep == IInv /\ [Next]_vars => IInv'
<1> SUFFICES ASSUME IInv, [Next]_vars PROVE IInv'
  OBVIOUS
<1>1. CASE Take
  BY <1>1, TakeMoves
<1>2. ASSUME NEW f \in Files, FileStep(f) PROVE IInv'
  BY <1>2, BeginMoves, EnqueueMoves, SendMoves, SelectedMoves, BackoffMoves, ExecuteMoves,
     ConcludeMoves, AgainMoves DEF FileStep
<1>3. ASSUME NEW f \in Files, NEW h \in Hosts, HostStep(f, h) PROVE IInv'
  BY <1>3, HostStepMoves
<1>4. CASE Stop \/ UNCHANGED vars
  <2>1. UNCHANGED <<kind, queue, mu, job, up, disabled, holds, acked, links, disk>>
        /\ stopped' \in {stopped, TRUE}
    BY <1>4 DEF Stop, vars, record
  <2>2. Frame' /\ QueueOK' /\ MutexOK' /\ BusyOK'
    BY <2>1 DEF IInv, Frame, QueueOK, MutexOK, BusyOK, Busy, At
  <2> QED BY <2>1, <2>2 DEF IInv
<1> QED BY <1>1, <1>2, <1>3, <1>4 DEF Next, Work

LEMMA Always == Spec => []IInv
  BY Start, NextStep, PTL DEF Spec

\* Types; and the manager's mutex is held exactly by the job whose send blocks,
\* what is queued waits for a worker, and no job has more attempts than it may.
THEOREM HostTyped == Spec => []TypeOK
<1>1. IInv => TypeOK
  <2> SUFFICES ASSUME IInv PROVE TypeOK
    OBVIOUS
  <2>1. kind \in [Hosts -> KindNames] /\ stopped \in BOOLEAN /\ disk \subseteq Files
    BY DEF IInv, Frame
  <2>2. /\ Len(queue) <= QueueLength /\ Cardinality(Busy) <= Workers
        /\ \A i \in DOMAIN queue : queue[i] \in At({"queued"})
    BY DEF IInv, QueueOK, BusyOK, At
  <2>3. mu \in Files \cup {"none"} /\ At({"sending"}) = {mu} \ {"none"}
    BY HostAssumption DEF IInv, MutexOK, At
  <2>4. \A f \in Files :
          /\ job[f].attempt \in 0..MaxAttempts
          /\ job[f].try \subseteq Hosts /\ disabled[f] \subseteq Hosts
          /\ acked[f] \subseteq Hosts /\ holds[f] \subseteq Hosts
          /\ links[f] \in [Hosts -> {"none", "url", "empty"}]
          /\ \A h \in Hosts : up[f][h].n \in 0..HostAttempts
    BY Before DEF IInv, Frame, JobType, UploadType, Rows
  <2> QED BY <2>1, <2>2, <2>3, <2>4 DEF TypeOK
<1> QED BY <1>1, Always, PTL

\* A link with a URL that the callback, stageSaveMetadata or
\* saveOrphanMetadataAndCleanup save is a whole copy, and a recording that is
\* saved has every link any host answered with: AnonMP4 asks for a link only when
\* every batch of chunks was taken, and the results of an earlier attempt outlast
\* a later one.
THEOREM LinksTrue == Spec => []LinksAreCopies
<1>1. IInv => LinksAreCopies
  <2> SUFFICES ASSUME IInv, NEW f \in Files
               PROVE  /\ HasLink(f) \subseteq holds[f]
                      /\ job[f].pc = "done" => acked[f] \subseteq HasLink(f)
    BY DEF LinksAreCopies
  <2>1. acked[f] \subseteq holds[f] /\ holds[f] \subseteq Hosts
        /\ FileOK(job[f], up[f], acked[f], links[f])
    BY Before
  <2> QED BY <2>1 DEF FileOK, HasLink, With
<1> QED BY <1>1, Always, PTL

\* A host that answered with its link is not sent the file again:
\* GetFailedHostNames and the journal leave it out of what executeJob and a retry
\* of the file try.
THEOREM SentOnce == Spec => NoSecondCopy
<1>1. ASSUME IInv, IInv', [Next]_vars
      PROVE  [\A f \in Files : \A h \in acked[f] : NotSentAgain(f, h)]_vars
  <2>1. \A f \in Files : acked[f] \subseteq acked'[f]
    <3>1. ASSUME NEW f \in Files, NEW h \in Hosts, HostStep(f, h)
          PROVE  acked' = acked \/ acked' = [acked EXCEPT ![f] = @ \cup {h}]
      BY <3>1 DEF HostStep, AcquireHostSem, UploadWithProgress, GoFile, Mixdrop, VoeSX, Vidara,
         Streamtape, Loop, Uploaded, RateLimited, FailsOrTriesAgain, TryAgain, Failed, FailsUnsent,
         Ends, record, AssignUploadNode, Batch, AnonMP4Fails, UploadChunk, UploadChunked, FetchVideoNode
    <3>2. ASSUME NEW f \in Files, FileStep(f)
          PROVE  acked' = acked
      BY <3>2 DEF FileStep, Begin, Enqueue, Send, UploadSelected, Backoff, ExecuteJob,
         Conclude, Again, record
    <3>3. Take \/ Stop \/ UNCHANGED vars => acked' = acked
      BY DEF Take, Stop, vars, record
    <3>4. ASSUME NEW f \in Files, NEW h \in Hosts, acked' = [acked EXCEPT ![f] = @ \cup {h}]
          PROVE  \A g \in Files : acked[g] \subseteq acked'[g]
      BY <1>1, <3>4 DEF IInv
    <3>5. \/ acked' = acked
          \/ \E f \in Files : \E h \in Hosts : acked' = [acked EXCEPT ![f] = @ \cup {h}]
      BY <1>1, <3>1, <3>2, <3>3 DEF Next, Work
    <3> QED BY <3>4, <3>5
  <2>2. \A f \in Files : \A h \in acked[f] : up'[f][h].at # "try"
    <3>1. ASSUME NEW f \in Files, NEW h \in acked[f] PROVE up'[f][h].at # "try"
      <4>1. h \in acked'[f]
        BY <2>1
      <4>2. FileOK(job'[f], up'[f], acked'[f], links'[f]) /\ h \in Hosts
        BY <1>1, <4>1 DEF IInv
      <4> QED BY <4>1, <4>2 DEF FileOK
    <3> QED BY <3>1
  <2> QED BY <2>2 DEF NotSentAgain
<1> QED BY <1>1, Always, PTL DEF Spec, NoSecondCopy
===============================================================================
