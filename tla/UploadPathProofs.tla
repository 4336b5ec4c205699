--------------------------- MODULE UploadPathProofs ---------------------------
(* Theorems about UploadPath, for any hosts, slots, retries, faults, crashes   *)
(* and stops.  The argument: what an uploader says it sent was taken by a host *)
(* or ended without a link, and copies, such ends, rows and links are never    *)
(* taken back, so whatever is true of one uploader and them stays true however *)
(* the others move.                                                            *)
EXTENDS UploadPath, FiniteSetTheorems, TLAPS

PipelinePCs == {"free", "queued", "upload", "attempt", "journal", "thumb", "save", "cleanup",
                "forget", "finish", "waiting"}
OrphanPCs == {"free", "event", "gone", "judge", "look", "claim", "giveup", "attempt", "journal",
              "recover", "regenerate", "save", "remove", "forget", "return", "unlink"}
Stages == {"upload", "save", "cleanup", "done"}

UploaderType ==
    [pc : PipelinePCs \cup OrphanPCs, try : SUBSET Hosts, good : SUBSET Hosts, bare : SUBSET Hosts,
     left : 0..MaxAttempts, stage : Stages, retries : 0..MaxRetries, links : SUBSET Hosts,
     thumb : BOOLEAN, retried : BOOLEAN]
StateType == [stage : Stages \cup {"none"}, retries : 0..MaxRetries, links : SUBSET Hosts,
              thumb : BOOLEAN]

\* What an uploader has sent is at the hosts, h, or ended without a link at one of
\* m, the hosts it does not try are among them, and no attempt without one left.
Sent(q, h, m) ==
    /\ q.good \cup q.bare \subseteq q.try /\ q.good \subseteq h /\ q.bare \subseteq m
    /\ q.links \subseteq h
    /\ q.pc \in {"attempt", "journal"} => Hosts \ q.try \subseteq h \cup m
    /\ q.pc = "attempt" => q.left > 0 /\ q.bare = {}

\* Past its save a pipeline has links and the row, r, has them, l, too.
PipelineOK(q, r, l) ==
    /\ q.pc \in PipelinePCs
    /\ q.pc \in {"upload", "attempt", "journal", "thumb"} => q.stage = "upload"
    /\ q.pc \in {"cleanup", "forget"} \/ q.stage \in {"cleanup", "done"} => q.links # {}
    /\ q.stage \in {"cleanup", "done"} => r /\ q.links \subseteq l
    /\ q.pc = "cleanup" => q.stage = "cleanup"
    /\ q.pc = "waiting" => q.retried

\* An orphan upload that saves, removes or tells its caller that the file is dealt
\* with can account for it, a.
OrphanOK(q, a) ==
    /\ q.pc \in OrphanPCs
    /\ q.pc \in {"regenerate", "save", "remove", "forget", "return", "unlink"} => a

UploaderOK(u, q, h, m, r, l, a) ==
    Sent(q, h, m) /\ IF u \in Slots THEN PipelineOK(q, r, l) ELSE OrphanOK(q, a)

\* The hosts with a row in upload_links.
Rows == With(links, {"url", "empty"})

SavedOK ==
    /\ saved \in StateType /\ saved.links \subseteq hosted
    /\ saved.stage = "none" => saved = NoState
    /\ saved.stage \in {"cleanup", "done"} => saved.links # {} /\ row /\ saved.links \subseteq Rows

Entries == [Hosts -> {"none", "url", "empty"}]
Copies ==
    /\ hosted \subseteq Hosts /\ limited \subseteq Hosts /\ links \in Entries /\ journal \in Entries
    /\ With(links, {"url"}) \subseteq hosted
    /\ With(journal, {"url"}) \subseteq hosted /\ With(journal, {"empty"}) \subseteq limited
    /\ ~disk => Accounted
Flags == disk \in BOOLEAN /\ row \in BOOLEAN /\ preview \in BOOLEAN /\ marker \in BOOLEAN

EnqOK ==
    /\ enq \in [pc : {"none", "deliver", "add", "basics", "state"}, slot : Slots \cup {"none"}]
    /\ enq.pc \in {"basics", "state"} => enq.slot \in Slots

\* Whose token UploadWg holds, and who removes the marker.
HasToken(q) == ~q.retried /\ q.pc \notin {"free", "waiting"}
Tokens == {s \in Slots : HasToken(up[s])}
Owns(u, q) ==
    q.pc \notin IF u \in Slots THEN {"free", "waiting"}
                ELSE {"free", "event", "judge", "look", "claim", "unlink", "gone"}
Owned == enq.pc \in {"deliver", "add"} \/ \E u \in Uploaders : Owns(u, up[u])

IInv ==
    /\ Flags /\ Copies /\ SavedOK /\ EnqOK
    /\ up \in [Uploaders -> UploaderType] /\ \A u \in Uploaders : UploaderOK(u, up[u], hosted, limited, row, Rows, Accounted)
    /\ wg = Cardinality(Tokens)
    /\ marker => Owned

\* Nothing is taken back.
Grows ==
    /\ hosted \subseteq hosted' /\ limited \subseteq limited' /\ Rows \subseteq Rows'
    /\ (row => row') /\ (Accounted => Accounted')

-----------------------------------------------------------------------------
LEMMA SlotsApart == Slots \cap Orphans = {} /\ "none" \notin Slots
  BY UploadAssumption

LEMMA SavedOutlasts ==
  ASSUME Grows, SavedOK, UNCHANGED saved
  PROVE  SavedOK'
  BY DEF Grows, SavedOK, StateType

LEMMA Outlasts ==
  ASSUME Grows, NEW u, NEW q, UploaderOK(u, q, hosted, limited, row, Rows, Accounted)
  PROVE  UploaderOK(u, q, hosted', limited', row', Rows', Accounted')
  BY DEF Grows, UploaderOK, Sent, PipelineOK, OrphanOK

\* Most steps leave the copies and what is known of them alone.
LEMMA Same ==
  ASSUME UNCHANGED <<hosted, limited, row, links>>
  PROVE  Grows
  BY DEF Grows, Rows, Accounted

LEMMA NothingDone == None \in Entries /\ With(None, {"url"}) = {} /\ With(None, {"empty"}) = {}
  BY DEF None, Entries, With

\* Only a file that is accounted for goes.
LEMMA KeepsCopies ==
  ASSUME Copies, Grows, UNCHANGED <<hosted, limited, links>>, journal' \in {journal, None},
         disk' = disk \/ Accounted
  PROVE  Copies'
  BY NothingDone DEF Copies, Grows

\* Hosts that all took the file or ended without a link account for it.
LEMMA AllAccounted ==
  ASSUME Copies, Hosts \subseteq hosted \cup limited
  PROVE  Accounted
  BY UploadAssumption DEF Copies, Accounted

LEMMA CopyAccounts == hosted # {} => Accounted
  BY DEF Accounted

\* So does a journal of which every entry is a success.
LEMMA JournalAccounts ==
  ASSUME Copies, FullyJournaled
  PROVE  Accounted
<1>1. Hosts \subseteq With(journal, {"url"}) \cup With(journal, {"empty"})
  BY DEF FullyJournaled, LoadCompletedHosts, With
<1> QED BY <1>1, AllAccounted DEF Copies

\* The hosts an attempt leaves out are done.
LEMMA Untried ==
  ASSUME Copies, NEW hosts \in {Hosts, Hosts \ LoadCompletedHosts}
  PROVE  hosts \subseteq Hosts /\ Hosts \ hosts \subseteq hosted \cup limited
<1>1. LoadCompletedHosts \subseteq With(journal, {"url"}) \cup With(journal, {"empty"})
  BY DEF LoadCompletedHosts, With
<1> QED BY <1>1 DEF Copies

LEMMA PipelineStays ==
  ASSUME Grows, NEW s \in Slots, NEW q, Sent(q, hosted, limited), PipelineOK(q, row, Rows)
  PROVE  UploaderOK(s, q, hosted', limited', row', Rows', Accounted')
  BY Outlasts DEF UploaderOK

LEMMA OrphanStays ==
  ASSUME Grows, NEW o \in Orphans, NEW q, Sent(q, hosted, limited), OrphanOK(q, Accounted)
  PROVE  UploaderOK(o, q, hosted', limited', row', Rows', Accounted')
  BY Outlasts, SlotsApart DEF UploaderOK

LEMMA FirstAttempt == MaxAttempts \in 0..MaxAttempts /\ MaxAttempts > 0
  BY UploadAssumption

LEMMA FreeIsOK ==
  /\ Free \in UploaderType /\ Free.pc = "free" /\ ~Free.retried
  /\ \A h, m, r, l : Sent(Free, h, m) /\ PipelineOK(Free, r, l)
  BY UploadAssumption DEF Free, UploaderType, PipelinePCs, Stages, Sent, PipelineOK

LEMMA TokensFinite == IsFiniteSet(Tokens)
  BY UploadAssumption, FS_Subset DEF Tokens

\* A pipeline's state is fit to be saved, and to be taken up again.
LEMMA StateOK ==
  ASSUME NEW q \in UploaderType, Grows, Sent(q, hosted, limited), PipelineOK(q, row, Rows),
         saved' = ToState(q)
  PROVE  SavedOK'
  BY DEF Grows, SavedOK, StateType, UploaderType, ToState, Sent, PipelineOK, Stages

LEMMA NoStateOK ==
  ASSUME saved' = NoState
  PROVE  SavedOK'
  BY UploadAssumption DEF SavedOK, StateType, NoState

(* One uploader moves; the rest is given.                                      *)
LEMMA Advance ==
  ASSUME IInv, NEW u \in Uploaders, NEW q \in UploaderType, Step(u, q), Grows,
         UploaderOK(u, q, hosted', limited', row', Rows', Accounted'), Flags', Copies', SavedOK', EnqOK',
         wg' = Cardinality(Tokens'), marker' => Owned'
  PROVE  IInv'
<1>1. /\ up \in [Uploaders -> UploaderType] /\ up' \in [Uploaders -> UploaderType]
      /\ \A v \in Uploaders : up'[v] = IF v = u THEN q ELSE up[v]
  BY DEF Step, IInv
<1>2. \A v \in Uploaders : UploaderOK(v, up'[v], hosted', limited', row', Rows', Accounted')
  BY <1>1, Outlasts DEF IInv
<1> QED BY <1>1, <1>2 DEF IInv

(* As long as its token and its marker are not concerned.                      *)
LEMMA Quiet ==
  ASSUME IInv, NEW u \in Uploaders, NEW q \in UploaderType, Step(u, q), Grows,
         UploaderOK(u, q, hosted', limited', row', Rows', Accounted'), Flags', Copies',
         UNCHANGED <<saved, marker, wg, enq>>,
         u \in Slots => (HasToken(q) <=> HasToken(up[u])), Owns(u, q) <=> Owns(u, up[u])
  PROVE  IInv'
<1>1. \A v \in Uploaders : up'[v] = IF v = u THEN q ELSE up[v]
  BY DEF Step, IInv
<1>2. Tokens' = Tokens
  BY <1>1 DEF Tokens, Uploaders
<1>3. Owned' <=> Owned
  BY <1>1 DEF Owned
<1>4. SavedOK' /\ EnqOK'
  BY SavedOutlasts DEF IInv, EnqOK
<1> QED BY <1>2, <1>3, <1>4, Advance DEF IInv

-----------------------------------------------------------------------------
(* The steps of a pipeline.                                                    *)

\* What is known of an uploader before its step.
LEMMA Before ==
  ASSUME IInv, NEW u \in Uploaders
  PROVE  /\ up[u] \in UploaderType /\ Sent(up[u], hosted, limited)
         /\ u \in Slots => PipelineOK(up[u], row, Rows)
         /\ u \in Orphans => u \notin Slots /\ OrphanOK(up[u], Accounted)
  BY SlotsApart DEF IInv, UploaderOK

\* A pipeline that is at work stays at work.
LEMMA PipelineWorks ==
  ASSUME IInv, NEW s \in Slots, NEW q \in UploaderType, Step(s, q), q.retried = up[s].retried,
         up[s].pc \notin {"free", "waiting"}, q.pc \notin {"free", "waiting"},
         Grows, Sent(q, hosted, limited), PipelineOK(q, row, Rows) \/ PipelineOK(q, row', Rows'),
         Flags', Copies', UNCHANGED <<saved, marker, wg, enq>>
  PROVE  IInv'
<1>1. HasToken(q) <=> HasToken(up[s])
  BY DEF HasToken
<1>2. Owns(s, q) <=> Owns(s, up[s])
  BY DEF Owns
<1>3. s \in Uploaders /\ Sent(q, hosted', limited') /\ PipelineOK(q, row', Rows')
  BY DEF Grows, Sent, PipelineOK, Uploaders
<1> QED BY <1>1, <1>2, <1>3, Quiet DEF UploaderOK

LEMMA TakeStep ==
  ASSUME IInv, NEW s \in Slots, Take(s)
  PROVE  IInv'
<1> DEFINE q == [up[s] EXCEPT !.pc = IF up[s].stage = "done" THEN "finish" ELSE up[s].stage]
<1>1. /\ s \in Uploaders /\ Step(s, q) /\ up[s].pc = "queued"
      /\ UNCHANGED <<disk, hosted, limited, row, links, preview, journal, saved, queue, wg, enq, marker>>
  BY DEF Take, Goto, record, answers, channel, Uploaders
<1>2. q \in UploaderType /\ Sent(q, hosted, limited) /\ PipelineOK(q, row, Rows)
  BY <1>1, Before DEF UploaderType, Sent, PipelineOK, PipelinePCs, Stages
<1>3. q.retried = up[s].retried /\ q.pc \notin {"free", "waiting"}
  BY <1>1, Before DEF UploaderType, Stages
<1>4. Grows /\ Flags' /\ Copies'
  BY <1>1, Same, KeepsCopies DEF IInv, Flags
<1> QED BY <1>1, <1>2, <1>3, <1>4, PipelineWorks

LEMMA UploadVideosStep ==
  ASSUME IInv, NEW s \in Slots, StageUploadVideos(s)
  PROVE  IInv'
<1>1. /\ s \in Uploaders /\ up[s].pc = "upload"
      /\ UNCHANGED <<disk, hosted, limited, row, links, preview, saved, queue, wg, enq, marker>>
  BY DEF StageUploadVideos, record, answers, channel, Uploaders
<1>2. Grows /\ Flags' /\ Copies'
  <2>1. journal' \in {journal, None}
    BY DEF StageUploadVideos
  <2> QED BY <1>1, <2>1, Same, KeepsCopies DEF IInv, Flags
<1>3. CASE \E pc \in {"finish", "thumb"} : Goto(s, pc)
  <2>1. PICK pc \in {"finish", "thumb"} : Goto(s, pc)
    BY <1>3
  <2> DEFINE q == [up[s] EXCEPT !.pc = pc]
  <2>2. q \in UploaderType /\ Sent(q, hosted, limited) /\ PipelineOK(q, row, Rows)
    BY <1>1, <2>1, Before DEF UploaderType, Sent, PipelineOK, PipelinePCs, Stages
  <2>3. q.retried = up[s].retried /\ q.pc \notin {"free", "waiting"} /\ Step(s, q)
    BY <1>1, <2>1, Before DEF UploaderType, Goto
  <2> QED BY <1>1, <1>2, <2>2, <2>3, PipelineWorks
<1>4. CASE \E hosts \in {Hosts, Hosts \ LoadCompletedHosts} : TryHosts(s, hosts)
  <2>1. PICK hosts \in SUBSET Hosts : TryHosts(s, hosts) /\ Hosts \ hosts \subseteq hosted \cup limited
    BY <1>4, Untried DEF IInv
  <2> DEFINE q == [up[s] EXCEPT !.pc = "attempt", !.try = hosts, !.good = {}, !.bare = {}, !.left = MaxAttempts]
  <2>2. q \in UploaderType /\ Sent(q, hosted, limited) /\ PipelineOK(q, row, Rows)
    BY <1>1, <2>1, Before, FirstAttempt DEF UploaderType, Sent, PipelineOK, PipelinePCs, Stages
  <2>3. q.retried = up[s].retried /\ q.pc \notin {"free", "waiting"} /\ Step(s, q)
    BY <1>1, <2>1, Before DEF UploaderType, TryHosts
  <2> QED BY <1>1, <1>2, <2>2, <2>3, PipelineWorks
<1> QED BY <1>3, <1>4 DEF StageUploadVideos

LEMMA ThumbnailStep ==
  ASSUME IInv, NEW s \in Slots, StageThumbnail(s)
  PROVE  IInv'
<1>1. PICK ok \in BOOLEAN :
        /\ preview' = (preview \/ ok)
        /\ Step(s, [up[s] EXCEPT !.thumb = ok, !.pc = IF disk THEN "save" ELSE "finish",
                                 !.stage = IF disk THEN "save" ELSE @])
  BY DEF StageThumbnail
<1> DEFINE q == [up[s] EXCEPT !.thumb = ok, !.pc = IF disk THEN "save" ELSE "finish",
                              !.stage = IF disk THEN "save" ELSE @]
<1>2. /\ s \in Uploaders /\ up[s].pc = "thumb"
      /\ UNCHANGED <<disk, hosted, limited, row, links, journal, saved, queue, wg, enq, marker>>
  BY DEF StageThumbnail, answers, channel, Uploaders
<1>3. q \in UploaderType /\ Sent(q, hosted, limited) /\ PipelineOK(q, row, Rows)
  BY <1>2, Before DEF UploaderType, Sent, PipelineOK, PipelinePCs, Stages
<1>4. q.retried = up[s].retried /\ q.pc \notin {"free", "waiting"} /\ Step(s, q)
  BY <1>1, <1>2, Before DEF UploaderType
<1>5. Grows /\ Flags' /\ Copies'
  BY <1>1, <1>2, Same, KeepsCopies DEF IInv, Flags
<1> QED BY <1>2, <1>3, <1>4, <1>5, PipelineWorks

\* Links to copies are saved, over rows without a URL, too.
LEMMA Saved ==
  ASSUME Copies, NEW new \in SUBSET hosted, links' \in {links, Put(links, new, "url")},
         row => row', journal' \in {journal, None}, UNCHANGED <<disk, hosted, limited>>
  PROVE  Grows /\ Copies'
<1>1. CASE links' = links
  <2>1. Grows
    BY <1>1 DEF Grows, Rows, Accounted
  <2> QED BY <1>1, <2>1, KeepsCopies
<1>2. CASE links' = Put(links, new, "url")
  <2>1. links' \in Entries /\ With(links, {"url"})' \subseteq hosted
    BY <1>2 DEF Copies, Entries, Put, With
  <2>2. Rows \subseteq Rows'
    BY <1>2 DEF Copies, Rows, Put, With
  <2>3. With(links, {"empty"}) \subseteq With(links, {"empty"})' \cup hosted
    BY <1>2 DEF Put, With
  <2>4. Accounted => Accounted'
    BY <2>3 DEF Accounted
  <2>5. With(journal, {"url"})' \subseteq hosted /\ With(journal, {"empty"})' \subseteq limited /\ journal' \in Entries
    BY NothingDone DEF Copies, With
  <2> QED BY <2>1, <2>2, <2>4, <2>5 DEF Copies, Grows
<1> QED BY <1>1, <1>2

LEMMA SaveMetadataStep ==
  ASSUME IInv, NEW s \in Slots, StageSaveMetadata(s)
  PROVE  IInv'
<1>1. /\ s \in Uploaders /\ up[s].pc = "save"
      /\ UNCHANGED <<disk, hosted, limited, saved, queue, wg, enq, marker>>
  BY DEF StageSaveMetadata, answers, channel, Uploaders
<1>2. up[s] \in UploaderType /\ up[s].links \subseteq hosted
  BY <1>1, Before DEF Sent
<1>3. Grows /\ Flags' /\ Copies'
  <2>1. links' \in {links, Put(links, up[s].links, "url")} /\ journal' \in {journal, None}
    BY DEF StageSaveMetadata, SaveRecordingWithLinks, SaveRecordingFails, record
  <2>2. (row' = row \/ row' = TRUE) /\ (preview' = preview \/ preview' = TRUE)
    BY DEF StageSaveMetadata, SaveRecordingWithLinks, SaveRecordingFails, record, answers
  <2>3. row => row'
    BY <2>2
  <2>4. disk' \in BOOLEAN /\ marker' \in BOOLEAN
    BY <1>1 DEF IInv, Flags
  <2>5. row' \in BOOLEAN
    BY <2>2 DEF IInv, Flags
  <2>6. preview' \in BOOLEAN
    BY <2>2 DEF IInv, Flags
  <2>7. Grows /\ Copies'
    BY <1>1, <1>2, <2>1, <2>3, Saved DEF IInv
  <2> QED BY <2>4, <2>5, <2>6, <2>7 DEF Flags
<1>4. CASE /\ SaveRecordingWithLinks(up[s].links)
           /\ up[s].links # {}
           /\ Step(s, [up[s] EXCEPT !.thumb = TRUE, !.pc = "cleanup", !.stage = "cleanup"])
  <2> DEFINE q == [up[s] EXCEPT !.thumb = TRUE, !.pc = "cleanup", !.stage = "cleanup"]
  <2>1. up[s].links \subseteq Rows'
    BY <1>2, <1>4 DEF UploaderType, SaveRecordingWithLinks, Rows, Put, With
  <2>3. q \in UploaderType /\ Sent(q, hosted, limited)
    BY <1>1, <1>4, Before DEF UploaderType, Sent, PipelinePCs, Stages
  <2>4. PipelineOK(q, row', Rows')
    BY <1>2, <1>4, <2>1 DEF UploaderType, PipelineOK, PipelinePCs, SaveRecordingWithLinks
  <2>2. q.retried = up[s].retried /\ q.pc \notin {"free", "waiting"} /\ Step(s, q)
    BY <1>1, <1>4, Before DEF UploaderType
  <2> QED BY <1>1, <1>3, <2>2, <2>3, <2>4, PipelineWorks
<1>5. CASE \E thumb \in BOOLEAN : Step(s, [up[s] EXCEPT !.thumb = thumb, !.pc = "finish"])
  <2>1. PICK thumb \in BOOLEAN : Step(s, [up[s] EXCEPT !.thumb = thumb, !.pc = "finish"])
    BY <1>5
  <2> DEFINE q == [up[s] EXCEPT !.thumb = thumb, !.pc = "finish"]
  <2>2. q \in UploaderType /\ Sent(q, hosted, limited) /\ PipelineOK(q, row, Rows)
    BY <1>1, Before DEF UploaderType, Sent, PipelineOK, PipelinePCs, Stages
  <2>3. q.retried = up[s].retried /\ q.pc \notin {"free", "waiting"} /\ Step(s, q)
    BY <1>1, <2>1, Before DEF UploaderType
  <2> QED BY <1>1, <1>3, <2>2, <2>3, PipelineWorks
<1>6. Goto(s, "finish") => Step(s, [up[s] EXCEPT !.thumb = up[s].thumb, !.pc = "finish"])
  BY <1>2 DEF Goto, Step, UploaderType
<1>7. up[s].thumb \in BOOLEAN
  BY <1>2 DEF UploaderType
<1> QED BY <1>4, <1>5, <1>6, <1>7 DEF StageSaveMetadata

LEMMA CleanupStep ==
  ASSUME IInv, NEW s \in Slots, StageCleanup(s)
  PROVE  IInv'
<1>1. /\ s \in Uploaders /\ up[s].pc = "cleanup"
      /\ UNCHANGED <<hosted, limited, row, links, preview, journal, saved, queue, wg, enq, marker>>
      /\ disk' \in {disk, FALSE}
  BY DEF StageCleanup, record, answers, channel, Uploaders
<1>2. Accounted
  BY <1>1, Before, CopyAccounts DEF PipelineOK, Sent
<1>3. Grows /\ Flags' /\ Copies'
  BY <1>1, <1>2, Same, KeepsCopies DEF IInv, Flags
<1>4. PICK pc \in {"forget", "finish"} : Step(s, [up[s] EXCEPT !.pc = pc, !.stage = "done"])
  BY DEF StageCleanup
<1> DEFINE q == [up[s] EXCEPT !.pc = pc, !.stage = "done"]
<1>5. q \in UploaderType /\ Sent(q, hosted, limited) /\ PipelineOK(q, row, Rows)
  BY <1>1, Before DEF UploaderType, Sent, PipelineOK, PipelinePCs, Stages
<1>6. q.retried = up[s].retried /\ q.pc \notin {"free", "waiting"}
  BY <1>1, Before DEF UploaderType
<1> QED BY <1>1, <1>3, <1>4, <1>5, <1>6, PipelineWorks

LEMMA RetiredOK ==
  ASSUME IInv, NEW s \in Slots
  PROVE  /\ Retired(s) \in UploaderType /\ Retired(s).pc = "free"
         /\ Sent(Retired(s), hosted, limited) /\ PipelineOK(Retired(s), row, Rows)
<1>1. s \in Uploaders
  BY DEF Uploaders
<1>2. Retired(s) \in {Free, [up[s] EXCEPT !.pc = "free"]}
  BY DEF Retired
<1> DEFINE q == [up[s] EXCEPT !.pc = "free"]
<1>3. q \in UploaderType /\ q.pc = "free" /\ Sent(q, hosted, limited)
  BY <1>1, Before DEF UploaderType, PipelinePCs, Sent
<1>4. PipelineOK(q, row, Rows)
  BY <1>1, Before DEF UploaderType, PipelinePCs, PipelineOK
<1> QED BY <1>2, <1>3, <1>4, FreeIsOK

LEMMA RetryFiresStep ==
  ASSUME IInv, NEW s \in Slots, RetryFires(s)
  PROVE  IInv'
<1>1. /\ s \in Uploaders /\ up[s].pc = "waiting" /\ up[s].retried
      /\ UNCHANGED <<disk, hosted, limited, row, links, preview, journal, saved, wg, enq>>
  BY Before DEF RetryFires, record, answers, channel, Uploaders, PipelineOK
<1>2. Grows /\ Copies' /\ SavedOK' /\ EnqOK'
  BY <1>1, Same, KeepsCopies, SavedOutlasts DEF IInv, EnqOK
<1>3. CASE Step(s, Retired(s)) /\ marker' = marker
  <2> DEFINE q == Retired(s)
  <2>1. q \in UploaderType /\ Sent(q, hosted, limited) /\ PipelineOK(q, row, Rows)
    BY RetiredOK
  <2>2. ~HasToken(q) /\ ~HasToken(up[s]) /\ ~Owns(s, up[s]) /\ ~Owns(s, q)
    BY <1>1, RetiredOK DEF HasToken, Owns
  <2>3. Flags'
    BY <1>1, <1>3 DEF IInv, Flags
  <2> QED BY <1>1, <1>2, <1>3, <2>1, <2>2, <2>3, PipelineStays, Quiet
<1>4. CASE Goto(s, "queued") /\ marker' = TRUE
  <2> DEFINE q == [up[s] EXCEPT !.pc = "queued"]
  <2>1. q \in UploaderType /\ Sent(q, hosted, limited) /\ PipelineOK(q, row, Rows)
    BY <1>1, Before DEF UploaderType, Sent, PipelineOK, PipelinePCs, Stages
  <2>2. Step(s, q) /\ ~HasToken(q) /\ ~HasToken(up[s]) /\ Owns(s, q)
    BY <1>1, <1>4, Before DEF UploaderType, HasToken, Owns, Goto
  <2>3. Flags'
    BY <1>1, <1>4 DEF IInv, Flags
  <2>4. \A v \in Uploaders : up'[v] = IF v = s THEN q ELSE up[v]
    BY <2>2 DEF Step, IInv
  <2>5. Tokens' = Tokens
    BY <2>2, <2>4 DEF Tokens, Uploaders
  <2>6. Owned'
    BY <1>1, <2>2, <2>4 DEF Owned
  <2> QED BY <1>1, <1>2, <2>1, <2>2, <2>3, <2>5, <2>6, PipelineStays, Advance DEF IInv
<1>5. CASE queue.stopped \/ ContainsHash
  <2>1. Step(s, Retired(s)) /\ marker' = (FALSE \/ marker)
    BY <1>5 DEF RetryFires, MarkedOnRetry
  <2> QED BY <1>3, <2>1 DEF IInv, Flags
<1>6. CASE ~(queue.stopped \/ ContainsHash)
  BY <1>4, <1>6 DEF RetryFires, MarkedOnRetry
<1> QED BY <1>5, <1>6

LEMMA FinishStep ==
  ASSUME IInv, NEW s \in Slots, FinishPipeline(s)
  PROVE  IInv'
<1> DEFINE again == [up[s] EXCEPT !.retries = @ + 1]
           q == IF Outcome(up[s]) = "retry" THEN [again EXCEPT !.pc = "waiting", !.retried = TRUE]
                ELSE Retired(s)
<1>1. /\ s \in Uploaders /\ up[s].pc = "finish" /\ Step(s, q) /\ marker' = FALSE
      /\ UNCHANGED <<disk, hosted, limited, row, links, preview, journal, enq>>
  BY DEF FinishPipeline, record, answers, Uploaders
<1>2. Grows /\ Flags' /\ Copies' /\ EnqOK'
  BY <1>1, Same, KeepsCopies DEF IInv, Flags, EnqOK
<1>3. Outcome(up[s]) = "retry" =>
        /\ up[s].stage # "done" /\ again.retries \in 0..MaxRetries /\ again \in UploaderType
  <2>1. SUFFICES ASSUME Outcome(up[s]) = "retry"
                 PROVE  /\ up[s].stage # "done" /\ again.retries \in 0..MaxRetries
                        /\ again \in UploaderType
    OBVIOUS
  <2>2. up[s].stage # "done" /\ up[s].retries < MaxRetries /\ up[s] \in UploaderType
    BY <1>1, <2>1, Before DEF Outcome
  <2>3. up[s].retries \in 0..MaxRetries
    BY <2>2 DEF UploaderType
  <2>4. again.retries = up[s].retries + 1
    BY <2>2 DEF UploaderType
  <2>5. up[s].retries + 1 \in 0..MaxRetries
    BY <2>2, <2>3, UploadAssumption
  <2> QED BY <2>2, <2>4, <2>5 DEF UploaderType
<1>4. q \in UploaderType /\ Sent(q, hosted, limited) /\ PipelineOK(q, row, Rows)
  BY <1>1, <1>3, Before, RetiredOK DEF UploaderType, Sent, PipelineOK, PipelinePCs, Stages
<1>5. ~HasToken(q) /\ (HasToken(up[s]) <=> Counted(up[s]))
  BY <1>1, <1>3, Before, RetiredOK DEF UploaderType, HasToken, Counted
<1>6. wg' = Cardinality(Tokens')
  <2>1. \A v \in Uploaders : up'[v] = IF v = s THEN q ELSE up[v]
    BY <1>1 DEF Step, IInv
  <2>2. Tokens' = Tokens \ {s}
    BY <1>5, <2>1 DEF Tokens, Uploaders
  <2>3. s \in Tokens <=> Counted(up[s])
    BY <1>5 DEF Tokens
  <2>4. wg' = IF Counted(up[s]) THEN wg - 1 ELSE wg
    BY DEF FinishPipeline
  <2> QED BY <2>2, <2>3, <2>4, TokensFinite, FS_RemoveElement DEF IInv
<1>7. SavedOK'
  <2>1. saved' \in {saved, NoState} \/ saved' = ToState(up[s])
        \/ (Outcome(up[s]) = "retry" /\ saved' = ToState(again))
    BY DEF FinishPipeline
  <2>2. CASE saved' = ToState(up[s])
    BY <1>1, <1>2, <2>2, Before, StateOK
  <2>3. CASE Outcome(up[s]) = "retry" /\ saved' = ToState(again)
    <3>1. again.stage = up[s].stage /\ again.links = up[s].links /\ again.pc = up[s].pc
          /\ again.try = up[s].try /\ again.good = up[s].good
          /\ again.bare = up[s].bare /\ again.left = up[s].left
      BY <2>3, Before, <1>1 DEF UploaderType
    <3>2. Sent(again, hosted, limited) /\ PipelineOK(again, row, Rows)
      BY <1>1, <3>1, Before DEF Sent, PipelineOK
    <3> QED BY <1>1, <1>2, <1>3, <2>3, <3>2, StateOK
  <2>4. CASE saved' = NoState
    BY <2>4, NoStateOK
  <2> QED BY <1>2, <2>1, <2>2, <2>3, <2>4, SavedOutlasts DEF IInv
<1> QED BY <1>1, <1>2, <1>4, <1>6, <1>7, PipelineStays, Advance

-----------------------------------------------------------------------------
(* Uploading.                                                                  *)

\* An uploader in the middle of its work owns the marker and its token.
Busy == {"attempt", "journal", "thumb", "save", "forget", "finish", "giveup", "regenerate",
         "recover", "remove", "return"}

LEMMA BusyWorks ==
  ASSUME IInv, NEW u \in Uploaders, NEW q \in UploaderType, Step(u, q),
         q.retried = up[u].retried, up[u].pc \in Busy, q.pc \in Busy,
         Grows, UploaderOK(u, q, hosted', limited', row', Rows', Accounted'), Flags', Copies',
         UNCHANGED <<saved, marker, wg, enq>>
  PROVE  IInv'
<1>1. HasToken(q) <=> HasToken(up[u])
  BY DEF HasToken, Busy
<1>2. Owns(u, q) <=> Owns(u, up[u])
  BY DEF Owns, Busy
<1> QED BY <1>1, <1>2, Quiet

\* Every answer goes on the row, or none.
LEMMA Answered ==
  ASSUME Copies, NEW good \in SUBSET Hosts, NEW bare \in SUBSET Hosts, good \cap bare = {},
         hosted' = hosted \cup good, limited' = limited \cup bare,
         \/ links' = links
         \/ row /\ links' = Put(Put(links, good, "url"), bare, "empty"),
         disk \/ good \cup bare = {}, UNCHANGED <<disk, row, journal>>
  PROVE  Grows /\ Copies'
<1>1. links' \in Entries /\ With(links, {"url"})' \subseteq hosted'
  BY DEF Copies, Entries, Put, With
<1>2. Rows \subseteq Rows'
  BY DEF Copies, Rows, Put, With
<1>3. With(links, {"empty"}) \subseteq With(links, {"empty"})' \cup good
  BY DEF Put, With
<1>4. hosted' \subseteq Hosts /\ limited' \subseteq Hosts
  BY DEF Copies
<1>5. Accounted => Accounted'
  <2>1. CASE hosted # {}
    BY <2>1 DEF Accounted
  <2>2. CASE row /\ With(links, {"empty"}) # {}
    BY <1>3, <2>2 DEF Accounted
  <2>3. CASE limited = Hosts
    BY <1>4, <2>3 DEF Accounted
  <2> QED BY <2>1, <2>2, <2>3 DEF Accounted
<1>6. ~disk' => Accounted'
  BY <1>5 DEF Copies
<1>7. With(journal, {"url"})' \subseteq hosted' /\ With(journal, {"empty"})' \subseteq limited'
  BY DEF Copies, With
<1> QED BY <1>1, <1>2, <1>4, <1>5, <1>6, <1>7 DEF Copies, Grows

LEMMA AttemptStep ==
  ASSUME IInv, NEW u \in Uploaders, Attempt(u) \/ AttemptUnlinked(u)
  PROVE  IInv'
<1> DEFINE q(good, bare) == [up[u] EXCEPT !.pc = "journal", !.good = good, !.bare = bare, !.left = @ - 1]
<1>0. up[u] \in UploaderType /\ up[u].try \subseteq Hosts
  BY Before DEF UploaderType
<1>1. PICK good \in SUBSET up[u].try, bare \in SUBSET up[u].try :
        /\ Step(u, q(good, bare)) /\ hosted' = hosted \cup good /\ limited' = limited \cup bare
        /\ good \cap bare = {} /\ (disk \/ good \cup bare = {})
        /\ links' = links \/ (row /\ links' = Put(Put(links, good, "url"), bare, "empty"))
  <2>1. CASE Attempt(u)
    BY <2>1 DEF Attempt, OnHost
  <2>2. CASE AttemptUnlinked(u)
    <3>1. up[u].good \cup up[u].try = up[u].try /\ up[u].bare = {}
      BY <2>2, Before DEF Sent, AttemptUnlinked
    <3>2. Step(u, q(up[u].try, {})) /\ limited' = limited \cup {} /\ links' = links /\ disk
      BY <1>0, <2>2, <3>1 DEF AttemptUnlinked, record, Step, UploaderType
    <3>3. hosted' = hosted \cup up[u].try /\ up[u].try \cap {} = {}
      BY <2>2 DEF AttemptUnlinked
    <3>4. {} \in SUBSET up[u].try /\ up[u].try \in SUBSET up[u].try
      OBVIOUS
    <3> HIDE DEF q
    <3> QED BY <3>2, <3>3, <3>4
  <2> QED BY <2>1, <2>2
<1>2. /\ up[u].pc = "attempt"
      /\ UNCHANGED <<disk, row, preview, journal, saved, queue, wg, enq, marker>>
  BY DEF Attempt, AttemptUnlinked, record, channel
<1>3. up[u].left - 1 \in 0..MaxAttempts
  <2>1. up[u].left > 0
    BY <1>2, Before DEF Sent
  <2>2. up[u].left \in 0..MaxAttempts
    BY <1>0 DEF UploaderType
  <2> QED BY <2>1, <2>2, UploadAssumption
<1>4. q(good, bare) \in UploaderType
  BY <1>0, <1>2, <1>3 DEF UploaderType, PipelinePCs
<1>5. Grows /\ Copies'
  BY <1>0, <1>1, <1>2, Answered DEF IInv
<1>6. Flags'
  BY <1>2 DEF IInv, Flags
<1>8. UploaderOK(u, q(good, bare), hosted', limited', row', Rows', Accounted')
  <2>1. Sent(q(good, bare), hosted', limited')
    BY <1>0, <1>1, <1>2, Before DEF UploaderType, Sent
  <2>2. CASE u \in Slots
    <3>1. PipelineOK(up[u], row', Rows')
      BY <1>5, <2>2, Before DEF PipelineOK, Grows
    <3>2. PipelineOK(q(good, bare), row', Rows')
      BY <1>0, <1>2, <3>1 DEF PipelineOK, UploaderType, PipelinePCs
    <3> QED BY <2>1, <2>2, <3>2 DEF UploaderOK
  <2>3. CASE u \notin Slots
    <3>1. OrphanOK(q(good, bare), Accounted')
      BY <1>0 DEF OrphanOK, UploaderType, OrphanPCs
    <3> QED BY <2>1, <2>3, <3>1 DEF UploaderOK
  <2> QED BY <2>2, <2>3
<1>9. q(good, bare).retried = up[u].retried /\ q(good, bare).pc \in Busy /\ up[u].pc \in Busy
  BY <1>0, <1>2 DEF Busy, UploaderType
<1> QED BY <1>1, <1>2, <1>4, <1>5, <1>6, <1>8, <1>9, BusyWorks

LEMMA JournalStep ==
  ASSUME IInv, NEW u \in Uploaders, SaveJournalEntries(u)
  PROVE  IInv'
<1> DEFINE rest == up[u].try \ (up[u].good \cup up[u].bare)
           took == up[u].links \cup up[u].good
           again == rest # {} /\ up[u].left > 0
           q == [up[u] EXCEPT !.pc = IF again THEN "attempt" ELSE AfterUpload(u, took, rest),
                  !.try = IF again THEN rest ELSE {}, !.good = {}, !.bare = {},
                  !.links = took, !.left = IF rest = {} THEN 0 ELSE @]
<1>1. /\ up[u].pc = "journal" /\ journal' = Journaled(u) /\ Step(u, q)
      /\ UNCHANGED <<disk, hosted, limited, row, links, preview, saved, queue, wg, enq, marker>>
  BY DEF SaveJournalEntries, record, answers, channel
<1>2. up[u] \in UploaderType /\ Sent(up[u], hosted, limited)
  BY Before
<1>3. took \subseteq Hosts /\ took \subseteq hosted
  BY <1>2 DEF UploaderType, Sent
<1>4. q.pc \in Busy \cap (PipelinePCs \cup OrphanPCs) /\ up[u].pc \in Busy
  BY <1>1, <1>2 DEF UploaderType, AfterUpload, Busy, PipelinePCs, OrphanPCs
<1>5. q \in UploaderType /\ q.retried = up[u].retried
  <2>1. 0 \in 0..MaxAttempts
    BY UploadAssumption
  <2>2. rest \subseteq Hosts
    BY <1>2 DEF UploaderType
  <2> QED BY <1>2, <1>3, <1>4, <2>1, <2>2 DEF UploaderType
<1>6. Grows /\ Flags'
  BY <1>1, Same DEF IInv, Flags
<1>7. Copies'
  <2>1. journal' \in Entries
    BY <1>1 DEF IInv, Copies, Journaled, Put, Entries
  <2>2. /\ With(journal', {"url"}) \subseteq With(journal, {"url"}) \cup up[u].good
        /\ With(journal', {"empty"}) \subseteq With(journal, {"empty"}) \cup up[u].bare
    BY <1>1 DEF Journaled, Put, With
  <2>3. With(journal', {"url"}) \subseteq hosted /\ With(journal', {"empty"}) \subseteq limited
    BY <1>2, <2>2 DEF IInv, Copies, Sent
  <2>4. With(links, {"url"})' = With(links, {"url"}) /\ (Accounted => Accounted')
    BY <1>1, <1>6 DEF Grows, With
  <2> QED BY <1>1, <2>1, <2>3, <2>4 DEF IInv, Copies, With
<1>8. Sent(q, hosted, limited)
  <2>1. q.good = {} /\ q.bare = {} /\ q.links = took /\ q.try = (IF again THEN rest ELSE {})
    BY <1>2 DEF UploaderType
  <2>2. q.pc \in {"attempt", "journal"} => again /\ q.left > 0
    BY <1>2 DEF UploaderType, AfterUpload
  <2>3. Hosts \ rest \subseteq hosted \cup limited
    BY <1>1, <1>2 DEF Sent
  <2> QED BY <1>3, <2>1, <2>2, <2>3 DEF Sent
<1>9. CASE u \in Slots
  <2>1. PipelineOK(up[u], row, Rows) /\ up[u].stage = "upload"
    BY <1>1, <1>9, Before DEF PipelineOK
  <2>2. q.stage = "upload" /\ q.pc \in {"attempt", "finish", "thumb"}
    BY <1>2, <1>9, <2>1 DEF UploaderType, AfterUpload
  <2>3. PipelineOK(q, row, Rows)
    BY <2>2 DEF PipelineOK, PipelinePCs
  <2> QED BY <1>1, <1>4, <1>5, <1>6, <1>7, <1>8, <1>9, <2>3, PipelineStays, BusyWorks
<1>10. CASE u \in Orphans
  <2>1. q.pc \in {"attempt", "giveup"} \/ (q.pc \in {"save", "regenerate"} /\ (took # {} \/ rest = {}))
    BY <1>2, <1>10, SlotsApart DEF UploaderType, AfterUpload
  <2>2. took # {} => Accounted
    BY <1>3, CopyAccounts
  <2>3. rest = {} => Accounted
    <3>1. Hosts \ rest \subseteq hosted \cup limited
      BY <1>1, <1>2 DEF Sent
    <3> QED BY <3>1, AllAccounted DEF IInv
  <2>4. OrphanOK(q, Accounted)
    BY <2>1, <2>2, <2>3 DEF OrphanOK, OrphanPCs
  <2> QED BY <1>1, <1>4, <1>5, <1>6, <1>7, <1>8, <1>10, <2>4, OrphanStays, BusyWorks
<1> QED BY <1>9, <1>10 DEF Uploaders

LEMMA DeleteJournalStep ==
  ASSUME IInv, NEW u \in Uploaders, DeleteJournal(u)
  PROVE  IInv'
<1> DEFINE q == [up[u] EXCEPT !.pc = IF u \in Slots THEN "finish" ELSE "return"]
<1>1. /\ up[u].pc = "forget" /\ journal' = None /\ Step(u, q)
      /\ UNCHANGED <<disk, hosted, limited, row, links, preview, saved, queue, wg, enq, marker>>
  BY DEF DeleteJournal, Goto, record, answers, channel
<1>2. Grows /\ Flags' /\ Copies'
  BY <1>1, Same, KeepsCopies DEF IInv, Flags
<1>3. q \in UploaderType /\ q.retried = up[u].retried /\ q.pc \in Busy /\ up[u].pc \in Busy
  BY <1>1, Before DEF UploaderType, PipelinePCs, OrphanPCs, Busy
<1>4. CASE u \in Slots
  <2>1. Sent(q, hosted, limited) /\ PipelineOK(q, row, Rows)
    BY <1>1, <1>4, Before DEF UploaderType, Sent, PipelineOK, PipelinePCs
  <2> QED BY <1>1, <1>2, <1>3, <1>4, <2>1, PipelineStays, BusyWorks
<1>5. CASE u \in Orphans
  <2>1. Sent(q, hosted, limited) /\ u \notin Slots
    BY <1>1, <1>5, Before DEF UploaderType, Sent
  <2>2. OrphanOK(q, Accounted)
    BY <1>1, <1>5, <2>1, Before DEF UploaderType, Sent, OrphanOK, OrphanPCs
  <2> QED BY <1>1, <1>2, <1>3, <1>5, <2>1, <2>2, OrphanStays, BusyWorks
<1> QED BY <1>4, <1>5 DEF Uploaders

-----------------------------------------------------------------------------
(* The steps of an orphan upload.                                              *)

\* Before it claims the file an orphan upload owns nothing.
Looking == {"free", "event", "judge", "look", "claim", "unlink", "gone"}

LEMMA OrphanLooks ==
  ASSUME IInv, NEW o \in Orphans, NEW q \in UploaderType, Step(o, q),
         up[o].pc \in Looking, q.pc \in Looking,
         Sent(q, hosted, limited), OrphanOK(q, Accounted), Grows, Flags', Copies',
         UNCHANGED <<saved, marker, wg, enq>>
  PROVE  IInv'
<1>1. o \in Uploaders /\ o \notin Slots
  BY SlotsApart DEF Uploaders
<1>2. ~Owns(o, up[o]) /\ ~Owns(o, q)
  BY <1>1 DEF Owns, Looking
<1> QED BY <1>1, <1>2, OrphanStays, Quiet

LEMMA OrphanWorks ==
  ASSUME IInv, NEW o \in Orphans, NEW q \in UploaderType, Step(o, q),
         q.retried = up[o].retried, up[o].pc \in Busy, q.pc \in Busy,
         Sent(q, hosted, limited), OrphanOK(q, Accounted), Grows, Flags', Copies',
         UNCHANGED <<saved, marker, wg, enq>>
  PROVE  IInv'
<1>1. o \in Uploaders /\ o \notin Slots
  BY SlotsApart DEF Uploaders
<1> QED BY <1>1, OrphanStays, BusyWorks

LEMMA GoneIsOK ==
  ASSUME NEW o \in Orphans
  PROVE  /\ GoneFor(o) \in UploaderType /\ GoneFor(o).pc \in Looking
         /\ \A h, m, a : Sent(GoneFor(o), h, m) /\ OrphanOK(GoneFor(o), a)
<1>1. Free \in UploaderType
  BY FreeIsOK
<1>2. Free.good = {} /\ Free.bare = {} /\ Free.try = {} /\ Free.links = {}
  BY DEF Free
<1>3. /\ GoneFor(o) \in UploaderType /\ GoneFor(o).pc \in {"free", "gone"}
      /\ GoneFor(o).good = {} /\ GoneFor(o).bare = {} /\ GoneFor(o).try = {} /\ GoneFor(o).links = {}
  BY <1>1, <1>2 DEF GoneFor, UploaderType, OrphanPCs
<1> QED BY <1>3 DEF Sent, OrphanOK, OrphanPCs, Looking

LEMMA FindStep ==
  ASSUME IInv, NEW o \in Orphans, Find(o)
  PROVE  IInv'
<1>1. PICK pc \in {"look", "judge", "gone"} : Goto(o, pc)
  BY DEF Find
<1> DEFINE q == [up[o] EXCEPT !.pc = pc]
<1>2. /\ o \in Uploaders /\ up[o].pc \in Looking /\ Step(o, q)
      /\ UNCHANGED <<disk, hosted, limited, row, links, preview, journal, saved, queue, wg, enq, marker>>
  BY <1>1 DEF Find, Goto, Looking, record, answers, channel, Uploaders
<1>3. Grows /\ Flags' /\ Copies'
  BY <1>2, Same, KeepsCopies DEF IInv, Flags
<1>4. q \in UploaderType /\ q.pc \in Looking
  BY <1>2, Before DEF UploaderType, OrphanPCs, Looking
<1>5. Sent(q, hosted, limited) /\ OrphanOK(q, Accounted)
  BY <1>2, Before DEF UploaderType, Sent, OrphanOK, OrphanPCs
<1> QED BY <1>2, <1>3, <1>4, <1>5, OrphanLooks

LEMMA JudgeStep ==
  ASSUME IInv, NEW o \in Orphans, Judge(o)
  PROVE  IInv'
<1>1. /\ o \in Uploaders /\ up[o].pc = "judge" /\ up[o].pc \in Looking
      /\ UNCHANGED <<hosted, limited, row, links, preview, journal, saved, queue, wg, enq, marker>>
  BY DEF Judge, Looking, record, answers, channel, Uploaders
<1>2. IsAlreadyFullyUploaded => Accounted
  BY JournalAccounts DEF IInv, IsAlreadyFullyUploaded
<1>3. disk' \in BOOLEAN
  <2>1. CASE disk' = disk
    BY <2>1 DEF IInv, Flags
  <2>2. CASE disk' = (disk /\ place = "main" /\ ~preview)
    BY <2>2
  <2>3. CASE disk' = (disk /\ ~(deleteAfter /\ preview))
    BY <2>3
  <2> QED BY <2>1, <2>2, <2>3 DEF Judge
<1>4. disk' = disk \/ IsAlreadyFullyUploaded
  BY DEF Judge
<1>5. Grows /\ Flags'
  BY <1>1, <1>3, Same DEF IInv, Flags
<1>6. Copies'
  BY <1>1, <1>2, <1>4, <1>5, KeepsCopies DEF IInv
<1>7. CASE Step(o, GoneFor(o))
  BY <1>1, <1>5, <1>6, <1>7, GoneIsOK, OrphanLooks
<1>8. CASE Goto(o, "look")
  <2> DEFINE q == [up[o] EXCEPT !.pc = "look"]
  <2>1. q \in UploaderType /\ q.pc \in Looking /\ Step(o, q)
    BY <1>1, <1>8, Before DEF UploaderType, OrphanPCs, Looking, Goto
  <2>2. Sent(q, hosted, limited) /\ OrphanOK(q, Accounted)
    BY <1>1, Before DEF UploaderType, Sent, OrphanOK, OrphanPCs
  <2> QED BY <1>1, <1>5, <1>6, <2>1, <2>2, OrphanLooks
<1> QED BY <1>7, <1>8 DEF Judge

LEMMA GenerateStep ==
  ASSUME IInv, NEW o \in Orphans, GenerateThumbnail(o)
  PROVE  IInv'
<1>1. /\ o \in Uploaders /\ up[o].pc = "look" /\ up[o].pc \in Looking
      /\ UNCHANGED <<disk, hosted, limited, row, links, preview, journal, saved, queue, wg, enq, marker>>
  BY DEF GenerateThumbnail, Looking, record, answers, channel, Uploaders
<1>2. Grows /\ Flags' /\ Copies'
  BY <1>1, Same, KeepsCopies DEF IInv, Flags
<1>3. CASE Step(o, GoneFor(o))
  BY <1>1, <1>2, <1>3, GoneIsOK, OrphanLooks
<1>4. CASE \E ok \in BOOLEAN : Step(o, [up[o] EXCEPT !.pc = "claim", !.thumb = ok])
  <2>1. PICK ok \in BOOLEAN : Step(o, [up[o] EXCEPT !.pc = "claim", !.thumb = ok])
    BY <1>4
  <2> DEFINE q == [up[o] EXCEPT !.pc = "claim", !.thumb = ok]
  <2>2. q \in UploaderType /\ q.pc \in Looking
    BY <1>1, Before DEF UploaderType, OrphanPCs, Looking
  <2>3. Sent(q, hosted, limited) /\ OrphanOK(q, Accounted)
    BY <1>1, Before DEF UploaderType, Sent, OrphanOK, OrphanPCs
  <2> QED BY <1>1, <1>2, <2>1, <2>2, <2>3, OrphanLooks
<1> QED BY <1>3, <1>4 DEF GenerateThumbnail

\* The claim: the marker gets an owner.
LEMMA ClaimStep ==
  ASSUME IInv, NEW o \in Orphans, UploadOrphanedFile(o)
  PROVE  IInv'
<1>1. /\ o \in Uploaders /\ o \notin Slots /\ up[o].pc = "claim" /\ marker' = TRUE
      /\ preview' \in {preview, preview \/ up[o].thumb}
      /\ UNCHANGED <<disk, hosted, limited, row, links, journal, saved, queue, wg, enq>>
  BY SlotsApart DEF UploadOrphanedFile, answers, channel, Uploaders
<1>2. up[o] \in UploaderType /\ Sent(up[o], hosted, limited) /\ OrphanOK(up[o], Accounted)
  BY <1>1, Before
<1>3. preview' \in BOOLEAN
  BY <1>1, <1>2 DEF IInv, Flags, UploaderType
<1>4. Grows /\ Flags' /\ Copies' /\ SavedOK' /\ EnqOK'
  BY <1>1, <1>3, Same, KeepsCopies, SavedOutlasts DEF IInv, Flags, EnqOK
<1>5. PICK q \in UploaderType :
        /\ Step(o, q) /\ Sent(q, hosted, limited) /\ OrphanOK(q, Accounted)
        /\ q.pc \in {"giveup", "return", "recover", "attempt"}
  <2>1. CASE \E pc \in {"giveup", "return", "recover"} :
               Goto(o, pc) /\ (pc = "return" => Accounted)
    <3>1. PICK pc \in {"giveup", "return", "recover"} :
            Goto(o, pc) /\ (pc = "return" => Accounted)
      BY <2>1
    <3> DEFINE q == [up[o] EXCEPT !.pc = pc]
    <3>2. q \in UploaderType /\ Sent(q, hosted, limited) /\ OrphanOK(q, Accounted)
      BY <1>2, <3>1 DEF UploaderType, Sent, OrphanOK, OrphanPCs
    <3>3. Step(o, q) /\ q.pc \in {"giveup", "return", "recover"}
      BY <1>2, <3>1 DEF Goto, UploaderType
    <3> QED BY <3>2, <3>3
  <2>2. CASE TryHosts(o, Hosts \ LoadCompletedHosts)
    <3> DEFINE hosts == Hosts \ LoadCompletedHosts
               q == [up[o] EXCEPT !.pc = "attempt", !.try = hosts, !.good = {}, !.bare = {},
                                  !.left = MaxAttempts]
    <3>1. hosts \subseteq Hosts /\ Hosts \ hosts \subseteq hosted \cup limited
      BY Untried DEF IInv
    <3>2. q \in UploaderType /\ Sent(q, hosted, limited) /\ OrphanOK(q, Accounted) /\ q.pc = "attempt"
      BY <1>2, <3>1, FirstAttempt DEF UploaderType, Sent, OrphanOK, OrphanPCs
    <3> QED BY <2>2, <3>2 DEF TryHosts
  <2>3. FullyJournaled => Accounted
    BY JournalAccounts DEF IInv
  <2> QED BY <2>1, <2>2, <2>3 DEF UploadOrphanedFile
<1>6. \A v \in Uploaders : up'[v] = IF v = o THEN q ELSE up[v]
  BY <1>5 DEF Step, IInv
<1>7. Tokens' = Tokens
  BY <1>1, <1>6 DEF Tokens, Uploaders
<1>8. Owned'
  <2>1. Owns(o, q)
    BY <1>1, <1>5 DEF Owns
  <2> QED BY <1>1, <1>6, <2>1 DEF Owned
<1> QED BY <1>1, <1>4, <1>5, <1>7, <1>8, OrphanStays, Advance DEF IInv

LEMMA RecoverStep ==
  ASSUME IInv, NEW o \in Orphans, RecoverFromJournal(o)
  PROVE  IInv'
<1>1. /\ o \in Uploaders /\ up[o].pc = "recover" /\ up[o].pc \in Busy
      /\ UNCHANGED <<disk, hosted, limited, row, links, saved, queue, wg, enq, marker>>
  BY DEF RecoverFromJournal, Busy, answers, channel, Uploaders
<1>2. up[o] \in UploaderType /\ Sent(up[o], hosted, limited) /\ LoadJournalLinks \subseteq hosted
      /\ hosted \subseteq Hosts
  BY <1>1, Before DEF IInv, Copies, LoadJournalLinks
<1>3. preview' \in BOOLEAN
  <2>1. CASE preview' = preview
    BY <2>1 DEF IInv, Flags
  <2>2. CASE \E ok \in BOOLEAN : preview' = (preview \/ ok)
    BY <2>2
  <2> QED BY <2>1, <2>2 DEF RecoverFromJournal
<1>4. Grows /\ Flags' /\ Copies'
  <2>1. journal' \in {journal, None}
    BY DEF RecoverFromJournal
  <2> QED BY <1>1, <1>3, <2>1, Same, KeepsCopies DEF IInv, Flags
<1>5. CASE TryHosts(o, Hosts)
  <2> DEFINE q == [up[o] EXCEPT !.pc = "attempt", !.try = Hosts, !.good = {},
                                !.bare = {}, !.left = MaxAttempts]
  <2>1. q \in UploaderType /\ q.retried = up[o].retried /\ q.pc \in Busy
    BY <1>2, FirstAttempt DEF UploaderType, OrphanPCs, Busy
  <2>2. Sent(q, hosted, limited) /\ OrphanOK(q, Accounted)
    BY <1>2, FirstAttempt DEF UploaderType, Sent, OrphanOK, OrphanPCs
  <2> QED BY <1>1, <1>4, <1>5, <2>1, <2>2, OrphanWorks DEF TryHosts
<1>6. CASE /\ LoadJournalLinks # {}
           /\ \E ok \in BOOLEAN : Step(o, [up[o] EXCEPT !.thumb = ok, !.links = LoadJournalLinks,
                                                !.pc = IF ok THEN "save" ELSE "giveup"])
  <2>1. PICK ok \in BOOLEAN : Step(o, [up[o] EXCEPT !.thumb = ok, !.links = LoadJournalLinks,
                                             !.pc = IF ok THEN "save" ELSE "giveup"])
    BY <1>6
  <2> DEFINE q == [up[o] EXCEPT !.thumb = ok, !.links = LoadJournalLinks,
                                !.pc = IF ok THEN "save" ELSE "giveup"]
  <2>2. q \in UploaderType /\ q.retried = up[o].retried /\ q.pc \in Busy
    BY <1>2 DEF UploaderType, OrphanPCs, Busy
  <2>3. Sent(q, hosted, limited) /\ OrphanOK(q, Accounted)
    BY <1>1, <1>2, <1>6, CopyAccounts DEF UploaderType, Sent, OrphanOK, OrphanPCs
  <2> QED BY <1>1, <1>4, <2>1, <2>2, <2>3, OrphanWorks
<1> QED BY <1>5, <1>6 DEF RecoverFromJournal

LEMMA RegenerateStep ==
  ASSUME IInv, NEW o \in Orphans, RegenerateThumbnail(o)
  PROVE  IInv'
<1>1. /\ o \in Uploaders /\ up[o].pc = "regenerate" /\ up[o].pc \in Busy
      /\ UNCHANGED <<disk, hosted, limited, row, links, journal, saved, queue, wg, enq, marker>>
      /\ preview' = TRUE \/ preview' = preview
  BY DEF RegenerateThumbnail, Busy, answers, channel, Uploaders
<1>2. up[o] \in UploaderType /\ Sent(up[o], hosted, limited) /\ OrphanOK(up[o], Accounted)
  BY <1>1, Before
<1>3. preview' \in BOOLEAN
  BY <1>1 DEF IInv, Flags
<1>4. Grows /\ Flags' /\ Copies'
  BY <1>1, <1>3, Same, KeepsCopies DEF IInv, Flags
<1>5. Goto(o, "giveup") => Step(o, [up[o] EXCEPT !.thumb = up[o].thumb, !.pc = "giveup"])
  BY <1>2 DEF Goto, Step, UploaderType
<1>6. PICK pc \in {"save", "giveup"}, thumb \in BOOLEAN :
        Step(o, [up[o] EXCEPT !.thumb = thumb, !.pc = pc])
  <2>1. up[o].thumb \in BOOLEAN
    BY <1>2 DEF UploaderType
  <2> QED BY <1>5, <2>1 DEF RegenerateThumbnail
<1> DEFINE q == [up[o] EXCEPT !.thumb = thumb, !.pc = pc]
<1>7. q \in UploaderType /\ q.retried = up[o].retried /\ q.pc \in Busy
  BY <1>2 DEF UploaderType, OrphanPCs, Busy
<1>8. Sent(q, hosted, limited) /\ OrphanOK(q, Accounted)
  BY <1>1, <1>2 DEF UploaderType, Sent, OrphanOK, OrphanPCs
<1> QED BY <1>1, <1>4, <1>6, <1>7, <1>8, OrphanWorks

LEMMA SaveOrphanStep ==
  ASSUME IInv, NEW o \in Orphans, SaveOrphanMetadata(o)
  PROVE  IInv'
<1>1. /\ o \in Uploaders /\ up[o].pc = "save" /\ up[o].pc \in Busy
      /\ UNCHANGED <<disk, hosted, limited, preview, journal, saved, queue, wg, enq, marker>>
      /\ links' \in {links, Put(links, up[o].links, "url")} /\ (row' = row \/ row' = TRUE)
  BY DEF SaveOrphanMetadata, SaveRecordingWithLinks, SaveRecordingFails, Busy, answers, channel, Uploaders
<1>2. up[o] \in UploaderType /\ Sent(up[o], hosted, limited) /\ OrphanOK(up[o], Accounted)
  BY <1>1, Before
<1>3. row' \in BOOLEAN
  BY <1>1 DEF IInv, Flags
<1>4. row => row'
  BY <1>1
<1>5. Flags'
  BY <1>1, <1>3 DEF IInv, Flags
<1>6. Grows /\ Copies'
  BY <1>1, <1>2, <1>4, Saved DEF IInv, Sent
<1>7. PICK pc \in {"remove", "return"} : Goto(o, pc)
  BY DEF SaveOrphanMetadata
<1> DEFINE q == [up[o] EXCEPT !.pc = pc]
<1>8. q \in UploaderType /\ q.retried = up[o].retried /\ q.pc \in Busy /\ Step(o, q)
  BY <1>2, <1>7 DEF UploaderType, OrphanPCs, Busy, Goto
<1>9. Sent(q, hosted, limited) /\ OrphanOK(q, Accounted)
  BY <1>1, <1>2 DEF UploaderType, Sent, OrphanOK, OrphanPCs
<1> QED BY <1>1, <1>5, <1>6, <1>8, <1>9, OrphanWorks

LEMMA RemoveStep ==
  ASSUME IInv, NEW o \in Orphans, RemoveUploaded(o)
  PROVE  IInv'
<1>1. /\ o \in Uploaders /\ up[o].pc = "remove" /\ up[o].pc \in Busy
      /\ UNCHANGED <<hosted, limited, row, links, preview, journal, saved, queue, wg, enq, marker>>
      /\ disk' \in {disk, FALSE}
  BY DEF RemoveUploaded, Busy, record, answers, channel, Uploaders
<1>2. up[o] \in UploaderType /\ Sent(up[o], hosted, limited) /\ OrphanOK(up[o], Accounted) /\ Accounted
  BY <1>1, Before DEF OrphanOK
<1>3. Grows /\ Flags' /\ Copies'
  BY <1>1, <1>2, Same, KeepsCopies DEF IInv, Flags
<1>4. PICK pc \in {"forget", "return"} : Goto(o, pc)
  BY DEF RemoveUploaded
<1> DEFINE q == [up[o] EXCEPT !.pc = pc]
<1>5. q \in UploaderType /\ q.retried = up[o].retried /\ q.pc \in Busy /\ Step(o, q)
  BY <1>2, <1>4 DEF UploaderType, OrphanPCs, Busy, Goto
<1>6. Sent(q, hosted, limited) /\ OrphanOK(q, Accounted)
  BY <1>1, <1>2 DEF UploaderType, Sent, OrphanOK, OrphanPCs
<1> QED BY <1>1, <1>3, <1>5, <1>6, OrphanWorks

\* The marker goes with its owner.
LEMMA ReturnStep ==
  ASSUME IInv, NEW o \in Orphans, Return(o)
  PROVE  IInv'
<1>1. /\ o \in Uploaders /\ o \notin Slots /\ up[o].pc \in {"return", "giveup"} /\ marker' = FALSE
      /\ UNCHANGED <<disk, hosted, limited, row, links, preview, journal, saved, queue, wg, enq>>
  BY SlotsApart DEF Return, record, answers, channel, Uploaders
<1>2. Grows /\ Flags' /\ Copies' /\ SavedOK' /\ EnqOK'
  BY <1>1, Same, KeepsCopies, SavedOutlasts DEF IInv, Flags, EnqOK
<1>3. PICK q \in UploaderType : Step(o, q) /\ Sent(q, hosted, limited) /\ OrphanOK(q, Accounted)
  <2>1. CASE Step(o, GoneFor(o))
    BY <2>1, GoneIsOK
  <2>2. CASE up[o].pc = "return" /\ Step(o, [Free EXCEPT !.pc = "unlink"])
    <3> DEFINE q == [Free EXCEPT !.pc = "unlink"]
    <3>1. Accounted
      BY <1>1, <2>2, Before DEF OrphanOK
    <3>2. q \in UploaderType /\ q.good = {} /\ q.bare = {} /\ q.try = {} /\ q.links = {} /\ q.pc = "unlink"
      <4>1. Free \in UploaderType /\ Free.good = {} /\ Free.bare = {} /\ Free.try = {} /\ Free.links = {}
        BY FreeIsOK DEF Free
      <4> QED BY <4>1 DEF UploaderType, OrphanPCs
    <3>3. Sent(q, hosted, limited) /\ OrphanOK(q, Accounted)
      BY <3>1, <3>2 DEF Sent, OrphanOK, OrphanPCs
    <3> QED BY <2>2, <3>2, <3>3
  <2> QED BY <2>1, <2>2 DEF Return
<1>4. \A v \in Uploaders : up'[v] = IF v = o THEN q ELSE up[v]
  BY <1>3 DEF Step, IInv
<1>5. Tokens' = Tokens
  BY <1>1, <1>4 DEF Tokens, Uploaders
<1> QED BY <1>1, <1>2, <1>3, <1>5, OrphanStays, Advance DEF IInv

LEMMA UnlinkStep ==
  ASSUME IInv, NEW o \in Orphans, Unlink(o)
  PROVE  IInv'
<1>1. /\ o \in Uploaders /\ up[o].pc = "unlink" /\ up[o].pc \in Looking /\ Step(o, GoneFor(o))
      /\ UNCHANGED <<hosted, limited, row, links, preview, journal, saved, queue, wg, enq, marker>>
      /\ disk' = FALSE
  BY DEF Unlink, Looking, record, answers, channel, Uploaders
<1>2. Accounted
  BY <1>1, Before DEF OrphanOK
<1>3. Grows /\ Flags' /\ Copies'
  BY <1>1, <1>2, Same, KeepsCopies DEF IInv, Flags
<1> QED BY <1>1, <1>3, GoneIsOK, OrphanLooks

-----------------------------------------------------------------------------
(* The queue, the disk monitor and a restart.                                  *)

\* No uploader moves.
LEMMA UploadersStay ==
  ASSUME IInv, Grows, UNCHANGED <<up, wg>>, Flags', Copies', SavedOK', EnqOK',
         marker' => (marker /\ enq.pc \notin {"deliver", "add"}) \/ enq'.pc \in {"deliver", "add"}
  PROVE  IInv'
<1>1. \A v \in Uploaders : UploaderOK(v, up'[v], hosted', limited', row', Rows', Accounted')
  BY Outlasts DEF IInv
<1>2. Tokens' = Tokens
  BY DEF Tokens
<1>3. marker' => Owned'
  BY DEF IInv, Owned
<1> QED BY <1>1, <1>2, <1>3 DEF IInv

\* A pipeline of the file is queued in a slot that is free, and gets its token.
LEMMA Queued ==
  ASSUME IInv, NEW s \in Slots, NEW q \in UploaderType, Idle(s), Step(s, q),
         q.pc = "queued", ~q.retried, wg' = wg + 1,
         Grows, Sent(q, hosted, limited), PipelineOK(q, row, Rows), Flags', Copies', SavedOK', EnqOK'
  PROVE  IInv'
<1>1. s \in Uploaders
  BY DEF Uploaders
<1>2. \A v \in Uploaders : up'[v] = IF v = s THEN q ELSE up[v]
  BY DEF Step, IInv
<1>3. HasToken(q) /\ ~HasToken(up[s]) /\ Owns(s, q)
  BY DEF HasToken, Owns, Idle
<1>4. Tokens' = Tokens \cup {s} /\ s \notin Tokens
  BY <1>1, <1>2, <1>3 DEF Tokens, Uploaders
<1>5. wg' = Cardinality(Tokens')
  BY <1>4, TokensFinite, FS_AddElement DEF IInv
<1>6. Owned'
  BY <1>1, <1>2, <1>3 DEF Owned
<1> QED BY <1>1, <1>5, <1>6, PipelineStays, Advance

LEMMA ClaimedStep ==
  ASSUME IInv, EnqueueFileClaimed
  PROVE  IInv'
<1>1. /\ enq.pc = "deliver" /\ enq' = [enq EXCEPT !.pc = "add"] /\ marker' = TRUE
      /\ UNCHANGED <<disk, hosted, limited, row, links, preview, journal, saved, wg, up>>
  BY DEF EnqueueFileClaimed, record, answers
<1>2. EnqOK' /\ enq'.pc = "add"
  BY <1>1 DEF IInv, EnqOK
<1>3. Grows /\ Flags' /\ Copies' /\ SavedOK'
  BY <1>1, Same, KeepsCopies, SavedOutlasts DEF IInv, Flags
<1> QED BY <1>1, <1>2, <1>3, UploadersStay

LEMMA EnqueueFileStep ==
  ASSUME IInv, EnqueueFile
  PROVE  IInv'
<1>1. /\ enq.pc = "add" /\ UNCHANGED <<disk, hosted, limited, row, links, preview, journal>>
  BY DEF EnqueueFile, record, answers
<1>2. Grows /\ Copies'
  BY <1>1, Same, KeepsCopies DEF IInv
<1>3. CASE queue.stopped
  <2>1. /\ saved' \in {saved, NewState} /\ marker' = FALSE /\ enq' = [enq EXCEPT !.pc = "none"]
        /\ UNCHANGED <<wg, up>>
    BY <1>3 DEF EnqueueFile
  <2>2. NewState \in StateType /\ NewState.stage = "upload" /\ NewState.links = {}
    <3>1. NoState \in StateType /\ NoState.links = {}
      BY UploadAssumption DEF NoState, StateType
    <3> QED BY <3>1 DEF NewState, StateType, Stages
  <2>3. saved' = NewState => SavedOK'
    BY <2>2 DEF SavedOK
  <2>4. SavedOK'
    BY <1>2, <2>1, <2>3, SavedOutlasts DEF IInv
  <2>5. EnqOK' /\ Flags'
    BY <1>1, <2>1 DEF IInv, EnqOK, Flags
  <2> QED BY <1>2, <2>1, <2>4, <2>5, UploadersStay
<1>4. CASE ~queue.stopped
  <2>1. PICK s \in Slots :
          /\ Idle(s) /\ wg' = wg + 1 /\ Step(s, [Free EXCEPT !.pc = "queued"])
          /\ enq' = [pc |-> "basics", slot |-> s] /\ UNCHANGED <<saved, marker>>
    BY <1>4 DEF EnqueueFile
  <2> DEFINE q == [Free EXCEPT !.pc = "queued"]
  <2>2. /\ q \in UploaderType /\ q.pc = "queued" /\ ~q.retried
        /\ q.good = {} /\ q.bare = {} /\ q.try = {} /\ q.links = {} /\ q.stage = "upload"
    <3>1. /\ Free \in UploaderType /\ Free.good = {} /\ Free.bare = {} /\ Free.try = {} /\ Free.links = {}
          /\ Free.stage = "upload" /\ ~Free.retried
      BY FreeIsOK DEF Free
    <3> QED BY <3>1 DEF UploaderType, PipelinePCs
  <2>3. Sent(q, hosted, limited) /\ PipelineOK(q, row, Rows)
    BY <2>2 DEF Sent, PipelineOK, PipelinePCs
  <2>4. EnqOK' /\ Flags' /\ SavedOK'
    BY <1>1, <1>2, <2>1, SavedOutlasts DEF IInv, EnqOK, Flags
  <2> QED BY <1>1, <1>2, <2>1, <2>2, <2>3, <2>4, Queued
<1> QED BY <1>3, <1>4

LEMMA BasicsStep ==
  ASSUME IInv, SaveRecordingBasics
  PROVE  IInv'
<1>1. /\ enq.pc = "basics" /\ enq' = [enq EXCEPT !.pc = "state"] /\ (row' = row \/ row' = TRUE)
      /\ UNCHANGED <<disk, hosted, limited, links, preview, journal, saved, marker, wg, up>>
  BY DEF SaveRecordingBasics, answers
<1>2. EnqOK'
  BY <1>1 DEF IInv, EnqOK
<1>3. row' \in BOOLEAN
  BY <1>1 DEF IInv, Flags
<1>4. row => row'
  BY <1>1
<1>5. Flags'
  BY <1>1, <1>3 DEF IInv, Flags
<1>6. Grows
  BY <1>1, <1>4 DEF Grows, Rows, Accounted
<1>7. Copies' /\ SavedOK'
  BY <1>1, <1>6, KeepsCopies, SavedOutlasts DEF IInv
<1> QED BY <1>1, <1>2, <1>5, <1>6, <1>7, UploadersStay

\* The state is that of a pipeline that has since moved on, or is done.
LEMMA QueuedStateStep ==
  ASSUME IInv, SaveQueuedState
  PROVE  IInv'
<1> DEFINE s == enq.slot
<1>1. /\ enq.pc = "state" /\ enq' = [pc |-> "none", slot |-> "none"] /\ s \in Slots /\ s \in Uploaders
      /\ saved' \in {saved, ToState(up[s])}
      /\ up' = [u \in Uploaders |-> IF u = s /\ Idle(u) THEN Free ELSE up[u]]
      /\ UNCHANGED <<disk, hosted, limited, row, links, preview, journal, marker, wg>>
  BY DEF SaveQueuedState, record, answers, IInv, EnqOK, Uploaders
<1>2. Grows /\ Flags' /\ Copies' /\ EnqOK'
  BY <1>1, Same, KeepsCopies DEF IInv, Flags, EnqOK
<1>3. SavedOK'
  <2>1. saved' = ToState(up[s]) => SavedOK'
    BY <1>1, <1>2, Before, StateOK
  <2> QED BY <1>1, <1>2, <2>1, SavedOutlasts DEF IInv
<1>4. CASE ~Idle(s)
  <2>1. up' = up
    BY <1>1, <1>4 DEF IInv
  <2> QED BY <1>1, <1>2, <1>3, <2>1, UploadersStay
<1>5. CASE Idle(s)
  <2>1. Step(s, Free)
    BY <1>1, <1>5 DEF IInv, Step
  <2>2. \A v \in Uploaders : up'[v] = IF v = s THEN Free ELSE up[v]
    BY <1>1, <1>5
  <2>3. ~HasToken(Free) /\ ~HasToken(up[s]) /\ ~Owns(s, Free) /\ ~Owns(s, up[s])
    BY <1>1, <1>5, FreeIsOK DEF HasToken, Owns, Idle
  <2>4. Tokens' = Tokens
    BY <1>1, <2>2, <2>3 DEF Tokens, Uploaders
  <2>5. marker' => Owned'
    BY <1>1, <2>2, <2>3 DEF IInv, Owned
  <2> QED BY <1>1, <1>2, <1>3, <2>1, <2>4, <2>5, FreeIsOK, PipelineStays, Advance DEF IInv
<1> QED BY <1>4, <1>5

LEMMA ResumeStep ==
  ASSUME IInv, ResumePending
  PROVE  IInv'
<1>1. /\ saved # NoState /\ UNCHANGED <<disk, hosted, limited, row, links, preview, journal, enq>>
  BY DEF ResumePending, record, answers
<1>2. Grows /\ Copies' /\ EnqOK'
  BY <1>1, Same, KeepsCopies DEF IInv, EnqOK
<1>3. CASE saved' \in {saved, NoState} /\ UNCHANGED <<marker, wg, up>>
  <2>1. SavedOK' /\ Flags'
    BY <1>1, <1>2, <1>3, SavedOutlasts, NoStateOK DEF IInv, Flags
  <2> QED BY <1>1, <1>2, <1>3, <2>1, UploadersStay
<1>4. CASE /\ UNCHANGED saved /\ marker' = TRUE /\ wg' = wg + 1
           /\ \E s \in Slots : Idle(s) /\ s # enq.slot /\ Step(s, FromState(saved))
  <2>1. PICK s \in Slots : Idle(s) /\ Step(s, FromState(saved))
    BY <1>4
  <2>2. SavedOK' /\ Flags'
    BY <1>1, <1>2, <1>4, SavedOutlasts DEF IInv, Flags
  <2> DEFINE q == FromState(saved)
  <2>3. saved \in StateType /\ saved.stage \in Stages
    BY <1>1 DEF IInv, SavedOK, StateType
  <2>4. Free \in UploaderType /\ Free.good = {} /\ Free.bare = {} /\ Free.try = {} /\ ~Free.retried
    BY FreeIsOK DEF Free
  <2>5. /\ q \in UploaderType /\ q.pc = "queued" /\ ~q.retried /\ q.good = {} /\ q.bare = {} /\ q.try = {}
        /\ q.links = saved.links /\ q.stage = saved.stage
    BY <2>3, <2>4 DEF FromState, UploaderType, StateType, PipelinePCs
  <2>6. Sent(q, hosted, limited)
    BY <2>5 DEF IInv, SavedOK, Sent
  <2>7. PipelineOK(q, row, Rows)
    <3>1. q.stage \in {"cleanup", "done"} => q.links # {} /\ row /\ q.links \subseteq Rows
      BY <2>3, <2>5 DEF IInv, SavedOK, Stages
    <3> QED BY <2>5, <3>1 DEF PipelineOK, PipelinePCs
  <2> QED BY <1>1, <1>2, <1>4, <2>1, <2>2, <2>5, <2>6, <2>7, Queued
<1> QED BY <1>3, <1>4 DEF ResumePending

LEMMA OtherStep ==
  ASSUME IInv, Stop \/ StopReturns \/ ScanThumbnails \/ FreeDiskSpace
  PROVE  IInv'
<1>1. /\ UNCHANGED <<hosted, limited, row, links, journal, saved, marker, wg, enq, up>>
      /\ disk' \in {disk, FALSE} /\ (preview' = preview \/ preview' = TRUE)
  BY DEF Stop, StopReturns, ScanThumbnails, FreeDiskSpace, record, answers, channel
<1>2. preview' \in BOOLEAN
  BY <1>1 DEF IInv, Flags
<1>3. Flags'
  BY <1>1, <1>2 DEF IInv, Flags
<1>4. disk' = disk \/ Accounted
  <2>1. disk' = disk \/ HasUploadedLinks
    BY DEF Stop, StopReturns, ScanThumbnails, FreeDiskSpace
  <2>2. HasUploadedLinks => With(links, {"url"}) # {} \/ (row /\ With(links, {"empty"}) # {})
    BY DEF HasUploadedLinks, With
  <2> QED BY <2>1, <2>2 DEF IInv, Copies, Accounted, answers
<1>5. Grows /\ Copies' /\ SavedOK' /\ EnqOK'
  BY <1>1, <1>4, Same, KeepsCopies, SavedOutlasts DEF IInv, EnqOK
<1> QED BY <1>1, <1>3, <1>5, UploadersStay

LEMMA CrashStep ==
  ASSUME IInv, Crash
  PROVE  IInv'
<1>1. /\ marker' = FALSE /\ wg' = 0 /\ enq' = [pc |-> "none", slot |-> "none"]
      /\ up' = [u \in Uploaders |-> IF u = "watcher" THEN GoneFor(u) ELSE Free]
      /\ UNCHANGED <<disk, hosted, limited, row, links, preview, journal, saved>>
  BY DEF Crash, record, answers
<1>2. Grows /\ Flags' /\ Copies' /\ SavedOK' /\ EnqOK'
  BY <1>1, Same, KeepsCopies, SavedOutlasts DEF IInv, Flags, EnqOK
<1>3. \A u \in Uploaders : up'[u] \in UploaderType /\ UploaderOK(u, up'[u], hosted', limited', row', Rows', Accounted')
  <2>1. \A u \in Slots : up'[u] = Free
    BY <1>1, UploadAssumption DEF Uploaders
  <2>2. \A u \in Orphans : u \notin Slots /\ up'[u] \in {Free, GoneFor(u)}
    BY <1>1, SlotsApart DEF Uploaders
  <2>3. \A a : OrphanOK(Free, a)
    BY FreeIsOK DEF OrphanOK, OrphanPCs
  <2> QED BY <2>1, <2>2, <2>3, FreeIsOK, GoneIsOK DEF Uploaders, UploaderOK
<1>4. up' \in [Uploaders -> UploaderType]
  BY <1>1, <1>3
<1>5. Tokens' = {}
  BY <1>1, FreeIsOK, UploadAssumption DEF Tokens, HasToken, Uploaders
<1> QED BY <1>1, <1>2, <1>3, <1>4, <1>5, FS_EmptySet DEF IInv

-----------------------------------------------------------------------------
LEMMA Start == Init => IInv
<1> SUFFICES ASSUME Init PROVE IInv
  OBVIOUS
<1>1. Flags
  BY DEF Init, Flags
<1>2. Copies
  BY NothingDone DEF Init, Copies
<1>3. SavedOK
  BY UploadAssumption DEF Init, SavedOK, StateType, NoState
<1>4. EnqOK
  BY DEF Init, EnqOK
<1>5. \A u \in Uploaders : up[u] \in {Free, [Free EXCEPT !.pc = "event"]}
                           /\ (u \in Slots => up[u] = Free)
  BY UploadAssumption DEF Init, Uploaders
<1>6. /\ [Free EXCEPT !.pc = "event"] \in UploaderType
      /\ \A h, m, a : OrphanOK(Free, a) /\ Sent([Free EXCEPT !.pc = "event"], h, m)
                      /\ OrphanOK([Free EXCEPT !.pc = "event"], a)
  <2> DEFINE q == [Free EXCEPT !.pc = "event"]
  <2>1. Free \in UploaderType /\ Free.good = {} /\ Free.bare = {} /\ Free.try = {} /\ Free.links = {}
    BY FreeIsOK DEF Free
  <2>2. q \in UploaderType /\ q.pc = "event" /\ q.good = {} /\ q.bare = {} /\ q.try = {} /\ q.links = {}
    BY <2>1 DEF UploaderType, OrphanPCs
  <2> QED BY <2>2, FreeIsOK DEF Sent, OrphanOK, OrphanPCs
<1>7. up \in [Uploaders -> UploaderType]
  BY <1>5, <1>6, FreeIsOK DEF Init
<1>8. \A u \in Uploaders : UploaderOK(u, up[u], hosted, limited, row, Rows, Accounted)
  BY <1>5, <1>6, FreeIsOK, SlotsApart DEF UploaderOK, Uploaders
<1>9. Tokens = {}
  BY <1>5, FreeIsOK DEF Tokens, HasToken, Uploaders
<1>10. marker => Owned
  BY DEF Init, Owned
<1> QED BY <1>1, <1>2, <1>3, <1>4, <1>7, <1>8, <1>9, <1>10, FS_EmptySet DEF Init, IInv

LEMMA NextStep == IInv /\ [Next]_vars => IInv'
<1> SUFFICES ASSUME IInv, [Next]_vars PROVE IInv'
  OBVIOUS
<1>1. CASE Enqueue
  BY <1>1, ClaimedStep, EnqueueFileStep, BasicsStep, QueuedStateStep DEF Enqueue
<1>2. CASE ResumePending
  BY <1>2, ResumeStep
<1>3. CASE Stop \/ StopReturns \/ ScanThumbnails \/ FreeDiskSpace
  BY <1>3, OtherStep
<1>4. ASSUME NEW s \in Slots, Pipeline(s) PROVE IInv'
  BY <1>4, TakeStep, RetryFiresStep, UploadVideosStep, ThumbnailStep, SaveMetadataStep,
     CleanupStep, FinishStep, AttemptStep, JournalStep, DeleteJournalStep
     DEF Pipeline, Upload, Uploaders
<1>5. ASSUME NEW o \in Orphans, Orphan(o) PROVE IInv'
  BY <1>5, FindStep, JudgeStep, GenerateStep, ClaimStep, RecoverStep, RegenerateStep,
     SaveOrphanStep, RemoveStep, ReturnStep, UnlinkStep, AttemptStep, JournalStep,
     DeleteJournalStep DEF Orphan, Upload, Uploaders
<1>6. CASE Crash
  BY <1>6, CrashStep
<1>7. CASE UNCHANGED vars
  <2>1. Grows /\ UNCHANGED <<up, wg, marker, enq, saved>>
    BY <1>7, Same DEF vars
  <2>2. Flags' /\ Copies' /\ SavedOK' /\ EnqOK'
    BY <1>7, <2>1, KeepsCopies, SavedOutlasts DEF vars, IInv, Flags, EnqOK
  <2>3. \A u \in Uploaders : UploaderOK(u, up[u], hosted', limited', row', Rows', Accounted')
    BY <2>1, Outlasts DEF IInv
  <2> QED BY <2>1, <2>2, <2>3 DEF IInv, Tokens, Owned
<1> QED BY <1>1, <1>2, <1>3, <1>4, <1>5, <1>6, <1>7 DEF Next

LEMMA Always == Spec => []IInv
  BY Start, NextStep, PTL DEF Spec

\* Types; and UploadWg counts the pipelines queued or at work for the first time:
\* one Add for each in Enqueue and ResumePendingPipelines, one Done in
\* processPipeline however often it is retried, so Stop does not wait forever.
THEOREM UploadTyped == Spec => []TypeOK
<1>1. IInv => TypeOK
  <2> SUFFICES ASSUME IInv PROVE TypeOK
    OBVIOUS
  <2>1. \A u \in Uploaders : /\ up[u].try \subseteq Hosts /\ up[u].good \cup up[u].bare \subseteq up[u].try
                             /\ up[u].left \in 0..MaxAttempts /\ up[u].retries \in 0..MaxRetries
    BY Before DEF UploaderType, Sent
  <2>2. Tokens = {s \in Slots : ~up[s].retried /\ up[s].pc \notin {"free", "waiting"}}
    BY DEF Tokens, HasToken
  <2>3. /\ saved.stage \in {"none", "upload", "save", "cleanup", "done"}
        /\ saved.retries \in 0..MaxRetries
    BY DEF IInv, SavedOK, StateType, Stages
  <2>4. /\ hosted \subseteq Hosts /\ limited \subseteq Hosts
        /\ links \in [Hosts -> {"none", "url", "empty"}]
        /\ journal \in [Hosts -> {"none", "url", "empty"}]
    BY DEF IInv, Copies, Entries
  <2>5. wg = Cardinality({s \in Slots : ~up[s].retried /\ up[s].pc \notin {"free", "waiting"}})
    BY <2>2 DEF IInv
  <2>6. disk \in BOOLEAN /\ row \in BOOLEAN /\ preview \in BOOLEAN /\ marker \in BOOLEAN
    BY DEF IInv, Flags
  <2> QED BY <2>1, <2>3, <2>4, <2>5, <2>6 DEF TypeOK
<1> QED BY <1>1, Always, PTL

\* Whoever removes the file - stageCleanup, saveOrphanMetadataAndCleanup, the
\* callers that unlink what they are told was handled, or the disk monitor - and
\* whatever failed or crashed before, a host has a copy of it, unless an upload that
\* ended rate limited, with neither link nor error, has left an empty row in
\* upload_links (the disk monitor goes by the row, disk_monitor.go:240-254) or every
\* host ended so (the journal has them all as successes).
THEOREM FootageKept == Spec => []NoFootageLost
<1>1. IInv => NoFootageLost
  BY DEF IInv, Copies, NoFootageLost
<1> QED BY <1>1, Always, PTL

\* A file in pendingUploads has an owner whose deferred call takes it out.
THEOREM MarkerHasOwner == Spec => []MarkerOwned
<1>1. IInv => MarkerOwned
  <2> SUFFICES ASSUME IInv, marker, enq.pc \notin {"deliver", "add"} PROVE MarkerOwned
    BY DEF MarkerOwned
  <2>1. PICK u \in Uploaders : Owns(u, up[u])
    BY DEF IInv, Owned
  <2>2. CASE u \in Slots
    BY <2>1, <2>2 DEF Owns, MarkerOwned, Running
  <2>3. CASE u \in Orphans
    BY <2>1, <2>3, SlotsApart DEF Owns, MarkerOwned
  <2> QED BY <2>2, <2>3 DEF Uploaders
<1> QED BY <1>1, Always, PTL

\* stageCleanup only ever follows stageSaveMetadata: before it removes the file,
\* in this process or as ResumePendingPipelines takes it up again, the row and
\* a row for every link the pipeline knows of are in the database.
THEOREM CleanupSaved == Spec => []CleanupIsSaved
<1>1. IInv => CleanupIsSaved
  BY Before DEF IInv, SavedOK, PipelineOK, CleanupIsSaved, Uploaders, Rows
<1> QED BY <1>1, Always, PTL
===============================================================================
