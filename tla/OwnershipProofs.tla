--------------------------- MODULE OwnershipProofs ---------------------------
(* Ownership, for any number of nodes, leaders and channels.  Each theorem *)
(* says under which of the constants' settings it holds.                   *)
EXTENDS Ownership, TLAPS

-----------------------------------------------------------------------------
(* The statements of AssignmentStore: they keep the table a table, and the *)
(* triggers bound what a write can do to the owner of a row.               *)

\* A claim redirected by the fair share lands on a node.
LEMMA ClaimTargetIsNode ==
    ASSUME NEW rs, NEW rg, NEW n \in Nodes
    PROVE  ClaimTarget(rs, rg, n) \in Nodes
<1>1. Coldest(rs, rg) \subseteq Nodes
  BY DEF Coldest, Eligible
<1>2. CASE Coldest(rs, rg) # {}
  <2>1. (CHOOSE m \in Coldest(rs, rg) : TRUE) \in Coldest(rs, rg)
    BY <1>2
  <2> QED BY <1>1, <2>1 DEF ClaimTarget
<1>3. CASE Coldest(rs, rg) = {}
  BY <1>3 DEF ClaimTarget
<1> QED BY <1>2, <1>3

\* The triggers never touch the status or the heartbeat; they give an owner
\* only to a row that is written with one or is written as 'recording'; they
\* leave the owner alone when the statement does not change it; and a recording
\* of a live owner that is written with an owner keeps the one it has.
LEMMA TriggersEffect ==
    ASSUME NEW rs, NEW rg, NEW old \in Row, NEW new \in Row
    PROVE  LET res == Triggers(rs, rg, old, new)
           IN  /\ res \in Row
               /\ res.status = new.status
               /\ res.beat = new.beat
               /\ res.owner # NoNode => new.owner # NoNode \/ new.status = "recording"
               /\ new.owner = old.owner => res.owner = old.owner
               /\ new.owner = NoNode /\ new.status # "recording" => res.owner = NoNode
               /\ old.status = "recording" /\ OwnerAlive(rg, old.owner) /\ new.owner # NoNode
                     => res.owner = old.owner
<1> DEFINE fair == EnforceFairShareClaim(rs, rg, old, new)
           live == ProtectLiveOwnerAssignment(rg, old, fair)
<1>1. /\ fair \in Row
      /\ fair.status = new.status /\ fair.beat = new.beat
      /\ (fair.owner = NoNode) <=> (new.owner = NoNode)
      /\ old.owner # NoNode => fair = new
  <2>1. CASE old.owner = NoNode /\ new.owner # NoNode
    <3>1. ClaimTarget(rs, rg, new.owner) \in Nodes
      BY <2>1, ClaimTargetIsNode DEF Row
    <3>2. ClaimTarget(rs, rg, new.owner) # NoNode
      BY <3>1, StoreAssumption
    <3> QED BY <2>1, <3>1, <3>2 DEF EnforceFairShareClaim, Row
  <2>2. CASE ~(old.owner = NoNode /\ new.owner # NoNode)
    BY <2>2 DEF EnforceFairShareClaim
  <2> QED BY <2>1, <2>2
<1>2. old.owner = NoNode /\ new.owner = NoNode => fair = new
  BY DEF EnforceFairShareClaim
<1>3. /\ live \in Row
      /\ live.status = new.status /\ live.beat = new.beat
      /\ (live.owner = NoNode) <=> (new.owner = NoNode)
      /\ new.owner = old.owner => live.owner = old.owner
      /\ old.status = "recording" /\ OwnerAlive(rg, old.owner) /\ new.owner # NoNode
            => live.owner = old.owner
  BY <1>1, <1>2, StoreAssumption DEF ProtectLiveOwnerAssignment, Row, OwnerAlive
<1>4. Triggers(rs, rg, old, new) = ProtectRecordingAssignment(old, live)
  BY DEF Triggers
<1> HIDE DEF fair, live
<1>5. ProtectRecordingAssignment(old, live) =
          IF live.status = "recording" /\ old.owner # live.owner
          THEN [live EXCEPT !.owner = old.owner] ELSE live
  BY DEF ProtectRecordingAssignment
<1> QED BY <1>3, <1>4, <1>5 DEF Row

-----------------------------------------------------------------------------
\* A filtered PATCH of one row keeps the table a table and the other rows as
\* they are; the row itself stays or goes through the triggers.
LEMMA WriteEffect ==
    ASSUME NEW rs \in Table, NEW rg, NEW c \in Channels, NEW cond, NEW new \in Row
    PROVE  LET res == Write(rs, rg, c, cond, new)
           IN  /\ res \in Table
               /\ \A d \in Channels : d # c => res[d] = rs[d]
               /\ res[c] = IF Exists(rs[c]) /\ cond
                           THEN Triggers(rs, rg, rs[c], new) ELSE rs[c]
<1>1. rs[c] \in Row
  BY DEF Table
<1>2. Triggers(rs, rg, rs[c], new) \in Row
  BY <1>1, TriggersEffect
<1> QED BY <1>2 DEF Write, Table

\* The statements that write whole sets of rows keep the table a table.
LEMMA BulkStatementsType ==
    ASSUME NEW rs \in Table, NEW n \in Nodes, NEW protected \in SUBSET Nodes
    PROVE  /\ ReclaimNodeChannels(rs, n) \in Table
           /\ ResetStaleRecordingAssignments(rs, protected) \in Table
<1>1. ReclaimNodeChannels(rs, n) \in Table
  BY DEF ReclaimNodeChannels, Table, Row, RowStatuses
<1>2. ResetStaleRecordingAssignments(rs, protected) \in Table
  BY DEF ResetStaleRecordingAssignments, Table, Row, RowStatuses
<1> QED BY <1>1, <1>2

\* So do the statements that write one row.
LEMMA RowStatementsType ==
    ASSUME NEW rs \in Table, NEW rg, NEW c \in Channels, NEW n \in Nodes,
           NEW from, NEW status \in RowStatuses
    PROVE  /\ ClaimSpecificChannel(rs, rg, c, n) \in Table
           /\ ReassignChannel(rs, rg, c, from, n) \in Table
           /\ ReassertAssignmentNode(rs, rg, c, n, from) \in Table
           /\ MarkChannelRecording(rs, rg, c) \in Table
           /\ SetAssignmentStatus(rs, rg, c, status) \in Table
           /\ ReleaseChannel(rs, rg, c) \in Table
           /\ BulkInsertAssignments(rs, rg, c) \in Table
           /\ DeleteAssignment(rs, c) \in Table
<1>1. rs[c] \in Row /\ ClaimTarget(rs, rg, n) \in Nodes
  BY ClaimTargetIsNode DEF Table
<1>2. /\ [rs[c] EXCEPT !.owner = ClaimTarget(rs, rg, n), !.status = "claimed"] \in Row
      /\ [rs[c] EXCEPT !.owner = n, !.status = "claimed"] \in Row
      /\ [rs[c] EXCEPT !.owner = n] \in Row
      /\ [rs[c] EXCEPT !.status = "recording", !.beat = "fresh"] \in Row
      /\ [rs[c] EXCEPT !.status = status] \in Row
      /\ [rs[c] EXCEPT !.status = "unassigned"] \in Row
      /\ [rs[c] EXCEPT !.owner = NoNode, !.status = "unassigned"] \in Row
  BY <1>1 DEF Row, RowStatuses
<1>3. ClaimSpecificChannel(rs, rg, c, n) \in Table
  BY <1>2, WriteEffect DEF ClaimSpecificChannel
<1>4. ReassignChannel(rs, rg, c, from, n) \in Table
  BY <1>2, WriteEffect DEF ReassignChannel
<1>5. ReassertAssignmentNode(rs, rg, c, n, from) \in Table
  BY <1>2, WriteEffect DEF ReassertAssignmentNode
<1>6. MarkChannelRecording(rs, rg, c) \in Table
  BY <1>2, WriteEffect DEF MarkChannelRecording
<1>7. SetAssignmentStatus(rs, rg, c, status) \in Table
  BY <1>2, WriteEffect DEF SetAssignmentStatus
<1>8. ReleaseChannel(rs, rg, c) \in Table
  BY <1>2, WriteEffect DEF ReleaseChannel
<1>9. BulkInsertAssignments(rs, rg, c) \in Table
  <2>1. Write(rs, rg, c, TRUE, [rs[c] EXCEPT !.status = "unassigned"]) \in Table
    BY <1>2, WriteEffect
  <2> QED BY <2>1 DEF BulkInsertAssignments, Table, Row, RowStatuses
<1>10. DeleteAssignment(rs, c) \in Table
  BY DEF DeleteAssignment, NoRow, Table, Row, RowStatuses
<1> QED BY <1>3, <1>4, <1>5, <1>6, <1>7, <1>8, <1>9, <1>10

-----------------------------------------------------------------------------
(* Typing.                                                                 *)

LEMMA IdleTypes ==
    /\ AnyChannel \in Channels
    /\ NoRow \in Row
    /\ IdleSync \in SyncState
    /\ IdleCtl \in CtlState
<1>1. AnyChannel \in Channels
  BY OwnershipAssumption DEF AnyChannel
<1>2. NoRow \in Row
  BY DEF NoRow, Row, RowStatuses
<1>3. IdleSync \in SyncState
  BY <1>1 DEF IdleSync, SyncState, SyncPCs
<1>4. NoRows \in Table
  BY <1>2 DEF NoRows, Table
<1>5. IdleCtl \in CtlState
  BY <1>4 DEF IdleCtl, CtlState, CtlPCs
<1> QED BY <1>1, <1>2, <1>3, <1>5

\* Passing over empty phases keeps the type and never leads into a re-pin.
LEMMA SettleEffect ==
    ASSUME NEW st \in SyncState, NEW mk \in SUBSET Channels
    PROVE  /\ Settle(st, mk) \in SyncState
           /\ Settle(st, mk).pc = "repin" => Settle(st, mk) = st
<1> DEFINE marking == IF st.pc = "stop" /\ st.todo = {} /\ st.owned \subseteq st.seen
                      THEN [st EXCEPT !.pc = "mark",
                                      !.todo = st.seen \cap (st.owned \cup st.repinned),
                                      !.seen = {}]
                      ELSE st
           ghosts == IF marking.pc = "mark" /\ marking.todo = {}
                     THEN [IdleSync EXCEPT !.pc = "ghost",
                                           !.todo = mk \ (marking.owned \cup marking.repinned)]
                     ELSE marking
<1>1. marking \in SyncState /\ (marking.pc = "repin" => marking = st)
  BY DEF SyncState, SyncPCs
<1> HIDE DEF marking
<1>2. ghosts \in SyncState /\ (ghosts.pc = "repin" => ghosts = marking)
  BY <1>1, IdleTypes DEF SyncState, SyncPCs, IdleSync
<1> HIDE DEF ghosts
<1>3. IdleSync.pc # "repin"
  BY DEF IdleSync
<1>4. Settle(st, mk) = IF ghosts.pc = "ghost" /\ ghosts.todo = {} THEN IdleSync ELSE ghosts
  BY DEF Settle, ghosts, marking
<1> QED BY <1>1, <1>2, <1>3, <1>4, IdleTypes

LEMMA GoToType ==
    ASSUME TypeOK, NEW n \in Nodes, NEW st \in SyncState, NEW mk \in SUBSET Channels,
           GoTo(n, st, mk)
    PROVE  /\ sync' \in [Nodes -> SyncState]
           /\ sync'[n].pc = "repin" => sync'[n] = st
           /\ \A m \in Nodes \ {n} : sync'[m] = sync[m]
BY SettleEffect DEF GoTo, TypeOK

\* A request of a user, the deletion of a row, and the ageing of its heartbeat.
UserStep(c) ==
    \/ AgeBeat(c) \/ PoolRemove(c)
    \/ \E n \in Nodes : \/ UserPause(n, c) \/ UserResume(n, c) \/ UserStop(n, c) \/ StopRelease(n, c)
                       \/ UserCreate(n, c) \/ CreateStore(n, c)
                       \/ PoolLook(n, c) \/ PoolInsert(n, c)

\* A step of the node's own life, the recorder's or a user's.
LEMMA LifecycleType ==
    ASSUME TypeOK, NEW n \in Nodes,
           Lifecycle(n) \/ Recorder(n) \/ Fence(n) \/ Crash(n) \/ Drain(n) \/ AgeNode(n),
           events' \in 0 .. MaxEvents
    PROVE  TypeOK'
<1> USE DEF TypeOK, Phases, nodeVars
<1>1. CASE BootLoad(n)
  BY <1>1 DEF BootLoad, Owned
<1>2. CASE Register(n)
  BY <1>2 DEF Register, Registry, NodeStatuses
<1>3. CASE Heartbeat(n)
  <2>1. reg' \in Registry
    BY <1>3 DEF Heartbeat, Registry, NodeStatuses
  <2> QED BY <1>3, <2>1 DEF Heartbeat
<1>4. CASE FenceStatus(n)
  BY <1>4 DEF FenceStatus, Registry, NodeStatuses
<1>5. CASE FenceRelease(n)
  <2>1. ReclaimNodeChannels(rows, n) \in Table
    BY BulkStatementsType
  <2> QED BY <1>5, <2>1 DEF FenceRelease
<1>6. CASE Shutdown(n)
  BY <1>6 DEF Shutdown, Registry, NodeStatuses
<1>7. CASE AgeNode(n)
  BY <1>7 DEF AgeNode, Registry
<1>8. CASE Recorder(n)
  BY <1>8 DEF Recorder, StartCapture, EndCapture
<1>9. CASE Fence(n)
  BY <1>9 DEF Fence
<1>10. CASE Crash(n)
  BY <1>10, IdleTypes DEF Crash
<1>11. CASE Drain(n)
  BY <1>11 DEF Drain, Registry, NodeStatuses
<1> QED BY <1>1, <1>2, <1>3, <1>4, <1>5, <1>6, <1>7, <1>8, <1>9, <1>10, <1>11 DEF Lifecycle

LEMMA UserType ==
    ASSUME TypeOK, NEW c \in Channels, UserStep(c), events' \in 0 .. MaxEvents
    PROVE  TypeOK'
<1> USE DEF TypeOK, nodeVars
<1>1. CASE AgeBeat(c)
  BY <1>1 DEF AgeBeat, Table, Row
<1>2. CASE PoolRemove(c)
  <2>1. DeleteAssignment(rows, c) \in Table
    BY IdleTypes DEF DeleteAssignment, Table
  <2> QED BY <1>2, <2>1 DEF PoolRemove
<1>3. ASSUME NEW n \in Nodes,
             \/ UserPause(n, c) \/ UserResume(n, c) \/ UserStop(n, c) \/ StopRelease(n, c)
             \/ UserCreate(n, c) \/ CreateStore(n, c) \/ PoolLook(n, c) \/ PoolInsert(n, c)
      PROVE  TypeOK'
  <2>1. /\ ReleaseChannel(rows, reg, c) \in Table
        /\ BulkInsertAssignments(rows, reg, c) \in Table
    BY RowStatementsType DEF RowStatuses
  <2>2. rows' \in Table
    BY <1>3, <2>1 DEF UserPause, UserResume, UserStop, StopRelease, UserCreate, CreateStore,
                      PoolLook, PoolInsert
  <2>3. /\ local' \in [Nodes -> SUBSET Channels] /\ capturing' \in [Nodes -> SUBSET Channels]
        /\ paused' \in [Nodes -> SUBSET Channels]
    BY <1>3 DEF UserPause, UserResume, UserStop, StopRelease, UserCreate, CreateStore,
                PoolLook, PoolInsert
  <2>4. /\ <<"stop", c>> \in Requests /\ <<"create", c>> \in Requests
        /\ <<"add", c>> \in Requests
    BY DEF Requests
  <2>5. requests' \in [Nodes -> SUBSET Requests]
    BY <1>3, <2>4 DEF UserPause, UserResume, UserStop, StopRelease, UserCreate, CreateStore,
                      PoolLook, PoolInsert, Ask, Answer
  <2>6. UNCHANGED <<reg, phase, marked, sync, ctl>>
    BY <1>3 DEF UserPause, UserResume, UserStop, StopRelease, UserCreate, CreateStore,
                PoolLook, PoolInsert
  <2> QED BY <2>2, <2>3, <2>5, <2>6
<1> QED BY <1>1, <1>2, <1>3, UserStep(c) DEF UserStep

LEMMA SyncType ==
    ASSUME TypeOK, NEW n \in Nodes, SyncStep(n), events' \in 0 .. MaxEvents
    PROVE  TypeOK'
<1>0. /\ sync[n] \in SyncState /\ sync[n].chan \in Channels /\ marked[n] \in SUBSET Channels
      /\ \A c \in Channels : Drop(n, c) \in SyncState
  BY DEF TypeOK, SyncState, Drop
<1>1. CASE SyncFetch(n)
  <2>1. [IdleSync EXCEPT !.pc = "list", !.owned = Owned(n)] \in SyncState
    BY IdleTypes DEF TypeOK, SyncState, SyncPCs, Owned
  <2> QED BY <1>1, <2>1 DEF SyncFetch, TypeOK, nodeVars
<1>10. CASE SyncList(n)
  <2>1. [sync[n] EXCEPT !.pc = "stop", !.seen = local[n],
                        !.todo = local[n] \ sync[n].owned] \in SyncState
    BY <1>0 DEF TypeOK, SyncState, SyncPCs
  <2> QED BY <1>0, <1>10, <2>1, GoToType DEF SyncList, TypeOK, nodeVars
<1>2. ASSUME NEW c \in Channels, SyncStop(n, c) PROVE TypeOK'
  BY <1>0, <1>2, GoToType DEF SyncStop, TypeOK
<1>3. ASSUME NEW c \in Channels, SyncLook(n, c) PROVE TypeOK'
  <2>1. [Drop(n, c) EXCEPT !.pc = "repin", !.chan = c, !.owner = rows[c].owner] \in SyncState
    BY <1>0 DEF TypeOK, Table, Row, SyncState, SyncPCs
  <2> QED BY <1>0, <1>3, <2>1, GoToType DEF SyncLook, TypeOK, nodeVars
<1>4. CASE SyncRepin(n)
  <2> DEFINE back == [sync[n] EXCEPT !.pc = "stop", !.chan = AnyChannel, !.owner = NoNode]
  <2>1. /\ back \in SyncState
        /\ [back EXCEPT !.repinned = @ \cup {sync[n].chan}] \in SyncState
    BY <1>0, IdleTypes DEF SyncState, SyncPCs
  <2>2. ReassertAssignmentNode(rows, reg, sync[n].chan, n, sync[n].owner) \in Table
    BY <1>0, RowStatementsType DEF TypeOK, RowStatuses
  <2> QED BY <1>0, <1>4, <2>1, <2>2, GoToType DEF SyncRepin, TypeOK, nodeVars
<1>5. CASE SyncStart(n)
  <2>1. /\ [sync[n] EXCEPT !.pc = "mark",
                           !.todo = sync[n].seen \cap (sync[n].owned \cup sync[n].repinned),
                           !.seen = {}] \in SyncState
        /\ sync[n].owned \subseteq Channels
    BY <1>0 DEF SyncState, SyncPCs
  <2> QED BY <1>0, <1>5, <2>1, GoToType DEF SyncStart, TypeOK
<1>6. ASSUME NEW c \in Channels, SyncJudge(n, c) PROVE TypeOK'
  <2>1. /\ [Drop(n, c) EXCEPT !.pc = "marking", !.chan = c] \in SyncState
        /\ [Drop(n, c) EXCEPT !.pc = "resetting", !.chan = c] \in SyncState
    BY <1>0 DEF SyncState, SyncPCs
  <2>2. \E st \in SyncState : GoTo(n, st, marked[n])
    BY <1>0, <1>6, <2>1 DEF SyncJudge
  <2> QED BY <1>0, <1>6, <2>2, GoToType DEF SyncJudge, TypeOK, nodeVars
<1>7. CASE SyncMark(n) \/ SyncReset(n)
  <2>1. Marking(n) \in SyncState
    BY <1>0, IdleTypes DEF Marking, SyncState, SyncPCs
  <2>2. /\ MarkChannelRecording(rows, reg, sync[n].chan) \in Table
        /\ SetAssignmentStatus(rows, reg, sync[n].chan, "claimed") \in Table
    BY <1>0, RowStatementsType DEF TypeOK, RowStatuses
  <2>3. marked' \in [Nodes -> SUBSET Channels]
    BY <1>0, <1>7 DEF SyncMark, SyncReset, TypeOK
  <2> QED BY <1>7, <2>1, <2>2, <2>3, GoToType DEF SyncMark, SyncReset, TypeOK, nodeVars
<1>8. ASSUME NEW c \in Channels, SyncGhostLook(n, c) PROVE TypeOK'
  <2>1. [Drop(n, c) EXCEPT !.pc = "clear", !.chan = c] \in SyncState
    BY <1>0 DEF SyncState, SyncPCs
  <2> QED BY <1>0, <1>8, <2>1, GoToType DEF SyncGhostLook, TypeOK, nodeVars
<1>9. CASE SyncGhostClear(n)
  <2>1. [sync[n] EXCEPT !.pc = "ghost", !.chan = AnyChannel] \in SyncState
    BY <1>0, IdleTypes DEF SyncState, SyncPCs
  <2>2. SetAssignmentStatus(rows, reg, sync[n].chan, "claimed") \in Table
    BY <1>0, RowStatementsType DEF TypeOK, RowStatuses
  <2> QED BY <1>0, <1>9, <2>1, <2>2, GoToType DEF SyncGhostClear, TypeOK, nodeVars
<1> QED BY <1>1, <1>2, <1>3, <1>4, <1>5, <1>6, <1>7, <1>8, <1>9, <1>10, SyncStep(n) DEF SyncStep

LEMMA CtlType ==
    ASSUME TypeOK, NEW n \in Leaders, CtlStep(n), events' \in 0 .. MaxEvents
    PROVE  TypeOK'
<1>0. /\ n \in Nodes /\ ctl[n] \in CtlState
      /\ \A k \in CtlState : CtlSet(n, k) => ctl' \in [Leaders -> CtlState]
  BY OwnershipAssumption DEF TypeOK, CtlSet
<1>1. CASE CtlNodes(n)
  <2>1. [IdleCtl EXCEPT !.pc = "rows", !.active = FreshNodes, !.protected = ProtectedOwners,
             !.reclaim = DrainingNodes \cup LongGone,
             !.held = Known \ (FreshNodes \cup DrainingNodes \cup LongGone)] \in CtlState
    BY IdleTypes DEF CtlState, CtlPCs, FreshNodes, ProtectedOwners, DrainingNodes, LongGone, Known
  <2> QED BY <1>0, <1>1, <2>1 DEF CtlNodes, TypeOK, nodeVars
<1>2. CASE CtlRows(n)
  <2>1. [ctl[n] EXCEPT !.pc = "reclaim", !.all = rows] \in CtlState
    BY <1>0 DEF CtlState, CtlPCs, TypeOK
  <2> QED BY <1>0, <1>2, <2>1 DEF CtlRows, TypeOK, nodeVars
<1>3. ASSUME NEW d \in Nodes, CtlReclaim(n, d) PROVE TypeOK'
  <2>1. [ctl[n] EXCEPT !.reclaim = @ \ {d}] \in CtlState
    BY <1>0 DEF CtlState
  <2>2. ReclaimNodeChannels(rows, d) \in Table
    BY BulkStatementsType DEF TypeOK
  <2> QED BY <1>0, <1>3, <2>1, <2>2 DEF CtlReclaim, TypeOK, nodeVars
<1>4. CASE CtlReset(n)
  <2> DEFINE k == ctl[n]
             all(done) == [c \in Channels |-> IF c \in done THEN [k.all[c] EXCEPT !.status = "claimed"]
                                              ELSE k.all[c]]
             pool(t) == {c \in Channels : /\ Exists(t[c]) /\ t[c].owner \notin k.held
                                          /\ ~(t[c].status = "recording"
                                               /\ t[c].owner \in k.protected)}
             sweep(t) == IF k.active = {} \/ pool(t) = {} THEN IdleCtl
                         ELSE [IdleCtl EXCEPT !.pc = "sweep", !.active = k.active, !.all = t,
                                              !.todo = pool(t)]
             reset == {c \in Channels : StaleUnprotected(rows[c], k.protected)}
             done == {c \in reset : Exists(k.all[c])}
  <2>1. k.all \in Table /\ k.active \subseteq Nodes /\ k.protected \in SUBSET Nodes
    BY <1>0 DEF CtlState
  <2>2. all(done) \in Table
    BY <2>1 DEF Table, Row, RowStatuses
  <2>3. ASSUME NEW t \in Table PROVE sweep(t) \in CtlState
    <3>1. pool(t) \subseteq Channels
      OBVIOUS
    <3> HIDE DEF pool, k
    <3>2. [IdleCtl EXCEPT !.pc = "sweep", !.active = k.active, !.all = t, !.todo = pool(t)]
             \in CtlState
      BY <2>1, <3>1, IdleTypes DEF CtlState, CtlPCs
    <3> QED BY <3>2, IdleTypes
  <2>4. ResetStaleRecordingAssignments(rows, k.protected) \in Table
    BY <1>0, <2>1, BulkStatementsType DEF TypeOK
  <2>5. \/ rows' = ResetStaleRecordingAssignments(rows, k.protected) /\ CtlSet(n, sweep(all(done)))
        \/ rows' = rows /\ CtlSet(n, sweep(k.all))
    BY <1>4 DEF CtlReset
  <2>6. UNCHANGED <<reg, nodeVars, marked, sync>>
    BY <1>4 DEF CtlReset
  <2>7. sweep(all(done)) \in CtlState /\ sweep(k.all) \in CtlState
    BY <2>1, <2>2, <2>3
  <2> HIDE DEF sweep, all, done, k
  <2> QED BY <1>0, <2>4, <2>5, <2>6, <2>7 DEF TypeOK, nodeVars
<1>5. ASSUME NEW c \in Channels, CtlSweep(n, c) PROVE TypeOK'
  <2>1. [ctl[n] EXCEPT !.todo = @ \ {c}] \in CtlState
    BY <1>0 DEF CtlState
  <2>2. ctl' \in [Leaders -> CtlState]
    BY <1>0, <1>5, <2>1, IdleTypes DEF CtlSweep
  <2>3. \A m \in Nodes : \A from : /\ ClaimSpecificChannel(rows, reg, c, m) \in Table
                                   /\ ReassignChannel(rows, reg, c, from, m) \in Table
    BY RowStatementsType DEF TypeOK, RowStatuses
  <2>4. ctl[n].active \subseteq Nodes
    BY <1>0 DEF CtlState
  <2>5. rows' \in Table
    BY <1>5, <2>3, <2>4 DEF CtlSweep
  <2> QED BY <1>5, <2>2, <2>5 DEF CtlSweep, TypeOK, nodeVars
<1>6. CASE CtlEnd(n)
  BY <1>0, <1>6, IdleTypes DEF CtlEnd, TypeOK, nodeVars
<1> QED BY <1>1, <1>2, <1>3, <1>4, <1>5, <1>6, CtlStep(n) DEF CtlStep

\* Every step is a step of one actor.
LEMMA StepCases ==
    ASSUME TypeOK, [Next]_vars
    PROVE  /\ events' \in 0 .. MaxEvents
           /\ \/ UNCHANGED vars
              \/ \E n \in Nodes : \/ Lifecycle(n) \/ Recorder(n) \/ Fence(n) \/ Crash(n)
                                  \/ Drain(n) \/ AgeNode(n)
              \/ \E c \in Channels : UserStep(c)
              \/ \E n \in Nodes : SyncStep(n)
              \/ \E n \in Leaders : CtlStep(n)
<1>1. CASE UNCHANGED vars
  BY <1>1 DEF vars, TypeOK
<1>2. CASE Next
  BY <1>2, OwnershipAssumption DEF Next, Misfortune, Request, UserStep, TypeOK
<1> QED BY <1>1, <1>2

LEMMA TypeStep == TypeOK /\ [Next]_vars => TypeOK'
<1> SUFFICES ASSUME TypeOK, [Next]_vars PROVE TypeOK'
  OBVIOUS
<1>1. CASE UNCHANGED vars
  BY <1>1 DEF vars, TypeOK
<1> QED BY <1>1, StepCases, LifecycleType, UserType, SyncType, CtlType

LEMMA TypeInit == Init => TypeOK
BY IdleTypes, OwnershipAssumption
   DEF Init, TypeOK, Table, Row, RowStatuses, NoRow, Registry, NodeStatuses, Phases

\* Every variable keeps the type the code gives it, whatever the constants.
THEOREM Typed == Spec => []TypeOK
BY TypeInit, TypeStep, PTL DEF Spec

-----------------------------------------------------------------------------
(* Where orphan rows come from.  What the proof needs beyond the type is that *)
(* a re-pin never carries the NULL owner: it would give an owner to a released *)
(* row and leave its status alone.                                            *)

RepinHasOwner == \A n \in Nodes : sync[n].pc = "repin" => sync[n].owner # NoNode

\* A write that is not an orphan itself does not become one in the triggers.
LEMMA WriteNoOrphan ==
    ASSUME NEW r \in Table, NEW g, NEW c \in Channels, NEW cond, NEW new \in Row,
           NEW d \in Channels, ~Orphan(r[d]),
           c = d /\ Exists(r[c]) /\ cond => ~Orphan(new)
    PROVE  ~Orphan(Write(r, g, c, cond, new)[d])
<1>1. r[c] \in Row
  BY DEF Table
<1> QED BY <1>1, WriteEffect, TriggersEffect DEF Orphan

\* No statement of the program makes an orphan, if it re-pins only away from a
\* node and upserts nothing.
LEMMA StatementsNoOrphan ==
    ASSUME NEW r \in Table, NEW g, NEW c \in Channels, NEW n \in Nodes,
           NEW from \in Nodes,
           NEW d \in Channels, ~Orphan(r[d])
    PROVE  /\ ~Orphan(ClaimSpecificChannel(r, g, c, n)[d])
           /\ ~Orphan(ReassignChannel(r, g, c, from, n)[d])
           /\ ~Orphan(ReassertAssignmentNode(r, g, c, n, from)[d])
           /\ ~Orphan(MarkChannelRecording(r, g, c)[d])
           /\ ~Orphan(SetAssignmentStatus(r, g, c, "claimed")[d])
           /\ ~Orphan(ReleaseChannel(r, g, c)[d])
           /\ ~Orphan(ReclaimNodeChannels(r, n)[d])
<1>1. r[c] \in Row /\ ClaimTarget(r, g, n) \in Nodes /\ NoNode \notin Nodes
  BY ClaimTargetIsNode, StoreAssumption DEF Table
<1>2. ASSUME NEW m \in Nodes
      PROVE  /\ [r[c] EXCEPT !.owner = m, !.status = "claimed"] \in Row
             /\ ~Orphan([r[c] EXCEPT !.owner = m, !.status = "claimed"])
  BY <1>1 DEF Row, RowStatuses, Orphan
<1>3. ~Orphan(ClaimSpecificChannel(r, g, c, n)[d])
  BY <1>1, <1>2, WriteNoOrphan DEF ClaimSpecificChannel
<1>4. ~Orphan(ReassignChannel(r, g, c, from, n)[d])
  BY <1>1, <1>2, WriteNoOrphan DEF ReassignChannel
<1>5. ~Orphan(ReassertAssignmentNode(r, g, c, n, from)[d])
  <2>1. [r[c] EXCEPT !.owner = n] \in Row
    BY <1>1 DEF Row
  <2>2. c = d /\ r[c].owner = from => ~Orphan([r[c] EXCEPT !.owner = n])
    BY <1>1 DEF Row, Orphan
  <2> QED BY <2>1, <2>2, WriteNoOrphan DEF ReassertAssignmentNode
<1>6. ~Orphan(MarkChannelRecording(r, g, c)[d])
  <2>1. /\ [r[c] EXCEPT !.status = "recording", !.beat = "fresh"] \in Row
        /\ ~Orphan([r[c] EXCEPT !.status = "recording", !.beat = "fresh"])
    BY <1>1 DEF Row, RowStatuses, Orphan
  <2> QED BY <2>1, WriteNoOrphan DEF MarkChannelRecording
<1>7. ~Orphan(SetAssignmentStatus(r, g, c, "claimed")[d])
  <2>1. /\ [r[c] EXCEPT !.status = "claimed"] \in Row
        /\ ~Orphan([r[c] EXCEPT !.status = "claimed"])
    BY <1>1 DEF Row, RowStatuses, Orphan
  <2> QED BY <2>1, WriteNoOrphan DEF SetAssignmentStatus
<1>8. ~Orphan(ReleaseChannel(r, g, c)[d])
  <2>1. /\ [r[c] EXCEPT !.owner = NoNode, !.status = "unassigned"] \in Row
        /\ ~Orphan([r[c] EXCEPT !.owner = NoNode, !.status = "unassigned"])
    BY <1>1 DEF Row, RowStatuses, Orphan
  <2> QED BY <2>1, WriteNoOrphan DEF ReleaseChannel
<1>9. ~Orphan(ReclaimNodeChannels(r, n)[d])
  <2>1. r[d] \in Row
    BY DEF Table
  <2> QED BY <2>1 DEF ReclaimNodeChannels, Orphan, Row
<1> QED BY <1>3, <1>4, <1>5, <1>6, <1>7, <1>8, <1>9

\* A row without an owner is upserted without one, and a deleted row has none.
LEMMA UpsertOrphan ==
    ASSUME NEW r \in Table, NEW g, NEW c \in Channels, NEW d \in Channels, ~Orphan(r[d])
    PROVE  /\ ~Orphan(DeleteAssignment(r, c)[d])
           /\ Orphan(BulkInsertAssignments(r, g, c)[d]) => c = d /\ r[d].owner # NoNode
<1>1. /\ ~Orphan(NoRow)
      /\ ~Orphan([owner |-> NoNode, status |-> "unassigned", beat |-> "stale"])
      /\ r[c] \in Row
  BY DEF NoRow, Orphan, Table
<1>2. ~Orphan(DeleteAssignment(r, c)[d])
  BY <1>1 DEF DeleteAssignment, Table
<1>3. CASE Exists(r[c])
  <2>1. [r[c] EXCEPT !.status = "unassigned"] \in Row
    BY <1>1 DEF Row, RowStatuses
  <2>2. r[c].owner = NoNode => ~Orphan([r[c] EXCEPT !.status = "unassigned"])
    BY <1>1 DEF Orphan, Row
  <2>3. c # d \/ r[d].owner = NoNode =>
            ~Orphan(Write(r, g, c, TRUE, [r[c] EXCEPT !.status = "unassigned"])[d])
    BY <2>1, <2>2, WriteNoOrphan
  <2> QED BY <1>2, <1>3, <2>3 DEF BulkInsertAssignments
<1>4. CASE ~Exists(r[c])
  BY <1>1, <1>2, <1>4 DEF BulkInsertAssignments, Table
<1> QED BY <1>3, <1>4

\* The sync cycle: the looked-up owner of a re-pin is a node, and it stays in
\* the cycle's record until the PATCH.
LEMMA RepinStep ==
    ASSUME TypeOK, RepinHasOwner, [Next]_vars
    PROVE  RepinHasOwner'
<1> SUFFICES ASSUME NEW n \in Nodes, sync'[n].pc = "repin" PROVE sync'[n].owner # NoNode
  BY DEF RepinHasOwner
<1>0. TypeOK /\ (sync[n].pc = "repin" => sync[n].owner # NoNode)
  BY DEF RepinHasOwner
<1>1. CASE UNCHANGED sync
  BY <1>0, <1>1
<1>2. ASSUME NEW m \in Nodes, Crash(m) PROVE sync'[n].owner # NoNode
  <2>1. IdleSync.pc # "repin" /\ sync \in [Nodes -> SyncState]
    BY <1>0 DEF IdleSync, TypeOK
  <2> QED BY <1>0, <1>2, <2>1 DEF Crash
<1>3. ASSUME NEW m \in Nodes, SyncStep(m) PROVE sync'[n].owner # NoNode
  <2>0. /\ sync[m] \in SyncState /\ marked[m] \in SUBSET Channels
        /\ marked'[m] \in SUBSET Channels /\ sync[m].chan \in Channels
        /\ \A c \in Channels : Drop(m, c) \in SyncState
    <3>1. TypeOK'
      BY <1>0, TypeStep
    <3>2. marked'[m] \in SUBSET Channels
      BY <3>1 DEF TypeOK
    <3>3. sync[m] \in SyncState /\ marked[m] \in SUBSET Channels
      BY <1>0 DEF TypeOK
    <3> QED BY <3>2, <3>3 DEF SyncState, Drop
  <2>1. ASSUME NEW st \in SyncState, NEW mk \in SUBSET Channels, GoTo(m, st, mk),
               st.pc = "repin" => st.owner # NoNode
        PROVE  sync'[n].owner # NoNode
    BY <1>0, <2>1, GoToType
  <2>2. CASE SyncFetch(m)
    <3>1. [IdleSync EXCEPT !.pc = "list", !.owned = Owned(m)].pc = "list"
      BY DEF IdleSync
    <3> QED BY <1>0, <2>2, <3>1 DEF SyncFetch, TypeOK
  <2>11. CASE SyncList(m)
    <3>1. [sync[m] EXCEPT !.pc = "stop", !.seen = local[m],
                          !.todo = local[m] \ sync[m].owned] \in SyncState
      BY <1>0, <2>0 DEF TypeOK, SyncState, SyncPCs
    <3>2. [sync[m] EXCEPT !.pc = "stop", !.seen = local[m],
                          !.todo = local[m] \ sync[m].owned].pc = "stop"
      BY <2>0 DEF SyncState
    <3> QED BY <2>0, <2>1, <2>11, <3>1, <3>2 DEF SyncList
  <2>3. ASSUME NEW c \in Channels, SyncStop(m, c) PROVE sync'[n].owner # NoNode
    <3>1. Drop(m, c).pc = "stop"
      BY <2>0, <2>3 DEF SyncStop, Drop, SyncState
    <3> QED BY <2>0, <2>1, <2>3, <3>1 DEF SyncStop
  <2>4. ASSUME NEW c \in Channels, SyncLook(m, c) PROVE sync'[n].owner # NoNode
    <3> DEFINE st == [Drop(m, c) EXCEPT !.pc = "repin", !.chan = c, !.owner = rows[c].owner]
    <3>1. st \in SyncState /\ st.owner = rows[c].owner
      BY <1>0, <2>0 DEF TypeOK, Table, Row, SyncState, SyncPCs
    <3>2. Drop(m, c).pc = "stop"
      BY <2>0, <2>4 DEF SyncLook, Drop, SyncState
    <3> QED BY <2>0, <2>1, <2>4, <3>1, <3>2 DEF SyncLook
  <2>5. CASE SyncRepin(m)
    <3> DEFINE back == [sync[m] EXCEPT !.pc = "stop", !.chan = AnyChannel, !.owner = NoNode]
    <3>1. /\ back \in SyncState /\ back.pc = "stop"
          /\ [back EXCEPT !.repinned = @ \cup {sync[m].chan}] \in SyncState
          /\ [back EXCEPT !.repinned = @ \cup {sync[m].chan}].pc = "stop"
      BY <2>0, IdleTypes DEF SyncState, SyncPCs
    <3> QED BY <2>0, <2>1, <2>5, <3>1 DEF SyncRepin
  <2>6. CASE SyncStart(m)
    <3> DEFINE st == [sync[m] EXCEPT !.pc = "mark",
                           !.todo = sync[m].seen \cap (sync[m].owned \cup sync[m].repinned),
                           !.seen = {}]
    <3>1. st \in SyncState /\ st.pc = "mark"
      BY <2>0 DEF SyncState, SyncPCs
    <3> QED BY <2>0, <2>1, <2>6, <3>1 DEF SyncStart
  <2>7. ASSUME NEW c \in Channels, SyncJudge(m, c) PROVE sync'[n].owner # NoNode
    <3>1. /\ [Drop(m, c) EXCEPT !.pc = "marking", !.chan = c] \in SyncState
          /\ [Drop(m, c) EXCEPT !.pc = "marking", !.chan = c].pc = "marking"
          /\ [Drop(m, c) EXCEPT !.pc = "resetting", !.chan = c] \in SyncState
          /\ [Drop(m, c) EXCEPT !.pc = "resetting", !.chan = c].pc = "resetting"
      BY <2>0 DEF SyncState, SyncPCs
    <3>2. Drop(m, c).pc = "mark"
      BY <2>0, <2>7 DEF SyncJudge, Drop, SyncState
    <3>3. \E st \in SyncState : GoTo(m, st, marked[m]) /\ st.pc # "repin"
      BY <2>0, <2>7, <3>1, <3>2 DEF SyncJudge
    <3> QED BY <2>0, <2>1, <3>3
  <2>8. CASE SyncMark(m) \/ SyncReset(m)
    <3>1. Marking(m) \in SyncState /\ Marking(m).pc = "mark"
      BY <2>0, IdleTypes DEF Marking, SyncState, SyncPCs
    <3> QED BY <2>0, <2>1, <2>8, <3>1 DEF SyncMark, SyncReset
  <2>9. ASSUME NEW c \in Channels, SyncGhostLook(m, c) PROVE sync'[n].owner # NoNode
    <3>1. /\ [Drop(m, c) EXCEPT !.pc = "clear", !.chan = c] \in SyncState
          /\ [Drop(m, c) EXCEPT !.pc = "clear", !.chan = c].pc = "clear"
      BY <2>0 DEF SyncState, SyncPCs
    <3>2. Drop(m, c).pc = "ghost"
      BY <2>0, <2>9 DEF SyncGhostLook, Drop, SyncState
    <3> QED BY <2>0, <2>1, <2>9, <3>1, <3>2 DEF SyncGhostLook
  <2>10. CASE SyncGhostClear(m)
    <3>1. /\ [sync[m] EXCEPT !.pc = "ghost", !.chan = AnyChannel] \in SyncState
          /\ [sync[m] EXCEPT !.pc = "ghost", !.chan = AnyChannel].pc = "ghost"
      BY <2>0, IdleTypes DEF SyncState, SyncPCs
    <3> QED BY <2>0, <2>1, <2>10, <3>1 DEF SyncGhostClear
  <2> QED BY <1>3, <2>2, <2>3, <2>4, <2>5, <2>6, <2>7, <2>8, <2>9, <2>10, <2>11
      DEF SyncStep
<1>4. UNCHANGED sync \/ (\E m \in Nodes : Crash(m) \/ SyncStep(m))
  <2>1. ASSUME NEW m \in Nodes, Lifecycle(m) \/ Recorder(m) \/ Fence(m) \/ Drain(m) \/ AgeNode(m)
        PROVE  UNCHANGED sync
    BY <2>1 DEF Lifecycle, Recorder, BootLoad, Register, Heartbeat, FenceStatus, FenceRelease,
                Shutdown, AgeNode, Fence, Drain, StartCapture, EndCapture
  <2>2. ASSUME NEW c \in Channels, UserStep(c) PROVE UNCHANGED sync
    BY <2>2 DEF UserStep, AgeBeat, PoolRemove, UserPause, UserResume, UserStop, StopRelease,
                UserCreate, CreateStore, PoolLook, PoolInsert
  <2>3. ASSUME NEW m \in Leaders, CtlStep(m) PROVE UNCHANGED sync
    BY <2>3 DEF CtlStep, CtlNodes, CtlRows, CtlReclaim, CtlReset, CtlSweep, CtlEnd
  <2> QED BY <1>0, <2>1, <2>2, <2>3, StepCases DEF vars
<1> QED BY <1>1, <1>2, <1>3, <1>4

\* Of all the statements the steps issue only an upsert over a row with an owner
\* makes an orphan.
LEMMA OrphanStep ==
    ASSUME TypeOK, RepinHasOwner, [Next]_vars, NEW d \in Channels, ~Orphan(rows[d])
    PROVE  \/ ~Orphan(rows'[d])
           \/ /\ rows[d].owner # NoNode
              /\ rows' = BulkInsertAssignments(rows, reg, d)
              /\ UNCHANGED <<phase, sync, ctl>>
<1>0. /\ rows \in Table /\ d \in Channels /\ ~Orphan(rows[d])
      /\ \A n \in Nodes : sync[n].pc = "repin" => sync[n].owner \in Nodes
      /\ \A n \in Nodes : sync[n].chan \in Channels
  BY DEF TypeOK, RepinHasOwner, SyncState
<1>q. ASSUME NEW c \in Channels, NEW n \in Nodes, NEW from \in Nodes
      PROVE  /\ ~Orphan(ClaimSpecificChannel(rows, reg, c, n)[d])
             /\ ~Orphan(ReassignChannel(rows, reg, c, from, n)[d])
             /\ ~Orphan(ReassertAssignmentNode(rows, reg, c, n, from)[d])
             /\ ~Orphan(MarkChannelRecording(rows, reg, c)[d])
             /\ ~Orphan(SetAssignmentStatus(rows, reg, c, "claimed")[d])
             /\ ~Orphan(ReleaseChannel(rows, reg, c)[d])
             /\ ~Orphan(ReclaimNodeChannels(rows, n)[d])
  BY <1>0, StatementsNoOrphan
<1>1. CASE UNCHANGED rows
  BY <1>0, <1>1
<1>2. ASSUME NEW n \in Nodes, FenceRelease(n) PROVE ~Orphan(rows'[d])
  BY <1>0, <1>2, <1>q, OwnershipAssumption DEF FenceRelease
<1>3. ASSUME NEW c \in Channels, UserStep(c)
      PROVE  \/ ~Orphan(rows'[d])
             \/ /\ rows[d].owner # NoNode
                /\ rows' = BulkInsertAssignments(rows, reg, d)
                /\ UNCHANGED <<phase, sync, ctl>>
  <2>1. CASE AgeBeat(c)
    BY <1>0, <2>1 DEF AgeBeat, Orphan, Table, Row
  <2>2. CASE PoolRemove(c)
    BY <1>0, <2>2, UpsertOrphan DEF PoolRemove
  <2>3. ASSUME NEW n \in Nodes, StopRelease(n, c) PROVE ~Orphan(rows'[d])
    BY <2>3, <1>q DEF StopRelease
  <2>4. ASSUME rows' = BulkInsertAssignments(rows, reg, c), Orphan(rows'[d])
        PROVE  c = d /\ rows[d].owner # NoNode
    BY <1>0, <2>4, UpsertOrphan
  <2>5. \/ AgeBeat(c) \/ PoolRemove(c) \/ UNCHANGED rows
        \/ (\E n \in Nodes : StopRelease(n, c))
        \/ /\ rows' = BulkInsertAssignments(rows, reg, c)
           /\ UNCHANGED <<phase, sync, ctl>>
    BY <1>3 DEF UserStep, UserPause, UserResume, UserStop, UserCreate, CreateStore, PoolLook,
                PoolInsert
  <2> QED BY <1>1, <2>1, <2>2, <2>3, <2>4, <2>5
<1>4. ASSUME NEW n \in Nodes, SyncStep(n) PROVE ~Orphan(rows'[d])
  <2>1. CASE SyncRepin(n)
    BY <1>0, <2>1, <1>q DEF SyncRepin
  <2>2. CASE SyncMark(n) \/ SyncReset(n) \/ SyncGhostClear(n)
    BY <1>0, <2>2, <1>q DEF SyncMark, SyncReset, SyncGhostClear
  <2>3. \/ SyncRepin(n) \/ SyncMark(n) \/ SyncReset(n) \/ SyncGhostClear(n)
        \/ UNCHANGED rows
    BY <1>4 DEF SyncStep, SyncFetch, SyncList, SyncStop, SyncLook, SyncStart, SyncJudge, SyncGhostLook
  <2> QED BY <1>1, <2>1, <2>2, <2>3
<1>5. ASSUME NEW n \in Leaders, CtlStep(n) PROVE ~Orphan(rows'[d])
  <2>0. n \in Nodes /\ ctl[n] \in CtlState
    BY OwnershipAssumption DEF TypeOK
  <2>1. ASSUME NEW m \in Nodes, CtlReclaim(n, m) PROVE ~Orphan(rows'[d])
    BY <1>0, <2>1, <1>q, OwnershipAssumption DEF CtlReclaim
  <2>2. CASE CtlReset(n)
    <3>1. ctl[n].protected \in SUBSET Nodes
      BY <2>0 DEF CtlState
    <3>2. ~Orphan(ResetStaleRecordingAssignments(rows, ctl[n].protected)[d])
      <4>1. rows[d] \in Row
        BY <1>0 DEF Table
      <4> QED BY <1>0, <4>1 DEF ResetStaleRecordingAssignments, Orphan, Row
    <3> QED BY <1>0, <2>2, <3>2 DEF CtlReset
  <2>3. ASSUME NEW c \in Channels, CtlSweep(n, c) PROVE ~Orphan(rows'[d])
    <3>1. ctl[n].active \subseteq Nodes /\ ctl[n].all[c].owner \in Nodes \cup {NoNode}
      BY <2>0 DEF CtlState, Table, Row
    <3> QED BY <1>0, <2>3, <3>1, <1>q DEF CtlSweep
  <2>4. \/ CtlReset(n) \/ (\E m \in Nodes : CtlReclaim(n, m))
        \/ (\E c \in Channels : CtlSweep(n, c)) \/ UNCHANGED rows
    BY <1>5 DEF CtlStep, CtlNodes, CtlRows, CtlEnd
  <2> QED BY <1>1, <2>1, <2>2, <2>3, <2>4
<1>6. ASSUME NEW n \in Nodes,
             Lifecycle(n) \/ Recorder(n) \/ Fence(n) \/ Crash(n) \/ Drain(n) \/ AgeNode(n)
      PROVE  FenceRelease(n) \/ UNCHANGED rows
  BY <1>6 DEF Lifecycle, Recorder, BootLoad, Register, Heartbeat, FenceStatus, Shutdown, AgeNode,
              Fence, Crash, Drain, StartCapture, EndCapture
<1> QED BY <1>1, <1>2, <1>3, <1>4, <1>5, <1>6, StepCases DEF vars

LEMMA RepinInit == Init => RepinHasOwner
<1>1. IdleSync.pc # "repin"
  BY DEF IdleSync
<1> QED BY <1>1 DEF Init, RepinHasOwner

\* Whatever crashes, fails, goes stale or runs twice, a row with an owner and no
\* status comes from the upsert of a user's add or create over an owned row.
THEOREM OrphansComeFromUpserts == Spec => OrphanedOnlyByUpsert
<1>1. TypeOK /\ RepinHasOwner /\ [Next]_vars => RepinHasOwner'
  BY RepinStep
<1>2. TypeOK /\ RepinHasOwner /\ [Next]_vars =>
          [\A c \in Channels :
              ~Orphan(rows[c]) /\ Orphan(rows'[c]) =>
                  /\ rows[c].owner # NoNode
                  /\ rows' = BulkInsertAssignments(rows, reg, c)
                  /\ UNCHANGED <<phase, sync, ctl>>]_vars
  BY OrphanStep
<1> QED BY <1>1, <1>2, RepinInit, Typed, PTL DEF Spec, OrphanedOnlyByUpsert

-----------------------------------------------------------------------------
(* A live recording keeps its owner.                                         *)

\* No statement but a release or a deletion changes the owner of a row that is
\* marked 'recording' while its owner is alive: this is what the two triggers
\* and the filters of the statements are for.
LEMMA StatementsKeepPin ==
    ASSUME NEW r \in Table, NEW g, NEW c \in Channels, NEW n \in Nodes,
           NEW from,
           NEW d \in Channels, r[d].status = "recording", OwnerAlive(g, r[d].owner)
    PROVE  /\ ClaimSpecificChannel(r, g, c, n)[d].owner = r[d].owner
           /\ ReassignChannel(r, g, c, from, n)[d].owner = r[d].owner
           /\ ReassertAssignmentNode(r, g, c, n, from)[d].owner = r[d].owner
           /\ MarkChannelRecording(r, g, c)[d].owner = r[d].owner
           /\ SetAssignmentStatus(r, g, c, "claimed")[d].owner = r[d].owner
           /\ BulkInsertAssignments(r, g, c)[d].owner = r[d].owner
           /\ ReclaimNodeChannels(r, n)[d].owner = r[d].owner
<1>1. /\ r[c] \in Row /\ r[d] \in Row /\ ClaimTarget(r, g, n) \in Nodes
      /\ r[d].owner \in Nodes /\ NoNode \notin Nodes
  BY ClaimTargetIsNode, StoreAssumption DEF Table, OwnerAlive
<1>2. ASSUME NEW cond, NEW new \in Row, new.owner # NoNode \/ new.owner = r[c].owner
      PROVE  Write(r, g, c, cond, new)[d].owner = r[d].owner
  BY <1>1, <1>2, WriteEffect, TriggersEffect
<1>3. ClaimSpecificChannel(r, g, c, n)[d].owner = r[d].owner
  <2>1. [r[c] EXCEPT !.owner = ClaimTarget(r, g, n), !.status = "claimed"] \in Row
    BY <1>1 DEF Row, RowStatuses
  <2>2. [r[c] EXCEPT !.owner = ClaimTarget(r, g, n), !.status = "claimed"].owner # NoNode
    BY <1>1 DEF Row
  <2> QED BY <1>2, <2>1, <2>2 DEF ClaimSpecificChannel
<1>4. ReassignChannel(r, g, c, from, n)[d].owner = r[d].owner
  <2>1. /\ [r[c] EXCEPT !.owner = n, !.status = "claimed"] \in Row
        /\ [r[c] EXCEPT !.owner = n, !.status = "claimed"].owner # NoNode
    BY <1>1 DEF Row, RowStatuses
  <2> QED BY <1>2, <2>1 DEF ReassignChannel
<1>5. ReassertAssignmentNode(r, g, c, n, from)[d].owner = r[d].owner
  <2>1. [r[c] EXCEPT !.owner = n] \in Row /\ [r[c] EXCEPT !.owner = n].owner # NoNode
    BY <1>1 DEF Row
  <2> QED BY <1>2, <2>1 DEF ReassertAssignmentNode
<1>6. MarkChannelRecording(r, g, c)[d].owner = r[d].owner
  <2>1. /\ [r[c] EXCEPT !.status = "recording", !.beat = "fresh"] \in Row
        /\ [r[c] EXCEPT !.status = "recording", !.beat = "fresh"].owner = r[c].owner
    BY <1>1 DEF Row, RowStatuses
  <2> QED BY <1>2, <2>1 DEF MarkChannelRecording
<1>7. /\ SetAssignmentStatus(r, g, c, "claimed")[d].owner = r[d].owner
      /\ BulkInsertAssignments(r, g, c)[d].owner = r[d].owner
  <2>1. ASSUME NEW s \in RowStatuses
        PROVE  /\ [r[c] EXCEPT !.status = s] \in Row
               /\ [r[c] EXCEPT !.status = s].owner = r[c].owner
    BY <1>1 DEF Row
  <2>2. {"unassigned", "claimed"} \subseteq RowStatuses
    BY DEF RowStatuses
  <2>3. Exists(r[d])
    BY DEF Exists
  <2>4. SetAssignmentStatus(r, g, c, "claimed")[d].owner = r[d].owner
    BY <1>2, <2>1, <2>2 DEF SetAssignmentStatus
  <2>5. Write(r, g, c, TRUE, [r[c] EXCEPT !.status = "unassigned"])[d].owner = r[d].owner
    BY <1>2, <2>1, <2>2
  <2> QED BY <2>3, <2>4, <2>5 DEF BulkInsertAssignments, Table
<1>8. ReclaimNodeChannels(r, n)[d].owner = r[d].owner
  BY <1>1 DEF ReclaimNodeChannels, Row
<1> QED BY <1>3, <1>4, <1>5, <1>6, <1>7, <1>8

LEMMA PinnedStep ==
    ASSUME TypeOK, [Next]_vars, NEW d \in Channels,
           rows[d].status = "recording", OwnerAlive(reg, rows[d].owner)
    PROVE  \/ rows'[d].owner = rows[d].owner
           \/ rows'[d].owner = NoNode /\ UNCHANGED <<ctl, sync, phase>>
<1>0. /\ rows \in Table /\ \A n \in Nodes : sync[n].chan \in Channels
      /\ "claimed" \in RowStatuses /\ Leaders \subseteq Nodes
      /\ \A n \in Leaders : ctl[n] \in CtlState
  BY OwnershipAssumption DEF TypeOK, SyncState, RowStatuses
<1>p. /\ rows[d].owner \in Nodes /\ {} \in SUBSET Nodes
      /\ \A n \in Leaders : ctl[n].protected \in SUBSET Nodes /\ ctl[n].active \subseteq Nodes
  BY <1>0 DEF OwnerAlive, CtlState
<1>q. ASSUME NEW c \in Channels, NEW n \in Nodes, NEW from
      PROVE  /\ ClaimSpecificChannel(rows, reg, c, n)[d].owner = rows[d].owner
             /\ ReassignChannel(rows, reg, c, from, n)[d].owner = rows[d].owner
             /\ ReassertAssignmentNode(rows, reg, c, n, from)[d].owner = rows[d].owner
             /\ MarkChannelRecording(rows, reg, c)[d].owner = rows[d].owner
             /\ SetAssignmentStatus(rows, reg, c, "claimed")[d].owner = rows[d].owner
             /\ BulkInsertAssignments(rows, reg, c)[d].owner = rows[d].owner
             /\ ReclaimNodeChannels(rows, n)[d].owner = rows[d].owner
  BY <1>0, <1>p, StatementsKeepPin
<1>r. ASSUME NEW protected \in SUBSET Nodes
      PROVE  ResetStaleRecordingAssignments(rows, protected)[d].owner = rows[d].owner
  BY <1>0, <1>p DEF ResetStaleRecordingAssignments, Table, Row
<1>1. CASE UNCHANGED rows
  BY <1>1
<1>2. ASSUME NEW n \in Nodes, FenceRelease(n) PROVE rows'[d].owner = rows[d].owner
  BY <1>2, <1>q DEF FenceRelease
<1>3. ASSUME NEW c \in Channels, UserStep(c)
      PROVE  \/ rows'[d].owner = rows[d].owner
             \/ rows'[d].owner = NoNode /\ UNCHANGED <<ctl, sync, phase>>
  <2>1. CASE AgeBeat(c)
    BY <1>0, <2>1 DEF AgeBeat, Table, Row
  <2>2. ASSUME NEW n \in Nodes, UserCreate(n, c) \/ PoolInsert(n, c)
        PROVE  rows'[d].owner = rows[d].owner
    BY <1>q, <2>2 DEF UserCreate, PoolInsert
  <2>3. CASE PoolRemove(c)
    <3>1. NoRow.owner = NoNode
      BY DEF NoRow
    <3> QED BY <1>0, <2>3, <3>1 DEF PoolRemove, DeleteAssignment, Table, nodeVars
  <2>4. ASSUME NEW n \in Nodes, StopRelease(n, c)
        PROVE  \/ rows'[d].owner = rows[d].owner
               \/ rows'[d].owner = NoNode /\ UNCHANGED <<ctl, sync, phase>>
    <3> DEFINE new == [rows[c] EXCEPT !.owner = NoNode, !.status = "unassigned"]
    <3>1. new \in Row /\ new.owner = NoNode /\ new.status # "recording" /\ rows[c] \in Row
      BY <1>0 DEF Table, Row, RowStatuses
    <3>2. ReleaseChannel(rows, reg, c)[d].owner \in {rows[d].owner, NoNode}
      <4>1. ASSUME NEW cond, NEW res \in Row, res.owner = NoNode, res.status # "recording"
            PROVE  Write(rows, reg, c, cond, res)[d].owner \in {rows[d].owner, NoNode}
        BY <1>0, <3>1, <4>1, WriteEffect, TriggersEffect
      <4> HIDE DEF new
      <4>2. Write(rows, reg, c, TRUE, new)[d].owner \in {rows[d].owner, NoNode}
        BY <3>1, <4>1
      <4> QED BY <4>2 DEF ReleaseChannel, new
    <3> QED BY <2>4, <3>2 DEF StopRelease
  <2>5. \/ AgeBeat(c) \/ PoolRemove(c) \/ UNCHANGED rows
        \/ \E n \in Nodes : StopRelease(n, c) \/ UserCreate(n, c) \/ PoolInsert(n, c)
    BY <1>3 DEF UserStep, UserPause, UserResume, UserStop, CreateStore, PoolLook
  <2> QED BY <1>1, <2>1, <2>2, <2>3, <2>4, <2>5
<1>4. ASSUME NEW n \in Nodes, SyncStep(n) PROVE rows'[d].owner = rows[d].owner
  <2>1. CASE SyncRepin(n)
    BY <1>0, <1>q, <2>1 DEF SyncRepin
  <2>2. CASE SyncMark(n) \/ SyncReset(n) \/ SyncGhostClear(n)
    BY <1>0, <1>q, <2>2 DEF SyncMark, SyncReset, SyncGhostClear
  <2>3. \/ SyncRepin(n) \/ SyncMark(n) \/ SyncReset(n) \/ SyncGhostClear(n)
        \/ UNCHANGED rows
    BY <1>4 DEF SyncStep, SyncFetch, SyncList, SyncStop, SyncLook, SyncStart, SyncJudge, SyncGhostLook
  <2> QED BY <2>1, <2>2, <2>3
<1>5. ASSUME NEW n \in Leaders, CtlStep(n) PROVE rows'[d].owner = rows[d].owner
  <2>1. ASSUME NEW m \in Nodes, CtlReclaim(n, m) PROVE rows'[d].owner = rows[d].owner
    BY <1>q, <2>1 DEF CtlReclaim
  <2>2. CASE CtlReset(n)
    BY <1>p, <1>r, <2>2 DEF CtlReset
  <2>3. ASSUME NEW c \in Channels, CtlSweep(n, c) PROVE rows'[d].owner = rows[d].owner
    BY <1>p, <1>q, <2>3 DEF CtlSweep
  <2>4. \/ CtlReset(n) \/ (\E m \in Nodes : CtlReclaim(n, m))
        \/ (\E c \in Channels : CtlSweep(n, c)) \/ UNCHANGED rows
    BY <1>5 DEF CtlStep, CtlNodes, CtlRows, CtlEnd
  <2> QED BY <2>1, <2>2, <2>3, <2>4
<1>6. ASSUME NEW n \in Nodes,
             Lifecycle(n) \/ Recorder(n) \/ Fence(n) \/ Crash(n) \/ Drain(n) \/ AgeNode(n)
      PROVE  FenceRelease(n) \/ UNCHANGED rows
  BY <1>6 DEF Lifecycle, Recorder, BootLoad, Register, Heartbeat, FenceStatus, Shutdown, AgeNode,
              Fence, Crash, Drain, StartCapture, EndCapture
<1> QED BY <1>1, <1>2, <1>3, <1>4, <1>5, <1>6, StepCases DEF vars

\* Any number of controllers, re-pinning nodes, fences and failures never takes
\* a marked recording from a live owner: only a user does.
THEOREM Pinned == Spec => PinnedWhileOwnerAlive
<1>1. TypeOK /\ [Next]_vars =>
          [\A c \in Channels :
              rows[c].status = "recording" /\ OwnerAlive(reg, rows[c].owner) =>
                  \/ rows'[c].owner = rows[c].owner
                  \/ rows'[c].owner = NoNode /\ UNCHANGED <<ctl, sync, phase>>]_vars
  BY PinnedStep
<1> QED BY <1>1, Typed, PTL DEF Spec, PinnedWhileOwnerAlive

-----------------------------------------------------------------------------
(* A free row is given away by a controller only.                            *)

\* Every statement but a claim of the row itself leaves a row without an owner
\* without one: moves and re-pins carry the owner they expect to find.
LEMMA StatementsKeepFree ==
    ASSUME NEW r \in Table, NEW g, NEW c \in Channels, NEW n \in Nodes,
           NEW from,
           NEW d \in Channels, Exists(r[d]), r[d].owner = NoNode
    PROVE  /\ c # d => ClaimSpecificChannel(r, g, c, n)[d].owner = NoNode
           /\ from # NoNode => ReassignChannel(r, g, c, from, n)[d].owner = NoNode
           /\ from # NoNode => ReassertAssignmentNode(r, g, c, n, from)[d].owner = NoNode
           /\ MarkChannelRecording(r, g, c)[d].owner = NoNode
           /\ SetAssignmentStatus(r, g, c, "claimed")[d].owner = NoNode
           /\ ReleaseChannel(r, g, c)[d].owner = NoNode
           /\ BulkInsertAssignments(r, g, c)[d].owner = NoNode
           /\ DeleteAssignment(r, c)[d].owner = NoNode
           /\ ReclaimNodeChannels(r, n)[d].owner = NoNode
<1>1. r[c] \in Row /\ r[d] \in Row /\ ClaimTarget(r, g, n) \in Nodes /\ NoRow.owner = NoNode
  BY ClaimTargetIsNode DEF Table, NoRow
<1>2. ASSUME NEW cond, NEW new \in Row, c # d \/ ~cond \/ new.owner = r[c].owner
      PROVE  Write(r, g, c, cond, new)[d].owner = NoNode
  BY <1>1, <1>2, WriteEffect, TriggersEffect
<1>3. /\ [r[c] EXCEPT !.owner = ClaimTarget(r, g, n), !.status = "claimed"] \in Row
      /\ [r[c] EXCEPT !.owner = n, !.status = "claimed"] \in Row
      /\ [r[c] EXCEPT !.owner = n] \in Row
  BY <1>1 DEF Row, RowStatuses
<1>4. from # NoNode /\ c = d => r[c].owner # from
  OBVIOUS
<1>5. c # d => ClaimSpecificChannel(r, g, c, n)[d].owner = NoNode
  BY <1>2, <1>3 DEF ClaimSpecificChannel
<1>6. ASSUME from # NoNode PROVE ReassignChannel(r, g, c, from, n)[d].owner = NoNode
  <2>1. c # d \/ ~(r[c].owner = from /\ r[c].status # "recording")
    BY <1>4, <1>6
  <2> QED BY <1>2, <1>3, <2>1 DEF ReassignChannel
<1>7. ASSUME from # NoNode PROVE ReassertAssignmentNode(r, g, c, n, from)[d].owner = NoNode
  BY <1>2, <1>3, <1>4, <1>7 DEF ReassertAssignmentNode
<1>8. MarkChannelRecording(r, g, c)[d].owner = NoNode
  <2>1. /\ [r[c] EXCEPT !.status = "recording", !.beat = "fresh"] \in Row
        /\ [r[c] EXCEPT !.status = "recording", !.beat = "fresh"].owner = r[c].owner
    BY <1>1 DEF Row, RowStatuses
  <2> QED BY <1>2, <2>1 DEF MarkChannelRecording
<1>9. /\ SetAssignmentStatus(r, g, c, "claimed")[d].owner = NoNode
      /\ BulkInsertAssignments(r, g, c)[d].owner = NoNode
  <2>1. ASSUME NEW s \in RowStatuses
        PROVE  /\ [r[c] EXCEPT !.status = s] \in Row
               /\ [r[c] EXCEPT !.status = s].owner = r[c].owner
    BY <1>1 DEF Row
  <2>2. {"unassigned", "claimed"} \subseteq RowStatuses
    BY DEF RowStatuses
  <2>3. SetAssignmentStatus(r, g, c, "claimed")[d].owner = NoNode
    BY <1>2, <2>1, <2>2 DEF SetAssignmentStatus
  <2>4. Write(r, g, c, TRUE, [r[c] EXCEPT !.status = "unassigned"])[d].owner = NoNode
    BY <1>2, <2>1, <2>2
  <2> QED BY <2>3, <2>4 DEF BulkInsertAssignments, Table
<1>10. ReleaseChannel(r, g, c)[d].owner = NoNode
  <2> DEFINE new == [r[c] EXCEPT !.owner = NoNode, !.status = "unassigned"]
  <2>1. new \in Row /\ (c = d => new.owner = r[c].owner)
    BY <1>1 DEF Row, RowStatuses
  <2> HIDE DEF new
  <2>2. Write(r, g, c, TRUE, new)[d].owner = NoNode
    BY <1>2, <2>1
  <2> QED BY <2>2 DEF ReleaseChannel, new
<1>11. DeleteAssignment(r, c)[d].owner = NoNode
  BY <1>1 DEF DeleteAssignment, Table
<1>12. ReclaimNodeChannels(r, n)[d].owner = NoNode
  BY <1>1 DEF ReclaimNodeChannels, Row
<1> QED BY <1>5, <1>6, <1>7, <1>8, <1>9, <1>10, <1>11, <1>12

LEMMA FreeStep ==
    ASSUME TypeOK, RepinHasOwner, [Next]_vars, NEW d \in Channels,
           Exists(rows[d]), rows[d].owner = NoNode, rows'[d].owner # NoNode
    PROVE  \E n \in Leaders : ctl[n].pc = "sweep" /\ ctl[n].all[d].owner = NoNode
<1>0. /\ rows \in Table /\ rows[d] \in Row /\ NoNode \notin Nodes /\ Leaders \subseteq Nodes
      /\ \A n \in Nodes : sync[n].chan \in Channels
      /\ \A n \in Nodes : sync[n].pc = "repin" => sync[n].owner # NoNode
  BY OwnershipAssumption, StoreAssumption DEF TypeOK, SyncState, RepinHasOwner, Table
<1>r. ASSUME NEW c \in Channels, NEW n \in Nodes, NEW from
      PROVE  /\ c # d => ClaimSpecificChannel(rows, reg, c, n)[d].owner = NoNode
             /\ from # NoNode => ReassignChannel(rows, reg, c, from, n)[d].owner = NoNode
             /\ from # NoNode => ReassertAssignmentNode(rows, reg, c, n, from)[d].owner = NoNode
             /\ MarkChannelRecording(rows, reg, c)[d].owner = NoNode
             /\ SetAssignmentStatus(rows, reg, c, "claimed")[d].owner = NoNode
             /\ ReleaseChannel(rows, reg, c)[d].owner = NoNode
             /\ BulkInsertAssignments(rows, reg, c)[d].owner = NoNode
             /\ DeleteAssignment(rows, c)[d].owner = NoNode
             /\ ReclaimNodeChannels(rows, n)[d].owner = NoNode
  BY <1>0, StatementsKeepFree
<1>1. ASSUME UNCHANGED rows PROVE FALSE
  BY <1>1
<1>2. ASSUME NEW n \in Nodes,
             Lifecycle(n) \/ Recorder(n) \/ Fence(n) \/ Crash(n) \/ Drain(n) \/ AgeNode(n)
      PROVE  FALSE
  <2>1. FenceRelease(n) \/ UNCHANGED rows
    BY <1>2 DEF Lifecycle, Recorder, BootLoad, Register, Heartbeat, FenceStatus, Shutdown,
                AgeNode, Fence, Crash, Drain, StartCapture, EndCapture
  <2>2. d \in Channels /\ rows'[d].owner # NoNode
    OBVIOUS
  <2> QED BY <1>1, <1>r, <2>1, <2>2 DEF FenceRelease
<1>3. ASSUME NEW c \in Channels, UserStep(c)
      PROVE  FALSE
  <2>1. CASE AgeBeat(c)
    BY <1>0, <2>1 DEF AgeBeat, Table, Row
  <2>2. ASSUME NEW n \in Nodes, StopRelease(n, c) \/ UserCreate(n, c) \/ PoolInsert(n, c)
        PROVE  FALSE
    BY <1>1, <1>r, <2>2 DEF StopRelease, UserCreate, PoolInsert
  <2>3. CASE PoolRemove(c)
    <3>1. \E n \in Nodes : TRUE
      BY <2>3, OwnershipAssumption DEF PoolRemove
    <3> QED BY <1>r, <2>3, <3>1 DEF PoolRemove
  <2>4. \/ AgeBeat(c) \/ PoolRemove(c) \/ UNCHANGED rows
        \/ \E n \in Nodes : StopRelease(n, c) \/ UserCreate(n, c) \/ PoolInsert(n, c)
    BY <1>3 DEF UserStep, UserPause, UserResume, UserStop, CreateStore, PoolLook
  <2> QED BY <1>1, <2>1, <2>2, <2>3, <2>4
<1>4. ASSUME NEW n \in Nodes, SyncStep(n) PROVE FALSE
  <2>1. CASE SyncRepin(n)
    BY <1>0, <1>1, <1>r, <2>1 DEF SyncRepin
  <2>2. CASE SyncMark(n) \/ SyncReset(n) \/ SyncGhostClear(n)
    <3>1. \/ rows' = MarkChannelRecording(rows, reg, sync[n].chan)
          \/ rows' = SetAssignmentStatus(rows, reg, sync[n].chan, "claimed")
      BY <1>1, <2>2 DEF SyncMark, SyncReset, SyncGhostClear
    <3> QED BY <1>0, <1>r, <3>1
  <2>3. \/ SyncRepin(n) \/ SyncMark(n) \/ SyncReset(n) \/ SyncGhostClear(n)
        \/ UNCHANGED rows
    BY <1>4 DEF SyncStep, SyncFetch, SyncList, SyncStop, SyncLook, SyncStart, SyncJudge, SyncGhostLook
  <2> QED BY <1>1, <2>1, <2>2, <2>3
<1>5. ASSUME NEW n \in Leaders, CtlStep(n)
      PROVE  ctl[n].pc = "sweep" /\ ctl[n].all[d].owner = NoNode
  <2>1. ASSUME NEW m \in Nodes, CtlReclaim(n, m) PROVE FALSE
    BY <1>1, <1>r, <2>1 DEF CtlReclaim
  <2>2. ASSUME CtlReset(n) PROVE FALSE
    BY <1>0, <1>1, <2>2 DEF CtlReset, ResetStaleRecordingAssignments, Row
  <2>3. ASSUME NEW c \in Channels, CtlSweep(n, c)
        PROVE  ctl[n].pc = "sweep" /\ ctl[n].all[d].owner = NoNode
    <3>1. ctl[n].active \subseteq Nodes
      BY <1>0 DEF TypeOK, CtlState
    <3>2. PICK want \in ctl[n].active :
            \/ /\ ctl[n].all[c].owner = NoNode
               /\ rows' = ClaimSpecificChannel(rows, reg, c, want)
            \/ /\ ctl[n].all[c].owner # NoNode
               /\ rows' = ReassignChannel(rows, reg, c, ctl[n].all[c].owner, want)
      BY <2>3 DEF CtlSweep
    <3>3. /\ ctl[n].all[c].owner = NoNode
          /\ rows' = ClaimSpecificChannel(rows, reg, c, want)
      BY <1>r, <3>1, <3>2
    <3>4. c = d
      BY <1>r, <3>1, <3>3
    <3> QED BY <2>3, <3>3, <3>4 DEF CtlSweep
  <2>4. \/ CtlReset(n) \/ (\E m \in Nodes : CtlReclaim(n, m))
        \/ (\E c \in Channels : CtlSweep(n, c)) \/ UNCHANGED rows
    BY <1>5 DEF CtlStep, CtlNodes, CtlRows, CtlEnd
  <2> QED BY <1>1, <2>1, <2>2, <2>3, <2>4
<1> QED BY <1>1, <1>2, <1>3, <1>4, <1>5, StepCases DEF vars

\* Whatever crashes, fails or runs twice, a row that has no owner is given one
\* only by a controller whose snapshot shows it free: no re-pin and no move
\* brings a released channel back.
THEOREM ClaimedByControllers == Spec => OnlyControllersClaim
<1>1. TypeOK /\ RepinHasOwner /\ [Next]_vars => RepinHasOwner'
  BY RepinStep
<1>2. TypeOK /\ RepinHasOwner /\ [Next]_vars =>
          [\A c \in Channels :
              Exists(rows[c]) /\ rows[c].owner = NoNode /\ rows'[c].owner # NoNode =>
                  \E n \in Leaders : ctl[n].pc = "sweep" /\ ctl[n].all[c].owner = NoNode]_vars
  BY FreeStep
<1> QED BY <1>1, <1>2, RepinInit, Typed, PTL DEF Spec, OnlyControllersClaim

-----------------------------------------------------------------------------
(* What a user paused stays.                                                 *)

\* A paused channel is in the map, and a process that is down has none.
PausedInMap ==
    \A n \in Nodes, c \in Channels : c \in paused[n] => c \in local[n] /\ phase[n] # "down"

LEMMA PausedStep ==
    ASSUME TypeOK, PausedInMap, [Next]_vars
    PROVE  PausedInMap'
<1> SUFFICES ASSUME NEW n \in Nodes, NEW d \in Channels, d \in paused'[n]
             PROVE  d \in local'[n] /\ phase'[n] # "down"
  BY DEF PausedInMap
<1>0. /\ d \in paused[n] => d \in local[n] /\ phase[n] # "down"
      /\ local \in [Nodes -> SUBSET Channels] /\ capturing \in [Nodes -> SUBSET Channels]
      /\ paused \in [Nodes -> SUBSET Channels] /\ phase \in [Nodes -> Phases]
  BY DEF TypeOK, PausedInMap
<1>1. ASSUME UNCHANGED <<phase, local, paused>>
      PROVE  d \in local'[n] /\ phase'[n] # "down"
  BY <1>0, <1>1
<1>2. ASSUME NEW m \in Nodes,
             Lifecycle(m) \/ Recorder(m) \/ Fence(m) \/ Crash(m) \/ Drain(m) \/ AgeNode(m)
      PROVE  d \in local'[n] /\ phase'[n] # "down"
  <2>1. CASE BootLoad(m)
    BY <1>0, <2>1 DEF BootLoad
  <2>2. CASE Register(m) \/ Heartbeat(m) \/ FenceStatus(m) \/ FenceRelease(m) \/ Drain(m)
    BY <1>0, <2>2 DEF Register, Heartbeat, FenceStatus, FenceRelease, Drain, nodeVars
  <2>3. CASE Shutdown(m) \/ Crash(m)
    BY <1>0, <2>3 DEF Shutdown, Crash
  <2>4. CASE Fence(m)
    BY <1>0, <2>4 DEF Fence
  <2>5. CASE AgeNode(m) \/ Recorder(m)
    BY <1>1, <2>5 DEF AgeNode, Recorder, StartCapture, EndCapture, nodeVars
  <2> QED BY <1>2, <2>1, <2>2, <2>3, <2>4, <2>5 DEF Lifecycle
<1>3. ASSUME NEW c \in Channels, UserStep(c)
      PROVE  d \in local'[n] /\ phase'[n] # "down"
  <2>1. CASE AgeBeat(c) \/ PoolRemove(c)
    BY <1>1, <2>1 DEF AgeBeat, PoolRemove, nodeVars
  <2>2. ASSUME NEW m \in Nodes,
               \/ UserPause(m, c) \/ UserResume(m, c) \/ UserStop(m, c) \/ StopRelease(m, c)
               \/ UserCreate(m, c) \/ CreateStore(m, c) \/ PoolLook(m, c) \/ PoolInsert(m, c)
        PROVE  d \in local'[n] /\ phase'[n] # "down"
    BY <1>0, <2>2 DEF UserPause, UserResume, UserStop, StopRelease, UserCreate, CreateStore,
                      PoolLook, PoolInsert, Serves
  <2> QED BY <1>3, <2>1, <2>2 DEF UserStep
<1>4. ASSUME NEW m \in Nodes, SyncStep(m)
      PROVE  d \in local'[n] /\ phase'[n] # "down"
  <2>1. ASSUME NEW c \in Channels, SyncStop(m, c)
        PROVE  d \in local'[n] /\ phase'[n] # "down"
    BY <1>0, <2>1 DEF SyncStop
  <2>2. CASE SyncStart(m)
    BY <1>0, <2>2 DEF SyncStart
  <2>3. \/ SyncStart(m) \/ (\E c \in Channels : SyncStop(m, c))
        \/ UNCHANGED <<phase, local, paused>>
    BY <1>4 DEF SyncStep, SyncFetch, SyncList, SyncLook, SyncRepin, SyncJudge, SyncMark, SyncReset,
                SyncGhostLook, SyncGhostClear, nodeVars
  <2> QED BY <1>1, <2>1, <2>2, <2>3
<1>5. ASSUME NEW m \in Leaders, CtlStep(m) PROVE UNCHANGED <<phase, local, paused>>
  BY <1>5 DEF CtlStep, CtlNodes, CtlRows, CtlReclaim, CtlReset, CtlSweep, CtlEnd, nodeVars
<1> QED BY <1>1, <1>2, <1>3, <1>4, <1>5, StepCases DEF vars

\* Only the end of the process and the user's own resume and stop end a pause.
LEMMA UnpausedStep ==
    ASSUME TypeOK, [Next]_vars, NEW n \in Nodes, NEW c \in Channels,
           c \in paused[n], c \notin paused'[n]
    PROVE  phase'[n] = "down" \/ UNCHANGED <<rows, sync, ctl, phase>>
<1>0. paused \in [Nodes -> SUBSET Channels] /\ phase \in [Nodes -> Phases]
  BY DEF TypeOK
<1>1. ASSUME UNCHANGED paused PROVE FALSE
  BY <1>1
<1>2. ASSUME NEW m \in Nodes,
             Lifecycle(m) \/ Recorder(m) \/ Fence(m) \/ Crash(m) \/ Drain(m) \/ AgeNode(m)
      PROVE  phase'[n] = "down"
  <2>1. Shutdown(m) \/ Crash(m) \/ UNCHANGED paused
    BY <1>2 DEF Lifecycle, Recorder, BootLoad, Register, Heartbeat, FenceStatus, FenceRelease,
                AgeNode, Fence, Drain, StartCapture, EndCapture, nodeVars
  <2>2. CASE Shutdown(m) \/ Crash(m)
    BY <1>0, <2>2 DEF Shutdown, Crash
  <2> QED BY <1>1, <2>1, <2>2
<1>3. ASSUME NEW d \in Channels, UserStep(d) PROVE UNCHANGED <<rows, sync, ctl, phase>>
  <2>1. \/ UNCHANGED paused
        \/ \E m \in Nodes : UserPause(m, d) \/ UserResume(m, d) \/ UserStop(m, d)
    BY <1>3 DEF UserStep, AgeBeat, PoolRemove, StopRelease, UserCreate, CreateStore, PoolLook,
                PoolInsert, nodeVars
  <2> QED BY <1>1, <2>1 DEF UserPause, UserResume, UserStop
<1>4. ASSUME NEW m \in Nodes, SyncStep(m) PROVE UNCHANGED paused
  BY <1>4 DEF SyncStep, SyncFetch, SyncList, SyncStop, SyncLook, SyncRepin, SyncStart, SyncJudge,
              SyncMark, SyncReset, SyncGhostLook, SyncGhostClear, nodeVars
<1>5. ASSUME NEW m \in Leaders, CtlStep(m) PROVE UNCHANGED paused
  BY <1>5 DEF CtlStep, CtlNodes, CtlRows, CtlReclaim, CtlReset, CtlSweep, CtlEnd, nodeVars
<1> QED BY <1>1, <1>2, <1>3, <1>4, <1>5, StepCases DEF vars

\* No cycle, move, fence or reclaim takes from a node what a user paused there.
THEOREM PausesKept == Spec => PauseIsSticky
<1>1. Init => PausedInMap
  BY DEF Init, PausedInMap
<1>2. TypeOK /\ PausedInMap /\ [Next]_vars => PausedInMap'
  BY PausedStep
<1>3. TypeOK /\ PausedInMap /\ [Next]_vars =>
          [\A n \in Nodes, c \in Channels :
              /\ c \in paused[n] => c \in local[n]
              /\ c \in paused[n] \ paused'[n] =>
                    phase'[n] = "down" \/ UNCHANGED <<rows, sync, ctl, phase>>]_vars
  BY UnpausedStep DEF PausedInMap
<1> QED BY <1>1, <1>2, <1>3, Typed, PTL DEF Spec, PauseIsSticky
=============================================================================
