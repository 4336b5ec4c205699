------------------------------ MODULE Ownership ------------------------------
(***************************************************************************)
(* Who owns a channel and who records it.                                  *)
(*                                                                         *)
(* The shared table (AssignmentStore) says which node owns each channel.   *)
(* Every node runs an assignment-sync cycle that makes its local channels  *)
(* follow the table, re-pins what it is recording and maintains the        *)
(* 'recording' markers; the elected leader runs a controller cycle that    *)
(* reclaims, resets, fills and moves rows; users pause, stop, remove, add   *)
(* and create channels through a node's web UI.  None of them holds a lock *)
(* over more than one database call, so a step here is one database call   *)
(* or the local work before or after it; a cycle carries the snapshots it  *)
(* took earlier, a request what is still to be done.                       *)
(***************************************************************************)
EXTENDS AssignmentStore

CONSTANTS Leaders,  \* nodes whose controller cycle may run; one if the lease is exclusive
          Flaky,    \* TRUE: any single database call of a cycle may fail
          Users,    \* nodes whose web UI is used
          Faults,   \* subset of {"crash", "outage"}: what may happen to a frail node
          Frail,    \* nodes that crash, stop or lose the database
          Streams,  \* nodes on which a stream is ever found live
          MaxEvents \* bound: faults and user operations in a behaviour

ASSUME OwnershipAssumption == /\ Channels # {}
                              /\ Leaders \subseteq Nodes
                              /\ Users \subseteq Nodes
                              /\ Flaky \in BOOLEAN
                              /\ Faults \subseteq {"crash", "outage"}
                              /\ Frail \subseteq Nodes
                              /\ Streams \subseteq Nodes
                              /\ MaxEvents \in Nat

VARIABLES
    rows,      \* channel_assignments
    reg,       \* nodes: status and age of the last heartbeat
    phase,     \* per node: what its process is doing
    local,     \* per node: keys of Manager.Channels
    capturing, \* per node: local channels with CurrentRecordingPath # ""
    paused,    \* per node: local channels whose pause reason is 'manual'
    requests,  \* per node: requests of users between two of their steps
    marked,    \* per node: recordingMarked
    sync,      \* per node: the assignment-sync cycle in progress
    ctl,       \* per leader: the controller cycle in progress
    events     \* faults and user operations so far

nodeVars == <<phase, local, capturing, paused, requests>>
vars == <<rows, reg, phase, local, capturing, paused, requests, marked, sync, ctl, events>>

-----------------------------------------------------------------------------
Phases == {"down", "loaded", "up", "fencing", "releasing", "fenced", "draining"}
SyncPCs == {"idle", "list", "stop", "repin", "mark", "marking", "resetting", "ghost", "clear"}
CtlPCs == {"idle", "rows", "reclaim", "sweep"}

\* "stop": out of the map, the row not yet released; "create": the row written,
\* the channel not yet in the map; "add": no row seen, none yet written.
Requests == {"stop", "create", "add"} \X Channels

\* owned: dbMap; seen: the local channels as listed after the fetch; todo: what
\* is left of the current phase; chan, owner: the row a step looked at.
SyncState == [pc : SyncPCs, owned : SUBSET Channels, seen : SUBSET Channels,
              todo : SUBSET Channels, repinned : SUBSET Channels,
              chan : Channels, owner : Nodes \cup {NoNode}]

\* active, held, protected, reclaim: the classification of the nodes;
\* all: the rows as fetched; todo: what is left of the sweep.
CtlState == [pc : CtlPCs, active : SUBSET Nodes, held : SUBSET Nodes,
             protected : SUBSET Nodes, reclaim : SUBSET Nodes,
             all : Table, todo : SUBSET Channels]

AnyChannel == CHOOSE c \in Channels : TRUE
IdleSync == [pc |-> "idle", owned |-> {}, seen |-> {}, todo |-> {},
             repinned |-> {}, chan |-> AnyChannel, owner |-> NoNode]
NoRows == [c \in Channels |-> NoRow]
IdleCtl == [pc |-> "idle", active |-> {}, held |-> {}, protected |-> {},
            reclaim |-> {}, all |-> NoRows, todo |-> {}]

Init ==
    /\ rows \in [Channels -> {NoRow, [NoRow EXCEPT !.status = "unassigned"]}]
    /\ reg = [n \in Nodes |-> [status |-> "absent", age |-> "expired"]]
    /\ phase = [n \in Nodes |-> "down"]
    /\ local = [n \in Nodes |-> {}]
    /\ capturing = [n \in Nodes |-> {}]
    /\ paused = [n \in Nodes |-> {}]
    /\ requests = [n \in Nodes |-> {}]
    /\ marked = [n \in Nodes |-> {}]
    /\ sync = [n \in Nodes |-> IdleSync]
    /\ ctl = [n \in Leaders |-> IdleCtl]
    /\ events = 0

Owned(n) == {c \in Channels : rows[c].owner = n}
Fails == Flaky = TRUE
Suffers(n, fault) == n \in Frail /\ fault \in Faults

-----------------------------------------------------------------------------
(* Life of a node's process.                                               *)

\* LoadPooledConfig: resume the channels of the rows this node owns; none if the
\* rows cannot be fetched.
BootLoad(n) ==
    /\ phase[n] = "down"
    /\ phase' = [phase EXCEPT ![n] = "loaded"]
    /\ \/ local' = [local EXCEPT ![n] = {c \in Owned(n) : rows[c].status # "unassigned"}]
       \/ Fails /\ UNCHANGED local
    /\ UNCHANGED <<rows, reg, capturing, paused, requests, marked, sync, ctl>>

\* Register writes every column but last_heartbeat, which has a default only
\* when the row is new.
Register(n) ==
    /\ phase[n] = "loaded"
    /\ phase' = [phase EXCEPT ![n] = "up"]
    /\ reg' = [reg EXCEPT ![n] = [status |-> "online",
                                  age |-> IF @.status = "absent" THEN "fresh" ELSE @.age]]
    /\ UNCHANGED <<rows, local, capturing, paused, requests, marked, sync, ctl>>

\* A heartbeat that arrives, with EnsureNodeOnline or unfence after it.
\* unfence clears the flag before its status PATCH, which may fail.
Heartbeat(n) ==
    \/ /\ phase[n] = "up"
       /\ reg' = [reg EXCEPT ![n] = [age |-> "fresh", status |->
                                      IF @.status = "offline" THEN "online" ELSE @.status]]
       /\ UNCHANGED <<rows, nodeVars, marked, sync, ctl>>
    \/ /\ phase[n] = "fenced"
       /\ phase' = [phase EXCEPT ![n] = "up"]
       /\ \/ reg' = [reg EXCEPT ![n] = [status |-> "online", age |-> "fresh"]]
          \/ Fails /\ reg' = [reg EXCEPT ![n].age = "fresh"]
       /\ UNCHANGED <<rows, local, capturing, paused, requests, marked, sync, ctl>>

\* Heartbeats stop arriving (outage, or the process is down) and time passes.
AgeNode(n) ==
    /\ Suffers(n, "outage") \/ phase[n] \in {"down", "draining"}
    /\ reg[n].status # "absent" /\ reg[n].age # "expired"
    /\ reg' = [reg EXCEPT ![n].age = IF @ = "fresh" THEN "held" ELSE "expired"]
    /\ UNCHANGED <<rows, nodeVars, marked, sync, ctl>>

\* No mark arrived for recordingLeaseTTL.
AgeBeat(c) ==
    /\ rows[c].beat = "fresh"
    /\ rows' = [rows EXCEPT ![c].beat = "stale"]
    /\ UNCHANGED <<reg, nodeVars, marked, sync, ctl>>

\* fence: set the flag, drop every local channel that neither records nor was
\* paused by a user (RemoveChannelForReassignment refuses both) ...
Fence(n) ==
    /\ Suffers(n, "outage")
    /\ phase[n] = "up"
    /\ phase' = [phase EXCEPT ![n] = "fencing"]
    /\ local' = [local EXCEPT ![n] = @ \cap (capturing[n] \cup paused[n])]
    /\ UNCHANGED <<rows, reg, capturing, paused, requests, marked, sync, ctl>>

\* ... then, best effort, set the status ...
FenceStatus(n) ==
    /\ phase[n] = "fencing"
    /\ phase' = [phase EXCEPT ![n] = "releasing"]
    /\ \/ UNCHANGED reg
       \/ reg' = [reg EXCEPT ![n].status = "draining"]
    /\ UNCHANGED <<rows, local, capturing, paused, requests, marked, sync, ctl>>

\* ... and release the rows that are not marked recording.
FenceRelease(n) ==
    /\ phase[n] = "releasing"
    /\ phase' = [phase EXCEPT ![n] = "fenced"]
    /\ \/ UNCHANGED rows
       \/ rows' = ReclaimNodeChannels(rows, n)
    /\ UNCHANGED <<reg, local, capturing, paused, requests, marked, sync, ctl>>

Crash(n) ==
    /\ Suffers(n, "crash")
    /\ phase[n] # "down"
    /\ phase' = [phase EXCEPT ![n] = "down"]
    /\ local' = [local EXCEPT ![n] = {}]
    /\ capturing' = [capturing EXCEPT ![n] = {}]
    /\ paused' = [paused EXCEPT ![n] = {}]
    /\ requests' = [requests EXCEPT ![n] = {}]
    /\ marked' = [marked EXCEPT ![n] = {}]
    /\ sync' = [sync EXCEPT ![n] = IdleSync]
    /\ ctl' = [l \in Leaders |-> IF l = n THEN IdleCtl ELSE ctl[l]]
    /\ UNCHANGED <<rows, reg>>

\* Graceful shutdown: StartDraining, then StopAllChannels ends the captures.
Drain(n) ==
    /\ Suffers(n, "crash")
    /\ phase[n] \in {"up", "fenced"}
    /\ phase' = [phase EXCEPT ![n] = "draining"]
    /\ \/ reg' = [reg EXCEPT ![n].status = "draining"]
       \/ Fails /\ UNCHANGED reg
    /\ capturing' = [capturing EXCEPT ![n] = {}]
    /\ UNCHANGED <<rows, local, paused, requests, marked, sync, ctl>>

\* Coordinator.Stop waits for the cycles in flight and keeps the assignments.
Shutdown(n) ==
    /\ phase[n] = "draining"
    /\ sync[n].pc = "idle"
    /\ n \in Leaders => ctl[n].pc = "idle"
    /\ phase' = [phase EXCEPT ![n] = "down"]
    /\ \/ reg' = [reg EXCEPT ![n].status = "offline"]
       \/ Fails /\ UNCHANGED reg
    /\ local' = [local EXCEPT ![n] = {}]
    /\ paused' = [paused EXCEPT ![n] = {}]
    /\ requests' = [requests EXCEPT ![n] = {}]
    /\ marked' = [marked EXCEPT ![n] = {}]
    /\ UNCHANGED <<rows, capturing, sync, ctl>>

-----------------------------------------------------------------------------
(* The recorder and the users.                                             *)

\* The stream of a local channel goes live, or ends; a pause ends it too.
StartCapture(n, c) ==
    /\ n \in Streams /\ phase[n] \in Phases \ {"down", "draining"}
    /\ c \in local[n] \ (capturing[n] \cup paused[n])
    /\ capturing' = [capturing EXCEPT ![n] = @ \cup {c}]
    /\ UNCHANGED <<rows, reg, phase, local, paused, requests, marked, sync, ctl>>

EndCapture(n, c) ==
    /\ c \in capturing[n]
    /\ capturing' = [capturing EXCEPT ![n] = @ \ {c}]
    /\ UNCHANGED <<rows, reg, phase, local, paused, requests, marked, sync, ctl>>

Serves(n) == n \in Users /\ phase[n] \in {"up", "fenced"}
Ask(n, what, c) == requests' = [requests EXCEPT ![n] = @ \cup {<<what, c>>}]
Answer(n, what, c) == requests' = [requests EXCEPT ![n] = @ \ {<<what, c>>}]

\* Manager.PauseChannel and ResumeChannel.
UserPause(n, c) ==
    /\ Serves(n) /\ c \in local[n] \ paused[n]
    /\ paused' = [paused EXCEPT ![n] = @ \cup {c}]
    /\ UNCHANGED <<rows, reg, phase, local, capturing, requests, marked, sync, ctl>>

UserResume(n, c) ==
    /\ Serves(n) /\ c \in paused[n]
    /\ paused' = [paused EXCEPT ![n] = @ \ {c}]
    /\ UNCHANGED <<rows, reg, phase, local, capturing, requests, marked, sync, ctl>>

\* Manager.StopChannel: out of the map at once; no cycle sees the object again ...
UserStop(n, c) ==
    /\ Serves(n) /\ c \in local[n]
    /\ local' = [local EXCEPT ![n] = @ \ {c}]
    /\ capturing' = [capturing EXCEPT ![n] = @ \ {c}]
    /\ paused' = [paused EXCEPT ![n] = @ \ {c}]
    /\ Ask(n, "stop", c)
    /\ UNCHANGED <<rows, reg, phase, marked, sync, ctl>>

\* ... then the row is released, whoever owns it by then; a failure is logged.
StopRelease(n, c) ==
    /\ <<"stop", c>> \in requests[n] /\ Answer(n, "stop", c)
    /\ \/ rows' = ReleaseChannel(rows, reg, c)
       \/ Fails /\ UNCHANGED rows
    /\ UNCHANGED <<reg, phase, local, capturing, paused, marked, sync, ctl>>

\* Manager.CreateChannel: the row is upserted, whether or not there is one ...
UserCreate(n, c) ==
    /\ Serves(n) /\ Ask(n, "create", c)
    /\ rows' = BulkInsertAssignments(rows, reg, c)
    /\ UNCHANGED <<reg, phase, local, capturing, paused, marked, sync, ctl>>

\* ... then the channel is stored, unless it is in the map already.
CreateStore(n, c) ==
    /\ <<"create", c>> \in requests[n] /\ Answer(n, "create", c)
    /\ local' = [local EXCEPT ![n] = @ \cup {c}]
    /\ UNCHANGED <<rows, reg, phase, capturing, paused, marked, sync, ctl>>

\* AddToPool looks for a local channel and for a row; a look-up that fails finds
\* none ...
PoolLook(n, c) ==
    /\ Serves(n) /\ c \notin local[n]
    /\ ~Exists(rows[c]) \/ Fails
    /\ Ask(n, "add", c)
    /\ UNCHANGED <<rows, reg, phase, local, capturing, paused, marked, sync, ctl>>

\* ... and upserts the row in a later call.
PoolInsert(n, c) ==
    /\ <<"add", c>> \in requests[n] /\ Answer(n, "add", c)
    /\ \/ rows' = BulkInsertAssignments(rows, reg, c)
       \/ Fails /\ UNCHANGED rows
    /\ UNCHANGED <<reg, phase, local, capturing, paused, marked, sync, ctl>>

\* RemoveFromPool deletes the row and leaves the local channels to the cycles.
PoolRemove(c) ==
    /\ Users # {} /\ Exists(rows[c])
    /\ rows' = DeleteAssignment(rows, c)
    /\ UNCHANGED <<reg, nodeVars, marked, sync, ctl>>

-----------------------------------------------------------------------------
(* The assignment-sync cycle of node n (runAssignmentSyncCycle).           *)

\* A phase with nothing left to do makes no call and is passed over; fields
\* that no later phase reads are cleared.
Settle(st, mk) ==
    LET marking == IF st.pc = "stop" /\ st.todo = {} /\ st.owned \subseteq st.seen
                   THEN [st EXCEPT !.pc = "mark", !.todo = st.seen \cap (st.owned \cup st.repinned),
                                   !.seen = {}]
                   ELSE st
        ghosts == IF marking.pc = "mark" /\ marking.todo = {}
                  THEN [IdleSync EXCEPT !.pc = "ghost",
                                        !.todo = mk \ (marking.owned \cup marking.repinned)]
                  ELSE marking
    IN  IF ghosts.pc = "ghost" /\ ghosts.todo = {} THEN IdleSync ELSE ghosts

GoTo(n, st, mk) == sync' = [sync EXCEPT ![n] = Settle(st, mk)]
Drop(n, c) == [sync[n] EXCEPT !.todo = @ \ {c}]

\* The rows are fetched; a failed fetch changes nothing ...
SyncFetch(n) ==
    /\ phase[n] = "up" /\ sync[n].pc = "idle"
    /\ sync' = [sync EXCEPT ![n] = [IdleSync EXCEPT !.pc = "list", !.owned = Owned(n)]]
    /\ UNCHANGED <<rows, reg, nodeVars, marked, ctl>>

\* ... and the local channels listed when they have come.
SyncList(n) ==
    /\ sync[n].pc = "list"
    /\ GoTo(n, [sync[n] EXCEPT !.pc = "stop", !.seen = local[n],
                               !.todo = local[n] \ sync[n].owned], marked[n])
    /\ UNCHANGED <<rows, reg, nodeVars, marked, ctl>>

\* Mutant of SyncStop: what a user paused is removed like the rest.
SyncStopPaused(n, c) ==
    /\ sync[n].pc = "stop" /\ c \in sync[n].todo \ capturing[n]
    /\ local' = [local EXCEPT ![n] = @ \ {c}]
    /\ paused' = [paused EXCEPT ![n] = @ \ {c}]
    /\ GoTo(n, Drop(n, c), marked[n])
    /\ UNCHANGED <<rows, reg, phase, capturing, requests, marked, ctl>>

\* RemoveChannelForReassignment of a channel that is not recording: one that a
\* user paused stays, parked.
SyncStop(n, c) ==
    /\ sync[n].pc = "stop" /\ c \in sync[n].todo \ capturing[n]
    /\ local' = [local EXCEPT ![n] = @ \ ({c} \ paused[n])]
    /\ GoTo(n, Drop(n, c), marked[n])
    /\ UNCHANGED <<rows, reg, phase, capturing, paused, requests, marked, ctl>>

\* A channel being recorded is looked up; only a row of another node is fought for.
SyncLook(n, c) ==
    /\ sync[n].pc = "stop" /\ c \in sync[n].todo \cap capturing[n]
    /\ \/ /\ rows[c].owner \notin {NoNode, n}
          /\ GoTo(n, [Drop(n, c) EXCEPT !.pc = "repin", !.chan = c, !.owner = rows[c].owner], marked[n])
       \/ /\ rows[c].owner \in {NoNode, n} \/ Fails
          /\ GoTo(n, Drop(n, c), marked[n])
    /\ UNCHANGED <<rows, reg, nodeVars, marked, ctl>>

\* The PATCH reports success whether or not a row or a trigger took it.
SyncRepin(n) ==
    LET s == sync[n]
        back == [s EXCEPT !.pc = "stop", !.chan = AnyChannel, !.owner = NoNode]
    IN  /\ s.pc = "repin"
        /\ \/ /\ rows' = ReassertAssignmentNode(rows, reg, s.chan, n, s.owner)
              /\ GoTo(n, [back EXCEPT !.repinned = @ \cup {s.chan}], marked[n])
           \/ /\ Fails
              /\ UNCHANGED rows
              /\ GoTo(n, back, marked[n])
        /\ UNCHANGED <<reg, nodeVars, marked, ctl>>

\* Mutant of SyncStart: the set difference is the wrong way round.
SyncStartSwapped(n) ==
    LET s == sync[n] IN
    /\ s.pc = "stop" /\ s.todo = {}
    /\ local' = [local EXCEPT ![n] = IF phase[n] = "draining" THEN @
                                     ELSE @ \cup (s.seen \ s.owned)]
    /\ GoTo(n, [s EXCEPT !.pc = "mark", !.todo = s.seen \cap (s.owned \cup s.repinned),
                         !.seen = {}], marked[n])
    /\ UNCHANGED <<rows, reg, phase, capturing, paused, requests, marked, ctl>>

\* CreateChannelFromAssignment for every fetched row without a local channel.
\* After a shutdown has begun it declines.
SyncStart(n) ==
    LET s == sync[n] IN
    /\ s.pc = "stop" /\ s.todo = {}
    /\ local' = [local EXCEPT ![n] = IF phase[n] = "draining" THEN @
                                     ELSE @ \cup (s.owned \ s.seen)]
    /\ GoTo(n, [s EXCEPT !.pc = "mark", !.todo = s.seen \cap (s.owned \cup s.repinned),
                         !.seen = {}], marked[n])
    /\ UNCHANGED <<rows, reg, phase, capturing, paused, requests, marked, ctl>>

\* Each channel that is still ours is judged by what it does now ...
SyncJudge(n, c) ==
    LET next == CASE c \in capturing[n] -> [Drop(n, c) EXCEPT !.pc = "marking", !.chan = c]
                  [] c \in (local[n] \cap marked[n]) \ capturing[n] ->
                         [Drop(n, c) EXCEPT !.pc = "resetting", !.chan = c]
                  [] OTHER -> Drop(n, c)
    IN  /\ sync[n].pc = "mark" /\ c \in sync[n].todo
        /\ GoTo(n, next, marked[n])
        /\ UNCHANGED <<rows, reg, nodeVars, marked, ctl>>

Marking(n) == [sync[n] EXCEPT !.pc = "mark", !.chan = AnyChannel]

\* ... and marked if it was being recorded, ...
SyncMark(n) ==
    LET c == sync[n].chan IN
    /\ sync[n].pc = "marking"
    /\ \/ /\ rows' = MarkChannelRecording(rows, reg, c)
          /\ marked' = [marked EXCEPT ![n] = @ \cup {c}]
       \/ Fails /\ UNCHANGED <<rows, marked>>
    /\ GoTo(n, Marking(n), marked'[n])
    /\ UNCHANGED <<reg, nodeVars, ctl>>

\* ... or reset if this process had marked it.  The entry is dropped even when
\* the reset failed.
SyncReset(n) ==
    LET c == sync[n].chan IN
    /\ sync[n].pc = "resetting"
    /\ \/ rows' = SetAssignmentStatus(rows, reg, c, "claimed")
       \/ Fails /\ UNCHANGED rows
    /\ marked' = [marked EXCEPT ![n] = @ \ {c}]
    /\ GoTo(n, Marking(n), marked'[n])
    /\ UNCHANGED <<reg, nodeVars, ctl>>

\* Ghost markers: marked by this process, neither owned nor re-pinned.
SyncGhostLook(n, c) ==
    /\ sync[n].pc = "ghost" /\ c \in sync[n].todo
    /\ LET keep == c \in capturing[n] \/ rows[c].owner = n
           stale == rows[c].status = "recording" /\ rows[c].beat = "stale"
       IN  \/ /\ keep \/ Fails
              /\ GoTo(n, Drop(n, c), marked[n])
              /\ UNCHANGED marked
           \/ /\ ~keep /\ ~stale
              /\ GoTo(n, Drop(n, c), marked[n])
              /\ marked' = [marked EXCEPT ![n] = @ \ {c}]
           \/ /\ ~keep /\ stale
              /\ GoTo(n, [Drop(n, c) EXCEPT !.pc = "clear", !.chan = c], marked[n])
              /\ UNCHANGED marked
    /\ UNCHANGED <<rows, reg, nodeVars, ctl>>

SyncGhostClear(n) ==
    LET s == sync[n] IN
    /\ s.pc = "clear"
    /\ GoTo(n, [s EXCEPT !.pc = "ghost", !.chan = AnyChannel], marked[n])
    /\ \/ /\ rows' = SetAssignmentStatus(rows, reg, s.chan, "claimed")
          /\ marked' = [marked EXCEPT ![n] = @ \ {s.chan}]
       \/ Fails /\ UNCHANGED <<rows, marked>>
    /\ UNCHANGED <<reg, nodeVars, ctl>>

-----------------------------------------------------------------------------
(* The controller cycle of node n (runControllerCycle).                    *)

Known == {m \in Nodes : reg[m].status # "absent"}
FreshNodes == {m \in Nodes : reg[m].status = "online" /\ reg[m].age = "fresh"}
DrainingNodes == {m \in Nodes : reg[m].status = "draining"}
LongGone == {m \in Known \ (FreshNodes \cup DrainingNodes) : reg[m].age = "expired"}
ProtectedOwners == {m \in Known : reg[m].status # "offline" /\ reg[m].age # "expired"}

CtlSet(n, r) == ctl' = [ctl EXCEPT ![n] = r]

\* Hold the lease and classify the nodes.
CtlNodes(n) ==
    /\ phase[n] = "up" /\ ctl[n].pc = "idle"
    /\ CtlSet(n, [IdleCtl EXCEPT
           !.pc = "rows", !.active = FreshNodes, !.protected = ProtectedOwners,
           !.reclaim = DrainingNodes \cup LongGone,
           !.held = Known \ (FreshNodes \cup DrainingNodes \cup LongGone)])
    /\ UNCHANGED <<rows, reg, nodeVars, marked, sync>>

CtlRows(n) ==
    /\ ctl[n].pc = "rows"
    /\ CtlSet(n, [ctl[n] EXCEPT !.pc = "reclaim", !.all = rows])
    /\ UNCHANGED <<rows, reg, nodeVars, marked, sync>>

\* A failed call is logged and the next node is tried.
CtlReclaim(n, d) ==
    /\ ctl[n].pc = "reclaim" /\ d \in ctl[n].reclaim
    /\ \/ rows' = ReclaimNodeChannels(rows, d)
       \/ Fails /\ UNCHANGED rows
    /\ CtlSet(n, [ctl[n] EXCEPT !.reclaim = @ \ {d}])
    /\ UNCHANGED <<reg, nodeVars, marked, sync>>

\* clearStaleRecordingLeases, then the pool of the sweep: rows that are neither
\* held nor a recording of a protected owner.
CtlReset(n) ==
    LET k == ctl[n]
        reset == {c \in Channels : StaleUnprotected(rows[c], k.protected)}
        all(done) == [c \in Channels |-> IF c \in done THEN [k.all[c] EXCEPT !.status = "claimed"]
                                         ELSE k.all[c]]
        pool(t) == {c \in Channels : /\ Exists(t[c]) /\ t[c].owner \notin k.held
                                     /\ ~(t[c].status = "recording" /\ t[c].owner \in k.protected)}
        sweep(t) == IF k.active = {} \/ pool(t) = {} THEN IdleCtl
                    ELSE [IdleCtl EXCEPT !.pc = "sweep", !.active = k.active, !.all = t,
                                         !.todo = pool(t)]
    IN  /\ k.pc = "reclaim" /\ k.reclaim = {}
        /\ \/ /\ rows' = ResetStaleRecordingAssignments(rows, k.protected)
              /\ CtlSet(n, sweep(all({c \in reset : Exists(k.all[c])})))
           \/ /\ Fails
              /\ UNCHANGED rows
              /\ CtlSet(n, sweep(k.all))
        /\ UNCHANGED <<reg, nodeVars, marked, sync>>

\* balanceSite and rebalanceLiveLoad: one row is claimed for, or moved to, some
\* active node (Balancer says which), on the strength of the fetched rows.
CtlSweep(n, c) ==
    LET old == ctl[n].all[c] IN
    /\ ctl[n].pc = "sweep" /\ c \in ctl[n].todo
    /\ \E want \in ctl[n].active :
          \/ /\ old.owner = NoNode
             /\ rows' = ClaimSpecificChannel(rows, reg, c, want)
          \/ /\ old.owner \notin {NoNode, want}
             /\ ~(old.status = "recording" /\ old.owner \in ctl[n].active)
             /\ rows' = ReassignChannel(rows, reg, c, old.owner, want)
    /\ CtlSet(n, IF ctl[n].todo = {c} THEN IdleCtl ELSE [ctl[n] EXCEPT !.todo = @ \ {c}])
    /\ UNCHANGED <<reg, nodeVars, marked, sync>>

\* Rows at their target stay; a cold start or a lost lease ends the sweep early.
CtlEnd(n) ==
    /\ ctl[n].pc = "sweep"
    /\ CtlSet(n, IdleCtl)
    /\ UNCHANGED <<rows, reg, nodeVars, marked, sync>>

-----------------------------------------------------------------------------
\* What a node does by itself.
Lifecycle(n) ==
    \/ BootLoad(n) \/ Register(n) \/ Heartbeat(n) \/ FenceStatus(n) \/ FenceRelease(n)
    \/ Shutdown(n) \/ (phase[n] \notin {"loaded", "up"} /\ AgeNode(n))

Recorder(n) == \E c \in Channels : StartCapture(n, c) \/ EndCapture(n, c)

\* What a request does after its first step.
Request(n) ==
    \E c \in Channels : \/ StopRelease(n, c) \/ CreateStore(n, c) \/ PoolInsert(n, c)
                        \/ UserResume(n, c)

\* What happens to a node: counted, and at most MaxEvents times.
Misfortune(n) ==
    \/ Fence(n) \/ Crash(n) \/ Drain(n)
    \/ phase[n] \in {"loaded", "up"} /\ AgeNode(n)
    \/ \E c \in Channels : \/ UserPause(n, c) \/ UserStop(n, c) \/ UserCreate(n, c)
                           \/ PoolLook(n, c)

SyncStep(n) ==
    \/ SyncFetch(n) \/ SyncList(n) \/ SyncRepin(n) \/ SyncStart(n)
    \/ SyncMark(n) \/ SyncReset(n) \/ SyncGhostClear(n)
    \/ \E c \in Channels : \/ SyncStop(n, c) \/ SyncLook(n, c)
                           \/ SyncJudge(n, c) \/ SyncGhostLook(n, c)

CtlStep(n) ==
    \/ CtlNodes(n) \/ CtlRows(n) \/ CtlReset(n) \/ CtlEnd(n)
    \/ \E d \in Nodes : CtlReclaim(n, d)
    \/ \E c \in Channels : CtlSweep(n, c)

Next ==
    \/ /\ \/ \E n \in Nodes : Lifecycle(n) \/ Recorder(n) \/ Request(n) \/ SyncStep(n)
          \/ \E n \in Leaders : CtlStep(n)
          \/ \E c \in Channels : AgeBeat(c)
       /\ UNCHANGED events
    \/ /\ events < MaxEvents
       /\ \/ \E n \in Nodes : Misfortune(n)
          \/ \E c \in Channels : PoolRemove(c)
       /\ events' = events + 1

Spec == Init /\ [][Next]_vars

\* The sync loop of a node ticks as long as the process lives.
FairSpec == Spec /\ \A n \in Nodes : WF_vars(SyncStep(n) /\ UNCHANGED events)

-----------------------------------------------------------------------------
(* Properties.                                                             *)

\* The variables hold what the code can put there; a recording path belongs
\* to a channel of the map.
TypeOK ==
    /\ rows \in Table
    /\ reg \in Registry
    /\ phase \in [Nodes -> Phases]
    /\ local \in [Nodes -> SUBSET Channels]
    /\ capturing \in [Nodes -> SUBSET Channels]
    /\ paused \in [Nodes -> SUBSET Channels]
    /\ requests \in [Nodes -> SUBSET Requests]
    /\ marked \in [Nodes -> SUBSET Channels]
    /\ sync \in [Nodes -> SyncState]
    /\ ctl \in [Leaders -> CtlState]
    /\ events \in 0 .. MaxEvents

Orphan(row) == row.owner # NoNode /\ row.status \notin {"claimed", "recording"}

\* A row with an owner and the status 'unassigned', which nobody would claim or
\* release again (the state RepairOrphanedAssignments was written for), is made
\* by the upsert of a user's add or create over a row that has an owner, and by
\* no interleaving of claims, moves, re-pins, marks, releases and reclaims.
OrphanedOnlyByUpsert ==
    [][\A c \in Channels :
          ~Orphan(rows[c]) /\ Orphan(rows'[c]) =>
              /\ rows[c].owner # NoNode
              /\ rows' = BulkInsertAssignments(rows, reg, c)
              /\ UNCHANGED <<phase, sync, ctl>>]_vars

\* A row marked 'recording' whose owner is alive keeps its owner whatever the
\* controllers, the other nodes' re-pins and the fences do; only a user takes
\* it away, and nobody hands it to another node.
PinnedWhileOwnerAlive ==
    [][\A c \in Channels :
          rows[c].status = "recording" /\ OwnerAlive(reg, rows[c].owner) =>
              \/ rows'[c].owner = rows[c].owner
              \/ rows'[c].owner = NoNode /\ UNCHANGED <<ctl, sync, phase>>]_vars

\* A row without an owner gets one only from a controller that saw it without
\* one: no re-pin resurrects a channel that was released meanwhile.
OnlyControllersClaim ==
    [][\A c \in Channels :
          Exists(rows[c]) /\ rows[c].owner = NoNode /\ rows'[c].owner # NoNode =>
              \E n \in Leaders : ctl[n].pc = "sweep" /\ ctl[n].all[c].owner = NoNode]_vars

\* The local channels of a live node follow the table: an owned channel is
\* started, and an idle one that is owned elsewhere, or by nobody, is dropped
\* unless a user has paused it, however stops, creates and pauses fall between
\* the fetch of the rows, the list of the channels and the work of the cycle.
LocalFollowsTable ==
    \A n \in Nodes, c \in Channels :
        /\ rows[c].owner = n /\ phase[n] = "up"
              ~> c \in local[n] \/ rows[c].owner # n \/ phase[n] # "up"
        /\ c \in local[n] /\ rows[c].owner # n /\ phase[n] = "up"
              ~> \/ c \notin local[n] \ (capturing[n] \cup paused[n])
                 \/ rows[c].owner = n \/ phase[n] # "up"

\* What a user paused stays with the node, paused, until the user resumes or
\* stops it or the process ends: no cycle and no fence removes it, whoever owns
\* its row ("never discarded here", manager.go:615).
PauseIsSticky ==
    [][\A n \in Nodes, c \in Channels :
          /\ c \in paused[n] => c \in local[n]
          /\ c \in paused[n] \ paused'[n] =>
                phase'[n] = "down" \/ UNCHANGED <<rows, sync, ctl, phase>>]_vars

-----------------------------------------------------------------------------
(* What comments of the program say of it and the model refutes.           *)

\* "the OWNER must clear its own finished markers" (shuffle.go:83): a living
\* process forgets that it marked a row it owns only when the row no longer says
\* 'recording'.
MarkerForgottenOnlyWhenCleared ==
    [][\A n \in Nodes, c \in Channels :
          c \in marked[n] \ marked'[n] /\ rows[c].owner = n /\ phase'[n] # "down" =>
              rows'[c].status # "recording"]_vars

\* "Duplicate guard: never add a channel that already exists anywhere"
\* (router_handler.go:2114): an add writes no row that is there.
AddsOnlyWhatIsMissing ==
    [][\A n \in Nodes, c \in Channels :
          <<"add", c>> \in requests[n] /\ <<"add", c>> \notin requests'[n] /\ Exists(rows[c]) =>
              UNCHANGED rows]_vars

\* "re-pinned to this node so the new owner will not start a duplicate"
\* (shuffle.go:154): a cycle that counts a channel as re-pinned owns the row.
RepinTakesEffect ==
    [][\A n \in Nodes : \A c \in sync'[n].repinned \ sync[n].repinned :
          rows'[c].owner = n]_vars

\* "so the new owner never starts an overlapping duplicate capture"
\* (shuffle.go:17): no two nodes record one channel at the same time.
NoDuplicateCapture ==
    \A n, m \in Nodes : n # m => capturing[n] \cap capturing[m] = {}
=============================================================================
