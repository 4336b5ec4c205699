------------------------------- MODULE Balancer -------------------------------
(***************************************************************************)
(* What the leader's controller cycle decides: which rows a sweep claims   *)
(* and moves, to which nodes, and when a sweep is allowed at all.          *)
(*                                                                         *)
(* Ownership leaves the target of every claim and move open and checks     *)
(* that no choice is unsafe; here the targets are the code's, and the      *)
(* question is where the fleet ends up.  The cycle works on the snapshot   *)
(* it took at its start and never refreshes it, while recordings start and *)
(* end, markers age and nodes come and go.                                 *)
(***************************************************************************)
EXTENDS AssignmentStore

CONSTANTS Popular,    \* channels ever found live by the liveness loop
          MaxChanges  \* bound: changes of the surroundings in a behaviour

ASSUME BalancerAssumption == /\ Channels \subseteq Int
                             /\ Popular \subseteq Channels
                             /\ MaxChanges \in Nat

VARIABLES
    rows,    \* channel_assignments
    reg,     \* nodes: status and age of the last heartbeat
    ending,  \* nodes whose session_deadline is inside the migration window
    live,    \* channels with is_live
    memory,  \* the leader's assignerAssigned, assignerColdStart, assignerFleetSig
    sweep,   \* the cycle in progress
    changes  \* changes of the surroundings so far

surroundings == <<reg, ending, live>>
vars == <<rows, reg, ending, live, memory, sweep, changes>>

-----------------------------------------------------------------------------
(* How a cycle classifies the nodes.                                       *)

Fresh(n) == reg[n].status = "online" /\ reg[n].age = "fresh"
Away(n) == reg[n].status \notin {"absent", "draining"} /\ ~Fresh(n)

\* Mutant of Active: a node about to be killed still counts.
ActiveToTheEnd == {n \in Nodes : Fresh(n)}

Active == {n \in Nodes : Fresh(n) /\ n \notin ending}
Migrating == {n \in Nodes : Fresh(n) /\ n \in ending}
Held == {n \in Nodes : Away(n) /\ reg[n].age # "expired"}
Reclaimed == {n \in Nodes : \/ reg[n].status = "draining"
                            \/ Away(n) /\ reg[n].age = "expired"}
Protected == {n \in Nodes : OwnerAlive(reg, n)}

\* fleetSignature: what has to change for a rebalance of its own accord.
FleetSignature == [fleet |-> Active \cup Held, dead |-> Reclaimed, migrating |-> Migrating]

-----------------------------------------------------------------------------
(* The arithmetic of a sweep.                                              *)

SmallestOf(S) == CHOOSE x \in S : \A y \in S : x <= y

\* Mutant of EqualSplitCounts: the remainder is dropped.
RoundedDown(total, active) == [n \in active |-> total \div Cardinality(active)]

\* The first total % M nodes, by node_id, get one more.
EqualSplitCounts(total, active) ==
    LET m == Cardinality(active)
    IN  [n \in active |-> total \div m
            + IF Cardinality({k \in active : k < n}) < total % m THEN 1 ELSE 0]

\* The least loaded node below its target, smallest id first; none: {}.
PickUnderTarget(targets, counts) ==
    LET under == {n \in DOMAIN targets : counts[n] < targets[n]}
    IN  {n \in under : \A m \in under : \/ counts[n] < counts[m]
                                        \/ counts[n] = counts[m] /\ n <= m}

\* Rows on held nodes and recordings of live owners are outside a sweep.
Pool(all, held, protected) ==
    {c \in Channels : /\ Exists(all[c])
                      /\ all[c].owner \notin held
                      /\ ~(all[c].status = "recording" /\ all[c].owner \in protected)}

CountsIn(all, pool, active) ==
    [n \in active |-> Cardinality({c \in pool : all[c].owner = n})]

\* Every row of the pool is on an active node and every node has its count.
Even(all, active, held, protected) ==
    LET pool == Pool(all, held, protected)
    IN  /\ \A c \in pool : all[c].owner \in active
        /\ CountsIn(all, pool, active) = EqualSplitCounts(Cardinality(pool), active)

HasMovableImbalance(all, active, held, protected) ==
    /\ \E c \in Channels : Exists(all[c])
    /\ ~Even(all, active, held, protected)

Recordings(all, active) ==
    [n \in active |-> Cardinality({c \in Channels : all[c].owner = n /\ all[c].status = "recording"})]
AllRecordings(all, active) ==
    Cardinality({c \in Channels : all[c].owner \in active /\ all[c].status = "recording"})
LiveShare(all, active) ==
    (AllRecordings(all, active) + Cardinality(active) - 1) \div Cardinality(active)

\* Mutant of PickLiveRebalanceMove: the shares are not looked at.
ShedWhateverTheShare(all, liveAt, active, rec) ==
    {m \in [chan : liveAt, src : active, dst : active] :
        /\ all[m.chan].status # "recording"
        /\ all[m.chan].owner = m.src /\ m.dst # m.src}

\* pickLiveRebalanceMove: the first live row, not recording, of a node above
\* its share of the recordings, and the coldest node below its share.
PickLiveRebalanceMove(all, liveAt, active, rec) ==
    LET fair == LiveShare(all, active)
        below == {n \in active : rec[n] < fair}
        hot == {c \in liveAt : /\ Exists(all[c]) /\ all[c].status # "recording"
                               /\ all[c].owner \in active /\ rec[all[c].owner] > fair}
    IN  {m \in [chan : hot, src : active, dst : below] :
            /\ \A c \in hot : m.chan <= c
            /\ m.src = all[m.chan].owner
            /\ \A n \in below : \/ rec[m.dst] < rec[n]
                                \/ rec[m.dst] = rec[n] /\ m.dst <= n}

-----------------------------------------------------------------------------
NoSignature == [fleet |-> {}, dead |-> {}, migrating |-> {}]
FreshMemory == [assigned |-> FALSE, cold |-> "unset", sig |-> NoSignature]
Signatures == [fleet : SUBSET Nodes, dead : SUBSET Nodes, migrating : SUBSET Nodes]

\* all .. sig: what the cycle found at its start; counts: the loads it believes
\* in; rec: the recordings per node rebalanceLiveLoad believes in.
NoSweep == [pc |-> "idle", all |-> [c \in Channels |-> NoRow], live |-> {}, active |-> {},
            held |-> {}, protected |-> {}, need |-> FALSE, sig |-> NoSignature,
            todo |-> {}, counts |-> <<>>, rec |-> <<>>]

TypeOK ==
    /\ rows \in Table
    /\ reg \in Registry
    /\ ending \subseteq Nodes
    /\ live \subseteq Popular
    /\ memory \in [assigned : BOOLEAN, cold : {"unset", "waiting", "elapsed"}, sig : Signatures]
    /\ changes \in 0..MaxChanges
    /\ sweep.pc \in {"idle", "fill", "move", "live"}
    /\ sweep.pc # "idle" =>
        /\ sweep.all \in Table
        /\ sweep.active \in (SUBSET Nodes) \ {{}}
        /\ sweep.todo \subseteq Channels
        /\ sweep.sig \in Signatures
        /\ sweep.counts \in [sweep.active -> 0..Cardinality(Channels)]
    /\ sweep.pc = "live" => sweep.rec \in [sweep.active -> 0..Cardinality(Channels)]

\* A process that never led becomes the leader of a fleet at work: any allocation
\* among the nodes it has, up or lost, and any of its channels being recorded.
Init ==
    /\ reg \in [Nodes -> [status : {"absent", "online"}, age : {"fresh", "expired"}]]
    /\ \A n \in Nodes : reg[n].status = "absent" => reg[n].age = "fresh"
    /\ \E n \in Nodes : Fresh(n)
    /\ rows \in {table \in Table : \A c \in Channels :
            \/ table[c] = [owner |-> NoNode, status |-> "unassigned", beat |-> "stale"]
            \/ /\ table[c].owner # NoNode
               /\ reg[table[c].owner].status = "online"
               /\ <<table[c].status, table[c].beat>> \in {<<"claimed", "stale">>, <<"recording", "fresh">>}}
    /\ live \in SUBSET Popular
    /\ ending = {}
    /\ memory = FreshMemory /\ sweep = NoSweep /\ changes = 0

-----------------------------------------------------------------------------
(* The controller cycle.                                                   *)

OfflineCount == Cardinality({n \in Nodes : Away(n)})

\* The one-time split waits for every node, or for the cold-start window.
StartupDue == OfflineCount = 0 \/ memory.cold = "elapsed"

\* Mutant of MayAssign: only a due rebalance fills, an earlier split does not.
OnlyWhenDue(due) == due

\* canAssign
MayAssign(due) == due \/ memory.assigned

\* assignerColdStart is set by the first cycle that has to wait.
MemoryWhile(due) ==
    IF ~memory.assigned /\ ~due /\ memory.cold = "unset"
    THEN [memory EXCEPT !.cold = "waiting"]
    ELSE memory

\* The rows as the sweep sees them: fetched before the reclaim, with only the
\* stale recordings the reset reports brought up to date.
SweepRows(reclaimedRows) ==
    [c \in Channels |->
        IF StaleUnprotected(reclaimedRows[c], Protected)
        THEN [rows[c] EXCEPT !.status = "claimed"]
        ELSE rows[c]]

\* runControllerCycle up to balanceSite.  Its calls may interleave with other
\* processes; Ownership does that.  A cycle needs a leader that is not draining.
Plan ==
    LET due == IF memory.assigned THEN memory.sig # FleetSignature ELSE StartupDue
        reclaimedRows == [c \in Channels |->
            IF rows[c].owner \in Reclaimed THEN ReclaimNodeChannels(rows, rows[c].owner)[c]
                                           ELSE rows[c]]
        all == SweepRows(reclaimedRows)
        pool == Pool(all, Held, Protected)
        need == due \/ HasMovableImbalance(all, Active, Held, Protected)
        ended == [assigned |-> TRUE, cold |-> "unset", sig |-> FleetSignature]
    IN  /\ sweep.pc = "idle"
        /\ \E n \in Nodes : reg[n].status \notin {"absent", "draining"}
        /\ rows' = ResetStaleRecordingAssignments(reclaimedRows, Protected)
        /\ \/ /\ MayAssign(due) /\ Active # {}
              /\ sweep' = [pc |-> "fill", all |-> all, live |-> live, active |-> Active,
                           held |-> Held, protected |-> Protected, need |-> need,
                           sig |-> FleetSignature,
                           todo |-> {c \in pool : all[c].owner = NoNode},
                           counts |-> CountsIn(all, pool, Active), rec |-> <<>>]
              /\ memory' = MemoryWhile(due)
           \/ /\ ~(MayAssign(due) /\ Active # {})
              /\ memory' = IF due THEN ended ELSE MemoryWhile(due)
              /\ UNCHANGED sweep
        /\ UNCHANGED <<surroundings, changes>>

Targets == EqualSplitCounts(Cardinality(Pool(sweep.all, sweep.held, sweep.protected)), sweep.active)
Next1 == SmallestOf(sweep.todo)

\* The first loop of balanceSite: a row without an owner is claimed for the node
\* furthest behind; the claim counts for that node, wherever it landed.
Fill ==
    /\ sweep.pc = "fill" /\ sweep.todo # {}
    /\ LET c == Next1
           rest == [sweep EXCEPT !.todo = @ \ {c}]
           picked == PickUnderTarget(Targets, sweep.counts)
       IN  \/ /\ picked = {}
              /\ sweep' = rest /\ UNCHANGED rows
           \/ \E want \in picked :
                /\ rows' = ClaimSpecificChannel(rows, reg, c, want)
                /\ sweep' = IF Exists(rows[c]) /\ rows[c].owner = NoNode
                            THEN [rest EXCEPT !.counts[want] = @ + 1]
                            ELSE rest
    /\ UNCHANGED <<surroundings, memory, changes>>

\* Rows the second loop looks at.
Movable == {c \in Pool(sweep.all, sweep.held, sweep.protected) :
                /\ sweep.all[c].owner # NoNode
                /\ ~(sweep.all[c].status = "recording" /\ sweep.all[c].owner \in sweep.active)}

FillDone ==
    /\ sweep.pc = "fill" /\ sweep.todo = {}
    /\ sweep' = IF sweep.need
                THEN [sweep EXCEPT !.pc = "move", !.todo = Movable]
                ELSE [sweep EXCEPT !.pc = "live", !.rec = Recordings(sweep.all, sweep.active)]
    /\ UNCHANGED <<rows, surroundings, memory, changes>>

\* The second loop: a row of a node above its target, or off the fleet, moves to
\* the node furthest behind.  A PATCH that matches no row is counted like any.
Move ==
    /\ sweep.pc = "move" /\ sweep.todo # {}
    /\ LET c == Next1
           rest == [sweep EXCEPT !.todo = @ \ {c}]
           from == sweep.all[c].owner
           settled == from \in sweep.active /\ sweep.counts[from] <= Targets[from]
           picked == IF settled THEN {} ELSE PickUnderTarget(Targets, sweep.counts) \ {from}
       IN  \/ /\ picked = {}
              /\ sweep' = rest /\ UNCHANGED rows
           \/ \E to \in picked :
                /\ rows' = ReassignChannel(rows, reg, c, from, to)
                /\ sweep' = [rest EXCEPT !.counts =
                        [n \in sweep.active |-> CASE n = to -> @[n] + 1
                                                  [] n = from -> @[n] - 1
                                                  [] OTHER -> @[n]]]
    /\ UNCHANGED <<surroundings, memory, changes>>

MoveDone ==
    /\ sweep.pc = "move" /\ sweep.todo = {}
    /\ sweep' = [sweep EXCEPT !.pc = "live", !.rec = Recordings(sweep.all, sweep.active)]
    /\ UNCHANGED <<rows, surroundings, memory, changes>>

LiveMoves == IF AllRecordings(sweep.all, sweep.active) = 0 THEN {}
             ELSE PickLiveRebalanceMove(sweep.all, sweep.live, sweep.active, sweep.rec)

\* rebalanceLiveLoad looks at the snapshot of the cycle, not at what balanceSite
\* has moved since, and may pick one row again and again.
RebalanceLiveLoad ==
    /\ sweep.pc = "live"
    /\ \E m \in LiveMoves :
        /\ rows' = ReassignChannel(rows, reg, m.chan, m.src, m.dst)
        /\ sweep' = [sweep EXCEPT !.rec[m.src] = @ - 1, !.rec[m.dst] = @ + 1]
    /\ UNCHANGED <<surroundings, memory, changes>>

\* The cycle ends; a sweep that was needed is remembered, whatever it achieved.
EndCycle ==
    /\ sweep.pc = "live" /\ LiveMoves = {}
    /\ memory' = IF sweep.need
                 THEN [assigned |-> TRUE, cold |-> "unset", sig |-> sweep.sig]
                 ELSE memory
    /\ sweep' = NoSweep
    /\ UNCHANGED <<rows, surroundings, changes>>

\* cold_start_wait_sec have passed since the first cycle that had to wait.
ColdStartElapses ==
    /\ memory.cold = "waiting"
    /\ memory' = [memory EXCEPT !.cold = "elapsed"]
    /\ UNCHANGED <<rows, surroundings, sweep, changes>>

Controller == \/ Plan \/ Fill \/ FillDone \/ Move \/ MoveDone
              \/ RebalanceLiveLoad \/ EndCycle

-----------------------------------------------------------------------------
(* What happens around a cycle, at most MaxChanges times.                  *)

Change == changes < MaxChanges /\ changes' = changes + 1

\* One call of a sweep fails: the row is left out, and rebalanceLiveLoad takes
\* its source for balanced.
CallFails ==
    /\ Change
    /\ \/ /\ sweep.pc \in {"fill", "move"} /\ sweep.todo # {}
          /\ sweep' = [sweep EXCEPT !.todo = @ \ {Next1}]
       \/ /\ sweep.pc = "live"
          /\ \E m \in LiveMoves :
                sweep' = [sweep EXCEPT !.rec[m.src] = LiveShare(sweep.all, sweep.active)]
    /\ UNCHANGED <<rows, surroundings, memory>>

\* The lease passes, at any point of a cycle, to a process that never led.
NewLeader ==
    /\ Change
    /\ memory' = FreshMemory /\ sweep' = NoSweep
    /\ UNCHANGED <<rows, surroundings>>

\* Register: a new session of a node, with a new deadline.
Registers(n) ==
    /\ ~Fresh(n) \/ n \in ending
    /\ reg' = [reg EXCEPT ![n] = [status |-> "online", age |-> "fresh"]]
    /\ ending' = ending \ {n}
    /\ UNCHANGED live

\* A silent node is heard of again without a restart.
Beats(n) ==
    /\ reg[n].status # "absent" /\ reg[n].age # "fresh"
    /\ reg' = [reg EXCEPT ![n].age = "fresh"]
    /\ UNCHANGED <<ending, live>>

Ages(n) ==
    /\ reg[n].status # "absent" /\ reg[n].age # "expired"
    /\ reg' = [reg EXCEPT ![n].age = IF @ = "fresh" THEN "held" ELSE "expired"]
    /\ UNCHANGED <<ending, live>>

\* The drain button, and Stop.
Leaves(n) ==
    /\ reg[n].status # "absent"
    /\ \E status \in {"draining", "offline"} \ {reg[n].status} :
            reg' = [reg EXCEPT ![n].status = status]
    /\ UNCHANGED <<ending, live>>

DeadlineNears(n) ==
    /\ reg[n].status # "absent" /\ n \notin ending
    /\ ending' = ending \cup {n}
    /\ UNCHANGED <<reg, live>>

FleetChanges ==
    /\ Change
    /\ \E n \in Nodes : Registers(n) \/ Beats(n) \/ Ages(n) \/ Leaves(n) \/ DeadlineNears(n)
    /\ UNCHANGED <<rows, memory, sweep>>

\* The liveness loop writes is_live.
LivenessChanges ==
    /\ Change
    /\ \E c \in Popular : live' = IF c \in live THEN live \ {c} ELSE live \cup {c}
    /\ UNCHANGED <<rows, reg, ending, memory, sweep>>

\* The owner marks its recording; the marker ages; the recording is over.
RecordingChanges ==
    /\ Change
    /\ \E c \in Channels :
        \/ /\ rows[c].owner # NoNode /\ rows[c].status = "claimed"
           /\ rows' = MarkChannelRecording(rows, reg, c)
        \/ /\ rows[c].status = "recording" /\ rows[c].beat = "fresh"
           /\ rows' = [rows EXCEPT ![c].beat = "stale"]
        \/ /\ rows[c].status = "recording"
           /\ rows' = SetAssignmentStatus(rows, reg, c, "claimed")
    /\ UNCHANGED <<surroundings, memory, sweep>>

Surroundings == \/ CallFails \/ NewLeader \/ FleetChanges \/ LivenessChanges
                \/ RecordingChanges

Next == Controller \/ ColdStartElapses \/ Surroundings

Spec == Init /\ [][Next]_vars

\* The controller loop runs for as long as a process leads (its ticker and
\* runLoopWithRestart), and time passes.  Nothing else has to happen.
FairSpec == Spec /\ WF_vars(Controller) /\ WF_vars(ColdStartElapses)

-----------------------------------------------------------------------------
(* Properties.                                                             *)

Staffed == Active # {}

\* No channel is left unassigned (the operator's requirement balanceSite and the
\* housekeeping comment state): while nodes are there to take it, a row without
\* an owner gets one, although reclaimed rows are missing from the sweep that
\* freed them, claims are redirected by the fair-share cap, calls fail and the
\* leader changes or has to wait for the cold-start window.
EveryChannelPlaced ==
    \A c \in Channels : [](rows[c].owner = NoNode => <>(rows[c].owner # NoNode \/ ~Staffed))

\* A node above its share of the recordings, at which rebalanceLiveLoad would
\* shed.
Overloaded == \E n \in Active : Recordings(rows, Active)[n] > LiveShare(rows, Active)

\* A recording marker that is kept alive although its owner is gone.
Haunted == \E c \in Channels : /\ rows[c].status = "recording" /\ rows[c].beat = "fresh"
                               /\ rows[c].owner \notin Protected

\* Without an overloaded node the fleet converges to the equal split: from some
\* point on every movable row sits on an active node and the counts are exactly
\* the targets, whatever races disturbed the sweeps before.
SettlesUnlessOverloaded ==
    <>[](Staffed /\ ~Overloaded /\ ~Haunted) => <>[]Even(rows, Active, Held, Protected)

\* A node whose session is about to be killed, while another one is up, is
\* emptied of everything it is not recording, and gets nothing new for good.
EndingNodeEmptied ==
    \A n \in Nodes :
        <>[](Fresh(n) /\ n \in ending /\ \E m \in Nodes \ ending : Fresh(m))
        => <>[](\A c \in Channels : rows[c].owner = n => rows[c].status = "recording")

\* A stable, healthy fleet is never reshuffled: once nothing changes any more,
\* the sweeps stop moving rows between nodes.
FleetStopsShuffling == <>[][\A c \in Channels : rows'[c].owner = rows[c].owner]_vars
=============================================================================
