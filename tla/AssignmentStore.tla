--------------------------- MODULE AssignmentStore ---------------------------
(***************************************************************************)
(* The channel_assignments table as its writers see it: what each RPC or   *)
(* filtered PATCH of database/supabase.go does to the rows, including the  *)
(* three BEFORE UPDATE triggers that run on every written row.             *)
(*                                                                         *)
(* The module has no variables.  `rows' is the table, `reg' the nodes      *)
(* table; every operator returns the table after one statement.  Two times *)
(* are kept, as the ages the code compares them with: `beat' of a row is   *)
(* "stale" once last_heartbeat is older than recordingLeaseTTL, and `age'  *)
(* of a node is "fresh" up to the 180 s heartbeat timeout, "held" up to    *)
(* the 20 min grace, "expired" after it.                                   *)
(***************************************************************************)
EXTENDS Integers, FiniteSets

CONSTANTS Nodes,     \* node ids; integers, so that they are ordered like node_id
          Channels,  \* channels (one site: the key of a row is the username)
          NoNode     \* assigned_node IS NULL

ASSUME StoreAssumption == /\ Nodes \subseteq Int
                          /\ IsFiniteSet(Nodes)
                          /\ IsFiniteSet(Channels)
                          /\ NoNode \notin Nodes

RowStatuses == {"absent", "unassigned", "claimed", "recording"}
Row == [owner : Nodes \cup {NoNode}, status : RowStatuses, beat : {"fresh", "stale"}]
Table == [Channels -> Row]

NodeStatuses == {"absent", "online", "draining", "offline"}
Registry == [Nodes -> [status : NodeStatuses, age : {"fresh", "held", "expired"}]]

NoRow == [owner |-> NoNode, status |-> "absent", beat |-> "stale"]
Exists(row) == row.status # "absent"

-----------------------------------------------------------------------------
(* Fair share: what one node may claim out of the pool.                    *)

Eligible(reg) == {n \in Nodes : reg[n].status = "online" /\ reg[n].age # "expired"}
Load(rows, n) == Cardinality({c \in Channels : rows[c].owner = n})
Total(rows) == Cardinality({c \in Channels : Exists(rows[c])})

\* fair_share_target is NULL for a node outside a non-empty eligible set.
Capped(reg, n) == n \in Eligible(reg) \/ Eligible(reg) = {}
FairShare(rows, reg) ==
    LET k == Cardinality(Eligible(reg))
    IN  IF k = 0 THEN Total(rows) ELSE (Total(rows) + k - 1) \div k

\* The eligible nodes under the share with the least load, smallest id first.
Coldest(rows, reg) ==
    LET under == {n \in Eligible(reg) : Load(rows, n) < FairShare(rows, reg)}
    IN  {n \in under : \A m \in under \ {n} :
            \/ Load(rows, n) < Load(rows, m)
            \/ Load(rows, n) = Load(rows, m) /\ n < m}

\* A claim for a node at its share lands on the coldest node below it.
ClaimTarget(rows, reg, n) ==
    IF /\ Capped(reg, n)
       /\ Load(rows, n) >= FairShare(rows, reg)
       /\ Coldest(rows, reg) # {}
    THEN CHOOSE m \in Coldest(rows, reg) : TRUE
    ELSE n

-----------------------------------------------------------------------------
(* The triggers, in the alphabetical order in which PostgreSQL fires them. *)

OwnerAlive(reg, n) == /\ n \in Nodes
                      /\ reg[n].status \in {"online", "draining"}
                      /\ reg[n].age # "expired"

EnforceFairShareClaim(rows, reg, old, new) ==
    IF old.owner = NoNode /\ new.owner # NoNode
    THEN [new EXCEPT !.owner = ClaimTarget(rows, reg, new.owner)]
    ELSE new

ProtectLiveOwnerAssignment(reg, old, new) ==
    IF /\ old.owner # NoNode /\ new.owner # NoNode /\ old.owner # new.owner
       /\ OwnerAlive(reg, old.owner)
       /\ old.status = "recording"
    THEN [new EXCEPT !.owner = old.owner]
    ELSE new

ProtectRecordingAssignment(old, new) ==
    IF new.status = "recording" /\ old.owner # new.owner
    THEN [new EXCEPT !.owner = old.owner]
    ELSE new

\* Mutant of Triggers: the two protecting triggers are not installed.
ShareTriggerOnly(rows, reg, old, new) == EnforceFairShareClaim(rows, reg, old, new)

Triggers(rows, reg, old, new) ==
    ProtectRecordingAssignment(old,
        ProtectLiveOwnerAssignment(reg, old,
            EnforceFairShareClaim(rows, reg, old, new)))

\* UPDATE channel_assignments SET ... WHERE cond, for one channel.
Write(rows, reg, c, cond, new) ==
    IF Exists(rows[c]) /\ cond
    THEN [rows EXCEPT ![c] = Triggers(rows, reg, rows[c], new)]
    ELSE rows

-----------------------------------------------------------------------------
(* One operator per statement the program issues.                          *)

\* claim_specific_channel; its REST fallback asks for less and adds nothing.
ClaimSpecificChannel(rows, reg, c, n) ==
    Write(rows, reg, c, rows[c].owner = NoNode,
          [rows[c] EXCEPT !.owner = ClaimTarget(rows, reg, n), !.status = "claimed"])

ReassignChannel(rows, reg, c, from, to) ==
    Write(rows, reg, c, rows[c].owner = from /\ rows[c].status # "recording",
          [rows[c] EXCEPT !.owner = to, !.status = "claimed"])

\* Mutant of ReassertAssignmentNode: the whole row is written, as a claim.
ReassertAsClaim(rows, reg, c, n, expected) ==
    Write(rows, reg, c, TRUE, [rows[c] EXCEPT !.owner = n, !.status = "claimed"])

\* The PATCH carries the owner the caller saw as a filter.
ReassertAssignmentNode(rows, reg, c, n, expected) ==
    Write(rows, reg, c, rows[c].owner = expected, [rows[c] EXCEPT !.owner = n])

MarkChannelRecording(rows, reg, c) ==
    Write(rows, reg, c, TRUE, [rows[c] EXCEPT !.status = "recording", !.beat = "fresh"])

SetAssignmentStatus(rows, reg, c, status) ==
    Write(rows, reg, c, TRUE, [rows[c] EXCEPT !.status = status])

ReleaseChannel(rows, reg, c) ==
    Write(rows, reg, c, TRUE, [rows[c] EXCEPT !.owner = NoNode, !.status = "unassigned"])

\* Mutant of ReclaimNodeChannels: the owner stays.
ReclaimKeepsOwner(rows, n) ==
    [c \in Channels |-> IF rows[c].owner = n /\ rows[c].status # "recording"
                        THEN [rows[c] EXCEPT !.status = "unassigned"]
                        ELSE rows[c]]

\* reclaim_node_channels frees every row of a node that is not recording.
ReclaimNodeChannels(rows, n) ==
    [c \in Channels |->
        IF rows[c].owner = n /\ rows[c].status # "recording"
        THEN [rows[c] EXCEPT !.owner = NoNode, !.status = "unassigned"]
        ELSE rows[c]]

\* A NULL owner does not match `not.in' when the list is not empty.
StaleUnprotected(row, protected) ==
    /\ row.status = "recording" /\ row.beat = "stale"
    /\ protected = {} \/ row.owner \notin protected \cup {NoNode}

ResetStaleRecordingAssignments(rows, protected) ==
    [c \in Channels |->
        IF StaleUnprotected(rows[c], protected)
        THEN [rows[c] EXCEPT !.status = "claimed"]
        ELSE rows[c]]

\* Mutant of BulkInsertAssignments: a status no reader knows.
BulkInsertNewStatus(rows, reg, c) ==
    [rows EXCEPT ![c] = [owner |-> NoNode, status |-> "new", beat |-> "stale"]]

\* An upsert (Prefer: resolution=merge-duplicates): on an existing row it writes
\* the columns of the payload, status but not assigned_node, over what is there.
BulkInsertAssignments(rows, reg, c) ==
    IF Exists(rows[c])
    THEN Write(rows, reg, c, TRUE, [rows[c] EXCEPT !.status = "unassigned"])
    ELSE [rows EXCEPT ![c] = [owner |-> NoNode, status |-> "unassigned", beat |-> "stale"]]

DeleteAssignment(rows, c) == [rows EXCEPT ![c] = NoRow]
=============================================================================
