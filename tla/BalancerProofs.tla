---------------------------- MODULE BalancerProofs ----------------------------
(* Types of Balancer for any fleet and any number of channels: above all, the *)
(* loads and recordings a sweep believes in never leave 0..the number of      *)
(* channels, whatever changes around it while it counts on.                   *)
EXTENDS Balancer, FiniteSetTheorems, TLAPS

-----------------------------------------------------------------------------
(* The arithmetic of a sweep.                                                 *)

\* An equal share of t among m, rounded down, and one more when there is a
\* remainder, is at most t.
LEMMA ShareBound ==
  ASSUME NEW t \in Nat, NEW m \in Nat \ {0}
  PROVE  /\ t \div m \in Nat /\ t \div m <= t
         /\ 0 < t % m => t \div m + 1 <= t
<1> DEFINE q == t \div m
           r == t % m
<1>1. q \in Int /\ r \in 0..m-1 /\ t = m * q + r
  BY SMT
<1> HIDE DEF q, r
<1>2. q >= 0
  BY <1>1, SMT
<1>3. m * q >= q
  BY <1>1, <1>2, SMT
<1> QED BY <1>1, <1>2, <1>3 DEF q, r

\* So is the share rounded up.
LEMMA ShareUpBound ==
  ASSUME NEW t \in Nat, NEW m \in Nat \ {0}
  PROVE  (t + m - 1) \div m \in Nat /\ (t + m - 1) \div m <= t
<1> DEFINE u == t + m - 1
           q == u \div m
           r == u % m
<1>1. u \in Nat /\ q \in Int /\ r \in 0..m-1 /\ u = m * q + r
  BY SMT
<1> HIDE DEF q, r
<1>2. q >= 0
  BY <1>1, SMT
<1>3. q <= t
  <2> SUFFICES ASSUME q >= t + 1 PROVE FALSE
    BY <1>1
  <2>1. m * q >= m * (t + 1)
    BY <1>1, SMT
  <2>2. m * (t + 1) >= t + m
    BY SMT
  <2> QED BY <1>1, <2>1, <2>2
<1> QED BY <1>1, <1>2, <1>3 DEF q

\* Numbers of channels.
Loads == 0..Cardinality(Channels)

LEMMA Counted ==
  /\ Cardinality(Channels) \in Nat
  /\ \A S \in SUBSET Channels : Cardinality(S) \in Loads
  /\ \A A \in (SUBSET Nodes) \ {{}} : Cardinality(A) \in Nat \ {0}
<1>1. IsFiniteSet(Channels) /\ IsFiniteSet(Nodes)
  BY StoreAssumption
<1>2. Cardinality(Channels) \in Nat
  BY <1>1, FS_CardinalityType
<1>3. ASSUME NEW S \in SUBSET Channels PROVE Cardinality(S) \in Loads
  <2>1. Cardinality(S) \in Nat /\ Cardinality(S) <= Cardinality(Channels)
    BY <1>1, FS_Subset, FS_CardinalityType
  <2> QED BY <1>2, <2>1 DEF Loads
<1>4. ASSUME NEW A \in (SUBSET Nodes) \ {{}} PROVE Cardinality(A) \in Nat \ {0}
  <2>1. IsFiniteSet(A) /\ A # {}
    <3>1. A \in SUBSET Nodes /\ A # {}
      OBVIOUS
    <3>2. IsFiniteSet(A)
      BY <1>1, <3>1, FS_Subset
    <3> QED BY <3>1, <3>2
  <2>2. Cardinality(A) \in Nat /\ Cardinality(A) # 0
    BY <2>1, FS_CardinalityType, FS_EmptySet
  <2> QED BY <2>2
<1> QED BY <1>2, <1>3, <1>4

\* The targets of a sweep are numbers of channels.
LEMMA TargetsTyped ==
  ASSUME NEW total \in Loads, NEW active \in (SUBSET Nodes) \ {{}}
  PROVE  EqualSplitCounts(total, active) \in [active -> Loads]
<1> DEFINE m == Cardinality(active)
           targets == EqualSplitCounts(total, active)
<1>1. total \in Nat /\ total <= Cardinality(Channels) /\ m \in Nat \ {0}
  BY Counted DEF Loads
<1>2. ASSUME NEW n \in active PROVE targets[n] \in {total \div m, total \div m + 1}
                                    /\ (targets[n] = total \div m + 1 => 0 < total % m)
  <2> DEFINE before == {k \in active : k < n}
  <2>1. IsFiniteSet(before)
    <3>1. before \in SUBSET Nodes
      OBVIOUS
    <3> QED BY <3>1, StoreAssumption, FS_Subset
  <2>2. Cardinality(before) \in Nat
    BY <2>1, FS_CardinalityType
  <2>3. targets[n] = total \div m + IF Cardinality(before) < total % m THEN 1 ELSE 0
    BY DEF EqualSplitCounts
  <2>4. total \div m \in Nat /\ total % m \in Nat
    BY <1>1, ShareBound
  <2> HIDE DEF before, m, targets
  <2> QED BY <2>2, <2>3, <2>4
<1>3. targets = [n \in active |-> targets[n]]
  BY DEF EqualSplitCounts
<1>4. ASSUME NEW n \in active PROVE targets[n] \in Loads
  <2>1. total \div m \in Nat /\ total \div m <= total /\ (0 < total % m => total \div m + 1 <= total)
    BY <1>1, ShareBound
  <2> HIDE DEF m, targets
  <2> QED BY <1>1, <1>2, <2>1, Counted DEF Loads
<1> HIDE DEF targets
<1> QED BY <1>3, <1>4 DEF targets

\* So is the share of the recordings, and what the nodes have.
LEMMA RecordingsTyped ==
  ASSUME NEW all, NEW active \in (SUBSET Nodes) \ {{}}
  PROVE  /\ LiveShare(all, active) \in Loads
         /\ Recordings(all, active) \in [active -> Loads]
<1> DEFINE m == Cardinality(active)
           a == AllRecordings(all, active)
<1>1. m \in Nat \ {0} /\ Cardinality(Channels) \in Nat
  BY Counted
<1>2. a \in Loads
  <2>1. {c \in Channels : all[c].owner \in active /\ all[c].status = "recording"} \in SUBSET Channels
    OBVIOUS
  <2> QED BY <2>1, Counted DEF AllRecordings
<1> HIDE DEF m, a
<1>3. (a + m - 1) \div m \in Nat /\ (a + m - 1) \div m <= a
  BY <1>1, <1>2, ShareUpBound DEF Loads
<1>4. LiveShare(all, active) = (a + m - 1) \div m
  BY DEF LiveShare, a, m
<1>5. LiveShare(all, active) \in Loads
  BY <1>1, <1>2, <1>3, <1>4 DEF Loads
<1>6. ASSUME NEW n \in active
      PROVE  Cardinality({c \in Channels : all[c].owner = n /\ all[c].status = "recording"}) \in Loads
  <2>1. {c \in Channels : all[c].owner = n /\ all[c].status = "recording"} \in SUBSET Channels
    OBVIOUS
  <2> QED BY <2>1, Counted
<1>7. Recordings(all, active) \in [active -> Loads]
  BY <1>6 DEF Recordings
<1> QED BY <1>5, <1>7

LEMMA CountsTyped ==
  ASSUME NEW all, NEW pool \in SUBSET Channels, NEW active
  PROVE  CountsIn(all, pool, active) \in [active -> Loads]
<1>1. ASSUME NEW n \in active PROVE Cardinality({c \in pool : all[c].owner = n}) \in Loads
  <2>1. {c \in pool : all[c].owner = n} \in SUBSET Channels
    OBVIOUS
  <2> QED BY <2>1, Counted
<1> QED BY <1>1 DEF CountsIn

-----------------------------------------------------------------------------
(* The statements.                                                            *)

\* The triggers make a row of a row.
LEMMA TriggersTyped ==
  ASSUME NEW rs, NEW rg, NEW old \in Row, NEW new \in Row
  PROVE  Triggers(rs, rg, old, new) \in Row
<1> DEFINE fair == EnforceFairShareClaim(rs, rg, old, new)
           kept == ProtectLiveOwnerAssignment(rg, old, fair)
<1>1. \A n \in Nodes : ClaimTarget(rs, rg, n) \in Nodes
  <2>1. Coldest(rs, rg) \subseteq Nodes
    BY DEF Coldest, Eligible
  <2> QED BY <2>1 DEF ClaimTarget
<1>2. fair \in Row
  BY <1>1 DEF EnforceFairShareClaim, Row
<1> HIDE DEF fair
<1>3. kept \in Row
  BY <1>2 DEF ProtectLiveOwnerAssignment, Row
<1> HIDE DEF kept
<1>4. ProtectRecordingAssignment(old, kept) \in Row
  BY <1>3 DEF ProtectRecordingAssignment, Row
<1> QED BY <1>4 DEF Triggers, kept, fair

\* A statement for a channel keeps the table a table; for what is no channel
\* it matches no row.
LEMMA WriteTyped ==
  ASSUME NEW rs \in Table, NEW rg, NEW c, NEW cond, NEW new, c \in Channels => new \in Row
  PROVE  Write(rs, rg, c, cond, new) \in Table
<1>1. CASE c \in Channels
  <2>1. Triggers(rs, rg, rs[c], new) \in Row
    BY <1>1, TriggersTyped DEF Table
  <2> QED BY <2>1 DEF Write, Table
<1>2. CASE c \notin Channels
  BY <1>2 DEF Write, Table
<1> QED BY <1>1, <1>2

LEMMA StatementsTyped ==
  ASSUME NEW rs \in Table, NEW rg, NEW c, NEW from, NEW n \in Nodes
  PROVE  ClaimSpecificChannel(rs, rg, c, n) \in Table /\ ReassignChannel(rs, rg, c, from, n) \in Table
<1>1. ClaimTarget(rs, rg, n) \in Nodes
  <2>1. Coldest(rs, rg) \subseteq Nodes
    BY DEF Coldest, Eligible
  <2> QED BY <2>1 DEF ClaimTarget
<1>2. c \in Channels =>
        /\ [rs[c] EXCEPT !.owner = ClaimTarget(rs, rg, n), !.status = "claimed"] \in Row
        /\ [rs[c] EXCEPT !.owner = n, !.status = "claimed"] \in Row
  BY <1>1 DEF Table, Row, RowStatuses
<1>3. ClaimSpecificChannel(rs, rg, c, n) \in Table
  BY <1>2, WriteTyped DEF ClaimSpecificChannel
<1>4. ReassignChannel(rs, rg, c, from, n) \in Table
  BY <1>2, WriteTyped DEF ReassignChannel
<1> QED BY <1>3, <1>4

LEMMA MarksTyped ==
  ASSUME NEW rs \in Table, NEW rg, NEW c
  PROVE  MarkChannelRecording(rs, rg, c) \in Table /\ SetAssignmentStatus(rs, rg, c, "claimed") \in Table
<1>1. c \in Channels =>
        /\ [rs[c] EXCEPT !.status = "recording", !.beat = "fresh"] \in Row
        /\ [rs[c] EXCEPT !.status = "claimed"] \in Row
  BY DEF Table, Row, RowStatuses
<1>2. MarkChannelRecording(rs, rg, c) \in Table
  BY <1>1, WriteTyped DEF MarkChannelRecording
<1>3. SetAssignmentStatus(rs, rg, c, "claimed") \in Table
  BY <1>1, WriteTyped DEF SetAssignmentStatus
<1> QED BY <1>2, <1>3

-----------------------------------------------------------------------------
(* Types.                                                                     *)

\* What a sweep is made of, at rest too.
LoadTables == {<<>>} \cup UNION {[A -> Loads] : A \in SUBSET Nodes}
SweepTyped(s) ==
  /\ s \in [pc : {"idle", "fill", "move", "live"}, all : Table, live : SUBSET Popular,
            active : SUBSET Nodes, held : SUBSET Nodes, protected : SUBSET Nodes,
            need : BOOLEAN, sig : Signatures, todo : SUBSET Channels,
            counts : LoadTables, rec : LoadTables]
  /\ s.pc # "idle" => s.active # {} /\ s.counts \in [s.active -> Loads]
  /\ s.pc = "live" => s.rec \in [s.active -> Loads]
MemoryTyped(m) ==
  m \in [assigned : BOOLEAN, cold : {"unset", "waiting", "elapsed"}, sig : Signatures]
FleetTyped == reg \in Registry /\ ending \subseteq Nodes /\ live \subseteq Popular
TypeInv ==
  /\ rows \in Table /\ FleetTyped /\ MemoryTyped(memory) /\ changes \in 0..MaxChanges
  /\ SweepTyped(sweep)

LEMMA InvTyped == TypeInv => TypeOK
<1> SUFFICES ASSUME TypeInv PROVE TypeOK
  OBVIOUS
<1>1. /\ rows \in Table /\ reg \in Registry /\ ending \subseteq Nodes /\ live \subseteq Popular
      /\ memory \in [assigned : BOOLEAN, cold : {"unset", "waiting", "elapsed"}, sig : Signatures]
      /\ changes \in 0..MaxChanges
  BY DEF TypeInv, FleetTyped, MemoryTyped
<1>2. /\ sweep.pc \in {"idle", "fill", "move", "live"} /\ sweep.all \in Table
      /\ sweep.active \in SUBSET Nodes /\ sweep.todo \subseteq Channels /\ sweep.sig \in Signatures
      /\ sweep.pc # "idle" => sweep.active # {} /\ sweep.counts \in [sweep.active -> Loads]
      /\ sweep.pc = "live" => sweep.rec \in [sweep.active -> Loads]
  BY DEF TypeInv, SweepTyped
<1> HIDE DEF TypeInv
<1> QED BY <1>1, <1>2 DEF TypeOK, Loads

LEMMA NoSweepTyped == SweepTyped(NoSweep) /\ MemoryTyped(FreshMemory) /\ Popular \subseteq Channels
<1>1. NoSignature \in Signatures
  BY DEF NoSignature, Signatures
<1>2. [c \in Channels |-> NoRow] \in Table
  BY DEF NoRow, Table, Row, RowStatuses
<1> QED BY <1>1, <1>2, BalancerAssumption
        DEF SweepTyped, NoSweep, MemoryTyped, FreshMemory, LoadTables

LEMMA InitTyped == Init => TypeInv
<1> SUFFICES ASSUME Init PROVE TypeInv
  OBVIOUS
<1>1. FleetTyped
  BY DEF Init, FleetTyped, Registry, NodeStatuses
<1>2. rows \in Table /\ changes \in 0..MaxChanges /\ memory = FreshMemory /\ sweep = NoSweep
  BY BalancerAssumption DEF Init
<1> QED BY <1>1, <1>2, NoSweepTyped DEF TypeInv

LEMMA SignatureTyped == FleetSignature \in Signatures
BY DEF FleetSignature, Signatures, Active, Held, Reclaimed, Migrating

\* The rows of a cycle's start, reclaimed, reset and as the sweep sees them.
LEMMA CycleRowsTyped ==
  ASSUME rows \in Table, NEW reclaimed \in Table
  PROVE  /\ SweepRows(reclaimed) \in Table
         /\ ResetStaleRecordingAssignments(reclaimed, Protected) \in Table
<1>1. SweepRows(reclaimed) \in Table
  BY DEF SweepRows, Table, Row, RowStatuses
<1>2. ResetStaleRecordingAssignments(reclaimed, Protected) \in Table
  BY DEF ResetStaleRecordingAssignments, Table, Row, RowStatuses
<1> QED BY <1>1, <1>2

\* Most steps leave most of the state alone.
LEMMA FrameTyped ==
  ASSUME TypeInv, rows' \in Table, SweepTyped(sweep'), UNCHANGED surroundings,
         memory' = memory \/ MemoryTyped(memory'),
         changes' = changes \/ changes' \in 0..MaxChanges
  PROVE  TypeInv'
BY DEF TypeInv, FleetTyped, surroundings

LEMMA ChangeTyped ==
  ASSUME TypeInv, Change
  PROVE  changes' \in 0..MaxChanges
BY BalancerAssumption DEF TypeInv, Change

LEMMA PlanTyped ==
  ASSUME TypeInv, Plan
  PROVE  TypeInv'
<1> DEFINE due == IF memory.assigned THEN memory.sig # FleetSignature ELSE StartupDue
           reclaimedRows == [c \in Channels |->
               IF rows[c].owner \in Reclaimed THEN ReclaimNodeChannels(rows, rows[c].owner)[c]
                                              ELSE rows[c]]
           all == SweepRows(reclaimedRows)
           pool == Pool(all, Held, Protected)
           need == due \/ HasMovableImbalance(all, Active, Held, Protected)
           ended == [assigned |-> TRUE, cold |-> "unset", sig |-> FleetSignature]
           s == [pc |-> "fill", all |-> all, live |-> live, active |-> Active,
                 held |-> Held, protected |-> Protected, need |-> need,
                 sig |-> FleetSignature,
                 todo |-> {c \in pool : all[c].owner = NoNode},
                 counts |-> CountsIn(all, pool, Active), rec |-> <<>>]
<1>1. /\ rows' = ResetStaleRecordingAssignments(reclaimedRows, Protected)
      /\ \/ Active # {} /\ sweep' = s /\ memory' = MemoryWhile(due)
         \/ memory' \in {ended, MemoryWhile(due)} /\ UNCHANGED sweep
      /\ UNCHANGED <<surroundings, changes>>
  BY DEF Plan
<1>2. rows \in Table /\ MemoryTyped(memory) /\ SweepTyped(sweep) /\ live \subseteq Popular
  BY DEF TypeInv, FleetTyped
<1>3. reclaimedRows \in Table
  <2>1. ASSUME NEW c \in Channels, NEW n PROVE ReclaimNodeChannels(rows, n)[c] \in Row
    BY <1>2 DEF ReclaimNodeChannels, Table, Row, RowStatuses
  <2> QED BY <1>2, <2>1 DEF Table
<1> HIDE DEF reclaimedRows
<1>4. rows' \in Table /\ all \in Table
  BY <1>1, <1>2, <1>3, CycleRowsTyped
<1> HIDE DEF all
<1>5. pool \in SUBSET Channels
  BY DEF Pool
<1> HIDE DEF pool
<1>6. /\ Active \in SUBSET Nodes /\ Held \in SUBSET Nodes /\ Protected \in SUBSET Nodes
      /\ FleetSignature \in Signatures
  BY SignatureTyped DEF Active, Held, Protected
<1>7. due \in BOOLEAN /\ need \in BOOLEAN
  <2>1. StartupDue \in BOOLEAN
    BY DEF StartupDue
  <2>2. due \in BOOLEAN
    BY <1>2, <2>1 DEF MemoryTyped
  <2> QED BY <2>2 DEF HasMovableImbalance
<1> HIDE DEF due, need
<1>8. MemoryTyped(ended) /\ MemoryTyped(MemoryWhile(due))
  BY <1>2, <1>6 DEF MemoryTyped, MemoryWhile
<1> HIDE DEF ended
<1>9. Active # {} => SweepTyped(s)
  <2>1. CountsIn(all, pool, Active) \in [Active -> Loads]
    BY <1>5, CountsTyped
  <2>2. CountsIn(all, pool, Active) \in LoadTables
    BY <1>6, <2>1 DEF LoadTables
  <2>3. {c \in pool : all[c].owner = NoNode} \in SUBSET Channels /\ <<>> \in LoadTables
    BY <1>5 DEF LoadTables
  <2> QED BY <1>2, <1>4, <1>6, <1>7, <2>1, <2>2, <2>3 DEF SweepTyped
<1> HIDE DEF s
<1>10. SweepTyped(sweep') /\ MemoryTyped(memory')
  BY <1>1, <1>2, <1>8, <1>9
<1> QED BY <1>1, <1>4, <1>10, FrameTyped

\* A sweep that counts on.
LEMMA CountingTyped ==
  ASSUME NEW s, SweepTyped(s), s.pc # "idle"
  PROVE  /\ \A x : SweepTyped([s EXCEPT !.todo = @ \ {x}])
         /\ \A t \in [s.active -> Loads] :
               SweepTyped([s EXCEPT !.counts = t]) /\ SweepTyped([s EXCEPT !.rec = t])
<1>1. s.active \in SUBSET Nodes
  BY DEF SweepTyped
<1>2. ASSUME NEW t \in [s.active -> Loads] PROVE t \in LoadTables
  BY <1>1 DEF LoadTables
<1>3. ASSUME NEW t \in [s.active -> Loads]
      PROVE  SweepTyped([s EXCEPT !.counts = t]) /\ SweepTyped([s EXCEPT !.rec = t])
  BY <1>2 DEF SweepTyped
<1>4. ASSUME NEW x PROVE SweepTyped([s EXCEPT !.todo = @ \ {x}])
  BY DEF SweepTyped
<1> QED BY <1>3, <1>4

LEMMA TargetsAre ==
  ASSUME TypeInv, sweep.pc # "idle"
  PROVE  Targets \in [sweep.active -> Loads] /\ sweep.counts \in [sweep.active -> Loads]
         /\ sweep.active \in (SUBSET Nodes) \ {{}}
<1>1. sweep.active \in (SUBSET Nodes) \ {{}} /\ sweep.counts \in [sweep.active -> Loads]
  BY DEF TypeInv, SweepTyped
<1> DEFINE pool == Pool(sweep.all, sweep.held, sweep.protected)
<1>2. pool \in SUBSET Channels
  BY DEF Pool
<1>3. Cardinality(pool) \in Loads
  BY <1>2, Counted
<1> HIDE DEF pool
<1>4. EqualSplitCounts(Cardinality(pool), sweep.active) \in [sweep.active -> Loads]
  BY <1>1, <1>3, TargetsTyped
<1> QED BY <1>1, <1>4 DEF Targets, pool

\* What is picked is a node whose load may still grow.
LEMMA PickedGrows ==
  ASSUME NEW targets, NEW counts, NEW active, targets \in [active -> Loads],
         counts \in [active -> Loads], NEW n \in PickUnderTarget(targets, counts)
  PROVE  n \in active /\ counts[n] + 1 \in Loads
<1>1. n \in active /\ counts[n] < targets[n]
  BY DEF PickUnderTarget
<1>2. counts[n] \in Loads /\ targets[n] \in Loads
  BY <1>1
<1> HIDE DEF Loads
<1> QED BY <1>1, <1>2, Counted DEF Loads

LEMMA FillTyped ==
  ASSUME TypeInv, Fill
  PROVE  TypeInv'
<1> DEFINE c == Next1
           rest == [sweep EXCEPT !.todo = @ \ {c}]
           picked == PickUnderTarget(Targets, sweep.counts)
<1>1. /\ sweep.pc = "fill"
      /\ \/ sweep' = rest /\ UNCHANGED rows
         \/ \E want \in picked :
              /\ rows' = ClaimSpecificChannel(rows, reg, c, want)
              /\ sweep' \in {[rest EXCEPT !.counts[want] = @ + 1], rest}
      /\ UNCHANGED <<surroundings, memory, changes>>
  BY DEF Fill
<1>2. /\ rows \in Table /\ SweepTyped(sweep) /\ sweep.active \in SUBSET Nodes
      /\ Targets \in [sweep.active -> Loads] /\ sweep.counts \in [sweep.active -> Loads]
  BY <1>1, TargetsAre DEF TypeInv
<1>3. SweepTyped(rest) /\ rest.counts = sweep.counts /\ rest.active = sweep.active /\ rest.pc = sweep.pc
  <2>1. rest.counts = sweep.counts /\ rest.active = sweep.active /\ rest.pc = sweep.pc
    BY <1>2 DEF SweepTyped
  <2> QED BY <1>1, <1>2, <2>1, CountingTyped
<1> HIDE DEF rest, c
<1>4. CASE sweep' = rest /\ UNCHANGED rows
  BY <1>1, <1>2, <1>3, <1>4, FrameTyped
<1>5. ASSUME NEW want \in picked, rows' = ClaimSpecificChannel(rows, reg, c, want),
             sweep' \in {[rest EXCEPT !.counts[want] = @ + 1], rest}
      PROVE  TypeInv'
  <2>1. want \in sweep.active /\ sweep.counts[want] + 1 \in Loads
    BY <1>2, PickedGrows
  <2>2. rows' \in Table
    BY <1>2, <1>5, <2>1, StatementsTyped
  <2> DEFINE t == [sweep.counts EXCEPT ![want] = @ + 1]
  <2>3. t \in [sweep.active -> Loads]
    BY <1>2, <2>1
  <2>4. [rest EXCEPT !.counts[want] = @ + 1] = [rest EXCEPT !.counts = t]
    BY <1>3
  <2> HIDE DEF t, picked
  <2>5. SweepTyped([rest EXCEPT !.counts = t])
    BY <1>1, <1>3, <2>3, CountingTyped
  <2>6. SweepTyped(sweep')
    BY <1>3, <1>5, <2>4, <2>5
  <2> QED BY <1>1, <2>2, <2>6, FrameTyped
<1> QED BY <1>1, <1>4, <1>5

LEMMA LoopsDoneTyped ==
  ASSUME TypeInv, FillDone \/ MoveDone
  PROVE  TypeInv'
<1> DEFINE r == Recordings(sweep.all, sweep.active)
<1>1. /\ sweep.pc # "idle"
      /\ \/ sweep' = [sweep EXCEPT !.pc = "move", !.todo = Movable]
         \/ sweep' = [sweep EXCEPT !.pc = "live", !.rec = r]
      /\ UNCHANGED <<rows, surroundings, memory, changes>>
  BY DEF FillDone, MoveDone
<1>2. SweepTyped(sweep) /\ sweep.active \in (SUBSET Nodes) \ {{}}
  BY <1>1 DEF TypeInv, SweepTyped
<1>3. r \in [sweep.active -> Loads] /\ r \in LoadTables
  <2>1. r \in [sweep.active -> Loads]
    BY <1>2, RecordingsTyped
  <2> HIDE DEF r
  <2> QED BY <1>2, <2>1 DEF LoadTables
<1>4. Movable \in SUBSET Channels
  BY DEF Movable, Pool
<1> HIDE DEF r
<1>5. SweepTyped([sweep EXCEPT !.pc = "live", !.rec = r])
  BY <1>1, <1>2, <1>3 DEF SweepTyped
<1>6. SweepTyped([sweep EXCEPT !.pc = "move", !.todo = Movable])
  BY <1>1, <1>2, <1>4 DEF SweepTyped
<1>7. rows \in Table
  BY DEF TypeInv
<1> QED BY <1>1, <1>5, <1>6, <1>7, FrameTyped

\* A node gives a row up only while it is above its target, which is no less
\* than nothing, and another takes it only while it is below.
LEMMA MoveTyped ==
  ASSUME TypeInv, Move
  PROVE  TypeInv'
<1> DEFINE c == Next1
           rest == [sweep EXCEPT !.todo = @ \ {c}]
           from == sweep.all[c].owner
           settled == from \in sweep.active /\ sweep.counts[from] <= Targets[from]
           picked == IF settled THEN {} ELSE PickUnderTarget(Targets, sweep.counts) \ {from}
           t(to) == [n \in sweep.active |-> CASE n = to -> sweep.counts[n] + 1
                                              [] n = from -> sweep.counts[n] - 1
                                              [] OTHER -> sweep.counts[n]]
<1>1. sweep.pc = "move" /\ UNCHANGED <<surroundings, memory, changes>>
  BY Zenon DEF Move
<1>2. \/ sweep' = rest /\ UNCHANGED rows
      \/ \E to \in picked :
           /\ rows' = ReassignChannel(rows, reg, c, from, to)
           /\ sweep' = [rest EXCEPT !.counts =
                     [n \in sweep.active |-> CASE n = to -> @[n] + 1
                                               [] n = from -> @[n] - 1
                                               [] OTHER -> @[n]]]
  BY Zenon DEF Move
<1>3. /\ rows \in Table /\ SweepTyped(sweep) /\ sweep.active \in SUBSET Nodes
      /\ Targets \in [sweep.active -> Loads] /\ sweep.counts \in [sweep.active -> Loads]
  BY <1>1, TargetsAre DEF TypeInv
<1>4. SweepTyped(rest) /\ rest.counts = sweep.counts /\ rest.active = sweep.active /\ rest.pc = sweep.pc
  <2>1. rest.counts = sweep.counts /\ rest.active = sweep.active /\ rest.pc = sweep.pc
    BY <1>3 DEF SweepTyped
  <2> QED BY <1>1, <1>3, <2>1, CountingTyped
<1> HIDE DEF rest, c, from
<1>5. CASE sweep' = rest /\ UNCHANGED rows
  BY <1>1, <1>3, <1>4, <1>5, FrameTyped
<1>6. ASSUME NEW to \in picked, rows' = ReassignChannel(rows, reg, c, from, to),
             sweep' = [rest EXCEPT !.counts =
                        [n \in sweep.active |-> CASE n = to -> @[n] + 1
                                                  [] n = from -> @[n] - 1
                                                  [] OTHER -> @[n]]]
      PROVE  TypeInv'
  <2>1. ~settled /\ to # from /\ to \in PickUnderTarget(Targets, sweep.counts)
    OBVIOUS
  <2>2. to \in sweep.active /\ sweep.counts[to] + 1 \in Loads
    BY <1>3, <2>1, PickedGrows
  <2>3. from \in sweep.active => sweep.counts[from] - 1 \in Loads
    <3> SUFFICES ASSUME from \in sweep.active PROVE sweep.counts[from] - 1 \in Loads
      OBVIOUS
    <3>1. ~(sweep.counts[from] <= Targets[from])
      BY <2>1
    <3>2. sweep.counts[from] \in Loads /\ Targets[from] \in Loads
      BY <1>3
    <3> HIDE DEF settled
    <3> QED BY <3>1, <3>2, Counted DEF Loads
  <2> HIDE DEF settled, picked
  <2>4. rows' \in Table
    BY <1>3, <1>6, <2>2, StatementsTyped
  <2>5. t(to) \in [sweep.active -> Loads]
    <3>1. ASSUME NEW n \in sweep.active PROVE t(to)[n] \in Loads
      <4>1. sweep.counts[n] \in Loads
        BY <1>3
      <4> QED BY <2>1, <2>2, <2>3, <4>1
    <3> QED BY <3>1
  <2>6. sweep' = [rest EXCEPT !.counts = t(to)]
    <3>1. sweep' = [rest EXCEPT !.counts =
                        [n \in sweep.active |-> CASE n = to -> rest.counts[n] + 1
                                                  [] n = from -> rest.counts[n] - 1
                                                  [] OTHER -> rest.counts[n]]]
      BY <1>6
    <3> QED BY <1>4, <3>1
  <2> HIDE DEF t
  <2>7. SweepTyped(sweep')
    <3>1. rest.pc # "idle" /\ t(to) \in [rest.active -> Loads]
      BY <1>1, <1>4, <2>5
    <3>2. SweepTyped([rest EXCEPT !.counts = t(to)])
      BY <1>4, <3>1, CountingTyped
    <3> QED BY <2>6, <3>2
  <2> QED BY <1>1, <2>4, <2>7, FrameTyped
<1> QED BY <1>2, <1>5, <1>6

\* The source of a live move is above its share, its target below.
LEMMA LiveMovesAre ==
  ASSUME TypeInv, sweep.pc = "live", NEW m \in LiveMoves
  PROVE  /\ m.chan \in Channels /\ m.src \in sweep.active /\ m.dst \in sweep.active
         /\ m.src # m.dst
         /\ sweep.rec[m.src] - 1 \in Loads /\ sweep.rec[m.dst] + 1 \in Loads
         /\ LiveShare(sweep.all, sweep.active) \in Loads
<1> DEFINE fair == LiveShare(sweep.all, sweep.active)
<1>1. /\ m.chan \in sweep.live /\ m.src \in sweep.active /\ m.dst \in sweep.active
      /\ sweep.rec[m.src] > fair /\ sweep.rec[m.dst] < fair
  BY DEF LiveMoves, PickLiveRebalanceMove
<1>2. /\ sweep.live \subseteq Channels /\ sweep.rec \in [sweep.active -> Loads]
      /\ sweep.active \in (SUBSET Nodes) \ {{}}
  BY BalancerAssumption DEF TypeInv, SweepTyped
<1>3. fair \in Loads
  BY <1>2, RecordingsTyped
<1> HIDE DEF fair
<1>4. sweep.rec[m.src] \in Loads /\ sweep.rec[m.dst] \in Loads
  BY <1>1, <1>2
<1>5. m.src # m.dst /\ sweep.rec[m.src] - 1 \in Loads /\ sweep.rec[m.dst] + 1 \in Loads
  BY <1>1, <1>3, <1>4, Counted DEF Loads
<1> QED BY <1>1, <1>2, <1>3, <1>5 DEF fair

LEMMA RebalanceLiveLoadTyped ==
  ASSUME TypeInv, RebalanceLiveLoad
  PROVE  TypeInv'
<1>1. sweep.pc = "live" /\ UNCHANGED <<surroundings, memory, changes>>
  BY DEF RebalanceLiveLoad
<1>2. PICK m \in LiveMoves :
        /\ rows' = ReassignChannel(rows, reg, m.chan, m.src, m.dst)
        /\ sweep' = [sweep EXCEPT !.rec[m.src] = @ - 1, !.rec[m.dst] = @ + 1]
  BY DEF RebalanceLiveLoad
<1>3. /\ m.src \in sweep.active /\ m.dst \in sweep.active /\ m.src # m.dst
      /\ sweep.rec[m.src] - 1 \in Loads /\ sweep.rec[m.dst] + 1 \in Loads
  BY <1>1, LiveMovesAre
<1>4. /\ rows \in Table /\ SweepTyped(sweep) /\ sweep.active \in SUBSET Nodes
      /\ sweep.rec \in [sweep.active -> Loads]
  BY <1>1 DEF TypeInv, SweepTyped
<1>5. rows' \in Table
  BY <1>2, <1>3, <1>4, StatementsTyped
<1> DEFINE t == [sweep.rec EXCEPT ![m.src] = @ - 1, ![m.dst] = @ + 1]
<1>6. t \in [sweep.active -> Loads]
  BY <1>3, <1>4
<1>7. sweep' = [sweep EXCEPT !.rec = t]
  BY <1>2, <1>4 DEF SweepTyped
<1> HIDE DEF t
<1>8. SweepTyped(sweep')
  BY <1>1, <1>4, <1>6, <1>7, CountingTyped
<1> QED BY <1>1, <1>5, <1>8, FrameTyped

LEMMA EndCycleTyped ==
  ASSUME TypeInv, EndCycle
  PROVE  TypeInv'
<1>1. MemoryTyped([assigned |-> TRUE, cold |-> "unset", sig |-> sweep.sig])
  BY DEF TypeInv, SweepTyped, MemoryTyped
<1>2. MemoryTyped(memory') /\ SweepTyped(sweep')
  BY <1>1, NoSweepTyped DEF EndCycle, TypeInv
<1> QED BY <1>2 DEF EndCycle, TypeInv, FleetTyped, surroundings

LEMMA CallFailsTyped ==
  ASSUME TypeInv, CallFails
  PROVE  TypeInv'
<1>1. Change /\ UNCHANGED <<rows, surroundings, memory>>
  BY DEF CallFails
<1>2. changes' \in 0..MaxChanges
  BY <1>1, ChangeTyped
<1>3. SweepTyped(sweep)
  BY DEF TypeInv
<1>4. rows \in Table
  BY DEF TypeInv
<1>5. CASE sweep.pc \in {"fill", "move"} /\ sweep' = [sweep EXCEPT !.todo = @ \ {Next1}]
  <2>1. SweepTyped(sweep')
    BY <1>3, <1>5, CountingTyped
  <2> QED BY <1>1, <1>2, <1>4, <2>1, FrameTyped
<1>6. ASSUME sweep.pc = "live", NEW m \in LiveMoves,
             sweep' = [sweep EXCEPT !.rec[m.src] = LiveShare(sweep.all, sweep.active)]
      PROVE  TypeInv'
  <2> DEFINE t == [sweep.rec EXCEPT ![m.src] = LiveShare(sweep.all, sweep.active)]
  <2>1. LiveShare(sweep.all, sweep.active) \in Loads /\ m.src \in sweep.active
    BY <1>6, LiveMovesAre
  <2>2. sweep.rec \in [sweep.active -> Loads]
    BY <1>3, <1>6 DEF SweepTyped
  <2>3. t \in [sweep.active -> Loads]
    BY <2>1, <2>2
  <2>4. sweep' = [sweep EXCEPT !.rec = t]
    BY <1>3, <1>6 DEF SweepTyped
  <2> HIDE DEF t
  <2>5. SweepTyped(sweep')
    <3>1. sweep.pc # "idle"
      BY <1>6
    <3>2. SweepTyped([sweep EXCEPT !.rec = t])
      BY <1>3, <2>3, <3>1, CountingTyped
    <3> QED BY <2>4, <3>2
  <2> QED BY <1>1, <1>2, <1>4, <2>5, FrameTyped
<1> QED BY <1>5, <1>6 DEF CallFails

\* What else changes around a cycle.
LEMMA NewLeaderTyped ==
  ASSUME TypeInv, NewLeader \/ ColdStartElapses
  PROVE  TypeInv'
<1>1. CASE NewLeader
  <2>1. changes' \in 0..MaxChanges
    BY <1>1, ChangeTyped DEF NewLeader
  <2> QED BY <1>1, <2>1, NoSweepTyped DEF NewLeader, TypeInv, FleetTyped, surroundings
<1>2. CASE ColdStartElapses
  <2>1. MemoryTyped([memory EXCEPT !.cold = "elapsed"])
    BY DEF TypeInv, MemoryTyped
  <2> QED BY <1>2, <2>1 DEF ColdStartElapses, TypeInv, FleetTyped, surroundings
<1> QED BY <1>1, <1>2

LEMMA FleetChangesTyped ==
  ASSUME TypeInv, FleetChanges
  PROVE  TypeInv'
<1>1. changes' \in 0..MaxChanges /\ UNCHANGED <<rows, memory, sweep>>
  BY ChangeTyped DEF FleetChanges
<1>2. FleetTyped
  BY DEF TypeInv
<1>3. PICK n \in Nodes : Registers(n) \/ Beats(n) \/ Ages(n) \/ Leaves(n) \/ DeadlineNears(n)
  BY DEF FleetChanges
<1>4. reg[n].age \in {"fresh", "held", "expired"} /\ reg[n].status \in NodeStatuses
  BY <1>2 DEF FleetTyped, Registry
<1>5. reg' \in Registry
  BY <1>2, <1>3, <1>4 DEF FleetTyped, Registry, NodeStatuses, Registers, Beats, Ages, Leaves, DeadlineNears
<1>6. ending' \subseteq Nodes /\ live' = live
  BY <1>2, <1>3 DEF FleetTyped, Registers, Beats, Ages, Leaves, DeadlineNears
<1> QED BY <1>1, <1>2, <1>5, <1>6 DEF TypeInv, FleetTyped

LEMMA LivenessChangesTyped ==
  ASSUME TypeInv, LivenessChanges
  PROVE  TypeInv'
<1>1. changes' \in 0..MaxChanges /\ UNCHANGED <<rows, reg, ending, memory, sweep>>
  BY ChangeTyped DEF LivenessChanges
<1>2. live' \subseteq Popular
  BY DEF LivenessChanges, TypeInv, FleetTyped
<1> QED BY <1>1, <1>2 DEF TypeInv, FleetTyped

LEMMA RecordingChangesTyped ==
  ASSUME TypeInv, RecordingChanges
  PROVE  TypeInv'
<1>1. changes' \in 0..MaxChanges /\ UNCHANGED <<surroundings, memory, sweep>>
  BY ChangeTyped DEF RecordingChanges
<1>2. rows \in Table
  BY DEF TypeInv
<1>3. PICK c \in Channels :
        \/ rows' = MarkChannelRecording(rows, reg, c) /\ rows[c].owner # NoNode
        \/ rows' = [rows EXCEPT ![c].beat = "stale"]
        \/ rows' = SetAssignmentStatus(rows, reg, c, "claimed")
  BY DEF RecordingChanges
<1>4. rows' \in Table
  <2>1. [rows EXCEPT ![c].beat = "stale"] \in Table
    BY <1>2 DEF Table, Row
  <2>2. MarkChannelRecording(rows, reg, c) \in Table /\ SetAssignmentStatus(rows, reg, c, "claimed") \in Table
    BY <1>2, MarksTyped
  <2> QED BY <1>3, <2>1, <2>2
<1>5. SweepTyped(sweep)
  BY DEF TypeInv
<1> QED BY <1>1, <1>4, <1>5, FrameTyped

LEMMA NextTyped == TypeInv /\ [Next]_vars => TypeInv'
<1> SUFFICES ASSUME TypeInv, [Next]_vars PROVE TypeInv'
  OBVIOUS
<1>1. CASE Controller
  BY <1>1, PlanTyped, FillTyped, LoopsDoneTyped, MoveTyped, RebalanceLiveLoadTyped, EndCycleTyped
     DEF Controller
<1>2. CASE Surroundings
  BY <1>2, CallFailsTyped, NewLeaderTyped, FleetChangesTyped, LivenessChangesTyped, RecordingChangesTyped
     DEF Surroundings
<1>3. CASE ColdStartElapses
  BY <1>3, NewLeaderTyped
<1>4. CASE UNCHANGED vars
  BY <1>4 DEF vars, surroundings, TypeInv, FleetTyped
<1> QED BY <1>1, <1>2, <1>3, <1>4 DEF Next

\* Every state is typed: whatever nodes, recordings, leaders and calls do, the
\* load a sweep believes a node has, and the recordings rebalanceLiveLoad counts
\* for it, stay between none and all of the channels (balanceSite,
\* rebalanceLiveLoad).
THEOREM BalancerTyped == Spec => []TypeOK
BY InitTyped, NextTyped, InvTyped, PTL DEF Spec
=============================================================================
