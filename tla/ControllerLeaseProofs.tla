------------------------ MODULE ControllerLeaseProofs ------------------------
(* ControllerLease, for any number of nodes and any TTL and batch.         *)
EXTENDS ControllerLease, TLAPS

-----------------------------------------------------------------------------
(* What makes OneRunningGrant inductive: a grant that still runs is the one  *)
(* the row records, with the same expiry.                                    *)

RowRecordsGrants == \A n \in Nodes : running[n] >= 0 => holder = n /\ left = running[n]

\* What makes BoundedOnOneGrant inductive: the writes since the grant are those
\* of the current loop, plus a batch when the other loop came before, and a
\* renewal that was granted starts the sum again.
CountsWrites ==
    \A n \in Nodes :
        /\ pc[n] = "answer" /\ granted[n] => since[n] = 0
        /\ pc[n] = "sweep" => since[n] <= count[n]
        /\ pc[n] = "live" => since[n] <= Batch + count[n]
        /\ pc[n] \in Loops /\ renewed[n] => count[n] = Batch /\ since[n] = 0

Inv == TypeOK /\ RowRecordsGrants /\ CountsWrites

\* A claim keeps the row in step with the grants: it goes to the node that has
\* the row, or to one that finds it expired, when no grant runs.
LEMMA ClaimKeepsRow ==
    ASSUME TypeOK, RowRecordsGrants, NEW n \in Nodes, ClaimLands(n)
    PROVE  /\ RowRecordsGrants'
           /\ holder' \in Nodes \cup {NoNode} /\ left' \in -1 .. TTL
           /\ running' \in [Nodes -> -1 .. TTL]
           /\ since' \in [Nodes -> Nat]
           /\ \A m \in Nodes \ {n} : since'[m] = since[m]
           /\ since'[n] \in {0, since[n]}
           /\ Grantable(n) => since'[n] = 0
BY LeaseAssumption DEF TypeOK, RowRecordsGrants, ClaimLands, Grantable, rowVars

\* Where a loop begins and where it leads.
LEMMA StartLoopEffect ==
    ASSUME TypeOK, NEW n \in Nodes, NEW loop \in Loops, StartLoop(n, loop)
    PROVE  /\ pc' \in [Nodes -> PCs] /\ count' \in [Nodes -> 0 .. Batch]
           /\ renewed' \in [Nodes -> BOOLEAN]
           /\ pc'[n] = loop /\ count'[n] = 0 /\ ~renewed'[n]
           /\ \A m \in Nodes \ {n} :
                  pc'[m] = pc[m] /\ count'[m] = count[m] /\ renewed'[m] = renewed[m]
BY LeaseAssumption DEF TypeOK, StartLoop, PCs, Loops

LEMMA LeaveEffect ==
    ASSUME TypeOK, NEW n \in Nodes, pc[n] \in Loops, Leave(n)
    PROVE  /\ pc' \in [Nodes -> PCs] /\ count' \in [Nodes -> 0 .. Batch]
           /\ renewed' \in [Nodes -> BOOLEAN]
           /\ pc[n] = "sweep" => pc'[n] = "live" /\ count'[n] = 0 /\ ~renewed'[n]
           /\ pc[n] = "live" => pc'[n] = "idle"
           /\ \A m \in Nodes \ {n} :
                  pc'[m] = pc[m] /\ count'[m] = count[m] /\ renewed'[m] = renewed[m]
<1>1. CASE pc[n] = "sweep"
  BY <1>1, StartLoopEffect DEF Leave, Loops
<1>2. CASE pc[n] # "sweep"
  BY <1>2 DEF Leave, Loops, TypeOK, PCs
<1> QED BY <1>1, <1>2

LEMMA InvInit == Init => Inv
BY LeaseAssumption DEF Init, Inv, TypeOK, RowRecordsGrants, CountsWrites, PCs, Loops

LEMMA InvStep == Inv /\ [Next]_vars => Inv'
<1> SUFFICES ASSUME Inv, [Next]_vars PROVE Inv'
  OBVIOUS
<1> USE LeaseAssumption DEF Inv, TypeOK, PCs, Loops
<1>1. CASE UNCHANGED vars
  BY <1>1 DEF vars, rowVars, loopVars, RowRecordsGrants, CountsWrites
<1>2. CASE Tick
  BY <1>2 DEF Tick, Less, loopVars, RowRecordsGrants, CountsWrites
<1>3. ASSUME NEW n \in Nodes, Acquire(n) PROVE Inv'
  <2>1. CASE ClaimLands(n) /\ granted' = [granted EXCEPT ![n] = Grantable(n)]
    <3>1. Grantable(n) \in BOOLEAN
      BY DEF Grantable
    <3>2. TypeOK' /\ RowRecordsGrants'
      BY <1>3, <2>1, <3>1, ClaimKeepsRow DEF Acquire
    <3>3. CountsWrites'
      BY <1>3, <2>1, <3>1, ClaimKeepsRow DEF Acquire, CountsWrites
    <3> QED BY <3>2, <3>3
  <2>2. CASE UNCHANGED <<rowVars, since>> /\ granted' = [granted EXCEPT ![n] = FALSE]
    BY <1>3, <2>2 DEF Acquire, rowVars, RowRecordsGrants, CountsWrites
  <2> QED BY <1>3, <2>1, <2>2 DEF Acquire
<1>4. ASSUME NEW n \in Nodes, Begin(n) PROVE Inv'
  <2>1. RowRecordsGrants'
    BY <1>4 DEF Begin, rowVars, RowRecordsGrants
  <2>2. CASE granted[n] /\ StartLoop(n, "sweep")
    <3>1. TypeOK'
      BY <1>4, <2>2, StartLoopEffect DEF Begin, rowVars
    <3>2. CountsWrites'
      BY <1>4, <2>2, StartLoopEffect DEF Begin, CountsWrites
    <3> QED BY <2>1, <3>1, <3>2
  <2>3. CASE pc' = [pc EXCEPT ![n] = "idle"] /\ UNCHANGED <<count, renewed>>
    <3>1. TypeOK'
      BY <1>4, <2>3 DEF Begin, rowVars
    <3>2. CountsWrites'
      BY <1>4, <2>3 DEF Begin, CountsWrites
    <3> QED BY <2>1, <3>1, <3>2
  <2> QED BY <1>4, <2>2, <2>3 DEF Begin
<1>5. ASSUME NEW n \in Nodes, Mutate(n) PROVE Inv'
  <2>1. RowRecordsGrants'
    BY <1>5 DEF Mutate, rowVars, RowRecordsGrants
  <2>2. TypeOK'
    BY <1>5 DEF Mutate, rowVars
  <2>3. CountsWrites'
    BY <1>5 DEF Mutate, MustRenew, CountsWrites
  <2> QED BY <2>1, <2>2, <2>3
<1>6. ASSUME NEW n \in Nodes, Renew(n) PROVE Inv'
  <2>0. Grantable(n) \in BOOLEAN /\ count[n] = Batch /\ pc[n] \in Loops
    BY <1>6 DEF Grantable, Renew, MustRenew
  <2>1. CASE /\ ClaimLands(n) /\ Grantable(n)
             /\ granted' = [granted EXCEPT ![n] = Grantable(n)]
             /\ renewed' = [renewed EXCEPT ![n] = TRUE] /\ UNCHANGED <<pc, count>>
    <3>1. TypeOK' /\ RowRecordsGrants'
      BY <2>0, <2>1, ClaimKeepsRow
    <3>2. CountsWrites'
      BY <2>0, <2>1, ClaimKeepsRow DEF CountsWrites
    <3> QED BY <3>1, <3>2
  <2>2. CASE /\ ClaimLands(n) \/ UNCHANGED <<rowVars, since>>
             /\ \E b \in BOOLEAN : granted' = [granted EXCEPT ![n] = b]
             /\ Leave(n)
    <3>1. TypeOK' /\ RowRecordsGrants'
      <4>1. CASE ClaimLands(n)
        BY <2>0, <2>2, <4>1, ClaimKeepsRow, LeaveEffect
      <4>2. CASE UNCHANGED <<rowVars, since>>
        BY <2>0, <2>2, <4>2, LeaveEffect DEF rowVars, RowRecordsGrants
      <4> QED BY <2>2, <4>1, <4>2
    <3>2. /\ since'[n] \in {0, since[n]}
          /\ \A m \in Nodes \ {n} : since'[m] = since[m]
      BY <2>2, ClaimKeepsRow
    <3>3. CountsWrites'
      BY <2>0, <2>2, <3>1, <3>2, LeaveEffect DEF CountsWrites
    <3> QED BY <3>1, <3>3
  <2> QED BY <1>6, <2>0, <2>1, <2>2 DEF Renew
<1>7. ASSUME NEW n \in Nodes, EndLoop(n) PROVE Inv'
  <2>1. TypeOK' /\ RowRecordsGrants'
    BY <1>7, LeaveEffect DEF EndLoop, rowVars, RowRecordsGrants
  <2>2. CountsWrites'
    BY <1>7, LeaveEffect DEF EndLoop, CountsWrites
  <2> QED BY <2>1, <2>2
<1>8. ASSUME NEW n \in Nodes, Stop(n) \/ Restart(n) PROVE Inv'
  BY <1>8 DEF Stop, Restart, rowVars, loopVars, RowRecordsGrants, CountsWrites
<1> QED BY <1>1, <1>2, <1>3, <1>4, <1>5, <1>6, <1>7, <1>8 DEF Next, Cycle

LEMMA Invariance == Spec => []Inv
BY InvInit, InvStep, PTL DEF Spec

-----------------------------------------------------------------------------
\* The row, the loops and the counts of the writes keep their types; the bound of
\* a count is the number of writes after which balanceSite renews the lease.
THEOREM LeaseTyped == Spec => []TypeOK
<1>1. Inv => TypeOK
  BY DEF Inv
<1> QED BY <1>1, Invariance, PTL

\* However many nodes race, and whatever is lost or restarted, the grants of two
\* nodes never overlap in time.
THEOREM GrantsExclusive == Spec => []OneRunningGrant
<1>1. Inv => OneRunningGrant
  BY DEF Inv, RowRecordsGrants, OneRunningGrant
<1> QED BY <1>1, Invariance, PTL

\* A node acknowledges at most two batches of writes on one grant, whether or
\* not the grant has run out meanwhile.
THEOREM StaleWorkBounded == Spec => []BoundedOnOneGrant
<1>1. Inv => BoundedOnOneGrant
  BY LeaseAssumption DEF Inv, TypeOK, CountsWrites, BoundedOnOneGrant, Loops
<1> QED BY <1>1, Invariance, PTL
=============================================================================
