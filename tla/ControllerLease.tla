--------------------------- MODULE ControllerLease ---------------------------
(***************************************************************************)
(* The lease that elects the controller, and the cycle that runs under it. *)
(*                                                                         *)
(* One row (controller_lease) names a holder and an expiry.  A node claims *)
(* it at the start of every controller cycle and again after every Batch   *)
(* acknowledged writes of an assignment loop; in between nothing looks at  *)
(* the clock, so a cycle may outlive its lease.  Times are kept relative   *)
(* to now: `left' is expires_at minus now of the row, `running' is the     *)
(* same difference for the last grant each node was given.                 *)
(***************************************************************************)
EXTENDS Integers

CONSTANTS Nodes,   \* nodes that run the controller loop
          NoNode,  \* no row in controller_lease yet
          TTL,     \* lease_ttl_sec, in ticks
          Batch    \* acknowledged writes between two renewals (10 in the code)

ASSUME LeaseAssumption == /\ NoNode \notin Nodes
                          /\ TTL \in Nat \ {0}
                          /\ Batch \in Nat \ {0}

VARIABLES
    holder,  \* node_id of the row
    left,    \* ticks until expires_at; -1 once it has passed
    running, \* per node: ticks until the end of the last grant it was given
    pc,      \* per node: where its controller cycle is
    granted, \* per node: the answer of the last claim
    count,   \* per node: mutations of the current loop, modulo Batch
    renewed, \* per node: the renewal for this count has been granted
    since    \* per node: acknowledged writes since its last grant

rowVars == <<holder, left, running>>
loopVars == <<count, renewed, since>>
vars == <<holder, left, running, pc, granted, count, renewed, since>>

PCs == {"down", "idle", "answer", "sweep", "live"}
Loops == {"sweep", "live"}

Init ==
    /\ holder = NoNode /\ left = -1
    /\ running = [n \in Nodes |-> -1]
    /\ pc = [n \in Nodes |-> "idle"]
    /\ granted = [n \in Nodes |-> FALSE]
    /\ count = [n \in Nodes |-> 0]
    /\ renewed = [n \in Nodes |-> FALSE]
    /\ since = [n \in Nodes |-> 0]

-----------------------------------------------------------------------------
\* Mutants of Grantable: the comparison of node_id is negated; the expiry is not
\* looked at.
GrantableUnlessOwn(n) == left < 0 \/ holder # n

GrantableToHolder(n) == holder \in {n, NoNode}

\* claim_controller_lease: UPDATE when expired or ours, INSERT when there is no
\* row; true when the row is ours and running afterwards.
Grantable(n) == left < 0 \/ holder = n

\* The statement runs at the database, whatever becomes of its answer.
ClaimLands(n) ==
    IF Grantable(n)
    THEN /\ holder' = n /\ left' = TTL
         /\ running' = [running EXCEPT ![n] = TTL]
         /\ since' = [since EXCEPT ![n] = 0]
    ELSE UNCHANGED <<rowVars, since>>

\* TryAcquireControllerLease at the start of a cycle: the call reaches the
\* database, or it fails.
Acquire(n) ==
    /\ pc[n] = "idle"
    /\ pc' = [pc EXCEPT ![n] = "answer"]
    /\ \/ ClaimLands(n) /\ granted' = [granted EXCEPT ![n] = Grantable(n)]
       \/ UNCHANGED <<rowVars, since>> /\ granted' = [granted EXCEPT ![n] = FALSE]
    /\ UNCHANGED <<count, renewed>>

\* The answer arrives, or is lost, and the cycle starts its assignment sweep or
\* is over.
StartLoop(n, loop) ==
    /\ pc' = [pc EXCEPT ![n] = loop]
    /\ count' = [count EXCEPT ![n] = 0]
    /\ renewed' = [renewed EXCEPT ![n] = FALSE]

Begin(n) ==
    /\ pc[n] = "answer"
    /\ \/ granted[n] /\ StartLoop(n, "sweep")
       \/ pc' = [pc EXCEPT ![n] = "idle"] /\ UNCHANGED <<count, renewed>>
    /\ UNCHANGED <<rowVars, granted, since>>

\* A multiple of Batch mutations, not zero, asks for a renewal.
MustRenew(n) == count[n] = Batch /\ ~renewed[n]

\* Mutant of Mutate: the renewal is not waited for.
MutateUnchecked(n) ==
    /\ pc[n] \in Loops
    /\ renewed' = [renewed EXCEPT ![n] = FALSE]
    /\ count' = [count EXCEPT ![n] = IF @ = Batch THEN 1 ELSE @ + 1]
    /\ since' = [since EXCEPT ![n] = @ + 1]
    /\ UNCHANGED <<rowVars, pc, granted>>

\* ClaimSpecificChannel or ReassignChannel: acknowledged, or refused or failed
\* and not counted.
Mutate(n) ==
    /\ pc[n] \in Loops /\ ~MustRenew(n)
    /\ renewed' = [renewed EXCEPT ![n] = FALSE]
    /\ \/ /\ count' = [count EXCEPT ![n] = IF @ = Batch THEN 1 ELSE @ + 1]
          /\ since' = [since EXCEPT ![n] = @ + 1]
       \/ UNCHANGED <<count, since>>
    /\ UNCHANGED <<rowVars, pc, granted>>

\* The loop that follows: rebalanceLiveLoad after balanceSite, with a count of
\* its own, and nothing after rebalanceLiveLoad.
Leave(n) == IF pc[n] = "sweep" THEN StartLoop(n, "live")
            ELSE pc' = [pc EXCEPT ![n] = "idle"] /\ UNCHANGED <<count, renewed>>

\* renewLease: granted, and the loop goes on; or refused or failed, and it ends.
Renew(n) ==
    /\ pc[n] \in Loops /\ MustRenew(n)
    /\ \/ /\ ClaimLands(n)
          /\ granted' = [granted EXCEPT ![n] = Grantable(n)]
          /\ IF Grantable(n)
             THEN renewed' = [renewed EXCEPT ![n] = TRUE] /\ UNCHANGED <<pc, count>>
             ELSE Leave(n)
       \/ /\ ClaimLands(n) \/ UNCHANGED <<rowVars, since>>
          /\ granted' = [granted EXCEPT ![n] = FALSE]
          /\ Leave(n)

\* Nothing is left to claim or move.
EndLoop(n) ==
    /\ pc[n] \in Loops
    /\ Leave(n)
    /\ UNCHANGED <<rowVars, granted, since>>

\* The process ends, by a crash or a shutdown; neither releases the lease.
Stop(n) ==
    /\ pc[n] # "down"
    /\ pc' = [pc EXCEPT ![n] = "down"]
    /\ granted' = [granted EXCEPT ![n] = FALSE]
    /\ UNCHANGED <<rowVars, loopVars>>

Restart(n) ==
    /\ pc[n] = "down"
    /\ pc' = [pc EXCEPT ![n] = "idle"]
    /\ UNCHANGED <<rowVars, granted, loopVars>>

\* Mutant of Less: expiries run on below the floor.
LessForever(t) == t - 1

Less(t) == IF t < 0 THEN t ELSE t - 1

Tick ==
    /\ left >= 0
    /\ left' = Less(left)
    /\ running' = [n \in Nodes |-> Less(running[n])]
    /\ UNCHANGED <<holder, pc, granted, loopVars>>

Cycle(n) == Acquire(n) \/ Begin(n) \/ Mutate(n) \/ Renew(n) \/ EndLoop(n)

Next == Tick \/ \E n \in Nodes : Cycle(n) \/ Stop(n) \/ Restart(n)

Spec == Init /\ [][Next]_vars

\* Time passes, the controller loop of a live node keeps running, and a call
\* that is made again every cycle is not lost every time.
FairSpec == /\ Spec /\ WF_vars(Tick)
            /\ \A n \in Nodes : /\ WF_vars(Cycle(n))
                               /\ SF_vars(Acquire(n) /\ granted'[n])

-----------------------------------------------------------------------------
(* Properties.                                                             *)

TypeOK ==
    /\ holder \in Nodes \cup {NoNode}
    /\ left \in -1 .. TTL
    /\ running \in [Nodes -> -1 .. TTL]
    /\ pc \in [Nodes -> PCs]
    /\ granted \in [Nodes -> BOOLEAN]
    /\ count \in [Nodes -> 0 .. Batch]
    /\ renewed \in [Nodes -> BOOLEAN]
    /\ since \in [Nodes -> Nat]

\* No two nodes are inside a grant at the same time: "exactly one node wins
\* even if several race" (supabase.go:1386).
OneRunningGrant ==
    \A n, m \in Nodes : running[n] >= 0 /\ running[m] >= 0 => n = m

\* The number of acknowledged writes a node makes on one grant is bounded, by a
\* batch for each of its two loops: a leader that lost its lease without
\* noticing does a bounded amount of harm.
BoundedOnOneGrant ==
    \A n \in Nodes : pc[n] \in Loops => since[n] <= 2 * Batch

\* The lease does not stay with a node that is down while another one lives:
\* nobody releases it, it is the expiry that lets the other node in.
Failover ==
    \A n, m \in Nodes :
        holder = n /\ pc[n] = "down" /\ pc[m] # "down"
            ~> holder # n \/ pc[n] # "down" \/ pc[m] = "down"

-----------------------------------------------------------------------------
(* What comments of the program say of it and the model refutes.           *)

\* "lease lost during assignment sweep; stopping" (controller.go:931): a node
\* that was refused a renewal writes no more before it is granted again.
StopsWhenRefused ==
    [][\A n \in Nodes : since'[n] > since[n] => granted[n]]_vars
=============================================================================
