------------------------------ MODULE Breaker ------------------------------
(* The circuit breaker in front of the site's API (internal/circuit_breaker.go) *)
(* and the calls it gates: the POST a recording begins with, the GET that       *)
(* follows every POST and that nothing gates, and the profile requests.  The    *)
(* breaker has no lock: every store, add and compare-and-swap is a step, and    *)
(* what a caller has loaded may be stale when it acts (loads in a row are one   *)
(* step, and so are escalate's load and store).  The rate limiter only delays:  *)
(* a token comes sooner or later, and its rate is left out.                     *)
EXTENDS Integers, Sequences

CONSTANTS
    Callers,     \* goroutines that call the API over and over
    Roles,       \* what the callers may be: what they fetch, and of what room
    Attempts,    \* retry.Attempts of a call
    MinSamples,  \* minSamples
    Threshold,   \* threshold, in percent
    HalfOpenMax, \* halfOpenMax
    MaxCooldown, \* maxCooldown, in units of cooldown
    MaxCount     \* the counters of results stop here (a bound)

ASSUME BreakerAssumption ==
    /\ Roles \subseteq [Callers -> [fetches : {"stream", "profile"},
                                   room : {"public", "private", "deleted"}]]
    /\ {Attempts, HalfOpenMax, MaxCooldown, MinSamples} \subseteq Nat \ {0}
    /\ Threshold \in 1..100 /\ MaxCount \in Nat /\ MaxCount >= MinSamples

VARIABLES
    role,      \* what every caller is
    calm,      \* the site is up, nothing is blocked, no request is cancelled
    state, failures, successes, halfOpenCount,
    cooldown,  \* curCooldown
    since,     \* time since lastStateChange, up to MaxCooldown
    call       \* call of every caller
vars == <<role, calm, state, failures, successes, halfOpenCount, cooldown, since, call>>
counts == <<failures, successes>>
breaker == <<state, counts, halfOpenCount, cooldown, since>>

Idle == [at |-> "idle", on |-> "none", n |-> 0, saw |-> "none", out |-> "none", todo |-> <<>>]
UpTo(max, n) == IF n > max THEN max ELSE n

Init ==
    /\ role \in Roles /\ calm = FALSE
    /\ state = "Closed" /\ failures = 0 /\ successes = 0 /\ halfOpenCount = 0
    /\ cooldown = 1 /\ since = MaxCooldown
    /\ call = [c \in Callers |-> Idle]

Goto(c, at) == call' = [call EXCEPT ![c].at = at, ![c].saw = "none"]
Request(c, on, at) == call' = [call EXCEPT ![c] = [Idle EXCEPT !.at = at, !.on = on, !.n = 1]]
End(c) == call' = [call EXCEPT ![c] = Idle]
-----------------------------------------------------------------------------
(* A call.  A POST asks the breaker before it starts, and like a profile       *)
(* request once more in every attempt.                                         *)

FetchStream(c) ==
    /\ role[c].fetches = "stream" /\ call[c].at = "idle"
    /\ Request(c, "post", "enter") /\ UNCHANGED <<role, calm, breaker>>
FetchBiocontext(c) ==
    /\ role[c].fetches = "profile" /\ call[c].at = "idle"
    /\ Request(c, "bio", "gate") /\ UNCHANGED <<role, calm, breaker>>

\* Mutant of Gated: the GET is gated like the others.
AllGated(on) == on \in {"post", "bio", "get"}
Gated(on) == on \in {"post", "bio"}
Starts(on) == IF Gated(on) THEN "gate" ELSE "send"

\* A stream's POST is followed by the GET however it went.
After(c) == IF call[c].on = "post" THEN Request(c, "get", Starts("get")) ELSE End(c)

\* The wait for the rate limiter's token before every attempt: a cancelled
\* context ends it.
WaitForRateLimit(c) ==
    /\ ~calm /\ call[c].saw = "none"
    /\ call[c].at = "gate" \/ (call[c].at = "send" /\ call[c].on = "get")
    /\ End(c) /\ UNCHANGED <<role, calm, breaker>>

\* What the request may bring: an answer, an expected state of the room, a
\* failure that is tried again, a block that a POST does not try again.  A
\* cancelled request is a failure.
Outcomes(c) ==
    LET room == role[c].room IN
    (IF room = "deleted" \/ (room = "private" /\ call[c].on = "post") THEN {"expected"} ELSE {"ok"})
    \cup (IF calm THEN {} ELSE {"fail", "blocked"})

Retries(c, out) ==
    /\ call[c].n < Attempts
    /\ out = "fail" \/ (out \in {"expected", "blocked"} /\ call[c].on # "post")
Advance(c, out) ==
    IF Retries(c, out)
    THEN call' = [call EXCEPT ![c] = [Idle EXCEPT !.at = Starts(call[c].on), !.on = call[c].on,
                                                  !.n = call[c].n + 1]]
    ELSE After(c)
-----------------------------------------------------------------------------
(* CircuitBreaker.Allow.                                                       *)

Passed(c) == Goto(c, IF call[c].at = "enter" THEN "gate" ELSE "send")
Refused(c) == After(c)
Saw(c, what) == call' = [call EXCEPT ![c].saw = what]
Asks(c, saw) == call[c].at \in {"enter", "gate"} /\ call[c].saw = saw

LoadState(c) ==
    /\ Asks(c, "none")
    /\ IF state = "Closed" THEN Passed(c) ELSE Saw(c, state)
    /\ UNCHANGED <<role, calm, breaker>>

Elapsed == since >= cooldown

LookAtClock(c) ==
    /\ Asks(c, "Open")
    /\ IF Elapsed THEN Saw(c, "elapsed") ELSE Refused(c)
    /\ UNCHANGED <<role, calm, breaker>>

HalfOpens(c) ==
    /\ Asks(c, "elapsed")
    /\ IF state = "Open" THEN state' = "HalfOpen" /\ Saw(c, "won")
       ELSE UNCHANGED state /\ Refused(c)
    /\ UNCHANGED <<role, calm, counts, halfOpenCount, cooldown, since>>

BeginsProbing(c) ==
    /\ Asks(c, "won") /\ halfOpenCount' = 0 /\ Passed(c)
    /\ UNCHANGED <<role, calm, state, counts, cooldown, since>>

\* Only whether the count exceeds halfOpenMax matters.
CountsProbe(c) ==
    /\ Asks(c, "HalfOpen")
    /\ halfOpenCount' = UpTo(HalfOpenMax + 1, halfOpenCount + 1)
    /\ IF halfOpenCount < HalfOpenMax THEN Passed(c) ELSE Refused(c)
    /\ UNCHANGED <<role, calm, state, counts, cooldown, since>>

Allow(c) ==
    LoadState(c) \/ LookAtClock(c) \/ HalfOpens(c) \/ BeginsProbing(c) \/ CountsProbe(c)
-----------------------------------------------------------------------------
(* CircuitBreaker.Success and Failure: a look at the state, then the stores.   *)

Closing == <<"close", "probes", "base", "failures", "successes">>
Reopening == <<"open", "escalate", "stamp", "probes">>

Stores(out) ==
    IF out = "ok" THEN IF state = "HalfOpen" THEN Closing ELSE <<"succeeded", "evaluate">>
    ELSE IF state = "HalfOpen" THEN Reopening ELSE <<"failed", "evaluate">>

\* The answer comes in and is reported; an expected state of the room is not.
Send(c) ==
    /\ call[c].at = "send"
    /\ \E out \in Outcomes(c) :
         IF out = "expected" THEN Advance(c, out)
         ELSE call' = [call EXCEPT ![c].at = "store", ![c].out = out, ![c].todo = Stores(out)]
    /\ UNCHANGED <<role, calm, breaker>>

TooMany ==
    /\ failures + successes >= MinSamples
    /\ failures * 100 >= Threshold * (failures + successes)

\* Mutant of Escalated: no ceiling.
EscalatedOn == cooldown * 2
Escalated == UpTo(MaxCooldown, cooldown * 2)

\* What is left to store after the store named w.
Rest(c, w) ==
    CASE w = "evaluate" /\ TooMany -> <<"trip">>
      [] w = "trip" /\ state = "Closed" -> <<"base", "stamp">>
      [] OTHER -> Tail(call[c].todo)

Store(c) ==
    /\ call[c].at = "store"
    /\ LET w == Head(call[c].todo)
           rest == Rest(c, w) IN
       /\ state' = CASE w = "close" -> "Closed" [] w = "open" -> "Open"
                     [] w = "trip" /\ state = "Closed" -> "Open" [] OTHER -> state
       /\ failures' = CASE w = "failed" -> UpTo(MaxCount, failures + 1) [] w = "failures" -> 0
                        [] OTHER -> failures
       /\ successes' = CASE w = "succeeded" -> UpTo(MaxCount, successes + 1) [] w = "successes" -> 0
                         [] OTHER -> successes
       /\ halfOpenCount' = IF w = "probes" THEN 0 ELSE halfOpenCount
       /\ cooldown' = CASE w = "base" -> 1 [] w = "escalate" -> Escalated [] OTHER -> cooldown
       /\ since' = IF w = "stamp" THEN 0 ELSE since
       /\ IF rest = <<>> THEN Advance(c, call[c].out) ELSE call' = [call EXCEPT ![c].todo = rest]
    /\ UNCHANGED <<role, calm>>
-----------------------------------------------------------------------------
Tick ==
    /\ since < MaxCooldown /\ since' = since + 1
    /\ UNCHANGED <<role, calm, state, counts, halfOpenCount, cooldown, call>>

\* The trouble is over for good.
Calms == ~calm /\ calm' = TRUE /\ UNCHANGED <<role, breaker, call>>

Step(c) ==
    \/ FetchStream(c) \/ FetchBiocontext(c) \/ WaitForRateLimit(c) \/ Allow(c)
    \/ Send(c) \/ Store(c)
Next == Tick \/ Calms \/ \E c \in Callers : Step(c)

Spec == Init /\ [][Next]_vars
\* Monitors call again and again, requests have timeouts, tokens and time come.
FairSpec == Spec /\ WF_vars(Tick) /\ \A c \in Callers : WF_vars(Step(c))
-----------------------------------------------------------------------------
(* Types: the cooldown escalates up to its ceiling.                            *)
TypeOK ==
    /\ role \in Roles /\ calm \in BOOLEAN /\ state \in {"Closed", "Open", "HalfOpen"}
    /\ failures \in 0..MaxCount /\ successes \in 0..MaxCount
    /\ halfOpenCount \in 0..HalfOpenMax + 1
    /\ cooldown \in 1..MaxCooldown /\ since \in 0..MaxCooldown
    /\ \A c \in Callers :
         /\ call[c].at \in {"idle", "enter", "gate", "send", "store"}
         /\ call[c].n \in 0..Attempts
         /\ call[c].todo # <<>> => call[c].at = "store"

(* When the trouble is over the breaker closes and stays closed, though every  *)
(* probe may have gone to a room that tells nothing (a deleted or a private    *)
(* one, a call that was cancelled), and though the last failures come in late  *)
(* and after newer successes.                                                  *)
ClosesForGood == <>[]calm => <>[](state = "Closed")
=============================================================================
