--------------------------- MODULE CircuitBreaker ---------------------------
(***************************************************************************)
(* The shared CircuitBreaker, around a client that sends up to MaxSends    *)
(* network requests within one protected action (LedgerClient's retries).  *)
(*                                                                         *)
(* execute checks the state once, before the action; the action's result   *)
(* is counted in whatever state the breaker is in when it arrives.  Nothing*)
(* limits the probes of a HALF_OPEN breaker; it is the caller that has one *)
(* action in flight at a time (the outbox worker) or many (the payments).  *)
(***************************************************************************)
EXTENDS Integers, FiniteSets

CONSTANTS
    Requests,
    FailureThreshold,
    SuccessThreshold,
    MaxSends

ASSUME BreakerAssumption ==
    /\ IsFiniteSet(Requests)
    /\ FailureThreshold \in Nat \ {0}
    /\ SuccessThreshold \in Nat \ {0}
    /\ MaxSends \in Nat \ {0}

VARIABLES
    state,      \* CLOSED, OPEN or HALF_OPEN
    failures,   \* consecutiveFailures
    successes,  \* halfOpenSuccessCount
    elapsed,    \* openTimeoutMs has passed since openedAt
    sends,      \* network requests of each action in flight; 0: none
    healthy,    \* the protected service answers
    probes,     \* history: actions begun since the breaker went HALF_OPEN
    proven,     \* history: how many of those succeeded
    width       \* how many actions its caller runs at a time; constant

breakerVars == << state, failures, successes, elapsed >>
workVars == << breakerVars, sends, healthy, probes, proven >>
vars == << workVars, width >>

(* Also: late results cannot push a counter to its threshold without the   *)
(* transition that the threshold stands for.                               *)
TypeOK ==
    /\ state \in {"CLOSED", "OPEN", "HALF_OPEN"}
    /\ failures \in 0..FailureThreshold
    /\ successes \in 0..SuccessThreshold
    /\ elapsed \in BOOLEAN
    /\ sends \in [Requests -> 0..MaxSends]
    /\ healthy \in BOOLEAN
    /\ probes \subseteq Requests
    /\ proven \in 0..SuccessThreshold
    /\ width \in 1..Cardinality(Requests)
    /\ state = "CLOSED" => failures < FailureThreshold
    /\ state = "HALF_OPEN" => successes < SuccessThreshold

Init ==
    /\ state = "CLOSED"
    /\ failures = 0
    /\ successes = 0
    /\ elapsed = FALSE
    /\ sends = [r \in Requests |-> 0]
    /\ healthy = TRUE
    /\ probes = {}
    /\ proven = 0
    /\ width \in 1..Cardinality(Requests)

InFlight == {r \in Requests : sends[r] > 0}

-----------------------------------------------------------------------------
(* _transitionTo: leaving a state resets the counters of the next one.     *)
Open ==
    /\ state' = "OPEN"
    /\ successes' = 0
    /\ elapsed' = FALSE

Close ==
    /\ state' = "CLOSED"
    /\ failures' = 0
    /\ successes' = 0
    /\ elapsed' = FALSE

HalfOpen ==
    /\ state' = "HALF_OPEN"
    /\ successes' = 0
    /\ UNCHANGED << failures, elapsed >>

(* Mutant: an OPEN breaker never grants a trial. *)
AdmitNoTrial(r) ==
    /\ sends[r] = 0 /\ state # "OPEN"
    /\ sends' = [sends EXCEPT ![r] = 1]
    /\ probes' = IF state = "HALF_OPEN" THEN probes \cup {r} ELSE probes
    /\ UNCHANGED << breakerVars, healthy, proven >>

(* execute, up to the call of actionFn; an OPEN breaker throws at once     *)
(* until its timer has elapsed, which changes nothing.                     *)
Admit(r) ==
    /\ sends[r] = 0
    /\ sends' = [sends EXCEPT ![r] = 1]
    /\ \/ /\ state = "OPEN" /\ elapsed
          /\ HalfOpen
          /\ probes' = {r}
          /\ proven' = 0
       \/ /\ state = "HALF_OPEN"
          /\ probes' = probes \cup {r}
          /\ UNCHANGED << breakerVars, proven >>
       \/ /\ state = "CLOSED"
          /\ UNCHANGED << breakerVars, probes, proven >>
    /\ UNCHANGED healthy

(* The action sends another request: the breaker is not asked again. *)
Resend(r) ==
    /\ sends[r] \in 1..(MaxSends - 1)
    /\ ~healthy
    /\ sends' = [sends EXCEPT ![r] = @ + 1]
    /\ UNCHANGED << breakerVars, healthy, probes, proven >>

Return(r) ==
    /\ sends[r] > 0
    /\ sends' = [sends EXCEPT ![r] = 0]
    /\ probes' = probes \ {r}

(* Mutant: the success threshold one too low. *)
RecoversEarly == successes + 2 >= SuccessThreshold

RecoversNow == successes + 1 >= SuccessThreshold
TripsNow == failures + 1 >= FailureThreshold

(* On success: a step towards CLOSED, or the end of a run of failures. *)
CountSuccess ==
    \/ /\ state = "HALF_OPEN"
       /\ IF RecoversNow THEN Close
          ELSE successes' = successes + 1 /\ UNCHANGED << state, failures, elapsed >>
    \/ /\ state = "CLOSED"
       /\ failures' = 0
       /\ UNCHANGED << state, successes, elapsed >>
    \/ state = "OPEN" /\ UNCHANGED breakerVars

Succeed(r) ==
    /\ Return(r)
    /\ CountSuccess
    /\ proven' = IF r \in probes /\ proven < SuccessThreshold THEN proven + 1 ELSE proven
    /\ UNCHANGED healthy

(* On failure: HALF_OPEN trips at once, CLOSED at the threshold. *)
CountFailure ==
    \/ state = "HALF_OPEN" /\ Open /\ UNCHANGED failures
    \/ /\ state = "CLOSED"
       /\ failures' = failures + 1
       /\ IF TripsNow THEN Open
          ELSE UNCHANGED << state, successes, elapsed >>
    \/ state = "OPEN" /\ UNCHANGED breakerVars

Fail(r) ==
    /\ ~healthy
    /\ Return(r)
    /\ CountFailure
    /\ UNCHANGED << healthy, proven >>

(* A 4xx other than 408 and 429 is no failure, and no success either. *)
Refuse(r) ==
    /\ Return(r)
    /\ UNCHANGED << breakerVars, healthy, proven >>

(* reset(), an administrator's. *)
Reset ==
    /\ Close
    /\ UNCHANGED << sends, healthy, probes, proven >>

(* openTimeoutMs after openedAt. *)
Elapse ==
    /\ state = "OPEN" /\ ~elapsed
    /\ elapsed' = TRUE
    /\ UNCHANGED << state, failures, successes, sends, healthy, probes, proven >>

(* The protected service goes down or comes back. *)
Flip ==
    /\ healthy' = ~healthy
    /\ UNCHANGED << breakerVars, sends, probes, proven >>

(* The caller begins an action. *)
Execute(r) == Cardinality(InFlight) < width /\ Admit(r)

Next ==
    /\ \/ \E r \in Requests : \/ Execute(r) \/ Resend(r)
                              \/ Succeed(r) \/ Fail(r) \/ Refuse(r)
       \/ Reset \/ Elapse \/ Flip
    /\ UNCHANGED width

-----------------------------------------------------------------------------
(* Only SuccessThreshold successful probes, requests begun in HALF_OPEN,   *)
(* close the breaker; and no network request is sent to the service while  *)
(* the breaker is OPEN.                                                    *)
Earned == state = "HALF_OPEN" /\ state' = "CLOSED" /\ ~Reset => proven' = SuccessThreshold
Quiet == state' = "OPEN" => \A r \in Requests : sends'[r] <= sends[r]
=============================================================================
