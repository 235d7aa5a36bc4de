--------------------------- MODULE CircuitBreaker ---------------------------
(***************************************************************************)
(* One CircuitBreaker object (src/src/proxy/circuit_breaker.cpp), shared   *)
(* by the worker threads that forward requests to the backend it guards.   *)
(*                                                                         *)
(* A worker in Gateway::process_request calls allow_request(), forwards    *)
(* the request with no lock held and then reports on_success() or          *)
(* on_failure().  Each of the three runs under the breaker's mutex and is  *)
(* one action here; what is interleaved is when the reports arrive.        *)
(***************************************************************************)
EXTENDS Naturals, FiniteSets

CONSTANTS
    Workers,              \* worker threads of the pool
    FailureThreshold,     \* failure_threshold_
    ResetTimeout,         \* reset_timeout_ms_, in ticks of the clock
    HalfOpenMaxRequests   \* half_open_max_requests_

ASSUME BreakerAssumption ==
    /\ IsFiniteSet(Workers)
    /\ FailureThreshold \in Nat \ {0}
    /\ ResetTimeout \in Nat
    /\ HalfOpenMaxRequests \in Nat

VARIABLES
    state,                 \* state_
    failure_count,         \* failure_count_
    consecutive_failures,  \* consecutive_failures_
    half_open_successes,   \* half_open_successes_
    half_open_requests,    \* half_open_requests_
    open_for,              \* now() - opened_at_, saturated at ResetTimeout
    forwarding,            \* workers between allow_request() and their report
    probes                 \* history: workers admitted in this half-open period

counters == <<failure_count, consecutive_failures>>
half_open == <<half_open_successes, half_open_requests>>
breaker_vars == <<state, counters, half_open, open_for, forwarding, probes>>

State == {"Closed", "Open", "HalfOpen"}

BreakerTypeOK ==
    /\ state \in State
    /\ failure_count \in Nat
    /\ consecutive_failures \in Nat
    /\ half_open_successes \in Nat
    /\ half_open_requests \in Nat
    /\ open_for \in 0..ResetTimeout
    /\ forwarding \subseteq Workers
    /\ probes \subseteq forwarding

BreakerInit ==
    /\ state = "Closed"
    /\ failure_count = 0 /\ consecutive_failures = 0
    /\ half_open_successes = 0 /\ half_open_requests = 0
    /\ open_for = 0
    /\ forwarding = {} /\ probes = {}

-----------------------------------------------------------------------------
(* State transitions shared by the entry points. *)

transition_to_open ==
    /\ state' = "Open"
    /\ open_for' = 0
    /\ half_open_successes' = 0 /\ half_open_requests' = 0

try_transition_to_half_open ==
    /\ state' = "HalfOpen"
    /\ half_open_successes' = 0 /\ half_open_requests' = 0

-----------------------------------------------------------------------------
(* allow_request() returning true: worker w goes on to forward. *)

AllowClosed(w) ==
    /\ state = "Closed"
    /\ UNCHANGED <<state, half_open, probes>>

\* The call that finds the reset timeout elapsed is admitted uncounted.
AllowOpen(w) ==
    /\ state = "Open"
    /\ open_for >= ResetTimeout
    /\ try_transition_to_half_open
    /\ probes' = {w}

AllowHalfOpen(w) ==
    /\ state = "HalfOpen"
    /\ half_open_requests < HalfOpenMaxRequests
    /\ half_open_requests' = half_open_requests + 1
    /\ probes' = probes \cup {w}
    /\ UNCHANGED <<state, half_open_successes>>

\* Mutant: a call that is refused starts the reset timeout anew.
allow_requestRenews(w) ==
    /\ w \notin forwarding
    /\ \/ /\ AllowClosed(w) \/ AllowOpen(w) \/ AllowHalfOpen(w)
          /\ forwarding' = forwarding \cup {w}
          /\ UNCHANGED <<counters, open_for>>
       \/ /\ state = "Open" /\ open_for < ResetTimeout
          /\ open_for' = 0
          /\ UNCHANGED <<state, counters, half_open, forwarding, probes>>

\* A false result changes nothing: the worker answers 503 and is free again.
allow_request(w) ==
    /\ w \notin forwarding
    /\ AllowClosed(w) \/ AllowOpen(w) \/ AllowHalfOpen(w)
    /\ forwarding' = forwarding \cup {w}
    /\ UNCHANGED <<counters, open_for>>

-----------------------------------------------------------------------------
SuccessClosed ==
    /\ state = "Closed"
    /\ failure_count' = 0
    /\ UNCHANGED <<state, half_open>>

\* Mutant: wants one success more than there were counted probes.
SuccessHalfOpenStrict ==
    /\ state = "HalfOpen"
    /\ IF half_open_successes + 1 > half_open_requests + 1
       THEN /\ state' = "Closed"
            /\ failure_count' = 0
            /\ half_open_successes' = 0 /\ half_open_requests' = 0
       ELSE /\ half_open_successes' = half_open_successes + 1
            /\ UNCHANGED <<state, failure_count, half_open_requests>>

\* Mutant: closes without forgetting the failures that tripped the breaker.
SuccessHalfOpenKeeps ==
    /\ state = "HalfOpen"
    /\ IF half_open_successes + 1 >= half_open_requests
       THEN state' = "Closed" /\ half_open_successes' = 0 /\ half_open_requests' = 0
       ELSE /\ half_open_successes' = half_open_successes + 1
            /\ UNCHANGED <<state, half_open_requests>>
    /\ UNCHANGED failure_count

SuccessHalfOpen ==
    /\ state = "HalfOpen"
    /\ IF half_open_successes + 1 >= half_open_requests
       THEN /\ state' = "Closed"
            /\ failure_count' = 0
            /\ half_open_successes' = 0 /\ half_open_requests' = 0
       ELSE /\ half_open_successes' = half_open_successes + 1
            /\ UNCHANGED <<state, failure_count, half_open_requests>>

SuccessOpen ==
    /\ state = "Open"
    /\ UNCHANGED <<state, failure_count, half_open>>

\* The probes of a period are forgotten when the period ends.
Reported(w) ==
    /\ forwarding' = forwarding \ {w}
    /\ probes' = IF state' = "HalfOpen" THEN probes \ {w} ELSE {}

on_success(w) ==
    /\ w \in forwarding
    /\ consecutive_failures' = 0
    /\ SuccessClosed \/ SuccessHalfOpen \/ SuccessOpen
    /\ Reported(w)
    /\ UNCHANGED open_for

FailureClosed ==
    /\ state = "Closed"
    /\ IF failure_count' >= FailureThreshold
       THEN transition_to_open
       ELSE UNCHANGED <<state, open_for, half_open>>

FailureHalfOpen ==
    /\ state = "HalfOpen"
    /\ transition_to_open

FailureOpen ==
    /\ state = "Open"
    /\ open_for' = 0
    /\ UNCHANGED <<state, half_open>>

on_failure(w) ==
    /\ w \in forwarding
    /\ consecutive_failures' = consecutive_failures + 1
    /\ failure_count' = failure_count + 1
    /\ FailureClosed \/ FailureHalfOpen \/ FailureOpen
    /\ Reported(w)

reset ==
    /\ state' = "Closed"
    /\ failure_count' = 0 /\ consecutive_failures' = 0
    /\ half_open_successes' = 0 /\ half_open_requests' = 0
    /\ probes' = {}
    /\ UNCHANGED <<open_for, forwarding>>

\* steady_clock advances; beyond ResetTimeout allow_request() cannot tell.
Tick ==
    /\ open_for < ResetTimeout
    /\ open_for' = open_for + 1
    /\ UNCHANGED <<state, counters, half_open, forwarding, probes>>

report(w) == on_success(w) \/ on_failure(w)

BreakerNext ==
    \/ \E w \in Workers : allow_request(w) \/ on_success(w) \/ on_failure(w)
    \/ reset
    \/ Tick

BreakerSpec == BreakerInit /\ [][BreakerNext]_breaker_vars

\* Proxy::forward returns within its timeouts, so every admitted call reports;
\* and the clock runs.
BreakerFairness ==
    /\ \A w \in Workers : WF_breaker_vars(report(w))
    /\ WF_breaker_vars(Tick)

FairBreakerSpec == BreakerSpec /\ BreakerFairness

-----------------------------------------------------------------------------
(* Properties. *)

\* While the breaker is half-open at least one admitted call is still to
\* report.  A half-open breaker with its quota used up and nobody left to
\* report would reject every request for ever (allow_request, HalfOpen case).
HalfOpenNotStuck == state = "HalfOpen" => forwarding # {}

\* In Closed the two counters agree and stay below the threshold, whatever
\* late reports arrived in the other states: what trips the breaker is
\* failure_threshold_ failures in a row, as the constructor promises.
ClosedCountsConsecutive ==
    state = "Closed" =>
        /\ failure_count = consecutive_failures
        /\ failure_count < FailureThreshold

\* At most half_open_max_requests_ calls are admitted in a half-open period, as
\* the constructor's comment says.  The code does not count the call that finds
\* the reset timeout over and opens the period, and exceeds the quota by one.
ProbesBounded == Cardinality(probes) <= HalfOpenMaxRequests

\* A backend that has recovered is used again: if requests keep coming and no
\* failure is reported any more, the breaker ends up closed for good.
Recovers ==
    (/\ \A w \in Workers : WF_breaker_vars(allow_request(w))
     /\ <>[][\A w \in Workers : ~on_failure(w)]_breaker_vars)
        => <>[](state = "Closed")
=============================================================================
