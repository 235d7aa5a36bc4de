----------------------------- MODULE MCAdmission -----------------------------
(* CircuitBreaker and RateLimiter for TLC.  They share no state, so a        *)
(* behaviour is one of either, chosen at the start, while the other rests.   *)
(* failure_count_ and consecutive_failures_ grow without limit while the     *)
(* breaker flaps, and the clock of the limiter runs on, so they are capped.  *)
EXTENDS CircuitBreaker, RateLimiter

CONSTANTS
    MaxFailures,   \* bound on both failure counters
    MaxTime        \* bound on the clock of the limiter

VARIABLE subject   \* the component the behaviour is about

MCInit ==
    /\ subject \in {"breaker", "limiter"}
    /\ BreakerInit /\ LimiterInit

MCNext ==
    /\ UNCHANGED subject
    /\ \/ /\ subject = "breaker"
          /\ BreakerNext
          /\ failure_count' <= MaxFailures /\ consecutive_failures' <= MaxFailures
          /\ UNCHANGED limiter_vars
       \/ /\ subject = "limiter"
          /\ LimiterNext
          /\ now' <= MaxTime
          /\ UNCHANGED breaker_vars

MCSpec ==
    /\ MCInit
    /\ [][MCNext]_<<subject, breaker_vars, limiter_vars>>
    /\ subject = "breaker" => BreakerFairness
=============================================================================
