---------------------------- MODULE Housekeeping ----------------------------
(***************************************************************************)
(* What the reactor thread does beside the sockets: the timers under the   *)
(* event loop, and the health check, which Gateway::run puts under a       *)
(* periodic timer of its own.  Its tests wait in poll() on the reactor     *)
(* thread, so all other timers (and sockets) wait too.                     *)
(***************************************************************************)
EXTENDS TimerLoop, HealthChecker

CONSTANT HealthInterval   \* the interval of the health check, in ticks

ASSUME IntervalAssumption == HealthInterval \in Intervals /\ MaxTimers > 0

vars == <<loop_vars, health_vars>>

HealthTimer == 1

\* Gateway::run has called run_every() for check_all().
Init ==
    /\ heap = {[id |-> HealthTimer, left |-> HealthInterval, interval |-> HealthInterval, cancelled |-> FALSE]}
    /\ next_id = HealthTimer + 1 /\ ready = <<>> /\ cancelled = {}
    /\ pc = "check" /\ sleep = 0 /\ interrupts = 0 /\ busy = 0
    /\ HealthInit

AtHealthTimer == pc = "calls" /\ ready # <<>> /\ Head(ready) = HealthTimer

Other(A) == A /\ UNCHANGED health_vars

\* tick() calls the health timer's callback.
check_all ==
    /\ AtHealthTimer /\ pc' = "health"
    /\ check_begin
    /\ UNCHANGED <<timer_vars, sleep, interrupts, busy>>

check_takes_time ==
    /\ pc = "health"
    /\ check_waits
    /\ Elapse
    /\ UNCHANGED <<pc, sleep, interrupts, busy>>

check_next ==
    /\ pc = "health"
    /\ check_result
    /\ UNCHANGED loop_vars

check_done ==
    /\ pc = "health" /\ snapshot = <<>>
    /\ pc' = "calls"
    /\ call
    /\ UNCHANGED <<sleep, interrupts, busy, health_vars>>

Loop ==
    \/ Other(begin_round) \/ Other(epoll_wait) \/ Other(sockets_done) \/ Other(idle_tick)
    \/ Other(idle_call /\ ~AtHealthTimer) \/ Other(end_round)
    \/ check_all \/ check_next \/ check_done

\* The gateway drops the identifier of the health timer: nobody cancels it.
other_timer_call == timer_call /\ HealthTimer \notin cancelled'

table_call == (add_backend \/ remove_backend) /\ UNCHANGED loop_vars

Next ==
    \/ Other(other_timer_call) \/ table_call
    \/ Loop \/ Other(epoll_interrupted) \/ Other(Sleeps) \/ check_takes_time
    \/ Other(callback_works /\ ~AtHealthTimer)

\* The reactor thread keeps running, its callbacks return, epoll_wait is not
\* interrupted for ever, and the clock runs: the loop does not go round for ever
\* in no time.
Fairness == WF_vars(Loop) /\ SF_vars(Other(epoll_wait)) /\ SF_vars(Other(Sleeps))

Spec == Init /\ [][Next]_vars /\ Fairness

-----------------------------------------------------------------------------
(* Properties. *)

\* A timer is called at most run()'s timeout late, also when it was added by
\* another thread while the reactor slept, or stands behind a cancelled one
\* where next_timeout_ms() does not see it; an interruption, which skips tick(),
\* may add as much again, a health check the timeout of every backend that does
\* not answer, and the callbacks of sockets and timers as long as they take,
\* for which the code has no limit (submit() waits for room in the queue).
LatenessBounded ==
    \A e \in heap : ~e.cancelled =>
        e.left >= -(DefaultTimeout * (1 + interrupts) + ConnectTimeout * Cardinality(Backends) + busy)

\* After cancel() has returned the timer is not collected again; a callback
\* that tick() had collected before is still called.
NoFireAfterCancel ==
    [][(Range(ready') \ Range(ready)) \cap cancelled = {}]_vars

\* Every timer is called, and a periodic one again and again, unless it is
\* cancelled.
TimersFire ==
    \A i \in 1..MaxTimers :
        LET Called == i \in Range(ready) \/ i \in cancelled
        IN  /\ (\E e \in heap : e.id = i) ~> Called
            /\ []((\E e \in heap : e.id = i /\ e.interval > 0) => []<>Called)
=============================================================================
