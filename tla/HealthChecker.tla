---------------------------- MODULE HealthChecker ----------------------------
(***************************************************************************)
(* The health checker (src/src/proxy/health_checker.cpp).  check_all()     *)
(* copies the table under the lock, tests the backends of the copy one     *)
(* after the other without it, and writes each result back; any thread may *)
(* add and remove backends meanwhile.  A test takes up to ConnectTimeout.  *)
(***************************************************************************)
EXTENDS Integers, Sequences, FiniteSetsExt

CONSTANTS
    Backends,         \* addresses of backends
    ConnectTimeout,   \* connect_timeout_ms_, in ticks of the clock
    MaxRemovals       \* bound: calls of remove_backend

ASSUME HealthAssumption ==
    IsFiniteSet(Backends) /\ ConnectTimeout \in Nat /\ MaxRemovals \in Nat

VARIABLES
    health,     \* backends_: what is known of a backend
    snapshot,   \* check_all()'s local: the copies still to be tested
    waited,     \* time spent in the poll() of tcp_check()
    failed,     \* history: failed tests of a backend since the last good one
    removals    \* bound: calls of remove_backend so far

health_vars == <<health, snapshot, waited, failed, removals>>

\* The code counts on; from the third failure on nothing depends on the number.
Threshold == 3
Failures == 0..Threshold

Health == [known : BOOLEAN, healthy : BOOLEAN, consecutive_failures : Failures]
Unknown == [known |-> FALSE, healthy |-> FALSE, consecutive_failures |-> 0]
Added == [known |-> TRUE, healthy |-> FALSE, consecutive_failures |-> 0]

HealthTypeOK ==
    /\ health \in [Backends -> Health]
    /\ snapshot \in Seq([backend : Backends, health : Health])
    /\ waited \in 0..ConnectTimeout
    /\ failed \in [Backends -> Failures]
    /\ removals \in 0..MaxRemovals

\* Gateway::run adds every backend of the routes.  A backend that was never
\* reached counts as failed.
HealthInit ==
    /\ health = [b \in Backends |-> Added]
    /\ snapshot = <<>> /\ waited = 0
    /\ failed = [b \in Backends |-> Threshold]
    /\ removals = 0

add_backend ==
    /\ \E b \in Backends : ~health[b].known /\ health' = [health EXCEPT ![b] = Added]
    /\ UNCHANGED <<snapshot, waited, failed, removals>>

remove_backend ==
    /\ removals < MaxRemovals
    /\ removals' = removals + 1
    /\ \E b \in Backends : health[b].known /\ health' = [health EXCEPT ![b] = Unknown]
    /\ UNCHANGED <<snapshot, waited, failed>>

Known == {b \in Backends : health[b].known}

\* The copy of the table, in the order of the hash table.
check_begin ==
    /\ \E s \in Bijection(1..Cardinality(Known), Known) :
          snapshot' = [i \in DOMAIN s |-> [backend |-> s[i], health |-> health[s[i]]]]
    /\ UNCHANGED <<health, waited, failed, removals>>

\* poll() in tcp_check().
check_waits ==
    /\ snapshot # <<>> /\ waited < ConnectTimeout
    /\ waited' = waited + 1
    /\ UNCHANGED <<health, snapshot, failed, removals>>

More(n) == IF n < Threshold THEN n + 1 ELSE n

\* Mutant: the third failure in a row is not the limit, any third failure is.
updatedNoReset(h, now_healthy) ==
    IF now_healthy THEN [h EXCEPT !.healthy = TRUE]
    ELSE [h EXCEPT !.consecutive_failures = More(@), !.healthy = @ /\ More(h.consecutive_failures) < Threshold]

\* A good test counts at once, a failed one from the third in a row on.
updated(h, now_healthy) ==
    IF now_healthy THEN [h EXCEPT !.consecutive_failures = 0, !.healthy = TRUE]
    ELSE [h EXCEPT !.consecutive_failures = More(@), !.healthy = @ /\ More(h.consecutive_failures) < Threshold]

write_back(b, h) == health' = IF health[b].known THEN [health EXCEPT ![b] = h] ELSE health

\* tcp_check() returns; the callback on a change only logs.
check_result ==
    /\ snapshot # <<>>
    /\ \E now_healthy \in BOOLEAN :
          LET b == Head(snapshot).backend
          IN  /\ write_back(b, updated(Head(snapshot).health, now_healthy))
              /\ failed' = [failed EXCEPT ![b] = IF now_healthy THEN 0 ELSE More(@)]
    /\ snapshot' = Tail(snapshot) /\ waited' = 0
    /\ UNCHANGED removals

\* A checker by itself; Housekeeping takes the same steps.
HealthNext ==
    \/ add_backend \/ remove_backend \/ check_waits \/ check_result
    \/ snapshot = <<>> /\ check_begin

HealthSpec == HealthInit /\ [][HealthNext]_health_vars

-----------------------------------------------------------------------------
(* Properties. *)

\* A backend is shown as healthy exactly when a test of it succeeded and fewer
\* than three in a row have failed since, although check_all() works on copies
\* and backends come and go during a check.  A backend that was removed and
\* added anew starts as not healthy, so the way back is for a table that
\* nobody removed from.
HealthTracksTests ==
    \A b \in Backends :
        /\ health[b].healthy => failed[b] < Threshold
        /\ removals = 0 /\ failed[b] < Threshold => health[b].healthy
=============================================================================
