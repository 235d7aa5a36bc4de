-------------------------------- MODULE Timer --------------------------------
(***************************************************************************)
(* The timer heap (src/src/timer/timer.cpp).  Any thread may add and       *)
(* cancel timers; the reactor thread collects the due ones under the lock  *)
(* and calls them after the unlock.  An entry holds the time left until    *)
(* its expire_time; the heap is the set of its entries.  TimerLoop puts    *)
(* the timers under the event loop.                                        *)
(***************************************************************************)
EXTENDS Integers, Sequences, FiniteSetsExt

CONSTANTS
    Delays,      \* delays of one-shot timers, in ticks of the clock
    Intervals,   \* intervals of periodic timers
    MaxTimers    \* bound: number of timers ever added

ASSUME TimerAssumption ==
    Delays \subseteq Nat /\ Intervals \subseteq Nat \ {0} /\ MaxTimers \in Nat

VARIABLES
    heap,        \* heap_
    next_id,     \* next_id_
    ready,       \* tick()'s local: callbacks collected and not yet called
    cancelled    \* history: timers cancelled while they were in the heap

timer_vars == <<heap, next_id, ready, cancelled>>

Entry == [id : Nat, left : Int, interval : {0} \cup Intervals, cancelled : BOOLEAN]

\* Identifiers are unique, so cancel() finds the timer that is meant.
TimerTypeOK ==
    /\ heap \subseteq Entry
    /\ \A e, f \in heap : e.id = f.id => e = f
    /\ next_id \in 1..(MaxTimers + 1)
    /\ ready \in Seq(1..MaxTimers)
    /\ cancelled \subseteq 1..MaxTimers

run_timer(delay, interval) ==
    /\ next_id <= MaxTimers
    /\ next_id' = next_id + 1
    /\ heap' = heap \cup {[id |-> next_id, left |-> delay, interval |-> interval, cancelled |-> FALSE]}
    /\ UNCHANGED <<ready, cancelled>>

run_after == \E d \in Delays : run_timer(d, 0)
run_every == \E d \in Intervals : run_timer(d, d)

\* Lazy: the entry is marked and stays in the heap until it is due.
cancel ==
    \E e \in heap :
        /\ ~e.cancelled
        /\ heap' = (heap \ {e}) \cup {[e EXCEPT !.cancelled = TRUE]}
        /\ cancelled' = cancelled \cup {e.id}
        /\ UNCHANGED <<next_id, ready>>

Due == {e \in heap : e.left <= 0}

\* Mutant: a periodic entry does not come back.
RearmedNever(es) == {}

Rearmed(es) == {[e EXCEPT !.left = e.interval] : e \in {d \in es : d.interval > 0}}

InHeapOrder(es) ==
    {s \in Bijection(1..Cardinality(es), es) : \A i, j \in DOMAIN s : i < j => s[i].left <= s[j].left}

\* Mutant: pops cancelled entries like the others.
tickAll ==
    /\ heap' = (heap \ Due) \cup Rearmed(Due)
    /\ \E s \in InHeapOrder(Due) : ready' = [i \in DOMAIN s |-> s[i].id]
    /\ UNCHANGED <<next_id, cancelled>>

\* The locked part of tick(): the due entries leave the heap, the periodic
\* ones come back an interval from now.
tick ==
    LET live == {e \in Due : ~e.cancelled}
    IN  /\ heap' = (heap \ Due) \cup Rearmed(live)
        /\ \E s \in InHeapOrder(live) : ready' = [i \in DOMAIN s |-> s[i].id]
        /\ UNCHANGED <<next_id, cancelled>>

\* The calls after the unlock.
call ==
    /\ ready # <<>>
    /\ ready' = Tail(ready)
    /\ UNCHANGED <<heap, next_id, cancelled>>

\* steady_clock advances.
Elapse ==
    /\ heap' = {[e EXCEPT !.left = @ - 1] : e \in heap}
    /\ UNCHANGED <<next_id, ready, cancelled>>

\* next_timeout_ms() takes the first entry of the array that is not cancelled.
\* The array's first entry is due first; when that one is cancelled the next
\* live entry of the array need not be.
next_timeout_ms ==
    LET first == {e \in heap : \A f \in heap : e.left <= f.left}
        found == {e \in heap : ~e.cancelled /\ (e \in first \/ \E f \in first : f.cancelled)}
    IN  IF found = {} THEN {-1} ELSE {Max({e.left, 0}) : e \in found}
=============================================================================
