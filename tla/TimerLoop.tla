------------------------------ MODULE TimerLoop ------------------------------
(***************************************************************************)
(* The timers under EventLoop::run: compute_timeout_ms() bounds epoll_wait *)
(* by the next timer, and the idle callback that Gateway::run installs     *)
(* calls tick() at the end of every round.  Time passes while the reactor  *)
(* thread sleeps in epoll_wait and while it is in a callback: that of a    *)
(* socket may wait in ThreadPool::submit for as long as the queue is full. *)
(* Housekeeping adds the callback of which more is known, the health       *)
(* check.                                                                  *)
(***************************************************************************)
EXTENDS Timer

CONSTANTS
    DefaultTimeout,   \* the argument of EventLoop::run, in ticks
    MaxInterrupts,    \* bound: interruptions of epoll_wait in a row
    MaxBusy           \* bound: time spent in callbacks between two tick()s

ASSUME TimeoutAssumption ==
    DefaultTimeout \in Nat \ {0} /\ MaxInterrupts \in Nat /\ MaxBusy \in Nat

VARIABLES
    pc,          \* where the reactor thread is in run()
    sleep,       \* what is left of the timeout of epoll_wait
    interrupts,  \* history: interruptions of epoll_wait since the last tick()
    busy         \* history: time spent in callbacks since the last tick()

loop_vars == <<timer_vars, pc, sleep, interrupts, busy>>

LoopTypeOK ==
    /\ TimerTypeOK
    /\ pc \in {"check", "wait", "sockets", "idle", "calls", "health"}
    /\ sleep \in Nat
    /\ interrupts \in 0..MaxInterrupts
    /\ busy \in 0..MaxBusy

compute_timeout_ms(t) == IF t < 0 THEN DefaultTimeout ELSE Max({Min({t, DefaultTimeout}), 1})

\* Calls from any thread, callbacks included; adding a timer does not wake the
\* reactor.
timer_call ==
    /\ run_after \/ run_every \/ cancel
    /\ UNCHANGED <<pc, sleep, interrupts, busy>>

begin_round ==
    /\ pc = "check" /\ pc' = "wait"
    /\ \E t \in next_timeout_ms : sleep' = compute_timeout_ms(t)
    /\ UNCHANGED <<timer_vars, interrupts, busy>>

Sleeps ==
    /\ pc = "wait" /\ sleep > 0
    /\ sleep' = sleep - 1
    /\ Elapse
    /\ UNCHANGED <<pc, interrupts, busy>>

\* epoll_wait returns at the end of its timeout, or before with events.
epoll_wait ==
    /\ pc = "wait" /\ pc' = "sockets"
    /\ sleep' = 0
    /\ UNCHANGED <<timer_vars, interrupts, busy>>

\* A callback, of a socket or of a timer, takes its time.
callback_works ==
    /\ pc = "sockets" \/ (pc = "calls" /\ ready # <<>>)
    /\ busy < MaxBusy
    /\ busy' = busy + 1
    /\ Elapse
    /\ UNCHANGED <<pc, sleep, interrupts>>

\* Mutant: a round with events leaves out the idle callback.
sockets_doneSkips ==
    /\ pc = "sockets" /\ pc' \in {"idle", "check"}
    /\ UNCHANGED <<timer_vars, sleep, interrupts, busy>>

sockets_done ==
    /\ pc = "sockets" /\ pc' = "idle"
    /\ UNCHANGED <<timer_vars, sleep, interrupts, busy>>

\* EINTR: the loop goes on with the next round, past the idle callback.
epoll_interrupted ==
    /\ pc = "wait" /\ pc' = "check"
    /\ interrupts < MaxInterrupts
    /\ interrupts' = interrupts + 1
    /\ sleep' = 0
    /\ UNCHANGED <<timer_vars, busy>>

idle_tick ==
    /\ pc = "idle" /\ pc' = "calls"
    /\ tick
    /\ interrupts' = 0 /\ busy' = 0
    /\ UNCHANGED sleep

idle_call ==
    /\ pc = "calls"
    /\ call
    /\ UNCHANGED <<pc, sleep, interrupts, busy>>

end_round ==
    /\ pc = "calls" /\ ready = <<>>
    /\ pc' = "check"
    /\ UNCHANGED <<timer_vars, sleep, interrupts, busy>>
=============================================================================
