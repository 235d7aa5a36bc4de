------------------------------ MODULE EventLoop ------------------------------
(***************************************************************************)
(* The cross-thread task queue of EventLoop (src/src/net/event_loop.cpp):  *)
(* defer() from any thread, the eventfd that wakes epoll_wait, the batched *)
(* run_deferred_tasks() of the reactor thread, run() and stop().           *)
(*                                                                         *)
(* defer() pushes under defer_mutex_ and writes the eventfd after the      *)
(* unlock, so a push and its wakeup are two steps.  The loop runs deferred *)
(* tasks only from the wakeup callback: a timeout of epoll_wait does not   *)
(* run them, so a lost wakeup would strand a response.                     *)
(***************************************************************************)
EXTENDS Naturals, Sequences

CONSTANTS
    Threads,              \* threads other than the reactor that defer or stop
    Reactor,              \* the event-loop thread: its callbacks defer too
    MaxDeferredPerRound,  \* max_deferred_per_round_, 0 for no limit
    MaxTasks              \* bound: number of tasks ever deferred

ASSUME LoopAssumption ==
    /\ Reactor \notin Threads
    /\ MaxDeferredPerRound \in Nat
    /\ MaxTasks \in Nat

VARIABLES
    pc,              \* where the reactor thread is in run()
    running,         \* running_
    deferred_tasks,  \* deferred_tasks_
    pending_tasks,   \* pending_tasks_
    tasks,           \* local of run_deferred_tasks: what is left of the batch
    budget,          \* how many of tasks this round still runs
    eventfd,         \* the counter of wakeup_fd_ is not zero
    edge,            \* wakeup_fd_ is on epoll's ready list (EPOLLET)
    writers,         \* threads that will write wakeup_fd_ as their next step
    pushed,          \* number of tasks deferred so far; tasks are numbered
    done,            \* history: the task run last
    stop_called      \* history: stop() has been called

queues == <<deferred_tasks, pending_tasks, tasks, budget, pushed, done>>
vars == <<pc, running, queues, eventfd, edge, writers, stop_called>>

Callers == Threads \cup {Reactor}
Control == {"enter", "check", "wait", "drain", "swap", "run", "rewrite",
            "idle", "exit"}

TypeOK ==
    /\ pc \in Control
    /\ running \in BOOLEAN /\ eventfd \in BOOLEAN /\ edge \in BOOLEAN
    /\ stop_called \in BOOLEAN
    /\ deferred_tasks \in Seq(Nat)
    /\ pending_tasks \in Seq(Nat)
    /\ tasks \in Seq(Nat)
    /\ budget \in Nat /\ pushed \in Nat /\ done \in Nat
    /\ writers \subseteq Callers

Init ==
    /\ pc = "enter" /\ running = FALSE
    /\ deferred_tasks = <<>> /\ pending_tasks = <<>> /\ tasks = <<>>
    /\ budget = 0 /\ pushed = 0 /\ done = 0
    /\ eventfd = FALSE /\ edge = FALSE
    /\ writers = {} /\ stop_called = FALSE

\* A write to the eventfd makes it readable and puts it on the ready list.
signal == eventfd' = TRUE /\ edge' = TRUE

-----------------------------------------------------------------------------
(* Calls from any thread.  The reactor thread defers from the callbacks it   *)
(* dispatches, from the tasks it runs and from the idle callback.            *)

MayCall(t) ==
    /\ t \notin writers
    /\ t = Reactor => pc \in {"drain", "run", "idle"}

defer(t) ==
    /\ MayCall(t)
    /\ pushed < MaxTasks
    /\ pushed' = pushed + 1
    /\ deferred_tasks' = Append(deferred_tasks, pushed + 1)
    /\ writers' = writers \cup {t}
    /\ UNCHANGED <<pc, running, pending_tasks, tasks, budget, done, eventfd, edge, stop_called>>

\* Bound: stop() is called once.
stop(t) ==
    /\ MayCall(t)
    /\ ~stop_called
    /\ running' = FALSE
    /\ stop_called' = TRUE
    /\ writers' = writers \cup {t}
    /\ UNCHANGED <<pc, queues, eventfd, edge>>

\* The write at the end of defer() and stop().
write_wakeup(t) ==
    /\ t \in writers
    /\ signal
    /\ writers' = writers \ {t}
    /\ UNCHANGED <<pc, running, queues, stop_called>>

-----------------------------------------------------------------------------
(* The reactor thread. *)

Goto(from, to) ==
    /\ Reactor \notin writers
    /\ pc = from
    /\ pc' = to
    /\ UNCHANGED stop_called

\* run() stores true into running_, whatever stop() stored before.
run_enter ==
    /\ Goto("enter", "check")
    /\ running' = TRUE
    /\ UNCHANGED <<queues, eventfd, edge, writers>>

run_check ==
    /\ Goto("check", IF running THEN "wait" ELSE "exit")
    /\ UNCHANGED <<running, queues, eventfd, edge, writers>>

\* epoll_wait reports the eventfd when it is on the ready list and readable,
\* and takes it off the list in any case.
epoll_wait ==
    /\ Goto("wait", IF edge /\ eventfd THEN "drain" ELSE "idle")
    /\ edge' = FALSE
    /\ UNCHANGED <<running, queues, eventfd, writers>>

\* EINTR starts the loop over without the idle callback; any other error of
\* epoll_wait leaves it.
epoll_interrupted ==
    /\ Goto("wait", "check")
    /\ UNCHANGED <<running, queues, eventfd, edge, writers>>

epoll_failed ==
    /\ Goto("wait", "exit")
    /\ UNCHANGED <<running, queues, eventfd, edge, writers>>

\* The wakeup callback reads the counter down to zero first ...
drain_wakeup ==
    /\ Goto("drain", "swap")
    /\ eventfd' = FALSE
    /\ UNCHANGED <<running, queues, edge, writers>>

\* Mutant: the tasks left over from the last round go behind the new ones.
swap_tasksNewFirst ==
    LET batch == deferred_tasks \o pending_tasks
    IN  /\ Goto("swap", "run")
        /\ tasks' = batch
        /\ pending_tasks' = <<>> /\ deferred_tasks' = <<>>
        /\ budget' = IF MaxDeferredPerRound > 0 /\ Len(batch) > MaxDeferredPerRound
                     THEN MaxDeferredPerRound
                     ELSE Len(batch)
        /\ UNCHANGED <<running, pushed, done, eventfd, edge, writers>>

\* Mutant: a batch beyond the limit is put off as a whole.
swap_tasksAllOrNone ==
    LET batch == pending_tasks \o deferred_tasks
    IN  /\ Goto("swap", "run")
        /\ tasks' = batch
        /\ pending_tasks' = <<>> /\ deferred_tasks' = <<>>
        /\ budget' = IF MaxDeferredPerRound > 0 /\ Len(batch) > MaxDeferredPerRound
                     THEN 0 ELSE Len(batch)
        /\ UNCHANGED <<running, pushed, done, eventfd, edge, writers>>

\* ... and takes the queued tasks after that, those left over in front.
swap_tasks ==
    LET batch == pending_tasks \o deferred_tasks
    IN  /\ Goto("swap", "run")
        /\ tasks' = batch
        /\ pending_tasks' = <<>> /\ deferred_tasks' = <<>>
        /\ budget' = IF MaxDeferredPerRound > 0 /\ Len(batch) > MaxDeferredPerRound
                     THEN MaxDeferredPerRound
                     ELSE Len(batch)
        /\ UNCHANGED <<running, pushed, done, eventfd, edge, writers>>

run_task ==
    /\ Goto("run", "run")
    /\ budget > 0 /\ tasks # <<>>
    /\ done' = Head(tasks)
    /\ tasks' = Tail(tasks)
    /\ budget' = budget - 1
    /\ UNCHANGED <<running, deferred_tasks, pending_tasks, pushed, eventfd, edge, writers>>

\* Mutant: no wakeup for the rest of the batch.
end_roundSilent ==
    /\ Goto("run", "idle")
    /\ budget = 0
    /\ pending_tasks' = tasks
    /\ tasks' = <<>>
    /\ UNCHANGED <<running, deferred_tasks, budget, pushed, done, eventfd, edge, writers>>

\* The rest of the batch is kept for the next round, with a wakeup for it.
end_round ==
    /\ Goto("run", IF tasks = <<>> THEN "idle" ELSE "rewrite")
    /\ budget = 0
    /\ pending_tasks' = tasks
    /\ tasks' = <<>>
    /\ UNCHANGED <<running, deferred_tasks, budget, pushed, done, eventfd, edge, writers>>

rewrite_wakeup ==
    /\ Goto("rewrite", "idle")
    /\ signal
    /\ UNCHANGED <<running, queues, writers>>

idle_cb ==
    /\ Goto("idle", "check")
    /\ UNCHANGED <<running, queues, eventfd, edge, writers>>

Loop ==
    \/ run_enter \/ run_check \/ epoll_wait \/ drain_wakeup \/ swap_tasks
    \/ run_task \/ end_round \/ rewrite_wakeup \/ idle_cb

Next ==
    \/ \E t \in Callers : defer(t) \/ stop(t) \/ write_wakeup(t)
    \/ Loop
    \/ epoll_interrupted
    \/ epoll_failed

Spec == Init /\ [][Next]_vars

\* The reactor thread and every thread inside defer() or stop() keep running;
\* epoll_wait returns by its timeout, and is not interrupted for ever.
Fairness ==
    /\ SF_vars(epoll_wait)
    /\ WF_vars(Loop)
    /\ \A t \in Callers : WF_vars(write_wakeup(t))

FairSpec == Spec /\ Fairness

-----------------------------------------------------------------------------
(* Properties. *)

Backlog == deferred_tasks # <<>> \/ pending_tasks # <<>>

\* No wakeup is lost: when the reactor is outside the wakeup callback and
\* tasks are queued, epoll will report the eventfd, or a thread is about to
\* write it (defer, run_deferred_tasks and the wakeup callback).
NoLostWakeup ==
    pc \in {"enter", "check", "wait", "idle"} /\ Backlog
        => (eventfd /\ edge) \/ writers # {}

\* The queue seen by callers is FIFO across batches: what is left of the
\* batch, the tasks held over and the new ones, in this order.
FIFO == INSTANCE TaskFIFO WITH
            Items <- 1..MaxTasks, NoItem <- 0, last <- done,
            queue <- tasks \o pending_tasks \o deferred_tasks

RunsInOrder == FIFO!Spec

\* Every deferred task is run unless the loop has been left.
EveryTaskRuns ==
    \A n \in 1..MaxTasks : pushed >= n ~> (done >= n \/ pc = "exit")
=============================================================================
