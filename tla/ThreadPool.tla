----------------------------- MODULE ThreadPool -----------------------------
(***************************************************************************)
(* The thread pool (src/src/utils/thread_pool.cpp): a queue of jobs under  *)
(* a mutex, cv_ for the workers and cv_not_full_ for those who submit.     *)
(* What is done under the mutex is one step; a notification comes after    *)
(* the unlock and is a step of its own.  A thread in wait() has its        *)
(* predicate tested again when it is woken.                                *)
(***************************************************************************)
EXTENDS Naturals, Sequences, FiniteSets

CONSTANTS
    Workers,   \* threads a pool may start
    Callers,   \* threads that submit jobs
    MaxJobs    \* bound: number of jobs

ASSUME PoolAssumption == Workers \cap Callers = {} /\ IsFiniteSet(Workers \cup Callers) /\ MaxJobs \in Nat

VARIABLES
    tasks,            \* tasks_; a job is its number
    stop,             \* stop_
    max_queue_size,   \* max_queue_size_
    pc,               \* where a thread is in the pool's code
    job,              \* task: the job of a worker, 0 for none
    submitted,        \* history: number of jobs put into the queue
    taken             \* history: the job taken out of it last

history == <<submitted, taken>>
pool_vars == <<tasks, stop, max_queue_size, pc, job, history>>

\* "lock": about to lock and to test the predicate of wait(); "wait": in wait();
\* "notify": unlocked, about to notify; "run": in the job.
WorkerControl == {"none", "lock", "wait", "notify", "run", "exited"}
CallerControl == {"out", "lock", "wait", "notify"}

PoolTypeOK ==
    /\ tasks \in Seq(1..MaxJobs)
    /\ stop \in BOOLEAN /\ max_queue_size \in Nat
    /\ pc \in [Workers \cup Callers -> WorkerControl \cup CallerControl]
    /\ \A w \in Workers : pc[w] \in WorkerControl
    /\ \A c \in Callers : pc[c] \in CallerControl
    /\ job \in [Workers -> 0..MaxJobs]
    /\ submitted \in 0..MaxJobs /\ taken \in 0..MaxJobs

PoolInit ==
    /\ tasks = <<>> /\ stop = FALSE /\ max_queue_size = 0
    /\ pc = [t \in Workers \cup Callers |-> IF t \in Workers THEN "none" ELSE "out"]
    /\ job = [w \in Workers |-> 0]
    /\ submitted = 0 /\ taken = 0

Goto(t, from, to) == pc[t] = from /\ pc' = [pc EXCEPT ![t] = to]

Waiting(S) == {t \in S : pc[t] = "wait"}

\* notify_one() by t, who goes on at "to": one of those in wait(), if any, wakes.
NotifyOne(t, waiting, to) ==
    \/ waiting = {} /\ pc' = [pc EXCEPT ![t] = to]
    \/ \E u \in waiting : pc' = [pc EXCEPT ![t] = to, ![u] = "lock"]

-----------------------------------------------------------------------------
(* The workers. *)

\* The constructor.
ThreadPoolCreate(started, size) ==
    /\ pc = [t \in Workers \cup Callers |-> IF t \in Workers THEN "none" ELSE "out"]
    /\ max_queue_size' = size
    /\ pc' = [t \in Workers \cup Callers |-> IF t \in started THEN "lock" ELSE pc[t]]
    /\ UNCHANGED <<tasks, stop, job, history>>

\* The locked part of a round: wait() with its predicate, the end of the
\* thread, or the next job.
worker_lock(w) ==
    /\ \/ /\ tasks # <<>>
          /\ Goto(w, "lock", "notify")
          /\ tasks' = Tail(tasks) /\ taken' = Head(tasks)
          /\ job' = [job EXCEPT ![w] = Head(tasks)]
       \/ /\ tasks = <<>>
          /\ Goto(w, "lock", IF stop THEN "exited" ELSE "wait")
          /\ UNCHANGED <<tasks, taken, job>>
    /\ UNCHANGED <<stop, max_queue_size, submitted>>

\* Mutant: whoever waits for room is not told.
worker_notifyNobody(w) ==
    /\ Goto(w, "notify", "run")
    /\ UNCHANGED <<tasks, stop, max_queue_size, job, history>>

worker_notify(w) ==
    /\ pc[w] = "notify"
    /\ NotifyOne(w, Waiting(Callers), "run")
    /\ UNCHANGED <<tasks, stop, max_queue_size, job, history>>

\* task() returns.
job_ends(w) ==
    /\ Goto(w, "run", "lock")
    /\ job' = [job EXCEPT ![w] = 0]
    /\ UNCHANGED <<tasks, stop, max_queue_size, history>>

-----------------------------------------------------------------------------
(* Those who submit.  stop_ is set by the destructor, which nobody may race; *)
(* the exceptions thrown then are left out.                                  *)

Full == max_queue_size > 0 /\ Len(tasks) >= max_queue_size

Push(c, from) ==
    /\ Goto(c, from, "notify")
    /\ submitted < MaxJobs
    /\ submitted' = submitted + 1
    /\ tasks' = Append(tasks, submitted + 1)
    /\ UNCHANGED <<stop, max_queue_size, job, taken>>

\* submit(): waits for room.
submit(c) ==
    \/ /\ pc[c] \in {"out", "lock"} /\ ~Full
       /\ Push(c, pc[c])
    \/ /\ pc[c] \in {"out", "lock"} /\ Full /\ submitted < MaxJobs
       /\ Goto(c, pc[c], "wait")
       /\ UNCHANGED <<tasks, stop, max_queue_size, job, history>>

\* try_submit(): nothing happens when the queue is full.
try_submit(c) == ~Full /\ Push(c, "out")

\* enqueue() does not look at max_queue_size_.
enqueue(c) == Push(c, "out")

\* Mutant: no notification.
submit_notifyNobody(c) ==
    /\ Goto(c, "notify", "out")
    /\ UNCHANGED <<tasks, stop, max_queue_size, job, history>>

submit_notify(c) ==
    /\ pc[c] = "notify"
    /\ NotifyOne(c, Waiting(Workers), "out")
    /\ UNCHANGED <<tasks, stop, max_queue_size, job, history>>

\* ~ThreadPool() until the joins: stop_ under the lock and notify_all(), which
\* nothing between the two can tell apart from one step.
ThreadPoolStop ==
    /\ \A c \in Callers : pc[c] = "out"
    /\ stop' = TRUE
    /\ pc' = [t \in Workers \cup Callers |-> IF t \in Waiting(Workers) THEN "lock" ELSE pc[t]]
    /\ UNCHANGED <<tasks, max_queue_size, job, history>>

Joined == \A w \in Workers : pc[w] \in {"none", "exited"}

\* A pool by itself; GatewayProcess takes the same steps.
PoolNext ==
    \/ \E started \in SUBSET Workers, size \in Nat : ThreadPoolCreate(started, size)
    \/ \E w \in Workers : worker_lock(w) \/ worker_notify(w) \/ job_ends(w)
    \/ \E c \in Callers : submit(c) \/ try_submit(c) \/ enqueue(c) \/ submit_notify(c)
    \/ ThreadPoolStop

PoolSpec == PoolInit /\ [][PoolNext]_pool_vars

-----------------------------------------------------------------------------
(* Properties. *)

At(S, loc) == Cardinality({t \in S : pc[t] = loc})

\* Nobody sleeps through what it waits for.  While a worker sleeps, every queued
\* job has a worker awake to look at the queue or a notification on its way:
\* no job waits beside an idle thread.  While a caller sleeps in submit(), every
\* free place of the queue has a caller awake or a notification on its way.
NoStrandedWaiter ==
    /\ Waiting(Workers) # {} => Len(tasks) <= At(Workers, "lock") + At(Callers, "notify")
    /\ Waiting(Callers) # {} =>
          max_queue_size <= Len(tasks) + At(Workers, "notify") + At(Callers, "lock")
=============================================================================
