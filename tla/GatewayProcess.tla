--------------------------- MODULE GatewayProcess ---------------------------
(***************************************************************************)
(* The life of the process: main() (src/src/main.cpp) starts the logger,   *)
(* loads the configuration, makes the Gateway and runs it; Gateway::run    *)
(* makes the thread pool from what was loaded and enters the event loop,   *)
(* whose callbacks submit jobs.  When the loop returns, ~Gateway destroys  *)
(* the pool and the end of the process the logger.  The main thread, the   *)
(* workers and the logger's thread run side by side.                       *)
(***************************************************************************)
EXTENDS ConfigLoader, ThreadPool, AsyncLogger

CONSTANTS
    Default,         \* load_default_config(): its integers
    ThreadOptions    \* values of --threads=

ASSUME ProcessAssumption ==
    /\ Workers = 1..Cardinality(Workers)
    /\ {"thread_count", "max_queue_size"} \subseteq IntKeys
    /\ Default \in [IntKeys -> Ints] /\ ThreadOptions \subseteq Ints

VARIABLE
    phase   \* where main() is

vars == <<phase, loader_vars, pool_vars, logger_vars>>

NoFile == [text |-> <<>>, valid |-> FALSE, plain |-> FALSE, means |-> [ints |-> Initial, routes |-> <<>>]]

Phases == {"logger", "load", "construct", "run", "loop", "destroy", "join", "exit", "stop", "exited", "crashed"}

Init ==
    /\ phase = "logger"
    /\ LoaderInit /\ PoolInit /\ LoggerInit

Main(from, to) == phase = from /\ phase' = to

set_async_logger ==
    /\ Main("logger", "load")
    /\ start
    /\ UNCHANGED <<loader_vars, pool_vars>>

load ==
    /\ Main("load", "load")
    /\ parse_config
    /\ UNCHANGED <<pool_vars, logger_vars>>

\* Also when --config= was given: config_path then points into a string that
\* is gone.
load_not ==
    /\ Main("load", "load")
    /\ load_fails
    /\ UNCHANGED <<pool_vars, logger_vars>>

\* The result or the default, a log line, the options of the command line.  Of
\* the loader only the integers go on; the routes are RequestPipeline's.
configure ==
    /\ Main("load", "construct")
    /\ at \in {"loaded", "failed"}
    /\ LET ints == IF at = "loaded" THEN cfg.ints ELSE Default
       IN  \/ cfg' = [ints |-> ints, routes |-> <<>>]
           \/ \E n \in ThreadOptions : cfg' = [ints |-> [ints EXCEPT !["thread_count"] = n], routes |-> <<>>]
    /\ append
    /\ at' = "done" /\ level' = "root" /\ key' = "" /\ nesting' = NoNesting
    /\ parser' = [pos |-> 1, current |-> End, error |-> FALSE, hung |-> FALSE]
    /\ route' = NoRoute /\ backend' = [host |-> "", port |-> 0] /\ doc' = NoFile
    /\ UNCHANGED pool_vars

\* The constructor of Gateway logs a line.
construct ==
    /\ Main("construct", "run")
    /\ append
    /\ UNCHANGED <<loader_vars, pool_vars>>

\* Gateway::run: EventLoop cannot be made.
run_fails ==
    /\ Main("run", "destroy")
    /\ append
    /\ UNCHANGED <<loader_vars, pool_vars>>

\* The conversion of an int to size_t.
to_size(n) == IF n < 0 THEN 2 ^ LongBits + n ELSE n

Threads == to_size(cfg.ints["thread_count"])

\* A negative thread_count: starting threads fails at last, and ends the process.
run_crashes ==
    /\ Main("run", "crashed")
    /\ Threads > Cardinality(Workers)
    /\ UNCHANGED <<loader_vars, pool_vars, logger_vars>>

run ==
    /\ Main("run", "loop")
    /\ Threads <= Cardinality(Workers)
    /\ ThreadPoolCreate(1..Threads, to_size(cfg.ints["max_queue_size"]))
    /\ append
    /\ UNCHANGED loader_vars

\* The reactor thread in the pool.  The gateway calls submit() only.
submit_job(c) ==
    /\ Main("loop", "loop")
    /\ submit(c) \/ (pc[c] = "out" /\ (try_submit(c) \/ enqueue(c)))
    /\ UNCHANGED <<loader_vars, logger_vars>>

submit_returns(c) ==
    /\ Main("loop", "loop")
    /\ submit_notify(c)
    /\ UNCHANGED <<loader_vars, logger_vars>>

\* EventLoop::run returns, which it does after stop() or when epoll_wait fails.
loop_returns ==
    /\ Main("loop", "destroy")
    /\ \A c \in Callers : pc[c] = "out"
    /\ UNCHANGED <<loader_vars, pool_vars, logger_vars>>

destroy ==
    /\ Main("destroy", "join")
    /\ ThreadPoolStop
    /\ UNCHANGED <<loader_vars, logger_vars>>

join ==
    /\ Main("join", "exit")
    /\ Joined
    /\ UNCHANGED <<loader_vars, pool_vars, logger_vars>>

\* The static Logger is destroyed at exit.
exit ==
    /\ Main("exit", "stop")
    /\ stop_begin
    /\ UNCHANGED <<loader_vars, pool_vars>>

exit_done ==
    /\ Main("stop", "exited")
    /\ stop_end
    /\ UNCHANGED <<loader_vars, pool_vars>>

\* A job may log lines, here at most one.
worker(w) ==
    /\ phase # "crashed"
    /\ \/ worker_lock(w) /\ UNCHANGED logger_vars
       \/ worker_notify(w) /\ UNCHANGED logger_vars
       \/ job_ends(w) /\ (append \/ UNCHANGED logger_vars)
    /\ UNCHANGED <<phase, loader_vars>>

\* ~Gateway destroys the router, the proxy, the breakers and the filters before
\* the pool: a job that is run meanwhile uses what is gone.
worker_crashes(w) ==
    /\ phase \in {"destroy", "join"} /\ pc[w] = "run"
    /\ phase' = "crashed"
    /\ UNCHANGED <<loader_vars, pool_vars, logger_vars>>

log_thread ==
    /\ phase # "crashed"
    /\ backend_loop
    /\ phase' = IF thread' = "aborted" THEN "crashed" ELSE phase
    /\ UNCHANGED <<loader_vars, pool_vars>>

\* Time matters once there is something to rename.
clock ==
    /\ file # <<>> /\ phase # "crashed"
    /\ ClockTick
    /\ UNCHANGED <<phase, loader_vars, pool_vars>>

main ==
    \/ set_async_logger \/ load \/ configure \/ construct \/ run_fails \/ run_crashes \/ run
    \/ destroy \/ join \/ exit \/ exit_done

Next ==
    \/ main \/ load_not \/ loop_returns
    \/ \E c \in Callers : submit_job(c) \/ submit_returns(c)
    \/ \E w \in Workers : worker(w) \/ worker_crashes(w)
    \/ log_thread \/ clock

\* Every thread that can go on does: main() in its straight line, a worker, the
\* logger's thread (whose sleep has a timeout), a caller that was woken.  The
\* event loop need not return, and no job need come.
Fairness ==
    /\ WF_vars(main) /\ WF_vars(log_thread)
    /\ \A w \in Workers : WF_vars(worker(w))
    /\ \A c \in Callers : WF_vars(submit_returns(c)) /\ WF_vars(pc[c] = "lock" /\ submit_job(c))

Spec == Init /\ [][Next]_vars /\ Fairness

-----------------------------------------------------------------------------
(* Properties. *)

Started == {w \in Workers : pc[w] # "none"}

\* When the process ends in order every job that was submitted has run, and every line
\* that was logged, by the jobs that ran last too, is in a file or on stderr,
\* but for the files a rename() of the same second replaced.  (A pool of no
\* threads runs no job.)
NothingLostAtExit ==
    phase = "exited" =>
        /\ Stored = (1..appended) \ replaced
        /\ Started # {} => taken = submitted /\ \A w \in Workers : job[w] = 0

Busy == tasks # <<>> \/ (\E w \in Workers : job[w] # 0) \/ (\E c \in Callers : pc[c] # "out")

\* Every job is run and every submit() returns, also with a full queue, as long
\* as the pool has a thread: it is done at last with all it was given, unless
\* the process is ended by an error.
PoolServes == (Busy /\ Started # {}) ~> (~Busy \/ phase = "crashed")

\* Shutting down comes to its end: the pool is drained and joined, and the
\* logger's thread hears of stop() although the notification may be lost.  The
\* process does not hang, although it may crash on the way.
ShutdownEnds == (phase = "destroy") ~> (phase \in {"exited", "crashed"})
=============================================================================
