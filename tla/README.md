# A TLA+ model of API_gateway

API_gateway is an HTTP/1.1 reverse proxy. One reactor thread owns all client
sockets (edge-triggered epoll), a pool of worker threads parses, filters, routes
and forwards each request over pooled blocking connections to the backends, and
the answer goes back to the reactor as a deferred task. This directory holds TLA+
modules translated from that code, TLC configurations that check them on small
instances, and TLAPS proofs about all of them but the configuration loader, for all
values of their constants. `PROJECT.json` maps every definition to the lines it models.

To repeat a check: `tlc -config MCEventLoop.cfg MCEventLoop`;
to repeat a proof: `tlapm NetProofs.tla`.

## The system

| Part | State | Operations | Talks to |
|---|---|---|---|
| main, Gateway::run | phase of the process | start-up, run, destructors | everything |
| Config, ConfigLoader | token cursor, the configuration read so far | load_from_file | main |
| EventLoop | deferred and pending tasks, eventfd, running flag | defer, run, run_deferred_tasks, stop | all threads |
| TCPServer | listening socket | on_accept | Gateway |
| Connection | state machine, parser, write buffer, epoll registration | on_read, on_write, send, finish_response, close | EventLoop, Gateway |
| Buffer | vector, read and write index | append, prepend, retrieve, read_fd, write_fd, shrink | Connection |
| HttpParser | state, raw, partial, chunk phase | parse, reset; parse_http_request | Connection, workers |
| ThreadPool | bounded job queue, two condition variables | submit, try_submit, enqueue, worker loop | reactor, workers |
| Gateway | connection table and count, breaker table | accept callback, process_request, cleanup_idle_connections | everything |
| Router, LoadBalancer, GatewayStats | sorted routes; counters | match, select, on_connect, on_disconnect, record_* | workers |
| Filters, RateLimitFilter | token buckets | on_request, on_response, cleanup | workers, timer |
| CircuitBreaker | state, counters, opened_at | allow_request, on_success, on_failure, reset | workers |
| Proxy, BackendPool, BackendConnection | idle queue and lease count per backend, sockets | forward, acquire, release, evict, cleanup, warm-up | workers, backends |
| Timer | heap of entries | run_after, run_every, cancel, tick | reactor |
| HealthChecker | health table | add, remove, check_all | timer, reactor |
| AsyncLogger, Logger | two buffers, the file | append, backend loop, roll, start, stop | all threads |
| Socket, utils | none | wrappers of system calls, string helpers | |

What is hard to test here: a wakeup that falls between two steps of the reactor;
single notifications of two condition variables sent outside the lock;
input reported while a connection is busy and never again (edge-triggered);
descriptors reused within one batch of events; the reactor blocking on the job
queue that workers empty, or in the connection tests of the health check; reports
that reach a breaker in a later state than the one that admitted the call;
timeouts racing late answers on pooled connections; reads that end in the middle
of a line; files that end in the middle of an object; jobs and log lines still
under way when the process ends. `PROJECT.json` lists these hazards at their lines.

## Modules

| Module | Models | How |
|---|---|---|
| `CircuitBreaker` | `proxy/circuit_breaker.cpp` | Each entry point is one step (it holds the mutex). Workers are in `forwarding` between an admission and its report, so late reports arise. Time is saturated at the reset timeout. |
| `EventLoop` | `net/event_loop.cpp` | The eventfd is a flag plus its place on epoll's ready list; pushing and writing are separate steps. |
| `TaskFIFO` | what `EventLoop` and `AsyncLogger` promise | One queue: put at the end, taken at the front, each item once. `EventLoop` implements it with `tasks \o pending_tasks \o deferred_tasks`, `AsyncLogger` with the two buffers. |
| `Connection` | `net/connection.cpp` | Methods as operators on a record that also has the kernel's side of the socket. Input is units: a part of a request, the end of one, something malformed. |
| `GatewayReactor` | accept, dispatch, idle cleanup and worker hand-over | Composes many `Connection`s with the event loop, descriptor reuse, accept errors, the bounded job queue and the workers. |
| `BackendPool` | `proxy/proxy.cpp`, `backend_pool.cpp`, `backend.cpp` | One backend; a worker's step is a critical section or a socket call; responses arrive in pieces. |
| `RateLimiter` | `filter/rate_limit_filter.cpp` | Time in units of one unit of credit; the observation window is a history variable. |
| `HttpParser` | `http/parser.cpp` and its use in `connection.cpp` | Bytes are tokens: CR and LF separately, a word of a line as one. One turn of the loop of `process()` is one step, so that it may fail to end. |
| `RequestPipeline` | `Gateway::process_request`, router, balancer, statistics | Several workers; each call that changes shared state is a step. Verdicts of breaker and filters and the backend's response are free. |
| `Timer`, `TimerLoop` | `timer/timer.cpp` under `EventLoop::run` | Entries hold the time left; time passes while the reactor sleeps and while it is in the callback of a socket or a timer, for as long as that takes. |
| `HealthChecker` | `proxy/health_checker.cpp` | `check_all()` copies the table, tests each copy without the lock and writes back by address; the results of tests are free. A history variable has the outcomes. |
| `Housekeeping` | the health check under its timer | Composes `TimerLoop` and `HealthChecker`: a test holds the reactor thread for up to its timeout. |
| `ConfigLoader` | `core/config_loader.cpp` | A file is a sequence of lexemes; the lexer is an operator, one turn of a loop of `parse_config()` is a step, so that it may fail to end. |
| `ThreadPool` | `utils/thread_pool.cpp` | A thread is at a lock, asleep, running a job, or about to notify; a notification wakes any one sleeper or nobody. |
| `AsyncLogger` | `logger/async_logger.cpp`, `logger.cpp` | Two buffers, the swap under the lock, writing without it, rolling by a rename that may fail. Lines are numbers. |
| `GatewayProcess` | `main.cpp`, `Gateway::run` and the destructors | Composes `ConfigLoader`, `ThreadPool` and `AsyncLogger`: what the file says makes the pool, the reactor submits jobs, jobs log lines, and all of it ends. |
| `Buffer`, `ByteQueue` | `net/buffer.cpp`, and what it promises | Methods as operators on a record of the vector and its two indexes, for contents of any length. A history variable has what the last call was asked to do, so that `ByteQueue` ties every change of the contents to its call. |

`MC*` modules instantiate these for TLC; `*Proofs`, `GatewayReactorSteps` and
`GatewayReactorTables` hold theorems and lemmas. `MCAdmission` has the breaker and the
rate limiter side by side: they share no state, and a behaviour is one of either.
A definition whose comment begins
with "Mutant" is a plausible bug in the definition that follows it; it is not part
of the specification and serves to show that a property can fail.

## Runs

| Run | Instance | Shows |
|---|---|---|
| `admission` | breaker: 4 workers, threshold 2, quota 2, failure counters up to 5; limiter: 2 clients, bucket of 2 tokens, clock to 9; 239,025 states | `HalfOpenNotStuck`, `ClosedCountsConsecutive`, `WithinRate`, `NotStarved`; liveness `Recovers` |
| `loop` | 2 threads and the reactor, 4 tasks, 2 per round; 4,382 states | `NoLostWakeup`; `RunsInOrder` (refinement of `TaskFIFO`); liveness `EveryTaskRuns` |
| `reactor` | 2 connections (one client misbehaves), room for one or for any number, 2 units of input, 1 worker, job queue of 1, 1 task per round; 536,739 states | `OneAnswerUnderWay`, `AnswersInOrder`, `NoInputForgotten`, `TablesAgree`; liveness `RequestsFinish`, `IdleIsClosed` |
| `pool` | 2 workers, 3 connections, 1 idle, 3 requests in 2 pieces; 59,494 states | `LeasesExact`, `WholeAnswer`, `IdleIsQuiet`; liveness `ForwardReturns` |
| `parser` | 2 messages, good, malformed, of exactly the size limit of 25 and of one byte more, cut everywhere; 400,345 states | `DeliversExactly`, `NothingHeldBack`, `FailsExactlyOnBad`, `OneShotAgrees` |
| `pipeline` | 2 workers, 3 requests, 2 nested routes, 2 backends; 801,680 states | `OneAnswerEach`, `CallsReported`, `OneBreaker`, `CountersAddUp`, `LongestPrefix`, `AnswerAsRead` |
| `housekeeping` | 3 timers, one of them the health check of 1 backend, default timeout 2, 1 interruption in a row, 1 tick in callbacks per round, 1 removal; 464,273 states | `LatenessBounded`, `HealthTracksTests`, `NoFireAfterCancel`; liveness `TimersFire` |
| `process` | 247 files (described below), pool of up to 2 threads and a queue of 1, 3 jobs, 5 lines, files rolled at 3 lines; 306,485 states | `LoadsWhatItSays`, `NoStrandedWaiter`, `NothingLostAtExit`; `LogInOrder` (refinement of `TaskFIFO`); liveness `LoadReturns`, `PoolServes`, `ShutdownEnds` |
| `breaker_probes` | as `admission` | `ProbesBounded` fails |
| `pool_slow` | backend pauses within a response | `OwnAnswer` fails |
| `parser_returns` | 1 message | `ParseReturns` fails |
| `config_shown` | the file the header of the loader shows | `DocumentedIsLoaded` fails |

The bounds are the smallest at which the interesting cases meet: the
breaker's quota of two and its uncounted probe take three workers, and a fourth
could exceed them; bursts exceed a round; the job queue is full while another
request is parsed; a connection over the limit is turned away while the
descriptor of a closed one is used again; a request comes in two reads; an idle queue of one makes the second
release drop its connection; every position of a cut is tried, and a second
message follows in the same read; the health check, a timer added by another
thread and a cancelled one are due together, and a backend is removed and added
again while it is tested, and a callback runs beyond the time the next timer is
due; the pool has two workers to wake, so that a notification
may reach the wrong one, and one place, so that `submit()` sleeps; five lines roll
the file within a second and across it. The files of `process` are plain ones
in three orders of keys, the same with a comment at every place, and one with a
lexeme lost, put in or everything after it cut off, at every place. `int` has
3 bits and `long` 5, so that values that do not fit are small numbers.

The passing runs leave out the following, each in the property's own words.
`pool` has backends that send Content-Length and do not pause within a response
(`pool_slow` lets them pause). `RequestsFinish` and `IdleIsClosed` assume that every
callback of the reactor returns: that `parse()` does, which `parser_returns` shows it
may not, and that `on_accept` does, which calls `accept()` for ever while descriptors
are lacking (see below). `LatenessBounded` limits what the timers themselves add to
the lateness of a timer. The time spent in callbacks (`busy`) is added to the bound, and
the code has no limit for it: `submit()` waits on the reactor thread for as long as
the job queue is full. `MaxBusy` bounds it for TLC only. `parser` checks safety only, so that it says nothing
of calls that do not return (`parser_returns`). `AnswerAsRead` is about responses
with a Connection header (see `gateway.cpp:135` below). `LoadsWhatItSays` is about
files whose integers fit and whose routes have one backend (`config_shown` has
two), `LoadReturns` allows for a stray character or a single '/'
(`Stuck` says where).
`NothingLostAtExit` and `ShutdownEnds` allow for the crashes of the model: jobs run
during `~Gateway`, and the second `fclose()` of a log file that is rolled.
`CHECK_DEADLOCK FALSE` is set where the system may stop: the process
ends, or all requests of the instance are answered.

### Disagreements with the documentation

1. `breaker_probes` (`proxy/circuit_breaker.cpp:24`): a half-open breaker admits
   `half_open_max_requests_` + 1 calls, since the one that finds the reset timeout over
   and opens the period is not counted. `circuit_breaker.h:21` says at most that many.
   `ProbeBound` proves that it is one more and never two.
2. `pool_slow` (`proxy/backend.cpp:108`): after a pause of more than 200 ms within a
   response the connection goes back to the pool with the rest of the response to
   come, and the next request on it gets that rest. The comment at `proxy.cpp:149`
   says the end is found by Content-Length exactly.
3. `parser_returns` (`http/parser.cpp:380`): a chunk-size line, the CRLF after a chunk
   or a trailer that is incomplete at the end of a read makes `process()` repeat for
   ever, on the reactor thread. `parser.h:59` says that 0 is returned when more data
   is needed.
4. `config_shown` (`core/config_loader.cpp:460`): the loop over the backends of a route
   ends after the first, so the second is never read. `config_loader.h:10` shows a
   route of two backends.

### Fairness

Threads that can run do run (weak fairness of the reactor's, the workers', the
logger's and main()'s steps): nothing in the code waits without a timeout except
the pool's condition variables, whose wakeups are what `PoolServes` checks, and
`submit()` in the reactor, whose progress is what `RequestsFinish` checks.
`epoll_wait` has strong fairness in `EventLoop` and `Housekeeping`, because signals
may interrupt it but not for ever. The clock runs: in `Housekeeping` callbacks return and the sleep is
strongly fair, so that the loop does not turn for ever in no time. In
`GatewayReactor` the periodic cleanup is strongly fair: `TimersFire` is the reason.
A backend that is not slow finishes what it began. Nothing makes the event loop
return, a job arrive, a client send or a backend answer. `Recovers` assumes, in its
statement, that requests keep coming.

## Proofs

All theorems hold for every value of the constants allowed by the named assumptions
(`BreakerAssumption`, `LoopAssumption`, ... in the module that declares them), which
ask for no more than finite sets, natural numbers, non-zero limits and well-formed
inputs. Eight modules hold them.

`ComponentProofs`, about the components that share no state with requests:

- Circuit breaker: `BreakerTyped`, `HalfOpenHasCaller`, `TripsOnConsecutive`,
  `ProbeBound`, for any finite set of workers and any thresholds.
  `HalfOpenNotStuck` is not inductive. `HalfOpenAccounting` adds that the successes and
  the calls under way exceed the counted admissions, and that the successes have not
  caught up with them; so the last report always ends the period.
- Rate limiter: `BucketsTyped`, `RateBound`, `NoStarvation`, for any clients,
  cost, capacity and idle time of at least the capacity. The invariant relates what
  was spent in a window, what is left and the time since the last refill; a removed
  bucket had become full again.
- Buffer: `IndexesInBounds`, `IsByteQueue`, `ConnectionBuffers`. `BufferSpec` has every
  public method in any order. The methods do not check two things, and a client has
  to keep to them: not to write more than `writable_size()` and not to `shrink()` after a
  `prepend()` when the bytes do not fit behind the reserved room (`Overrun`). Under that
  condition the indexes stay in order and inside the vector, and, if no `prepend()` is
  longer than the room in front (`LongPrepend`), `Buffer` implements `ByteQueue`, which says
  for each call what becomes of the contents: exactly the bytes given are put at the
  end or in front, exactly as many as asked are taken, and growing, moving and
  `readv()` into two places change nothing. The lemma `CutsOff` says what a longer
  `prepend()` does. `ConnectionBuffers` says the same of the calls that `Connection` makes,
  without any condition. The sizes are those of the code and contents have any
  length, which is why this component has proofs and no run.
- Health checker: `TableFollowsTests` for any finite set of backends and any caller, and
  `CheckedTableFollowsTests` for the checker under its timer. `HealthTracksTests` says
  nothing of the copies `check_all()` works on; the invariant adds that a copy agrees
  with the tests as the table does, and that a backend has one copy at a time.
- Timers and health check on the reactor thread: `TimersInTime` (`LatenessBounded`) and
  `CancelledStaysSilent` (`NoFireAfterCancel`), for any timers, timeouts and backends
  and callbacks that take any time. The invariant says how late a timer may be at each
  place of the round (`Base`), beside what callbacks have taken since the last `tick()`.

`NetProofs`:

- Event loop: `TypeCorrect`, `WakeupSafe`, `LoopIsQueue`, for any threads, tasks
  and batch limit. For the wakeups the strengthening says that a readable eventfd is on
  the ready list except while it is being drained, and that tasks pushed after the
  drain, or held over, are signalled or about to be. For the refinement of `TaskFIFO`
  (`RunsInOrder`) it says that there is a batch only during a round, and nothing held
  over then: taking a batch and holding one over move tasks within the queue.
- Backend pool: `LeasesAreExact` for any workers, connections and limits, also with slow
  backends and without Content-Length; `AnswersAreWhole` and `IdleStaysQuiet` when
  responses have Content-Length and do not pause. The invariant (`AnswersApart`): what a
  worker has read, what it can read and what the backend owes are, one after the other,
  the response to its own request, and an idle connection has none of them.

`GatewayReactorSteps` (what the methods of a connection do), `GatewayReactorTables` (what
accepting, closing and cleaning up do to the tables) and `GatewayReactorProofs`:
`OneAnswer`, `InOrder`, `TablesStayConsistent`, `InputIsAnnounced`, for any number of
connections, descriptors and workers and any limits. The invariant adds that what is
under way for a connection is the last request parsed on it (`UnderWayIsLast`), that
its answers are those to the first requests (`Sound`), and that an event of the batch is of
a connection that was open under its descriptor (`BatchOK`).

`RequestPipelineProofs`: `AnsweredOnce`, `CallsAreReported`, `BreakersAreShared`,
`CountersAreExact`, `LongestPrefixWins`, `AnswersAreRead`, for any workers, routes,
requests and responses. The invariant adds what a worker's locals are at each place of
`process_request` (`LocalsAt`): the breaker it holds is the one in the table.

`HttpParserProofs`: `ParserInvariance`, `DeliveryIsExact`, `NothingIsHeldBack`,
`BadAloneFails`, `OneShotParserAgrees`, for any messages, cuts, number of messages and
size limit. The messages are described by a grammar (`Form`: where in a request each
of its bytes stands), and the invariant says that the parser is where the grammar is
after the bytes it has consumed (`Matches`) and what the bytes so far look like (`Shape`).

`GatewayProcessProofs`: `NoThreadStranded` (thread pool with any callers) and `LogIsQueue`
(logger with any callers), then the same for the composed process
(`ProcessStrandsNobody`, `ProcessLogIsQueue`) and `OrderlyEnd` (`NothingLostAtExit`), for any
number of workers, callers, jobs and lines, any files and any roll size.
`NoStrandedWaiter` compares the jobs with the threads awake and the notifications on
their way and is inductive with the type invariant. The log needs that the second
buffer is empty outside of `flush_buf()`, and that the lines in the file, on stderr, in the
rolled files and replaced are each line once (`Accounted`); the end of the process needs
what each phase of `main()` says of the threads (`PhaseOK`).

Only model-checked: liveness under fairness (`Recovers`, `EveryTaskRuns`, `RequestsFinish`,
`IdleIsClosed`, `ForwardReturns`, `TimersFire`, `LoadReturns`, `PoolServes`,
`ShutdownEnds`) and what the loader reads (`LoadsWhatItSays`), whose lexer and reference
definition are recursive.

## Not modelled

Socket helpers and utils (wrappers of system calls and string helpers without state)
and the demo backends and scripts (test servers). Of the modelled parts: random and
least-connections balancing (the gateway uses round robin), latencies and snapshots of
the statistics, the contents of internal pages, formatting of log lines,
`forward_direct` (shares nothing between requests), `Buffer::swap` and the searches,
the width of `size_t` in `parse_hex`, rounding of doubles, memory (object lifetimes),
and `accept()` failing for want of descriptors (its other failures end the loop of
`on_accept` with connections still waiting, as in the model). The verdicts of breaker and filters are
free in `RequestPipeline`: `CallsReported` is what `CircuitBreaker` takes for granted of
its callers. The unlocked look-ups in `circuit_breakers_` and `routes_` are data races;
the model lets a look-up find or miss an entry and does not cover a corrupted table.

Observations made while reading and modelling, which no run reports:

- when the backend sends no Connection header, 19 bytes are inserted and the position
  is moved by 21 (`gateway.cpp:135`), so the headers of the filters end up in the body;
- `EventLoop::run` overwrites a `stop()` that came before it (`event_loop.cpp:160`);
  nothing calls `stop()` at present;
- `Buffer::prepend` of more than the room in front computes `write_idx_` from
  `readable_size()` after `read_idx_` has changed (`buffer.cpp:141`), so the end of the
  contents is cut off (`CutsOff`); `shrink()` right after a `prepend()` needs room that
  may not be there, and nobody calls it so (`Overrun`);
- `roll_file()` closes the file and `open_file()` closes it again
  (`async_logger.cpp:119`, `:105`); two rolls within a second replace a file; a rename that fails goes unnoticed, and
  the file grows on;
- a backend's Connection header is recognised as `Connection` or `connection` only, and
  its value as `close` only (`gateway.cpp:129`, `:182`): with `Close` the client's
  connection stays open, with `CONNECTION` a second header is added;
- `~Gateway` destroys router, proxy, breakers and filters before the pool, whose last
  jobs use them (`gateway.h:36`);
- the path of `--config=` points into a string that is gone when it is used
  (`main.cpp:42`); a backend without a port has an indeterminate one; a
  `thread_count` of 0 makes a pool that runs nothing, a negative one a pool that
  cannot be made; a stray character after a name, a brace or in a
  skipped value, and a single '/', hang the loader
  (`Stuck` in `ConfigLoader`);
- a backend that is down from the start is never reported as unhealthy, and the result
  of the health checks is not read by routing;
- the message callback of a connection holds the connection itself
  (`gateway.cpp:341`), so a closed one is not destroyed;
- a response without Content-Length ends with its headers (`backend.cpp:136`);
- a chunk size of more than 16 digits wraps (`parser.cpp:365`);
- `on_accept` calls `accept()` again and again while descriptors are lacking, and keeps
  the reactor from closing any (`tcp_server.cpp:49`);
- `select_leastConnections` counts a call that `on_connect` counts again
  (`load_balancer.cpp:91`);
- a request beginning with two blank lines passes the incremental parser and is
  answered 400 by the worker (stated in `OneShotAgrees`).
