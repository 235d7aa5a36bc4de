----------------------------- MODULE AsyncLogger -----------------------------
(***************************************************************************)
(* The asynchronous logger (src/src/logger/async_logger.cpp): any thread   *)
(* appends a line to one buffer, the logger's thread swaps it with the     *)
(* other and writes that one to the file, which it renames when it is full.*)
(* The lines of a process are numbered; all are of one size.  A name of a  *)
(* full file holds the second in which it was renamed.                     *)
(***************************************************************************)
EXTENDS Naturals, Sequences, Functions

CONSTANTS
    LineSize,    \* line.size()
    RollSize,    \* roll_size_
    MaxLines,    \* bound: number of lines
    MaxSecond    \* bound: seconds that the clock moves on

ASSUME LoggerAssumption ==
    /\ LineSize \in Nat /\ RollSize \in Nat
    /\ MaxLines \in Nat /\ MaxSecond \in Nat

VARIABLES
    running,         \* running_
    cur_buf,         \* cur_buf_
    next_buf,        \* next_buf_: what of it is not yet written
    thread,          \* where backend_loop() is
    fp,              \* fp_: "none", "file" or "stderr"
    written_bytes,   \* written_bytes_
    file,            \* the lines in filepath_
    rolled,          \* the renamed files by the second in their name
    stderr,          \* the lines on stderr
    second,          \* the clock
    appended,        \* history: number of lines appended
    last,            \* history: the line written last
    replaced         \* history: lines of renamed files that rename() replaced

outputs == <<fp, written_bytes, file, rolled, stderr, replaced>>
logger_vars == <<running, cur_buf, next_buf, thread, outputs, second, appended, last>>

LoggerTypeOK ==
    /\ running \in BOOLEAN
    /\ cur_buf \in Seq(1..MaxLines) /\ next_buf \in Seq(1..MaxLines)
    /\ thread \in {"none", "check", "wait", "sleep", "flush", "last", "last_flush", "exited", "aborted"}
    /\ fp \in {"none", "file", "stderr"} /\ written_bytes \in Nat
    /\ file \in Seq(1..MaxLines) /\ stderr \in Seq(1..MaxLines)
    /\ rolled \in [0..MaxSecond -> Seq(1..MaxLines)]
    /\ second \in 0..MaxSecond /\ appended \in 0..MaxLines /\ last \in 0..MaxLines
    /\ replaced \subseteq 1..MaxLines

LoggerInit ==
    /\ running = FALSE /\ cur_buf = <<>> /\ next_buf = <<>> /\ thread = "none"
    /\ fp = "none" /\ written_bytes = 0 /\ file = <<>> /\ stderr = <<>>
    /\ rolled = [s \in 0..MaxSecond |-> <<>>]
    /\ second = 0 /\ appended = 0 /\ last = 0 /\ replaced = {}

\* steady time: a second passes.
ClockTick ==
    /\ second < MaxSecond
    /\ second' = second + 1
    /\ UNCHANGED <<running, cur_buf, next_buf, thread, outputs, appended, last>>

\* A log line of any thread.  A notification at 1024 lines at most shortens the
\* sleep of backend_loop().
append ==
    /\ appended < MaxLines
    /\ appended' = appended + 1
    /\ cur_buf' = Append(cur_buf, appended + 1)
    /\ UNCHANGED <<running, next_buf, thread, outputs, second, last>>

\* open_file() succeeds, and counts from zero; or it fails.
open_file ==
    \/ fp' = "file" /\ written_bytes' = 0
    \/ fp' = "stderr" /\ UNCHANGED written_bytes

start ==
    /\ thread = "none" /\ thread' = "check"
    /\ running' = TRUE
    /\ open_file
    /\ UNCHANGED <<cur_buf, next_buf, file, rolled, stderr, replaced, second, appended, last>>

-----------------------------------------------------------------------------
(* backend_loop(). *)

\* while (running_)
loop_check ==
    /\ thread = "check" /\ thread' = IF running THEN "wait" ELSE "last"
    /\ UNCHANGED <<running, cur_buf, next_buf, outputs, second, appended, last>>

\* Mutant: the buffer is copied and not emptied.
SwapCopies(to) ==
    /\ next_buf' = cur_buf
    /\ thread' = to
    /\ UNCHANGED <<running, cur_buf, outputs, second, appended, last>>

Swap(to) ==
    /\ cur_buf' = next_buf /\ next_buf' = cur_buf
    /\ thread' = to
    /\ UNCHANGED <<running, outputs, second, appended, last>>

\* wait_for() tests its predicate first and sleeps when it does not hold.
loop_sleep ==
    /\ thread = "wait" /\ running /\ cur_buf = <<>>
    /\ thread' = "sleep"
    /\ UNCHANGED <<running, cur_buf, next_buf, outputs, second, appended, last>>

\* Mutant: wait(), and a notification of stop() that came too early is lost.
loop_swapNoTimeout ==
    /\ \/ thread = "wait" /\ (~running \/ cur_buf # <<>>)
       \/ thread = "sleep" /\ cur_buf # <<>>
    /\ Swap("flush")

\* The predicate holds, or the time is over.
loop_swap ==
    /\ \/ thread = "wait" /\ (~running \/ cur_buf # <<>>)
       \/ thread = "sleep"
    /\ Swap("flush")

\* Mutant: what was appended since the last swap is left.
loop_lastNot ==
    /\ thread = "last" /\ thread' = "last_flush"
    /\ UNCHANGED <<running, cur_buf, next_buf, outputs, second, appended, last>>

\* The last swap, after the loop.
loop_last == thread = "last" /\ Swap("last_flush")

Flushing == thread \in {"flush", "last_flush"}

NoRoom == RollSize > 0 /\ written_bytes + LineSize > RollSize

\* One line of flush_buf().
flush_line ==
    /\ Flushing /\ next_buf # <<>> /\ (fp = "stderr" \/ ~NoRoom)
    /\ file' = IF fp = "file" THEN Append(file, Head(next_buf)) ELSE file
    /\ stderr' = IF fp = "stderr" THEN Append(stderr, Head(next_buf)) ELSE stderr
    /\ written_bytes' = written_bytes + LineSize + 1
    /\ next_buf' = Tail(next_buf) /\ last' = Head(next_buf)
    /\ UNCHANGED <<running, cur_buf, thread, fp, rolled, replaced, second, appended>>

\* rename() puts the file in the place of one of the same second, and leaves
\* left in filepath_; nobody looks whether it failed.
Rename(left) ==
    \/ /\ rolled' = [rolled EXCEPT ![second] = file]
       /\ replaced' = replaced \cup Range(rolled[second])
       /\ left = <<>>
    \/ left = file /\ UNCHANGED <<rolled, replaced>>

\* One line of flush_buf() that does not fit: roll_file() renames the file and
\* opens it anew, to append to what it finds.
flush_roll ==
    /\ Flushing /\ next_buf # <<>> /\ fp = "file" /\ NoRoom
    /\ \E left \in {<<>>, file} :
         /\ Rename(left)
         /\ \/ /\ fp' = "file" /\ file' = Append(left, Head(next_buf))
               /\ written_bytes' = LineSize + 1
               /\ UNCHANGED stderr
            \/ /\ fp' = "stderr" /\ stderr' = Append(stderr, Head(next_buf))
               /\ file' = left
               /\ written_bytes' = written_bytes + LineSize + 1
    /\ next_buf' = Tail(next_buf) /\ last' = Head(next_buf)
    /\ UNCHANGED <<running, cur_buf, thread, second, appended>>

\* roll_file() closes fp_ and open_file() closes it a second time, which is
\* undefined: where the C library finds it out the process is aborted.
flush_aborts ==
    /\ Flushing /\ next_buf # <<>> /\ fp = "file" /\ NoRoom
    /\ thread' = "aborted"
    /\ \E left \in {<<>>, file} : Rename(left) /\ file' = left
    /\ UNCHANGED <<running, cur_buf, next_buf, fp, written_bytes, stderr, second, appended, last>>

flush_done ==
    /\ Flushing /\ next_buf = <<>>
    /\ thread' = IF thread = "flush" THEN "check" ELSE "exited"
    /\ UNCHANGED <<running, cur_buf, next_buf, outputs, second, appended, last>>

backend_loop ==
    \/ loop_check \/ loop_sleep \/ loop_swap \/ loop_last
    \/ flush_line \/ flush_roll \/ flush_aborts \/ flush_done

\* stop() until the join: running_ is set without the mutex, so notify_all() may
\* come before the sleep it should end.
stop_begin ==
    /\ running /\ running' = FALSE
    /\ UNCHANGED <<cur_buf, next_buf, thread, outputs, second, appended, last>>

\* join() and fclose().
stop_end ==
    /\ ~running /\ thread = "exited" /\ fp # "none"
    /\ fp' = "none"
    /\ UNCHANGED <<running, cur_buf, next_buf, thread, written_bytes, file, rolled, stderr, replaced,
                   second, appended, last>>

\* A logger by itself; GatewayProcess takes the same steps.
LoggerNext == append \/ ClockTick \/ start \/ backend_loop \/ stop_begin \/ stop_end

LoggerSpec == LoggerInit /\ [][LoggerNext]_logger_vars

-----------------------------------------------------------------------------
(* Properties. *)

Stored == Range(file) \cup Range(stderr) \cup UNION {Range(rolled[s]) : s \in 0..MaxSecond}

\* The abstract queue of lines: what is swapped out is written before what is
\* appended meanwhile.
FIFO == INSTANCE TaskFIFO WITH
    Items <- 1..MaxLines, NoItem <- 0, queue <- next_buf \o cur_buf, last <- last

\* Lines reach the output in the order in which they were appended, none twice
\* and none passed over, while buffers are swapped and files renamed.
LogInOrder == FIFO!Spec
=============================================================================
