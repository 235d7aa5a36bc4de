------------------------ MODULE GatewayProcessProofs ------------------------
(***************************************************************************)
(* The thread pool, the logger and the process that owns both.             *)
(*                                                                         *)
(* No thread of the pool is stranded, for any number of workers and of     *)
(* callers and any size of the queue.  NoStrandedWaiter counts, over all   *)
(* threads, those awake and those about to notify, and is inductive with   *)
(* the type invariant.  The argument is about how a step that moves one or *)
(* two threads changes the counts (Moves): taking a job makes a place and  *)
(* a notification out of one thread awake, a notification makes one more   *)
(* thread awake, and a thread goes to sleep only when there is nothing for *)
(* it.                                                                     *)
(*                                                                         *)
(* The double buffer of the logger is one queue, however many lines there  *)
(* are and wherever the files are cut: next_buf_ is empty whenever the two *)
(* buffers are swapped, so what is appended during a flush stands behind   *)
(* what is being flushed.                                                  *)
(*                                                                         *)
(* Nothing is lost at the end of the process: a worker leaves only an      *)
(* empty queue behind, into which nobody puts any more, and when the       *)
(* logger's thread swaps for the last time nobody is left to log.          *)
(***************************************************************************)
EXTENDS GatewayProcess, FiniteSetTheorems, SequenceTheorems, TLAPS

-----------------------------------------------------------------------------
(* A queue kept in two sequences, one after the other: putting to the      *)
(* second and taking from the first are puts to and takes from the whole.  *)

\* Appending to the second of two sequences appends to both together.
LEMMA AppendBehind ==
    ASSUME NEW S, NEW s \in Seq(S), NEW t \in Seq(S), NEW x \in S
    PROVE  s \o Append(t, x) = Append(s \o t, x)
  <1>1. <<x>> \in Seq(S) /\ s \o t \in Seq(S)
    BY ConcatProperties
  <1>2. Append(t, x) = t \o <<x>> /\ Append(s \o t, x) = (s \o t) \o <<x>>
    BY <1>1, AppendIsConcat
  <1> QED
    BY <1>1, <1>2, ConcatAssociative

\* Taking from the first of two sequences takes from both together.
LEMMA TakeFromFront ==
    ASSUME NEW S, NEW s \in Seq(S), NEW t \in Seq(S), s # <<>>
    PROVE  /\ s \o t # <<>> /\ Head(s \o t) = Head(s)
           /\ Tail(s \o t) = Tail(s) \o t
  <1> DEFINE x == Head(s)
             r == Tail(s)
  <1>1. x \in S /\ r \in Seq(S) /\ <<x>> \in Seq(S)
    OBVIOUS
  <1>2. s = <<x>> \o r
    OBVIOUS
  <1> HIDE DEF x, r
  <1>3. r \o t \in Seq(S) /\ s \o t = <<x>> \o (r \o t)
    BY <1>1, <1>2, ConcatAssociative, ConcatProperties
  <1> DEFINE u == r \o t
  <1> HIDE DEF u
  <1>4. u \in Seq(S) => <<x>> \o u # <<>> /\ Head(<<x>> \o u) = x /\ Tail(<<x>> \o u) = u
    BY <1>1
  <1> QED
    BY <1>3, <1>4 DEF x, r, u

-----------------------------------------------------------------------------
(* The thread pool. *)

PoolThreads == Workers \cup Callers

PoolIInv == PoolTypeOK /\ NoStrandedWaiter

\* Every job, and every free place, has somebody who will come for it.
JobsServed == Len(tasks) <= At(Workers, "lock") + At(Callers, "notify")
PlacesServed == max_queue_size <= Len(tasks) + At(Workers, "notify") + At(Callers, "lock")

-----------------------------------------------------------------------------
\* Groups of threads are finite, so their size is a number.
LEMMA PoolCounted ==
    ASSUME NEW A \in SUBSET PoolThreads
    PROVE  IsFiniteSet(A) /\ Cardinality(A) \in Nat
  <1>1. IsFiniteSet(PoolThreads)
    BY PoolAssumption DEF PoolThreads
  <1> QED
    BY <1>1, FS_Subset, FS_CardinalityType

\* The number of threads of a group at a place.
LEMMA PoolCountedAt ==
    ASSUME NEW S \in SUBSET PoolThreads, NEW loc
    PROVE  At(S, loc) \in Nat
  <1>1. {t \in S : pc[t] = loc} \in SUBSET PoolThreads
    OBVIOUS
  <1> QED
    BY <1>1, PoolCounted DEF At

\* No thread of the group moves.
LEMMA Stays ==
    ASSUME NEW S \in SUBSET PoolThreads, \A u \in S : pc'[u] = pc[u], NEW loc
    PROVE  At(S, loc)' = At(S, loc)
  <1>1. {t \in S : pc'[t] = loc} = {t \in S : pc[t] = loc}
    OBVIOUS
  <1> QED
    BY <1>1 DEF At

\* One thread of the group moves: one more where it goes, one less where it
\* comes from.
LEMMA Moves ==
    ASSUME NEW S \in SUBSET PoolThreads, NEW t \in S, \A u \in S \ {t} : pc'[u] = pc[u],
           pc'[t] # pc[t], NEW loc
    PROVE  At(S, loc)' = IF loc = pc'[t] THEN At(S, loc) + 1
                         ELSE IF loc = pc[t] THEN At(S, loc) - 1
                         ELSE At(S, loc)
  <1> DEFINE A == {u \in S : pc[u] = loc}
             B == {u \in S : pc'[u] = loc}
  <1>0. At(S, loc) = Cardinality(A) /\ At(S, loc)' = Cardinality(B)
    BY DEF At
  <1>1. IsFiniteSet(A) /\ Cardinality(A) \in Nat
    <2>1. A \in SUBSET PoolThreads
      OBVIOUS
    <2> QED
      BY <2>1, PoolCounted
  <1>2. CASE loc = pc'[t]
    <2>1. B = A \cup {t} /\ t \notin A
      BY <1>2
    <2> HIDE DEF A, B
    <2>2. Cardinality(A \cup {t}) = Cardinality(A) + 1
      BY <2>1, <1>1, FS_AddElement, Zenon
    <2> QED
      BY <2>1, <2>2, <1>0, <1>2
  <1>3. CASE loc # pc'[t] /\ loc = pc[t]
    <2>1. B = A \ {t} /\ t \in A
      BY <1>3
    <2> HIDE DEF A, B
    <2> QED
      BY <2>1, <1>0, <1>1, <1>3, FS_RemoveElement, Zenon
  <1>4. CASE loc # pc'[t] /\ loc # pc[t]
    <2>1. A = B
      BY <1>4
    <2> HIDE DEF A, B
    <2> QED
      BY <2>1, <1>0, <1>4
  <1> QED
    BY <1>2, <1>3, <1>4

\* The same after a step.
LEMMA CountedAtNext ==
    ASSUME NEW S \in SUBSET PoolThreads, NEW loc
    PROVE  At(S, loc)' \in Nat
  <1>1. {t \in S : pc'[t] = loc} \in SUBSET PoolThreads
    OBVIOUS
  <1> QED
    BY <1>1, PoolCounted DEF At

\* The counts that NoStrandedWaiter is about.
LEMMA PoolCounts ==
    /\ At(Workers, "lock") \in Nat /\ At(Workers, "notify") \in Nat
    /\ At(Callers, "lock") \in Nat /\ At(Callers, "notify") \in Nat
    /\ At(Workers, "lock")' \in Nat /\ At(Workers, "notify")' \in Nat
    /\ At(Callers, "lock")' \in Nat /\ At(Callers, "notify")' \in Nat
  <1>1. Workers \in SUBSET PoolThreads /\ Callers \in SUBSET PoolThreads
    BY DEF PoolThreads
  <1> QED
    BY <1>1, PoolCountedAt, CountedAtNext

\* How they change when a worker w moves and no other worker does.
LEMMA WorkerMoves ==
    ASSUME NEW w \in Workers, \A u \in Workers \ {w} : pc'[u] = pc[u], pc'[w] # pc[w], NEW loc
    PROVE  At(Workers, loc)' = IF loc = pc'[w] THEN At(Workers, loc) + 1
                               ELSE IF loc = pc[w] THEN At(Workers, loc) - 1
                               ELSE At(Workers, loc)
  <1>1. Workers \in SUBSET PoolThreads
    BY DEF PoolThreads
  <1> QED
    BY <1>1, Moves

\* How they change when a caller c moves and no other caller does.
LEMMA CallerMoves ==
    ASSUME NEW c \in Callers, \A u \in Callers \ {c} : pc'[u] = pc[u], pc'[c] # pc[c], NEW loc
    PROVE  At(Callers, loc)' = IF loc = pc'[c] THEN At(Callers, loc) + 1
                               ELSE IF loc = pc[c] THEN At(Callers, loc) - 1
                               ELSE At(Callers, loc)
  <1>1. Callers \in SUBSET PoolThreads
    BY DEF PoolThreads
  <1> QED
    BY <1>1, Moves

\* And when no worker moves.
LEMMA WorkersStay ==
    ASSUME \A u \in Workers : pc'[u] = pc[u], NEW loc
    PROVE  At(Workers, loc)' = At(Workers, loc)
  <1>1. Workers \in SUBSET PoolThreads
    BY DEF PoolThreads
  <1> QED
    BY <1>1, Stays

\* And when no caller moves.
LEMMA CallersStay ==
    ASSUME \A u \in Callers : pc'[u] = pc[u], NEW loc
    PROVE  At(Callers, loc)' = At(Callers, loc)
  <1>1. Callers \in SUBSET PoolThreads
    BY DEF PoolThreads
  <1> QED
    BY <1>1, Stays

-----------------------------------------------------------------------------
\* A new pool is empty and nobody waits.
LEMMA InitPoolIInv == PoolInit => PoolIInv
  <1> SUFFICES ASSUME PoolInit
               PROVE  PoolIInv
    OBVIOUS
  <1>1. PoolTypeOK
    <2>0. tasks \in Seq(1..MaxJobs)
      BY DEF PoolInit
    <2>1. stop \in BOOLEAN
      BY Zenon DEF PoolInit
    <2>2. /\ pc \in [Workers \cup Callers -> WorkerControl \cup CallerControl]
          /\ \A w \in Workers : pc[w] \in WorkerControl
          /\ \A c \in Callers : pc[c] \in CallerControl
      BY PoolAssumption DEF PoolInit, WorkerControl, CallerControl
    <2>3. /\ job \in [Workers -> 0..MaxJobs] /\ max_queue_size \in Nat
          /\ submitted \in 0..MaxJobs /\ taken \in 0..MaxJobs
      BY PoolAssumption DEF PoolInit
    <2> QED
      BY <2>0, <2>1, <2>2, <2>3 DEF PoolTypeOK
  <1>2. Waiting(Workers) = {} /\ Waiting(Callers) = {}
    BY PoolAssumption DEF PoolInit, Waiting
  <1> QED
    BY <1>1, <1>2 DEF PoolIInv, NoStrandedWaiter

\* Every step keeps the types.
LEMMA NextPoolTypeOK == PoolTypeOK /\ [PoolNext]_pool_vars => PoolTypeOK'
  <1> SUFFICES ASSUME PoolTypeOK, [PoolNext]_pool_vars
               PROVE  PoolTypeOK'
    OBVIOUS
  <1> USE PoolAssumption DEF PoolTypeOK, WorkerControl, CallerControl
  <1>1. ASSUME NEW started \in SUBSET Workers, NEW size \in Nat, ThreadPoolCreate(started, size)
        PROVE  PoolTypeOK'
    BY <1>1 DEF ThreadPoolCreate, history
  <1>2. ASSUME NEW w \in Workers, worker_lock(w)
        PROVE  PoolTypeOK'
    <2>1. CASE tasks # <<>>
      <3>1. Head(tasks) \in 1..MaxJobs /\ Tail(tasks) \in Seq(1..MaxJobs)
        BY <2>1
      <3>2. /\ pc' = [pc EXCEPT ![w] = "notify"] /\ job' = [job EXCEPT ![w] = Head(tasks)]
            /\ tasks' = Tail(tasks) /\ taken' = Head(tasks)
            /\ UNCHANGED <<stop, max_queue_size, submitted>>
        BY <1>2, <2>1 DEF worker_lock, Goto
      <3>3. taken' \in 0..MaxJobs /\ job' \in [Workers -> 0..MaxJobs]
        BY <3>1, <3>2
      <3> QED
        BY <3>1, <3>2, <3>3
    <2>2. CASE tasks = <<>>
      <3>1. PICK to \in {"exited", "wait"} : pc' = [pc EXCEPT ![w] = to]
        BY <1>2, <2>2 DEF worker_lock, Goto
      <3>2. UNCHANGED <<tasks, taken, job, stop, max_queue_size, submitted>>
        BY <1>2, <2>2 DEF worker_lock
      <3> QED
        BY <3>1, <3>2
    <2> QED
      BY <2>1, <2>2
  <1>3. ASSUME NEW w \in Workers, worker_notify(w)
        PROVE  PoolTypeOK'
    BY <1>3 DEF worker_notify, NotifyOne, Waiting, history
  <1>4. ASSUME NEW w \in Workers, job_ends(w)
        PROVE  PoolTypeOK'
    BY <1>4 DEF job_ends, Goto, history
  <1>5. ASSUME NEW c \in Callers, NEW from, Push(c, from)
        PROVE  PoolTypeOK'
    BY <1>5 DEF Push, Goto
  <1>6. ASSUME NEW c \in Callers, submit(c)
        PROVE  PoolTypeOK'
    BY <1>5, <1>6, Zenon DEF submit, Goto, history
  <1>7. ASSUME NEW c \in Callers, submit_notify(c)
        PROVE  PoolTypeOK'
    BY <1>7 DEF submit_notify, NotifyOne, Waiting, history
  <1>8. ASSUME ThreadPoolStop
        PROVE  PoolTypeOK'
    BY <1>8 DEF ThreadPoolStop, Waiting, history
  <1>9. ASSUME UNCHANGED pool_vars
        PROVE  PoolTypeOK'
    BY <1>9 DEF pool_vars, history
  <1> QED
    BY <1>1, <1>2, <1>3, <1>4, <1>5, <1>6, <1>7, <1>8, <1>9, Zenon DEF PoolNext, try_submit, enqueue

\* Every step keeps NoStrandedWaiter.
LEMMA NextPoolIInv == PoolIInv /\ [PoolNext]_pool_vars => PoolIInv'
  <1> SUFFICES ASSUME PoolIInv, [PoolNext]_pool_vars
               PROVE  PoolIInv'
    OBVIOUS
  <1>t. PoolTypeOK /\ PoolTypeOK' /\ NoStrandedWaiter
    BY NextPoolTypeOK DEF PoolIInv
  <1>s. NoStrandedWaiter
    BY <1>t
  <1>d. Workers \cap Callers = {} /\ DOMAIN pc = Workers \cup Callers
    BY <1>t, PoolAssumption DEF PoolTypeOK
  <1>n. /\ Len(tasks) \in Nat /\ Len(tasks') \in Nat
        /\ max_queue_size \in Nat /\ max_queue_size' \in Nat
    BY <1>t DEF PoolTypeOK
  <1> SUFFICES NoStrandedWaiter'
    BY <1>t DEF PoolIInv
  <1>1. ASSUME NEW started \in SUBSET Workers, NEW size \in Nat, ThreadPoolCreate(started, size)
        PROVE  NoStrandedWaiter'
    <2>1. Waiting(Workers)' = {} /\ Waiting(Callers)' = {}
      BY <1>1, <1>d DEF ThreadPoolCreate, Waiting
    <2> QED
      BY <2>1 DEF NoStrandedWaiter
  <1>2. ASSUME NEW w \in Workers, worker_lock(w)
        PROVE  NoStrandedWaiter'
    <2>c. \A u \in Callers : pc'[u] = pc[u]
      BY <1>2, <1>d DEF worker_lock, Goto
    <2>w. \A u \in Workers \ {w} : pc'[u] = pc[u]
      BY <1>2, <1>d DEF worker_lock, Goto
    <2>l. /\ Waiting(Callers)' = Waiting(Callers)
          /\ At(Callers, "lock")' = At(Callers, "lock")
          /\ At(Callers, "notify")' = At(Callers, "notify")
      BY <2>c, CallersStay DEF Waiting
    <2>m. max_queue_size' = max_queue_size
      BY <1>2 DEF worker_lock
    <2>1. CASE tasks # <<>>
      <3>1. pc[w] = "lock" /\ pc'[w] = "notify" /\ tasks' = Tail(tasks)
        BY <1>2, <2>1, <1>d DEF worker_lock, Goto
      <3>2. Len(tasks') = Len(tasks) - 1
        BY <3>1, <2>1, <1>t DEF PoolTypeOK
      <3>3. Waiting(Workers)' = Waiting(Workers)
        BY <3>1, <2>w DEF Waiting
      <3>4. /\ At(Workers, "lock")' = At(Workers, "lock") - 1
            /\ At(Workers, "notify")' = At(Workers, "notify") + 1
        BY <3>1, <2>w, WorkerMoves
      <3>j. JobsServed => JobsServed'
        BY <1>n, <2>l, <2>m, <3>2, <3>4, PoolCounts DEF JobsServed
      <3>p. PlacesServed => PlacesServed'
        BY <1>n, <2>l, <2>m, <3>2, <3>4, PoolCounts DEF PlacesServed
      <3> QED
        BY <1>s, <2>l, <3>3, <3>j, <3>p, Zenon DEF NoStrandedWaiter, JobsServed, PlacesServed
    <2>2. CASE tasks = <<>>
      <3>1. pc[w] = "lock" /\ pc'[w] \notin {"lock", "notify"} /\ tasks' = tasks
        BY <1>2, <2>2, <1>d DEF worker_lock, Goto
      <3>2. Len(tasks') = 0
        BY <3>1, <2>2
      <3>3. At(Workers, "notify")' = At(Workers, "notify")
        BY <3>1, <2>w, WorkerMoves
      <3> QED
        BY <1>s, <1>n, <2>l, <2>m, <3>1, <3>2, <3>3, PoolCounts DEF NoStrandedWaiter
    <2> QED
      BY <2>1, <2>2
  <1>3. ASSUME NEW w \in Workers, worker_notify(w)
        PROVE  NoStrandedWaiter'
    <2>1. pc[w] = "notify" /\ tasks' = tasks /\ max_queue_size' = max_queue_size
      BY <1>3 DEF worker_notify
    <2>2. pc'[w] = "run" /\ \A u \in Workers \ {w} : pc'[u] = pc[u]
      BY <1>3, <1>d DEF worker_notify, NotifyOne, Waiting
    <2>3. /\ Waiting(Workers)' = Waiting(Workers)
          /\ At(Workers, "lock")' = At(Workers, "lock")
          /\ At(Workers, "notify")' = At(Workers, "notify") - 1
      <3>1. Waiting(Workers)' = Waiting(Workers)
        BY <2>1, <2>2 DEF Waiting
      <3> QED
        BY <3>1, <2>1, <2>2, WorkerMoves
    <2>4. CASE Waiting(Callers) = {}
      <3>1. \A u \in Callers : pc'[u] = pc[u]
        BY <1>3, <1>d, <2>4 DEF worker_notify, NotifyOne, Waiting
      <3>2. Waiting(Callers)' = {} /\ At(Callers, "notify")' = At(Callers, "notify")
        BY <3>1, <2>4, CallersStay DEF Waiting
      <3> QED
        BY <1>s, <1>n, <2>1, <2>3, <3>2, PoolCounts DEF NoStrandedWaiter
    <2>5. CASE Waiting(Callers) # {}
      <3>1. PICK u \in Waiting(Callers) : pc' = [pc EXCEPT ![w] = "run", ![u] = "lock"]
        BY <1>3, <2>5 DEF worker_notify, NotifyOne
      <3>2. u \in Callers /\ pc[u] = "wait"
        BY DEF Waiting
      <3>3. pc'[u] = "lock" /\ \A v \in Callers \ {u} : pc'[v] = pc[v]
        BY <3>1, <3>2, <1>d
      <3>4. /\ At(Callers, "notify")' = At(Callers, "notify")
            /\ At(Callers, "lock")' = At(Callers, "lock") + 1
        BY <3>2, <3>3, CallerMoves
      <3>j. JobsServed => JobsServed'
        BY <1>n, <2>1, <2>3, <3>4, PoolCounts DEF JobsServed
      <3>p. PlacesServed => PlacesServed'
        BY <1>n, <2>1, <2>3, <3>4, PoolCounts DEF PlacesServed
      <3> QED
        BY <1>s, <2>3, <2>5, <3>j, <3>p, Zenon DEF NoStrandedWaiter, JobsServed, PlacesServed
    <2> QED
      BY <2>4, <2>5
  <1>4. ASSUME NEW w \in Workers, job_ends(w)
        PROVE  NoStrandedWaiter'
    <2>1. pc[w] = "run" /\ tasks' = tasks /\ max_queue_size' = max_queue_size
      BY <1>4 DEF job_ends, Goto
    <2>2. /\ pc'[w] = "lock" /\ \A u \in Workers \ {w} : pc'[u] = pc[u]
          /\ \A u \in Callers : pc'[u] = pc[u]
      BY <1>4, <1>d DEF job_ends, Goto
    <2>3. Waiting(Workers)' = Waiting(Workers) /\ Waiting(Callers)' = Waiting(Callers)
      BY <2>1, <2>2 DEF Waiting
    <2>4. /\ At(Workers, "lock")' = At(Workers, "lock") + 1
          /\ At(Workers, "notify")' = At(Workers, "notify")
      BY <2>1, <2>2, WorkerMoves
    <2>5. /\ At(Callers, "lock")' = At(Callers, "lock")
          /\ At(Callers, "notify")' = At(Callers, "notify")
      BY <2>2, CallersStay
    <2>j. JobsServed => JobsServed'
      BY <1>n, <2>1, <2>4, <2>5, PoolCounts DEF JobsServed
    <2>p. PlacesServed => PlacesServed'
      BY <1>n, <2>1, <2>4, <2>5, PoolCounts DEF PlacesServed
    <2> QED
      BY <1>s, <2>3, <2>j, <2>p, Zenon DEF NoStrandedWaiter, JobsServed, PlacesServed
  <1>5. ASSUME NEW c \in Callers, NEW from, from \in {"out", "lock"}, Push(c, from)
        PROVE  NoStrandedWaiter'
    <2>1. /\ pc[c] = from /\ max_queue_size' = max_queue_size
          /\ tasks' = Append(tasks, submitted + 1)
      BY <1>5 DEF Push, Goto
    <2>2. /\ pc'[c] = "notify" /\ \A u \in Callers \ {c} : pc'[u] = pc[u]
          /\ \A u \in Workers : pc'[u] = pc[u]
      BY <1>5, <1>d DEF Push, Goto
    <2>3. Len(tasks') = Len(tasks) + 1
      BY <2>1, <1>t DEF PoolTypeOK
    <2>4. Waiting(Workers)' = Waiting(Workers) /\ Waiting(Callers)' = Waiting(Callers)
      BY <1>5, <2>1, <2>2 DEF Waiting
    <2>5. At(Callers, "notify")' = At(Callers, "notify") + 1
      BY <1>5, <2>1, <2>2, CallerMoves
    <2>6. At(Callers, "lock")' >= At(Callers, "lock") - 1
      <3>1. At(Callers, "lock")' \in {At(Callers, "lock"), At(Callers, "lock") - 1}
        BY <1>5, <2>1, <2>2, CallerMoves
      <3> QED
        BY <3>1, PoolCounts
    <2>8. max_queue_size' = max_queue_size
      BY <2>1
    <2>7. /\ At(Workers, "lock")' = At(Workers, "lock")
          /\ At(Workers, "notify")' = At(Workers, "notify")
      BY <2>2, WorkersStay
    <2>j. JobsServed => JobsServed'
      BY <1>n, <2>3, <2>5, <2>6, <2>7, <2>8, PoolCounts, SMTT(60) DEF JobsServed
    <2>p. PlacesServed => PlacesServed'
      BY <1>n, <2>3, <2>5, <2>6, <2>7, <2>8, PoolCounts, SMTT(60) DEF PlacesServed
    <2> QED
      BY <1>s, <2>4, <2>j, <2>p, Zenon DEF NoStrandedWaiter, JobsServed, PlacesServed
  <1>6. ASSUME NEW c \in Callers, pc[c] \in {"out", "lock"}, Full, Goto(c, pc[c], "wait"),
               UNCHANGED <<tasks, max_queue_size>>
        PROVE  NoStrandedWaiter'
    <2>1. /\ pc'[c] = "wait" /\ \A u \in Callers \ {c} : pc'[u] = pc[u]
          /\ \A u \in Workers : pc'[u] = pc[u]
      BY <1>6, <1>d DEF Goto
    <2>2. Waiting(Workers)' = Waiting(Workers)
      BY <2>1 DEF Waiting
    <2>3. At(Callers, "notify")' = At(Callers, "notify")
      BY <1>6, <2>1, CallerMoves
    <2>4. At(Workers, "lock")' = At(Workers, "lock")
      BY <2>1, WorkersStay
    <2>5. max_queue_size' <= Len(tasks')
      BY <1>6, <1>n DEF Full
    <2>j. JobsServed => JobsServed'
      BY <1>6, <2>3, <2>4 DEF JobsServed
    <2>p. PlacesServed'
      BY <1>n, <2>5, PoolCounts DEF PlacesServed
    <2> QED
      BY <1>s, <2>2, <2>j, <2>p, Zenon DEF NoStrandedWaiter, JobsServed, PlacesServed
  <1>7. ASSUME NEW c \in Callers, submit(c)
        PROVE  NoStrandedWaiter'
    BY <1>5, <1>6, <1>7 DEF submit
  <1>8. ASSUME NEW c \in Callers, try_submit(c) \/ enqueue(c)
        PROVE  NoStrandedWaiter'
    BY <1>5, <1>8 DEF try_submit, enqueue
  <1>9. ASSUME NEW c \in Callers, submit_notify(c)
        PROVE  NoStrandedWaiter'
    <2>1. pc[c] = "notify" /\ tasks' = tasks /\ max_queue_size' = max_queue_size
      BY <1>9 DEF submit_notify
    <2>2. pc'[c] = "out" /\ \A u \in Callers \ {c} : pc'[u] = pc[u]
      BY <1>9, <1>d DEF submit_notify, NotifyOne, Waiting
    <2>3. Waiting(Callers)' = Waiting(Callers)
      BY <2>1, <2>2 DEF Waiting
    <2>4. /\ At(Callers, "lock")' = At(Callers, "lock")
          /\ At(Callers, "notify")' = At(Callers, "notify") - 1
      BY <2>1, <2>2, CallerMoves
    <2>5. CASE Waiting(Workers) = {}
      <3>1. \A u \in Workers : pc'[u] = pc[u]
        BY <1>9, <1>d, <2>5 DEF submit_notify, NotifyOne, Waiting
      <3>2. Waiting(Workers)' = {} /\ At(Workers, "notify")' = At(Workers, "notify")
        BY <3>1, <2>5, WorkersStay DEF Waiting
      <3> QED
        BY <1>s, <1>n, <2>1, <2>3, <2>4, <3>2, PoolCounts DEF NoStrandedWaiter
    <2>6. CASE Waiting(Workers) # {}
      <3>1. PICK u \in Waiting(Workers) : pc' = [pc EXCEPT ![c] = "out", ![u] = "lock"]
        BY <1>9, <2>6 DEF submit_notify, NotifyOne
      <3>2. u \in Workers /\ pc[u] = "wait"
        BY DEF Waiting
      <3>3. pc'[u] = "lock" /\ \A v \in Workers \ {u} : pc'[v] = pc[v]
        BY <3>1, <3>2, <1>d
      <3>4. /\ At(Workers, "lock")' = At(Workers, "lock") + 1
            /\ At(Workers, "notify")' = At(Workers, "notify")
        BY <3>2, <3>3, WorkerMoves
      <3>j. JobsServed => JobsServed'
        BY <1>n, <2>1, <2>4, <3>4, PoolCounts DEF JobsServed
      <3>p. PlacesServed => PlacesServed'
        BY <1>n, <2>1, <2>4, <3>4, PoolCounts DEF PlacesServed
      <3> QED
        BY <1>s, <2>3, <2>6, <3>j, <3>p, Zenon DEF NoStrandedWaiter, JobsServed, PlacesServed
    <2> QED
      BY <2>5, <2>6
  <1>10. ASSUME ThreadPoolStop
         PROVE  NoStrandedWaiter'
    <2>1. Waiting(Workers)' = {} /\ Waiting(Callers)' = {}
      BY <1>10, <1>d DEF ThreadPoolStop, Waiting
    <2> QED
      BY <2>1 DEF NoStrandedWaiter
  <1>11. CASE UNCHANGED pool_vars
    BY <1>t, <1>11 DEF NoStrandedWaiter, Waiting, At, pool_vars
  <1> QED
    BY <1>1, <1>2, <1>3, <1>4, <1>7, <1>8, <1>9, <1>10, <1>11 DEF PoolNext

\* Whatever the number of threads and the size of the queue, no worker sleeps
\* beside a job nobody is about to look at, and no caller sleeps beside a free
\* place nobody is about to take: the notifications of thread_pool.cpp, sent one
\* at a time and outside the lock, are enough.
THEOREM NoThreadStranded == PoolSpec => []NoStrandedWaiter
  <1>1. PoolIInv => NoStrandedWaiter
    BY DEF PoolIInv
  <1> QED
    BY InitPoolIInv, NextPoolIInv, <1>1, PTL DEF PoolSpec

-----------------------------------------------------------------------------
(* The buffers of the logger. *)

\* Outside of flush_buf() there is nothing in next_buf_.
NothingInBetween ==
    thread \notin {"flush", "last_flush", "aborted"} => next_buf = <<>>

BufferIInv ==
    /\ cur_buf \in Seq(1..MaxLines) /\ next_buf \in Seq(1..MaxLines)
    /\ appended \in 0..MaxLines
    /\ NothingInBetween

-----------------------------------------------------------------------------
\* A new logger has two empty buffers.
LEMMA InitBufferIInv == LoggerInit => BufferIInv /\ FIFO!Init
  <1> SUFFICES ASSUME LoggerInit
               PROVE  BufferIInv /\ FIFO!Init
    OBVIOUS
  <1>1. cur_buf = <<>> /\ next_buf = <<>> /\ appended = 0 /\ last = 0
    BY DEF LoggerInit
  <1>2. BufferIInv
    BY <1>1, LoggerAssumption DEF BufferIInv, NothingInBetween
  <1> QED
    BY <1>1, <1>2 DEF FIFO!Init

\* A step that leaves the buffers alone.
LEMMA OutsideBuffers ==
    ASSUME BufferIInv, UNCHANGED <<cur_buf, next_buf, appended, last>>,
           \/ thread' = thread
           \/ next_buf = <<>>
           \/ thread' = "aborted"
    PROVE  BufferIInv' /\ UNCHANGED <<next_buf \o cur_buf, last>>
  BY DEF BufferIInv, NothingInBetween

\* A swap, when there is nothing in next_buf_, keeps the queue.
LEMMA SwapKeeps ==
    ASSUME BufferIInv, next_buf = <<>>, NEW to \in {"flush", "last_flush"}, Swap(to)
    PROVE  BufferIInv' /\ UNCHANGED <<next_buf \o cur_buf, last>>
  <1>1. /\ cur_buf' = <<>> /\ next_buf' = cur_buf /\ thread' = to
        /\ appended' = appended /\ last' = last
    BY DEF Swap
  <1>2. cur_buf \in Seq(1..MaxLines)
    BY DEF BufferIInv
  <1>3. next_buf' \o cur_buf' = next_buf \o cur_buf
    BY <1>1, <1>2, ConcatEmptySeq
  <1>4. BufferIInv'
    BY <1>1, <1>2 DEF BufferIInv, NothingInBetween
  <1> QED
    BY <1>1, <1>3, <1>4

\* A line written is taken from the queue.
LEMMA LineTaken ==
    ASSUME BufferIInv, next_buf # <<>>, next_buf' = Tail(next_buf), last' = Head(next_buf),
           UNCHANGED <<cur_buf, thread, appended>>, thread \in {"flush", "last_flush"}
    PROVE  BufferIInv' /\ FIFO!Take
  <1>1. cur_buf \in Seq(1..MaxLines) /\ next_buf \in Seq(1..MaxLines)
    BY DEF BufferIInv
  <1>2. /\ next_buf \o cur_buf # <<>> /\ Head(next_buf \o cur_buf) = Head(next_buf)
        /\ Tail(next_buf \o cur_buf) = Tail(next_buf) \o cur_buf
    BY <1>1, TakeFromFront, Zenon
  <1>3. FIFO!Take
    BY <1>2 DEF FIFO!Take
  <1>4. next_buf' \in Seq(1..MaxLines)
    BY <1>1
  <1> QED
    BY <1>1, <1>3, <1>4 DEF BufferIInv, NothingInBetween

\* A line appended is put into the queue.
LEMMA LinePut ==
    ASSUME BufferIInv, append
    PROVE  BufferIInv' /\ FIFO!Put
  <1>1. /\ appended + 1 \in 1..MaxLines /\ appended' = appended + 1
        /\ cur_buf' = Append(cur_buf, appended + 1)
        /\ UNCHANGED <<next_buf, thread, last>>
    BY LoggerAssumption DEF BufferIInv, append
  <1>2. cur_buf \in Seq(1..MaxLines) /\ next_buf \in Seq(1..MaxLines)
    BY DEF BufferIInv
  <1>3. next_buf' \o cur_buf' = Append(next_buf \o cur_buf, appended + 1)
    BY <1>1, <1>2, AppendBehind, SMTT(60)
  <1>4. cur_buf' \in Seq(1..MaxLines)
    BY <1>1, <1>2
  <1>5. FIFO!Put
    BY <1>1, <1>3, SMTT(60) DEF FIFO!Put
  <1> QED
    BY <1>1, <1>2, <1>4, <1>5 DEF BufferIInv, NothingInBetween

\* Every step of the logger is a step of the queue, or none.
LEMMA NextBufferIInv ==
    BufferIInv /\ [LoggerNext]_logger_vars
        => BufferIInv' /\ [FIFO!Put \/ FIFO!Take]_<<next_buf \o cur_buf, last>>
  <1> SUFFICES ASSUME BufferIInv, [LoggerNext]_logger_vars
               PROVE  BufferIInv' /\ [FIFO!Put \/ FIFO!Take]_<<next_buf \o cur_buf, last>>
    OBVIOUS
  <1>1. CASE append
    BY <1>1, LinePut
  <1>2. CASE ClockTick
    BY <1>2, OutsideBuffers DEF ClockTick
  <1>3. CASE start
    <2>1. next_buf = <<>>
      BY <1>3 DEF start, BufferIInv, NothingInBetween
    <2> QED
      BY <1>3, <2>1, OutsideBuffers DEF start
  <1>4. CASE loop_check \/ loop_sleep
    <2>1. next_buf = <<>>
      BY <1>4 DEF loop_check, loop_sleep, BufferIInv, NothingInBetween
    <2> QED
      BY <1>4, <2>1, OutsideBuffers DEF loop_check, loop_sleep
  <1>5. CASE loop_swap \/ loop_last
    <2>1. next_buf = <<>>
      BY <1>5 DEF loop_swap, loop_last, BufferIInv, NothingInBetween
    <2> QED
      BY <1>5, <2>1, SwapKeeps DEF loop_swap, loop_last
  <1>6. CASE flush_line \/ flush_roll
    BY <1>6, LineTaken DEF flush_line, flush_roll, Flushing
  <1>7. CASE flush_aborts
    BY <1>7, OutsideBuffers DEF flush_aborts
  <1>8. CASE flush_done
    BY <1>8, OutsideBuffers DEF flush_done
  <1>9. CASE stop_begin \/ stop_end
    BY <1>9, OutsideBuffers DEF stop_begin, stop_end
  <1>10. CASE UNCHANGED logger_vars
    BY <1>10, OutsideBuffers DEF logger_vars
  <1> QED
    BY <1>1, <1>2, <1>3, <1>4, <1>5, <1>6, <1>7, <1>8, <1>9, <1>10, Zenon
    DEF LoggerNext, backend_loop

\* Every line that is written is the oldest one not yet written, whatever the
\* number of lines, the size at which files are renamed and the moments of the
\* swaps: append(), the two swaps of backend_loop() and flush_buf() implement
\* a queue.
THEOREM LogIsQueue == LoggerSpec => LogInOrder
  <1> QED
    BY InitBufferIInv, NextBufferIInv, PTL DEF LoggerSpec, LogInOrder, FIFO!Spec

-----------------------------------------------------------------------------
(* What is in a queue, and where the lines that left it are. *)

\* The queue q holds the numbers after l up to a, in order.
Holds(q, l, a) == Len(q) = a - l /\ \A i \in 1..Len(q) : q[i] = l + i

\* The lines 1..n are kept, each in one place: in the file, on stderr, in one
\* of the renamed files, or among those that a rename() replaced.
StoredOnce(F, E, R, P, n) ==
    /\ \A x \in F : x \notin E /\ x \notin P /\ \A s \in 0..MaxSecond : x \notin R[s]
    /\ \A x \in E : x \notin P /\ \A s \in 0..MaxSecond : x \notin R[s]
    /\ \A s \in 0..MaxSecond : \A x \in R[s] : x \notin P /\ \A t \in 0..MaxSecond : x \in R[t] => s = t
    /\ \A x : x \in 1..n <=> x \in F \/ x \in E \/ x \in P \/ \E s \in 0..MaxSecond : x \in R[s]

Accounted ==
    /\ Holds(next_buf \o cur_buf, last, appended)
    /\ StoredOnce(Range(file), Range(stderr), [s \in 0..MaxSecond |-> Range(rolled[s])], replaced, last)

\* From start() until the thread has ended there is something to write to.
OutputOpen == thread \notin {"none", "exited"} => fp # "none"

\* The logger by itself.
LoggerIInv == LoggerTypeOK /\ NothingInBetween /\ OutputOpen /\ Accounted

\* The pool by itself: a job is in the queue until a worker takes it, and a
\* worker leaves when the queue is empty for good.
JobsOK ==
    /\ Holds(tasks, taken, submitted)
    /\ \A w \in Workers : job[w] # 0 => pc[w] \in {"notify", "run"}

Shutdown == {"join", "exit", "stop", "exited", "crashed"}

\* How far main() is, and what the threads do meanwhile.
PhaseOK ==
    /\ phase \in Phases
    /\ stop => phase \in Shutdown
    /\ \A w \in Workers : pc[w] = "exited" => stop /\ tasks = <<>>
    /\ phase \in {"exit", "stop", "exited"} => Joined
    /\ phase # "logger" /\ ~running => phase \in {"stop", "exited", "crashed"}
    /\ thread = "none" <=> phase = "logger"
    /\ thread \in {"last", "last_flush", "exited"} => ~running
    /\ thread \in {"last_flush", "exited"} => cur_buf = <<>>
    /\ phase = "exited" => thread = "exited"

\* What was read are integers.
CfgOK == \E f \in [IntKeys -> Ints] : \E r : cfg = [ints |-> f, routes |-> r]

ProcessIInv == PoolIInv /\ LoggerIInv /\ JobsOK /\ CfgOK /\ PhaseOK

-----------------------------------------------------------------------------
\* Taking from such a queue gives the next number.
LEMMA HoldsTake ==
    ASSUME NEW S, NEW q \in Seq(S), NEW l \in Nat, NEW a \in Nat, Holds(q, l, a), q # <<>>
    PROVE  Head(q) = l + 1 /\ Holds(Tail(q), l + 1, a)
  <1>1. Len(q) \in Nat /\ Len(q) > 0 /\ Len(Tail(q)) = Len(q) - 1
    OBVIOUS
  <1>2. Head(q) = q[1] /\ q[1] = l + 1
    BY <1>1 DEF Holds
  <1>3. \A i \in 1..Len(Tail(q)) : Tail(q)[i] = q[i + 1] /\ i + 1 \in 1..Len(q)
    BY <1>1
  <1>4. \A i \in 1..Len(Tail(q)) : Tail(q)[i] = (l + 1) + i
    BY <1>1, <1>3 DEF Holds
  <1> QED
    BY <1>1, <1>2, <1>4 DEF Holds

\* Putting the next number into it.
LEMMA HoldsPut ==
    ASSUME NEW S, NEW q \in Seq(S), NEW l \in Nat, NEW a \in Nat, a + 1 \in S, Holds(q, l, a)
    PROVE  Holds(Append(q, a + 1), l, a + 1)
  <1>1. /\ Len(q) \in Nat /\ Len(Append(q, a + 1)) = Len(q) + 1 /\ Len(q) = a - l
        /\ Append(q, a + 1)[Len(q) + 1] = a + 1
        /\ \A i \in 1..Len(q) : Append(q, a + 1)[i] = q[i]
    BY DEF Holds
  <1>2. \A i \in 1..Len(q) : Append(q, a + 1)[i] = l + i
    BY <1>1 DEF Holds
  <1>3. l + (Len(q) + 1) = a + 1
    BY <1>1
  <1>4. \A i \in 1..(Len(q) + 1) : i \in 1..Len(q) \/ i = Len(q) + 1
    BY <1>1
  <1> QED
    BY <1>1, <1>2, <1>3, <1>4 DEF Holds

\* The elements of a sequence.
LEMMA RangeOf ==
    ASSUME NEW S, NEW s \in Seq(S), NEW x \in S
    PROVE  /\ Range(Append(s, x)) = Range(s) \cup {x}
           /\ Range(<<>>) = {} /\ Range(<<x>>) = {x}
  <1>1. /\ DOMAIN Append(s, x) = 1..(Len(s) + 1) /\ DOMAIN s = 1..Len(s) /\ Len(s) \in Nat
        /\ Append(s, x)[Len(s) + 1] = x /\ \A i \in 1..Len(s) : Append(s, x)[i] = s[i]
    OBVIOUS
  <1>2. \A i : i \in 1..(Len(s) + 1) <=> i \in 1..Len(s) \/ i = Len(s) + 1
    BY <1>1
  <1>3. Range(Append(s, x)) = Range(s) \cup {x}
    BY <1>1, <1>2, Zenon DEF Range
  <1>4. Range(<<>>) = {} /\ Range(<<x>>) = {x}
    BY DEF Range
  <1> QED
    BY <1>3, <1>4

\* The next line goes to the file or to stderr.
LEMMA OneMore ==
    ASSUME NEW F, NEW E, NEW R, NEW P, NEW n \in Nat, StoredOnce(F, E, R, P, n)
    PROVE  /\ StoredOnce(F \cup {n + 1}, E, R, P, n + 1)
           /\ StoredOnce(F, E \cup {n + 1}, R, P, n + 1)
  <1>1. n + 1 \notin 1..n /\ \A x : x \in 1..(n + 1) <=> x \in 1..n \/ x = n + 1
    OBVIOUS
  <1>2. n + 1 \notin F /\ n + 1 \notin E /\ n + 1 \notin P /\ \A s \in 0..MaxSecond : n + 1 \notin R[s]
    BY <1>1, Zenon DEF StoredOnce
  <1> QED
    BY <1>1, <1>2, ZenonT(60) DEF StoredOnce

\* A rename over the file of the same second.
LEMMA Renamed ==
    ASSUME NEW F, NEW E, NEW R, NEW P, NEW n \in Nat, NEW s \in 0..MaxSecond,
           StoredOnce(F, E, R, P, n), NEW Q,
           \A t \in 0..MaxSecond : Q[t] = IF t = s THEN F ELSE R[t]
    PROVE  StoredOnce({}, E, Q, P \cup R[s], n)
  <1>1. Q[s] = F /\ \A t \in 0..MaxSecond : t # s => Q[t] = R[t]
    OBVIOUS
  <1> QED
    BY <1>1, Zenon DEF StoredOnce

-----------------------------------------------------------------------------
(* The logger by itself. *)

\* The variables of the logger keep their types.
LEMMA NextLoggerTypeOK == LoggerTypeOK /\ [LoggerNext]_logger_vars => LoggerTypeOK'
  <1> SUFFICES ASSUME LoggerTypeOK, [LoggerNext]_logger_vars
               PROVE  LoggerTypeOK'
    OBVIOUS
  <1> USE LoggerAssumption
  <1>1. CASE append
    <2>1. appended + 1 \in 1..MaxLines
      BY <1>1 DEF append, LoggerTypeOK
    <2> QED
      BY <1>1, <2>1 DEF append, LoggerTypeOK, outputs
  <1>2. CASE ClockTick
    BY <1>2 DEF ClockTick, LoggerTypeOK, outputs
  <1>3. CASE start
    BY <1>3 DEF start, open_file, LoggerTypeOK, outputs
  <1>4. CASE loop_check \/ loop_sleep \/ flush_done \/ stop_begin \/ stop_end
    BY <1>4 DEF loop_check, loop_sleep, flush_done, stop_begin, stop_end, LoggerTypeOK, outputs
  <1>5. CASE loop_swap \/ loop_last
    BY <1>5 DEF loop_swap, loop_last, Swap, LoggerTypeOK, outputs
  <1>6. ASSUME next_buf # <<>>
        PROVE  /\ Head(next_buf) \in 1..MaxLines /\ Head(next_buf) \in 0..MaxLines
               /\ Tail(next_buf) \in Seq(1..MaxLines)
               /\ Append(file, Head(next_buf)) \in Seq(1..MaxLines)
               /\ Append(stderr, Head(next_buf)) \in Seq(1..MaxLines)
               /\ <<Head(next_buf)>> \in Seq(1..MaxLines)
    BY <1>6 DEF LoggerTypeOK
  <1>7. CASE flush_line
    <2>1. /\ file' \in Seq(1..MaxLines) /\ stderr' \in Seq(1..MaxLines) /\ written_bytes' \in Nat
          /\ next_buf' \in Seq(1..MaxLines) /\ last' \in 0..MaxLines
      <3>1. written_bytes' \in Nat
        BY <1>7 DEF flush_line, LoggerTypeOK
      <3> QED
        BY <1>6, <1>7, <3>1, Zenon DEF flush_line, LoggerTypeOK
    <2>2. UNCHANGED <<running, cur_buf, thread, fp, rolled, replaced, second, appended>>
      BY <1>7 DEF flush_line
    <2> QED
      BY <2>1, <2>2, Zenon DEF LoggerTypeOK
  <1>8. /\ [rolled EXCEPT ![second] = file] \in [0..MaxSecond -> Seq(1..MaxLines)]
        /\ Range(rolled[second]) \subseteq 1..MaxLines
    BY DEF LoggerTypeOK, Range
  <1>9. CASE flush_roll
    <2>1. next_buf # <<>> /\ LineSize + 1 \in Nat /\ written_bytes + LineSize + 1 \in Nat
      BY <1>9 DEF flush_roll, LoggerTypeOK
    <2>2. /\ file' \in Seq(1..MaxLines) /\ stderr' \in Seq(1..MaxLines) /\ written_bytes' \in Nat
          /\ next_buf' \in Seq(1..MaxLines) /\ last' \in 0..MaxLines /\ fp' \in {"none", "file", "stderr"}
      <3>1. PICK left \in {<<>>, file} :
                   \/ file' = Append(left, Head(next_buf)) /\ stderr' = stderr /\ written_bytes' = LineSize + 1
                      /\ fp' = "file"
                   \/ file' = left /\ stderr' = Append(stderr, Head(next_buf)) /\ fp' = "stderr"
                      /\ written_bytes' = written_bytes + LineSize + 1
        BY <1>9, Zenon DEF flush_roll
      <3>2. left \in Seq(1..MaxLines) /\ Append(left, Head(next_buf)) \in Seq(1..MaxLines)
        BY <1>6, <2>1, EmptySeq, AppendProperties, HeadTailProperties DEF LoggerTypeOK
      <3>3. next_buf' = Tail(next_buf) /\ last' = Head(next_buf)
        BY <1>9 DEF flush_roll
      <3> QED
        BY <1>6, <2>1, <3>1, <3>2, <3>3, Zenon DEF LoggerTypeOK
    <2>3. rolled' \in [0..MaxSecond -> Seq(1..MaxLines)] /\ replaced' \subseteq 1..MaxLines
      BY <1>8, <1>9, Zenon DEF flush_roll, Rename, LoggerTypeOK
    <2>4. UNCHANGED <<running, cur_buf, thread, second, appended>>
      BY <1>9 DEF flush_roll
    <2> QED
      BY <2>2, <2>3, <2>4, Zenon DEF LoggerTypeOK
  <1>10. CASE flush_aborts
    <2>1. file' \in Seq(1..MaxLines)
      BY <1>10, EmptySeq DEF flush_aborts, LoggerTypeOK
    <2>2. rolled' \in [0..MaxSecond -> Seq(1..MaxLines)] /\ replaced' \subseteq 1..MaxLines
      BY <1>8, <1>10, Zenon DEF flush_aborts, Rename, LoggerTypeOK
    <2>3. /\ thread' = "aborted"
          /\ UNCHANGED <<running, cur_buf, next_buf, fp, written_bytes, stderr, second, appended, last>>
      BY <1>10 DEF flush_aborts
    <2> QED
      BY <2>1, <2>2, <2>3, Zenon DEF LoggerTypeOK
  <1>11. CASE UNCHANGED logger_vars
    BY <1>11 DEF logger_vars, LoggerTypeOK, outputs
  <1> QED
    BY <1>1, <1>2, <1>3, <1>4, <1>5, <1>7, <1>9, <1>10, <1>11, Zenon DEF LoggerNext, backend_loop

\* A step that writes nothing and appends nothing keeps the account.
LEMMA AccountKept ==
    ASSUME Accounted, UNCHANGED <<next_buf \o cur_buf, last, appended, file, stderr, rolled, replaced>>
    PROVE  Accounted'
  BY DEF Accounted

\* A line appended is accounted for.
LEMMA AppendAccounted ==
    ASSUME LoggerIInv, append
    PROVE  Accounted'
  <1>1. /\ appended + 1 \in 1..MaxLines /\ appended' = appended + 1
        /\ cur_buf' = Append(cur_buf, appended + 1) /\ appended \in Nat /\ last \in Nat
        /\ cur_buf \in Seq(1..MaxLines) /\ next_buf \in Seq(1..MaxLines)
        /\ UNCHANGED <<next_buf, last, file, stderr, rolled, replaced>>
    BY LoggerAssumption DEF LoggerIInv, LoggerTypeOK, append, outputs
  <1> DEFINE q == next_buf \o cur_buf
  <1>2. q \in Seq(1..MaxLines)
    BY <1>1, ConcatProperties
  <1>3. next_buf' \o cur_buf' = Append(q, appended + 1)
    BY <1>1, AppendBehind, SMTT(60)
  <1>4. Holds(q, last, appended)
    BY DEF LoggerIInv, Accounted
  <1> HIDE DEF q
  <1>5. Holds(Append(q, appended + 1), last, appended + 1)
    BY <1>1, <1>2, <1>4, HoldsPut
  <1> QED
    BY <1>1, <1>3, <1>5 DEF LoggerIInv, Accounted

\* Whether rename() fails or not, every line is stored once, but for those of a
\* file that was replaced.
LEMMA RenameAccounted ==
    ASSUME LoggerIInv, NEW left \in {<<>>, file}, Rename(left)
    PROVE  StoredOnce(Range(left), Range(stderr), [s \in 0..MaxSecond |-> Range(rolled'[s])], replaced', last)
  <1>1. /\ file \in Seq(1..MaxLines) /\ last \in Nat /\ second \in 0..MaxSecond
        /\ rolled \in [0..MaxSecond -> Seq(1..MaxLines)]
    BY LoggerAssumption DEF LoggerIInv, LoggerTypeOK
  <1> DEFINE R == [s \in 0..MaxSecond |-> Range(rolled[s])]
             Q == [s \in 0..MaxSecond |-> Range(rolled'[s])]
             P == replaced \cup R[second]
  <1>2. StoredOnce(Range(file), Range(stderr), R, replaced, last)
    BY DEF LoggerIInv, Accounted
  <1>3. CASE /\ rolled' = [rolled EXCEPT ![second] = file] /\ left = <<>>
             /\ replaced' = replaced \cup Range(rolled[second])
    <2>1. \A t \in 0..MaxSecond : Q[t] = IF t = second THEN Range(file) ELSE R[t]
      BY <1>1, <1>3
    <2>2. replaced' = P /\ Range(left) = {}
      BY <1>1, <1>3 DEF Range
    <2> HIDE DEF R, Q, P
    <2>3. StoredOnce({}, Range(stderr), Q, P, last)
      BY <1>1, <1>2, <2>1, Renamed DEF P
    <2> QED
      BY <2>2, <2>3 DEF Q
  <1>4. CASE left = file /\ UNCHANGED <<rolled, replaced>>
    <2>1. Q = R
      BY <1>4
    <2> HIDE DEF R, Q
    <2> QED
      BY <1>2, <1>4, <2>1 DEF Q
  <1> QED
    BY <1>3, <1>4 DEF Rename

\* A line that goes to the file or to stderr, after a rename() or without.
LEMMA WriteAccounted ==
    ASSUME LoggerIInv, flush_line \/ flush_roll
    PROVE  Accounted'
  <1>1. /\ cur_buf \in Seq(1..MaxLines) /\ next_buf \in Seq(1..MaxLines)
        /\ file \in Seq(1..MaxLines) /\ stderr \in Seq(1..MaxLines)
        /\ rolled \in [0..MaxSecond -> Seq(1..MaxLines)] /\ second \in 0..MaxSecond
        /\ last \in Nat /\ appended \in Nat /\ fp \in {"file", "stderr"}
    BY LoggerAssumption DEF LoggerIInv, LoggerTypeOK, OutputOpen, flush_line, flush_roll, Flushing
  <1> DEFINE q == next_buf \o cur_buf
             R == [s \in 0..MaxSecond |-> Range(rolled[s])]
  <1>2. /\ next_buf # <<>> /\ next_buf' = Tail(next_buf) /\ last' = Head(next_buf)
        /\ UNCHANGED <<cur_buf, appended>>
    BY DEF flush_line, flush_roll
  <1>3. q # <<>> /\ Head(q) = last' /\ next_buf' \o cur_buf' = Tail(q)
    BY <1>1, <1>2, TakeFromFront, Zenon
  <1>4. q \in Seq(1..MaxLines) /\ Head(next_buf) \in 1..MaxLines
    <2>1. q \in Seq(1..MaxLines)
      BY <1>1, ConcatProperties, Zenon
    <2>2. Head(next_buf) \in 1..MaxLines
      BY <1>1, <1>2, HeadTailProperties, Zenon
    <2> QED
      BY <2>1, <2>2
  <1>5. Holds(q, last, appended) /\ StoredOnce(Range(file), Range(stderr), R, replaced, last)
    BY DEF LoggerIInv, Accounted
  <1> HIDE DEF q
  <1>6. last' = last + 1 /\ Holds(Tail(q), last + 1, appended)
    BY <1>1, <1>3, <1>4, <1>5, HoldsTake
  <1>7. Holds((next_buf \o cur_buf)', last', appended')
    BY <1>2, <1>3, <1>6
  <1>8. /\ Range(Append(file, last + 1)) = Range(file) \cup {last + 1}
        /\ Range(Append(stderr, last + 1)) = Range(stderr) \cup {last + 1}
        /\ Range(Append(<<>>, last + 1)) = Range(<<>>) \cup {last + 1}
    BY <1>1, <1>2, <1>4, <1>6, EmptySeq, RangeOf
  <1>9. StoredOnce(Range(file), Range(stderr), R, replaced, last)'
    <2>1. CASE flush_line
      <3>1. /\ rolled' = rolled /\ replaced' = replaced
            /\ \/ Range(file') = Range(file) \cup {last + 1} /\ Range(stderr') = Range(stderr)
               \/ Range(file') = Range(file) /\ Range(stderr') = Range(stderr) \cup {last + 1}
        BY <1>1, <1>2, <1>6, <1>8, <2>1 DEF flush_line
      <3> HIDE DEF R
      <3>2. R' = R
        BY <3>1 DEF R
      <3>3. /\ StoredOnce(Range(file) \cup {last + 1}, Range(stderr), R, replaced, last + 1)
            /\ StoredOnce(Range(file), Range(stderr) \cup {last + 1}, R, replaced, last + 1)
        BY <1>1, <1>5, OneMore
      <3> QED
        BY <1>6, <3>1, <3>2, <3>3
    <2>2. CASE flush_roll
      <3>1. PICK left \in {<<>>, file} :
                   /\ Rename(left)
                   /\ \/ file' = Append(left, last + 1) /\ stderr' = stderr
                      \/ file' = left /\ stderr' = Append(stderr, last + 1)
        BY <1>2, <1>6, <2>2, Zenon DEF flush_roll
      <3> DEFINE L == Range(left)
      <3>2. /\ \/ Range(file') = L \cup {last + 1} /\ Range(stderr') = Range(stderr)
               \/ Range(file') = L /\ Range(stderr') = Range(stderr) \cup {last + 1}
        BY <1>8, <3>1
      <3>3. StoredOnce(L, Range(stderr), R', replaced', last)
        BY <3>1, RenameAccounted
      <3> HIDE DEF R, L
      <3>4. /\ StoredOnce(L \cup {last + 1}, Range(stderr), R', replaced', last + 1)
            /\ StoredOnce(L, Range(stderr) \cup {last + 1}, R', replaced', last + 1)
        BY <1>1, <3>3, OneMore
      <3> QED
        BY <1>6, <3>2, <3>4
    <2> QED
      BY <2>1, <2>2
  <1> QED
    BY <1>7, <1>9 DEF Accounted

\* A rename() before the process is aborted.
LEMMA AbortAccounted ==
    ASSUME LoggerIInv, flush_aborts
    PROVE  Accounted'
  <1>1. PICK left \in {<<>>, file} : Rename(left) /\ file' = left
    BY Zenon DEF flush_aborts
  <1>2. UNCHANGED <<cur_buf, next_buf, stderr, appended, last>>
    BY DEF flush_aborts
  <1>3. StoredOnce(Range(left), Range(stderr), [s \in 0..MaxSecond |-> Range(rolled'[s])], replaced', last)
    BY <1>1, RenameAccounted
  <1>4. Holds(next_buf \o cur_buf, last, appended)
    BY DEF LoggerIInv, Accounted
  <1> QED
    BY <1>1, <1>2, <1>3, <1>4 DEF Accounted

\* A new logger has no lines.
LEMMA InitLoggerIInv == LoggerInit => LoggerIInv
  <1> SUFFICES ASSUME LoggerInit
               PROVE  LoggerIInv
    OBVIOUS
  <1>1. LoggerTypeOK
    <2>1. <<>> \in Seq(1..MaxLines)
      BY EmptySeq
    <2> QED
      BY <2>1, LoggerAssumption DEF LoggerInit, LoggerTypeOK
  <1>2. NothingInBetween /\ OutputOpen
    BY DEF LoggerInit, NothingInBetween, OutputOpen
  <1>3. Holds(next_buf \o cur_buf, last, appended)
    <2>1. next_buf \o cur_buf = <<>> /\ last = 0 /\ appended = 0
      BY DEF LoggerInit
    <2> QED
      BY <2>1 DEF Holds
  <1>4. Range(file) = {} /\ Range(stderr) = {} /\ \A s \in 0..MaxSecond : Range(rolled[s]) = {}
    BY DEF LoggerInit, Range
  <1>5. replaced = {} /\ \A x : x \notin 1..last
    BY DEF LoggerInit
  <1>6. StoredOnce(Range(file), Range(stderr), [s \in 0..MaxSecond |-> Range(rolled[s])], replaced, last)
    BY <1>4, <1>5, Zenon DEF StoredOnce
  <1> QED
    BY <1>1, <1>2, <1>3, <1>6 DEF LoggerIInv, Accounted

\* Every step of the logger keeps its invariant.
LEMMA NextLoggerIInv == LoggerIInv /\ [LoggerNext]_logger_vars => LoggerIInv'
  <1> SUFFICES ASSUME LoggerIInv, [LoggerNext]_logger_vars
               PROVE  LoggerIInv'
    OBVIOUS
  <1>1. LoggerTypeOK'
    BY NextLoggerTypeOK DEF LoggerIInv
  <1>2. BufferIInv /\ OutputOpen /\ Accounted /\ LoggerTypeOK
    BY DEF LoggerIInv, LoggerTypeOK, BufferIInv
  <1>3. NothingInBetween'
    <2>1. BufferIInv'
      BY <1>2, NextBufferIInv
    <2> QED
      BY <2>1 DEF BufferIInv
  <1>4. OutputOpen'
    <2> USE <1>2 DEF OutputOpen
    <2>1. CASE append \/ ClockTick \/ stop_begin \/ stop_end \/ UNCHANGED logger_vars
      BY <2>1 DEF append, ClockTick, stop_begin, stop_end, logger_vars, outputs
    <2>2. CASE start
      BY <2>2 DEF start, open_file
    <2>3. CASE loop_check \/ loop_sleep \/ loop_swap \/ loop_last
      BY <2>3 DEF loop_check, loop_sleep, loop_swap, loop_last, Swap, outputs
    <2>4. CASE flush_line \/ flush_roll \/ flush_aborts \/ flush_done
      BY <2>4 DEF flush_line, flush_roll, flush_aborts, flush_done, Flushing, outputs
    <2> QED
      BY <2>1, <2>2, <2>3, <2>4, Zenon DEF LoggerNext, backend_loop
  <1>5. Accounted'
    <2>1. CASE append
      BY <2>1, AppendAccounted
    <2>2. CASE flush_line \/ flush_roll
      BY <2>2, WriteAccounted
    <2>3. CASE flush_aborts
      BY <2>3, AbortAccounted
    <2>4. CASE loop_swap \/ loop_last
      <3>1. PICK to \in {"flush", "last_flush"} : Swap(to)
        BY <2>4 DEF loop_swap, loop_last
      <3>2. next_buf = <<>>
        BY <1>2, <2>4 DEF loop_swap, loop_last, BufferIInv, NothingInBetween
      <3>3. UNCHANGED <<next_buf \o cur_buf, last>>
        BY <1>2, <3>1, <3>2, SwapKeeps
      <3>4. UNCHANGED <<appended, file, stderr, rolled, replaced>>
        BY <3>1 DEF Swap, outputs
      <3> QED
        BY <1>2, <3>3, <3>4, AccountKept
    <2>5. CASE ClockTick \/ start \/ loop_check \/ loop_sleep \/ flush_done \/ stop_begin \/ stop_end
                 \/ UNCHANGED logger_vars
      <3>1. UNCHANGED <<next_buf, cur_buf, last, appended, file, stderr, rolled, replaced>>
        BY <2>5 DEF ClockTick, start, loop_check, loop_sleep, flush_done, stop_begin, stop_end,
                    logger_vars, outputs
      <3> QED
        BY <1>2, <3>1, AccountKept
    <2> QED
      BY <2>1, <2>2, <2>3, <2>4, <2>5, Zenon DEF LoggerNext, backend_loop
  <1> QED
    BY <1>1, <1>3, <1>4, <1>5 DEF LoggerIInv

-----------------------------------------------------------------------------
(* The jobs of the pool. *)

\* A new pool has no jobs.
LEMMA InitJobsOK == PoolInit => JobsOK
  BY DEF PoolInit, JobsOK, Holds

\* Every step of the pool keeps the numbers of its jobs in order.
LEMMA NextJobsOK == PoolTypeOK /\ JobsOK /\ [PoolNext]_pool_vars => JobsOK'
  <1> SUFFICES ASSUME PoolTypeOK, JobsOK, [PoolNext]_pool_vars
               PROVE  JobsOK'
    OBVIOUS
  <1>1. /\ tasks \in Seq(1..MaxJobs) /\ taken \in Nat /\ submitted \in Nat
        /\ pc \in [Workers \cup Callers -> WorkerControl \cup CallerControl]
        /\ job \in [Workers -> 0..MaxJobs] /\ Workers \cap Callers = {}
    BY PoolAssumption DEF PoolTypeOK
  <1>2. Holds(tasks, taken, submitted) /\ \A w \in Workers : job[w] # 0 => pc[w] \in {"notify", "run"}
    BY DEF JobsOK
  <1>3. ASSUME UNCHANGED <<tasks, taken, submitted, job>>,
               \A w \in Workers : pc[w] \in {"notify", "run"} => pc'[w] \in {"notify", "run"}
        PROVE  JobsOK'
    BY <1>2, <1>3 DEF JobsOK
  <1>4. ASSUME NEW started \in SUBSET Workers, NEW size \in Nat, ThreadPoolCreate(started, size)
        PROVE  JobsOK'
    <2>1. \A w \in Workers : pc[w] = "none"
      BY <1>4 DEF ThreadPoolCreate
    <2> QED
      BY <1>3, <1>4, <2>1 DEF ThreadPoolCreate, history
  <1>5. ASSUME NEW w \in Workers, worker_lock(w)
        PROVE  JobsOK'
    <2>1. pc[w] = "lock" /\ \A v \in Workers : v # w => pc'[v] = pc[v]
      BY <1>1, <1>5 DEF worker_lock, Goto
    <2>2. CASE tasks = <<>>
      BY <1>3, <1>5, <2>1, <2>2 DEF worker_lock
    <2>3. CASE tasks # <<>>
      <3>1. /\ tasks' = Tail(tasks) /\ taken' = Head(tasks) /\ submitted' = submitted
            /\ pc'[w] = "notify" /\ \A v \in Workers : v # w => job'[v] = job[v]
        BY <1>1, <1>5, <2>3 DEF worker_lock, Goto
      <3>2. Holds(tasks', taken', submitted')
        BY <1>1, <1>2, <2>3, <3>1, HoldsTake
      <3> QED
        BY <1>2, <2>1, <3>1, <3>2 DEF JobsOK
    <2> QED
      BY <2>2, <2>3
  <1>6. ASSUME NEW w \in Workers, job_ends(w)
        PROVE  JobsOK'
    <2>1. /\ UNCHANGED <<tasks, taken, submitted>> /\ job'[w] = 0
          /\ \A v \in Workers : v # w => job'[v] = job[v] /\ pc'[v] = pc[v]
      BY <1>1, <1>6 DEF job_ends, Goto, history
    <2> QED
      BY <1>2, <2>1 DEF JobsOK
  <1>7. ASSUME NEW t \in Workers \cup Callers, NEW S, NEW to,
               NotifyOne(t, Waiting(S), to), t \in Workers => to \in {"notify", "run"},
               UNCHANGED <<tasks, taken, submitted, job>>
        PROVE  JobsOK'
    <2>1. \A w \in Workers : pc[w] \in {"notify", "run"} => pc'[w] \in {"notify", "run"}
      BY <1>1, <1>7 DEF NotifyOne, Waiting
    <2> QED
      BY <1>3, <1>7, <2>1
  <1>8. ASSUME NEW w \in Workers, worker_notify(w)
        PROVE  JobsOK'
    BY <1>7, <1>8 DEF worker_notify, history
  <1>9. ASSUME NEW c \in Callers, submit_notify(c)
        PROVE  JobsOK'
    BY <1>1, <1>7, <1>9 DEF submit_notify, history
  <1>10. ASSUME NEW c \in Callers, NEW from, Push(c, from)
         PROVE  JobsOK'
    <2>1. /\ submitted + 1 \in 1..MaxJobs /\ submitted' = submitted + 1
          /\ tasks' = Append(tasks, submitted + 1) /\ UNCHANGED <<taken, job>>
      BY <1>1, <1>10, PoolAssumption DEF Push
    <2>2. Holds(tasks', taken', submitted')
      BY <1>1, <1>2, <2>1, HoldsPut
    <2>3. \A w \in Workers : pc'[w] = pc[w]
      BY <1>1, <1>10 DEF Push, Goto
    <2> QED
      BY <1>2, <2>1, <2>2, <2>3 DEF JobsOK
  <1>11. ASSUME NEW c \in Callers, submit(c) \/ try_submit(c) \/ enqueue(c)
         PROVE  JobsOK'
    <2>1. CASE \E from : Push(c, from)
      BY <1>10, <2>1
    <2>2. CASE UNCHANGED <<tasks, stop, max_queue_size, job, history>> /\ Goto(c, pc[c], "wait")
      <3>1. \A w \in Workers : pc'[w] = pc[w]
        BY <1>1, <2>2 DEF Goto
      <3> QED
        BY <1>3, <2>2, <3>1 DEF history
    <2> QED
      BY <1>11, <2>1, <2>2, Zenon DEF submit, try_submit, enqueue
  <1>12. CASE ThreadPoolStop
    <2>1. \A w \in Workers : pc[w] \in {"notify", "run"} => pc'[w] = pc[w]
      BY <1>1, <1>12 DEF ThreadPoolStop, Waiting
    <2> QED
      BY <1>3, <1>12, <2>1 DEF ThreadPoolStop, history
  <1>13. CASE UNCHANGED pool_vars
    BY <1>3, <1>13 DEF pool_vars, history
  <1> QED
    BY <1>4, <1>5, <1>6, <1>8, <1>9, <1>11, <1>12, <1>13, Zenon DEF PoolNext

-----------------------------------------------------------------------------
(* The process. *)

\* The cast to int gives an int.
LEMMA ReadIntOK ==
    ASSUME NEW token, NEW default \in Ints
    PROVE  read_int(token, default) \in Ints
  <1> DEFINE half == 2 ^ (IntBits - 1)
             long == -(2 ^ (LongBits - 1)) .. (2 ^ (LongBits - 1) - 1)
  <1>1. half \in Nat /\ half > 0 /\ Ints = -half .. (half - 1)
    BY LoaderAssumption DEF Ints
  <1>2. read_int(token, default) =
          IF token.type = "Number" /\ token.num \in long
          THEN ((token.num + half) % (2 * half)) - half
          ELSE default
    BY DEF read_int
  <1>3. \A x \in long : x \in Int
    OBVIOUS
  <1> HIDE DEF half, long
  <1>4. \A x \in Int : (x + half) % (2 * half) \in 0..(2 * half - 1)
    BY <1>1
  <1>5. \A y \in 0..(2 * half - 1) : y - half \in Ints
    BY <1>1
  <1> QED
    BY <1>2, <1>3, <1>4, <1>5

\* A size_t is a number, and a thread_count within the workers starts some of them.
LEMMA SizesOK ==
    ASSUME CfgOK
    PROVE  /\ \A k \in IntKeys : cfg.ints[k] \in Ints /\ to_size(cfg.ints[k]) \in Nat
           /\ Threads \in Nat
           /\ Threads <= Cardinality(Workers) => 1..Threads \in SUBSET Workers
  <1>1. \A k \in IntKeys : cfg.ints[k] \in Ints
    BY DEF CfgOK
  <1>2. \A n \in Ints : to_size(n) \in Nat
    BY LoaderAssumption DEF Ints, to_size
  <1>3. "thread_count" \in IntKeys
    BY ProcessAssumption
  <1>4. Threads \in Nat
    BY <1>1, <1>2, <1>3 DEF Threads
  <1>5. Workers = 1..Cardinality(Workers) /\ Cardinality(Workers) \in Nat
    <2>1. IsFiniteSet(Workers)
      <3>1. Workers \subseteq Workers \cup Callers /\ IsFiniteSet(Workers \cup Callers)
        BY PoolAssumption
      <3> QED
        BY <3>1, FS_Subset
    <2> QED
      BY <2>1, FS_CardinalityType, ProcessAssumption
  <1> DEFINE n == Cardinality(Workers)
             m == Threads
  <1>6. Workers = 1..n /\ n \in Nat /\ m \in Nat
    BY <1>4, <1>5
  <1> HIDE DEF n, m
  <1>7. m <= n => 1..m \subseteq 1..n
    BY <1>6
  <1>8. m <= n => 1..m \in SUBSET Workers
    BY <1>6, <1>7, Zenon
  <1> QED
    BY <1>1, <1>2, <1>4, <1>8 DEF n, m

\* Whatever the file holds, what the loader reads from it are integers.
LEMMA LoaderKeepsCfg ==
    ASSUME CfgOK, parse_config
    PROVE  CfgOK'
  <1>1. PICK f \in [IntKeys -> Ints] : \E r : cfg = [ints |-> f, routes |-> r]
    BY DEF CfgOK
  <1>2. PICK r : cfg = [ints |-> f, routes |-> r]
    BY <1>1
  <1>3. CASE cfg' = cfg
    BY <1>3 DEF CfgOK
  <1>4. CASE read_value
    <2>1. CASE level = "root"
      <3>1. key \in IntKeys
        BY <1>4, <2>1 DEF read_value, Known
      <3> DEFINE v == read_int(parser.current, f[key])
      <3>2. v \in Ints
        BY <3>1, ReadIntOK
      <3>3. cfg' = [cfg EXCEPT !.ints[key] = read_int(parser.current, @)]
        BY <1>4, <2>1 DEF read_value
      <3> HIDE DEF v
      <3>4. cfg' = [ints |-> [f EXCEPT ![key] = v], routes |-> r]
        BY <1>2, <3>1, <3>3 DEF v
      <3>5. [f EXCEPT ![key] = v] \in [IntKeys -> Ints]
        BY <3>1, <3>2
      <3> QED
        BY <3>4, <3>5, Zenon DEF CfgOK
    <2>2. CASE level # "root"
      BY <1>3, <1>4, <2>2 DEF read_value
    <2> QED
      BY <2>1, <2>2
  <1>5. CASE end_route
    <2>1. cfg' = cfg \/ cfg' = [cfg EXCEPT !.routes = Append(@, route)]
      BY <1>5 DEF end_route
    <2>2. cfg' = [cfg EXCEPT !.routes = Append(@, route)] => cfg' = [ints |-> f, routes |-> Append(r, route)]
      BY <1>2
    <2> QED
      BY <1>3, <2>1, <2>2, Zenon DEF CfgOK
  <1>6. CASE \/ load_json \/ read_key \/ enter_array \/ skip_value \/ skip_turn
             \/ enter_element \/ leave_array \/ end_backend \/ end_root
    <2>1. cfg' = cfg
      BY <1>6, Zenon DEF load_json, read_key, enter_array, skip_value, skip_turn, enter_element, leave_array,
                  end_backend, end_root
    <2> QED
      BY <1>3, <2>1
  <1> QED
    BY <1>4, <1>5, <1>6, Zenon DEF parse_config

\* Every step of the process is one of its pool, or leaves the pool alone.
LEMMA PoolStep ==
    ASSUME CfgOK, [Next]_vars
    PROVE  [PoolNext]_pool_vars
  <1>1. CASE run
    <2>1. 1..Threads \in SUBSET Workers /\ to_size(cfg.ints["max_queue_size"]) \in Nat
      BY <1>1, SizesOK, ProcessAssumption DEF run
    <2>2. ThreadPoolCreate(1..Threads, to_size(cfg.ints["max_queue_size"]))
      BY <1>1 DEF run
    <2> QED
      BY <2>1, <2>2, Zenon DEF PoolNext
  <1>2. ASSUME NEW c \in Callers, submit_job(c) \/ submit_returns(c)
        PROVE  PoolNext
    BY <1>2, Zenon DEF PoolNext, submit_job, submit_returns
  <1>3. ASSUME NEW w \in Workers, worker(w)
        PROVE  PoolNext
    BY <1>3, Zenon DEF PoolNext, worker
  <1>4. CASE destroy
    BY <1>4 DEF PoolNext, destroy
  <1>5. ASSUME NEW w \in Workers, worker_crashes(w)
        PROVE  UNCHANGED pool_vars
    BY <1>5 DEF worker_crashes
  <1>6. CASE \/ set_async_logger \/ load \/ configure \/ construct \/ run_fails \/ run_crashes
             \/ join \/ exit \/ exit_done \/ load_not \/ loop_returns \/ log_thread \/ clock
    BY <1>6, Zenon DEF set_async_logger, load, configure, construct, run_fails, run_crashes, join, exit,
                exit_done, load_not, loop_returns, log_thread, clock
  <1>7. CASE UNCHANGED vars
    BY <1>7 DEF vars
  <1> QED
    BY <1>1, <1>2, <1>3, <1>4, <1>5, <1>6, <1>7, Zenon DEF Next, main

\* Every step of the process is one of its logger, or leaves the logger alone.
LEMMA LoggerStep ==
    ASSUME [Next]_vars
    PROVE  [LoggerNext]_logger_vars
  <1>1. CASE run \/ configure \/ construct \/ run_fails
    BY <1>1, Zenon DEF run, configure, construct, run_fails, LoggerNext
  <1>2. CASE set_async_logger \/ exit \/ exit_done \/ log_thread \/ clock
    BY <1>2, Zenon DEF set_async_logger, exit, exit_done, log_thread, clock, LoggerNext
  <1>3. ASSUME NEW w \in Workers, worker(w)
        PROVE  [LoggerNext]_logger_vars
    BY <1>3, Zenon DEF worker, LoggerNext
  <1>4. CASE load \/ run_crashes \/ destroy \/ join \/ load_not \/ loop_returns
    BY <1>4, Zenon DEF load, run_crashes, destroy, join, load_not, loop_returns
  <1>5. ASSUME NEW c \in Callers, submit_job(c) \/ submit_returns(c)
        PROVE  UNCHANGED logger_vars
    BY <1>5, Zenon DEF submit_job, submit_returns
  <1>6. ASSUME NEW w \in Workers, worker_crashes(w)
        PROVE  UNCHANGED logger_vars
    BY <1>6 DEF worker_crashes
  <1>7. CASE UNCHANGED vars
    BY <1>7 DEF vars
  <1> QED
    BY <1>1, <1>2, <1>3, <1>4, <1>5, <1>6, <1>7, Zenon DEF Next, main

\* The configuration keeps its shape.
LEMMA NextCfgOK ==
    ASSUME CfgOK, [Next]_vars
    PROVE  CfgOK'
  <1>1. CASE load
    BY <1>1, LoaderKeepsCfg DEF load
  <1>2. CASE configure
    <2>1. PICK f \in [IntKeys -> Ints] :
            \/ cfg' = [ints |-> f, routes |-> <<>>]
            \/ \E n \in ThreadOptions : cfg' = [ints |-> [f EXCEPT !["thread_count"] = n], routes |-> <<>>]
      <3> DEFINE f == IF at = "loaded" THEN cfg.ints ELSE Default
      <3>1. f \in [IntKeys -> Ints]
        BY ProcessAssumption DEF CfgOK
      <3> QED
        BY <1>2, <3>1, Zenon DEF configure
    <2>2. ASSUME NEW n \in ThreadOptions
          PROVE  [f EXCEPT !["thread_count"] = n] \in [IntKeys -> Ints]
      BY ProcessAssumption
    <2> QED
      BY <2>1, <2>2, Zenon DEF CfgOK
  <1>3. CASE cfg' = cfg
    BY <1>3 DEF CfgOK
  <1>4. CASE \/ set_async_logger \/ construct \/ run_fails \/ run_crashes \/ run \/ destroy \/ join \/ exit
             \/ exit_done \/ loop_returns \/ log_thread \/ clock
    BY <1>3, <1>4, Zenon DEF set_async_logger, construct, run_fails, run_crashes, run, destroy, join, exit,
                      exit_done, loop_returns, log_thread, clock, loader_vars
  <1>5. CASE load_not
    BY <1>3, <1>5, Zenon DEF load_not, load_fails
  <1>6. ASSUME NEW c \in Callers, submit_job(c) \/ submit_returns(c)
        PROVE  cfg' = cfg
    BY <1>6, Zenon DEF submit_job, submit_returns, loader_vars
  <1>7. ASSUME NEW w \in Workers, worker(w) \/ worker_crashes(w)
        PROVE  cfg' = cfg
    BY <1>7, Zenon DEF worker, worker_crashes, loader_vars
  <1>8. CASE UNCHANGED vars
    BY <1>3, <1>8 DEF vars, loader_vars
  <1> QED
    BY <1>1, <1>2, <1>3, <1>4, <1>5, <1>6, <1>7, <1>8, Zenon DEF Next, main

\* A step of main() that leaves pool and logger alone.
LEMMA MainAlone ==
    ASSUME PhaseOK, UNCHANGED <<pool_vars, logger_vars>>,
           \/ phase' = phase
           \/ phase = "run" /\ phase' = "crashed"
           \/ phase = "loop" /\ phase' = "destroy"
           \/ phase \in {"destroy", "join"} /\ phase' = "crashed"
           \/ phase = "join" /\ phase' = "exit" /\ Joined
    PROVE  PhaseOK'
  BY DEF PhaseOK, Phases, Shutdown, Joined, pool_vars, logger_vars

\* A line that is logged while main() is in "load", "construct" or "run".
LEMMA MainLogs ==
    ASSUME PhaseOK, append, phase \in {"load", "construct", "run"},
           phase' \in {"construct", "run", "destroy", "loop"},
           UNCHANGED <<tasks, stop>>,
           UNCHANGED pc \/ \A w \in Workers : pc'[w] # "exited"
    PROVE  PhaseOK'
  <1>1. UNCHANGED <<running, thread>> /\ running
    BY DEF append, PhaseOK
  <1>2. thread \notin {"last", "last_flush", "exited", "none"} /\ ~stop
    BY <1>1 DEF PhaseOK, Shutdown
  <1> QED
    BY <1>1, <1>2 DEF PhaseOK, Phases

\* A step in the pool while main() is in the loop: nobody has left.
LEMMA LoopStep ==
    ASSUME PhaseOK, phase = "loop", phase' = "loop", UNCHANGED <<stop, logger_vars>>,
           \A w \in Workers : pc'[w] = "exited" => pc[w] = "exited"
    PROVE  PhaseOK'
  <1>1. ~stop /\ \A w \in Workers : pc'[w] # "exited"
    BY DEF PhaseOK, Shutdown
  <1> QED
    BY <1>1 DEF PhaseOK, Phases, logger_vars

\* The steps of a worker.
LEMMA WorkerPhaseOK ==
    ASSUME PhaseOK, PoolTypeOK, NEW w \in Workers, worker(w)
    PROVE  PhaseOK'
  <1>1. pc \in [Workers \cup Callers -> WorkerControl \cup CallerControl] /\ Workers \cap Callers = {}
    BY PoolAssumption DEF PoolTypeOK
  <1>2. phase' = phase /\ phase # "crashed" /\ pc[w] \in {"lock", "notify", "run"}
    BY DEF worker, worker_lock, worker_notify, job_ends, Goto
  <1>3. phase \notin {"exit", "stop", "exited"}
    BY <1>2 DEF PhaseOK, Joined
  <1>4. stop' = stop
    BY DEF worker, worker_lock, worker_notify, job_ends
  <1>5. \A v \in Workers : pc'[v] = "exited" => stop' /\ tasks' = <<>>
    <2>1. CASE worker_lock(w)
      BY <1>1, <2>1, Zenon DEF worker_lock, Goto, PhaseOK
    <2>2. CASE worker_notify(w)
      <3>1. \A v \in Workers : pc'[v] = "exited" => pc[v] = "exited"
        BY <1>1, <2>2 DEF worker_notify, NotifyOne, Waiting
      <3>2. tasks' = tasks
        BY <2>2 DEF worker_notify
      <3> QED
        BY <1>4, <3>1, <3>2 DEF PhaseOK
    <2>3. CASE job_ends(w)
      <3>1. \A v \in Workers : pc'[v] = "exited" => pc[v] = "exited"
        BY <1>1, <2>3 DEF job_ends, Goto
      <3>2. tasks' = tasks
        BY <2>3 DEF job_ends
      <3> QED
        BY <1>4, <3>1, <3>2 DEF PhaseOK
    <2> QED
      BY <2>1, <2>2, <2>3, Zenon DEF worker
  <1>6. /\ UNCHANGED <<running, thread>>
        /\ cur_buf' = cur_buf \/ thread \notin {"last_flush", "exited"}
    <2>1. CASE UNCHANGED logger_vars
      BY <2>1 DEF logger_vars
    <2>2. CASE append
      <3>1. thread \in {"last_flush", "exited"} => phase \in {"stop", "exited", "crashed"}
        BY DEF PhaseOK
      <3> QED
        BY <1>2, <1>3, <2>2, <3>1 DEF append
    <2> QED
      BY <2>1, <2>2, Zenon DEF worker
  <1> QED
    BY <1>2, <1>3, <1>4, <1>5, <1>6 DEF PhaseOK

\* The steps of the logger's thread.
LEMMA LogThreadPhaseOK ==
    ASSUME PhaseOK, NothingInBetween, log_thread
    PROVE  PhaseOK'
  <1>1. backend_loop /\ phase # "crashed" /\ UNCHANGED pool_vars
    BY DEF log_thread
  <1>2. thread \notin {"none", "exited", "aborted"} /\ thread' # "none" /\ running' = running
    BY <1>1 DEF backend_loop, loop_check, loop_sleep, loop_swap, loop_last, Swap, flush_line, flush_roll,
                flush_aborts, flush_done, Flushing
  <1>3. phase # "logger" /\ phase # "exited"
    BY <1>2 DEF PhaseOK
  <1>4. thread' \in {"last", "last_flush", "exited"} => ~running
    BY <1>1 DEF backend_loop, loop_check, loop_sleep, loop_swap, loop_last, Swap, flush_line, flush_roll,
                flush_aborts, flush_done, Flushing, PhaseOK
  <1>5. thread' \in {"last_flush", "exited"} => cur_buf' = <<>>
    <2>1. CASE loop_last
      BY <2>1 DEF loop_last, Swap, NothingInBetween
    <2>2. CASE loop_check \/ loop_sleep \/ loop_swap \/ flush_aborts
      BY <2>2 DEF loop_check, loop_sleep, loop_swap, Swap, flush_aborts
    <2>3. CASE flush_line \/ flush_roll \/ flush_done
      BY <2>3 DEF flush_line, flush_roll, flush_done, Flushing, PhaseOK
    <2> QED
      BY <1>1, <2>1, <2>2, <2>3 DEF backend_loop
  <1>6. /\ phase' = phase \/ phase' = "crashed"
        /\ UNCHANGED <<stop, pc, tasks>>
    BY <1>1 DEF log_thread, pool_vars
  <1> QED
    BY <1>2, <1>3, <1>4, <1>5, <1>6 DEF PhaseOK, Phases, Shutdown, Joined

\* Every step of the process keeps PhaseOK.
LEMMA NextPhaseOK ==
    ASSUME PhaseOK, PoolTypeOK, NothingInBetween, [Next]_vars
    PROVE  PhaseOK'
  <1>1. pc \in [Workers \cup Callers -> WorkerControl \cup CallerControl] /\ Workers \cap Callers = {}
    BY PoolAssumption DEF PoolTypeOK
  <1>2. CASE set_async_logger
    BY <1>2 DEF set_async_logger, Main, start, PhaseOK, Phases, Shutdown, Joined, pool_vars
  <1>3. CASE load \/ load_not \/ run_crashes \/ loop_returns \/ join
    BY <1>3, MainAlone, Zenon DEF load, load_not, run_crashes, loop_returns, join, Main
  <1>4. CASE configure \/ construct \/ run_fails
    <2>1. /\ append /\ phase \in {"load", "construct", "run"} /\ phase' \in {"construct", "run", "destroy"}
          /\ UNCHANGED pool_vars
      BY <1>4, Zenon DEF configure, construct, run_fails, Main
    <2> QED
      BY <2>1, MainLogs DEF pool_vars
  <1>5. CASE run
    <2>1. append /\ phase = "run" /\ phase' = "loop" /\ UNCHANGED <<tasks, stop>>
      BY <1>5 DEF run, Main, ThreadPoolCreate
    <2>2. \A w \in Workers : pc'[w] # "exited"
      BY <1>1, <1>5 DEF run, ThreadPoolCreate
    <2> QED
      BY <2>1, <2>2, MainLogs
  <1>6. ASSUME NEW c \in Callers, submit_job(c)
        PROVE  PhaseOK'
    <2>1. stop' = stop /\ \A w \in Workers : pc'[w] = pc[w]
      BY <1>1, <1>6 DEF submit_job, submit, try_submit, enqueue, Push, Goto
    <2>2. phase = "loop" /\ phase' = "loop" /\ UNCHANGED logger_vars
      BY <1>6 DEF submit_job, Main
    <2> QED
      BY <2>1, <2>2, LoopStep
  <1>7. ASSUME NEW c \in Callers, submit_returns(c)
        PROVE  PhaseOK'
    <2>1. stop' = stop /\ \A w \in Workers : pc'[w] = "exited" => pc[w] = "exited"
      BY <1>1, <1>7 DEF submit_returns, submit_notify, NotifyOne, Waiting
    <2>2. phase = "loop" /\ phase' = "loop" /\ UNCHANGED logger_vars
      BY <1>7 DEF submit_returns, Main
    <2> QED
      BY <2>1, <2>2, LoopStep
  <1>8. CASE destroy
    <2>1. /\ stop' /\ tasks' = tasks /\ phase = "destroy" /\ phase' = "join" /\ UNCHANGED logger_vars
          /\ \A w \in Workers : pc'[w] = "exited" => pc[w] = "exited"
      BY <1>1, <1>8 DEF destroy, ThreadPoolStop, Main
    <2> QED
      BY <2>1 DEF PhaseOK, Phases, Shutdown, logger_vars
  <1>9. CASE exit \/ exit_done
    BY <1>9 DEF exit, exit_done, Main, stop_begin, stop_end, PhaseOK, Phases, Shutdown, Joined, pool_vars
  <1>10. ASSUME NEW w \in Workers, worker(w)
         PROVE  PhaseOK'
    BY <1>10, WorkerPhaseOK
  <1>11. ASSUME NEW w \in Workers, worker_crashes(w)
         PROVE  PhaseOK'
    BY <1>11, MainAlone DEF worker_crashes
  <1>12. CASE log_thread
    BY <1>12, LogThreadPhaseOK
  <1>13. CASE clock
    BY <1>13 DEF clock, ClockTick, PhaseOK, Joined, pool_vars
  <1>14. CASE UNCHANGED vars
    BY <1>14, MainAlone DEF vars
  <1> QED
    BY <1>2, <1>3, <1>4, <1>5, <1>6, <1>7, <1>8, <1>9, <1>10, <1>11, <1>12, <1>13, <1>14, Zenon
    DEF Next, main

\* The process starts with nothing running.
LEMMA InitProcessIInv == Init => ProcessIInv
  <1> SUFFICES ASSUME Init
               PROVE  ProcessIInv
    OBVIOUS
  <1>1. PoolIInv /\ LoggerIInv /\ JobsOK
    BY InitPoolIInv, InitLoggerIInv, InitJobsOK DEF Init
  <1>2. CfgOK
    BY LoaderAssumption, Zenon DEF Init, LoaderInit, CfgOK
  <1>3. PhaseOK
    BY DEF Init, PoolInit, LoggerInit, PhaseOK, Phases
  <1> QED
    BY <1>1, <1>2, <1>3 DEF ProcessIInv

\* Every step of the process keeps the invariant of its parts.
LEMMA NextProcessIInv == ProcessIInv /\ [Next]_vars => ProcessIInv'
  <1> SUFFICES ASSUME ProcessIInv, [Next]_vars
               PROVE  ProcessIInv'
    OBVIOUS
  <1>1. PoolIInv /\ PoolTypeOK /\ LoggerIInv /\ NothingInBetween /\ JobsOK /\ CfgOK /\ PhaseOK
    BY DEF ProcessIInv, PoolIInv, LoggerIInv
  <1>2. [PoolNext]_pool_vars /\ [LoggerNext]_logger_vars
    BY <1>1, PoolStep, LoggerStep
  <1>3. PoolIInv' /\ LoggerIInv' /\ JobsOK'
    BY <1>1, <1>2, NextPoolIInv, NextLoggerIInv, NextJobsOK
  <1>4. CfgOK' /\ PhaseOK'
    BY <1>1, NextCfgOK, NextPhaseOK
  <1> QED
    BY <1>3, <1>4 DEF ProcessIInv

\* The lines in files and on stderr are those written and not replaced.
LEMMA StoredLines ==
    ASSUME NEW F, NEW E, NEW R, NEW P, NEW n, StoredOnce(F, E, R, P, n)
    PROVE  F \cup E \cup UNION {R[s] : s \in 0..MaxSecond} = (1..n) \ P
  <1>1. \A x : x \in UNION {R[s] : s \in 0..MaxSecond} <=> \E s \in 0..MaxSecond : x \in R[s]
    BY Zenon
  <1>2. ASSUME NEW x
        PROVE  x \in F \cup E \cup UNION {R[s] : s \in 0..MaxSecond} <=> x \in (1..n) \ P
    <2>1. x \in 1..n <=> x \in F \/ x \in E \/ x \in P \/ \E s \in 0..MaxSecond : x \in R[s]
      BY Zenon DEF StoredOnce
    <2>2. (x \in F \/ x \in E \/ \E s \in 0..MaxSecond : x \in R[s]) => x \notin P
      BY Zenon DEF StoredOnce
    <2> QED
      BY <1>1, <2>1, <2>2, Zenon
  <1> QED
    BY <1>2, Zenon

\* What the invariant says of the end of the process.
LEMMA EndOfProcess == ProcessIInv => NothingLostAtExit
  <1> SUFFICES ASSUME ProcessIInv, phase = "exited"
               PROVE  /\ Stored = (1..appended) \ replaced
                      /\ Started # {} => taken = submitted /\ \A w \in Workers : job[w] = 0
    BY DEF NothingLostAtExit
  <1>1. /\ thread = "exited" /\ Joined /\ \A w \in Workers : pc[w] = "exited" => tasks = <<>>
        /\ cur_buf = <<>> /\ next_buf = <<>>
    BY DEF ProcessIInv, PhaseOK, LoggerIInv, NothingInBetween
  <1>2. last = appended
    <2>1. next_buf \o cur_buf = <<>> /\ last \in Nat /\ appended \in Nat
      BY <1>1, LoggerAssumption DEF ProcessIInv, LoggerIInv, LoggerTypeOK
    <2>2. Holds(next_buf \o cur_buf, last, appended)
      BY DEF ProcessIInv, LoggerIInv, Accounted
    <2> QED
      BY <2>1, <2>2 DEF Holds
  <1>3. Stored = (1..appended) \ replaced
    <2> DEFINE R == [s \in 0..MaxSecond |-> Range(rolled[s])]
    <2>1. StoredOnce(Range(file), Range(stderr), R, replaced, appended)
      BY <1>2 DEF ProcessIInv, LoggerIInv, Accounted
    <2>2. Stored = Range(file) \cup Range(stderr) \cup UNION {R[s] : s \in 0..MaxSecond}
      BY DEF Stored
    <2> HIDE DEF R
    <2> QED
      BY <2>1, <2>2, StoredLines
  <1>4. \A w \in Workers : job[w] = 0
    BY <1>1 DEF ProcessIInv, JobsOK, Joined
  <1>5. ASSUME Started # {}
        PROVE  taken = submitted
    <2>1. tasks = <<>>
      BY <1>1, <1>5 DEF Started, Joined
    <2>2. taken \in Nat /\ submitted \in Nat /\ Holds(tasks, taken, submitted)
      BY PoolAssumption DEF ProcessIInv, PoolIInv, PoolTypeOK, JobsOK
    <2> QED
      BY <2>1, <2>2 DEF Holds
  <1> QED
    BY <1>3, <1>4, <1>5

\* Nothing is lost when the process ends in order, whatever the configuration
\* it loaded, the number of threads, jobs and lines: main() joins the pool
\* before the logger's thread is told to stop, a worker leaves only an empty
\* queue, and the last swap of backend_loop() comes after the last append().
THEOREM OrderlyEnd == Spec => []NothingLostAtExit
  <1>1. ProcessIInv => NothingLostAtExit
    BY EndOfProcess
  <1> QED
    BY InitProcessIInv, NextProcessIInv, <1>1, PTL DEF Spec

\* The pool that Gateway::run makes from thread_count and max_queue_size as they
\* were loaded strands nobody either.
THEOREM ProcessStrandsNobody == Spec => []NoStrandedWaiter
  <1>1. ProcessIInv => NoStrandedWaiter
    BY DEF ProcessIInv, PoolIInv
  <1> QED
    BY InitProcessIInv, NextProcessIInv, <1>1, PTL DEF Spec

\* The log of the whole process is a queue: what main() and the jobs log is
\* written in the order in which it was logged.
THEOREM ProcessLogIsQueue == Spec => LogInOrder
  <1>1. Init => BufferIInv /\ FIFO!Init
    BY InitBufferIInv DEF Init
  <1>2. BufferIInv /\ [Next]_vars => BufferIInv' /\ [FIFO!Put \/ FIFO!Take]_<<next_buf \o cur_buf, last>>
    BY LoggerStep, NextBufferIInv
  <1> QED
    BY <1>1, <1>2, PTL DEF Spec, LogInOrder, FIFO!Spec

=============================================================================
