-------------------------- MODULE ComponentProofs ---------------------------
(***************************************************************************)
(* Components that share no state with the rest, each by itself, for every *)
(* value of its parameters: the circuit breaker, the rate limiter, the     *)
(* buffer, and the timers with the health checker.                         *)
(*                                                                         *)
(* The breaker is safe for any number of workers and any thresholds.  Its  *)
(* inductive invariant adds two facts to the properties:                   *)
(*  - in HalfOpen every counted admission, and the uncounted first one, is *)
(*    either still forwarding or has been counted as a success;            *)
(*  - in HalfOpen the success counter has not caught up with the           *)
(*    admissions (otherwise on_success would have closed the breaker).     *)
(*                                                                         *)
(* The limiter keeps every client within its rate and starves none, for    *)
(* all costs, capacities and idle times that satisfy the assumption.       *)
(*                                                                         *)
(* The buffer is a queue of the bytes its calls are given, for a client    *)
(* that keeps to what the methods do not check, as a connection does.      *)
(* Each method has a lemma about the bytes that are readable after it,     *)
(* from which the refinement follows step by step.                         *)
(*                                                                         *)
(* The health table follows the tests, for any number of backends that     *)
(* come and go.  HealthTracksTests says nothing of the copies check_all()  *)
(* works on; what makes it inductive is that a copy agrees with the tests  *)
(* as well as the table does until it is its turn, since a backend has one *)
(* copy at a time.                                                         *)
(*                                                                         *)
(* No timer is called later than the sleep of the reactor, the health      *)
(* check and the time its callbacks have taken allow, for any timers,      *)
(* delays, timeouts and numbers of backends.  Allowed says, for every      *)
(* place of the reactor thread, how late a timer may be there: it grows    *)
(* with the time that passes and never shrinks but at a tick(), which      *)
(* leaves no entry that is due.  That one batch calls the health check     *)
(* once at most is part of the argument.                                   *)
(***************************************************************************)
EXTENDS CircuitBreaker, RateLimiter, Buffer, Housekeeping,
        FiniteSetTheorems, SequenceTheorems, TLAPS

-----------------------------------------------------------------------------
(* The circuit breaker. *)

\* The admissions of a half-open period are covered by successes and calls
\* in progress, and at most one of them is uncounted.
HalfOpenAccounting ==
    state = "HalfOpen" =>
        /\ half_open_successes + Cardinality(forwarding) > half_open_requests
        /\ half_open_successes < half_open_requests \/ half_open_requests = 0
        /\ half_open_requests = 0 => half_open_successes = 0
        /\ half_open_requests <= HalfOpenMaxRequests
        /\ Cardinality(probes) <= half_open_requests + 1

\* Outside a half-open period the list of probes is empty.
NoProbesOutside == state # "HalfOpen" => probes = {}

BreakerIInv ==
    /\ BreakerTypeOK
    /\ ClosedCountsConsecutive
    /\ HalfOpenAccounting
    /\ NoProbesOutside

-----------------------------------------------------------------------------
\* The set of workers in a call is finite, so its size is a number.
LEMMA ForwardingFinite ==
    ASSUME NEW S, S \subseteq Workers
    PROVE  IsFiniteSet(S) /\ Cardinality(S) \in Nat
  BY BreakerAssumption, FS_Subset, FS_CardinalityType

\* Adding a worker that is not in the set makes it one larger.
LEMMA CardAdd ==
    ASSUME NEW S, S \subseteq Workers, NEW w \in Workers, w \notin S
    PROVE  Cardinality(S \cup {w}) = Cardinality(S) + 1
  BY ForwardingFinite, FS_AddElement

\* Removing a worker of the set makes it one smaller.
LEMMA CardRemove ==
    ASSUME NEW S, S \subseteq Workers, NEW w \in S
    PROVE  Cardinality(S \ {w}) = Cardinality(S) - 1
  BY ForwardingFinite, FS_RemoveElement

\* Removing a worker never makes a set larger.
LEMMA CardShrink ==
    ASSUME NEW S, S \subseteq Workers, NEW w
    PROVE  Cardinality(S \ {w}) <= Cardinality(S)
  BY ForwardingFinite, FS_Subset

\* Initially nothing is counted and nobody forwards.
LEMMA InitBreakerIInv == BreakerInit => BreakerIInv
  BY BreakerAssumption, FS_EmptySet
  DEF BreakerInit, BreakerIInv, BreakerTypeOK, State, ClosedCountsConsecutive, HalfOpenAccounting,
      NoProbesOutside

\* Every step of a worker, a reset and the clock preserve the invariant.
LEMMA NextBreakerIInv == BreakerIInv /\ [BreakerNext]_breaker_vars => BreakerIInv'
  <1> SUFFICES ASSUME BreakerIInv, [BreakerNext]_breaker_vars
               PROVE  BreakerIInv'
    OBVIOUS
  <1> USE BreakerAssumption
  <1>a. /\ IsFiniteSet(forwarding) /\ Cardinality(forwarding) \in Nat
        /\ IsFiniteSet(probes) /\ Cardinality(probes) \in Nat
    BY ForwardingFinite DEF BreakerIInv, BreakerTypeOK
  <1>e. Cardinality({}) = 0
    BY FS_EmptySet
  <1>1. ASSUME NEW w \in Workers, allow_request(w)
        PROVE  BreakerIInv'
    <2>1. BreakerTypeOK'
      BY <1>1 DEF BreakerIInv, BreakerTypeOK, State, allow_request, AllowClosed, AllowOpen,
         AllowHalfOpen, try_transition_to_half_open, counters, half_open
    <2>2. Cardinality(forwarding') = Cardinality(forwarding) + 1
      BY <1>1, CardAdd DEF BreakerIInv, BreakerTypeOK, allow_request
    <2>3. CASE AllowClosed(w)
      BY <1>1, <2>1, <2>3
      DEF BreakerIInv, ClosedCountsConsecutive, HalfOpenAccounting, NoProbesOutside,
          allow_request, AllowClosed, counters, half_open
    <2>4. CASE AllowOpen(w)
      <3>1. Cardinality(probes') = 1
        BY <2>4, FS_Singleton DEF AllowOpen
      <3> QED
        BY <1>1, <1>a, <2>1, <2>2, <2>4, <3>1
        DEF BreakerIInv, ClosedCountsConsecutive, HalfOpenAccounting, NoProbesOutside,
            allow_request, AllowOpen, try_transition_to_half_open
    <2>5. CASE AllowHalfOpen(w)
      <3>1. Cardinality(probes') = Cardinality(probes) + 1
        BY <1>1, <2>5, CardAdd DEF BreakerIInv, BreakerTypeOK, allow_request, AllowHalfOpen
      <3> QED
        BY <1>1, <1>a, <2>1, <2>2, <2>5, <3>1
        DEF BreakerIInv, BreakerTypeOK, ClosedCountsConsecutive, HalfOpenAccounting,
            NoProbesOutside, allow_request, AllowHalfOpen
    <2> QED
      BY <1>1, <2>3, <2>4, <2>5 DEF allow_request
  <1>2. ASSUME NEW w \in Workers, on_success(w)
        PROVE  BreakerIInv'
    <2>1. BreakerTypeOK'
      BY <1>2 DEF BreakerIInv, BreakerTypeOK, State, on_success, SuccessClosed, SuccessOpen,
         SuccessHalfOpen, Reported, half_open
    <2>2. Cardinality(forwarding') = Cardinality(forwarding) - 1
      BY <1>2, CardRemove DEF BreakerIInv, BreakerTypeOK, on_success, Reported
    <2>3. Cardinality(probes \ {w}) <= Cardinality(probes)
      BY CardShrink DEF BreakerIInv, BreakerTypeOK
    <2>4. Cardinality(probes \ {w}) \in Nat
      BY ForwardingFinite DEF BreakerIInv, BreakerTypeOK
    <2> QED
      BY <1>2, <1>a, <2>1, <2>2, <2>3, <2>4
      DEF BreakerIInv, BreakerTypeOK, ClosedCountsConsecutive, HalfOpenAccounting,
          NoProbesOutside, on_success, SuccessClosed, SuccessOpen,
          SuccessHalfOpen, Reported, half_open
  <1>3. ASSUME NEW w \in Workers, on_failure(w)
        PROVE  BreakerIInv'
    <2>1. state' # "HalfOpen"
      BY <1>3 DEF on_failure, FailureClosed, FailureOpen, FailureHalfOpen,
         transition_to_open, BreakerIInv, BreakerTypeOK
    <2>2. BreakerTypeOK'
      BY <1>3 DEF BreakerIInv, BreakerTypeOK, State, on_failure, FailureClosed, FailureOpen,
         FailureHalfOpen, Reported, half_open, transition_to_open
    <2> QED
      BY <1>3, <2>1, <2>2
      DEF BreakerIInv, BreakerTypeOK, ClosedCountsConsecutive, HalfOpenAccounting,
          NoProbesOutside, on_failure, FailureClosed, FailureOpen,
          FailureHalfOpen, Reported, transition_to_open
  <1>4. CASE reset
    BY <1>4 DEF BreakerIInv, BreakerTypeOK, State, ClosedCountsConsecutive,
       HalfOpenAccounting, NoProbesOutside, reset
  <1>5. CASE Tick
    BY <1>5 DEF BreakerIInv, BreakerTypeOK, ClosedCountsConsecutive, HalfOpenAccounting,
       NoProbesOutside, Tick, counters, half_open
  <1>6. CASE UNCHANGED breaker_vars
    BY <1>6 DEF BreakerIInv, BreakerTypeOK, ClosedCountsConsecutive, HalfOpenAccounting,
       NoProbesOutside, breaker_vars, counters, half_open
  <1> QED
    BY <1>1, <1>2, <1>3, <1>4, <1>5, <1>6 DEF BreakerNext

\* The inductive invariant holds in every reachable state.
LEMMA BreakerInvariance == BreakerSpec => []BreakerIInv
  BY InitBreakerIInv, NextBreakerIInv, PTL DEF BreakerSpec

-----------------------------------------------------------------------------
\* The fields keep their types and a probe is always a call in progress.
THEOREM BreakerTyped == BreakerSpec => []BreakerTypeOK
  <1>1. BreakerIInv => BreakerTypeOK
    BY DEF BreakerIInv
  <1> QED
    BY <1>1, BreakerInvariance, PTL

\* A half-open breaker always waits for some call that is still to report: it
\* can not be left rejecting everything (allow_request, HalfOpen case).
THEOREM HalfOpenHasCaller == BreakerSpec => []HalfOpenNotStuck
  <1>1. BreakerIInv => HalfOpenNotStuck
    BY FS_EmptySet DEF BreakerIInv, BreakerTypeOK, HalfOpenAccounting, HalfOpenNotStuck
  <1> QED
    BY <1>1, BreakerInvariance, PTL

\* The breaker trips on failure_threshold_ consecutive failures: in Closed the
\* failure count is the length of the current run of failures.
THEOREM TripsOnConsecutive == BreakerSpec => []ClosedCountsConsecutive
  <1>1. BreakerIInv => ClosedCountsConsecutive
    BY DEF BreakerIInv
  <1> QED
    BY <1>1, BreakerInvariance, PTL

\* The quota of a half-open period is exceeded by one call at most, the one
\* that opens the period.
THEOREM ProbeBound == BreakerSpec => [](Cardinality(probes) <= HalfOpenMaxRequests + 1)
  <1>1. BreakerIInv => Cardinality(probes) <= HalfOpenMaxRequests + 1
    <2> SUFFICES ASSUME BreakerIInv
                 PROVE  Cardinality(probes) <= HalfOpenMaxRequests + 1
      OBVIOUS
    <2>1. Cardinality(probes) \in Nat
      BY ForwardingFinite DEF BreakerIInv, BreakerTypeOK
    <2>2. CASE state = "HalfOpen"
      BY <2>1, <2>2, BreakerAssumption DEF BreakerIInv, BreakerTypeOK, HalfOpenAccounting
    <2>3. CASE state # "HalfOpen"
      BY <2>3, FS_EmptySet, BreakerAssumption DEF BreakerIInv, NoProbesOutside
    <2> QED
      BY <2>2, <2>3
  <1> QED
    BY <1>1, BreakerInvariance, PTL

-----------------------------------------------------------------------------
(* The rate limiter. *)

\* What is known of key k: the credit spent in the window and the credit left
\* in the bucket come out of one capacity and the time since the window began;
\* a bucket that was removed had been full again by then; and the credit left
\* makes up for the time since the last admission.
KeyInv(k) ==
    /\ last_fill_time[k] <= now
    /\ admitted_at[k] <= now
    /\ k \in present =>
         /\ last_fill_time[k] >= from =>
              spent[k] + tokens[k] <= Capacity + (last_fill_time[k] - from)
         /\ last_fill_time[k] < from => spent[k] = 0
         /\ tokens[k] = Capacity \/ tokens[k] >= last_fill_time[k] - admitted_at[k]
    /\ k \notin present => spent[k] <= now - from

LimiterIInv == LimiterTypeOK /\ from <= now /\ \A k \in Keys : KeyInv(k)

\* Refilled stays within the bucket and adds at most the time passed.
LEMMA RefilledFacts ==
    ASSUME LimiterIInv, NEW k \in Keys
    PROVE  /\ Refilled(k) \in 0..Capacity
           /\ k \notin present => Refilled(k) = Capacity
           /\ k \in present =>
                /\ Refilled(k) <= tokens[k] + (now - last_fill_time[k])
                /\ \/ Refilled(k) = Capacity
                   \/ Refilled(k) = tokens[k] + (now - last_fill_time[k])
  <1>1. /\ now \in Nat /\ last_fill_time[k] \in Nat /\ tokens[k] \in 0..Capacity
        /\ last_fill_time[k] <= now
    BY DEF LimiterIInv, LimiterTypeOK, KeyInv
  <1> QED
    BY <1>1, LimiterAssumption DEF Refilled

\* The empty table satisfies the invariant.
LEMMA InitLimiterIInv == LimiterInit => LimiterIInv
  BY LimiterAssumption DEF LimiterInit, LimiterIInv, LimiterTypeOK, KeyInv

\* A request of key k keeps the invariant, admitted or rejected.
LEMMA RequestIInv ==
    ASSUME LimiterIInv, NEW k \in Keys, on_request(k)
    PROVE  LimiterIInv'
  <1>. DEFINE f == Refilled(k)
  <1>1. /\ now \in Nat /\ from \in Nat /\ from <= now /\ Capacity \in Nat /\ Cost \in Nat
        /\ tokens[k] \in 0..Capacity /\ last_fill_time[k] \in Nat
        /\ spent[k] \in Nat /\ admitted_at[k] \in Nat
        /\ KeyInv(k)
    BY LimiterAssumption DEF LimiterIInv, LimiterTypeOK
  <1>2. /\ f \in 0..Capacity
        /\ k \notin present => f = Capacity
        /\ k \in present =>
             /\ f <= tokens[k] + (now - last_fill_time[k])
             /\ f = Capacity \/ f = tokens[k] + (now - last_fill_time[k])
    BY RefilledFacts
  <1>3. spent[k] + f <= Capacity + (now - from)
    BY <1>1, <1>2 DEF KeyInv
  <1>4. f = Capacity \/ f >= now - admitted_at[k]
    BY <1>1, <1>2 DEF KeyInv
  <1>5. /\ now' = now /\ from' = from
        /\ present' = present \cup {k}
        /\ last_fill_time' = [last_fill_time EXCEPT ![k] = now]
    BY DEF on_request
  <1>6. CASE f >= Cost
    <2>1. /\ tokens' = [tokens EXCEPT ![k] = f - Cost]
          /\ spent' = [spent EXCEPT ![k] = spent[k] + Cost]
          /\ admitted_at' = [admitted_at EXCEPT ![k] = now]
      BY <1>6 DEF on_request
    <2>2. f - Cost \in 0..Capacity
      BY <1>1, <1>2, <1>6
    <2>3. LimiterTypeOK'
      BY <1>1, <1>5, <2>1, <2>2 DEF LimiterIInv, LimiterTypeOK
    <2>4. KeyInv(k)'
      BY <1>1, <1>2, <1>3, <1>5, <2>1, <2>2 DEF KeyInv, LimiterIInv, LimiterTypeOK
    <2>5. ASSUME NEW j \in Keys, j # k PROVE KeyInv(j)'
      BY <1>5, <2>1, <2>5 DEF KeyInv, LimiterIInv, LimiterTypeOK
    <2> QED
      BY <1>1, <1>5, <2>3, <2>4, <2>5 DEF LimiterIInv
  <1>7. CASE ~(f >= Cost)
    <2>1. /\ tokens' = [tokens EXCEPT ![k] = f]
          /\ spent' = spent /\ admitted_at' = admitted_at
      BY <1>7 DEF on_request
    <2>2. LimiterTypeOK'
      BY <1>1, <1>2, <1>5, <2>1 DEF LimiterIInv, LimiterTypeOK
    <2>3. KeyInv(k)'
      BY <1>1, <1>2, <1>3, <1>4, <1>5, <2>1 DEF KeyInv, LimiterIInv, LimiterTypeOK
    <2>4. ASSUME NEW j \in Keys, j # k PROVE KeyInv(j)'
      BY <1>5, <2>1, <2>4 DEF KeyInv, LimiterIInv, LimiterTypeOK
    <2> QED
      BY <1>1, <1>5, <2>2, <2>3, <2>4 DEF LimiterIInv
  <1> QED
    BY <1>6, <1>7

\* Every step keeps the invariant.
LEMMA NextLimiterIInv == LimiterIInv /\ [LimiterNext]_limiter_vars => LimiterIInv'
  <1> SUFFICES ASSUME LimiterIInv, [LimiterNext]_limiter_vars PROVE LimiterIInv'
    OBVIOUS
  <1>1. ASSUME NEW h \in Headers, filter(h) PROVE LimiterIInv'
    <2>1. CASE extract_client_ip(h) = NoKey
      BY <1>1, <2>1 DEF filter, limiter_vars, buckets, history, LimiterIInv, LimiterTypeOK, KeyInv
    <2>2. CASE extract_client_ip(h) # NoKey
      <3>1. extract_client_ip(h) \in Keys
        <4>1. h.real \in Keys \cup {NoKey}
          BY DEF Headers
        <4>2. h.forwarded = <<>> \/ h.forwarded \in Keys \X (Keys \cup {NoKey})
          BY DEF Headers
        <4>3. h.forwarded # <<>> => Head(h.forwarded) \in Keys
          BY <4>2
        <4> QED
          BY <2>2, <4>1, <4>3 DEF extract_client_ip
      <3> QED
        BY <1>1, <2>2, <3>1, RequestIInv DEF filter
    <2> QED
      BY <2>1, <2>2
  <1>2. CASE cleanup_expired_buckets
    <2>1. LimiterTypeOK' /\ from' <= now'
      BY <1>2 DEF cleanup_expired_buckets, LimiterIInv, LimiterTypeOK, history
    <2>2. ASSUME NEW k \in Keys PROVE KeyInv(k)'
      BY <1>2, LimiterAssumption DEF cleanup_expired_buckets, LimiterIInv, LimiterTypeOK, KeyInv, history
    <2> QED
      BY <2>1, <2>2 DEF LimiterIInv
  <1>3. CASE LimiterTick
    <2>1. LimiterTypeOK' /\ from' <= now'
      BY <1>3 DEF LimiterTick, LimiterIInv, LimiterTypeOK, buckets, history
    <2>2. ASSUME NEW k \in Keys PROVE KeyInv(k)'
      BY <1>3 DEF LimiterTick, LimiterIInv, LimiterTypeOK, KeyInv, buckets, history
    <2> QED
      BY <2>1, <2>2 DEF LimiterIInv
  <1>4. CASE Observe
    <2>1. LimiterTypeOK' /\ from' <= now'
      BY <1>4 DEF Observe, LimiterIInv, LimiterTypeOK, buckets
    <2>2. ASSUME NEW k \in Keys PROVE KeyInv(k)'
      BY <1>4, LimiterAssumption DEF Observe, LimiterIInv, LimiterTypeOK, KeyInv, buckets
    <2> QED
      BY <2>1, <2>2 DEF LimiterIInv
  <1>5. CASE UNCHANGED limiter_vars
    BY <1>5 DEF limiter_vars, buckets, history, LimiterIInv, LimiterTypeOK, KeyInv
  <1> QED
    BY <1>1, <1>2, <1>3, <1>4, <1>5 DEF LimiterNext

\* The invariant holds in every reachable state.
LEMMA LimiterInvariance == LimiterSpec => []LimiterIInv
  BY InitLimiterIInv, NextLimiterIInv, PTL DEF LimiterSpec

\* No client gets more than burst_ tokens plus what the time brings, in any
\* window, although buckets are removed and made anew.
THEOREM RateBound == LimiterSpec => []WithinRate
  <1>1. LimiterIInv => WithinRate
    <2> SUFFICES ASSUME LimiterIInv, NEW k \in Keys
                 PROVE  spent[k] <= Capacity + (now - from)
      BY DEF WithinRate
    <2>1. /\ now \in Nat /\ from \in Nat /\ from <= now /\ Capacity \in Nat
          /\ tokens[k] \in 0..Capacity /\ last_fill_time[k] \in Nat
          /\ spent[k] \in Nat /\ KeyInv(k)
      BY LimiterAssumption DEF LimiterIInv, LimiterTypeOK
    <2> QED
      BY <2>1 DEF KeyInv
  <1> QED
    BY <1>1, LimiterInvariance, PTL

\* A client that has not been admitted for the time of one token would be
\* admitted now: rejections do not put the refill off.
THEOREM NoStarvation == LimiterSpec => []NotStarved
  <1>1. LimiterIInv => NotStarved
    <2> SUFFICES ASSUME LimiterIInv, NEW k \in Keys, now - admitted_at[k] >= Cost
                 PROVE  Refilled(k) >= Cost
      BY DEF NotStarved
    <2>1. /\ now \in Nat /\ Capacity \in Nat /\ Cost \in Nat /\ Capacity >= Cost
          /\ tokens[k] \in 0..Capacity /\ last_fill_time[k] \in Nat
          /\ admitted_at[k] \in Nat /\ KeyInv(k)
      BY LimiterAssumption DEF LimiterIInv, LimiterTypeOK
    <2>2. /\ Refilled(k) \in 0..Capacity
          /\ k \notin present => Refilled(k) = Capacity
          /\ k \in present => \/ Refilled(k) = Capacity
                              \/ Refilled(k) = tokens[k] + (now - last_fill_time[k])
      BY RefilledFacts
    <2> QED
      BY <2>1, <2>2 DEF KeyInv
  <1> QED
    BY <1>1, LimiterInvariance, PTL

\* Buckets stay between empty and full.
THEOREM BucketsTyped == LimiterSpec => []LimiterTypeOK
  <1>1. LimiterIInv => LimiterTypeOK
    BY DEF LimiterIInv
  <1> QED
    BY <1>1, LimiterInvariance, PTL

-----------------------------------------------------------------------------
(* The buffer. *)

\* What it takes to be a buffer.
LEMMA IsBuffer ==
    ASSUME NEW v \in Seq(Byte), NEW r \in Nat, NEW w \in Nat, r <= w, w <= Len(v),
           kPrependableSize <= w
    PROVE  [buf |-> v, read_idx |-> r, write_idx |-> w] \in Buffers
  BY DEF Buffers

\* What a buffer is made of.
LEMMA Fields ==
    ASSUME NEW b \in Buffers
    PROVE  /\ b = [buf |-> b.buf, read_idx |-> b.read_idx, write_idx |-> b.write_idx]
           /\ b.buf \in Seq(Byte) /\ Len(b.buf) \in Nat
           /\ b.read_idx \in Nat /\ b.write_idx \in Nat
           /\ b.read_idx <= b.write_idx /\ b.write_idx <= Len(b.buf)
           /\ kPrependableSize <= b.write_idx
           /\ readable_size(b) \in Nat /\ writable_size(b) \in Nat
           /\ \A i \in 1..Len(b.buf) : b.buf[i] \in Byte
  BY DEF Buffers, readable_size, writable_size

\* The readable bytes are a sequence of bytes.
LEMMA ReadableSeq ==
    ASSUME NEW b \in Buffers
    PROVE  /\ read_as_string(b) \in Seq(Byte)
           /\ Len(read_as_string(b)) = b.write_idx - b.read_idx
           /\ \A i \in 1..(b.write_idx - b.read_idx) : read_as_string(b)[i] = b.buf[b.read_idx + i]
  <1>1. \A i \in 1..readable_size(b) : b.buf[b.read_idx + i] \in Byte
    BY Fields DEF readable_size
  <1>2. readable_size(b) \in Nat
    BY Fields
  <1>3. read_as_string(b) \in Seq(Byte) /\ Len(read_as_string(b)) = readable_size(b)
    <2> DEFINE e(i) == b.buf[b.read_idx + i]
               n == readable_size(b)
    <2>1. [i \in 1..n |-> e(i)] \in [1..n -> Byte]
      BY <1>1
    <2> QED
      BY <2>1, <1>2, LenProperties, SeqDef DEF read_as_string
  <1> QED
    BY <1>3, <1>2 DEF read_as_string, readable_size

\* memcpy changes the bytes it is for, and no others.
LEMMA CopiedBytes ==
    ASSUME NEW v \in Seq(Byte), NEW at \in Nat, NEW d \in Seq(Byte), at + Len(d) <= Len(v)
    PROVE  /\ Copied(v, at, d) \in Seq(Byte) /\ Len(Copied(v, at, d)) = Len(v)
           /\ \A i \in 1..Len(d) : Copied(v, at, d)[at + i] = d[i]
           /\ \A i \in 1..Len(v) : i <= at \/ i > at + Len(d) => Copied(v, at, d)[i] = v[i]
  <1> DEFINE c == Copied(v, at, d)
  <1>1. c \in [1..Len(v) -> Byte]
    BY DEF Copied
  <1>2. c \in Seq(Byte) /\ Len(c) = Len(v)
    BY <1>1
  <1> QED
    BY <1>2, SMTT(60) DEF Copied

\* resize() keeps the bytes there are.
LEMMA ResizedBytes ==
    ASSUME NEW v \in Seq(Byte), NEW size \in Nat
    PROVE  /\ Resized(v, size) \in Seq(Byte) /\ Len(Resized(v, size)) = size
           /\ \A i \in 1..size : i <= Len(v) => Resized(v, size)[i] = v[i]
  <1>0. 0 \in Byte
    BY DEF Byte
  <1>1. Resized(v, size) \in [1..size -> Byte]
    BY <1>0 DEF Resized
  <1>2. Resized(v, size) \in Seq(Byte) /\ Len(Resized(v, size)) = size
    BY <1>1
  <1> QED
    BY <1>2 DEF Resized

-----------------------------------------------------------------------------
\* consume() takes bytes from the front.
LEMMA Consumes ==
    ASSUME NEW b \in Buffers, NEW n \in Nat
    PROVE  /\ consume(b, n) \in Buffers
           /\ read_as_string(consume(b, n)) = SubSeq(read_as_string(b), n + 1, Len(read_as_string(b)))
  <1> DEFINE s == read_as_string(b)
             c == consume(b, n)
             t == SubSeq(s, n + 1, Len(s))
  <1>1. c \in Buffers
    <2>1. kPrependableSize \in Nat /\ kPrependableSize <= Len(b.buf)
      BY Fields DEF kPrependableSize
    <2>2. CASE n >= readable_size(b)
      <3>1. c = [buf |-> b.buf, read_idx |-> kPrependableSize, write_idx |-> kPrependableSize]
        BY <2>2, Fields DEF consume, consume_all
      <3> QED
        BY <2>1, <3>1, Fields, IsBuffer
    <2>3. CASE n < readable_size(b)
      <3>1. c = [buf |-> b.buf, read_idx |-> b.read_idx + n, write_idx |-> b.write_idx]
        BY <2>3, Fields DEF consume
      <3>2. b.read_idx + n \in Nat /\ b.read_idx + n <= b.write_idx
        BY <2>3, Fields DEF readable_size
      <3> QED
        BY <3>1, <3>2, Fields, IsBuffer
    <2> QED
      BY <2>2, <2>3, Fields
  <1>2. /\ s \in Seq(Byte) /\ Len(s) = b.write_idx - b.read_idx /\ Len(s) \in Nat
        /\ \A i \in 1..Len(s) : s[i] = b.buf[b.read_idx + i] /\ s[i] \in Byte
    BY ReadableSeq
  <1>3. /\ t \in Seq(Byte) /\ Len(t) = IF n < Len(s) THEN Len(s) - n ELSE 0
        /\ \A i \in 1..(Len(s) - n) : t[i] = s[n + i]
    <2> HIDE DEF s
    <2>1. \A i \in (n + 1)..Len(s) : s[i] \in Byte
      BY <1>2
    <2>2. /\ SubSeq(s, n + 1, Len(s)) \in Seq(Byte)
          /\ Len(SubSeq(s, n + 1, Len(s))) = IF n + 1 <= Len(s) THEN Len(s) - (n + 1) + 1 ELSE 0
          /\ \A i \in 1..(Len(s) - (n + 1) + 1) : SubSeq(s, n + 1, Len(s))[i] = s[(n + 1) + i - 1]
      BY <2>1, <1>2, SubSeqProperties
    <2> QED
      BY <2>2, <1>2
  <1>4. /\ read_as_string(c) \in Seq(Byte) /\ Len(read_as_string(c)) = c.write_idx - c.read_idx
        /\ \A i \in 1..(c.write_idx - c.read_idx) : read_as_string(c)[i] = c.buf[c.read_idx + i]
    BY <1>1, ReadableSeq
  <1>5. CASE n >= Len(s)
    <2>1. c.write_idx = c.read_idx
      BY <1>2, <1>5, Fields DEF consume, consume_all, readable_size
    <2> QED
      BY <2>1, <1>1, <1>2, <1>3, <1>4, <1>5, Fields, SeqEqual, SMTT(60)
  <1>6. CASE n < Len(s)
    <2>1. c.write_idx = b.write_idx /\ c.read_idx = b.read_idx + n /\ c.buf = b.buf
      BY <1>2, <1>6, Fields DEF consume, readable_size
    <2>2. Len(read_as_string(c)) = Len(t)
      BY <2>1, <1>2, <1>3, <1>4, <1>6, Fields, SMTT(60)
    <2>3. ASSUME NEW i \in 1..Len(t)
          PROVE  read_as_string(c)[i] = t[i]
      <3>1. i \in 1..(Len(s) - n) /\ n + i \in 1..Len(s)
        BY <1>2, <1>3, <1>6
      <3>2. t[i] = b.buf[b.read_idx + (n + i)]
        BY <3>1, <1>2, <1>3
      <3>3. read_as_string(c)[i] = b.buf[(b.read_idx + n) + i]
        <4> HIDE DEF c, s
        <4>1. i \in 1..(c.write_idx - c.read_idx)
          BY <3>1, <2>1, <1>2, Fields
        <4> QED
          BY <4>1, <2>1, <1>4
      <3> QED
        BY <3>1, <3>2, <3>3, Fields, SMTT(60)
    <2> HIDE DEF t, c
    <2>4. read_as_string(c) = t
      BY <2>2, <2>3, <1>3, <1>4, SeqEqual, Zenon
    <2> QED
      BY <2>4, <1>1 DEF t, c
  <1> QED
    BY <1>5, <1>6, <1>2

\* shrink() moves the readable bytes to where a new buffer has them, if they
\* fit there.
LEMMA Shrinks ==
    ASSUME NEW b \in Buffers, Fits(b)
    PROVE  /\ shrink(b) \in Buffers /\ read_as_string(shrink(b)) = read_as_string(b)
           /\ shrink(b).read_idx = kPrependableSize
           /\ Len(shrink(b).buf) = Len(b.buf)
           /\ readable_size(shrink(b)) = readable_size(b)
  <1>0. kPrependableSize \in Nat
    BY DEF kPrependableSize
  <1>1. CASE b.read_idx = kPrependableSize
    BY <1>1, Fields DEF shrink
  <1>2. CASE b.read_idx # kPrependableSize
    <2> DEFINE s == read_as_string(b)
               v == Copied(b.buf, kPrependableSize, s)
               c == shrink(b)
    <2>1. s \in Seq(Byte) /\ Len(s) = b.write_idx - b.read_idx /\ Len(s) \in Nat
      BY ReadableSeq
    <2>2. kPrependableSize + Len(s) <= Len(b.buf)
      BY <2>1 DEF Fits, readable_size
    <2> HIDE DEF s
    <2>3. /\ v \in Seq(Byte) /\ Len(v) = Len(b.buf)
          /\ \A i \in 1..Len(s) : v[kPrependableSize + i] = s[i]
      BY <1>0, <2>1, <2>2, Fields, CopiedBytes
    <2>4. c = [buf |-> v, read_idx |-> kPrependableSize, write_idx |-> kPrependableSize + Len(s)]
      BY <1>2, <2>1 DEF shrink, s, readable_size
    <2> HIDE DEF v, c
    <2>5. c \in Buffers
      <3>1. /\ kPrependableSize + Len(s) \in Nat /\ kPrependableSize <= kPrependableSize + Len(s)
            /\ kPrependableSize + Len(s) <= Len(v)
        BY <1>0, <2>1, <2>2, <2>3
      <3> QED
        BY <1>0, <2>3, <2>4, <3>1, IsBuffer, Zenon
    <2>6. read_as_string(c) = s
      <3>1. /\ read_as_string(c) \in Seq(Byte) /\ Len(read_as_string(c)) = Len(s)
            /\ \A i \in 1..Len(s) : read_as_string(c)[i] = s[i]
        BY <1>0, <2>1, <2>3, <2>4, <2>5, ReadableSeq
      <3> QED
        BY <3>1, <2>1, SeqEqual
    <2> QED
      BY <1>0, <2>1, <2>3, <2>4, <2>5, <2>6, Fields DEF c, s, readable_size
  <1> QED
    BY <1>1, <1>2

\* ensure_writable() makes room and changes no readable byte.
LEMMA MakesRoom ==
    ASSUME NEW b \in Buffers, NEW n \in Nat
    PROVE  /\ ensure_writable(b, n) \in Buffers
           /\ writable_size(ensure_writable(b, n)) >= n
           /\ read_as_string(ensure_writable(b, n)) = read_as_string(b)
  <1> DEFINE c == ensure_writable(b, n)
  <1>1. CASE writable_size(b) >= n
    BY <1>1 DEF ensure_writable
  <1>2. CASE writable_size(b) < n /\ b.read_idx + writable_size(b) >= n + kPrependableSize
    <2>1. c = shrink(b) /\ Fits(b)
      BY <1>2, Fields DEF ensure_writable, Fits, readable_size, writable_size, kPrependableSize
    <2>2. writable_size(shrink(b)) >= n
      BY <1>2, <2>1, Shrinks, Fields, SMTT(60) DEF writable_size, readable_size, kPrependableSize
    <2> QED
      BY <2>1, <2>2, Shrinks
  <1>3. CASE writable_size(b) < n /\ b.read_idx + writable_size(b) < n + kPrependableSize
    <2> DEFINE size == Len(b.buf) + (n - writable_size(b))
               v == Resized(b.buf, size)
    <2>1. size \in Nat /\ size >= Len(b.buf)
      BY <1>3, Fields
    <2>2. c = [buf |-> v, read_idx |-> b.read_idx, write_idx |-> b.write_idx]
      BY <1>3, Fields DEF ensure_writable, kPrependableSize
    <2> HIDE DEF size
    <2>3. /\ v \in Seq(Byte) /\ Len(v) = size
          /\ \A i \in 1..size : i <= Len(b.buf) => v[i] = b.buf[i]
      BY <2>1, Fields, ResizedBytes, Zenon
    <2> HIDE DEF v, c
    <2>4. c \in Buffers
      BY <2>1, <2>2, <2>3, Fields, IsBuffer
    <2>5. read_as_string(c) = read_as_string(b)
      <3>1. /\ read_as_string(c) \in Seq(Byte) /\ read_as_string(b) \in Seq(Byte)
            /\ Len(read_as_string(c)) = Len(read_as_string(b))
        BY <2>2, <2>4, ReadableSeq
      <3>2. ASSUME NEW i \in 1..Len(read_as_string(b))
            PROVE  read_as_string(c)[i] = read_as_string(b)[i]
        <4>1. i \in 1..(b.write_idx - b.read_idx)
          BY ReadableSeq
        <4>2. b.read_idx + i \in 1..Len(b.buf) /\ b.read_idx + i \in 1..size
          BY <4>1, <2>1, Fields
        <4>3. read_as_string(c)[i] = v[b.read_idx + i]
          BY <4>1, <2>2, <2>4, ReadableSeq
        <4>4. read_as_string(b)[i] = b.buf[b.read_idx + i]
          BY <4>1, ReadableSeq
        <4> QED
          BY <4>2, <4>3, <4>4, <2>3
      <3> QED
        BY <3>1, <3>2, SeqEqual
    <2>6. writable_size(c) >= n
      BY <2>2, <2>3, Fields DEF writable_size, size
    <2> QED
      BY <2>4, <2>5, <2>6 DEF c
  <1> QED
    BY <1>1, <1>2, <1>3, Fields DEF kPrependableSize

\* Bytes written behind the readable ones follow them.
LEMMA Writes ==
    ASSUME NEW b \in Buffers, NEW d \in Seq(Byte), Len(d) <= writable_size(b)
    PROVE  /\ Written(b, d) \in Buffers
           /\ read_as_string(Written(b, d)) = read_as_string(b) \o d
           /\ writable_size(Written(b, d)) = writable_size(b) - Len(d)
  <1> DEFINE c == Written(b, d)
             v == Copied(b.buf, b.write_idx, d)
             s == read_as_string(b)
  <1>0. Len(d) \in Nat /\ b.write_idx + Len(d) <= Len(b.buf)
    BY Fields DEF writable_size
  <1>1. /\ v \in Seq(Byte) /\ Len(v) = Len(b.buf)
        /\ \A i \in 1..Len(d) : v[b.write_idx + i] = d[i]
        /\ \A i \in 1..Len(b.buf) : i <= b.write_idx => v[i] = b.buf[i]
    BY <1>0, Fields, CopiedBytes
  <1>2. c = [buf |-> v, read_idx |-> b.read_idx, write_idx |-> b.write_idx + Len(d)]
    BY DEF Written
  <1> HIDE DEF v, c
  <1>3. c \in Buffers
    <2>1. /\ b.write_idx + Len(d) \in Nat /\ b.read_idx <= b.write_idx + Len(d)
          /\ b.write_idx + Len(d) <= Len(v) /\ kPrependableSize <= b.write_idx + Len(d)
      BY <1>0, <1>1, Fields DEF kPrependableSize
    <2> QED
      BY <1>1, <1>2, <2>1, Fields, IsBuffer
  <1>4. /\ s \in Seq(Byte) /\ Len(s) = b.write_idx - b.read_idx /\ Len(s) \in Nat
        /\ \A i \in 1..Len(s) : s[i] = b.buf[b.read_idx + i]
    BY ReadableSeq
  <1> HIDE DEF s
  <1>5. /\ s \o d \in Seq(Byte) /\ Len(s \o d) = Len(s) + Len(d)
        /\ \A i \in 1..(Len(s) + Len(d)) : (s \o d)[i] = IF i <= Len(s) THEN s[i] ELSE d[i - Len(s)]
    BY <1>4, ConcatProperties, Zenon
  <1>6. /\ read_as_string(c) \in Seq(Byte) /\ Len(read_as_string(c)) = Len(s) + Len(d)
        /\ \A i \in 1..(Len(s) + Len(d)) : read_as_string(c)[i] = v[b.read_idx + i]
    <2>1. c.write_idx - c.read_idx = Len(s) + Len(d) /\ c.read_idx = b.read_idx /\ c.buf = v
      BY <1>0, <1>2, <1>4, Fields
    <2> QED
      BY <2>1, <1>3, ReadableSeq
  <1>7. ASSUME NEW i \in 1..(Len(s) + Len(d))
        PROVE  read_as_string(c)[i] = (s \o d)[i]
    <2>1. CASE i <= Len(s)
      <3>1. b.read_idx + i \in 1..Len(b.buf) /\ b.read_idx + i <= b.write_idx
        BY <1>0, <1>4, <2>1, Fields
      <3>2. v[b.read_idx + i] = b.buf[b.read_idx + i]
        BY <3>1, <1>1
      <3> QED
        BY <3>2, <2>1, <1>0, <1>4, <1>5, <1>6
    <2>2. CASE i > Len(s)
      <3>1. i - Len(s) \in 1..Len(d) /\ b.read_idx + i = b.write_idx + (i - Len(s))
        BY <1>0, <1>4, <2>2, Fields, SMTT(60)
      <3>2. v[b.read_idx + i] = d[i - Len(s)]
        BY <3>1, <1>1
      <3> QED
        BY <3>2, <2>2, <1>0, <1>4, <1>5, <1>6
    <2> QED
      BY <2>1, <2>2, <1>0, <1>4
  <1>8. read_as_string(c) = s \o d
    BY <1>5, <1>6, <1>7, SeqEqual, Zenon
  <1>9. writable_size(c) = writable_size(b) - Len(d)
    BY <1>0, <1>1, <1>2, Fields DEF writable_size
  <1> QED
    BY <1>3, <1>8, <1>9 DEF c, s

\* append() puts bytes at the end.
LEMMA Appends ==
    ASSUME NEW b \in Buffers, NEW d \in Seq(Byte)
    PROVE  /\ append(b, d) \in Buffers
           /\ read_as_string(append(b, d)) = read_as_string(b) \o d
  <1>1. Len(d) \in Nat
    OBVIOUS
  <1>2. /\ ensure_writable(b, Len(d)) \in Buffers
        /\ Len(d) <= writable_size(ensure_writable(b, Len(d)))
        /\ read_as_string(ensure_writable(b, Len(d))) = read_as_string(b)
    BY <1>1, MakesRoom, Fields, Zenon
  <1> QED
    BY <1>2, Writes, Zenon DEF append

\* read_from_fd() puts what readv() has read at the end, whichever of the two
\* buffers it has gone to.
LEMMA Reads ==
    ASSUME NEW b \in Buffers, NEW d \in Seq(Byte)
    PROVE  /\ read_from_fd(b, d) \in Buffers
           /\ read_as_string(read_from_fd(b, d)) = read_as_string(b) \o d
  <1> DEFINE room == writable_size(b)
  <1>0. room \in Nat /\ Len(d) \in Nat /\ \A i \in 1..Len(d) : d[i] \in Byte
    BY Fields
  <1>1. CASE Len(d) <= room
    BY <1>1, Writes DEF read_from_fd
  <1>2. CASE Len(d) > room
    <2> DEFINE d1 == SubSeq(d, 1, room)
               d2 == SubSeq(d, room + 1, Len(d))
    <2> HIDE DEF room
    <2>1. /\ d1 \in Seq(Byte) /\ Len(d1) = room /\ d2 \in Seq(Byte)
      <3>1. \A i \in 1..room : d[i] \in Byte
        BY <1>0, <1>2
      <3>2. \A i \in (room + 1)..Len(d) : d[i] \in Byte
        BY <1>0, <1>2
      <3>3. d1 \in Seq(Byte) /\ Len(d1) = IF 1 <= room THEN room - 1 + 1 ELSE 0
        BY <3>1, <1>0, SubSeqProperties
      <3>4. d2 \in Seq(Byte)
        BY <3>2, <1>0, SubSeqProperties
      <3> QED
        BY <3>3, <3>4, <1>0
    <2>2. d1 \o d2 = d
      <3>1. 1 \in 1..(Len(d) + 1) /\ room \in (1 - 1)..Len(d) /\ Len(d) \in room..Len(d)
        BY <1>0, <1>2
      <3>2. d1 \o d2 = SubSeq(d, 1, Len(d))
        BY <3>1, ConcatAdjacentSubSeq, Zenon
      <3> QED
        BY <3>2, SubSeqFull, Zenon
    <2> HIDE DEF d1, d2
    <2>3. Written(b, d1) \in Buffers /\ read_as_string(Written(b, d1)) = read_as_string(b) \o d1
      BY <2>1, <1>0, Writes DEF room
    <2>4. /\ append(Written(b, d1), d2) \in Buffers
          /\ read_as_string(append(Written(b, d1), d2)) = (read_as_string(b) \o d1) \o d2
      BY <2>1, <2>3, Appends, Zenon
    <2>5. (read_as_string(b) \o d1) \o d2 = read_as_string(b) \o d
      <3> DEFINE s == read_as_string(b)
      <3>1. s \in Seq(Byte)
        BY ReadableSeq
      <3> HIDE DEF s
      <3>2. (s \o d1) \o d2 = s \o (d1 \o d2)
        BY <3>1, <2>1, ConcatAssociative, SMTT(60)
      <3> QED
        BY <3>2, <2>2 DEF s
    <2>6. read_from_fd(b, d) = append(Written(b, d1), d2)
      BY <1>0, <1>2 DEF read_from_fd, room, d1, d2
    <2> QED
      BY <2>4, <2>5, <2>6
  <1> QED
    BY <1>0, <1>1, <1>2

\* Room for n bytes in front; the readable bytes stay, unless a new vector is
\* made.
LEMMA PrependRoom ==
    ASSUME NEW b \in Buffers, NEW n \in Nat, n > b.read_idx
    PROVE  LET c == PrependSpace(b, n)
           IN  /\ c.buf \in Seq(Byte) /\ Len(c.buf) = n + readable_size(b) + kPrependableSize
               /\ c.read_idx = kPrependableSize + n /\ c.write_idx = b.write_idx
               /\ \A i \in 1..readable_size(b) :
                     c.buf[kPrependableSize + n + i] = read_as_string(b)[i]
  <1> DEFINE s == read_as_string(b)
             z == Resized(<<>>, n + readable_size(b) + kPrependableSize)
             v == Copied(z, kPrependableSize + n, s)
  <1>0. kPrependableSize \in Nat
    BY DEF kPrependableSize
  <1>1. s \in Seq(Byte) /\ Len(s) = readable_size(b) /\ readable_size(b) \in Nat
    BY ReadableSeq, Fields DEF readable_size
  <1> HIDE DEF s
  <1>2. <<>> \in Seq(Byte) /\ n + readable_size(b) + kPrependableSize \in Nat
    BY <1>0, <1>1
  <1>3. z \in Seq(Byte) /\ Len(z) = n + readable_size(b) + kPrependableSize
    BY <1>2, ResizedBytes, Zenon
  <1> HIDE DEF z
  <1>4. kPrependableSize + n \in Nat /\ kPrependableSize + n + Len(s) <= Len(z)
    BY <1>0, <1>1, <1>3
  <1>5. /\ v \in Seq(Byte) /\ Len(v) = Len(z)
        /\ \A i \in 1..Len(s) : v[kPrependableSize + n + i] = s[i]
    BY <1>1, <1>3, <1>4, CopiedBytes
  <1>6. PrependSpace(b, n) = [buf |-> v, read_idx |-> kPrependableSize + n, write_idx |-> b.write_idx]
    BY Fields DEF PrependSpace, s, z
  <1> HIDE DEF v
  <1> QED
    BY <1>1, <1>3, <1>5, <1>6 DEF s

\* prepend() puts bytes in front if they fit there.
LEMMA Prepends ==
    ASSUME NEW b \in Buffers, NEW d \in Seq(Byte), Len(d) <= b.read_idx
    PROVE  /\ prepend(b, d) \in Buffers
           /\ read_as_string(prepend(b, d)) = d \o read_as_string(b)
  <1> DEFINE at == b.read_idx - Len(d)
             v == Copied(b.buf, at, d)
             c == prepend(b, d)
             s == read_as_string(b)
  <1>0. at \in Nat /\ Len(d) \in Nat /\ at + Len(d) = b.read_idx /\ at + Len(d) <= Len(b.buf)
    BY Fields
  <1> HIDE DEF at
  <1>1. /\ v \in Seq(Byte) /\ Len(v) = Len(b.buf)
        /\ \A i \in 1..Len(d) : v[at + i] = d[i]
        /\ \A i \in 1..Len(b.buf) : i > at + Len(d) => v[i] = b.buf[i]
    BY <1>0, Fields, CopiedBytes
  <1>2. c = [buf |-> v, read_idx |-> at, write_idx |-> b.write_idx]
    BY DEF prepend, PrependSpace, at
  <1> HIDE DEF v, c
  <1>3. c \in Buffers
    <2>1. at <= b.write_idx /\ b.write_idx <= Len(v)
      BY <1>0, <1>1, Fields
    <2> QED
      BY <1>0, <1>1, <1>2, <2>1, Fields, IsBuffer
  <1>4. /\ s \in Seq(Byte) /\ Len(s) = b.write_idx - b.read_idx /\ Len(s) \in Nat
        /\ \A i \in 1..Len(s) : s[i] = b.buf[b.read_idx + i]
    BY ReadableSeq
  <1> HIDE DEF s
  <1>5. /\ d \o s \in Seq(Byte) /\ Len(d \o s) = Len(d) + Len(s)
        /\ \A i \in 1..(Len(d) + Len(s)) : (d \o s)[i] = IF i <= Len(d) THEN d[i] ELSE s[i - Len(d)]
    BY <1>4, ConcatProperties, Zenon
  <1>6. /\ read_as_string(c) \in Seq(Byte) /\ Len(read_as_string(c)) = Len(d) + Len(s)
        /\ \A i \in 1..(Len(d) + Len(s)) : read_as_string(c)[i] = v[at + i]
    <2>1. c.write_idx - c.read_idx = Len(d) + Len(s) /\ c.read_idx = at /\ c.buf = v
      BY <1>0, <1>2, <1>4, Fields
    <2> QED
      BY <2>1, <1>3, ReadableSeq
  <1>7. ASSUME NEW i \in 1..(Len(d) + Len(s))
        PROVE  read_as_string(c)[i] = (d \o s)[i]
    <2>0. i \in Nat /\ i > 0 /\ i <= Len(d) + Len(s)
      BY <1>0, <1>4
    <2>1. CASE i <= Len(d)
      <3>1. i \in 1..Len(d)
        BY <2>0, <2>1, <1>0
      <3>2. v[at + i] = d[i]
        BY <3>1, <1>1
      <3> QED
        BY <3>2, <2>1, <1>5, <1>6
    <2>2. CASE i > Len(d)
      <3>1. /\ at + i \in 1..Len(b.buf) /\ at + i > at + Len(d)
            /\ i - Len(d) \in 1..Len(s) /\ at + i = b.read_idx + (i - Len(d))
        <4>1. /\ b.write_idx \in Nat /\ b.read_idx \in Nat /\ Len(b.buf) \in Nat
              /\ b.read_idx <= b.write_idx /\ b.write_idx <= Len(b.buf)
          BY Fields
        <4>2. i - Len(d) \in 1..Len(s)
          BY <1>0, <1>4, <2>0, <2>2
        <4>3. at + i = b.read_idx + (i - Len(d))
          BY <4>1, <1>0, <2>0
        <4>4. at + i > at + Len(d) /\ at + i <= Len(b.buf) /\ at + i \in Nat /\ at + i > 0
          BY <4>1, <1>0, <1>4, <2>0, <2>2, SMTT(60)
        <4> QED
          BY <4>1, <4>2, <4>3, <4>4
      <3>2. v[at + i] = s[i - Len(d)]
        BY <3>1, <1>1, <1>4
      <3> QED
        BY <3>2, <2>2, <1>0, <1>4, <1>5, <1>6
    <2> QED
      BY <2>1, <2>2, <1>0, <1>4
  <1>8. read_as_string(c) = d \o s
    BY <1>5, <1>6, <1>7, SeqEqual
  <1> QED
    BY <1>3, <1>8 DEF c, s

\* A longer prepend() cuts off the end: of the bytes that should be readable
\* it keeps the first write_idx_ - kPrependableSize.
LEMMA CutsOff ==
    ASSUME NEW b \in Buffers, NEW d \in Seq(Byte), Len(d) > b.read_idx
    PROVE  /\ prepend(b, d) \in Buffers
           /\ Len(read_as_string(prepend(b, d))) = b.write_idx - kPrependableSize
           /\ Len(read_as_string(prepend(b, d))) < Len(d \o read_as_string(b))
           /\ \A i \in 1..(b.write_idx - kPrependableSize) :
                 read_as_string(prepend(b, d))[i] = (d \o read_as_string(b))[i]
  <1> DEFINE n == Len(d)
             p == PrependSpace(b, n)
             v == Copied(p.buf, kPrependableSize, d)
             c == prepend(b, d)
             s == read_as_string(b)
             k == kPrependableSize
  <1>0. k \in Nat /\ n \in Nat
    BY DEF kPrependableSize
  <1>1. /\ p.buf \in Seq(Byte) /\ Len(p.buf) = n + readable_size(b) + k
        /\ p.read_idx = k + n /\ p.write_idx = b.write_idx
        /\ \A i \in 1..readable_size(b) : p.buf[k + n + i] = s[i]
    BY <1>0, PrependRoom
  <1>2. /\ s \in Seq(Byte) /\ Len(s) = readable_size(b) /\ Len(s) \in Nat
        /\ Len(s) = b.write_idx - b.read_idx
    BY ReadableSeq, Fields DEF readable_size
  <1>3. /\ b.write_idx \in Nat /\ b.read_idx \in Nat /\ b.read_idx <= b.write_idx
        /\ k <= b.write_idx
    BY Fields
  <1> HIDE DEF s, p, k, n
  <1>4. k + n <= Len(p.buf)
    BY <1>0, <1>1, <1>2
  <1>5. /\ v \in Seq(Byte) /\ Len(v) = Len(p.buf)
        /\ \A i \in 1..n : v[k + i] = d[i]
        /\ \A i \in 1..Len(p.buf) : i > k + n => v[i] = p.buf[i]
    BY <1>0, <1>1, <1>4, CopiedBytes DEF k, n
  <1>6. c = [buf |-> v, read_idx |-> k, write_idx |-> b.write_idx]
    <2>1. p.read_idx - n = k
      BY <1>0, <1>1
    <2> QED
      BY <1>1, <2>1 DEF prepend, p, n, k
  <1> HIDE DEF v, c
  <1>7. c \in Buffers
    <2>0. n > b.read_idx
      BY DEF n
    <2>1. b.write_idx <= Len(v)
      <3>1. Len(v) = n + (b.write_idx - b.read_idx) + k
        BY <1>1, <1>2, <1>5, Zenon
      <3> QED
        BY <3>1, <1>0, <1>3, <2>0
    <2> QED
      BY <1>0, <1>3, <1>5, <1>6, <2>1, IsBuffer DEF k
  <1>8. /\ Len(read_as_string(c)) = b.write_idx - k
        /\ \A i \in 1..(b.write_idx - k) : read_as_string(c)[i] = v[k + i]
    <2>1. c.write_idx - c.read_idx = b.write_idx - k /\ c.read_idx = k /\ c.buf = v
      BY <1>6
    <2> QED
      BY <2>1, <1>7, ReadableSeq
  <1>9. /\ Len(d \o s) = n + Len(s)
        /\ \A i \in 1..(n + Len(s)) : (d \o s)[i] = IF i <= n THEN d[i] ELSE s[i - n]
    BY <1>2, ConcatProperties DEF n
  <1>10. Len(read_as_string(c)) < Len(d \o s)
    BY <1>0, <1>2, <1>3, <1>8, <1>9 DEF n, k, kPrependableSize
  <1>11. ASSUME NEW i \in 1..(b.write_idx - k)
         PROVE  read_as_string(c)[i] = (d \o s)[i]
    <2>0. i \in Nat /\ i > 0 /\ i \in 1..(n + Len(s))
      BY <1>0, <1>2, <1>3 DEF n
    <2>1. CASE i <= n
      <3>1. i \in 1..n
        BY <2>0, <2>1, <1>0
      <3> QED
        BY <3>1, <2>0, <2>1, <1>5, <1>8, <1>9
    <2>2. CASE i > n
      <3>1. i - n \in 1..Len(s) /\ k + i \in 1..Len(p.buf) /\ k + i > k + n /\ k + i = k + n + (i - n)
        BY <2>0, <2>2, <1>0, <1>1, <1>2
      <3>2. v[k + i] = s[i - n]
        BY <3>1, <1>1, <1>2, <1>5
      <3> QED
        BY <3>2, <2>0, <2>2, <1>0, <1>8, <1>9, SMTT(60)
    <2> QED
      BY <2>1, <2>2, <2>0, <1>0 DEF n
  <1> QED
    BY <1>7, <1>8, <1>10, <1>11 DEF c, s, k

-----------------------------------------------------------------------------
\* A new buffer is empty.
LEMMA Empty == Buffer0 \in Buffers /\ read_as_string(Buffer0) = <<>>
  <1>1. Buffer0 \in Buffers
    <2> DEFINE size == kInitialSize + kPrependableSize
               v == Resized(<<>>, size)
    <2>1. size \in Nat /\ kPrependableSize \in Nat /\ kPrependableSize <= size
      BY DEF kInitialSize, kPrependableSize
    <2>2. v \in Seq(Byte) /\ Len(v) = size
      <3> HIDE DEF size
      <3>1. <<>> \in Seq(Byte)
        OBVIOUS
      <3> QED
        BY <2>1, <3>1, ResizedBytes, Zenon
    <2>3. Buffer0 = [buf |-> v, read_idx |-> kPrependableSize, write_idx |-> kPrependableSize]
      BY DEF Buffer0
    <2> HIDE DEF v, size
    <2> QED
      BY <2>1, <2>2, <2>3, IsBuffer
  <1>2. Len(read_as_string(Buffer0)) = 0 /\ read_as_string(Buffer0) \in Seq(Byte)
    BY <1>1, ReadableSeq DEF Buffer0, kPrependableSize
  <1> QED
    BY <1>1, <1>2, EmptySeq

\* A call keeps a buffer a buffer and does to the queue what it was asked for,
\* unless it overruns the vector or prepends more than there is room for.
LEMMA SoundStep ==
    ASSUME buffer \in Buffers, BufferNext, ~Overrun
    PROVE  buffer' \in Buffers /\ (LongPrepend \/ Queue!Next)
  <1> USE DEF Does
  <1>1. ASSUME NEW d \in Seq(Byte), reads(d)
        PROVE  buffer' \in Buffers /\ Queue!Put(d)
    BY <1>1, Reads, Zenon DEF reads, Queue!Put
  <1>2. ASSUME NEW d \in Seq(Byte), appends(d)
        PROVE  buffer' \in Buffers /\ Queue!Put(d)
    BY <1>2, Appends, Zenon DEF appends, Queue!Put
  <1>3. ASSUME NEW d \in Seq(Byte), prepends(d)
        PROVE  buffer' \in Buffers /\ (LongPrepend \/ Queue!PutInFront(d))
    <2>1. CASE Len(d) <= buffer.read_idx
      BY <1>3, <2>1, Prepends, Zenon DEF prepends, Queue!PutInFront
    <2>2. CASE Len(d) > buffer.read_idx
      BY <1>3, <2>2, CutsOff, Zenon DEF prepends, LongPrepend
    <2> QED
      BY <2>1, <2>2, Fields
  <1>4. ASSUME NEW d \in Seq(Byte), has_writeen(d)
        PROVE  buffer' \in Buffers /\ Queue!Put(d)
    <2>1. ~(Len(d) > writable_size(buffer))
      BY <1>4 DEF Overrun
    <2>2. Len(d) <= writable_size(buffer)
      BY <2>1, Fields
    <2> QED
      BY <1>4, <2>2, Writes, Zenon DEF has_writeen, Queue!Put
  <1>5. ASSUME NEW n \in Nat, consumes(n)
        PROVE  buffer' \in Buffers /\ Queue!Take(n)
    BY <1>5, Consumes, Zenon DEF consumes, Queue!Take
  <1>6. ASSUME NEW n \in Nat, write_to_fd(n)
        PROVE  buffer' \in Buffers /\ Queue!Take(n)
    BY <1>5, <1>6 DEF write_to_fd
  <1>7. ASSUME NEW n \in Nat, ensures_writable(n)
        PROVE  buffer' \in Buffers /\ Queue!Keep
    BY <1>7, MakesRoom, Zenon DEF ensures_writable, Queue!Keep
  <1>8. ASSUME consumes_all
        PROVE  buffer' \in Buffers /\ \E n \in Nat : Queue!Take(n)
    <2>1. consumes(readable_size(buffer)) /\ readable_size(buffer) \in Nat
      BY <1>8, Fields DEF consumes_all, consumes, consume
    <2> QED
      BY <1>5, <2>1
  <1>9. ASSUME shrinks
        PROVE  buffer' \in Buffers /\ Queue!Keep
    <2>1. Fits(buffer)
      BY <1>9 DEF Overrun
    <2> QED
      BY <1>9, <2>1, Shrinks, Zenon DEF shrinks, Queue!Keep
  <1> QED
    BY <1>1, <1>2, <1>3, <1>4, <1>5, <1>6, <1>7, <1>8, <1>9 DEF BufferNext, Queue!Next

\* The calls of Connection never need the client's care.
LEMMA ConnectionStep ==
    ASSUME buffer \in Buffers, ConnectionNext
    PROVE  buffer' \in Buffers /\ Queue!Next
  <1> USE DEF Does
  <1>1. ASSUME NEW d \in Seq(Byte), reads(d)
        PROVE  buffer' \in Buffers /\ Queue!Put(d)
    BY <1>1, Reads, Zenon DEF reads, Queue!Put
  <1>2. ASSUME NEW d \in Seq(Byte), appends(d)
        PROVE  buffer' \in Buffers /\ Queue!Put(d)
    BY <1>2, Appends, Zenon DEF appends, Queue!Put
  <1>3. ASSUME NEW n \in Nat, consumes(n)
        PROVE  buffer' \in Buffers /\ Queue!Take(n)
    BY <1>3, Consumes, Zenon DEF consumes, Queue!Take
  <1> QED
    BY <1>1, <1>2, <1>3 DEF ConnectionNext, write_to_fd, Queue!Next

\* Whatever is called, in whatever order, read_idx_ and write_idx_ stay in order
\* and inside the vector, and room for kPrependableSize bytes is before
\* write_idx_, on which prepend() and ensure_writable() rely; as long as the
\* client neither writes more than writable_size() nor calls shrink() when the
\* bytes do not fit behind kPrependableSize, which no method checks.
THEOREM IndexesInBounds ==
    BufferSpec /\ [][~Overrun]_<<buffer, last_call>> => [](buffer \in Buffers)
  <1>1. BufferInit => buffer \in Buffers
    BY Empty DEF BufferInit
  <1>2. /\ buffer \in Buffers
        /\ [BufferNext]_<<buffer, last_call>> /\ [~Overrun]_<<buffer, last_call>>
        => (buffer \in Buffers)'
    BY SoundStep
  <1> QED
    BY <1>1, <1>2, PTL DEF BufferSpec

\* The readable bytes are a queue of exactly the bytes the calls are given:
\* growing the vector, moving the bytes to its front and reading into two
\* buffers at once neither lose, nor repeat, nor reorder, nor change a byte.  For
\* clients that do not overrun the vector and prepend() no more than there is
\* room for in front.
THEOREM IsByteQueue ==
    BufferSpec /\ [][~Overrun /\ ~LongPrepend]_<<buffer, last_call>> => Queue!Spec
  <1> DEFINE Sound == [~Overrun /\ ~LongPrepend]_<<buffer, last_call>>
  <1>1. BufferInit => buffer \in Buffers /\ Queue!Init
    BY Empty DEF BufferInit, Queue!Init
  <1>2. buffer \in Buffers /\ [BufferNext]_<<buffer, last_call>> /\ Sound => (buffer \in Buffers)'
    BY SoundStep
  <1>3. buffer \in Buffers /\ [BufferNext]_<<buffer, last_call>> /\ Sound
        => [Queue!Next]_<<read_as_string(buffer), last_call>>
    <2>1. UNCHANGED <<buffer, last_call>> => UNCHANGED <<read_as_string(buffer), last_call>>
      OBVIOUS
    <2> QED
      BY <2>1, SoundStep
  <1> QED
    BY <1>1, <1>2, <1>3, PTL DEF BufferSpec, Queue!Spec

\* The buffers of a connection are such queues without a condition: it reads
\* into read_buf_ and consumes what was parsed, appends to write_buf_ and writes
\* from there, in whatever order and portions the sockets give.
THEOREM ConnectionBuffers == ConnectionSpec => Queue!Spec /\ [](buffer \in Buffers)
  <1>1. BufferInit => buffer \in Buffers /\ Queue!Init
    BY Empty DEF BufferInit, Queue!Init
  <1>2. buffer \in Buffers /\ [ConnectionNext]_<<buffer, last_call>> => (buffer \in Buffers)'
    BY ConnectionStep
  <1>3. buffer \in Buffers /\ [ConnectionNext]_<<buffer, last_call>>
        => [Queue!Next]_<<read_as_string(buffer), last_call>>
    <2>1. UNCHANGED <<buffer, last_call>> => UNCHANGED <<read_as_string(buffer), last_call>>
      OBVIOUS
    <2> QED
      BY <2>1, ConnectionStep
  <1> QED
    BY <1>1, <1>2, <1>3, PTL DEF ConnectionSpec, Queue!Spec

-----------------------------------------------------------------------------
(* The health table. *)

\* What is known of a backend, in the table or in a copy, is what its tests say.
Agrees(b, h) ==
    /\ h.healthy => failed[b] = h.consecutive_failures /\ failed[b] < Threshold
    /\ removals = 0 /\ failed[b] < Threshold =>
          h.healthy /\ failed[b] = h.consecutive_failures

TableAgrees == \A b \in Backends : Agrees(b, health[b])

CopiesAgree ==
    \A i \in 1..Len(snapshot) :
        snapshot[i].health.known /\ Agrees(snapshot[i].backend, snapshot[i].health)

OneCopy ==
    \A i, j \in 1..Len(snapshot) : snapshot[i].backend = snapshot[j].backend => i = j

\* An entry that is not in the table is not healthy; without a removal all are.
Entries ==
    \A b \in Backends :
        /\ ~health[b].known => ~health[b].healthy
        /\ removals = 0 => health[b].known

HealthIInv == HealthTypeOK /\ TableAgrees /\ CopiesAgree /\ OneCopy /\ Entries

-----------------------------------------------------------------------------
\* At the start every backend is in the table and counts as failed.
LEMMA InitHealthIInv == HealthInit => HealthIInv
  <1> SUFFICES ASSUME HealthInit
               PROVE  HealthIInv
    OBVIOUS
  <1>1. HealthTypeOK
    <2>1. health \in [Backends -> Health]
      <3>1. Added \in Health
        <4>1. 0 \in Failures
          BY DEF Failures, Threshold
        <4> QED
          BY <4>1 DEF Added, Health
      <3> QED
        BY <3>1 DEF HealthInit
    <2>2. snapshot \in Seq([backend : Backends, health : Health])
      BY DEF HealthInit
    <2> QED
      BY <2>1, <2>2, HealthAssumption DEF HealthInit, HealthTypeOK, Failures, Threshold
  <1>2. Len(snapshot) = 0
    BY DEF HealthInit
  <1>3. TableAgrees /\ Entries
    BY DEF HealthInit, TableAgrees, Entries, Agrees, Added, Threshold
  <1> QED
    BY <1>1, <1>2, <1>3 DEF HealthIInv, CopiesAgree, OneCopy

\* A test of b brings what agreed before it into agreement with its outcome.
LEMMA TestAgrees ==
    ASSUME NEW b \in Backends, NEW h \in Health, NEW now_healthy \in BOOLEAN,
           failed[b] \in Failures, Agrees(b, h),
           failed'[b] = IF now_healthy THEN 0 ELSE More(failed[b]), removals' = removals
    PROVE  updated(h, now_healthy) \in Health /\ Agrees(b, updated(h, now_healthy))'
  <1>1. CASE now_healthy = TRUE
    <2>1. updated(h, now_healthy) = [known |-> h.known, healthy |-> TRUE, consecutive_failures |-> 0]
      BY <1>1, Zenon DEF updated, Health
    <2>2. updated(h, now_healthy) \in Health
      BY <2>1 DEF Health, Failures, Threshold
    <2>3. failed'[b] = 0
      BY <1>1
    <2> QED
      BY <2>1, <2>2, <2>3 DEF Agrees, Threshold
  <1>2. CASE now_healthy = FALSE
    <2> DEFINE n == More(h.consecutive_failures)
               ok == h.healthy /\ n < Threshold
    <2>1. updated(h, now_healthy) = [known |-> h.known, healthy |-> ok, consecutive_failures |-> n]
      BY <1>2, Zenon DEF updated, Health
    <2>2. n \in Failures
      BY DEF More, Health, Failures, Threshold
    <2>3. updated(h, now_healthy) \in Health
      <3> HIDE DEF n
      <3>1. h.known \in BOOLEAN /\ ok \in BOOLEAN
        BY DEF Health
      <3> QED
        BY <2>1, <2>2, <3>1 DEF Health
    <2>4. failed'[b] = More(failed[b])
      BY <1>2
    <2> QED
      BY <2>1, <2>3, <2>4 DEF Agrees, More, Failures, Threshold, Health
  <1> QED
    BY <1>1, <1>2, Zenon

\* An entry that comes or goes.
LEMMA TableStep ==
    ASSUME HealthIInv, add_backend \/ remove_backend
    PROVE  HealthIInv'
  <1>0. HealthTypeOK
    BY DEF HealthIInv
  <1>1. Added \in Health /\ Unknown \in Health
    <2>1. 0 \in Failures
      BY DEF Failures, Threshold
    <2> QED
      BY <2>1 DEF Added, Unknown, Health
  <1>2. PICK b \in Backends, h \in {Added, Unknown} :
            /\ health' = [health EXCEPT ![b] = h]
            /\ h = Added => ~health[b].known
    BY DEF add_backend, remove_backend, Added, Unknown
  <1>3. UNCHANGED <<snapshot, waited, failed>>
    BY DEF add_backend, remove_backend
  <1>4. removals' \in Nat /\ removals' > 0
    <2>1. CASE remove_backend
      BY <2>1, <1>0, HealthAssumption DEF remove_backend, HealthTypeOK
    <2>2. CASE add_backend
      <3>1. removals # 0
        BY <2>2 DEF add_backend, HealthIInv, Entries
      <3> QED
        BY <2>2, <3>1, <1>0, HealthAssumption DEF add_backend, HealthTypeOK
    <2> QED
      BY <2>1, <2>2
  <1>5. HealthTypeOK'
    <2>1. health' \in [Backends -> Health]
      BY <1>0, <1>1, <1>2 DEF HealthTypeOK
    <2>2. removals' \in 0..MaxRemovals
      BY <1>0, HealthAssumption DEF HealthTypeOK, add_backend, remove_backend
    <2> QED
      BY <2>1, <2>2, <1>0, <1>3 DEF HealthTypeOK
  <1>6. ~h.healthy /\ (h.known \/ ~h.healthy)
    BY DEF Added, Unknown
  <1>7. \A c \in Backends : health'[c] = IF c = b THEN h ELSE health[c]
    BY <1>0, <1>2 DEF HealthTypeOK
  <1>8. TableAgrees'
    BY <1>3, <1>4, <1>6, <1>7 DEF HealthIInv, TableAgrees, Agrees
  <1>9. CopiesAgree' /\ OneCopy'
    BY <1>3, <1>4 DEF HealthIInv, CopiesAgree, OneCopy, Agrees
  <1>10. Entries'
    BY <1>4, <1>6, <1>7 DEF HealthIInv, Entries
  <1> QED
    BY <1>5, <1>8, <1>9, <1>10 DEF HealthIInv

\* The copy of the table: one of each backend that is in it.
LEMMA BeginStep ==
    ASSUME HealthIInv, check_begin
    PROVE  HealthIInv'
  <1> DEFINE K == {b \in Backends : health[b].known}
             n == Cardinality(K)
  <1>0. HealthTypeOK
    BY DEF HealthIInv
  <1>1. n \in Nat
    <2>1. IsFiniteSet(K)
      BY HealthAssumption, FS_Subset
    <2> QED
      BY <2>1, FS_CardinalityType
  <1>2. PICK s \in Bijection(1..n, K) :
            snapshot' = [i \in DOMAIN s |-> [backend |-> s[i], health |-> health[s[i]]]]
    BY Zenon DEF check_begin, Known
  <1> HIDE DEF n
  <1>3. s \in [1..n -> K] /\ \A i, j \in 1..n : i # j => s[i] # s[j]
    BY DEF Bijection, Injection, IsInjective
  <1>4. snapshot' = [i \in 1..n |-> [backend |-> s[i], health |-> health[s[i]]]]
    BY <1>2, <1>3
  <1>5. \A i \in 1..n : s[i] \in Backends
    BY <1>3
  <1>6. snapshot' \in [1..n -> [backend : Backends, health : Health]]
    BY <1>0, <1>4, <1>5 DEF HealthTypeOK
  <1>7. snapshot' \in Seq([backend : Backends, health : Health]) /\ Len(snapshot') = n
    <2> DEFINE E == [backend : Backends, health : Health]
    <2> HIDE DEF E
    <2>1. \A f \in [1..n -> E] : f \in Seq(E) /\ Len(f) = n
      BY <1>1
    <2> QED
      BY <1>6, <2>1, Zenon DEF E
  <1>8. UNCHANGED <<health, waited, failed, removals>>
    BY DEF check_begin
  <1>9. HealthTypeOK'
    BY <1>0, <1>7, <1>8 DEF HealthTypeOK
  <1>10. \A i \in 1..n : snapshot'[i].backend = s[i] /\ snapshot'[i].health = health[s[i]]
    BY <1>4
  <1>11. CopiesAgree'
    BY <1>3, <1>5, <1>7, <1>8, <1>10 DEF HealthIInv, CopiesAgree, TableAgrees, Agrees
  <1>12. OneCopy'
    BY <1>3, <1>7, <1>10 DEF OneCopy
  <1>13. TableAgrees' /\ Entries'
    BY <1>8 DEF HealthIInv, TableAgrees, Entries, Agrees
  <1> QED
    BY <1>9, <1>11, <1>12, <1>13 DEF HealthIInv

\* A test ends: its outcome is counted and written to the table.
LEMMA ResultStep ==
    ASSUME HealthIInv, check_result
    PROVE  HealthIInv'
  <1>0. HealthTypeOK /\ snapshot # <<>>
    BY DEF HealthIInv, check_result
  <1> DEFINE E == [backend : Backends, health : Health]
  <1>1. snapshot \in Seq(E)
    BY <1>0 DEF HealthTypeOK
  <1> HIDE DEF E
  <1>e. PICK e \in E : e = Head(snapshot)
    BY <1>0, <1>1
  <1> DEFINE b == e.backend
  <1>2. /\ e = snapshot[1] /\ e \in E /\ 1 \in 1..Len(snapshot) /\ Len(snapshot) \in Nat
        /\ Tail(snapshot) \in Seq(E) /\ Len(Tail(snapshot)) = Len(snapshot) - 1
        /\ \A i \in 1..(Len(snapshot) - 1) : Tail(snapshot)[i] = snapshot[i + 1]
    BY <1>0, <1>1, <1>e
  <1>3. b \in Backends /\ e.health \in Health /\ e.health.known /\ Agrees(b, e.health)
    BY <1>2 DEF HealthIInv, CopiesAgree, E
  <1>4. PICK now_healthy \in BOOLEAN :
            /\ write_back(b, updated(e.health, now_healthy))
            /\ failed' = [failed EXCEPT ![b] = IF now_healthy THEN 0 ELSE More(@)]
    BY <1>e, Zenon DEF check_result
  <1>5. snapshot' = Tail(snapshot) /\ waited' = 0 /\ removals' = removals
    BY DEF check_result
  <1> DEFINE u == updated(e.health, now_healthy)
  <1>6. \A c \in Backends : failed[c] \in Failures
    BY <1>0 DEF HealthTypeOK
  <1>7. /\ failed'[b] = IF now_healthy THEN 0 ELSE More(failed[b])
        /\ \A c \in Backends \ {b} : failed'[c] = failed[c]
    BY <1>0, <1>3, <1>4 DEF HealthTypeOK
  <1>8. u \in Health /\ Agrees(b, u)'
    BY <1>3, <1>5, <1>6, <1>7, TestAgrees
  <1> HIDE DEF u, b
  <1>9. /\ \A c \in Backends \ {b} : health'[c] = health[c]
        /\ health'[b] = IF health[b].known THEN u ELSE health[b]
        /\ health' \in [Backends -> Health]
    BY <1>0, <1>3, <1>4, <1>8 DEF HealthTypeOK, write_back, u
  <1>10. HealthTypeOK'
    <2>1. failed' \in [Backends -> Failures]
      <3>1. failed'[b] \in Failures
        BY <1>3, <1>6, <1>7 DEF More, Failures, Threshold
      <3> QED
        BY <1>0, <1>4, <1>7, <3>1, Zenon DEF HealthTypeOK
    <2>2. waited' \in 0..ConnectTimeout
      BY <1>5, HealthAssumption
    <2> QED
      BY <2>1, <2>2, <1>0, <1>2, <1>5, <1>9 DEF HealthTypeOK
  <1>11. u.known = e.health.known
    BY <1>3, <1>4, Zenon DEF u, updated, Health
  <1>12. ASSUME NEW c \in Backends
         PROVE  Agrees(c, health[c])'
    <2>1. CASE c # b
      BY <2>1, <1>5, <1>7, <1>9 DEF HealthIInv, TableAgrees, Agrees
    <2>2. CASE c = b /\ health[b].known
      BY <2>2, <1>8, <1>9 DEF Agrees
    <2>3. CASE c = b /\ ~health[b].known
      BY <2>3, <1>3, <1>5, <1>9 DEF HealthIInv, Entries, Agrees
    <2> QED
      BY <2>1, <2>2, <2>3
  <1>13. ASSUME NEW i \in 1..Len(snapshot')
         PROVE  snapshot'[i].health.known /\ Agrees(snapshot[i].backend, snapshot[i].health)'
    <2>1. i \in 1..(Len(snapshot) - 1) /\ i + 1 \in 1..Len(snapshot) /\ i + 1 # 1
      BY <1>2, <1>5
    <2>2. snapshot'[i] = snapshot[i + 1]
      BY <1>2, <1>5, <2>1
    <2>3. snapshot[i + 1].backend \in Backends \ {b}
      <3>1. snapshot[i + 1] \in E
        BY <1>1, <2>1
      <3> QED
        BY <1>2, <2>1, <3>1 DEF HealthIInv, OneCopy, b, E
    <2>4. snapshot[i + 1].health.known /\ Agrees(snapshot[i + 1].backend, snapshot[i + 1].health)
      BY <2>1 DEF HealthIInv, CopiesAgree
    <2> QED
      BY <2>2, <2>3, <2>4, <1>5, <1>7 DEF Agrees
  <1>14. OneCopy'
    BY <1>2, <1>5 DEF HealthIInv, OneCopy
  <1>15. ASSUME NEW c \in Backends
         PROVE  (~health[c].known => ~health[c].healthy)' /\ (removals = 0 => health[c].known)'
    BY <1>3, <1>5, <1>9, <1>11, Zenon DEF HealthIInv, Entries
  <1> QED
    BY <1>10, <1>12, <1>13, <1>14, <1>15 DEF HealthIInv, TableAgrees, CopiesAgree, Entries

\* Every step keeps the agreement.
LEMMA NextHealthIInv == HealthIInv /\ [HealthNext]_health_vars => HealthIInv'
  <1> SUFFICES ASSUME HealthIInv, [HealthNext]_health_vars
               PROVE  HealthIInv'
    OBVIOUS
  <1>1. CASE check_waits \/ UNCHANGED health_vars
    <2>1. UNCHANGED <<health, snapshot, failed, removals>>
      BY <1>1 DEF check_waits, health_vars
    <2>2. waited' \in 0..ConnectTimeout
      BY <1>1, HealthAssumption DEF HealthIInv, HealthTypeOK, check_waits, health_vars
    <2> QED
      BY <2>1, <2>2 DEF HealthIInv, HealthTypeOK, TableAgrees, CopiesAgree, OneCopy, Entries, Agrees
  <1> QED
    BY <1>1, TableStep, BeginStep, ResultStep DEF HealthNext

\* However many backends there are, and whenever they are added and removed,
\* a backend is shown as healthy only if its last tests say so, and always then
\* as long as none was removed: check_all() may work on copies without the lock
\* and write them back.
THEOREM TableFollowsTests == HealthSpec => []HealthTracksTests
  <1>1. HealthIInv => HealthTracksTests
    BY DEF HealthIInv, TableAgrees, Agrees, HealthTracksTests
  <1> QED
    BY InitHealthIInv, NextHealthIInv, <1>1, PTL DEF HealthSpec

-----------------------------------------------------------------------------
(* The timers. *)

\* Identifiers are those given out, each in one entry; what was cancelled is
\* marked; a batch has a timer once.
HeapOK ==
    /\ TimerTypeOK
    /\ \A e \in heap : e.id \in 1..(next_id - 1) /\ (e.id \in cancelled => e.cancelled)
    /\ \A i \in cancelled : i < next_id
    /\ \A i, j \in 1..Len(ready) : ready[i] = ready[j] => i = j

CheckTime == ConnectTimeout * Cardinality(Backends)

\* How late a timer may be, by the place of the reactor thread, beside what the
\* callbacks have taken.
Base ==
    CASE pc = "check"  -> CheckTime + DefaultTimeout * interrupts
      [] pc = "wait"   -> CheckTime + DefaultTimeout * interrupts + (DefaultTimeout - sleep)
      [] pc \in {"sockets", "idle"} -> CheckTime + DefaultTimeout * interrupts + DefaultTimeout
      [] pc = "calls"  -> IF HealthTimer \in Range(ready) THEN 0 ELSE CheckTime
      [] pc = "health" -> ConnectTimeout * (Cardinality(Backends) - Len(snapshot)) + waited

Allowed == Base + busy

\* No entry is late by more than n.
Late(n) == \A e \in heap : e.left >= -n

\* There are copies to test only during a check, which is called first in its
\* batch.
CheckOK ==
    /\ pc # "health" => snapshot = <<>>
    /\ snapshot = <<>> => waited = 0
    /\ pc = "health" => ready # <<>> /\ Head(ready) = HealthTimer
    /\ Len(snapshot) <= Cardinality(Backends)
    /\ pc = "wait" => sleep <= DefaultTimeout

IInv == LoopTypeOK /\ HealthIInv /\ HeapOK /\ CheckOK /\ Late(Allowed)

-----------------------------------------------------------------------------
\* A function on the first n numbers is a sequence.
LEMMA SeqOf ==
    ASSUME NEW E, NEW n \in Nat, NEW f \in [1..n -> E]
    PROVE  f \in Seq(E) /\ Len(f) = n
  OBVIOUS

\* The smaller and the larger of two numbers.
LEMMA OfTwo ==
    ASSUME NEW a \in Int, NEW b \in Int
    PROVE  /\ Min({a, b}) \in Int /\ Min({a, b}) <= a /\ Min({a, b}) <= b
           /\ Max({a, b}) \in Int /\ Max({a, b}) = IF a >= b THEN a ELSE b
  <1>1. \E x \in {a, b} : \A y \in {a, b} : x <= y
    OBVIOUS
  <1>2. Min({a, b}) \in {a, b} /\ \A y \in {a, b} : Min({a, b}) <= y
    BY <1>1, Zenon DEF Min
  <1>3. \E x \in {a, b} : \A y \in {a, b} : x >= y
    OBVIOUS
  <1>4. Max({a, b}) \in {a, b} /\ \A y \in {a, b} : Max({a, b}) >= y
    BY <1>3, Zenon DEF Max
  <1>5. PICK m : m = Min({a, b})
    OBVIOUS
  <1>6. PICK n : n = Max({a, b})
    OBVIOUS
  <1>7. m \in Int /\ m <= a /\ m <= b
    BY <1>2, <1>5
  <1>8. n \in Int /\ n = IF a >= b THEN a ELSE b
    BY <1>4, <1>6
  <1> QED
    BY <1>5, <1>6, <1>7, <1>8

\* The timeout of epoll_wait is between a tick and the default.
LEMMA Timeout ==
    ASSUME HeapOK, NEW t \in next_timeout_ms
    PROVE  compute_timeout_ms(t) \in 1..DefaultTimeout
  <1>1. \A e \in heap : e.left \in Int
    BY DEF HeapOK, TimerTypeOK, Entry
  <1>2. t \in Int
    <2>1. t = -1 \/ \E e \in heap : t = Max({e.left, 0})
      BY Zenon DEF next_timeout_ms
    <2>2. 0 \in Int /\ -1 \in Int
      OBVIOUS
    <2>3. \A e \in heap : Max({e.left, 0}) \in Int
      BY <1>1, <2>2, OfTwo, Zenon
    <2> QED
      BY <2>1, <2>2, <2>3, Zenon
  <1>3. DefaultTimeout \in Int /\ DefaultTimeout > 0 /\ 1 \in Int
    BY TimeoutAssumption
  <1>4. PICK m \in Int : m = Min({t, DefaultTimeout}) /\ m <= DefaultTimeout
    BY <1>2, <1>3, OfTwo, Zenon
  <1>5. PICK k : k = Max({m, 1}) /\ k = IF m >= 1 THEN m ELSE 1
    BY <1>3, <1>4, OfTwo, Zenon
  <1>6. compute_timeout_ms(t) = IF t < 0 THEN DefaultTimeout ELSE k
    BY <1>4, <1>5, Zenon DEF compute_timeout_ms
  <1> QED
    BY <1>3, <1>4, <1>5, <1>6

\* A new timer.
LEMMA AddStep ==
    ASSUME HeapOK, NEW d \in Nat, NEW i \in {0} \cup Intervals, run_timer(d, i)
    PROVE  HeapOK' /\ \A n \in Nat : Late(n) => Late(n)'
  <1> DEFINE x == [id |-> next_id, left |-> d, interval |-> i, cancelled |-> FALSE]
  <1>1. /\ next_id \in 1..MaxTimers /\ next_id' = next_id + 1 /\ heap' = heap \cup {x}
        /\ UNCHANGED <<ready, cancelled>> /\ MaxTimers \in Nat
    BY TimerAssumption DEF run_timer, HeapOK, TimerTypeOK
  <1>2. x \in Entry /\ x.id = next_id /\ x.left = d /\ ~x.cancelled
    BY <1>1 DEF Entry
  <1>3. \A e \in heap : e \in Entry /\ e.id \in 1..(next_id - 1) /\ e.id # next_id
    BY <1>1 DEF HeapOK, TimerTypeOK
  <1> HIDE DEF x
  <1>5. TimerTypeOK'
    BY <1>1, <1>2, <1>3 DEF HeapOK, TimerTypeOK
  <1>6. next_id \notin cancelled
    BY <1>1 DEF HeapOK
  <1>7. \A e \in heap' : e.id \in 1..(next_id' - 1) /\ (e.id \in cancelled' => e.cancelled)
    <2>1. \A j \in 1..(next_id - 1) : j \in 1..(next_id' - 1)
      BY <1>1
    <2>2. next_id \in 1..(next_id' - 1)
      BY <1>1
    <2> QED
      BY <1>1, <1>2, <1>3, <1>6, <2>1, <2>2, Zenon DEF HeapOK
  <1>8. \A j \in cancelled' : j < next_id'
    BY <1>1 DEF HeapOK, TimerTypeOK
  <1>9. HeapOK'
    BY <1>1, <1>5, <1>7, <1>8 DEF HeapOK
  <1>10. ASSUME NEW n \in Nat, Late(n)
         PROVE  Late(n)'
    BY <1>1, <1>2, <1>10 DEF Late
  <1> QED
    BY <1>9, <1>10

\* A timer is marked as cancelled.
LEMMA CancelStep ==
    ASSUME HeapOK, cancel
    PROVE  HeapOK' /\ \A n \in Nat : Late(n) => Late(n)'
  <1>1. PICK e \in heap :
            /\ heap' = (heap \ {e}) \cup {[e EXCEPT !.cancelled = TRUE]}
            /\ cancelled' = cancelled \cup {e.id}
            /\ UNCHANGED <<next_id, ready>>
    BY DEF cancel
  <1> DEFINE x == [e EXCEPT !.cancelled = TRUE]
  <1>2. x \in Entry /\ x.id = e.id /\ x.left = e.left /\ x.cancelled
    BY Zenon DEF Entry, HeapOK, TimerTypeOK
  <1>3. heap' = (heap \ {e}) \cup {x}
    BY <1>1
  <1> HIDE DEF x
  <1>5. next_id \in 1..(MaxTimers + 1) /\ MaxTimers \in Nat /\ e.id \in 1..(next_id - 1)
    BY TimerAssumption DEF HeapOK, TimerTypeOK
  <1>6. \A f, g \in heap' : f.id = g.id => f = g
    <2>1. \A f, g \in heap : f.id = g.id => f = g
      BY DEF HeapOK, TimerTypeOK
    <2>2. \A f \in heap' : f = x \/ (f \in heap /\ f # e)
      BY <1>3
    <2> QED
      BY <2>1, <2>2, <1>2, Zenon
  <1>7. heap' \subseteq Entry
    BY <1>2, <1>3 DEF HeapOK, TimerTypeOK
  <1>8. cancelled' \subseteq 1..MaxTimers
    BY <1>1, <1>5 DEF HeapOK, TimerTypeOK
  <1>9. TimerTypeOK'
    BY <1>1, <1>6, <1>7, <1>8 DEF HeapOK, TimerTypeOK
  <1>10. \A f \in heap' : f.id \in 1..(next_id' - 1) /\ (f.id \in cancelled' => f.cancelled)
    BY <1>1, <1>2, <1>3, Zenon DEF HeapOK, TimerTypeOK
  <1>11. \A j \in cancelled' : j < next_id'
    BY <1>1, <1>5 DEF HeapOK
  <1>12. HeapOK'
    BY <1>1, <1>9, <1>10, <1>11 DEF HeapOK
  <1>13. ASSUME NEW n \in Nat, Late(n)
         PROVE  Late(n)'
    BY <1>2, <1>3, <1>13 DEF Late
  <1> QED
    BY <1>12, <1>13

\* The entries are finitely many: each has an identifier of its own.
LEMMA HeapFinite ==
    ASSUME HeapOK
    PROVE  \A S \in SUBSET heap : IsFiniteSet(S) /\ Cardinality(S) \in Nat
  <1>1. /\ next_id - 1 \in Int /\ \A e \in heap : e.id \in 1..(next_id - 1)
        /\ \A e, f \in heap : e.id = f.id => e = f
    BY DEF HeapOK, TimerTypeOK
  <1>2. [e \in heap |-> e.id] \in Injection(heap, 1..(next_id - 1))
    BY <1>1 DEF Injection, IsInjective
  <1>3. IsFiniteSet(1..(next_id - 1))
    BY <1>1, FS_Interval
  <1>4. IsFiniteSet(heap)
    BY <1>2, <1>3, FS_Injection
  <1>5. \A S \in SUBSET heap : S \subseteq heap
    OBVIOUS
  <1> QED
    BY <1>4, <1>5, FS_Subset, FS_CardinalityType

\* The heap after a step that gives every entry that stays a new time left.
LEMMA Renewed ==
    ASSUME HeapOK, UNCHANGED <<next_id, cancelled>>,
           \A x \in heap' : \E e \in heap :
               /\ x \in Entry /\ x.id = e.id /\ x.cancelled = e.cancelled
               /\ \A y \in heap' : y.id = e.id => y = x,
           ready' \in Seq(1..MaxTimers),
           \A i, j \in 1..Len(ready') : ready'[i] = ready'[j] => i = j
    PROVE  HeapOK'
  <1>1. heap' \subseteq Entry /\ \A x, y \in heap' : x.id = y.id => x = y
    BY Zenon
  <1>2. TimerTypeOK'
    BY <1>1 DEF HeapOK, TimerTypeOK
  <1>3. \A x \in heap' : x.id \in 1..(next_id - 1) /\ (x.id \in cancelled => x.cancelled)
    BY Zenon DEF HeapOK
  <1> QED
    BY <1>2, <1>3 DEF HeapOK

\* The time passes: every timer has a tick less left.
LEMMA ElapseStep ==
    ASSUME HeapOK, Elapse
    PROVE  HeapOK' /\ \A n \in Int : Late(n) => Late(n + 1)'
  <1>1. \A e \in heap : e \in Entry /\ e.left \in Int
    BY DEF HeapOK, TimerTypeOK, Entry
  <1> DEFINE Older(e) == [e EXCEPT !.left = @ - 1]
  <1>2. heap' = {Older(e) : e \in heap} /\ UNCHANGED <<next_id, ready, cancelled>>
    BY DEF Elapse
  <1>3. \A e \in heap : /\ Older(e) \in Entry /\ Older(e).id = e.id
                        /\ Older(e).cancelled = e.cancelled /\ Older(e).left = e.left - 1
    BY <1>1 DEF Entry
  <1> HIDE DEF Older
  <1>4. \A x \in heap' : \E e \in heap : x = Older(e)
    BY <1>2
  <1>5. \A e, f \in heap : e.id = f.id => e = f
    BY DEF HeapOK, TimerTypeOK
  <1>6. \A x \in heap' : \E e \in heap :
            /\ x \in Entry /\ x.id = e.id /\ x.cancelled = e.cancelled
            /\ \A y \in heap' : y.id = e.id => y = x
    <2> SUFFICES ASSUME NEW x \in heap'
                 PROVE  \E e \in heap : /\ x \in Entry /\ x.id = e.id /\ x.cancelled = e.cancelled
                                        /\ \A y \in heap' : y.id = e.id => y = x
      OBVIOUS
    <2>1. PICK e \in heap : x = Older(e)
      BY <1>4
    <2>2. ASSUME NEW y \in heap', y.id = e.id
          PROVE  y = x
      <3>1. PICK f \in heap : y = Older(f)
        BY <1>4
      <3>2. f = e
        BY <3>1, <2>2, <1>3, <1>5
      <3> QED
        BY <2>1, <3>1, <3>2, Zenon
    <2> QED
      BY <2>1, <2>2, <1>3, Zenon
  <1>7. HeapOK'
    <2>1. ready' \in Seq(1..MaxTimers) /\ \A i, j \in 1..Len(ready') : ready'[i] = ready'[j] => i = j
      BY <1>2 DEF HeapOK, TimerTypeOK
    <2> QED
      BY <2>1, <1>2, <1>6, Renewed
  <1>8. ASSUME NEW n \in Int, Late(n)
        PROVE  Late(n + 1)'
    <2>1. \A e \in heap : e.left - 1 >= -(n + 1)
      BY <1>1, <1>8 DEF Late
    <2>2. \A x \in heap' : x.left >= -(n + 1)
      BY <2>1, <1>3, <1>4
    <2> QED
      BY <2>2 DEF Late
  <1> QED
    BY <1>7, <1>8

\* tick(): what was due has left or comes later, and is called if it was not
\* cancelled.
LEMMA TickStep ==
    ASSUME HeapOK, tick
    PROVE  HeapOK' /\ Late(0)' /\ \A i \in 1..Len(ready') : ready'[i] \notin cancelled
  <1> DEFINE live == {e \in Due : ~e.cancelled}
             n == Cardinality(live)
             Later(e) == IF e \in Due THEN [e EXCEPT !.left = e.interval] ELSE e
  <1>1. \A e \in heap : /\ e \in Entry /\ e.left \in Int /\ e.id \in 1..MaxTimers
                        /\ e.interval \in {0} \cup Intervals /\ (e.id \in cancelled => e.cancelled)
    BY TimerAssumption DEF HeapOK, TimerTypeOK, Entry
  <1>2. \A e, f \in heap : e.id = f.id => e = f
    BY DEF HeapOK, TimerTypeOK
  <1>3. n \in Nat /\ \A e \in live : e \in heap /\ e \in Due /\ ~e.cancelled
    <2>1. live \in SUBSET heap
      BY DEF Due
    <2> QED
      BY <2>1, HeapFinite
  <1>4. heap' = (heap \ Due) \cup Rearmed(live) /\ UNCHANGED <<next_id, cancelled>>
    BY DEF tick
  <1>5. PICK s \in Bijection(1..n, live) : ready' = [i \in DOMAIN s |-> s[i].id]
    BY Zenon DEF tick, InHeapOrder
  <1>6. \A x \in heap' : \E e \in heap : x = Later(e) /\ (e \in Due => e.interval > 0)
    BY <1>3, <1>4, Zenon DEF Rearmed
  <1>7. \A e \in heap : (e \in Due => e.interval > 0) =>
            /\ Later(e) \in Entry /\ Later(e).id = e.id
            /\ Later(e).cancelled = e.cancelled /\ Later(e).left >= 0
    BY <1>1, TimerAssumption DEF Entry, Due
  <1> HIDE DEF Later, live, n
  <1>8. \A x \in heap' : \E e \in heap :
            /\ x \in Entry /\ x.id = e.id /\ x.cancelled = e.cancelled
            /\ \A y \in heap' : y.id = e.id => y = x
    <2> SUFFICES ASSUME NEW x \in heap'
                 PROVE  \E e \in heap : /\ x \in Entry /\ x.id = e.id /\ x.cancelled = e.cancelled
                                        /\ \A y \in heap' : y.id = e.id => y = x
      OBVIOUS
    <2>1. PICK e \in heap : x = Later(e) /\ (e \in Due => e.interval > 0)
      BY <1>6
    <2>2. ASSUME NEW y \in heap', y.id = e.id
          PROVE  y = x
      <3>1. PICK f \in heap : y = Later(f) /\ (f \in Due => f.interval > 0)
        BY <1>6
      <3>2. f = e
        BY <3>1, <2>2, <1>2, <1>7
      <3> QED
        BY <2>1, <3>1, <3>2, Zenon
    <2> QED
      BY <2>1, <2>2, <1>7, Zenon
  <1>9. s \in [1..n -> live] /\ \A i, j \in 1..n : i # j => s[i] # s[j]
    BY DEF Bijection, Injection, IsInjective
  <1>10. ready' \in [1..n -> 1..MaxTimers] /\ \A i \in 1..n : ready'[i] = s[i].id
    BY <1>1, <1>3, <1>5, <1>9
  <1>11. ready' \in Seq(1..MaxTimers) /\ Len(ready') = n
    BY <1>3, <1>10, SeqOf, Zenon
  <1>12. \A i, j \in 1..n : ready'[i] = ready'[j] => i = j
    BY <1>2, <1>3, <1>9, <1>10, ZenonT(60)
  <1>13. HeapOK'
    BY <1>4, <1>8, <1>11, <1>12, Renewed
  <1>14. Late(0)'
    <2>1. \A x \in heap' : x.left >= 0
      BY <1>6, <1>7
    <2>2. \A x \in heap' : x.left \in Int
      BY <1>13 DEF HeapOK, TimerTypeOK, Entry
    <2> QED
      BY <2>1, <2>2 DEF Late
  <1>15. \A i \in 1..n : ready'[i] \notin cancelled
    BY <1>1, <1>3, <1>9, <1>10, Zenon
  <1> QED
    BY <1>11, <1>13, <1>14, <1>15

\* A callback is called.
LEMMA CallStep ==
    ASSUME HeapOK, call
    PROVE  /\ HeapOK' /\ heap' = heap /\ Range(ready') \subseteq Range(ready)
           /\ Head(ready) \notin Range(ready')
  <1>1. /\ ready \in Seq(1..MaxTimers) /\ ready # <<>> /\ ready' = Tail(ready)
        /\ UNCHANGED <<heap, next_id, cancelled>>
        /\ \A i, j \in 1..Len(ready) : ready[i] = ready[j] => i = j
    BY DEF HeapOK, TimerTypeOK, call
  <1>2. /\ ready' \in Seq(1..MaxTimers) /\ Len(ready') = Len(ready) - 1 /\ Len(ready) \in Nat
        /\ Head(ready) = ready[1] /\ 1 \in 1..Len(ready)
        /\ \A i \in 1..Len(ready') : ready'[i] = ready[i + 1] /\ i + 1 \in 1..Len(ready) /\ i + 1 # 1
    BY <1>1
  <1>3. \A i, j \in 1..Len(ready') : ready'[i] = ready'[j] => i = j
    BY <1>1, <1>2
  <1>4. HeapOK'
    BY <1>1, <1>2, <1>3 DEF HeapOK, TimerTypeOK
  <1>5. DOMAIN ready = 1..Len(ready) /\ DOMAIN ready' = 1..Len(ready')
    BY <1>1, <1>2
  <1> QED
    BY <1>1, <1>2, <1>4, <1>5 DEF Range

-----------------------------------------------------------------------------
(* The bound on the lateness. *)

\* Products of natural numbers.
LEMMA Product ==
    ASSUME NEW a \in Nat, NEW b \in Nat
    PROVE  /\ a * b \in Nat /\ a * (b + 1) = a * b + a
           /\ \A c \in Nat : c <= b => a * (b - c) \in Nat /\ a * (b - c) <= a * b
           /\ \A c \in Nat : c > 0 /\ c <= b => a * (b - c) + a <= a * b /\ a * (b - c) + a = a * (b - (c - 1))
  <1>1. \A x, y \in Int : x * y \in Int /\ x * (y + 1) = x * y + x /\ x * (y - 1) = x * y - x
    OBVIOUS
  <1>2. \A x, y \in Nat : x * y \in Nat
    OBVIOUS
  <1>3. \A x, y, z \in Int : x * (y - z) = x * y - x * z
    OBVIOUS
  <1>4. ASSUME NEW c \in Nat, c <= b
        PROVE  a * (b - c) \in Nat /\ a * (b - c) <= a * b
    <2>1. b - c \in Nat
      BY <1>4
    <2>2. a * (b - c) \in Nat /\ a * c \in Nat /\ a * b \in Nat
      BY <2>1, <1>2
    <2> QED
      BY <2>2, <1>3
  <1>5. ASSUME NEW c \in Nat, c > 0, c <= b
        PROVE  a * (b - c) + a = a * (b - (c - 1)) /\ a * (b - c) + a <= a * b
    <2>1. c - 1 \in Nat /\ c - 1 <= b
      BY <1>5
    <2>2. a * (b - (c - 1)) <= a * b
      BY <2>1, <1>4
    <2>3. b - (c - 1) = (b - c) + 1 /\ b - c \in Int
      BY <2>1
    <2> QED
      BY <2>2, <2>3, <1>1
  <1> QED
    BY <1>1, <1>2, <1>4, <1>5

\* The numbers that the bound is made of.
LEMMA Numbers ==
    ASSUME IInv
    PROVE  /\ DefaultTimeout \in Nat /\ ConnectTimeout \in Nat /\ Cardinality(Backends) \in Nat
           /\ CheckTime \in Nat /\ sleep \in Nat /\ interrupts \in Nat /\ busy \in Nat /\ waited \in 0..ConnectTimeout
           /\ Len(snapshot) \in 0..Cardinality(Backends)
           /\ DefaultTimeout * interrupts \in Nat
           /\ ConnectTimeout * (Cardinality(Backends) - Len(snapshot)) \in Nat
  <1>1. DefaultTimeout \in Nat /\ ConnectTimeout \in Nat /\ Cardinality(Backends) \in Nat
    BY TimeoutAssumption, HealthAssumption, FS_CardinalityType
  <1>2. sleep \in Nat /\ interrupts \in Nat /\ busy \in Nat /\ waited \in 0..ConnectTimeout
    BY TimeoutAssumption DEF IInv, LoopTypeOK, HealthIInv, HealthTypeOK
  <1>3. Len(snapshot) \in Nat /\ Len(snapshot) <= Cardinality(Backends)
    BY DEF IInv, CheckOK, HealthIInv, HealthTypeOK
  <1>4. CheckTime \in Nat /\ DefaultTimeout * interrupts \in Nat
    BY <1>1, <1>2, Product DEF CheckTime
  <1>5. ConnectTimeout * (Cardinality(Backends) - Len(snapshot)) \in Nat
    BY <1>1, <1>3, Product
  <1> QED
    BY <1>1, <1>2, <1>3, <1>4, <1>5

\* What is no later than n and the callbacks allow is no later than the bound,
\* if n is below its base.
LEMMA Within ==
    ASSUME HeapOK', NEW n \in Int, NEW u \in Int, u = busy', Late(n + u)', Base' \in Int, n <= Base'
    PROVE  Late(Allowed)'
  <1>1. PICK m : m = Allowed'
    OBVIOUS
  <1>2. \A e \in heap' : e.left \in Int
    BY DEF HeapOK, TimerTypeOK, Entry
  <1>3. \A e \in heap' : e.left >= -m
    <2>1. m = Base' + u
      BY <1>1 DEF Allowed
    <2> QED
      BY <2>1, <1>2 DEF Late
  <1> QED
    BY <1>1, <1>3 DEF Late

ByPlace ==
    /\ Allowed = Base + busy
    /\ pc = "check" => Base = CheckTime + DefaultTimeout * interrupts
    /\ pc = "wait" => Base = CheckTime + DefaultTimeout * interrupts + (DefaultTimeout - sleep)
    /\ pc \in {"sockets", "idle"} => Base = CheckTime + DefaultTimeout * interrupts + DefaultTimeout
    /\ pc = "calls" => Base = IF HealthTimer \in Range(ready) THEN 0 ELSE CheckTime
    /\ pc = "health" => Base = ConnectTimeout * (Cardinality(Backends) - Len(snapshot)) + waited

\* The bound, place by place, in a state and in the next.
LEMMA AllowedIs == ByPlace /\ ByPlace'
  <1>1. ByPlace
    BY DEF ByPlace, Allowed, Base
  <1>2. ByPlace'
    BY DEF ByPlace, Allowed, Base
  <1> QED
    BY <1>1, <1>2

\* The bound is a number wherever the reactor is.
LEMMA AllowedNat ==
    ASSUME IInv
    PROVE  Allowed \in Nat /\ Base \in Nat
  <1>1. pc \in {"check", "wait", "sockets", "idle", "calls", "health"} /\ (pc = "wait" => sleep <= DefaultTimeout)
    BY DEF IInv, LoopTypeOK, CheckOK
  <1>2. PICK C, D, k : /\ C = CheckTime /\ D = DefaultTimeout * interrupts
                       /\ k = ConnectTimeout * (Cardinality(Backends) - Len(snapshot))
    OBVIOUS
  <1>3. /\ C \in Nat /\ D \in Nat /\ k \in Nat /\ DefaultTimeout \in Nat /\ sleep \in Nat
        /\ waited \in Nat /\ busy \in Nat
    BY <1>2, Numbers
  <1>4. /\ Allowed = Base + busy
        /\ pc = "check" => Base = C + D
        /\ pc = "wait" => Base = C + D + (DefaultTimeout - sleep)
        /\ pc \in {"sockets", "idle"} => Base = C + D + DefaultTimeout
        /\ pc = "calls" => Base = 0 \/ Base = C
        /\ pc = "health" => Base = k + waited
    BY <1>2, AllowedIs, Zenon DEF ByPlace
  <1>5. Base \in Nat
    BY <1>1, <1>3, <1>4
  <1> QED
    BY <1>3, <1>4, <1>5

\* Base and callbacks, as numbers.
LEMMA NowAllowed ==
    ASSUME IInv
    PROVE  \E n, u \in Nat : n = Base /\ u = busy /\ Late(n + u)
  BY AllowedNat, Numbers DEF IInv, Allowed

\* A step that leaves the timers alone.
LEMMA SameTimers ==
    ASSUME HeapOK, UNCHANGED timer_vars
    PROVE  HeapOK' /\ \A n : Late(n) => Late(n)'
  BY DEF HeapOK, TimerTypeOK, timer_vars, Late

\* A call of another thread.
LEMMA TimerCallStep ==
    ASSUME HeapOK, timer_call
    PROVE  HeapOK' /\ ready' = ready /\ \A n \in Nat : Late(n) => Late(n)'
  <1>1. CASE run_after
    <2>1. PICK d \in Delays : run_timer(d, 0)
      BY <1>1 DEF run_after
    <2>2. d \in Nat /\ 0 \in {0} \cup Intervals
      BY TimerAssumption
    <2>3. ready' = ready
      BY <2>1 DEF run_timer
    <2> QED
      BY <2>1, <2>2, <2>3, AddStep
  <1>2. CASE run_every
    <2>1. PICK d \in Intervals : run_timer(d, d)
      BY <1>2 DEF run_every
    <2>2. d \in Nat /\ d \in {0} \cup Intervals
      BY TimerAssumption
    <2>3. ready' = ready
      BY <2>1 DEF run_timer
    <2> QED
      BY <2>1, <2>2, <2>3, AddStep
  <1>3. CASE cancel
    <2>1. ready' = ready
      BY <1>3 DEF cancel
    <2> QED
      BY <2>1, <1>3, CancelStep
  <1> QED
    BY <1>1, <1>2, <1>3 DEF timer_call

\* The copy has at most one entry of each backend.
LEMMA CopyFits ==
    ASSUME HealthIInv, check_begin
    PROVE  Len(snapshot') <= Cardinality(Backends)
  <1>1. IsFiniteSet(Known) /\ Cardinality(Known) \in Nat /\ Cardinality(Known) <= Cardinality(Backends)
    <2>1. Known \subseteq Backends
      BY DEF Known
    <2> QED
      BY <2>1, HealthAssumption, FS_Subset, FS_CardinalityType
  <1>2. PICK n : n = Cardinality(Known)
    OBVIOUS
  <1>3. PICK s \in Bijection(1..n, Known) :
            snapshot' = [i \in DOMAIN s |-> [backend |-> s[i], health |-> health[s[i]]]]
    BY <1>2, Zenon DEF check_begin
  <1>4. DOMAIN s = 1..n
    BY DEF Bijection, Injection
  <1>5. Len(snapshot') = n
    <2>1. n \in Nat /\ DOMAIN snapshot' = 1..n
      BY <1>1, <1>2, <1>3, <1>4
    <2>2. snapshot' \in Seq([backend : Backends, health : Health])
      BY BeginStep DEF HealthIInv, HealthTypeOK
    <2> QED
      BY <2>1, <2>2
  <1> QED
    BY <1>1, <1>2, <1>5

-----------------------------------------------------------------------------
(* The steps. *)

\* The rounds of the loop: an interruption may cost another timeout.
LEMMA RoundStep ==
    ASSUME IInv, begin_round \/ epoll_wait \/ sockets_done \/ epoll_interrupted \/ end_round
    PROVE  HeapOK' /\ Late(Allowed)' /\ (pc' = "wait" => sleep' <= DefaultTimeout)
  <1>0. HeapOK /\ UNCHANGED timer_vars /\ busy' = busy
    BY DEF IInv, begin_round, epoll_wait, sockets_done, epoll_interrupted, end_round
  <1>1. PICK n, u \in Nat : n = Base /\ u = busy /\ Late(n + u)
    BY NowAllowed
  <1>2. HeapOK' /\ Late(n + u)' /\ u = busy'
    BY <1>0, <1>1, SameTimers
  <1>3. PICK C, D \in Nat : C = CheckTime /\ D = DefaultTimeout * interrupts
    BY Numbers
  <1>4. DefaultTimeout \in Nat /\ sleep \in Nat /\ interrupts \in Nat
    BY Numbers
  <1>5. ByPlace /\ ByPlace'
    BY AllowedIs
  <1>6. CASE begin_round
    <2>1. PICK s \in Int : s = sleep' /\ s <= DefaultTimeout
      <3>1. sleep' \in 1..DefaultTimeout
        BY <1>0, <1>6, Timeout DEF begin_round
      <3> QED
        BY <3>1, <1>4
    <2>2. PICK d \in Nat : d = DefaultTimeout - s
      <3>1. s <= DefaultTimeout
        BY <2>1
      <3>2. DefaultTimeout - s \in Nat
        BY <3>1, <1>4
      <3> QED
        BY <3>2, Zenon
    <2>3. n = C + D /\ Base' = C + D + d
      BY <1>1, <1>3, <1>5, <1>6, <2>1, <2>2 DEF begin_round, ByPlace
    <2>4. Base' \in Int /\ n <= Base'
      BY <2>3
    <2> QED
      BY <2>1, <2>4, <1>2, Within
  <1>7. CASE epoll_wait
    <2>1. n = C + D + (DefaultTimeout - sleep) /\ Base' = C + D + DefaultTimeout /\ pc' # "wait"
      BY <1>1, <1>3, <1>5, <1>7 DEF epoll_wait, ByPlace
    <2>2. Base' \in Int /\ n <= Base'
      BY <1>4, <2>1
    <2> QED
      BY <2>1, <2>2, <1>2, Within
  <1>10. CASE sockets_done
    <2>1. n = C + D + DefaultTimeout /\ Base' = C + D + DefaultTimeout /\ pc' # "wait"
      BY <1>1, <1>3, <1>5, <1>10 DEF sockets_done, ByPlace
    <2>2. Base' \in Int /\ n <= Base'
      BY <1>4, <2>1
    <2> QED
      BY <2>1, <2>2, <1>2, Within
  <1>8. CASE epoll_interrupted
    <2>1. DefaultTimeout * (interrupts + 1) = D + DefaultTimeout
      BY <1>3, <1>4, Product
    <2>2. n = C + D + (DefaultTimeout - sleep) /\ Base' = C + (D + DefaultTimeout) /\ pc' # "wait"
      BY <1>1, <1>3, <1>5, <1>8, <2>1 DEF epoll_interrupted, ByPlace
    <2>3. Base' \in Int /\ n <= Base'
      BY <1>4, <2>2
    <2> QED
      BY <2>2, <2>3, <1>2, Within
  <1>9. CASE end_round
    <2>1. HealthTimer \notin Range(ready)
      BY <1>9 DEF end_round, Range
    <2>2. n = C /\ Base' = C + D /\ pc' # "wait"
      BY <1>1, <1>3, <1>5, <1>9, <2>1 DEF end_round, ByPlace
    <2>3. Base' \in Int /\ n <= Base'
      BY <2>2
    <2> QED
      BY <2>2, <2>3, <1>2, Within
  <1> QED
    BY <1>6, <1>7, <1>8, <1>9, <1>10

\* The clock runs while the reactor sleeps, works or waits for a backend, and
\* the bound with it.
LEMMA ClockStep ==
    ASSUME IInv, Other(Sleeps) \/ check_takes_time \/ Other(callback_works)
    PROVE  HeapOK' /\ Late(Allowed)' /\ (pc' = "wait" => sleep' <= DefaultTimeout)
  <1>0. HeapOK /\ Elapse /\ (pc = "wait" => sleep <= DefaultTimeout)
    BY DEF IInv, CheckOK, Other, Sleeps, check_takes_time, callback_works
  <1>1. PICK n, u \in Nat : n = Base /\ u = busy /\ Late(n + u)
    BY NowAllowed
  <1>2. HeapOK' /\ Late((n + u) + 1)'
    BY <1>0, <1>1, ElapseStep
  <1>3. PICK C, D, k \in Nat : /\ C = CheckTime /\ D = DefaultTimeout * interrupts
                               /\ k = ConnectTimeout * (Cardinality(Backends) - Len(snapshot))
    BY Numbers
  <1>4. DefaultTimeout \in Nat /\ sleep \in Nat /\ waited \in Nat
    BY Numbers
  <1>5. ByPlace /\ ByPlace'
    BY AllowedIs
  <1>6. (n + u) + 1 = (n + 1) + u /\ (n + u) + 1 = n + (u + 1)
    OBVIOUS
  <1>7. CASE Other(Sleeps)
    <2>1. /\ n = C + D + (DefaultTimeout - sleep) /\ Base' = C + D + (DefaultTimeout - sleep')
          /\ pc = "wait" /\ sleep' = sleep - 1
      BY <1>1, <1>3, <1>5, <1>7 DEF Other, Sleeps, ByPlace
    <2>2. Base' = n + 1 /\ sleep' <= DefaultTimeout
      BY <1>0, <1>4, <2>1
    <2>3. u = busy' /\ Late((n + 1) + u)'
      BY <1>1, <1>2, <1>6, <1>7 DEF Other, Sleeps
    <2>4. HeapOK' /\ n + 1 \in Int /\ u \in Int /\ Base' \in Int /\ n + 1 <= Base'
      BY <2>2, <1>2
    <2> QED
      BY <2>2, <2>3, <2>4, Within
  <1>8. CASE check_takes_time
    <2>1. n = k + waited /\ Base' = k + waited' /\ waited' = waited + 1 /\ pc' # "wait"
      BY <1>1, <1>3, <1>5, <1>8 DEF check_takes_time, check_waits, ByPlace
    <2>2. Base' = n + 1
      BY <1>4, <2>1
    <2>3. u = busy' /\ Late((n + 1) + u)'
      BY <1>1, <1>2, <1>6, <1>8 DEF check_takes_time
    <2>4. HeapOK' /\ n + 1 \in Int /\ u \in Int /\ Base' \in Int /\ n + 1 <= Base'
      BY <2>2, <1>2
    <2> QED
      BY <2>1, <2>3, <2>4, Within
  <1>9. CASE Other(callback_works)
    <2>1. UNCHANGED <<pc, sleep, interrupts, ready, snapshot, waited>> /\ busy' = u + 1 /\ pc # "wait"
      BY <1>0, <1>1, <1>9 DEF Other, callback_works, Elapse, health_vars
    <2>2. Base' = n
      BY <2>1, <1>1 DEF Base
    <2>3. HeapOK' /\ u + 1 = busy' /\ Late(n + (u + 1))' /\ u + 1 \in Int /\ Base' \in Int /\ n <= Base'
      BY <2>1, <2>2, <1>2, <1>6
    <2> QED
      BY <2>1, <2>3, Within
  <1> QED
    BY <1>7, <1>8, <1>9

\* A batch is collected, which leaves nothing that is due, and its callbacks are
\* called.
LEMMA CallsStep ==
    ASSUME IInv, idle_tick \/ idle_call
    PROVE  HeapOK' /\ Late(Allowed)'
  <1>0. HeapOK
    BY DEF IInv
  <1>1. PICK n, u \in Nat : n = Base /\ u = busy /\ Late(n + u)
    BY NowAllowed
  <1>2. CheckTime \in Nat
    BY Numbers
  <1>3. ByPlace /\ ByPlace'
    BY AllowedIs
  <1>4. pc' = "calls" /\ (Base' = 0 \/ Base' = CheckTime)
    BY <1>3 DEF idle_tick, idle_call, ByPlace
  <1>5. CASE idle_tick
    <2>1. HeapOK' /\ Late(0)' /\ 0 = busy'
      BY <1>0, <1>5, TickStep DEF idle_tick
    <2>2. Base' \in Int /\ 0 <= Base' /\ 0 + 0 = 0
      BY <1>2, <1>4
    <2> QED
      BY <2>1, <2>2, Within
  <1>6. CASE idle_call
    <2>1. HeapOK' /\ heap' = heap /\ Range(ready') \subseteq Range(ready) /\ u = busy'
      BY <1>0, <1>1, <1>6, CallStep DEF idle_call
    <2>2. Late(n + u)'
      BY <2>1, <1>1 DEF Late
    <2>3. n = IF HealthTimer \in Range(ready) THEN 0 ELSE CheckTime
      BY <1>1, <1>3, <1>6 DEF idle_call, ByPlace
    <2>4. Base' = IF HealthTimer \in Range(ready') THEN 0 ELSE CheckTime
      BY <1>3, <1>4 DEF ByPlace
    <2>5. Base' \in Int /\ n <= Base'
      BY <2>1, <2>3, <2>4, <1>2
    <2> QED
      BY <2>1, <2>2, <2>5, Within
  <1> QED
    BY <1>5, <1>6

\* The health check: it begins when no timer is late but by the callbacks before
\* it, and when it is over it is not called again in its batch.
LEMMA CheckStep ==
    ASSUME IInv, check_all \/ check_next \/ check_done
    PROVE  HeapOK' /\ Late(Allowed)'
  <1>0. HeapOK /\ CheckOK /\ HealthIInv
    BY DEF IInv
  <1>1. PICK n, u \in Nat : n = Base /\ u = busy /\ Late(n + u)
    BY NowAllowed
  <1>2. PICK B, C, T \in Nat : B = Cardinality(Backends) /\ C = CheckTime /\ T = ConnectTimeout
    BY Numbers
  <1>3. /\ C = T * B /\ Len(snapshot) \in Nat /\ Len(snapshot) <= B /\ waited \in Nat /\ waited <= T
        /\ snapshot \in Seq([backend : Backends, health : Health])
    BY <1>0, <1>2, Numbers DEF CheckTime, HealthIInv, HealthTypeOK
  <1>4. ByPlace /\ ByPlace'
    BY AllowedIs
  <1>5. CASE check_all
    <2>1. HeapOK' /\ Late(n + u)' /\ u = busy'
      BY <1>0, <1>1, <1>5, SameTimers DEF check_all
    <2>2. HealthTimer \in Range(ready)
      <3>1. ready \in Seq(1..MaxTimers) /\ ready # <<>> /\ Head(ready) = HealthTimer
        BY <1>0, <1>5 DEF check_all, AtHealthTimer, HeapOK, TimerTypeOK
      <3>2. 1 \in DOMAIN ready /\ ready[1] = HealthTimer
        BY <3>1
      <3> QED
        BY <3>2, Zenon DEF Range
    <2>3. n = 0
      BY <1>1, <1>4, <1>5, <2>2 DEF check_all, AtHealthTimer, ByPlace
    <2>4. waited' = 0
      BY <1>0, <1>5 DEF check_all, AtHealthTimer, check_begin, CheckOK
    <2>5. PICK m \in Nat : m = Len(snapshot') /\ m <= B
      <3>1. check_begin
        BY <1>5 DEF check_all
      <3>2. snapshot' \in Seq([backend : Backends, health : Health])
        BY <3>1, <1>0, BeginStep DEF HealthIInv, HealthTypeOK
      <3> QED
        BY <3>1, <3>2, <1>0, <1>2, CopyFits
    <2>6. Base' = T * (B - m) + 0
      BY <1>2, <1>4, <1>5, <2>4, <2>5 DEF check_all, ByPlace
    <2>7. T * (B - m) \in Nat
      BY <2>5, Product
    <2>8. Base' \in Int /\ n <= Base'
      BY <2>3, <2>6, <2>7
    <2> QED
      BY <2>1, <2>8, Within
  <1>6. CASE check_next
    <2>1. HeapOK' /\ Late(n + u)' /\ u = busy'
      BY <1>0, <1>1, <1>6, SameTimers DEF check_next, loop_vars
    <2>2. PICK m \in Nat : m = Len(snapshot) /\ m > 0 /\ m <= B /\ Len(snapshot') = m - 1
      <3>1. snapshot # <<>> /\ snapshot' = Tail(snapshot)
        BY <1>6 DEF check_next, check_result
      <3> QED
        BY <3>1, <1>3
    <2>3. n = T * (B - m) + waited
      BY <1>1, <1>2, <1>4, <1>6, <2>2 DEF check_next, ByPlace
    <2>4. Base' = T * (B - (m - 1)) + 0
      <3>1. pc' = "health" /\ waited' = 0
        BY <1>6 DEF check_next, check_result, loop_vars
      <3> QED
        BY <3>1, <1>2, <1>4, <2>2 DEF ByPlace
    <2>5. T * (B - m) + T = T * (B - (m - 1)) /\ T * (B - m) \in Nat
      BY <2>2, Product
    <2>6. Base' \in Int /\ n <= Base'
      BY <1>3, <2>3, <2>4, <2>5
    <2> QED
      BY <2>1, <2>6, Within
  <1>7. CASE check_done
    <2>1. HeapOK' /\ heap' = heap /\ HealthTimer \notin Range(ready')
      BY <1>0, <1>7, CallStep DEF check_done, CheckOK
    <2>2. Late(n + u)' /\ u = busy'
      BY <2>1, <1>1, <1>7 DEF Late, check_done
    <2>3. Len(snapshot) = 0 /\ waited = 0
      BY <1>0, <1>7 DEF check_done, CheckOK
    <2>4. n = T * (B - 0) + 0
      BY <1>1, <1>2, <1>4, <1>7, <2>3 DEF check_done, ByPlace
    <2>5. Base' = C
      BY <1>2, <1>4, <1>7, <2>1 DEF check_done, ByPlace
    <2>6. Base' \in Int /\ n <= Base'
      BY <1>3, <2>4, <2>5
    <2> QED
      BY <2>1, <2>2, <2>6, Within
  <1> QED
    BY <1>5, <1>6, <1>7

\* What other threads do moves neither the reactor nor its bound.
LEMMA OthersStep ==
    ASSUME IInv, Other(other_timer_call) \/ table_call
    PROVE  HeapOK' /\ Late(Allowed)'
  <1>0. HeapOK
    BY DEF IInv
  <1>1. PICK n, u \in Nat : n = Base /\ u = busy /\ Late(n + u)
    BY NowAllowed
  <1>2. HeapOK' /\ Late(n + u)' /\ ready' = ready
    <2>1. CASE Other(other_timer_call)
      BY <2>1, <1>0, <1>1, TimerCallStep DEF Other, other_timer_call
    <2>2. CASE table_call
      BY <2>2, <1>0, <1>1, SameTimers DEF table_call, loop_vars, timer_vars
    <2> QED
      BY <2>1, <2>2
  <1>3. UNCHANGED <<pc, sleep, interrupts, busy, snapshot, waited>>
    BY DEF Other, other_timer_call, timer_call, health_vars, table_call, add_backend, remove_backend, loop_vars
  <1>4. Base' = n /\ u = busy'
    BY <1>1, <1>2, <1>3 DEF Base
  <1>5. Base' \in Int /\ n <= Base'
    BY <1>4
  <1> QED
    BY <1>2, <1>4, <1>5, Within

\* What the reactor has to test, and when.
LEMMA NextCheckOK ==
    ASSUME IInv, Next, pc' = "wait" => sleep' <= DefaultTimeout
    PROVE  CheckOK'
  <1>0. CheckOK /\ HealthIInv /\ HeapOK
    BY DEF IInv
  <1>1. /\ snapshot \in Seq([backend : Backends, health : Health])
        /\ Len(snapshot) <= Cardinality(Backends) /\ Cardinality(Backends) \in Nat
    BY <1>0, Numbers DEF HealthIInv, HealthTypeOK
  <1>2. ASSUME UNCHANGED <<snapshot, waited>>, pc # "health", pc' # "health"
        PROVE  CheckOK'
    BY <1>0, <1>2 DEF CheckOK
  <1>3. CASE Other(other_timer_call) \/ table_call
    <2>1. UNCHANGED <<pc, sleep, snapshot, waited>>
      BY <1>3 DEF Other, other_timer_call, timer_call, health_vars, table_call, add_backend, remove_backend, loop_vars
    <2>2. ready' = ready
      <3>1. CASE Other(other_timer_call)
        BY <3>1, <1>0, TimerCallStep DEF Other, other_timer_call
      <3>2. CASE table_call
        BY <3>2 DEF table_call, loop_vars, timer_vars
      <3> QED
        BY <3>1, <3>2, <1>3
    <2> QED
      BY <1>0, <2>1, <2>2 DEF CheckOK
  <1>4. CASE Other(begin_round) \/ Other(epoll_wait) \/ Other(sockets_done) \/ Other(idle_tick)
             \/ Other(end_round) \/ Other(epoll_interrupted) \/ Other(Sleeps)
             \/ Other(callback_works /\ ~AtHealthTimer)
    BY <1>2, <1>4 DEF Other, begin_round, epoll_wait, sockets_done, idle_tick, end_round, epoll_interrupted,
       Sleeps, callback_works, health_vars
  <1>5. CASE Other(idle_call /\ ~AtHealthTimer)
    BY <1>2, <1>5 DEF Other, idle_call, health_vars
  <1>6. CASE check_all
    <2>1. check_begin /\ ready' = ready /\ ready # <<>> /\ Head(ready) = HealthTimer /\ pc = "calls" /\ pc' = "health"
      BY <1>6 DEF check_all, AtHealthTimer, timer_vars
    <2>2. Len(snapshot') <= Cardinality(Backends)
      BY <2>1, <1>0, CopyFits
    <2>3. waited' = 0
      BY <2>1, <1>0 DEF check_begin, CheckOK
    <2> QED
      BY <2>1, <2>2, <2>3 DEF CheckOK
  <1>7. CASE check_takes_time
    BY <1>0, <1>7 DEF check_takes_time, check_waits, Elapse, CheckOK
  <1>8. CASE check_next
    <2>1. /\ snapshot # <<>> /\ snapshot' = Tail(snapshot) /\ waited' = 0
          /\ pc = "health" /\ pc' = "health" /\ ready' = ready
      BY <1>8 DEF check_next, check_result, loop_vars, timer_vars
    <2>2. Len(snapshot') <= Cardinality(Backends)
      BY <2>1, <1>1
    <2> QED
      BY <2>1, <2>2, <1>0 DEF CheckOK
  <1>9. CASE check_done
    BY <1>0, <1>9 DEF check_done, health_vars, CheckOK
  <1> QED
    BY <1>3, <1>4, <1>5, <1>6, <1>7, <1>8, <1>9 DEF Next, Loop

\* Every step is one of the health checker, or none of its business.
LEMMA HealthStep ==
    ASSUME IInv, Next
    PROVE  [HealthNext]_health_vars
  <1>1. CASE check_all
    <2>1. snapshot = <<>> /\ check_begin
      BY <1>1 DEF check_all, AtHealthTimer, IInv, CheckOK
    <2> QED
      BY <2>1 DEF HealthNext
  <1>2. CASE check_takes_time \/ check_next \/ table_call
    BY <1>2 DEF check_takes_time, check_next, table_call, HealthNext
  <1>3. CASE UNCHANGED health_vars
    BY <1>3
  <1>4. Next => check_all \/ check_takes_time \/ check_next \/ table_call \/ UNCHANGED health_vars
    BY Zenon DEF Next, Loop, Other, check_done
  <1> QED
    BY <1>1, <1>2, <1>3, <1>4

\* Where the reactor is.
LEMMA NextLoopTypeOK ==
    ASSUME IInv, Next, HeapOK'
    PROVE  LoopTypeOK'
  <1>0. LoopTypeOK /\ sleep \in Nat /\ interrupts \in 0..MaxInterrupts /\ busy \in 0..MaxBusy
    BY DEF IInv, LoopTypeOK
  <1>1. pc' \in {"check", "wait", "sockets", "idle", "calls", "health"} /\ interrupts' \in 0..MaxInterrupts
        /\ busy' \in 0..MaxBusy
    BY <1>0, TimeoutAssumption DEF LoopTypeOK, Next, Loop, Other, other_timer_call, timer_call, table_call, loop_vars,
       begin_round, epoll_wait, sockets_done, idle_tick, idle_call, end_round, epoll_interrupted, Sleeps,
       callback_works, check_all, check_takes_time, check_next, check_done
  <1>2. sleep' \in Nat
    <2>1. CASE Other(begin_round)
      <3>1. sleep' \in 1..DefaultTimeout
        BY <2>1, Timeout DEF Other, begin_round, IInv
      <3> QED
        BY <3>1, TimeoutAssumption
    <2>2. CASE Other(Sleeps)
      BY <2>2, <1>0 DEF Other, Sleeps
    <2>3. CASE ~Other(begin_round) /\ ~Other(Sleeps)
      <3>1. sleep' = sleep \/ sleep' = 0
        BY <2>3 DEF Next, Loop, Other, other_timer_call, timer_call, table_call, loop_vars,
           epoll_wait, sockets_done, idle_tick, idle_call, end_round, epoll_interrupted,
           callback_works, check_all, check_takes_time, check_next, check_done
      <3> QED
        BY <3>1, <1>0
    <2> QED
      BY <2>1, <2>2, <2>3
  <1> QED
    BY <1>1, <1>2 DEF LoopTypeOK, HeapOK

\* Every step keeps the invariant.
LEMMA NextIInv == IInv /\ [Next]_vars => IInv'
  <1> SUFFICES ASSUME IInv, [Next]_vars
               PROVE  IInv'
    OBVIOUS
  <1>1. CASE UNCHANGED vars
    <2>1. UNCHANGED <<heap, next_id, ready, cancelled, pc, sleep, interrupts, busy, health, snapshot, waited, failed, removals>>
      BY <1>1 DEF vars, loop_vars, timer_vars, health_vars
    <2>2. LoopTypeOK' /\ HeapOK' /\ CheckOK'
      BY <2>1 DEF IInv, LoopTypeOK, TimerTypeOK, HeapOK, CheckOK
    <2>3. Late(Allowed)'
      <3>1. Allowed' = Allowed
        BY <2>1 DEF Allowed, Base
      <3> QED
        BY <2>1, <3>1 DEF IInv, Late
    <2>4. HealthIInv'
      BY <2>1, NextHealthIInv DEF IInv, health_vars
    <2> QED
      BY <2>2, <2>3, <2>4 DEF IInv
  <1>2. CASE Next
    <2>1. HealthIInv'
      BY <1>2, HealthStep, NextHealthIInv DEF IInv
    <2>2. HeapOK' /\ Late(Allowed)' /\ (pc' = "wait" => sleep' <= DefaultTimeout)
      <3>1. CASE Other(other_timer_call) \/ table_call
        <4>1. UNCHANGED <<pc, sleep>>
          BY <3>1 DEF Other, other_timer_call, timer_call, table_call, loop_vars
        <4> QED
          BY <3>1, <4>1, OthersStep DEF IInv, CheckOK
      <3>2. CASE \/ Other(begin_round) \/ Other(epoll_wait) \/ Other(sockets_done)
                \/ Other(end_round) \/ Other(epoll_interrupted)
        BY <3>2, RoundStep DEF Other
      <3>3. CASE Other(idle_tick) \/ Other(idle_call /\ ~AtHealthTimer)
        <4>1. pc' = "calls"
          BY <3>3 DEF Other, idle_tick, idle_call
        <4> QED
          BY <3>3, <4>1, CallsStep DEF Other
      <3>4. CASE check_all \/ check_next \/ check_done
        <4>1. pc' # "wait"
          BY <3>4 DEF check_all, check_next, check_done, loop_vars
        <4> QED
          BY <3>4, <4>1, CheckStep
      <3>5. CASE Other(Sleeps) \/ check_takes_time \/ Other(callback_works /\ ~AtHealthTimer)
        BY <3>5, ClockStep DEF Other
      <3> QED
        BY <1>2, <3>1, <3>2, <3>3, <3>4, <3>5 DEF Next, Loop
    <2>3. CheckOK' /\ LoopTypeOK'
      BY <1>2, <2>2, NextCheckOK, NextLoopTypeOK
    <2> QED
      BY <2>1, <2>2, <2>3 DEF IInv
  <1> QED
    BY <1>1, <1>2

\* The health timer is armed before the loop begins.
LEMMA InitIInv == Init => IInv
  <1> SUFFICES ASSUME Init
               PROVE  IInv
    OBVIOUS
  <1> DEFINE x == [id |-> HealthTimer, left |-> HealthInterval, interval |-> HealthInterval, cancelled |-> FALSE]
  <1>1. /\ HealthInterval \in Intervals /\ HealthInterval \in Nat /\ MaxTimers \in Nat /\ MaxTimers > 0
        /\ MaxInterrupts \in Nat /\ MaxBusy \in Nat /\ DefaultTimeout \in Nat
    BY IntervalAssumption, TimerAssumption, TimeoutAssumption
  <1>2. x \in Entry /\ x.id = 1 /\ x.left = HealthInterval
    BY <1>1 DEF HealthTimer, Entry
  <1>3. /\ heap = {x} /\ next_id = 2 /\ ready = <<>> /\ cancelled = {}
        /\ pc = "check" /\ sleep = 0 /\ interrupts = 0 /\ busy = 0
        /\ HealthInit /\ snapshot = <<>> /\ waited = 0
    BY DEF Init, HealthInit, HealthTimer
  <1> HIDE DEF x
  <1>4. TimerTypeOK
    BY <1>1, <1>2, <1>3 DEF TimerTypeOK
  <1>5. LoopTypeOK
    BY <1>1, <1>3, <1>4 DEF LoopTypeOK
  <1>6. HeapOK
    BY <1>2, <1>3, <1>4 DEF HeapOK
  <1>7. Cardinality(Backends) \in Nat
    BY HealthAssumption, FS_CardinalityType
  <1>8. CheckOK
    BY <1>3, <1>7 DEF CheckOK
  <1>9. Late(Allowed)
    <2>1. PICK n \in Nat : n = Allowed
      <3>1. CheckTime \in Nat /\ DefaultTimeout * 0 = 0
        BY <1>1, <1>7, HealthAssumption, Product DEF CheckTime
      <3>2. Allowed = (CheckTime + 0) + 0
        BY <1>3, <3>1, AllowedIs DEF ByPlace
      <3> QED
        BY <3>1, <3>2
    <2>2. HealthInterval >= -n
      BY <1>1
    <2> QED
      BY <1>2, <1>3, <2>1, <2>2 DEF Late
  <1> QED
    BY <1>3, <1>5, <1>6, <1>8, <1>9, InitHealthIInv DEF IInv

\* So it holds of every behaviour.
LEMMA Invariance == Spec => []IInv
  BY InitIInv, NextIInv, PTL DEF Spec

\* Whatever the timers, the timeouts and the number of backends, no timer that
\* is not cancelled waits longer than the sleep of run(), once more for every
\* interruption, the health check may take, and the callbacks since the last
\* tick() have taken, however long that was.
THEOREM TimersInTime == Spec => []LatenessBounded
  <1>1. IInv => LatenessBounded
    <2> SUFFICES ASSUME IInv
                 PROVE  LatenessBounded
      OBVIOUS
    <2>1. PICK n, u \in Nat : n = Base /\ u = busy /\ Late(n + u)
      BY NowAllowed
    <2>2. PICK B, C, D, T, U, k \in Nat :
             /\ B = Cardinality(Backends) /\ C = CheckTime /\ D = DefaultTimeout * interrupts
             /\ T = ConnectTimeout /\ U = DefaultTimeout
             /\ k = ConnectTimeout * (Cardinality(Backends) - Len(snapshot))
      BY Numbers, Zenon
    <2>3. DefaultTimeout * (1 + interrupts) = D + U /\ C = T * B /\ ConnectTimeout * Cardinality(Backends) = C
      <3>1. interrupts \in Nat /\ 1 + interrupts = interrupts + 1
        BY Numbers
      <3> QED
        BY <3>1, <2>2, Product DEF CheckTime
    <2>4. /\ pc \in {"check", "wait", "sockets", "idle", "calls", "health"} /\ sleep \in Nat
          /\ waited \in Nat /\ waited <= T /\ Len(snapshot) \in 0..B /\ (Len(snapshot) = 0 => waited = 0)
      <3>1. Len(snapshot) = 0 => snapshot = <<>>
        BY DEF IInv, HealthIInv, HealthTypeOK
      <3> QED
        BY <3>1, <2>2, Numbers DEF IInv, LoopTypeOK, CheckOK
    <2>5. k + waited <= C
      <3>1. CASE Len(snapshot) = 0
        BY <3>1, <2>2, <2>3, <2>4, Product
      <3>2. CASE Len(snapshot) # 0
        <4>1. PICK m \in Nat : m = Len(snapshot) /\ m > 0 /\ m <= B
          BY <3>2, <2>4
        <4>2. k = T * (B - m)
          BY <2>2, <4>1
        <4>3. k + T <= C
          BY <2>3, <4>1, <4>2, Product
        <4> QED
          BY <2>4, <4>3
      <3> QED
        BY <3>1, <3>2
    <2>6. /\ pc = "check" => n = C + D
          /\ pc = "wait" => n = C + D + (U - sleep)
          /\ pc \in {"sockets", "idle"} => n = C + D + U
          /\ pc = "calls" => n = 0 \/ n = C
          /\ pc = "health" => n = k + waited
      BY <2>1, <2>2, AllowedIs, Zenon DEF ByPlace
    <2>7. n <= D + U + C
      BY <2>4, <2>5, <2>6
    <2>8. \A e \in heap : e.left \in Int /\ e.left >= -(n + u)
      BY <2>1 DEF Late, IInv, HeapOK, TimerTypeOK, Entry
    <2>9. \A e \in heap : e.left >= -(D + U + C + u)
      BY <2>7, <2>8
    <2> QED
      BY <2>1, <2>3, <2>9 DEF LatenessBounded
  <1> QED
    BY <1>1, Invariance, PTL

\* A timer that was cancelled before tick() took the lock is not called, however
\* the calls and the threads interleave.
THEOREM CancelledStaysSilent == Spec => NoFireAfterCancel
  <1>1. IInv /\ [Next]_vars => [(Range(ready') \ Range(ready)) \cap cancelled = {}]_vars
    <2> SUFFICES ASSUME IInv, Next
                 PROVE  (Range(ready') \ Range(ready)) \cap cancelled = {}
      OBVIOUS
    <2>0. HeapOK
      BY DEF IInv
    <2>1. CASE tick
      <3>1. HeapOK' /\ \A i \in 1..Len(ready') : ready'[i] \notin cancelled
        BY <2>0, <2>1, TickStep
      <3>2. DOMAIN ready' = 1..Len(ready')
        BY <3>1 DEF HeapOK, TimerTypeOK
      <3> QED
        BY <3>1, <3>2 DEF Range
    <2>2. CASE call
      BY <2>0, <2>2, CallStep
    <2>3. CASE timer_call
      <3>1. ready' = ready
        BY <2>0, <2>3, TimerCallStep
      <3> QED
        BY <3>1
    <2>4. CASE ready' = ready
      BY <2>4
    <2>5. tick \/ call \/ timer_call \/ ready' = ready
      BY DEF Next, Loop, Other, other_timer_call, table_call, loop_vars, timer_vars, begin_round, epoll_wait,
         sockets_done, callback_works, idle_tick, idle_call, end_round, epoll_interrupted, Sleeps, Elapse, check_all, check_takes_time,
         check_next, check_done
    <2> QED
      BY <2>1, <2>2, <2>3, <2>4, <2>5
  <1> QED
    BY <1>1, Invariance, PTL DEF Spec, NoFireAfterCancel

\* Under the event loop too the health table follows the tests: check_all() is
\* not called again before the last one is over.
THEOREM CheckedTableFollowsTests == Spec => []HealthTracksTests
  <1>1. IInv => HealthTracksTests
    BY DEF IInv, HealthIInv, TableAgrees, Agrees, HealthTracksTests
  <1> QED
    BY <1>1, Invariance, PTL
=============================================================================
