----------------------------- MODULE RateLimiter -----------------------------
(***************************************************************************)
(* The token buckets of RateLimitFilter                                    *)
(* (src/src/filter/rate_limit_filter.cpp) with their refill by elapsed     *)
(* time and the removal of buckets that were not used for a while.  Every  *)
(* entry point runs under mutex_, so it is one step.                       *)
(*                                                                         *)
(* Time is counted in units that each bring one unit of credit: a token is *)
(* Cost units (1 / rate_ seconds), a full bucket Capacity units (burst_    *)
(* tokens).  The rounding of the double arithmetic is left out.            *)
(***************************************************************************)
EXTENDS Integers, Sequences

CONSTANTS
    Keys,        \* client addresses
    NoKey,       \* the empty key: the request is not limited
    Cost,        \* one token
    Capacity,    \* burst_ tokens
    IdleTime     \* idle_sec of cleanup_expired_buckets

\* A full bucket holds at least a token, and an unused bucket is full again
\* before it is removed (200 tokens at 100 a second against 300 seconds).
ASSUME LimiterAssumption ==
    /\ NoKey \notin Keys
    /\ Cost \in Nat \ {0}
    /\ Capacity \in Nat /\ Capacity >= Cost
    /\ IdleTime \in Nat /\ IdleTime >= Capacity

VARIABLES
    now,             \* steady_clock
    present,         \* keys of token_buckets_
    tokens,          \* tokens of each bucket; meaningless when not present
    last_fill_time,  \* last_fill_time of each bucket
    from,            \* history: start of the window an observer looks at
    spent,           \* history: credit spent by each key in that window
    admitted_at      \* history: when the key was last admitted, or first seen

buckets == <<present, tokens, last_fill_time>>
history == <<from, spent, admitted_at>>
limiter_vars == <<now, buckets, history>>

LimiterTypeOK ==
    /\ now \in Nat
    /\ present \subseteq Keys
    /\ tokens \in [Keys -> 0..Capacity]
    /\ last_fill_time \in [Keys -> Nat]
    /\ from \in Nat
    /\ spent \in [Keys -> Nat]
    /\ admitted_at \in [Keys -> Nat]

LimiterInit ==
    /\ now = 0
    /\ present = {}
    /\ tokens = [k \in Keys |-> 0]
    /\ last_fill_time = [k \in Keys |-> 0]
    /\ from = 0
    /\ spent = [k \in Keys |-> 0]
    /\ admitted_at = [k \in Keys |-> 0]

\* The headers a key is taken from: the addresses of X-Forwarded-For, if the
\* header is there, and X-Real-IP, NoKey if it is not.
Headers ==
    [has_forwarded : BOOLEAN, forwarded : {<<>>} \cup Keys \X (Keys \cup {NoKey}),
     real : Keys \cup {NoKey}]

extract_client_ip(h) ==
    IF h.has_forwarded
    THEN IF h.forwarded = <<>> THEN NoKey ELSE Head(h.forwarded)
    ELSE h.real

\* A new bucket is full; another one has gained credit since its last refill.
Refilled(k) ==
    IF k \notin present THEN Capacity
    ELSE LET t == tokens[k] + (now - last_fill_time[k])
         IN  IF t > Capacity THEN Capacity ELSE t

\* Mutant: a rejected request starts the refill anew.
on_requestRestarts(k) ==
    /\ present' = present \cup {k}
    /\ last_fill_time' = [last_fill_time EXCEPT ![k] = now]
    /\ IF Refilled(k) >= Cost
       THEN /\ tokens' = [tokens EXCEPT ![k] = Refilled(k) - Cost]
            /\ spent' = [spent EXCEPT ![k] = @ + Cost]
            /\ admitted_at' = [admitted_at EXCEPT ![k] = now]
       ELSE /\ tokens' = [tokens EXCEPT ![k] = 0]
            /\ UNCHANGED <<spent, admitted_at>>
    /\ UNCHANGED <<now, from>>

on_request(k) ==
    /\ present' = present \cup {k}
    /\ last_fill_time' = [last_fill_time EXCEPT ![k] = now]
    /\ IF Refilled(k) >= Cost
       THEN /\ tokens' = [tokens EXCEPT ![k] = Refilled(k) - Cost]
            /\ spent' = [spent EXCEPT ![k] = @ + Cost]
            /\ admitted_at' = [admitted_at EXCEPT ![k] = now]
       ELSE /\ tokens' = [tokens EXCEPT ![k] = Refilled(k)]
            /\ UNCHANGED <<spent, admitted_at>>
    /\ UNCHANGED <<now, from>>

\* A request without a key passes and leaves no trace.
filter(h) ==
    LET k == extract_client_ip(h)
    IN  IF k = NoKey THEN UNCHANGED limiter_vars ELSE on_request(k)

\* Mutant: removes what has been used within the idle time.
cleanup_expiredFresh ==
    /\ present' = {k \in present : now - last_fill_time[k] < Cost}
    /\ UNCHANGED <<now, tokens, last_fill_time, history>>

cleanup_expired_buckets ==
    /\ present' = {k \in present : now - last_fill_time[k] <= IdleTime}
    /\ UNCHANGED <<now, tokens, last_fill_time, history>>

LimiterTick ==
    /\ now' = now + 1
    /\ UNCHANGED <<buckets, history>>

\* The observer starts a new window.
Observe ==
    /\ from' = now
    /\ spent' = [k \in Keys |-> 0]
    /\ UNCHANGED <<now, buckets, admitted_at>>

LimiterNext ==
    \/ \E h \in Headers : filter(h)
    \/ cleanup_expired_buckets
    \/ LimiterTick
    \/ Observe

LimiterSpec == LimiterInit /\ [][LimiterNext]_limiter_vars

-----------------------------------------------------------------------------
(* Properties. *)

\* Whatever the window, a client gets burst_ tokens and the ones the time
\* brings, no more; removing its bucket and making a new, full one does not
\* give it credit (on_request against cleanup_expired_buckets).
WithinRate == \A k \in Keys : spent[k] <= Capacity + (now - from)

\* A client that has not been admitted for the time of a token would be
\* admitted now, however many of its requests were rejected meanwhile.
NotStarved == \A k \in Keys : now - admitted_at[k] >= Cost => Refilled(k) >= Cost
=============================================================================
