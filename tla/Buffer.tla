-------------------------------- MODULE Buffer --------------------------------
(***************************************************************************)
(* The byte buffer of a connection (src/src/net/buffer.cpp): a vector with *)
(* an index where the readable bytes begin and one where they end, and     *)
(* room in front.  The methods are operators on the record of a buffer, so *)
(* that they can call one another as in the code.  Byte i of the vector is *)
(* element i + 1 of the sequence.                                          *)
(***************************************************************************)
EXTENDS Naturals, Sequences

Byte == 0..255
kInitialSize == 4096
kPrependableSize == 128
StackSize == 65536   \* sizeof(stack_buf)

VARIABLES
    buffer,
    last_call   \* history: what the last call was asked to do

\* The indexes never leave the vector, nor cross.
Buffers ==
    { b \in [buf : Seq(Byte), read_idx : Nat, write_idx : Nat] :
        /\ b.read_idx <= b.write_idx /\ b.write_idx <= Len(b.buf)
        /\ kPrependableSize <= b.write_idx }

readable_size(b) == b.write_idx - b.read_idx
writable_size(b) == Len(b.buf) - b.write_idx

\* read_as_string(): the readable bytes.
read_as_string(b) == [i \in 1..readable_size(b) |-> b.buf[b.read_idx + i]]

\* std::vector::resize to a larger size, and memcpy of d to index "at".
Resized(v, size) == [i \in 1..size |-> IF i <= Len(v) THEN v[i] ELSE 0]
Copied(v, at, d) ==
    [i \in 1..Len(v) |-> IF at < i /\ i <= at + Len(d) THEN d[i - at] ELSE v[i]]

Buffer0 ==
    [ buf |-> Resized(<<>>, kInitialSize + kPrependableSize),
      read_idx |-> kPrependableSize, write_idx |-> kPrependableSize ]

consume_all(b) ==
    [buf |-> b.buf, read_idx |-> kPrependableSize, write_idx |-> kPrependableSize]

consume(b, n) ==
    IF n >= readable_size(b) THEN consume_all(b) ELSE [b EXCEPT !.read_idx = b.read_idx + n]

shrink(b) ==
    IF b.read_idx = kPrependableSize THEN b
    ELSE [ buf |-> Copied(b.buf, kPrependableSize, read_as_string(b)),
           read_idx |-> kPrependableSize,
           write_idx |-> kPrependableSize + readable_size(b) ]

ensure_writable(b, n) ==
    IF writable_size(b) >= n THEN b
    ELSE IF b.read_idx + writable_size(b) >= n + kPrependableSize THEN shrink(b)
    ELSE [b EXCEPT !.buf = Resized(b.buf, Len(b.buf) + (n - writable_size(b)))]

\* memcpy to writable_data() and has_writeen().
Written(b, d) ==
    [ buf |-> Copied(b.buf, b.write_idx, d),
      read_idx |-> b.read_idx, write_idx |-> b.write_idx + Len(d) ]

append(b, d) == Written(ensure_writable(b, Len(d)), d)

\* A longer d makes a new vector; write_idx_ is computed after read_idx_ has
\* changed, from the old write_idx_, and keeps its value.
PrependSpace(b, n) ==
    IF n <= b.read_idx THEN b
    ELSE [ buf |-> Copied(Resized(<<>>, n + readable_size(b) + kPrependableSize),
                          kPrependableSize + n, read_as_string(b)),
           read_idx |-> kPrependableSize + n,
           write_idx |-> b.write_idx ]

prepend(b, d) ==
    LET s == PrependSpace(b, Len(d))
        at == s.read_idx - Len(d)
    IN  [buf |-> Copied(s.buf, at, d), read_idx |-> at, write_idx |-> s.write_idx]

\* readv() into the writable part and, unless that is large, the stack buffer
\* after it; d is what it has read.
read_from_fd(b, d) ==
    LET room == writable_size(b)
    IN  IF Len(d) <= room THEN Written(b, d)
        ELSE append(Written(b, SubSeq(d, 1, room)), SubSeq(d, room + 1, Len(d)))

\* How much that can be.
MayRead(b, n) ==
    n <= (IF writable_size(b) >= StackSize THEN 0 ELSE StackSize) + writable_size(b)

-----------------------------------------------------------------------------
(* The calls, each with what the client has asked for. *)

Does(b, asked) == buffer' = b /\ last_call' = asked

reads(d) == MayRead(buffer, Len(d)) /\ Does(read_from_fd(buffer, d), <<"put", d>>)
appends(d) == Does(append(buffer, d), <<"put", d>>)
prepends(d) == Does(prepend(buffer, d), <<"put_in_front", d>>)

\* The client copies d to writable_data() and calls has_writeen().
has_writeen(d) == Does(Written(buffer, d), <<"put", d>>)

consumes(n) == Does(consume(buffer, n), <<"take", n>>)

\* write() has taken n of the bytes.
write_to_fd(n) == n <= readable_size(buffer) /\ consumes(n)

\* clear() too.
consumes_all == Does(consume_all(buffer), <<"take", readable_size(buffer)>>)

ensures_writable(n) == Does(ensure_writable(buffer, n), <<"keep">>)
shrinks == Does(shrink(buffer), <<"keep">>)

BufferInit == buffer = Buffer0 /\ last_call = <<"keep">>

BufferNext ==
    \/ \E d \in Seq(Byte) : reads(d) \/ appends(d) \/ prepends(d) \/ has_writeen(d)
    \/ \E n \in Nat : consumes(n) \/ write_to_fd(n) \/ ensures_writable(n)
    \/ consumes_all \/ shrinks

BufferSpec == BufferInit /\ [][BufferNext]_<<buffer, last_call>>

\* The calls of Connection: read_buf_ and write_buf_ are used by no others.
ConnectionNext ==
    \/ \E d \in Seq(Byte) : reads(d) \/ appends(d)
    \/ \E n \in Nat : consumes(n) \/ write_to_fd(n)

ConnectionSpec == BufferInit /\ [][ConnectionNext]_<<buffer, last_call>>

-----------------------------------------------------------------------------
\* What no method checks and the client has to keep to: not to write more than
\* writable_size(), and not to shrink() after a prepend() when the bytes do not
\* fit behind kPrependableSize.  The code would write past the vector.
Fits(b) == kPrependableSize + readable_size(b) <= Len(b.buf)

Overrun ==
    \/ shrinks /\ ~Fits(buffer)
    \/ \E d \in Seq(Byte) : Len(d) > writable_size(buffer) /\ has_writeen(d)

\* A prepend() of more than the room in front loses bytes at the end.
LongPrepend == \E d \in Seq(Byte) : Len(d) > buffer.read_idx /\ prepends(d)

\* The readable bytes are a queue.
Queue == INSTANCE ByteQueue WITH contents <- read_as_string(buffer)
=============================================================================
