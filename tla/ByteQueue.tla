------------------------------ MODULE ByteQueue ------------------------------
(***************************************************************************)
(* What a Buffer promises its clients, who do not see the indexes: a call  *)
(* puts the bytes it is given at the end or in front, takes as many as it  *)
(* is told from the front, or leaves the bytes as they are.                *)
(***************************************************************************)
EXTENDS Naturals, Sequences

CONSTANT Byte

VARIABLES
    contents,   \* the bytes put and not yet taken
    last_call   \* what the last call was asked to do

Init == contents = <<>> /\ last_call = <<"keep">>

Put(d) == contents' = contents \o d /\ last_call' = <<"put", d>>

PutInFront(d) == contents' = d \o contents /\ last_call' = <<"put_in_front", d>>

\* Takes n bytes, or all if there are fewer.
Take(n) == contents' = SubSeq(contents, n + 1, Len(contents)) /\ last_call' = <<"take", n>>

\* Making room and moving the bytes.
Keep == contents' = contents /\ last_call' = <<"keep">>

Next ==
    \/ \E d \in Seq(Byte) : Put(d) \/ PutInFront(d)
    \/ \E n \in Nat : Take(n)
    \/ Keep

Spec == Init /\ [][Next]_<<contents, last_call>>
=============================================================================
