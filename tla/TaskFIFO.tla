------------------------------ MODULE TaskFIFO ------------------------------
(***************************************************************************)
(* What a task queue promises its clients: items come out one at a time,   *)
(* each once, in the order in which they were put in.                      *)
(***************************************************************************)
EXTENDS Naturals, Sequences

CONSTANTS Items, NoItem

VARIABLES
    queue,   \* items put and not yet taken, oldest first
    last     \* the item taken last, NoItem before the first one

Init == queue = <<>> /\ last = NoItem

Put == \E x \in Items : queue' = Append(queue, x) /\ UNCHANGED last

Take ==
    /\ queue # <<>>
    /\ last' = Head(queue)
    /\ queue' = Tail(queue)

Spec == Init /\ [][Put \/ Take]_<<queue, last>>
=============================================================================
