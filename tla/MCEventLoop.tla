----------------------------- MODULE MCEventLoop -----------------------------
(* EventLoop for TLC: two deferring threads, rounds smaller than a burst.    *)
EXTENDS EventLoop
=============================================================================
