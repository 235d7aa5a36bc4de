---------------------------- MODULE MCBackendPool ----------------------------
(* BackendPool for TLC.                                                      *)
EXTENDS BackendPool
=============================================================================
