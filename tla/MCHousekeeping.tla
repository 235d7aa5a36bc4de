---------------------------- MODULE MCHousekeeping ----------------------------
(* Housekeeping for TLC: a timeout between the delays.                        *)
EXTENDS Housekeeping
=============================================================================
