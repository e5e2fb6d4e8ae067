---------------------------- MODULE MCTimeouts ----------------------------
(* Timeouts with the durations of the code, given in timeouts.cfg.        *)
EXTENDS Timeouts

ASSUME Patient
=============================================================================
