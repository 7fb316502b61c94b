----------------------------- MODULE MCWatchdog -----------------------------
(* Instances of Watchdog for TLC. *)
EXTENDS Watchdog

CONSTANTS w1, w2
=============================================================================
