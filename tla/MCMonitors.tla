----------------------------- MODULE MCMonitors -----------------------------
(***************************************************************************)
(* Intervals for the model checker: no snapshots, and every one, two and   *)
(* three seconds.  With seconds of three milliseconds, an interval of two  *)
(* is kept and one of three is not: the first second is three milliseconds.*)
(***************************************************************************)
EXTENDS ConnectionMonitor

TheIntervals == {-1, 1, 2, 3}
=============================================================================
