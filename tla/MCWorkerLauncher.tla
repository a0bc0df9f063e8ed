-------------------------- MODULE MCWorkerLauncher --------------------------
(***************************************************************************)
(* WorkerLauncher for TLC: two runs, which is what it takes to race in     *)
(* launching, and two cancellations, one to cancel a run's worker and one  *)
(* to come in between that and its late clear of the Event.                *)
(***************************************************************************)
EXTENDS WorkerLauncher

CONSTANTS r1, r2, c1, c2

MCRuns == {r1, r2}
MCCancels == {c1, c2}
=============================================================================
