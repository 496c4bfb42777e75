----------------------------- MODULE MCJobQueue -----------------------------
(* The worker pool on small instances: a handful of rows, two pool workers  *)
(* and the drain.                                                           *)
EXTENDS JobQueue

(* Ingest handlers may hang for ever; all others end.                       *)
HangingIngestSpec == Spec /\ Fairness(INGEST_JOB_TYPES)
=============================================================================
