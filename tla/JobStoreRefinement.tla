------------------------- MODULE JobStoreRefinement -------------------------
(***************************************************************************)
(* The job store implements the life cycle it promises.  A job is running  *)
(* exactly while its lease is on record; a worker whose lease has expired  *)
(* may not know it yet, but nothing it asks of the store counts any more.  *)
(***************************************************************************)
EXTENDS JobStore

Phase ==
  IF Live THEN (IF lease = None THEN "waiting" ELSE "running") ELSE job.state

Lifecycle == INSTANCE JobLifecycle WITH
  phase <- Phase,
  attempts <- job.attempts,
  answered <- job.answer # None

\* Every step of the store is a step of the life cycle or leaves it alone.
ImplementsLifecycle == Lifecycle!Spec

=============================================================================
