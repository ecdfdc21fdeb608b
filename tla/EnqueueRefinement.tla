------------------------- MODULE EnqueueRefinement --------------------------
(***************************************************************************)
(* The webhook implements Intake: its markers are the updates done, the    *)
(* jobs recorded as published the updates queued.  A message handed to     *)
(* QStash a second time changes neither, so Intake says nothing of it;     *)
(* PublishedOnce of Enqueue does.                                          *)
(***************************************************************************)
EXTENDS Enqueue

I == INSTANCE Intake WITH
       done <- seen, queued <- published, applied <- applied

\* Whatever calls overlap, repeat one another or are abandoned: an update is
\* marked done only with its effect, a tone command in one step with it, and
\* a job once recorded as published stays so.
ImplementsIntake == I!IntakeSpec

=============================================================================
