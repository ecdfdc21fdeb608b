---------------------------- MODULE JobLifecycle ----------------------------
(***************************************************************************)
(* What the job store promises about a job, without leases, fences or      *)
(* intents: it is worked on by one worker at a time, at most MaxAttempts   *)
(* times, is delivered only once it has an answer, and ends once.  It may  *)
(* be forgotten at any moment, when it expires or is purged, and the same  *)
(* update may then be submitted again.                                     *)
(*                                                                         *)
(* JobStore implements this module; see JobStoreRefinement.                *)
(***************************************************************************)
EXTENDS Naturals

CONSTANTS MaxAttempts

VARIABLES
  phase,     \* absent, waiting for a worker, running, or how the job ended
  attempts,  \* the times a worker has taken it
  answered   \* its answer is saved

vars == <<phase, attempts, answered>>

Outcomes == {"delivered", "failed", "failed_ambiguous"}

Init ==
  /\ phase = "absent"
  /\ attempts = 0
  /\ answered = FALSE

Submit ==
  /\ phase = "absent"
  /\ phase' = "waiting"
  /\ UNCHANGED <<attempts, answered>>

Attempt ==
  /\ phase = "waiting"
  /\ attempts < MaxAttempts
  /\ phase' = "running"
  /\ attempts' = attempts + 1
  /\ UNCHANGED answered

Answer ==
  /\ phase = "running"
  /\ answered' = TRUE
  /\ UNCHANGED <<phase, attempts>>

\* The worker stops, or is cut off, before the job has ended.
Yield ==
  /\ phase = "running"
  /\ phase' = "waiting"
  /\ UNCHANGED <<attempts, answered>>

Conclude(outcome) ==
  /\ phase = "running"
  /\ outcome = "delivered" => answered
  /\ phase' = outcome
  /\ UNCHANGED <<attempts, answered>>

\* The queue gives up on a job nobody is working on.
GiveUp ==
  /\ phase = "waiting"
  /\ phase' = "failed"
  /\ UNCHANGED <<attempts, answered>>

Forget ==
  /\ phase # "absent"
  /\ phase' = "absent"
  /\ attempts' = 0
  /\ answered' = FALSE

Next ==
  \/ Submit
  \/ Attempt
  \/ Answer
  \/ Yield
  \/ \E outcome \in Outcomes : Conclude(outcome)
  \/ GiveUp
  \/ Forget

Spec == Init /\ [][Next]_vars

=============================================================================
