------------------------------- MODULE Intake -------------------------------
(***************************************************************************)
(* What the webhook promises about Telegram updates, whatever is repeated, *)
(* overlaps or breaks: an update whose completion marker is set has had    *)
(* its effect: its job is recorded as published, or its tone command was   *)
(* applied, in the very step of the marker and therefore once.             *)
(***************************************************************************)
EXTENDS Sequences

CONSTANTS
  Updates,   \* Telegram update ids
  Routed,    \* the updates that are to become a job
  Optional,  \* the routed updates an automatic rule matched: the cooldown,
             \* or a change of the rules, may leave them without a job
  Tones      \* the updates that are tone commands; none of them is routed

VARIABLES
  done,     \* the updates with a completion marker
  queued,   \* the updates whose job is recorded as published
  applied   \* the tone commands in the order they took effect

intakeVars == <<done, queued, applied>>

Queue(u) ==
  /\ u \in Routed \ queued
  /\ queued' = queued \cup {u}
  /\ UNCHANGED <<done, applied>>

\* A tone command and its marker are one step.
ApplyTone(u) ==
  /\ u \in Tones \ done
  /\ applied' = Append(applied, u)
  /\ done' = done \cup {u}
  /\ UNCHANGED queued

Finish(u) ==
  /\ u \in Updates \ (done \cup Tones)
  /\ u \in Routed \ Optional => u \in queued
  /\ done' = done \cup {u}
  /\ UNCHANGED <<queued, applied>>

IntakeInit == done = {} /\ queued = {} /\ applied = <<>>

IntakeNext == \E u \in Updates : Queue(u) \/ ApplyTone(u) \/ Finish(u)

IntakeSpec == IntakeInit /\ [][IntakeNext]_intakeVars

=============================================================================
