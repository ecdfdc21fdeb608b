---------------------------- MODULE MCScheduler -----------------------------
(***************************************************************************)
(* Calls of the scheduler that overlap, in slots of which one is quiet.    *)
(***************************************************************************)
EXTENDS Scheduler, TLC

CONSTANTS c1, c2

MCTwoCalls == {c1, c2}

MCLastQuiet == {MaxSlot}

MCFaults == {"mark", "again", "look", "drop", "context", "epoch", "create", "publish", "record"}

=============================================================================
