----------------------------- MODULE Scheduler ------------------------------
(***************************************************************************)
(* The banter of every twenty minutes: src/app/telegram/scheduler.py.      *)
(* QStash calls the endpoint once per slot, repeats a call that failed,    *)
(* and may deliver one twice; calls overlap and every one belongs to the   *)
(* slot in which it started.  A marker key per slot and the id of the      *)
(* slot's job keep the slot to one message.                                *)
(*                                                                         *)
(* The worker is reduced to what it does with a scheduled job: the check   *)
(* of _ensure_memory_epoch and the one message (module Delivery shows why  *)
(* it is one).  A lobotomy raises the memory epoch.                        *)
(***************************************************************************)
EXTENDS Integers, Sequences

CONSTANTS
  MaxSlot,   \* bound on the slots
  Quiet,     \* slots between 01:00 and 09:00 in Warsaw
  Calls,
  MaxTries,  \* deliveries of one call: the first and its retries
  MaxEpoch,  \* bound on lobotomies
  Faults     \* the steps that may fail

ASSUME SchedulerAssumption ==
  /\ MaxSlot \in Nat /\ MaxTries \in Nat /\ MaxEpoch \in Nat
  /\ Quiet \subseteq 0..MaxSlot
  /\ Faults \subseteq {"mark", "again", "look", "drop", "context", "epoch", "create",
                       "publish", "record"}

VARIABLES
  now,        \* the current slot
  epoch,      \* memory:epoch:<chat>
  marked,     \* the slots whose scheduled:slot key is set
  job,        \* the job of each slot
  published,  \* the jobs QStash has accepted
  call,       \* the calls of the endpoint
  given,      \* history variable: slots for which a call was answered "expired"
  checked,    \* jobs whose worker has passed its last check
  sent        \* the messages of each slot: the slots they were sent in

schedulerVars == <<now, epoch, marked, job, published, call, given, checked, sent>>

Slots == 0..MaxSlot

NoJob == [state |-> "absent", recorded |-> FALSE, context |-> 0, epoch |-> 0]

Jobs == [state : {"absent", "open", "sent", "cancelled"}, recorded : BOOLEAN,
         context : 0..MaxEpoch, epoch : 0..MaxEpoch]

Steps == {"idle", "get", "mark", "again", "look", "drop", "context", "epoch", "create",
          "publish", "record", "done"}

CallStates == [pc : Steps, slot : Slots, context : 0..MaxEpoch, epoch : 0..MaxEpoch,
               tries : 0..MaxTries]

To(c, pc) == call' = [call EXCEPT ![c].pc = pc]

\* Answered "expired", or failed and not repeated any more.
Over(c) ==
  \/ call[c].pc = "done" /\ call[c].slot \in given
  \/ call[c].pc = "idle" /\ call[c].tries = MaxTries

Failed(c) == call[c].tries > 1 \/ (call[c].pc = "idle" /\ call[c].tries = 1)

storeSide == <<marked, job, published>>
worldSide == <<now, epoch, checked, sent>>

-----------------------------------------------------------------------------
(* The endpoint, one round trip at a time.                                 *)

\* A first delivery or a repeated one; a quiet slot is answered at once.
Start(c) ==
  /\ call[c].pc = "idle" /\ call[c].tries < MaxTries
  /\ now \notin Quiet
  /\ call' = [call EXCEPT ![c].pc = "get", ![c].slot = now, ![c].tries = @ + 1]
  /\ UNCHANGED <<storeSide, worldSide, given>>

GetMarker(c) ==
  /\ call[c].pc = "get"
  /\ To(c, IF call[c].slot \in marked THEN "look" ELSE "mark")
  /\ UNCHANGED <<storeSide, worldSide, given>>

\* set_nx; the call that sets the marker builds the job.
SetMarker(c) ==
  /\ call[c].pc = "mark"
  /\ To(c, IF call[c].slot \in marked THEN "again" ELSE "context")
  /\ marked' = marked \cup {call[c].slot}
  /\ UNCHANGED <<job, published, worldSide, given>>

\* The marker was set in between, and perhaps deleted again.
GetMarkerAgain(c) ==
  /\ call[c].pc = "again"
  /\ To(c, IF call[c].slot \in marked THEN "look" ELSE "context")
  /\ UNCHANGED <<storeSide, worldSide, given>>

\* _human_context, with the epoch of this moment.
ReadContext(c) ==
  /\ call[c].pc = "context"
  /\ call' = [call EXCEPT ![c].pc = "epoch", ![c].context = epoch]
  /\ UNCHANGED <<storeSide, worldSide, given>>

\* The memory_epoch of the request is read anew.
ReadEpoch(c) ==
  /\ call[c].pc = "epoch"
  /\ call' = [call EXCEPT ![c].pc = "create", ![c].epoch = epoch]
  /\ UNCHANGED <<storeSide, worldSide, given>>

NewJob(c) == [state |-> "open", recorded |-> FALSE,
              context |-> call[c].context, epoch |-> call[c].epoch]

\* Mutant: the job of the slot is replaced by the new one.
CreateAnew(c) ==
  /\ call[c].pc = "create"
  /\ job' = [job EXCEPT ![call[c].slot] = NewJob(c)]
  /\ To(c, "publish")
  /\ UNCHANGED <<marked, published, worldSide, given>>

\* Mutant: the job counts as published from its creation.
CreateRecorded(c) ==
  /\ call[c].pc = "create"
  /\ job' = [job EXCEPT ![call[c].slot] =
               IF @.state = "absent" THEN [NewJob(c) EXCEPT !.recorded = TRUE] ELSE @]
  /\ To(c, IF job'[call[c].slot].recorded THEN "done" ELSE "publish")
  /\ UNCHANGED <<marked, published, worldSide, given>>

\* create_reply_job returns the slot's job if there is one.
CreateJob(c) ==
  /\ call[c].pc = "create"
  /\ job' = [job EXCEPT ![call[c].slot] = IF @.state = "absent" THEN NewJob(c) ELSE @]
  /\ To(c, IF job'[call[c].slot].recorded THEN "done" ELSE "publish")
  /\ UNCHANGED <<marked, published, worldSide, given>>

\* Mutant: any job that exists counts as queued.
LookUpAnyJob(c) ==
  /\ call[c].pc = "look"
  /\ To(c, IF job[call[c].slot].state = "absent" THEN "drop" ELSE "done")
  /\ UNCHANGED <<storeSide, worldSide, given>>

LookUpJob(c) ==
  /\ call[c].pc = "look"
  /\ To(c, CASE job[call[c].slot].state = "absent" -> "drop"
             [] job[call[c].slot].recorded -> "done"
             [] OTHER -> "publish")
  /\ UNCHANGED <<storeSide, worldSide, given>>

\* A marker without a job: deleted, and the call is answered as a success.
DropMarker(c) ==
  /\ call[c].pc = "drop"
  /\ marked' = marked \ {call[c].slot}
  /\ given' = given \cup {call[c].slot}
  /\ To(c, "done")
  /\ UNCHANGED <<job, published, worldSide>>

\* QStash takes the job, under its deduplication id once.
Publish(c) ==
  /\ call[c].pc = "publish"
  /\ published' = published \cup {call[c].slot}
  /\ To(c, "record")
  /\ UNCHANGED <<marked, job, worldSide, given>>

RecordPublication(c) ==
  /\ call[c].pc = "record"
  /\ job' = [job EXCEPT ![call[c].slot].recorded = TRUE]
  /\ To(c, "done")
  /\ UNCHANGED <<marked, published, worldSide, given>>

\* A crash or an error before the step: an error is answered, QStash repeats.
Fail(c) ==
  /\ call[c].pc \in Faults
  /\ To(c, "idle")
  /\ UNCHANGED <<storeSide, worldSide, given>>

-----------------------------------------------------------------------------
(* The worker, lobotomies and time.                                        *)

\* _ensure_memory_epoch, the last time before the delivery.
Check(s) ==
  /\ s \in published /\ job[s].state = "open" /\ s \notin checked
  /\ IF now \in Quiet \/ job[s].epoch # epoch
     THEN job' = [job EXCEPT ![s].state = "cancelled"] /\ UNCHANGED checked
     ELSE checked' = checked \cup {s} /\ UNCHANGED job
  /\ UNCHANGED <<now, epoch, marked, published, call, given, sent>>

\* The delivery of the message, without another look at clock or epoch.
Send(s) ==
  /\ s \in checked /\ job[s].state = "open"
  /\ job' = [job EXCEPT ![s].state = "sent"]
  /\ checked' = checked \ {s}
  /\ sent' = [sent EXCEPT ![s] = Append(@, now)]
  /\ UNCHANGED <<now, epoch, marked, published, call, given>>

Lobotomy ==
  /\ epoch < MaxEpoch
  /\ epoch' = epoch + 1
  /\ UNCHANGED <<now, marked, job, published, call, given, checked, sent>>

NextSlot ==
  /\ now < MaxSlot
  /\ now' = now + 1
  /\ UNCHANGED <<epoch, marked, job, published, call, given, checked, sent>>

-----------------------------------------------------------------------------

SchedulerInit ==
  /\ now = 0 /\ epoch = 0
  /\ marked = {} /\ published = {} /\ given = {} /\ checked = {}
  /\ job = [s \in Slots |-> NoJob]
  /\ call = [c \in Calls |-> [pc |-> "idle", slot |-> 0, context |-> 0, epoch |-> 0,
                              tries |-> 0]]
  /\ sent = [s \in Slots |-> <<>>]

Endpoint(c) ==
  \/ GetMarker(c) \/ SetMarker(c) \/ GetMarkerAgain(c)
  \/ ReadContext(c) \/ ReadEpoch(c) \/ CreateJob(c)
  \/ LookUpJob(c) \/ DropMarker(c)
  \/ Publish(c) \/ RecordPublication(c)

Worker(s) == Check(s) \/ Send(s)

SchedulerNext ==
  \/ \E c \in Calls : Start(c) \/ Endpoint(c) \/ Fail(c)
  \/ \E s \in Slots : Worker(s)
  \/ Lobotomy
  \/ NextSlot

SchedulerSpec == SchedulerInit /\ [][SchedulerNext]_schedulerVars

\* A call that has begun goes on, QStash repeats what failed (retries=3 in
\* scripts/set_qstash_schedule.py) and delivers what it has accepted.
FairSchedulerSpec ==
  /\ SchedulerSpec
  /\ \A c \in Calls : WF_schedulerVars(Endpoint(c)) /\ WF_schedulerVars(Start(c))
  /\ \A s \in Slots : WF_schedulerVars(Worker(s))

-----------------------------------------------------------------------------
(* Properties.                                                             *)

\* Jobs, calls and messages have their types, and a slot has at most one
\* message, whatever calls overlap, fail and are repeated.
SchedulerTypeOK ==
  /\ now \in Slots /\ epoch \in 0..MaxEpoch
  /\ marked \subseteq Slots /\ published \subseteq Slots
  /\ given \subseteq Slots /\ checked \subseteq Slots
  /\ job \in [Slots -> Jobs]
  /\ call \in [Calls -> CallStates]
  /\ \A s \in Slots : sent[s] \in Seq(Slots) /\ Len(sent[s]) <= 1

\* A job is recorded as published only if QStash has accepted it: a call that
\* trusts the record never leaves a job that nobody runs.
RecordedIsPublished ==
  \A s \in Slots : job[s].recorded => s \in published

\* A slot some call began is served unless a call failed: its job is sent, or
\* cancelled by the night or a lobotomy, however the calls overlap.  (A failure
\* may leave the slot without a job: the marker is deleted, and the call that
\* deletes it is answered as a success.)
BegunSlotIsServed ==
  \A s \in Slots :
    (\E c \in Calls : call[c].slot = s /\ call[c].pc = "get")
      ~> \/ job[s].state \in {"sent", "cancelled"}
         \/ \E c \in Calls : Failed(c)

\* A job whose publication failed is served by a repeated call as long as its
\* slot lasts and QStash still has a call to repeat.
OpenJobIsServed ==
  \A s \in Slots :
    (job[s].state = "open" /\ now = s)
      ~> \/ job[s].state \in {"sent", "cancelled"}
         \/ now # s
         \/ \A c \in Calls : Over(c)

=============================================================================
