-------------------------- MODULE SchedulerProofs ---------------------------
(***************************************************************************)
(* What holds of the scheduler for any number of slots, calls, retries and *)
(* faults.  The invariant adds to what TLC checks why a slot has one       *)
(* message (the job that sent it stays as it is: OneMessage) and why a job *)
(* can be recorded (the call that is to do it has published: CallsPublished).*)
(***************************************************************************)
EXTENDS Scheduler, TLAPS

OneMessage == \A s \in Slots : sent[s] # <<>> => job[s].state = "sent"

CallsPublished == \A c \in Calls : call[c].pc = "record" => call[c].slot \in published

SchedulerInv ==
  /\ SchedulerTypeOK
  /\ RecordedIsPublished
  /\ OneMessage
  /\ CallsPublished

-----------------------------------------------------------------------------
(* What the steps write.                                                   *)

LEMMA MovedCall ==
  ASSUME call \in [Calls -> CallStates], NEW c \in Calls, NEW pc \in Steps, To(c, pc)
  PROVE  /\ call' \in [Calls -> CallStates]
         /\ call'[c].pc = pc /\ call'[c].slot = call[c].slot
         /\ \A d \in Calls \ {c} : call'[d] = call[d]
<1>1. call[c] \in CallStates /\ call'[c] = [call[c] EXCEPT !.pc = pc]
  BY DEF To
<1>2. /\ call'[c] \in CallStates
      /\ call'[c].pc = pc /\ call'[c].slot = call[c].slot
  BY <1>1 DEF CallStates
<1> QED BY <1>2 DEF To

LEMMA CallFields ==
  ASSUME NEW r \in CallStates
  PROVE  /\ r.pc \in Steps /\ r.slot \in Slots /\ r.tries \in 0..MaxTries
         /\ r.context \in 0..MaxEpoch /\ r.epoch \in 0..MaxEpoch
BY DEF CallStates

\* The steps of a call as they are named in the actions.
LEMMA StepNames ==
  {"idle", "get", "mark", "again", "look", "drop", "context", "epoch", "create", "publish",
   "record", "done"} \subseteq Steps
BY DEF Steps

LEMMA JobWithState ==
  ASSUME NEW r \in Jobs, NEW state \in {"absent", "open", "sent", "cancelled"}
  PROVE  /\ [r EXCEPT !.state = state] \in Jobs
         /\ [r EXCEPT !.state = state].state = state
         /\ [r EXCEPT !.state = state].recorded = r.recorded
BY DEF Jobs

LEMMA JobRecorded ==
  ASSUME NEW r \in Jobs
  PROVE  /\ [r EXCEPT !.recorded = TRUE] \in Jobs
         /\ [r EXCEPT !.recorded = TRUE].state = r.state
BY DEF Jobs

LEMMA NewJobIsOpen ==
  ASSUME NEW c \in Calls, call[c] \in CallStates
  PROVE  NewJob(c) \in Jobs /\ NewJob(c).state = "open" /\ NewJob(c).recorded = FALSE
BY CallFields DEF NewJob, Jobs

\* An invariant depends on the jobs, the publications and the messages only.
LEMMA CallsStayPublished ==
  ASSUME CallsPublished, NEW c \in Calls, published \subseteq published',
         \A d \in Calls \ {c} : call'[d] = call[d],
         call'[c].pc = "record" => call'[c].slot \in published'
  PROVE  CallsPublished'
BY DEF CallsPublished

\* A step that only changes where a call is.
LEMMA QuietCallKeeps ==
  ASSUME SchedulerInv, NEW c \in Calls, call' \in [Calls -> CallStates],
         \A d \in Calls \ {c} : call'[d] = call[d], call'[c].pc # "record",
         UNCHANGED <<job, published, worldSide>>,
         marked' \subseteq Slots, given' \subseteq Slots
  PROVE  SchedulerInv'
<1>1. SchedulerTypeOK'
  BY DEF SchedulerInv, SchedulerTypeOK, worldSide
<1>2. CallsPublished'
  BY CallsStayPublished DEF SchedulerInv
<1> QED BY <1>1, <1>2 DEF SchedulerInv, RecordedIsPublished, OneMessage, worldSide

-----------------------------------------------------------------------------

LEMMA InitHasSchedulerInv == SchedulerInit => SchedulerInv
<1> SUFFICES ASSUME SchedulerInit PROVE SchedulerInv
  OBVIOUS
<1>1. 0 \in Slots /\ 0 \in 0..MaxEpoch /\ 0 \in 0..MaxTries
  BY SchedulerAssumption DEF Slots
<1>2. NoJob \in Jobs /\ NoJob.recorded = FALSE
  BY <1>1 DEF NoJob, Jobs
<1>3. call \in [Calls -> CallStates] /\ \A c \in Calls : call[c].pc = "idle"
  BY <1>1, StepNames DEF SchedulerInit, CallStates
<1>4. \A s \in Slots : sent[s] = <<>>
  BY DEF SchedulerInit
<1>5. SchedulerTypeOK
  BY <1>1, <1>2, <1>3, <1>4 DEF SchedulerInit, SchedulerTypeOK
<1> QED BY <1>2, <1>3, <1>4, <1>5
        DEF SchedulerInit, SchedulerInv, RecordedIsPublished, OneMessage, CallsPublished

-----------------------------------------------------------------------------
(* The endpoint.                                                           *)

LEMMA StartKeeps ==
  ASSUME SchedulerInv, NEW c \in Calls, Start(c)
  PROVE  SchedulerInv'
<1>1. /\ call[c].tries < MaxTries
      /\ call' = [call EXCEPT ![c].pc = "get", ![c].slot = now, ![c].tries = @ + 1]
      /\ UNCHANGED <<storeSide, worldSide, given>>
  BY DEF Start
<1>2. call[c] \in CallStates /\ now \in Slots
  BY DEF SchedulerInv, SchedulerTypeOK
<1>3. call[c].tries + 1 \in 0..MaxTries
  BY <1>1, <1>2, CallFields, SchedulerAssumption
<1>4. call'[c] = [call[c] EXCEPT !.pc = "get", !.slot = now, !.tries = call[c].tries + 1]
  BY <1>1 DEF SchedulerInv, SchedulerTypeOK
<1>5. call'[c] \in CallStates /\ call'[c].pc = "get"
  BY <1>2, <1>3, <1>4, StepNames DEF CallStates
<1>6. call' \in [Calls -> CallStates] /\ \A d \in Calls \ {c} : call'[d] = call[d]
  BY <1>1, <1>5 DEF SchedulerInv, SchedulerTypeOK
<1> QED BY <1>1, <1>5, <1>6, QuietCallKeeps DEF storeSide, SchedulerInv, SchedulerTypeOK

\* Steps of a call that only read, set or drop the slot's marker.
LEMMA MarkerStepKeeps ==
  ASSUME SchedulerInv, NEW c \in Calls,
         \/ GetMarker(c) \/ SetMarker(c) \/ GetMarkerAgain(c)
         \/ LookUpJob(c) \/ DropMarker(c) \/ Fail(c)
  PROVE  SchedulerInv'
<1>1. \E pc \in {"look", "mark", "again", "context", "drop", "publish", "done", "idle"} : To(c, pc)
  BY DEF GetMarker, SetMarker, GetMarkerAgain, LookUpJob, DropMarker, Fail
<1>2. /\ UNCHANGED <<job, published, worldSide>>
      /\ marked' \in {marked, marked \cup {call[c].slot}, marked \ {call[c].slot}}
      /\ given' \in {given, given \cup {call[c].slot}}
  BY DEF GetMarker, SetMarker, GetMarkerAgain, LookUpJob, DropMarker, Fail, storeSide
<1>3. PICK pc \in {"look", "mark", "again", "context", "drop", "publish", "done", "idle"} : To(c, pc)
  BY <1>1
<1>4. call \in [Calls -> CallStates] /\ call[c].slot \in Slots
      /\ marked \subseteq Slots /\ given \subseteq Slots
  BY CallFields DEF SchedulerInv, SchedulerTypeOK
<1>5. /\ call' \in [Calls -> CallStates] /\ call'[c].pc = pc
      /\ \A d \in Calls \ {c} : call'[d] = call[d]
  BY <1>3, <1>4, MovedCall, StepNames
<1>6. marked' \subseteq Slots /\ given' \subseteq Slots
  BY <1>2, <1>4
<1> QED BY <1>2, <1>3, <1>5, <1>6, QuietCallKeeps

LEMMA ReadKeeps ==
  ASSUME SchedulerInv, NEW c \in Calls, ReadContext(c) \/ ReadEpoch(c)
  PROVE  SchedulerInv'
<1>1. /\ \/ call' = [call EXCEPT ![c].pc = "epoch", ![c].context = epoch]
         \/ call' = [call EXCEPT ![c].pc = "create", ![c].epoch = epoch]
      /\ UNCHANGED <<storeSide, worldSide, given>>
  BY DEF ReadContext, ReadEpoch
<1>2. call[c] \in CallStates /\ call \in [Calls -> CallStates] /\ epoch \in 0..MaxEpoch
  BY DEF SchedulerInv, SchedulerTypeOK
<1>3. \/ call'[c] = [call[c] EXCEPT !.pc = "epoch", !.context = epoch]
      \/ call'[c] = [call[c] EXCEPT !.pc = "create", !.epoch = epoch]
  BY <1>1, <1>2
<1>4. call'[c] \in CallStates /\ call'[c].pc # "record"
  BY <1>2, <1>3, StepNames DEF CallStates
<1>5. call' \in [Calls -> CallStates] /\ \A d \in Calls \ {c} : call'[d] = call[d]
  BY <1>1, <1>2, <1>4
<1> QED BY <1>1, <1>4, <1>5, QuietCallKeeps DEF storeSide, SchedulerInv, SchedulerTypeOK

LEMMA CreateKeeps ==
  ASSUME SchedulerInv, NEW c \in Calls, CreateJob(c)
  PROVE  SchedulerInv'
<1> DEFINE s == call[c].slot
<1>1. /\ job' = [job EXCEPT ![s] = IF @.state = "absent" THEN NewJob(c) ELSE @]
      /\ \E pc \in {"done", "publish"} : To(c, pc)
      /\ UNCHANGED <<marked, published, worldSide, given>>
  BY DEF CreateJob
<1>2. /\ call \in [Calls -> CallStates] /\ call[c] \in CallStates /\ s \in Slots
      /\ job \in [Slots -> Jobs]
  BY CallFields DEF SchedulerInv, SchedulerTypeOK
<1>3. PICK pc \in {"done", "publish"} : To(c, pc)
  BY <1>1
<1>4. /\ call' \in [Calls -> CallStates] /\ call'[c].pc = pc
      /\ \A d \in Calls \ {c} : call'[d] = call[d]
  BY <1>2, <1>3, MovedCall, StepNames
<1>5. NewJob(c) \in Jobs /\ NewJob(c).state = "open" /\ NewJob(c).recorded = FALSE
  BY <1>2, NewJobIsOpen
<1> HIDE DEF s
<1>6. /\ job' \in [Slots -> Jobs]
      /\ \A x \in Slots : job'[x] = job[x] \/ (job[x].state = "absent" /\ ~job'[x].recorded)
  BY <1>1, <1>2, <1>5
<1>7. SchedulerTypeOK'
  BY <1>1, <1>4, <1>6 DEF SchedulerInv, SchedulerTypeOK, worldSide
<1>8. RecordedIsPublished' /\ OneMessage'
  BY <1>1, <1>6 DEF SchedulerInv, RecordedIsPublished, OneMessage, worldSide
<1>9. CallsPublished'
  BY <1>1, <1>3, <1>4, CallsStayPublished DEF SchedulerInv
<1> QED BY <1>7, <1>8, <1>9 DEF SchedulerInv

LEMMA PublishKeeps ==
  ASSUME SchedulerInv, NEW c \in Calls, Publish(c)
  PROVE  SchedulerInv'
<1>1. /\ published' = published \cup {call[c].slot} /\ To(c, "record")
      /\ UNCHANGED <<marked, job, worldSide, given>>
  BY DEF Publish
<1>2. call \in [Calls -> CallStates] /\ call[c].slot \in Slots
  BY CallFields DEF SchedulerInv, SchedulerTypeOK
<1>3. /\ call' \in [Calls -> CallStates] /\ call'[c].slot = call[c].slot
      /\ \A d \in Calls \ {c} : call'[d] = call[d]
  BY <1>1, <1>2, MovedCall, StepNames
<1>4. SchedulerTypeOK'
  BY <1>1, <1>2, <1>3 DEF SchedulerInv, SchedulerTypeOK, worldSide
<1>5. CallsPublished'
  BY <1>1, <1>3, CallsStayPublished DEF SchedulerInv
<1> QED BY <1>1, <1>4, <1>5 DEF SchedulerInv, RecordedIsPublished, OneMessage, worldSide

LEMMA RecordKeeps ==
  ASSUME SchedulerInv, NEW c \in Calls, RecordPublication(c)
  PROVE  SchedulerInv'
<1> DEFINE s == call[c].slot
<1>1. /\ call[c].pc = "record" /\ To(c, "done")
      /\ job' = [job EXCEPT ![s].recorded = TRUE]
      /\ UNCHANGED <<marked, published, worldSide, given>>
  BY DEF RecordPublication
<1>2. /\ call \in [Calls -> CallStates] /\ s \in Slots /\ job \in [Slots -> Jobs]
      /\ s \in published
  BY <1>1, CallFields DEF SchedulerInv, SchedulerTypeOK, CallsPublished
<1>3. /\ call' \in [Calls -> CallStates] /\ call'[c].pc = "done"
      /\ \A d \in Calls \ {c} : call'[d] = call[d]
  BY <1>1, <1>2, MovedCall, StepNames
<1> HIDE DEF s
<1>4. job[s] \in Jobs /\ job'[s] = [job[s] EXCEPT !.recorded = TRUE]
  BY <1>1, <1>2
<1>5. job'[s] \in Jobs /\ job'[s].state = job[s].state
  BY <1>4, JobRecorded
<1>6. /\ job' \in [Slots -> Jobs]
      /\ \A x \in Slots : job'[x].state = job[x].state
                          /\ (x # s => job'[x] = job[x])
  BY <1>1, <1>2, <1>5
<1>7. SchedulerTypeOK'
  BY <1>1, <1>3, <1>6 DEF SchedulerInv, SchedulerTypeOK, worldSide
<1>8. RecordedIsPublished' /\ OneMessage'
  BY <1>1, <1>2, <1>6 DEF SchedulerInv, RecordedIsPublished, OneMessage, worldSide
<1>9. CallsPublished'
  BY <1>1, <1>3, CallsStayPublished DEF SchedulerInv
<1> QED BY <1>7, <1>8, <1>9 DEF SchedulerInv

-----------------------------------------------------------------------------
(* The worker, lobotomies and time.                                        *)

LEMMA CheckKeeps ==
  ASSUME SchedulerInv, NEW s \in Slots, Check(s)
  PROVE  SchedulerInv'
<1>1. /\ job[s].state = "open"
      /\ \/ job' = [job EXCEPT ![s].state = "cancelled"] /\ checked' = checked
         \/ checked' = checked \cup {s} /\ job' = job
      /\ UNCHANGED <<now, epoch, marked, published, call, given, sent>>
  BY DEF Check
<1>2. job \in [Slots -> Jobs] /\ job[s] \in Jobs
  BY DEF SchedulerInv, SchedulerTypeOK
<1>3. /\ [job[s] EXCEPT !.state = "cancelled"] \in Jobs
      /\ [job[s] EXCEPT !.state = "cancelled"].recorded = job[s].recorded
  BY <1>2, JobWithState
<1>4. /\ job' \in [Slots -> Jobs]
      /\ \A x \in Slots : job'[x] = job[x] \/ (x = s /\ job'[x].recorded = job[x].recorded)
  BY <1>1, <1>2, <1>3
<1>5. SchedulerTypeOK'
  BY <1>1, <1>4 DEF SchedulerInv, SchedulerTypeOK
<1> QED BY <1>1, <1>4, <1>5
        DEF SchedulerInv, RecordedIsPublished, OneMessage, CallsPublished

LEMMA SendKeeps ==
  ASSUME SchedulerInv, NEW s \in Slots, Send(s)
  PROVE  SchedulerInv'
<1>1. /\ job[s].state = "open"
      /\ job' = [job EXCEPT ![s].state = "sent"]
      /\ checked' = checked \ {s}
      /\ sent' = [sent EXCEPT ![s] = Append(@, now)]
      /\ UNCHANGED <<now, epoch, marked, published, call, given>>
  BY DEF Send
<1>2. job \in [Slots -> Jobs] /\ job[s] \in Jobs /\ now \in Slots /\ sent[s] = <<>>
  BY <1>1 DEF SchedulerInv, SchedulerTypeOK, OneMessage
<1>3. /\ [job[s] EXCEPT !.state = "sent"] \in Jobs
      /\ [job[s] EXCEPT !.state = "sent"].state = "sent"
      /\ [job[s] EXCEPT !.state = "sent"].recorded = job[s].recorded
  BY <1>2, JobWithState
<1>4. /\ job' \in [Slots -> Jobs] /\ job'[s].state = "sent"
      /\ \A x \in Slots : job'[x].recorded = job[x].recorded /\ (x # s => job'[x] = job[x])
  BY <1>1, <1>2, <1>3
<1>5. Append(<<>>, now) \in Seq(Slots) /\ Len(Append(<<>>, now)) = 1
  BY <1>2
<1>6. \A x \in Slots : sent'[x] = sent[x] \/ (x = s /\ sent'[x] = Append(<<>>, now))
  <2>1. CASE s \in DOMAIN sent
    BY <1>1, <1>2, <2>1
  <2>2. CASE s \notin DOMAIN sent
    BY <1>1, <2>2
  <2> QED BY <2>1, <2>2
<1>7. SchedulerTypeOK'
  <2>1. \A x \in Slots : sent'[x] \in Seq(Slots) /\ Len(sent'[x]) <= 1
    <3>1. \A x \in Slots : sent[x] \in Seq(Slots) /\ Len(sent[x]) <= 1
      BY DEF SchedulerInv, SchedulerTypeOK
    <3> DEFINE one == Append(<<>>, now)
    <3>2. one \in Seq(Slots) /\ Len(one) <= 1
      BY <1>5
    <3>3. \A x \in Slots : sent'[x] = sent[x] \/ sent'[x] = one
      BY <1>6
    <3> HIDE DEF one
    <3> QED BY <3>1, <3>2, <3>3
  <2> QED BY <1>1, <1>4, <2>1 DEF SchedulerInv, SchedulerTypeOK
<1>8. OneMessage'
  BY <1>4, <1>6 DEF SchedulerInv, OneMessage
<1> QED BY <1>1, <1>4, <1>7, <1>8 DEF SchedulerInv, RecordedIsPublished, CallsPublished

LEMMA WorldKeeps ==
  ASSUME SchedulerInv, Lobotomy \/ NextSlot \/ UNCHANGED schedulerVars
  PROVE  SchedulerInv'
<1>1. now' \in Slots /\ epoch' \in 0..MaxEpoch
  BY SchedulerAssumption
  DEF Lobotomy, NextSlot, schedulerVars, SchedulerInv, SchedulerTypeOK, Slots
<1>2. UNCHANGED <<marked, job, published, call, given, checked, sent>>
  BY DEF Lobotomy, NextSlot, schedulerVars
<1>3. SchedulerTypeOK'
  BY <1>1, <1>2 DEF SchedulerInv, SchedulerTypeOK
<1> QED BY <1>2, <1>3 DEF SchedulerInv, RecordedIsPublished, OneMessage, CallsPublished

\* The invariant of the scheduler.
THEOREM SchedulerInvariance == SchedulerSpec => []SchedulerInv
<1>1. SchedulerInv /\ [SchedulerNext]_schedulerVars => SchedulerInv'
  BY StartKeeps, MarkerStepKeeps, ReadKeeps, CreateKeeps, PublishKeeps, RecordKeeps,
     CheckKeeps, SendKeeps, WorldKeeps
  DEF SchedulerNext, Endpoint, Worker
<1> QED BY <1>1, InitHasSchedulerInv, PTL DEF SchedulerSpec

\* A slot has at most one message, whatever calls overlap, fail and are
\* repeated; the scheduler's state has its types.
THEOREM SchedulerTypes == SchedulerSpec => []SchedulerTypeOK
BY SchedulerInvariance, PTL DEF SchedulerInv

\* A call that finds a job recorded as published may leave it to QStash.
THEOREM RecordsAreTrue == SchedulerSpec => []RecordedIsPublished
BY SchedulerInvariance, PTL DEF SchedulerInv

=============================================================================
