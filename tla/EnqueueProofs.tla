--------------------------- MODULE EnqueueProofs ----------------------------
(***************************************************************************)
(* What holds of the webhook for any updates, calls, kinds of messages and *)
(* faults.  EnqueueInv is inductive: it adds to what TLC checks what a call*)
(* knows at each of its steps (CallIsSound), which no overlapping call can *)
(* take from it, and how markers, receipts and jobs are related.           *)
(***************************************************************************)
EXTENDS EnqueueRefinement, FiniteSetTheorems, TLAPS

Stored(u) == u \in history \cup forgotten

\* What a call under way has established about its update.
CallIsSound(c) ==
  LET u == Update(c) IN
  /\ u \in sent
  /\ call[c].found # "absent" => u \in Routed
  /\ call[c].found = "enqueued" => u \in published
  /\ call[c].pc \in {"snapshot", "create", "trigger", "upsert", "publish", "record"} => u \in Routed
  /\ call[c].pc = "persist" => u \notin Routed \ Optional
  /\ call[c].pc \in {"publish", "record", "receipt", "reset", "mark"} => Stored(u)
  /\ call[c].pc = "record" => [update |-> u, id |-> call[c].id] \in accepted
  /\ call[c].pc = "receipt" => Kind[u] \in {"tone", "mode"}
  /\ call[c].pc = "reset" => Kind[u] \in {"lobotomy", "owner_lobotomy"}
  /\ call[c].pc = "mark" => /\ Kind[u] \notin {"tone", "mode"}
                            /\ u \in Routed \ Optional => u \in published

CallsAreSound == \A c \in Calls : ~At(c, "idle") => CallIsSound(c)

\* Markers, receipts and tombstones are of updates that were sent; nothing is
\* replied before the marker, no tone applied without its receipt.
MarkersAreSound ==
  /\ seen \subseteq sent /\ forgotten \subseteq sent /\ receipts \subseteq seen
  /\ \A u \in Updates \ seen : replies[u] = 0
  /\ \A i \in DOMAIN applied : applied[i] \in receipts

\* Only routed updates have jobs, and an enqueued job was published.
JobsAreRouted ==
  \A u \in Updates :
    /\ job[u].state # "absent" => u \in Routed
    /\ job[u].state = "enqueued" => u \in published

MarkersInv ==
  /\ MarkersAreSound
  /\ MarkedIsComplete
  /\ AckedIsMarked
  /\ CommandOnce

JobsInv == JobsAreRouted /\ EnqueuedIsAccepted

EnqueueInv ==
  /\ EnqueueTypeOK
  /\ CallsAreSound
  /\ MarkersInv
  /\ JobsInv
  /\ AutoIsRationed

-----------------------------------------------------------------------------
(* Frames: what an invariant does not depend on.                           *)

\* A marker and all that belongs to it stay.
LEMMA MarkersStay ==
  ASSUME MarkersInv, sent \subseteq sent', UNCHANGED <<seen, receipts, forgotten, history, replies,
         applied>>, published \subseteq published', acked' \subseteq acked \cup seen
  PROVE  MarkersInv'
BY DEF MarkersInv, MarkersAreSound, MarkedIsComplete, AckedIsMarked, CommandOnce

LEMMA JobsStay ==
  ASSUME JobsInv, job' = job, published \subseteq published', accepted \subseteq accepted'
  PROVE  JobsInv'
BY DEF JobsInv, JobsAreRouted, EnqueuedIsAccepted

LEMMA RationStays ==
  ASSUME AutoIsRationed, UNCHANGED <<cooling, windowJobs>>
  PROVE  AutoIsRationed'
BY DEF AutoIsRationed

\* What a call has established stays established while the others go on.
LEMMA OthersStaySound ==
  ASSUME EnqueueInv, sent \subseteq sent', published \subseteq published', accepted \subseteq accepted',
         \A u \in sent : Stored(u) => Stored(u)',
         NEW c \in Calls, call'[c] = call[c], ~At(c, "idle")
  PROVE  CallIsSound(c)'
BY DEF EnqueueInv, CallsAreSound, CallIsSound, Update, At

LEMMA CallsStaySound ==
  ASSUME EnqueueInv, sent \subseteq sent', published \subseteq published', accepted \subseteq accepted',
         \A u \in sent : Stored(u) => Stored(u)',
         NEW c \in Calls, \A d \in Calls \ {c} : call'[d] = call[d],
         call'[c].pc # "idle" => CallIsSound(c)'
  PROVE  CallsAreSound'
BY OthersStaySound DEF CallsAreSound, At

\* The same where no call moves.
LEMMA NoCallMoves ==
  ASSUME EnqueueInv, sent \subseteq sent', published \subseteq published', accepted \subseteq accepted',
         \A u \in sent : Stored(u) => Stored(u)', call' = call
  PROVE  CallsAreSound'
BY OthersStaySound DEF CallsAreSound, At

\* The steps of a call that touch nothing it or another call relies on.
LEMMA QuietKeeps ==
  ASSUME EnqueueInv, EnqueueTypeOK', CallsAreSound', sent \subseteq sent',
         UNCHANGED <<job, seen, receipts, history, published, applied, accepted, forgotten,
                     replies, cooling, windowJobs>>,
         acked' \subseteq acked \cup seen
  PROVE  EnqueueInv'
BY MarkersStay, JobsStay, RationStays DEF EnqueueInv

-----------------------------------------------------------------------------
(* Types of what is written most.                                          *)

\* The steps that actions name.
LEMMA StepNames ==
  {"idle", "lookup", "check", "snapshot", "create", "trigger", "upsert", "publish", "record",
   "persist", "receipt", "reset", "mark"} \subseteq Steps
BY DEF Steps

\* An idle call and one that has just got its update.
LEMMA NewCallIsTyped ==
  /\ Idle \in CallRecords
  /\ \A u \in Updates : [Idle EXCEPT !.pc = "lookup", !.update = u] \in CallRecords
<1>1. "idle" \in Steps /\ "lookup" \in Steps
  BY StepNames
<1>2. Idle = [pc |-> "idle", update |-> None, found |-> "absent", epoch |-> 0, id |-> None]
  BY DEF Idle
<1>3. Idle \in CallRecords
  BY <1>1, <1>2 DEF CallRecords
<1>4. ASSUME NEW u \in Updates
      PROVE  [Idle EXCEPT !.pc = "lookup", !.update = u] \in CallRecords
  BY <1>1, <1>3 DEF CallRecords
<1> QED BY <1>3, <1>4

\* What a step writes to its call: where it goes on,
LEMMA MovedCallIsTyped ==
  ASSUME call \in [Calls -> CallRecords], NEW c \in Calls, NEW pc \in Steps,
         call' = [call EXCEPT ![c].pc = pc]
  PROVE  /\ call' \in [Calls -> CallRecords]
         /\ call'[c].pc = pc /\ call'[c].update = call[c].update
         /\ \A d \in Calls \ {c} : call'[d] = call[d]
<1>1. call[c] \in CallRecords /\ call'[c] = [call[c] EXCEPT !.pc = pc]
  OBVIOUS
<1>2. /\ call'[c] \in CallRecords
      /\ call'[c].pc = pc /\ call'[c].update = call[c].update
  BY <1>1 DEF CallRecords
<1> QED BY <1>2

\* with the id QStash answered,
LEMMA PublishedCallIsTyped ==
  ASSUME call \in [Calls -> CallRecords], NEW c \in Calls, NEW pc \in Steps, NEW id \in Ids,
         call' = [call EXCEPT ![c].pc = pc, ![c].id = id]
  PROVE  /\ call' \in [Calls -> CallRecords]
         /\ call'[c].pc = pc /\ call'[c].update = call[c].update
         /\ \A d \in Calls \ {c} : call'[d] = call[d]
<1>1. call[c] \in CallRecords /\ call'[c] = [call[c] EXCEPT !.pc = pc, !.id = id]
  OBVIOUS
<1>2. /\ call'[c] \in CallRecords
      /\ call'[c].pc = pc /\ call'[c].update = call[c].update
  BY <1>1 DEF CallRecords
<1> QED BY <1>2

\* with the epoch of its snapshot,
LEMMA SnapshotIsTyped ==
  ASSUME call \in [Calls -> CallRecords], NEW c \in Calls, NEW pc \in Steps, NEW n \in Nat,
         call' = [call EXCEPT ![c].pc = pc, ![c].epoch = n]
  PROVE  /\ call' \in [Calls -> CallRecords]
         /\ call'[c].pc = pc /\ call'[c].update = call[c].update
         /\ \A d \in Calls \ {c} : call'[d] = call[d]
<1>1. call[c] \in CallRecords /\ call'[c] = [call[c] EXCEPT !.pc = pc, !.epoch = n]
  OBVIOUS
<1>2. /\ call'[c] \in CallRecords
      /\ call'[c].pc = pc /\ call'[c].update = call[c].update
  BY <1>1 DEF CallRecords
<1> QED BY <1>2

\* with the job it has found or made.
LEMMA FoundIsTyped ==
  ASSUME call \in [Calls -> CallRecords], NEW c \in Calls, NEW pc \in Steps,
         NEW n \in Nat, NEW found \in {"absent", "received", "enqueued"},
         call' = [call EXCEPT ![c].pc = pc, ![c].found = found, ![c].epoch = n]
  PROVE  /\ call' \in [Calls -> CallRecords]
         /\ call'[c].pc = pc /\ call'[c].update = call[c].update
         /\ \A d \in Calls \ {c} : call'[d] = call[d]
<1>1. call[c] \in CallRecords /\ call'[c] = [call[c] EXCEPT !.pc = pc, !.found = found, !.epoch = n]
  OBVIOUS
<1>2. /\ call'[c] \in CallRecords
      /\ call'[c].pc = pc /\ call'[c].update = call[c].update
  BY <1>1 DEF CallRecords
<1> QED BY <1>2

\* The fields of a job's record.
LEMMA JobFields ==
  ASSUME NEW r \in JobRecords
  PROVE  /\ r.state \in {"absent", "received", "enqueued"}
         /\ r.message \in Ids \cup {None} /\ r.epoch \in Nat
BY DEF JobRecords

\* What is written to a job: nothing is left, its creation, its publication.
LEMMA NoJobIsTyped == NoJob \in JobRecords /\ NoJob.state = "absent"
BY DEF NoJob, JobRecords

LEMMA CreatedJobIsTyped ==
  ASSUME job \in [Updates -> JobRecords], NEW u \in Updates, NEW n \in Nat,
         job' = [job EXCEPT ![u].state = "received", ![u].epoch = n]
  PROVE  /\ job' \in [Updates -> JobRecords]
         /\ \A x \in Updates : /\ job'[x].state = IF x = u THEN "received" ELSE job[x].state
                               /\ job'[x].message = job[x].message
<1>1. job[u] \in JobRecords /\ job'[u] = [job[u] EXCEPT !.state = "received", !.epoch = n]
  OBVIOUS
<1>2. /\ job'[u] \in JobRecords
      /\ job'[u].state = "received" /\ job'[u].message = job[u].message
  BY <1>1 DEF JobRecords
<1> QED BY <1>2

LEMMA PublishedJobIsTyped ==
  ASSUME job \in [Updates -> JobRecords], NEW u \in Updates, NEW id \in Ids \cup {None},
         job' = [job EXCEPT ![u].state = "enqueued", ![u].message = id]
  PROVE  /\ job' \in [Updates -> JobRecords]
         /\ \A x \in Updates : /\ job'[x].state = IF x = u THEN "enqueued" ELSE job[x].state
                               /\ job'[x].message = IF x = u THEN id ELSE job[x].message
<1>1. job[u] \in JobRecords /\ job'[u] = [job[u] EXCEPT !.state = "enqueued", !.message = id]
  OBVIOUS
<1>2. /\ job'[u] \in JobRecords
      /\ job'[u].state = "enqueued" /\ job'[u].message = id
  BY <1>1 DEF JobRecords
<1> QED BY <1>2

-----------------------------------------------------------------------------
LEMMA InitHasEnqueueInv == EnqueueInit => EnqueueInv
<1> SUFFICES ASSUME EnqueueInit PROVE EnqueueInv
  OBVIOUS
<1>1. EnqueueTypeOK
  <2>1. job \in [Updates -> JobRecords] /\ call \in [Calls -> CallRecords]
    BY NewCallIsTyped, NoJobIsTyped DEF EnqueueInit
  <2>2. faults \in 0..MaxFaults /\ applied \in Seq(Updates)
    BY EnqueueAssumption DEF EnqueueInit
  <2> QED BY <2>1, <2>2 DEF EnqueueInit, EnqueueTypeOK
<1>2. CallsAreSound
  BY DEF EnqueueInit, CallsAreSound, At, Idle
<1>3. MarkersInv
  BY DEF EnqueueInit, MarkersInv, MarkersAreSound, MarkedIsComplete, AckedIsMarked, CommandOnce
<1>4. JobsInv
  BY DEF EnqueueInit, JobsInv, JobsAreRouted, EnqueuedIsAccepted, NoJob
<1>5. AutoIsRationed
  BY FS_EmptySet DEF EnqueueInit, AutoIsRationed
<1> QED BY <1>1, <1>2, <1>3, <1>4, <1>5 DEF EnqueueInv

-----------------------------------------------------------------------------
(* The steps up to the choice of a branch.                                 *)

LEMMA DeliverKeeps ==
  ASSUME EnqueueInv, NEW c \in Calls, NEW u \in Updates, Deliver(c, u)
  PROVE  EnqueueInv'
<1>1. /\ UNCHANGED <<storeSide, worldSide>> /\ u \in sent
      /\ call' = [call EXCEPT ![c] = [Idle EXCEPT !.pc = "lookup", !.update = u]]
  BY DEF Deliver
<1>2. EnqueueTypeOK'
  <2>1. call' \in [Calls -> CallRecords]
    BY <1>1, NewCallIsTyped DEF EnqueueInv, EnqueueTypeOK
  <2> QED BY <1>1, <2>1 DEF EnqueueInv, EnqueueTypeOK, storeSide, worldSide
<1>3. CallIsSound(c)'
  BY <1>1 DEF CallIsSound, Update, Idle, EnqueueInv, EnqueueTypeOK, worldSide
<1>4. CallsAreSound'
  BY <1>1, <1>3, CallsStaySound DEF storeSide, worldSide, Stored, EnqueueInv, EnqueueTypeOK
<1> QED BY <1>1, <1>2, <1>4, QuietKeeps DEF storeSide, worldSide

LEMMA LookupKeeps ==
  ASSUME EnqueueInv, NEW c \in Calls, Lookup(c)
  PROVE  EnqueueInv'
<1> DEFINE u == Update(c)
<1>1. /\ UNCHANGED <<storeSide, worldSide>> /\ ~At(c, "idle")
      /\ call' = [call EXCEPT ![c].pc = "check", ![c].found = job[u].state,
                              ![c].epoch = job[u].epoch]
  BY DEF Lookup, At
<1>2. CallIsSound(c) /\ u \in Updates
  BY <1>1 DEF EnqueueInv, CallsAreSound, CallIsSound, EnqueueTypeOK
<1>3. EnqueueTypeOK'
  <2>1. job[u] \in JobRecords /\ call \in [Calls -> CallRecords] /\ "check" \in Steps
    BY <1>2, StepNames DEF EnqueueInv, EnqueueTypeOK
  <2>2. job[u].state \in {"absent", "received", "enqueued"} /\ job[u].epoch \in Nat
    BY <2>1, JobFields
  <2>3. call' \in [Calls -> CallRecords]
    BY <1>1, <2>1, <2>2, FoundIsTyped
  <2> QED BY <1>1, <2>3 DEF EnqueueInv, EnqueueTypeOK, storeSide, worldSide
<1>4. CallIsSound(c)'
  BY <1>1, <1>2 DEF CallIsSound, Update, EnqueueInv, EnqueueTypeOK, storeSide, worldSide,
                   JobsInv, JobsAreRouted, CallRecords, JobRecords
<1>5. CallsAreSound'
  BY <1>1, <1>4, CallsStaySound DEF storeSide, worldSide, Stored, EnqueueInv, EnqueueTypeOK
<1> QED BY <1>1, <1>3, <1>5, QuietKeeps DEF storeSide, worldSide

\* A call that ends leaves nothing behind that is its own.
LEMMA EndKeeps ==
  ASSUME EnqueueInv, NEW c \in Calls, call' = [call EXCEPT ![c] = Idle],
         UNCHANGED storeSide,
         UNCHANGED <<matching, forgotten, accepted, window, sent, replies>>,
         acked' \subseteq acked \cup seen, faults' \in 0..MaxFaults
  PROVE  EnqueueInv'
<1>1. EnqueueTypeOK'
  <2>1. call' \in [Calls -> CallRecords]
    BY NewCallIsTyped DEF EnqueueInv, EnqueueTypeOK
  <2> QED BY <2>1 DEF EnqueueInv, EnqueueTypeOK, storeSide
<1>2. call'[c].pc = "idle" /\ \A d \in Calls \ {c} : call'[d] = call[d]
  BY DEF Idle, EnqueueInv, EnqueueTypeOK
<1>3. CallsAreSound'
  BY <1>2, CallsStaySound DEF storeSide, Stored
<1> QED BY <1>1, <1>3, QuietKeeps DEF storeSide

\* A step that only moves a call to another step.
LEMMA MoveKeeps ==
  ASSUME EnqueueInv, NEW c \in Calls, NEW pc \in Steps, Goto(c, pc),
         UNCHANGED <<storeSide, worldSide>>, CallIsSound(c)'
  PROVE  EnqueueInv'
<1>1. EnqueueTypeOK'
  <2>1. call' \in [Calls -> CallRecords]
    BY MovedCallIsTyped DEF EnqueueInv, EnqueueTypeOK, Goto
  <2> QED BY <2>1 DEF EnqueueInv, EnqueueTypeOK, storeSide, worldSide
<1>2. \A d \in Calls \ {c} : call'[d] = call[d]
  BY DEF Goto, EnqueueInv, EnqueueTypeOK
<1>3. CallsAreSound'
  BY <1>2, CallsStaySound DEF storeSide, worldSide, Stored
<1> QED BY <1>1, <1>3, QuietKeeps DEF storeSide, worldSide

LEMMA CheckKeeps ==
  ASSUME EnqueueInv, NEW c \in Calls, Check(c)
  PROVE  EnqueueInv'
<1> DEFINE u == Update(c)
           pc == IF call[c].found = "absent" THEN Branch(u) ELSE "trigger"
<1>1. ~At(c, "idle") /\ UNCHANGED storeSide
  BY DEF Check, At
<1>2. CallIsSound(c) /\ u \in Updates
  BY <1>1 DEF EnqueueInv, CallsAreSound, CallIsSound, EnqueueTypeOK
<1>3. CASE u \in seen /\ call[c].found \in SAFE_ENQUEUE_STATES \cup {"absent"}
  <2>1. AnswerSilently(c) /\ u \in seen
    BY <1>3 DEF Check
  <2> QED BY <1>1, <2>1, EndKeeps DEF AnswerSilently, Answer, EnqueueInv, EnqueueTypeOK
<1>4. CASE ~(u \in seen /\ call[c].found \in SAFE_ENQUEUE_STATES \cup {"absent"})
  <2>1. Goto(c, pc) /\ UNCHANGED worldSide
    BY <1>4 DEF Check
  <2>2. /\ pc \in {"snapshot", "persist", "trigger"}
        /\ pc \in {"snapshot", "trigger"} => u \in Routed
        /\ pc = "persist" => u \notin Routed \ Optional
    BY <1>2 DEF Branch, CallIsSound, Optional, Routed
  <2> HIDE DEF pc
  <2>3. CallIsSound(c)'
    BY <1>1, <1>2, <2>1, <2>2
    DEF CallIsSound, Update, Goto, EnqueueInv, EnqueueTypeOK, storeSide, worldSide
  <2> QED BY <1>1, <2>1, <2>2, <2>3, MoveKeeps, StepNames
<1> QED BY <1>3, <1>4

-----------------------------------------------------------------------------
(* Routed updates.                                                         *)

LEMMA SnapshotKeeps ==
  ASSUME EnqueueInv, NEW c \in Calls, Snapshot(c)
  PROVE  EnqueueInv'
<1>1. /\ UNCHANGED <<storeSide, worldSide>> /\ ~At(c, "idle") /\ call[c].pc = "snapshot"
      /\ call' = [call EXCEPT ![c].pc = "create", ![c].epoch = epoch]
  BY DEF Snapshot, At
<1>2. CallIsSound(c)
  BY <1>1 DEF EnqueueInv, CallsAreSound
<1>3. EnqueueTypeOK'
  <2>1. call' \in [Calls -> CallRecords]
    BY <1>1, StepNames, SnapshotIsTyped DEF EnqueueInv, EnqueueTypeOK
  <2> QED BY <1>1, <2>1 DEF EnqueueInv, EnqueueTypeOK, storeSide, worldSide
<1>4. CallIsSound(c)'
  BY <1>1, <1>2 DEF CallIsSound, Update, EnqueueInv, EnqueueTypeOK, storeSide, worldSide
<1>5. CallsAreSound'
  BY <1>1, <1>4, CallsStaySound DEF storeSide, worldSide, Stored, EnqueueInv, EnqueueTypeOK
<1> QED BY <1>1, <1>3, <1>5, QuietKeeps DEF storeSide, worldSide

LEMMA CreateKeeps ==
  ASSUME EnqueueInv, NEW c \in Calls, Create(c)
  PROVE  EnqueueInv'
<1> DEFINE u == Update(c)
           fresh == job[u].state = "absent"
<1>1. ~At(c, "idle") /\ call[c].pc = "create"
  BY DEF Create, At
<1>2. CallIsSound(c) /\ u \in Updates /\ u \in Routed
  BY <1>1 DEF EnqueueInv, CallsAreSound, CallIsSound, EnqueueTypeOK
<1>3. /\ UNCHANGED <<seen, receipts, history, epoch, resting, published, applied>>
      /\ UNCHANGED worldSide
      /\ ~(u \in Optional /\ fresh /\ cooling)
      /\ job' = IF fresh THEN [job EXCEPT ![u].state = "received", ![u].epoch = call[c].epoch]
                ELSE job
      /\ call' = [call EXCEPT ![c].pc = "trigger", ![c].found = "received",
                              ![c].epoch = job'[u].epoch]
      /\ cooling' = (cooling \/ (u \in Optional /\ fresh))
      /\ windowJobs' = IF u \in Optional /\ fresh THEN windowJobs \cup {u} ELSE windowJobs
  BY DEF Create
<1>4. /\ job' \in [Updates -> JobRecords]
      /\ \A x \in Updates :
           /\ job'[x].state = IF x = u /\ fresh THEN "received" ELSE job[x].state
           /\ job'[x].message = job[x].message
  <2>1. job \in [Updates -> JobRecords] /\ call[c].epoch \in Nat
    BY DEF EnqueueInv, EnqueueTypeOK, CallRecords
  <2>2. CASE fresh
    <3>1. job' = [job EXCEPT ![u].state = "received", ![u].epoch = call[c].epoch]
      BY <1>3, <2>2
    <3> QED BY <1>2, <2>1, <2>2, <3>1, CreatedJobIsTyped
  <2>3. CASE ~fresh
    BY <1>3, <2>1, <2>3
  <2> QED BY <2>2, <2>3
<1>5. /\ call' \in [Calls -> CallRecords]
      /\ call'[c].pc = "trigger" /\ call'[c].update = u /\ call'[c].found = "received"
  <2>1. call \in [Calls -> CallRecords] /\ job'[u].epoch \in Nat /\ "trigger" \in Steps
    BY SMTT(30), <1>2, <1>4, JobFields, StepNames DEF EnqueueInv, EnqueueTypeOK
  <2>2. /\ call' \in [Calls -> CallRecords]
        /\ call'[c].pc = "trigger" /\ call'[c].update = u
    BY <1>3, <2>1, FoundIsTyped DEF Update
  <2>3. call'[c].found = "received"
    BY <1>3, <2>1 DEF CallRecords
  <2> QED BY <2>2, <2>3
<1>6. cooling' \in BOOLEAN /\ windowJobs' \subseteq Updates
  <2>1. cooling' \in BOOLEAN
    BY <1>3, Zenon
  <2>2. windowJobs' \subseteq Updates
    BY <1>2, <1>3 DEF EnqueueInv, EnqueueTypeOK
  <2> QED BY <2>1, <2>2
<1>7. EnqueueTypeOK'
  BY <1>3, <1>4, <1>5, <1>6 DEF EnqueueInv, EnqueueTypeOK, worldSide
<1>8. JobsInv'
  <2>1. JobsAreRouted'
    BY <1>2, <1>3, <1>4 DEF EnqueueInv, JobsInv, JobsAreRouted
  <2>2. EnqueuedIsAccepted'
    BY <1>3, <1>4 DEF EnqueueInv, JobsInv, EnqueuedIsAccepted, worldSide
  <2> QED BY <2>1, <2>2 DEF JobsInv
<1>9. CallIsSound(c)'
  BY <1>2, <1>3, <1>5 DEF CallIsSound, Update, worldSide
<1>10. CallsAreSound'
  BY <1>3, <1>9, CallsStaySound DEF worldSide, Stored, EnqueueInv, EnqueueTypeOK
<1>11. MarkersInv'
  BY <1>3, MarkersStay DEF EnqueueInv, worldSide
<1>12. AutoIsRationed'
  <2>1. CASE u \in Optional /\ fresh
    <3>1. windowJobs = {} /\ windowJobs' = {u} /\ cooling' = TRUE
      BY <1>3, <2>1 DEF EnqueueInv, AutoIsRationed
    <3>2. Cardinality({u}) <= 1
      BY FS_Singleton
    <3> QED BY <3>1, <3>2 DEF AutoIsRationed
  <2>2. CASE ~(u \in Optional /\ fresh)
    <3>1. windowJobs' = windowJobs
      BY <1>3, <2>2
    <3>2. cooling' = cooling
      BY <1>3, <2>2 DEF EnqueueInv, EnqueueTypeOK
    <3> QED BY <3>1, <3>2, RationStays DEF EnqueueInv
  <2> QED BY <2>1, <2>2
<1> QED BY <1>7, <1>8, <1>10, <1>11, <1>12 DEF EnqueueInv

LEMMA SuppressKeeps ==
  ASSUME EnqueueInv, NEW c \in Calls, Suppress(c)
  PROVE  EnqueueInv'
<1>1. /\ ~At(c, "idle") /\ Update(c) \in Optional /\ Goto(c, "persist")
      /\ UNCHANGED <<storeSide, worldSide>>
  BY DEF Suppress, At
<1>2. CallIsSound(c)
  BY <1>1 DEF EnqueueInv, CallsAreSound
<1>3. CallIsSound(c)'
  BY <1>1, <1>2 DEF CallIsSound, Update, Goto, EnqueueInv, EnqueueTypeOK, storeSide, worldSide
<1> QED BY <1>1, <1>3, MoveKeeps, StepNames

LEMMA TriggerKeeps ==
  ASSUME EnqueueInv, NEW c \in Calls, Trigger(c)
  PROVE  EnqueueInv'
<1>1. ~At(c, "idle") /\ call[c].pc = "trigger" /\ UNCHANGED <<storeSide, worldSide>>
  BY DEF Trigger, At
<1>2. CallIsSound(c)
  BY <1>1 DEF EnqueueInv, CallsAreSound
<1>3. CASE TriggerRecorded(c)
  <2>1. Goto(c, "upsert")
    BY <1>3 DEF Trigger
  <2>2. CallIsSound(c)'
    BY <1>1, <1>2, <2>1
    DEF CallIsSound, Update, Goto, EnqueueInv, EnqueueTypeOK, storeSide, worldSide
  <2> QED BY <1>1, <2>1, <2>2, MoveKeeps, StepNames
<1>4. CASE ~TriggerRecorded(c)
  BY <1>1, <1>4, EndKeeps DEF Trigger, Refuse, worldSide, EnqueueInv, EnqueueTypeOK
<1> QED BY <1>3, <1>4

LEMMA HistoryGrows ==
  ASSUME EnqueueInv, NEW c \in Calls, NEW pc \in Steps, Goto(c, pc),
         Update(c) \in Updates, history' = history \cup {Update(c)},
         UNCHANGED <<job, seen, receipts, epoch, cooling, resting, published, applied,
                     windowJobs, worldSide>>,
         CallIsSound(c)'
  PROVE  EnqueueInv'
<1>1. EnqueueTypeOK'
  <2>1. call' \in [Calls -> CallRecords]
    BY MovedCallIsTyped DEF EnqueueInv, EnqueueTypeOK, Goto
  <2> QED BY <2>1 DEF EnqueueInv, EnqueueTypeOK, worldSide
<1>2. \A d \in Calls \ {c} : call'[d] = call[d]
  BY DEF Goto, EnqueueInv, EnqueueTypeOK
<1>3. CallsAreSound'
  BY <1>2, CallsStaySound DEF worldSide, Stored
<1>4. MarkersInv'
  BY DEF EnqueueInv, MarkersInv, MarkersAreSound, MarkedIsComplete, AckedIsMarked, CommandOnce,
         worldSide
<1>5. JobsInv' /\ AutoIsRationed'
  BY JobsStay, RationStays DEF EnqueueInv, worldSide
<1> QED BY <1>1, <1>3, <1>4, <1>5 DEF EnqueueInv

LEMMA UpsertKeepsInv ==
  ASSUME EnqueueInv, NEW c \in Calls, Upsert(c)
  PROVE  EnqueueInv'
<1> DEFINE u == Update(c)
           pc == IF call[c].found \in SAFE_ENQUEUE_STATES THEN "mark" ELSE "publish"
<1>1. /\ ~At(c, "idle") /\ call[c].pc = "upsert" /\ Goto(c, pc)
      /\ history' = history \cup {u}
      /\ UNCHANGED <<job, seen, receipts, epoch, cooling, resting, published, applied,
                     windowJobs, worldSide>>
  BY DEF Upsert, At
<1>2. CallIsSound(c) /\ u \in Updates
  BY <1>1 DEF EnqueueInv, CallsAreSound, CallIsSound, EnqueueTypeOK
<1>3. pc \in {"mark", "publish"} /\ (pc = "mark" => u \in published)
  BY <1>2 DEF CallIsSound, SAFE_ENQUEUE_STATES
<1>4. u \in Routed /\ Kind[u] \notin {"tone", "mode"}
  BY <1>1, <1>2 DEF CallIsSound, Routed
<1> HIDE DEF pc
<1>5. CallIsSound(c)'
  BY <1>1, <1>2, <1>3, <1>4
  DEF CallIsSound, Update, Goto, EnqueueInv, EnqueueTypeOK, worldSide, Stored
<1> QED BY <1>1, <1>2, <1>3, <1>5, HistoryGrows, StepNames

LEMMA PublishKeeps ==
  ASSUME EnqueueInv, NEW c \in Calls, NEW id \in Ids, Publish(c, id)
  PROVE  EnqueueInv'
<1> DEFINE u == Update(c)
<1>1. /\ ~At(c, "idle") /\ call[c].pc = "publish"
      /\ accepted' = accepted \cup {[update |-> u, id |-> id]}
      /\ window' = window \cup {u}
      /\ call' = [call EXCEPT ![c].pc = "record", ![c].id = id]
      /\ UNCHANGED <<storeSide, matching, forgotten, sent, acked, faults, replies>>
  BY DEF Publish, At
<1>2. CallIsSound(c) /\ u \in Updates
  BY <1>1 DEF EnqueueInv, CallsAreSound, CallIsSound, EnqueueTypeOK
<1>3. EnqueueTypeOK'
  <2>1. call' \in [Calls -> CallRecords]
    BY <1>1, StepNames, PublishedCallIsTyped DEF EnqueueInv, EnqueueTypeOK
  <2> QED BY <1>1, <1>2, <2>1 DEF EnqueueInv, EnqueueTypeOK, storeSide
<1>4. CallIsSound(c)'
  BY <1>1, <1>2 DEF CallIsSound, Update, EnqueueInv, EnqueueTypeOK, storeSide, Stored
<1>5. CallsAreSound'
  BY <1>1, <1>4, CallsStaySound DEF storeSide, Stored, EnqueueInv, EnqueueTypeOK
<1>6. MarkersInv' /\ JobsInv' /\ AutoIsRationed'
  BY <1>1, MarkersStay, JobsStay, RationStays DEF EnqueueInv, storeSide
<1> QED BY <1>3, <1>5, <1>6 DEF EnqueueInv

LEMMA RecordKeeps ==
  ASSUME EnqueueInv, NEW c \in Calls, Record(c)
  PROVE  EnqueueInv'
<1> DEFINE u == Update(c)
           recorded == job[u].state # "absent" /\ job[u].message \in {None, call[c].id}
<1>1. ~At(c, "idle") /\ call[c].pc = "record"
      /\ UNCHANGED <<seen, receipts, history, epoch, cooling, resting, applied,
                     windowJobs, worldSide>>
  BY DEF Record, At
<1>2. CallIsSound(c) /\ u \in Updates /\ u \in Routed
  BY <1>1 DEF EnqueueInv, CallsAreSound, CallIsSound, EnqueueTypeOK
<1>3. CASE recorded
  <2>1. /\ job' = [job EXCEPT ![u].state = "enqueued", ![u].message = call[c].id]
        /\ published' = published \cup {u}
        /\ Goto(c, "mark")
    BY <1>3 DEF Record
  <2>2. /\ job' \in [Updates -> JobRecords]
        /\ \A x \in Updates :
             /\ job'[x].state = IF x = u THEN "enqueued" ELSE job[x].state
             /\ job'[x].message = IF x = u THEN call[c].id ELSE job[x].message
    <3>1. job \in [Updates -> JobRecords] /\ call[c].id \in Ids \cup {None}
      BY DEF EnqueueInv, EnqueueTypeOK, CallRecords
    <3> QED BY <1>2, <2>1, <3>1, PublishedJobIsTyped
  <2>3. EnqueueTypeOK'
    <3>1. call' \in [Calls -> CallRecords]
      BY <2>1, StepNames, MovedCallIsTyped DEF EnqueueInv, EnqueueTypeOK, Goto
    <3> QED BY <1>1, <1>2, <2>1, <2>2, <3>1 DEF EnqueueInv, EnqueueTypeOK, worldSide
  <2>4. [update |-> u, id |-> call[c].id] \in accepted
    BY <1>1, <1>2 DEF CallIsSound
  <2>5. JobsInv'
    <3>1. JobsAreRouted'
      BY <1>2, <2>1, <2>2 DEF EnqueueInv, JobsInv, JobsAreRouted
    <3>2. EnqueuedIsAccepted'
      BY <1>1, <2>2, <2>4 DEF EnqueueInv, JobsInv, EnqueuedIsAccepted, worldSide
    <3> QED BY <3>1, <3>2 DEF JobsInv
  <2>6. Kind[u] \notin {"tone", "mode"}
    BY <1>2 DEF Routed
  <2>7. CallIsSound(c)'
    BY <1>1, <1>2, <2>1, <2>6
    DEF CallIsSound, Update, Goto, EnqueueInv, EnqueueTypeOK, worldSide, Stored
  <2>8. CallsAreSound'
    BY <1>1, <2>1, <2>7, CallsStaySound DEF worldSide, Stored, Goto, EnqueueInv, EnqueueTypeOK
  <2>9. MarkersInv' /\ AutoIsRationed'
    BY <1>1, <2>1, MarkersStay, RationStays DEF EnqueueInv, worldSide
  <2> QED BY <2>3, <2>5, <2>8, <2>9 DEF EnqueueInv
<1>4. CASE ~recorded
  BY <1>1, <1>4, EndKeeps DEF Record, Refuse, worldSide, storeSide, EnqueueInv, EnqueueTypeOK
<1> QED BY <1>3, <1>4

-----------------------------------------------------------------------------
(* Other updates.                                                          *)

LEMMA PersistKeeps ==
  ASSUME EnqueueInv, NEW c \in Calls, Persist(c)
  PROVE  EnqueueInv'
<1> DEFINE u == Update(c)
           pc == IF Kind[u] \in {"tone", "mode"} THEN "receipt"
                 ELSE IF Kind[u] \in {"lobotomy", "owner_lobotomy"} THEN "reset" ELSE "mark"
<1>1. /\ ~At(c, "idle") /\ call[c].pc = "persist" /\ Goto(c, pc)
      /\ history' = history \cup {u}
      /\ UNCHANGED <<job, seen, receipts, epoch, cooling, resting, published, applied,
                     windowJobs, worldSide>>
  BY DEF Persist, At
<1>2. CallIsSound(c) /\ u \in Updates /\ u \notin Routed \ Optional
  BY <1>1 DEF EnqueueInv, CallsAreSound, CallIsSound, EnqueueTypeOK
<1>3. /\ pc \in {"receipt", "reset", "mark"}
      /\ pc = "receipt" => Kind[u] \in {"tone", "mode"}
      /\ pc = "reset" => Kind[u] \in {"lobotomy", "owner_lobotomy"}
      /\ pc = "mark" => Kind[u] \notin {"tone", "mode"}
  OBVIOUS
<1> HIDE DEF pc
<1>4. CallIsSound(c)'
  BY <1>1, <1>2, <1>3
  DEF CallIsSound, Update, Goto, EnqueueInv, EnqueueTypeOK, worldSide, Stored
<1> QED BY <1>1, <1>2, <1>3, <1>4, HistoryGrows, StepNames

\* A tone command that has no receipt has no marker and no effect yet.
LEMMA NoReceiptNoMarker ==
  ASSUME EnqueueInv, NEW u \in Updates, Kind[u] \in {"tone", "mode"}, u \notin receipts
  PROVE  /\ u \notin seen /\ replies[u] = 0
         /\ \A i \in DOMAIN applied : applied[i] # u
BY DEF EnqueueInv, MarkersInv, MarkersAreSound, MarkedIsComplete

LEMMA ReceiptKeeps ==
  ASSUME EnqueueInv, NEW c \in Calls, Receipt(c)
  PROVE  EnqueueInv'
<1> DEFINE u == Update(c)
<1>1. /\ ~At(c, "idle") /\ call[c].pc = "receipt"
      /\ UNCHANGED <<job, history, epoch, cooling, resting, published, windowJobs>>
  BY DEF Receipt, At
<1>2. CallIsSound(c) /\ u \in Updates /\ u \in sent /\ Kind[u] \in {"tone", "mode"} /\ Stored(u)
  BY <1>1 DEF EnqueueInv, CallsAreSound, CallIsSound, EnqueueTypeOK
<1>3. CASE u \in receipts
  <2>1. AnswerSilently(c) /\ UNCHANGED <<receipts, seen, published, applied>>
    BY <1>3 DEF Receipt
  <2>2. u \in seen
    BY <1>3 DEF EnqueueInv, MarkersInv, MarkersAreSound
  <2> QED BY <1>1, <2>1, <2>2, EndKeeps
          DEF AnswerSilently, Answer, storeSide, EnqueueInv, EnqueueTypeOK
<1>4. CASE u \notin receipts
  <2>1. /\ call' = [call EXCEPT ![c] = Idle] /\ acked' = acked \cup {u}
        /\ replies' = [replies EXCEPT ![u] = @ + 1]
        /\ UNCHANGED <<matching, forgotten, accepted, window, sent, faults>>
        /\ receipts' = receipts \cup {u} /\ seen' = seen \cup {u}
        /\ applied' = IF u \in Tones THEN Append(applied, u) ELSE applied
    BY <1>4 DEF Receipt, Reply, Answer
  <2>2. u \notin seen /\ replies[u] = 0 /\ \A i \in DOMAIN applied : applied[i] # u
    BY <1>2, <1>4, NoReceiptNoMarker
  <2>3. applied \in Seq(Updates) /\ applied' \in Seq(Updates)
    BY <1>2, <2>1 DEF EnqueueInv, EnqueueTypeOK
  <2>4. EnqueueTypeOK'
    <3>1. call' \in [Calls -> CallRecords]
      BY <2>1, NewCallIsTyped DEF EnqueueInv, EnqueueTypeOK
    <3>2. replies' \in [Updates -> Nat]
      BY <1>2, <2>1 DEF EnqueueInv, EnqueueTypeOK
    <3> QED BY <1>1, <1>2, <2>1, <2>3, <3>1, <3>2 DEF EnqueueInv, EnqueueTypeOK
  <2>5. \A x \in Updates : replies'[x] = IF x = u THEN 1 ELSE replies[x]
    BY <1>2, <2>1, <2>2 DEF EnqueueInv, EnqueueTypeOK
  <2>6. \A i \in DOMAIN applied' :
          applied'[i] = u \/ (i \in DOMAIN applied /\ applied'[i] = applied[i])
    BY <2>1, <2>3
  <2>7. \A i, j \in DOMAIN applied' : applied'[i] = applied'[j] => i = j
    <3>1. CASE u \notin Tones
      BY <2>1, <3>1 DEF EnqueueInv, MarkersInv, CommandOnce
    <3>2. CASE u \in Tones
      <4>1. applied' = Append(applied, u)
        BY <2>1, <3>2
      <4>2. \A i \in DOMAIN applied' :
              IF i = Len(applied) + 1 THEN applied'[i] = u
              ELSE i \in DOMAIN applied /\ applied'[i] = applied[i]
        BY <2>3, <4>1
      <4> QED BY <2>2, <4>2 DEF EnqueueInv, MarkersInv, CommandOnce
    <3> QED BY <3>1, <3>2
  <2>8. MarkersAreSound'
    BY <1>2, <2>1, <2>5, <2>6 DEF EnqueueInv, MarkersInv, MarkersAreSound
  <2>9. MarkedIsComplete'
    BY <1>1, <1>2, <2>1 DEF EnqueueInv, MarkersInv, MarkedIsComplete, Stored, Routed
  <2>10. AckedIsMarked' /\ CommandOnce'
    BY <2>1, <2>5, <2>7 DEF EnqueueInv, MarkersInv, AckedIsMarked, CommandOnce
  <2>11. CallsAreSound'
    BY <1>1, <2>1, CallsStaySound DEF Stored, Idle, EnqueueInv, EnqueueTypeOK
  <2>12. JobsInv' /\ AutoIsRationed'
    BY <1>1, <2>1, JobsStay, RationStays DEF EnqueueInv
  <2> QED BY <2>4, <2>8, <2>9, <2>10, <2>11, <2>12 DEF EnqueueInv, MarkersInv
<1> QED BY <1>3, <1>4

LEMMA ResetKeeps ==
  ASSUME EnqueueInv, NEW c \in Calls, Reset(c)
  PROVE  EnqueueInv'
<1> DEFINE u == Update(c)
<1>1. /\ ~At(c, "idle") /\ call[c].pc = "reset" /\ Goto(c, "mark")
      /\ UNCHANGED <<job, seen, receipts, history, cooling, published, applied, windowJobs,
                     worldSide>>
  BY DEF Reset, At
<1>2. CallIsSound(c) /\ u \in Updates
  BY <1>1 DEF EnqueueInv, CallsAreSound, CallIsSound, EnqueueTypeOK
<1>3. Kind[u] \in {"lobotomy", "owner_lobotomy"}
  BY <1>1, <1>2 DEF CallIsSound
<1>4. epoch' \in Nat
  BY DEF Reset, EnqueueInv, EnqueueTypeOK
<1>5. resting' \in BOOLEAN
  BY Zenon DEF Reset
<1>6. EnqueueTypeOK'
  <2>1. call' \in [Calls -> CallRecords]
    BY <1>1, StepNames, MovedCallIsTyped DEF EnqueueInv, EnqueueTypeOK, Goto
  <2> QED BY <1>1, <1>4, <1>5, <2>1 DEF EnqueueInv, EnqueueTypeOK, worldSide
<1>7. CallIsSound(c)'
  BY <1>1, <1>2, <1>3
  DEF CallIsSound, Update, Goto, EnqueueInv, EnqueueTypeOK, worldSide, Stored, Routed
<1>8. CallsAreSound'
  BY <1>1, <1>7, CallsStaySound DEF worldSide, Stored, Goto, EnqueueInv, EnqueueTypeOK
<1> QED BY <1>1, <1>6, <1>8, QuietKeeps DEF worldSide

LEMMA MarkKeeps ==
  ASSUME EnqueueInv, NEW c \in Calls, Mark(c)
  PROVE  EnqueueInv'
<1> DEFINE u == Update(c)
           replied == u \notin seen /\ Kind[u] \in {"help", "lobotomy", "owner_lobotomy"}
<1>1. /\ ~At(c, "idle") /\ call[c].pc = "mark"
      /\ seen' = seen \cup {u}
      /\ call' = [call EXCEPT ![c] = Idle] /\ acked' = acked \cup {u}
      /\ replies' = IF replied THEN [replies EXCEPT ![u] = @ + 1] ELSE replies
      /\ UNCHANGED <<matching, forgotten, accepted, window, sent, faults>>
      /\ UNCHANGED <<job, receipts, history, epoch, cooling, resting, published, applied,
                     windowJobs>>
  BY DEF Mark, At, Reply, AnswerSilently, Answer
<1>2. CallIsSound(c) /\ u \in Updates /\ u \in sent
  BY <1>1 DEF EnqueueInv, CallsAreSound, CallIsSound, EnqueueTypeOK
<1>3. /\ Stored(u) /\ Kind[u] \notin {"tone", "mode"}
      /\ u \in Routed \ Optional => u \in published
  BY <1>1, <1>2 DEF CallIsSound
<1>4. \A x \in Updates : replies'[x] = IF x = u /\ replied THEN replies[x] + 1 ELSE replies[x]
  BY <1>1, <1>2 DEF EnqueueInv, EnqueueTypeOK
<1>5. replied => replies[u] = 0
  BY <1>2 DEF EnqueueInv, MarkersInv, MarkersAreSound
<1>6. EnqueueTypeOK'
  <2>1. replies' \in [Updates -> Nat]
    BY <1>1, <1>2 DEF EnqueueInv, EnqueueTypeOK
  <2>2. call' \in [Calls -> CallRecords]
    BY <1>1, NewCallIsTyped DEF EnqueueInv, EnqueueTypeOK
  <2> QED BY <1>1, <1>2, <2>1, <2>2 DEF EnqueueInv, EnqueueTypeOK
<1> HIDE DEF replied
<1>7. MarkersInv'
  <2>1. MarkersAreSound'
    BY <1>1, <1>2, <1>4 DEF EnqueueInv, MarkersInv, MarkersAreSound
  <2>2. MarkedIsComplete'
    BY <1>1, <1>3 DEF EnqueueInv, MarkersInv, MarkedIsComplete, Stored
  <2>3. AckedIsMarked' /\ CommandOnce'
    BY <1>1, <1>4, <1>5 DEF EnqueueInv, MarkersInv, AckedIsMarked, CommandOnce
  <2> QED BY <2>1, <2>2, <2>3 DEF MarkersInv
<1>8. CallsAreSound'
  BY <1>1, CallsStaySound DEF Stored, Idle, EnqueueInv, EnqueueTypeOK
<1>9. JobsInv' /\ AutoIsRationed'
  BY <1>1, JobsStay, RationStays DEF EnqueueInv
<1> QED BY <1>6, <1>7, <1>8, <1>9 DEF EnqueueInv

-----------------------------------------------------------------------------
(* What happens around the calls.                                          *)

LEMMA WorldKeeps ==
  ASSUME EnqueueInv,
         \/ \E u \in Updates : Send(u) \/ Lapse(u)
         \/ LobotomyCooldownExpires \/ RemoveRule
  PROVE  EnqueueInv'
<1> USE DEF Send, Lapse, LobotomyCooldownExpires, RemoveRule
<1>1. /\ call' = call /\ sent \subseteq sent'
      /\ UNCHANGED <<job, seen, receipts, history, published, applied, accepted, forgotten,
                     replies, cooling, windowJobs, acked>>
  BY DEF storeSide, worldSide
<1>2. EnqueueTypeOK'
  <2>1. /\ sent' \subseteq Updates /\ window' \subseteq Updates
        /\ resting' \in BOOLEAN /\ matching' \in BOOLEAN
        /\ faults' = faults \/ (faults' = faults + 1 /\ faults < MaxFaults)
        /\ faults \in 0..MaxFaults
    BY DEF EnqueueInv, EnqueueTypeOK, storeSide, worldSide
  <2>2. UNCHANGED epoch
    BY DEF storeSide, worldSide
  <2>3. faults' \in 0..MaxFaults
    BY <2>1, EnqueueAssumption
  <2> QED BY <1>1, <2>1, <2>2, <2>3 DEF EnqueueInv, EnqueueTypeOK
<1>3. CallsAreSound'
  BY <1>1, NoCallMoves DEF Stored
<1> QED BY <1>1, <1>2, <1>3, QuietKeeps

LEMMA AbandonKeeps ==
  ASSUME EnqueueInv, NEW c \in Calls, Abandon(c)
  PROVE  EnqueueInv'
<1>1. faults' \in 0..MaxFaults
  BY EnqueueAssumption DEF Abandon, EnqueueInv, EnqueueTypeOK
<1> QED BY <1>1, EndKeeps DEF Abandon, Refuse

LEMMA CooldownKeeps ==
  ASSUME EnqueueInv, CooldownExpires
  PROVE  EnqueueInv'
<1>1. /\ cooling' = FALSE /\ windowJobs' = {}
      /\ UNCHANGED <<job, seen, receipts, history, epoch, resting, published, applied,
                     worldSide, call>>
  BY DEF CooldownExpires
<1>2. EnqueueTypeOK'
  BY <1>1 DEF EnqueueInv, EnqueueTypeOK, worldSide
<1>3. CallsAreSound'
  BY <1>1, NoCallMoves DEF Stored, worldSide
<1>4. MarkersInv' /\ JobsInv'
  BY <1>1, MarkersStay, JobsStay DEF EnqueueInv, worldSide
<1>5. AutoIsRationed'
  BY <1>1, FS_EmptySet DEF AutoIsRationed
<1> QED BY <1>2, <1>3, <1>4, <1>5 DEF EnqueueInv

\* The tombstone stands for the message that is no longer in the history.
LEMMA PurgeKeeps ==
  ASSUME EnqueueInv, Purge
  PROVE  EnqueueInv'
<1>1. /\ job' = [u \in Updates |-> NoJob] /\ history' = {} /\ forgotten' = sent
      /\ UNCHANGED <<seen, receipts, epoch, cooling, resting, published, applied,
                     windowJobs, call, matching, accepted, window, sent, acked, faults,
                     replies>>
  BY DEF Purge
<1>2. EnqueueTypeOK'
  BY <1>1, NoJobIsTyped DEF EnqueueInv, EnqueueTypeOK
<1>3. CallsAreSound'
  BY <1>1, NoCallMoves DEF Stored
<1>4. MarkersInv'
  BY <1>1 DEF EnqueueInv, MarkersInv, MarkersAreSound, MarkedIsComplete, AckedIsMarked,
              CommandOnce
<1>5. JobsInv' /\ AutoIsRationed'
  BY <1>1, RationStays DEF EnqueueInv, JobsInv, JobsAreRouted, EnqueuedIsAccepted, NoJob
<1> QED BY <1>2, <1>3, <1>4, <1>5 DEF EnqueueInv

LEMMA EnqueueNextKeeps ==
  ASSUME EnqueueInv, [EnqueueNext]_enqueueVars
  PROVE  EnqueueInv'
<1>1. ASSUME NEW c \in Calls, CallStep(c)
      PROVE  EnqueueInv'
  BY <1>1, LookupKeeps, CheckKeeps, SnapshotKeeps, CreateKeeps, SuppressKeeps, TriggerKeeps,
     UpsertKeepsInv, PublishKeeps, RecordKeeps, PersistKeeps, ReceiptKeeps, ResetKeeps, MarkKeeps
  DEF CallStep
<1>2. CASE UNCHANGED enqueueVars
  <2>1. EnqueueTypeOK'
    BY <1>2 DEF enqueueVars, storeSide, worldSide, EnqueueInv, EnqueueTypeOK
  <2>2. CallsAreSound'
    BY <1>2, NoCallMoves DEF enqueueVars, storeSide, worldSide, Stored
  <2> QED BY <1>2, <2>1, <2>2, QuietKeeps DEF enqueueVars, storeSide, worldSide
<1> QED BY <1>1, <1>2, DeliverKeeps, AbandonKeeps, WorldKeeps, CooldownKeeps, PurgeKeeps
        DEF EnqueueNext

\* The invariant of the webhook.
THEOREM EnqueueInvariance == EnqueueSpec => []EnqueueInv
BY InitHasEnqueueInv, EnqueueNextKeeps, PTL DEF EnqueueSpec

\* The webhook's state has its types.
THEOREM EnqueueTypes == EnqueueSpec => []EnqueueTypeOK
BY EnqueueInvariance, PTL DEF EnqueueInv

\* However calls overlap, repeat one another or are abandoned, and whatever
\* is purged meanwhile: no marker is set before the message is stored and the
\* job is on the queue.
THEOREM MarkersAreComplete == EnqueueSpec => []MarkedIsComplete
BY EnqueueInvariance, PTL DEF EnqueueInv, MarkersInv

\* No update is answered 200 without its marker.
THEOREM AckedAreMarked == EnqueueSpec => []AckedIsMarked
BY EnqueueInvariance, PTL DEF EnqueueInv, MarkersInv

\* A job is never recorded as published with an id QStash did not give.
THEOREM EnqueuedAreAccepted == EnqueueSpec => []EnqueuedIsAccepted
BY EnqueueInvariance, PTL DEF EnqueueInv, JobsInv

\* No repetition answers a command again or sets a tone again.
THEOREM CommandsOnce == EnqueueSpec => []CommandOnce
BY EnqueueInvariance, PTL DEF EnqueueInv, MarkersInv

\* One automatic job per cooldown window.
THEOREM AutoRationed == EnqueueSpec => []AutoIsRationed
BY EnqueueInvariance, PTL DEF EnqueueInv

-----------------------------------------------------------------------------
(* The deduplication of publications, while QStash remembers its ids.      *)

RememberedInv == PublishedOnce /\ \A m \in accepted : m.update \in window

LEMMA RememberedNextKeeps ==
  ASSUME "lapse" \notin Hazards, EnqueueInv, RememberedInv, [EnqueueNext]_enqueueVars
  PROVE  RememberedInv'
<1>1. ASSUME UNCHANGED <<accepted, window>>
      PROVE  RememberedInv'
  BY <1>1 DEF RememberedInv, PublishedOnce
<1>2. ASSUME NEW c \in Calls, NEW id \in Ids, Publish(c, id)
      PROVE  RememberedInv'
  <2> DEFINE u == Update(c)
             n == [update |-> u, id |-> id]
  <2>1. /\ accepted' = accepted \cup {n} /\ window' = window \cup {u}
        /\ u \in window => n \in accepted
    BY <1>2 DEF Publish
  <2>2. n.update = u /\ n.id = id
    OBVIOUS
  <2>3. \A m \in accepted : m.update \in window
    BY DEF RememberedInv
  <2> HIDE DEF n, u
  <2>4. \A m \in accepted : m.update = u => m.id = id
    BY <2>1, <2>2, <2>3 DEF RememberedInv, PublishedOnce
  <2> QED BY <2>1, <2>2, <2>3, <2>4 DEF RememberedInv, PublishedOnce
<1>3. ASSUME NEW c \in Calls, CallStep(c)
      PROVE  RememberedInv'
  <2>1. CASE \E id \in Ids : Publish(c, id)
    BY <1>2, <2>1
  <2>2. CASE ~\E id \in Ids : Publish(c, id)
    <3>1. UNCHANGED <<accepted, window>>
      BY <1>3, <2>2
      DEF CallStep, Lookup, Check, Snapshot, Create, Suppress, Trigger, Upsert, Record, Persist,
          Receipt, Reset, Mark, Reply, AnswerSilently, worldSide
    <3> QED BY <1>1, <3>1
  <2> QED BY <2>1, <2>2
<1>4. ASSUME UNCHANGED enqueueVars
      PROVE  RememberedInv'
  BY <1>1, <1>4 DEF enqueueVars, worldSide
<1>5. ASSUME NEW c \in Calls, Abandon(c) \/ \E u \in Updates : Deliver(c, u)
      PROVE  RememberedInv'
  BY <1>1, <1>5 DEF Abandon, Deliver, worldSide
<1>6. ASSUME \/ \E u \in Updates : Send(u) \/ Lapse(u)
             \/ CooldownExpires \/ LobotomyCooldownExpires \/ RemoveRule \/ Purge
      PROVE  RememberedInv'
  BY <1>1, <1>6
  DEF Send, Lapse, CooldownExpires, LobotomyCooldownExpires, RemoveRule, Purge, worldSide
<1> QED BY <1>3, <1>4, <1>5, <1>6 DEF EnqueueNext

\* As long as QStash remembers the deduplication ids, it holds one message
\* per update, however many calls published it.
THEOREM PublicationsOnce ==
  ASSUME "lapse" \notin Hazards
  PROVE  EnqueueSpec => []PublishedOnce
<1>1. EnqueueInit => RememberedInv
  BY DEF EnqueueInit, RememberedInv, PublishedOnce
<1>2. EnqueueInv /\ RememberedInv /\ [EnqueueNext]_enqueueVars => RememberedInv'
  BY RememberedNextKeeps
<1>3. RememberedInv => PublishedOnce
  BY DEF RememberedInv
<1> QED BY <1>1, <1>2, <1>3, EnqueueInvariance, PTL DEF EnqueueSpec

-----------------------------------------------------------------------------
(* The refinement of Intake.                                               *)

\* What most steps leave alone.
LEMMA StepsThatStutter ==
  ASSUME UNCHANGED <<seen, published, applied>>
  PROVE  [I!IntakeNext]_I!intakeVars
BY DEF I!intakeVars

LEMMA RecordRefines ==
  ASSUME EnqueueInv, NEW c \in Calls, Record(c)
  PROVE  [I!IntakeNext]_I!intakeVars
<1> DEFINE u == Update(c)
<1>1. UNCHANGED <<seen, applied>> /\ published' \in {published, published \cup {u}}
  BY DEF Record
<1>2. u \in Updates /\ u \in Routed
  BY DEF Record, At, EnqueueInv, CallsAreSound, CallIsSound, EnqueueTypeOK
<1> HIDE DEF u
<1>3. CASE published' = published
  BY <1>1, <1>3, StepsThatStutter
<1>4. CASE published' # published
  <2>1. I!Queue(u)
    BY <1>1, <1>2, <1>4 DEF I!Queue
  <2> QED BY <1>2, <2>1 DEF I!IntakeNext
<1> QED BY <1>3, <1>4

LEMMA ReceiptRefines ==
  ASSUME EnqueueInv, NEW c \in Calls, Receipt(c)
  PROVE  [I!IntakeNext]_I!intakeVars
<1> DEFINE u == Update(c)
<1>1. published' = published
  BY DEF Receipt
<1>2. u \in Updates /\ Kind[u] \in {"tone", "mode"}
  BY DEF Receipt, At, EnqueueInv, CallsAreSound, CallIsSound, EnqueueTypeOK
<1>3. CASE u \in receipts
  BY <1>1, <1>3, StepsThatStutter DEF Receipt
<1>4. CASE u \notin receipts
  <2>1. /\ seen' = seen \cup {u}
        /\ applied' = IF u \in Tones THEN Append(applied, u) ELSE applied
    BY <1>4 DEF Receipt
  <2>2. u \notin seen
    BY <1>2, <1>4, NoReceiptNoMarker
  <2>3. CASE u \in Tones
    BY <1>1, <1>2, <2>1, <2>2, <2>3 DEF I!ApplyTone, I!IntakeNext
  <2>4. CASE u \notin Tones
    <3>1. u \notin Routed
      BY <1>2 DEF Routed
    <3> QED BY <1>1, <1>2, <2>1, <2>2, <2>4, <3>1 DEF I!Finish, I!IntakeNext
  <2> QED BY <2>3, <2>4
<1> QED BY <1>3, <1>4

LEMMA MarkRefines ==
  ASSUME EnqueueInv, NEW c \in Calls, Mark(c)
  PROVE  [I!IntakeNext]_I!intakeVars
<1> DEFINE u == Update(c)
<1>1. seen' = seen \cup {u} /\ UNCHANGED <<published, applied>>
  BY DEF Mark
<1>2. /\ u \in Updates /\ Kind[u] \notin {"tone", "mode"}
      /\ u \in Routed \ Optional => u \in published
  BY DEF Mark, At, EnqueueInv, CallsAreSound, CallIsSound, EnqueueTypeOK
<1>3. u \notin Tones
  BY <1>2 DEF Tones
<1> HIDE DEF u
<1>4. CASE u \in seen
  BY <1>1, <1>4, StepsThatStutter
<1>5. CASE u \notin seen
  BY <1>1, <1>2, <1>3, <1>5 DEF I!Finish, I!IntakeNext
<1> QED BY <1>4, <1>5

LEMMA EnqueueNextRefines ==
  ASSUME EnqueueInv, [EnqueueNext]_enqueueVars
  PROVE  [I!IntakeNext]_I!intakeVars
<1>1. ASSUME NEW c \in Calls, CallStep(c)
      PROVE  [I!IntakeNext]_I!intakeVars
  <2>1. CASE Record(c) \/ Receipt(c) \/ Mark(c)
    BY <2>1, RecordRefines, ReceiptRefines, MarkRefines
  <2>2. CASE ~(Record(c) \/ Receipt(c) \/ Mark(c))
    <3>1. UNCHANGED <<seen, published, applied>>
      BY <1>1, <2>2
      DEF CallStep, Lookup, Check, Snapshot, Create, Suppress, Trigger, Upsert, Publish,
          Persist, Reset, storeSide
    <3> QED BY <3>1, StepsThatStutter
  <2> QED BY <2>1, <2>2
<1>2. ASSUME NEW c \in Calls, Abandon(c) \/ \E u \in Updates : Deliver(c, u)
      PROVE  [I!IntakeNext]_I!intakeVars
  BY <1>2, StepsThatStutter DEF Abandon, Deliver, storeSide
<1>3. ASSUME \/ \E u \in Updates : Send(u) \/ Lapse(u)
             \/ CooldownExpires \/ LobotomyCooldownExpires \/ RemoveRule \/ Purge
             \/ UNCHANGED enqueueVars
      PROVE  [I!IntakeNext]_I!intakeVars
  BY <1>3, StepsThatStutter
  DEF Send, Lapse, CooldownExpires, LobotomyCooldownExpires, RemoveRule, Purge, storeSide,
      enqueueVars
<1> QED BY <1>1, <1>2, <1>3 DEF EnqueueNext

\* The webhook implements the promise of Intake: every update marked done has
\* had its effect, a tone command takes effect once, and a job recorded as
\* published stays recorded.
THEOREM EnqueueRefinesIntake == EnqueueSpec => ImplementsIntake
<1>1. EnqueueInit => I!IntakeInit
  BY DEF EnqueueInit, I!IntakeInit
<1>2. EnqueueInv /\ [EnqueueNext]_enqueueVars => [I!IntakeNext]_I!intakeVars
  BY EnqueueNextRefines
<1> QED BY <1>1, <1>2, EnqueueInvariance, PTL DEF EnqueueSpec, ImplementsIntake, I!IntakeSpec

=============================================================================
