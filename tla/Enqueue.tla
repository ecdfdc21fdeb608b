------------------------------ MODULE Enqueue -------------------------------
(***************************************************************************)
(* The webhook: src/app/telegram/webhook.py, with the parts of the store   *)
(* it writes (jobs, the completion marker of store/dedup.py, the command   *)
(* receipts of store/config_store.py) and QStash's deduplicated publishing *)
(* (queue/qstash.py).                                                      *)
(*                                                                         *)
(* A call is one HTTP request of Telegram's.  Telegram repeats an update   *)
(* until a call answers 200, and a repetition may overlap the call it      *)
(* repeats.  Each step of a call is one request to the store or to QStash; *)
(* a call may be abandoned before any of them.                             *)
(***************************************************************************)
EXTENDS Naturals, Sequences, FiniteSets

CONSTANTS
  Updates,   \* Telegram update ids
  Calls,     \* instances that run the webhook
  Kind,      \* what _prepare_message makes of an update's message
  Ids,       \* QStash message ids
  Hazards,   \* what may go wrong: lapse, rules, purge
  MaxFaults, \* bound on abandoned calls and lapses together
  None

Kinds == {"reply", "empty", "auto", "plain", "help", "mode", "tone",
          "lobotomy", "owner_lobotomy"}

ASSUME EnqueueAssumption ==
  /\ Kind \in [Updates -> Kinds]
  /\ MaxFaults \in Nat
  /\ None \notin Ids \cup Updates

\* The updates that get a job: "reply" stands for a mention, a reply to the
\* bot, /think, /google, keywords and pictures, "empty" for a reply to the
\* bot that has neither a text nor a picture (a sticker, a voice message).
Routed == {u \in Updates : Kind[u] \in {"reply", "empty", "auto"}}

Optional == {u \in Updates : Kind[u] = "auto"}

Tones == {u \in Updates : Kind[u] = "tone"}

VARIABLES
  job,        \* job:<update>: its state, QStash id and memory epoch
  seen,       \* dedup:update:<update>, written by mark_seen or a receipt
  receipts,   \* cmd:<update>
  history,    \* the updates whose message is in the chat's history
  epoch,      \* memory:epoch:<chat>
  cooling,    \* cooldown:auto:<chat>
  resting,    \* memory:lobotomy-cooldown:<chat>
  matching,   \* whether the automatic rules match at present
  forgotten,  \* updates older than the privacy tombstone of their author
  accepted,   \* the messages QStash took: records of update and id
  window,     \* the updates whose deduplication id QStash remembers
  call,       \* the calls
  sent,       \* the updates Telegram has to deliver
  acked,      \* the updates a call answered 200
  faults,
  \* History variables.
  published,  \* the updates whose job was recorded as published
  applied,    \* the tone commands in the order they took effect
  windowJobs, \* automatic jobs created since the cooldown last began
  replies     \* how often a command was answered

storeSide == <<job, seen, receipts, history, epoch, cooling, resting, published,
               applied, windowJobs>>
worldSide == <<matching, forgotten, accepted, window, sent, acked, faults, replies>>
enqueueVars == <<storeSide, worldSide, call>>

NoJob == [state |-> "absent", message |-> None, epoch |-> 0]

Idle == [pc |-> "idle", update |-> None, found |-> "absent", epoch |-> 0, id |-> None]

\* A job in any later state is as safe as an enqueued one.
SAFE_ENQUEUE_STATES == {"enqueued"}

At(c, pc) == call[c].pc = pc

Goto(c, pc) == call' = [call EXCEPT ![c].pc = pc]

Update(c) == call[c].update

\* The HTTP response 503, after which Telegram repeats the update.
Refuse(c) == call' = [call EXCEPT ![c] = Idle]

\* The HTTP response 200.
Answer(c) ==
  /\ call' = [call EXCEPT ![c] = Idle]
  /\ acked' = acked \cup {Update(c)}

AnswerSilently(c) ==
  Answer(c) /\ UNCHANGED <<matching, forgotten, accepted, window, sent, faults, replies>>

\* The response 200 that carries the bot's reply to a command.
Reply(c) ==
  /\ Answer(c)
  /\ replies' = [replies EXCEPT ![Update(c)] = @ + 1]
  /\ UNCHANGED <<matching, forgotten, accepted, window, sent, faults>>

-----------------------------------------------------------------------------
(* _prepare_message up to the choice of a branch.                          *)

Deliver(c, u) ==
  /\ At(c, "idle")
  /\ u \in sent \ acked
  /\ call' = [call EXCEPT ![c] = [Idle EXCEPT !.pc = "lookup", !.update = u]]
  /\ UNCHANGED <<storeSide, worldSide>>

\* repository.get: the call goes on with what it found then.
Lookup(c) ==
  /\ At(c, "lookup")
  /\ LET found == job[Update(c)] IN
       call' = [call EXCEPT ![c].pc = "check", ![c].found = found.state,
                            ![c].epoch = found.epoch]
  /\ UNCHANGED <<storeSide, worldSide>>

\* Where a message without a job and without a marker goes.
Branch(u) ==
  IF u \in Routed \ Optional \/ (u \in Optional /\ matching)
  THEN "snapshot" ELSE "persist"

\* Mutant: a job that has only been received is left to the call that made it.
CheckLeavesReceived(c) ==
  /\ At(c, "check")
  /\ CASE Update(c) \in seen /\ call[c].found # "received" -> AnswerSilently(c)
       [] Update(c) \notin seen /\ call[c].found = "absent" ->
            Goto(c, Branch(Update(c))) /\ UNCHANGED worldSide
       [] OTHER -> Refuse(c) /\ UNCHANGED worldSide
  /\ UNCHANGED storeSide

\* already_seen, and the choice of the branch.
Check(c) ==
  /\ At(c, "check")
  /\ IF Update(c) \in seen /\ call[c].found \in SAFE_ENQUEUE_STATES \cup {"absent"}
     THEN AnswerSilently(c)
     ELSE /\ Goto(c, IF call[c].found = "absent" THEN Branch(Update(c)) ELSE "trigger")
          /\ UNCHANGED worldSide
  /\ UNCHANGED storeSide

-----------------------------------------------------------------------------
(* Routed updates: snapshot, job, trigger, publication, marker.            *)

\* The snapshot holds the memory epoch of the moment it is taken.
Snapshot(c) ==
  /\ At(c, "snapshot")
  /\ call' = [call EXCEPT ![c].pc = "create", ![c].epoch = epoch]
  /\ UNCHANGED <<storeSide, worldSide>>

\* Mutants: an automatic job is created without regard to the cooldown; a
\* job counts as enqueued from the start.
CreateUnrationed(c) ==
  LET u == Update(c)
      fresh == job[u].state = "absent"
  IN
  /\ At(c, "create")
  /\ job' = IF fresh
            THEN [job EXCEPT ![u].state = "received", ![u].epoch = call[c].epoch]
            ELSE job
  /\ call' = [call EXCEPT ![c].pc = "trigger", ![c].found = "received",
                          ![c].epoch = job'[u].epoch]
  /\ cooling' = (cooling \/ (u \in Optional /\ fresh))
  /\ windowJobs' = IF u \in Optional /\ fresh THEN windowJobs \cup {u} ELSE windowJobs
  /\ UNCHANGED <<seen, receipts, history, epoch, resting, published, applied, worldSide>>

CreateEnqueued(c) ==
  LET u == Update(c)
      fresh == job[u].state = "absent"
  IN
  /\ At(c, "create")
  /\ ~(u \in Optional /\ fresh /\ cooling)
  /\ job' = IF fresh
            THEN [job EXCEPT ![u].state = "enqueued", ![u].epoch = call[c].epoch]
            ELSE job
  /\ call' = [call EXCEPT ![c].pc = "trigger", ![c].found = "received",
                          ![c].epoch = job'[u].epoch]
  /\ cooling' = (cooling \/ (u \in Optional /\ fresh))
  /\ windowJobs' = IF u \in Optional /\ fresh THEN windowJobs \cup {u} ELSE windowJobs
  /\ UNCHANGED <<seen, receipts, history, epoch, resting, published, applied, worldSide>>

\* create or create_auto, and the job as it is then: one that exists keeps
\* its own snapshot.  found is "received" also for a job that another call
\* has published meanwhile: this branch publishes without looking again.
Create(c) ==
  LET u == Update(c)
      fresh == job[u].state = "absent"
  IN
  /\ At(c, "create")
  /\ ~(u \in Optional /\ fresh /\ cooling)
  /\ job' = IF fresh
            THEN [job EXCEPT ![u].state = "received", ![u].epoch = call[c].epoch]
            ELSE job
  /\ call' = [call EXCEPT ![c].pc = "trigger", ![c].found = "received",
                          ![c].epoch = job'[u].epoch]
  /\ cooling' = (cooling \/ (u \in Optional /\ fresh))
  /\ windowJobs' = IF u \in Optional /\ fresh THEN windowJobs \cup {u} ELSE windowJobs
  /\ UNCHANGED <<seen, receipts, history, epoch, resting, published, applied, worldSide>>

\* create_auto answers "suppressed": the message is stored and that is all.
Suppress(c) ==
  /\ At(c, "create")
  /\ Update(c) \in Optional
  /\ job[Update(c)].state = "absent"
  /\ cooling
  /\ Goto(c, "persist")
  /\ UNCHANGED <<storeSide, worldSide>>

\* record_message refuses a message without content, of another epoch than
\* the chat's, or older than its author's tombstone.
TriggerRecorded(c) ==
  /\ Kind[Update(c)] # "empty"
  /\ call[c].epoch = epoch
  /\ Update(c) \notin forgotten

\* _persist_job_trigger up to gathered_write_failed.
Trigger(c) ==
  /\ At(c, "trigger")
  /\ IF TriggerRecorded(c) THEN Goto(c, "upsert") ELSE Refuse(c)
  /\ UNCHANGED <<storeSide, worldSide>>

\* Mutant: the marker is set before the job is published.
UpsertMarks(c) ==
  /\ At(c, "upsert")
  /\ history' = history \cup {Update(c)}
  /\ seen' = seen \cup {Update(c)}
  /\ Goto(c, IF call[c].found \in SAFE_ENQUEUE_STATES THEN "mark" ELSE "publish")
  /\ UNCHANGED <<job, receipts, epoch, cooling, resting, published, applied, windowJobs,
                 worldSide>>

\* The history takes the trigger; a job found published needs no more than
\* its marker.
Upsert(c) ==
  /\ At(c, "upsert")
  /\ history' = history \cup {Update(c)}
  /\ Goto(c, IF call[c].found \in SAFE_ENQUEUE_STATES THEN "mark" ELSE "publish")
  /\ UNCHANGED <<job, seen, receipts, epoch, cooling, resting, published, applied,
                 windowJobs, worldSide>>

\* QStash answers a repeated deduplication id with the message it has.
Publish(c, id) ==
  LET u == Update(c) IN
  /\ At(c, "publish")
  /\ IF u \in window
     THEN [update |-> u, id |-> id] \in accepted
     ELSE \A m \in accepted : m.id # id
  /\ accepted' = accepted \cup {[update |-> u, id |-> id]}
  /\ window' = window \cup {u}
  /\ call' = [call EXCEPT ![c].pc = "record", ![c].id = id]
  /\ UNCHANGED <<storeSide, matching, forgotten, sent, acked, faults, replies>>

\* record_publication: the job has gone, or it keeps another id.
Record(c) ==
  LET u == Update(c)
      recorded == job[u].state # "absent" /\ job[u].message \in {None, call[c].id}
  IN
  /\ At(c, "record")
  /\ IF recorded
     THEN /\ job' = [job EXCEPT ![u].state = "enqueued", ![u].message = call[c].id]
          /\ published' = published \cup {u}
          /\ Goto(c, "mark")
     ELSE Refuse(c) /\ UNCHANGED <<job, published>>
  /\ UNCHANGED <<seen, receipts, history, epoch, cooling, resting, applied, windowJobs,
                 worldSide>>

-----------------------------------------------------------------------------
(* Other updates: _persist_incoming, the effect of a command, the marker.  *)

\* users.observe, record_message, history.upsert: what the memory refuses is
\* not looked at.
Persist(c) ==
  /\ At(c, "persist")
  /\ history' = history \cup {Update(c)}
  /\ Goto(c, IF Kind[Update(c)] \in {"tone", "mode"} THEN "receipt"
             ELSE IF Kind[Update(c)] \in {"lobotomy", "owner_lobotomy"} THEN "reset"
             ELSE "mark")
  /\ UNCHANGED <<job, seen, receipts, epoch, cooling, resting, published, applied,
                 windowJobs, worldSide>>

\* Mutant: the receipt is written without a look at the one there is.
ReceiptUnread(c) ==
  LET u == Update(c) IN
  /\ At(c, "receipt")
  /\ Reply(c)
  /\ receipts' = receipts \cup {u}
  /\ seen' = seen \cup {u}
  /\ applied' = IF u \in Tones THEN Append(applied, u) ELSE applied
  /\ UNCHANGED <<job, history, epoch, cooling, resting, published, windowJobs>>

\* apply_tone_command and record_command: the receipt, the marker and the
\* tone in one script, for the first call that comes.
Receipt(c) ==
  LET u == Update(c) IN
  /\ At(c, "receipt")
  /\ IF u \in receipts
     THEN AnswerSilently(c) /\ UNCHANGED <<receipts, seen, published, applied>>
     ELSE /\ Reply(c)
          /\ receipts' = receipts \cup {u}
          /\ seen' = seen \cup {u}
          /\ applied' = IF u \in Tones THEN Append(applied, u) ELSE applied
  /\ UNCHANGED <<job, history, epoch, cooling, resting, published, windowJobs>>

\* lobotomy: all but the super-admin take the cooldown key first, or are
\* told to wait.
Reset(c) ==
  LET owner == Kind[Update(c)] = "owner_lobotomy" IN
  /\ At(c, "reset")
  /\ resting' = (resting \/ ~owner)
  /\ IF owner \/ ~resting
     THEN epoch' = epoch + 1
     ELSE UNCHANGED epoch
  /\ Goto(c, "mark")
  /\ UNCHANGED <<job, seen, receipts, history, cooling, published, applied, windowJobs,
                 worldSide>>

\* mark_seen elects the call that answers a command.
Mark(c) ==
  LET u == Update(c) IN
  /\ At(c, "mark")
  /\ seen' = seen \cup {u}
  /\ IF u \notin seen /\ Kind[u] \in {"help", "lobotomy", "owner_lobotomy"}
     THEN Reply(c) ELSE AnswerSilently(c)
  /\ UNCHANGED <<job, receipts, history, epoch, cooling, resting, published, applied,
                 windowJobs>>

-----------------------------------------------------------------------------
(* What happens around the calls.                                          *)

Send(u) ==
  /\ u \notin sent
  /\ sent' = sent \cup {u}
  /\ UNCHANGED <<storeSide, call, matching, forgotten, accepted, window, acked, faults,
                 replies>>

\* A crash, a store or queue error, or a response that Telegram never gets.
Abandon(c) ==
  /\ ~At(c, "idle")
  /\ faults < MaxFaults
  /\ faults' = faults + 1
  /\ Refuse(c)
  /\ UNCHANGED <<storeSide, matching, forgotten, accepted, window, sent, acked, replies>>

\* QStash forgets a deduplication id.
Lapse(u) ==
  /\ "lapse" \in Hazards
  /\ u \in window
  /\ faults < MaxFaults
  /\ faults' = faults + 1
  /\ window' = window \ {u}
  /\ UNCHANGED <<storeSide, call, matching, forgotten, accepted, sent, acked, replies>>

CooldownExpires ==
  /\ cooling
  /\ cooling' = FALSE
  /\ windowJobs' = {}
  /\ UNCHANGED <<job, seen, receipts, history, epoch, resting, published, applied,
                 worldSide, call>>

LobotomyCooldownExpires ==
  /\ resting
  /\ resting' = FALSE
  /\ UNCHANGED <<job, seen, receipts, history, epoch, cooling, published, applied,
                 windowJobs, worldSide, call>>

\* An administrator removes the automatic rule.
RemoveRule ==
  /\ "rules" \in Hazards
  /\ matching
  /\ matching' = FALSE
  /\ UNCHANGED <<storeSide, call, forgotten, accepted, window, sent, acked, faults,
                 replies>>

\* The deletion of everything the chat's members have sent so far.
Purge ==
  /\ "purge" \in Hazards
  /\ forgotten # sent
  /\ job' = [u \in Updates |-> NoJob]
  /\ history' = {}
  /\ forgotten' = sent
  /\ UNCHANGED <<seen, receipts, epoch, cooling, resting, published, applied, windowJobs,
                 call, matching, accepted, window, sent, acked, faults, replies>>

-----------------------------------------------------------------------------
EnqueueInit ==
  /\ job = [u \in Updates |-> NoJob]
  /\ seen = {} /\ receipts = {} /\ history = {}
  /\ epoch = 0
  /\ cooling = FALSE /\ resting = FALSE /\ matching = TRUE
  /\ forgotten = {}
  /\ accepted = {} /\ window = {}
  /\ call = [c \in Calls |-> Idle]
  /\ sent = {} /\ acked = {}
  /\ faults = 0
  /\ published = {}
  /\ applied = <<>>
  /\ windowJobs = {}
  /\ replies = [u \in Updates |-> 0]

CallStep(c) ==
  \/ Lookup(c) \/ Check(c) \/ Snapshot(c) \/ Create(c) \/ Suppress(c)
  \/ Trigger(c) \/ Upsert(c) \/ (\E id \in Ids : Publish(c, id)) \/ Record(c)
  \/ Persist(c) \/ Receipt(c) \/ Reset(c) \/ Mark(c)

EnqueueNext ==
  \/ \E c \in Calls : CallStep(c) \/ Abandon(c) \/ \E u \in Updates : Deliver(c, u)
  \/ \E u \in Updates : Send(u) \/ Lapse(u)
  \/ CooldownExpires \/ LobotomyCooldownExpires
  \/ RemoveRule
  \/ Purge

EnqueueSpec == EnqueueInit /\ [][EnqueueNext]_enqueueVars

\* A call that is not abandoned goes on, and Telegram delivers an update
\* again until one of its calls answers 200.
EnqueueFairness ==
  /\ \A c \in Calls : WF_enqueueVars(CallStep(c))
  /\ \A u \in Updates : SF_enqueueVars(\E c \in Calls : Deliver(c, u))

FairEnqueueSpec == EnqueueSpec /\ EnqueueFairness

-----------------------------------------------------------------------------
(* Properties.                                                             *)

Steps == {"idle", "lookup", "check", "snapshot", "create", "trigger", "upsert",
          "publish", "record", "persist", "receipt", "reset", "mark"}

JobRecords == [state : {"absent", "received", "enqueued"},
               message : Ids \cup {None}, epoch : Nat]

CallRecords == [pc : Steps, update : Updates \cup {None},
                found : {"absent", "received", "enqueued"},
                epoch : Nat, id : Ids \cup {None}]

\* The webhook's state has its types.
EnqueueTypeOK ==
  /\ job \in [Updates -> JobRecords]
  /\ seen \subseteq Updates /\ receipts \subseteq Updates /\ history \subseteq Updates
  /\ epoch \in Nat
  /\ cooling \in BOOLEAN /\ resting \in BOOLEAN /\ matching \in BOOLEAN
  /\ forgotten \subseteq Updates /\ sent \subseteq Updates /\ acked \subseteq Updates
  /\ accepted \subseteq [update : Updates, id : Ids]
  /\ window \subseteq Updates /\ windowJobs \subseteq Updates
  /\ call \in [Calls -> CallRecords]
  /\ faults \in 0..MaxFaults
  /\ published \subseteq Updates /\ applied \in Seq(Updates)
  /\ replies \in [Updates -> Nat]

\* "A final marker is safe only when no routed job is incomplete"
\* (webhook.py:449): whatever calls overlapped or were abandoned, an update
\* with a marker has its message in the history, its receipt if it is a
\* command with one, and its job, if it has one, on the queue.
MarkedIsComplete ==
  \A u \in seen :
    /\ u \in history \cup forgotten
    /\ Kind[u] \in {"tone", "mode"} => u \in receipts
    /\ u \in Routed \ Optional => u \in published

\* Telegram is told 200 only for updates that will be recognised if they
\* come again, so nothing is done anew for a stray repetition.
AckedIsMarked == acked \subseteq seen

\* A job on the queue is recorded with a message QStash really took for it,
\* so its failure callback will be accepted.
EnqueuedIsAccepted ==
  \A u \in Updates : job[u].state = "enqueued" =>
    [update |-> u, id |-> job[u].message] \in accepted

\* One QStash message per update, however often it was published, as long
\* as QStash remembers the deduplication id.
PublishedOnce == \A m, n \in accepted : m.update = n.update => m.id = n.id

\* A command is answered at most once, and a tone command takes effect at
\* most once: a repetition cannot roll back a newer setting.
CommandOnce ==
  /\ \A u \in Updates : replies[u] <= 1
  /\ \A i, j \in DOMAIN applied : applied[i] = applied[j] => i = j

\* A burst of automatic matches makes one job per cooldown window, and the
\* window never stands without its job having been created.
AutoIsRationed == (cooling <=> windowJobs # {}) /\ Cardinality(windowJobs) <= 1

\* What the store never takes again: the trigger of a job that holds neither
\* text nor picture, or is older than the last lobotomy of the chat or than
\* its author's privacy tombstone.
Unrecordable(u) ==
  \/ Kind[u] = "empty"
  \/ u \in forgotten
  \/ job[u].state # "absent" /\ job[u].epoch # epoch

\* Every update is answered 200 in the end, so a repetition resumes and
\* completes whatever an abandoned call left, unless the store has come to
\* refuse its trigger: Telegram then repeats it in vain.
UpdatesComplete ==
  \A u \in Updates : u \in sent ~> u \in acked \/ Unrecordable(u)

=============================================================================
