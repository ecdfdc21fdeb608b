------------------------------ MODULE Delivery ------------------------------
(***************************************************************************)
(* One job from the webhook to its end: the invocations of                 *)
(* src/app/telegram/processor.py that QStash makes for it, the job store   *)
(* they share (JobStore), Telegram at the other end of the wire, and the   *)
(* group history.                                                          *)
(*                                                                         *)
(* Workers are the deliveries of the job to /api/telegram/process, one     *)
(* invocation each; Callbacks are deliveries to /api/telegram/failure.     *)
(* Each is a small process whose steps are the store operations and calls  *)
(* of the code, in its order; the store operations are atomic, the rest    *)
(* interleaves.  What job it is and what may go wrong is the scenario.     *)
(***************************************************************************)
EXTENDS JobStore, FiniteSets, Sequences

CONSTANTS
  Workers, Callbacks,
  Steps,      \* the delivery steps in order: placeholder, edit, chunks
  Scenarios,  \* what job it is, and what may go wrong
  MaxFaults   \* how many crashes, timeouts and store faults there are

AllHazards == {"crash", "timeout", "store_fault", "stall", "lobotomy", "purge"}

\* The job's kind, the steps its answer takes, and the hazards.
AllScenarios ==
  [kind : {"reply", "image_memory"}, steps : 2..Len(Steps),
   hazards : SUBSET AllHazards]

Agents == Workers \cup Callbacks

Edit == Steps[2]

\* The steps that create a message; it is named after the step and the
\* invocation that asked for it.
Sends == {Steps[i] : i \in 1..Len(Steps)} \ {Edit}

Messages == Sends \X Workers

Texts == Payloads \cup {"notice"}

\* A request: who asks for which step, the message it creates or edits, and
\* the text it puts there.
Requests == [from : Agents, message : Messages, text : Texts]

ASSUME DeliveryAssumption ==
  /\ Workers # {} /\ Workers \cap Callbacks = {}
  /\ Steps \in Seq(Names) /\ Len(Steps) >= 2
  /\ Names = {Steps[i] : i \in 1..Len(Steps)}
  /\ \A i, j \in 1..Len(Steps) : Steps[i] = Steps[j] => i = j
  /\ Placeholder = Steps[1]
  /\ Repeatable = {Edit}
  /\ Messages = Results
  /\ Payloads = Answers \cup {"placeholder"}
  /\ "placeholder" \notin Answers /\ "notice" \notin Payloads /\ None \notin Texts
  /\ 1..(2 * Cardinality(Workers) + Cardinality(Callbacks)) \subseteq Tokens
  /\ Scenarios \subseteq AllScenarios
  /\ MaxFaults \in Nat

VARIABLES
  agent,    \* the invocations
  webhook,  \* how far the enqueueing webhook got
  chat,     \* the messages in the Telegram chat, and what they say
  wire,     \* requests sent to Telegram that have had no effect yet
  history,  \* the bot's messages in the stored chat history
  purger,   \* how far the privacy purge got
  epoch,    \* the chat's memory epoch, against the job's 0
  faults,   \* faults so far
  scenario, \* which of Scenarios it is, from beginning to end
  unmodified, \* who learnt that its notice was in the chat already, and did
              \* not get it into the history
  stranded    \* whose release of the job failed

worldVars ==
  <<webhook, chat, wire, history, purger, epoch, faults, scenario, unmodified, stranded>>

vars == <<storeVars, agent, worldVars>>

Kind == scenario.kind

Hazards == scenario.hazards

\* The messages this job takes.
SentSteps == {Steps[i] : i \in 1..scenario.steps} \ {Edit}

Pcs == {"idle", "begin", "image", "prepare", "call", "send", "await", "clear",
        "record", "log", "upsert", "write", "recheck", "unlog", "read", "generate",
        "save", "finish", "lost", "overtime", "claim", "notice_call", "notice_send",
        "notice_await", "notice_log", "notice_write", "notice_done", "notice_fail",
        "notice_release", "release", "done", "crashed"}

\* Besides its leases an invocation remembers the step it is at, the text it
\* delivers, the message it last created or found checkpointed, the state it
\* will finish the job in and the reply it owes QStash.
IdleAgent ==
  [pc |-> "idle", lease |-> None, notice |-> None, step |-> 1, text |-> "placeholder",
   message |-> None, target |-> "none", reply |-> "none"]

DeliveryInit ==
  /\ Init
  /\ agent = [a \in Agents |-> IdleAgent]
  /\ webhook = "new"
  /\ chat = [m \in Messages |-> None]
  /\ wire = {}
  /\ history = [m \in Messages |-> None]
  /\ purger = "idle"
  /\ epoch = 0
  /\ faults = 0
  /\ scenario \in Scenarios
  /\ unmodified = {}
  /\ stranded = {}

-----------------------------------------------------------------------------
(* Moving an invocation on.                                                *)

Name(a) == Steps[agent[a].step]

\* The token drawn next: tokens are told apart by nothing but freshness.
NextToken == CHOOSE t \in Tokens : FreshToken(t)

Goto(a, pc) == agent' = [agent EXCEPT ![a].pc = pc]

\* An error class on its way to its handler in _owned_job_response.
EndWith(a, target) ==
  agent' = [agent EXCEPT ![a].pc = "finish", ![a].target = target]

\* The response is known; what is held is released first (the `finally`s).
Reply(a, reply) ==
  agent' = [agent EXCEPT
    ![a].reply = reply,
    ![a].pc = IF agent[a].notice # None THEN "notice_release"
              ELSE IF agent[a].lease # None THEN "release" ELSE "done"]

\* _ensure_memory_epoch: the job was cancelled by a lobotomy.
Cancelled == epoch # 0

QuietStore == UNCHANGED storeVars

Quiet == UNCHANGED <<storeVars, worldVars>>

-----------------------------------------------------------------------------
(* The webhook: create_reply_job, publish, record_publication.             *)

CreateJob ==
  /\ webhook = "new"
  /\ Create
  /\ webhook' = "created"
  /\ UNCHANGED <<agent, chat, wire, history, purger, epoch, faults, scenario,
                 unmodified, stranded>>

\* From here on QStash delivers; its answer is still on its way.
PublishJob ==
  /\ webhook = "created"
  /\ webhook' = "published"
  /\ UNCHANGED <<storeVars, agent, chat, wire, history, purger, epoch, faults, scenario,
                 unmodified, stranded>>

RecordJob ==
  /\ webhook = "published"
  /\ IF Exists THEN \E id \in MessageIds : RecordPublication(id) ELSE QuietStore
  /\ webhook' = "recorded"
  /\ UNCHANGED <<agent, chat, wire, history, purger, epoch, faults, scenario,
                 unmodified, stranded>>

-----------------------------------------------------------------------------
(* A delivery begins: _process_job.                                        *)

Deliver(w) ==
  /\ agent[w].pc = "idle"
  /\ webhook \in {"published", "recorded"}
  /\ UNCHANGED worldVars
  /\ \/ /\ \E t \in Tokens : t = NextToken /\ Acquire(t)
        /\ agent' = [agent EXCEPT ![w].pc = "begin", ![w].lease = lease']
     \/ /\ ~Acquirable
        /\ QuietStore
        /\ CASE job.state = "failed" -> Goto(w, "claim")
             [] job.state # "failed" /\ Live -> Reply(w, "retry")
             [] OTHER -> Reply(w, "ok")

\* The start of _run_delivery; the bot's identity may be unavailable.
Begin(w) ==
  /\ agent[w].pc = "begin"
  /\ Quiet
  /\ \/ Cancelled /\ EndWith(w, "cancelled")
     \/ ~Cancelled /\ ~Owns(agent[w].lease) /\ Goto(w, "lost")
     \/ /\ ~Cancelled /\ Owns(agent[w].lease)
        /\ IF Kind = "image_memory" THEN Goto(w, "image")
           ELSE Goto(w, "prepare") \/ EndWith(w, "failed_retryable")

\* _ensure_image_memory: the image is analysed, and that is the whole job.
AnalyzeImage(w) ==
  /\ agent[w].pc = "image"
  /\ Quiet
  /\ \/ EndWith(w, "failed_retryable")
     \/ EndWith(w, "failed")
     \/ Cancelled /\ EndWith(w, "cancelled")
     \/ ~Cancelled /\ ~Owns(agent[w].lease) /\ Goto(w, "lost")
     \/ ~Cancelled /\ Owns(agent[w].lease) /\ EndWith(w, "delivered")

-----------------------------------------------------------------------------
(* A delivery step: _ensure_placeholder, _edit_first_chunk, _send_chunk.   *)

\* Chunks do not look at the memory epoch before they prepare.
PrepareStep(w) ==
  LET n == Name(w)
      l == agent[w].lease
      p == agent[w].text
      status == IntentStatus(l, n, p)
  IN /\ agent[w].pc = "prepare"
     /\ UNCHANGED worldVars
     /\ IF Cancelled /\ agent[w].step <= 2
        THEN QuietStore /\ EndWith(w, "cancelled")
        ELSE \/ status = "prepared" /\ PrepareIntent(l, n, p) /\ Goto(w, "call")
             \/ /\ status = "checkpointed"
                /\ QuietStore
                /\ agent' = [agent EXCEPT ![w].pc = "log",
                                          ![w].message = job.checkpoint[n]]
             \/ status = "ambiguous" /\ QuietStore /\ EndWith(w, "failed_ambiguous")
             \/ status = "conflict" /\ QuietStore /\ EndWith(w, "failed")
             \/ status = "ownership_lost" /\ QuietStore /\ Goto(w, "lost")

\* What a step's checkpoint records: the edit is of the placeholder, the
\* message the invocation remembers from the step before.
ResultOf(w) == IF Name(w) = Edit THEN agent[w].message ELSE <<Name(w), w>>

Request(w) == [from |-> w, message |-> ResultOf(w), text |-> agent[w].text]

\* Ownership is asked once more, and but for the placeholder the epoch, and
\* then the request goes out: from then on nothing can call it back.
CallTelegram(w) ==
  /\ agent[w].pc = "call"
  /\ Quiet
  /\ IF Owns(agent[w].lease) THEN Goto(w, "send") ELSE Goto(w, "lost")

SendRequest(w) ==
  /\ agent[w].pc = "send"
  /\ QuietStore
  /\ UNCHANGED <<webhook, chat, history, purger, epoch, faults, scenario,
                 unmodified, stranded>>
  /\ IF Cancelled /\ Name(w) # Placeholder
     THEN EndWith(w, "cancelled") /\ UNCHANGED wire
     ELSE wire' = wire \cup {Request(w)} /\ Goto(w, "await")

Pending(a) == \E r \in wire : r.from = a

\* What Telegram does with a request, at any time after it was sent: to edit
\* a message into what it says already is "message is not modified", which
\* the code takes for success, but for a notice logs without an edit date.
Land(r) ==
  /\ r \in wire
  /\ wire' = wire \ {r}
  /\ chat' = [chat EXCEPT ![r.message] = r.text]
  /\ unmodified' = IF r.text = "notice" /\ chat[r.message] = "notice"
                         /\ agent[r.from].pc = "notice_await"
                    THEN unmodified \cup {r.from} ELSE unmodified
  /\ UNCHANGED <<storeVars, agent, webhook, history, purger, epoch, faults, scenario,
                 stranded>>

\* How a delivery ends whose request was never answered.  Mutant: an edit,
\* which may be repeated, is taken for a send, which may not.
UnansweredIsAmbiguous(w) == "failed_ambiguous"

UnansweredTarget(w) ==
  IF Name(w) \in Repeatable THEN "failed_retryable" ELSE "failed_ambiguous"

\* The answer: success once the request has had its effect; a rejection, of
\* a request that then never has one; or no answer (a transport error after
\* the connection was made, or a malformed reply), whatever became of it.
AwaitTelegram(w) ==
  /\ agent[w].pc = "await"
  /\ QuietStore
  /\ UNCHANGED <<webhook, chat, history, purger, epoch, faults, scenario,
                 unmodified, stranded>>
  /\ \/ ~Pending(w) /\ Goto(w, "record") /\ UNCHANGED wire
     \/ EndWith(w, UnansweredTarget(w)) /\ UNCHANGED wire
     \/ /\ Pending(w)
        /\ wire' = {r \in wire : r.from # w}
        /\ \E target \in {"failed_retryable", "failed"} :
             agent' = [agent EXCEPT ![w].target = target,
                                    ![w].pc = IF Name(w) \in Repeatable
                                             THEN "finish" ELSE "clear"]

ClearStep(w) ==
  LET l == agent[w].lease IN
  /\ agent[w].pc = "clear"
  /\ UNCHANGED worldVars
  /\ IF Owns(l) THEN ClearIntent(l, Name(w)) /\ Goto(w, "finish")
                ELSE QuietStore /\ Goto(w, "lost")

RecordStep(w) ==
  LET l == agent[w].lease IN
  /\ agent[w].pc = "record"
  /\ UNCHANGED worldVars
  /\ IF Owns(l)
     THEN /\ Checkpoint(l, Name(w), ResultOf(w))
          /\ agent' = [agent EXCEPT ![w].pc = "log", ![w].message = ResultOf(w)]
     ELSE QuietStore /\ Goto(w, "lost")

-----------------------------------------------------------------------------
(* _history_upsert under a worker's lease.                                 *)

LogStep(w) ==
  /\ agent[w].pc = "log"
  /\ Quiet
  /\ IF Cancelled THEN EndWith(w, "cancelled")
     ELSE IF Owns(agent[w].lease) THEN Goto(w, "upsert") ELSE Goto(w, "lost")

\* Which of two records of a message is the later version: an edit is later
\* than the message, and a notice that edited it when the job had failed is
\* later than the answer.
Version(text) ==
  CASE text = None -> 0
    [] text = "notice" -> 3
    [] text \in Answers -> 2
    [] OTHER -> 1

\* history.upsert: nothing is written for a purged job, and an older version
\* never replaces a newer one.  Mutants: the record of a message is never
\* replaced; and the purge mark is not looked at.
UpsertOnce(m, text) ==
  history' = IF purger # "idle" \/ history[m] # None THEN history
             ELSE [history EXCEPT ![m] = text]

UpsertPurged(m, text) ==
  history' = IF Version(text) < Version(history[m]) THEN history
             ELSE [history EXCEPT ![m] = text]

Upsert(m, text) ==
  history' =
    IF purger # "idle" \/ Version(text) < Version(history[m]) THEN history
    ELSE [history EXCEPT ![m] = text]

UpsertStep(w) ==
  /\ agent[w].pc = "upsert"
  /\ Quiet
  /\ IF Cancelled THEN EndWith(w, "cancelled") ELSE Goto(w, "write")

WriteRecord(w) ==
  /\ agent[w].pc = "write"
  /\ Upsert(agent[w].message, agent[w].text)
  /\ Goto(w, "recheck")
  /\ QuietStore
  /\ UNCHANGED <<webhook, chat, wire, purger, epoch, faults, scenario,
                 unmodified, stranded>>

\* The next step of a delivery; the answer comes after the placeholder.
\* Mutants: one step too many; and the chunks are left out.
AdvanceTooFar(w) ==
  CASE agent[w].step = 1 -> Goto(w, "read")
    [] OTHER -> agent' = [agent EXCEPT ![w].pc = "prepare", ![w].step = @ + 1]

AdvanceNoFurther(w) ==
  CASE agent[w].step = 1 -> Goto(w, "read")
    [] OTHER -> EndWith(w, "delivered")

Advance(w) ==
  CASE agent[w].step = 1 -> Goto(w, "read")
    [] agent[w].step \in 2..(scenario.steps - 1) ->
         agent' = [agent EXCEPT ![w].pc = "prepare", ![w].step = @ + 1]
    [] OTHER -> EndWith(w, "delivered")

\* A worker that lost the job while it wrote takes its record back.
RecheckStep(w) ==
  /\ agent[w].pc = "recheck"
  /\ Quiet
  /\ IF Owns(agent[w].lease) THEN Advance(w) ELSE Goto(w, "unlog")

UnlogStep(w) ==
  /\ agent[w].pc = "unlog"
  /\ QuietStore
  /\ history' = [history EXCEPT ![agent[w].message] = None]
  /\ Goto(w, "lost")
  /\ UNCHANGED <<webhook, chat, wire, purger, epoch, faults, scenario,
                 unmodified, stranded>>

-----------------------------------------------------------------------------
(* _answer: reuse the saved answer, or generate one and save it.           *)

ReadAnswer(w) ==
  /\ agent[w].pc = "read"
  /\ Quiet
  /\ CASE ~Exists -> Goto(w, "lost")
       [] Exists /\ job.answer # None ->
            agent' = [agent EXCEPT ![w].pc = "save", ![w].text = job.answer]
       [] Exists /\ job.answer = None ->
            Goto(w, IF Owns(agent[w].lease) THEN "generate" ELSE "lost")

\* The language model answers, or fails for now or for good.  Mutant: the
\* answer is delivered before it is saved.
GenerateUnsaved(w) ==
  /\ agent[w].pc = "generate"
  /\ Quiet
  /\ \E a \in Answers :
       agent' = [agent EXCEPT ![w].pc = "prepare", ![w].step = 2, ![w].text = a]

Generate(w) ==
  /\ agent[w].pc = "generate"
  /\ Quiet
  /\ \/ EndWith(w, "failed_retryable")
     \/ EndWith(w, "failed")
     \/ ~Owns(agent[w].lease) /\ Goto(w, "lost")
     \/ Cancelled /\ EndWith(w, "cancelled")
     \/ /\ ~Cancelled
        /\ \E a \in Answers :
             agent' = [agent EXCEPT ![w].pc = "save", ![w].text = a]

\* What is delivered is what the store kept, not what was generated.
StoreAnswer(w) ==
  LET l == agent[w].lease IN
  /\ agent[w].pc = "save"
  /\ UNCHANGED worldVars
  /\ IF Owns(l)
     THEN /\ SaveAnswer(l, agent[w].text)
          /\ agent' = [agent EXCEPT ![w].pc = "prepare", ![w].step = 2,
                                    ![w].text = job'.answer]
     ELSE QuietStore /\ Goto(w, "lost")

-----------------------------------------------------------------------------
(* _owned_job_response: how a delivery ends.                               *)

\* `finish` and what the handler makes of its answer.  A rejected state is a
\* JobStoreError: of a delivery it is one more retryable failure; out of the
\* handler of a cancelled job it escapes, and is a retry to QStash.
FinishJob(w) ==
  LET l == agent[w].lease
      target == agent[w].target
      accepted == Owns(l) /\ target \in FinishTargets
      rejected == Owns(l) /\ target \notin FinishTargets
  IN /\ agent[w].pc = "finish"
     /\ UNCHANGED worldVars
     /\ IF accepted THEN Finish(l, target, Kind # "image_memory") ELSE QuietStore
     /\ CASE target = "delivered" ->
               \/ accepted /\ Reply(w, "ok")
               \/ rejected /\ EndWith(w, "failed_retryable")
               \/ ~Owns(l) /\ Goto(w, "lost")
          [] target = "failed" /\ Kind # "image_memory" ->
               \/ accepted /\ Goto(w, "claim")
               \/ ~accepted /\ Reply(w, "ok")
          [] target = "failed_retryable" -> Reply(w, "retry")
          [] OTHER -> Reply(w, IF rejected THEN "retry" ELSE "ok")

\* OwnershipLost: somebody else may have ended the job already.
LoseJob(w) ==
  /\ agent[w].pc = "lost"
  /\ Quiet
  /\ Reply(w, IF job.state \in TerminalStates THEN "ok" ELSE "retry")

\* asyncio.timeout(WORKER_BUDGET_SECONDS): what was awaited is abandoned,
\* wherever the invocation is; a request on the wire stays there.
WorkingPcs == Pcs \ {"idle", "overtime", "release", "done", "crashed"}

Fault(hazard) ==
  /\ hazard \in Hazards
  /\ faults < MaxFaults
  /\ faults' = faults + 1
  /\ UNCHANGED <<webhook, chat, wire, history, purger, epoch, scenario, unmodified>>

Timeout(w) ==
  /\ agent[w].pc \in WorkingPcs
  /\ agent[w].lease # None
  /\ Fault("timeout")
  /\ UNCHANGED stranded
  /\ IF agent[w].notice # None /\ noticeLease = agent[w].notice
     THEN ReleaseNotice(agent[w].notice) ELSE QuietStore
  /\ agent' = [agent EXCEPT ![w].pc = "overtime", ![w].notice = None]

Overtime(w) ==
  LET l == agent[w].lease IN
  /\ agent[w].pc = "overtime"
  /\ UNCHANGED worldVars
  /\ \/ /\ job.state \in TerminalStates \ {"failed"}
        /\ QuietStore
        /\ Reply(w, "ok")
     \/ /\ job.state \notin TerminalStates \ {"failed"}
        /\ IF Owns(l) THEN Finish(l, "failed_retryable", FALSE) ELSE QuietStore
        /\ Reply(w, "retry")

\* An invocation is done with the notice.
DropNotice(a, reply) ==
  agent' = [agent EXCEPT
    ![a].notice = None,
    ![a].reply = reply,
    ![a].pc = IF agent[a].lease # None THEN "release" ELSE "done"]

\* The store refuses or cannot be reached, or its answer to a `finish` that
\* was carried out is lost: a delivery gives up for now, a handler that was
\* ending the job is cut short, and a lease that is not given back stays; of
\* the job's QStash is not told.
StorePcs == {"begin", "prepare", "call", "clear", "record", "log", "write",
             "recheck", "unlog", "read", "save"}

StoreFault(a) ==
  LET giveUp == \/ agent[a].pc \in StorePcs
                \/ agent[a].pc = "finish" /\ agent[a].target = "delivered"
      unheard == /\ agent[a].pc = "release"
                 /\ agent[a].target = "delivered" /\ agent[a].reply = "ok"
      cutShort == \/ agent[a].pc = "finish" /\ agent[a].target # "delivered"
                  \/ agent[a].pc \in {"lost", "overtime", "claim", "notice_call",
                                      "notice_send", "notice_log", "notice_write",
                                      "notice_done", "notice_fail"}
  IN /\ Fault("store_fault")
     /\ QuietStore
     /\ \/ (giveUp \/ unheard) /\ EndWith(a, "failed_retryable") /\ UNCHANGED stranded
        \/ cutShort /\ Reply(a, "retry") /\ UNCHANGED stranded
        \/ agent[a].pc = "notice_release" /\ DropNotice(a, "retry") /\ UNCHANGED stranded
        \/ agent[a].pc = "release" /\ Goto(a, "done") /\ stranded' = stranded \cup {a}

\* The finally blocks: the notice's lease, then the job's.
ReleaseHeldNotice(a) ==
  /\ agent[a].pc = "notice_release"
  /\ UNCHANGED worldVars
  /\ IF noticeLease = agent[a].notice
     THEN ReleaseNotice(agent[a].notice) ELSE QuietStore
  /\ DropNotice(a, agent[a].reply)

\* Mutant: what is held is left to expire.
KeepHeldJob(w) ==
  /\ agent[w].pc = "release"
  /\ Quiet
  /\ Goto(w, "done")

ReleaseHeldJob(w) ==
  /\ agent[w].pc = "release"
  /\ UNCHANGED worldVars
  /\ IF lease = agent[w].lease THEN Release(agent[w].lease) ELSE QuietStore
  /\ Goto(w, "done")

\* The instance dies, and whatever it holds stays until it expires.
Crash(a) ==
  /\ agent[a].pc \notin {"idle", "done", "crashed"}
  /\ Fault("crash")
  /\ QuietStore
  /\ UNCHANGED stranded
  /\ Goto(a, "crashed")

-----------------------------------------------------------------------------
(* _failure_notice: the one thing still done for a job that has failed.    *)

ClaimHeldNotice(a) ==
  /\ agent[a].pc = "claim"
  /\ UNCHANGED worldVars
  /\ \/ /\ \E t \in Tokens : t = NextToken /\ ClaimNotice(t)
        /\ agent' = [agent EXCEPT ![a].pc = "notice_call", ![a].notice = noticeLease',
                                  ![a].message = job.placeholder]
     \/ /\ QuietStore
        /\ \/ job.notice = "pending" /\ noticeLease # None /\ Reply(a, "retry")
           \/ job.notice # "pending" /\ Reply(a, "ok")

GuardNotice(a) ==
  /\ agent[a].pc = "notice_call"
  /\ Quiet
  /\ IF OwnsNotice(agent[a].notice) THEN Goto(a, "notice_send") ELSE Reply(a, "retry")

\* Nothing is sent for a job that was purged in between.
SendNotice(a) ==
  LET request == [from |-> a, message |-> agent[a].message, text |-> "notice"] IN
  /\ agent[a].pc = "notice_send"
  /\ QuietStore
  /\ UNCHANGED <<webhook, chat, history, purger, epoch, faults, scenario, stranded>>
  /\ IF Exists
     THEN /\ wire' = wire \cup {request}
          /\ unmodified' = unmodified \ {a}
          /\ Goto(a, "notice_await")
     ELSE Reply(a, "ok") /\ UNCHANGED <<wire, unmodified>>

\* Mutant: no answer is taken for a good one.
AwaitNoticeHopefully(a) ==
  /\ agent[a].pc = "notice_await"
  /\ Quiet
  /\ Goto(a, "notice_log")

AwaitNotice(a) ==
  /\ agent[a].pc = "notice_await"
  /\ QuietStore
  /\ UNCHANGED <<webhook, chat, history, purger, epoch, faults, scenario, stranded>>
  /\ \/ ~Pending(a) /\ Goto(a, "notice_log") /\ UNCHANGED <<wire, unmodified>>
     \/ Reply(a, "retry") /\ UNCHANGED wire /\ unmodified' = unmodified \ {a}
     \/ /\ Pending(a)
        /\ wire' = {r \in wire : r.from # a}
        /\ unmodified' = unmodified \ {a}
        /\ Reply(a, "retry") \/ Goto(a, "notice_fail")

\* No lease is asked for here: the notice's record is written for a job that
\* has ended, and only the purge mark keeps it out.  Of a notice that was
\* there already the record is the placeholder's with another text: whether
\* it is older than the answer's depends on the second of the answer's edit.
LogNotice(a) ==
  /\ agent[a].pc = "notice_log"
  /\ Quiet
  /\ IF Cancelled THEN Reply(a, "ok") ELSE Goto(a, "notice_write")

WriteNotice(a) ==
  /\ agent[a].pc = "notice_write"
  /\ \/ Upsert(agent[a].message, "notice") /\ unmodified' = unmodified \ {a}
     \/ /\ a \in unmodified /\ history[agent[a].message] \in Answers
        /\ UNCHANGED <<history, unmodified>>
  /\ Goto(a, "notice_done")
  /\ QuietStore
  /\ UNCHANGED <<webhook, chat, wire, purger, epoch, faults, scenario, stranded>>

SettleNotice(a) ==
  LET l == agent[a].notice IN
  /\ agent[a].pc \in {"notice_done", "notice_fail"}
  /\ UNCHANGED worldVars
  /\ IF OwnsNotice(l)
     THEN /\ IF agent[a].pc = "notice_done" THEN CompleteNotice(l) ELSE FailNotice(l)
          /\ Reply(a, "ok")
     ELSE QuietStore /\ Reply(a, "retry")

-----------------------------------------------------------------------------
(* failure_callback: QStash has made every delivery and none was accepted. *)

Accepted(w) == agent[w].pc = "done" /\ agent[w].reply = "ok"

\* A callback that is told to come again is delivered again.
CallBack(c) ==
  /\ agent[c].pc = "idle"
  /\ \A w \in Workers : agent[w].pc # "idle" /\ ~Accepted(w)
  /\ UNCHANGED worldVars
  /\ \/ /\ \E id \in MessageIds : FailureTakeover(id, TRUE)
        /\ Goto(c, "claim")
     \/ /\ ~Exists
        /\ QuietStore
        /\ Reply(c, "ok")
     \/ /\ job.state \in TerminalStates
        /\ job.message # None
        /\ QuietStore
        /\ IF job.state = "failed" THEN Goto(c, "claim") ELSE Reply(c, "ok")

\* The bound on redeliveries: there must be tokens left for every invocation
\* that may still draw some.
RoomToRedeliver ==
  Cardinality(Tokens) - Cardinality(issued) >
    Cardinality(Callbacks)
      + 2 * Cardinality({w \in Workers : agent[w].pc \notin {"done", "crashed"}})

Redeliver(c) ==
  /\ agent[c].pc = "done"
  /\ agent[c].reply = "retry"
  /\ RoomToRedeliver
  /\ agent' = [agent EXCEPT ![c] = IdleAgent]
  /\ Quiet

-----------------------------------------------------------------------------
(* The rest of the world.                                                  *)

\* A lobotomy of the chat starts a new memory epoch.
Lobotomy ==
  /\ "lobotomy" \in Hazards
  /\ epoch = 0
  /\ epoch' = 1
  /\ UNCHANGED <<storeVars, agent, webhook, chat, wire, history, purger, faults, scenario,
                 unmodified, stranded>>

\* purge_index: the job is marked, then erased, and then its messages are
\* taken out of the history.
MarkPurged ==
  /\ "purge" \in Hazards
  /\ purger = "idle" /\ Exists
  /\ purger' = "marked"
  /\ UNCHANGED <<storeVars, agent, webhook, chat, wire, history, epoch, faults, scenario,
                 unmodified, stranded>>

ErasePurged ==
  /\ purger = "marked"
  /\ IF Exists THEN Purge ELSE QuietStore
  /\ purger' = "erased"
  /\ UNCHANGED <<agent, webhook, chat, wire, history, epoch, faults, scenario,
                 unmodified, stranded>>

CleanPurged ==
  /\ purger = "erased"
  /\ purger' = "cleaned"
  /\ history' = [m \in Messages |-> IF m \in receipts THEN None ELSE history[m]]
  /\ UNCHANGED <<storeVars, agent, webhook, chat, wire, epoch, faults, scenario,
                 unmodified, stranded>>

\* The budget of 240 s ends an invocation before its lease of 270 s does, so
\* a lease expires only when its holder is gone, unless instances may stall.
Running(l) ==
  \E a \in Agents : agent[a].lease = l /\ agent[a].pc \notin {"done", "crashed"}

LapseLease ==
  /\ "stall" \in Hazards \/ ~Running(lease)
  /\ ExpireLease
  /\ UNCHANGED <<agent, worldVars>>

\* The notice's lease is of 30 s only and never renewed.
LapseNoticeLease ==
  /\ ExpireNoticeLease
  /\ UNCHANGED <<agent, worldVars>>

-----------------------------------------------------------------------------
DeliveryStep(w) ==
  \/ Deliver(w) \/ Begin(w) \/ AnalyzeImage(w)
  \/ PrepareStep(w) \/ CallTelegram(w) \/ SendRequest(w) \/ AwaitTelegram(w)
  \/ ClearStep(w) \/ RecordStep(w)
  \/ LogStep(w) \/ UpsertStep(w) \/ WriteRecord(w) \/ RecheckStep(w) \/ UnlogStep(w)
  \/ ReadAnswer(w) \/ Generate(w) \/ StoreAnswer(w)
  \/ FinishJob(w) \/ LoseJob(w) \/ Overtime(w) \/ ReleaseHeldJob(w)

FailureNoticeStep(a) ==
  \/ ClaimHeldNotice(a) \/ GuardNotice(a) \/ SendNotice(a) \/ AwaitNotice(a)
  \/ LogNotice(a) \/ WriteNotice(a) \/ SettleNotice(a) \/ ReleaseHeldNotice(a)

CallbackStep(c) == CallBack(c) \/ Redeliver(c)

DeliveryNext ==
  \/ CreateJob \/ PublishJob \/ RecordJob
  \/ \E w \in Workers : DeliveryStep(w) \/ Timeout(w)
  \/ \E c \in Callbacks : CallbackStep(c)
  \/ \E a \in Agents : FailureNoticeStep(a) \/ StoreFault(a) \/ Crash(a)
  \/ \E r \in wire : Land(r)
  \/ Lobotomy \/ MarkPurged \/ ErasePurged \/ CleanPurged
  \/ LapseLease \/ LapseNoticeLease

DeliverySpec == DeliveryInit /\ [][DeliveryNext]_vars

\* Every invocation keeps going, leases expire, and QStash delivers what it
\* was given until somebody accepts it.  Telegram owes nothing.
DeliveryFairness ==
  /\ WF_vars(CreateJob) /\ WF_vars(PublishJob) /\ WF_vars(RecordJob)
  /\ \A w \in Workers : WF_vars(DeliveryStep(w))
  /\ \A c \in Callbacks : WF_vars(CallbackStep(c))
  /\ \A a \in Agents : WF_vars(FailureNoticeStep(a))
  /\ WF_vars(LapseLease) /\ WF_vars(LapseNoticeLease)

FairDeliverySpec == DeliverySpec /\ DeliveryFairness

-----------------------------------------------------------------------------
(* Properties.                                                             *)

DeliveryTypeOK ==
  /\ agent \in [Agents ->
       [pc : Pcs, lease : Leases \cup {None}, notice : Leases \cup {None},
        step : 1..Len(Steps), text : Texts, message : Messages \cup {None},
        target : TerminalStates \cup {"failed_retryable", "none"},
        reply : {"none", "ok", "retry"}]]
  /\ webhook \in {"new", "created", "published", "recorded"}
  /\ chat \in [Messages -> Texts \cup {None}]
  /\ wire \subseteq Requests
  /\ history \in [Messages -> Texts \cup {None}]
  /\ purger \in {"idle", "marked", "erased", "cleaned"}
  /\ epoch \in 0..1
  /\ faults \in 0..MaxFaults
  /\ scenario \in Scenarios
  /\ unmodified \subseteq Agents /\ stranded \subseteq Agents

\* Who has put a step's message in the chat, or may still put it there; a
\* request for the placeholder's message with another text is an edit.
Posted(n) ==
  {w \in Workers :
     \/ chat[<<n, w>>] # None
     \/ \E r \in wire :
          r.message = <<n, w>> /\ (n = Placeholder => r.text = "placeholder")}

\* The intents' purpose (_ensure_placeholder, _send_chunk): whatever crashes,
\* stalls, times out or stays unanswered, no step is ever sent twice.
NoMessageTwice == \A n \in Sends : Cardinality(Posted(n)) <= 1

\* "Save before delivery" (_answer): every answer in the chat or on its way
\* there is the one the store kept, even when two workers generated two.
OnlySavedAnswersShown ==
  \A m \in Messages :
    /\ Exists /\ chat[m] \in Answers => chat[m] = job.answer
    /\ \A k \in Messages : {chat[m], chat[k]} \subseteq Answers => chat[m] = chat[k]
    /\ \A r \in wire : {chat[m], r.text} \subseteq Answers => chat[m] = r.text

\* `finish "delivered"` comes last: the whole answer is in the chat.
DeliveredIsComplete ==
  job.state = "delivered" =>
    \A n \in SentSteps : \E w \in Workers : chat[<<n, w>>] = job.answer

\* And it is in the history, message by message (_history_upsert), unless it
\* is being purged.  It rests on leases that outlast their holders: a worker
\* that wakes after its lease expired takes back the record of the next one.
DeliveredIsLogged ==
  job.state = "delivered" /\ purger = "idle" /\ "stall" \notin Hazards =>
    \A n \in SentSteps : history[job.checkpoint[n]] = job.answer

\* A notice that is marked delivered was: the placeholder is gone from the
\* chat and from the history, and the history ends with the notice
\* (complete_failure_notice comes after the edit and its record; a late edit
\* may still put the answer back into the chat, but not into the history).
\* Only when Telegram answered that the message was not modified, a first
\* notice having gone unanswered, may the history have kept the answer.
NoticeIsShown ==
  job.notice = "delivered" =>
    /\ chat[job.placeholder] \in Answers \cup {"notice"}
    /\ purger = "idle" /\ "stall" \notin Hazards =>
         \/ history[job.placeholder] = "notice"
         \/ history[job.placeholder] \in Answers /\ unmodified # {}

\* A job is given up as ambiguous only when a message really was announced
\* whose result nobody recorded.
AmbiguousHasOpenIntent ==
  job.state = "failed_ambiguous" =>
    \E n \in Sends : job.intent[n] # None /\ job.checkpoint[n] = None

\* An invocation that has answered QStash holds nothing back, however its
\* delivery ended: the job can be taken at once by the next one (the finally
\* of _process_job).  But when that release itself fails, nobody is told, and
\* the job stays taken until the lease expires.
NothingHeldWhenDone ==
  \A a \in Agents : agent[a].pc = "done" /\ agent[a].lease # None =>
                      lease # agent[a].lease \/ a \in stranded

\* Once a purge is through, no late invocation puts a message of the purged
\* job back into the history (privacy:job:<id> in history.upsert).
PurgedStaysForgotten ==
  purger = "cleaned" => \A m \in Messages : history[m] = None

\* A published job ends, or is purged: every lease is given back or expires,
\* and the deliveries or the failure callback conclude it.
JobEnds == webhook = "recorded" ~> ~Live

\* _ensure_image_memory: "completing its memory job".  A worker that has
\* analysed the image of an image_memory job and still owns it completes it.
ImageJobCompletes ==
  [][\A w \in Workers :
       agent[w].pc = "finish" /\ agent[w].target = "delivered"
         /\ Owns(agent[w].lease) /\ agent'[w] # agent[w] /\ faults' = faults
       => job'.state = "delivered"]_vars

=============================================================================
