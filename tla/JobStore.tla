------------------------------ MODULE JobStore ------------------------------
(***************************************************************************)
(* The durable job of one Telegram update, as the job backend keeps it:    *)
(* src/app/store/job_backend.py (MemoryJobBackend), whose operations the   *)
(* Lua scripts of job_backend_upstash.py run atomically in Redis.          *)
(*                                                                         *)
(* One action per operation, enabled exactly when the operation changes    *)
(* the store; every other outcome ("busy", "ownership_lost", "conflict",   *)
(* ...) leaves it as it is, and a caller sees it as the negation of the    *)
(* guard.  The clients of Next are the most general ones: anybody may call *)
(* any operation, at any time, with any lease that was ever issued, so     *)
(* what holds here does not rest on how the worker behaves.                *)
(*                                                                         *)
(* Time is abstracted: an expired lease is dropped by the first operation  *)
(* that looks at it (_purge_job), so "expired" and "gone" are the same     *)
(* thing to every caller, and the clock is three actions that drop a lease *)
(* or the whole job at any moment.                                         *)
(***************************************************************************)
EXTENDS Naturals

CONSTANTS
  Tokens,        \* secrets.token_urlsafe: never drawn twice
  MessageIds,    \* QStash message ids
  Names,         \* names of delivery intents: placeholder, answer_edit, ...
  Placeholder,   \* the intent that creates the message later edits
  Repeatable,    \* the intents prepared with ambiguous_on_takeover=False
  Payloads,      \* what an intent is about: kind, chunk index, payload hash
  Results,       \* Telegram message ids, all positive
  Answers,       \* answer texts
  MaxAttempts,   \* MAX_PROCESS_ATTEMPTS, 4 in the code
  None           \* an absent hash field or key

Leases == [token : Tokens, fence : 0..(MaxAttempts + 1)]

Intents == [payload : Payloads, fence : 0..(MaxAttempts + 1)]

ASSUME JobStoreAssumption ==
  /\ Placeholder \in Names
  /\ Repeatable \subseteq Names \ {Placeholder}
  /\ MaxAttempts \in Nat \ {0}
  /\ None \notin MessageIds \cup Results \cup Answers
  /\ None \notin Leases
  /\ None \notin Intents

TerminalStates == {"delivered", "failed", "failed_ambiguous", "cancelled"}

ProcessableStates ==
  {"received", "enqueued", "failed_retryable", "processing", "ready_to_deliver"}

\* The states a worker that holds a lease finds the job in.
WorkingStates == {"processing", "ready_to_deliver"}

NoticeStates == {"none", "pending", "delivered", "failed_permanent"}

VARIABLES
  job,          \* the hash job:<id>; its state is "absent" when there is none
  lease,        \* job:<id>:lease
  noticeLease,  \* job:<id>:failure-lease
  receipts,     \* privacy:receipt:<index>, the message ids of purged jobs
  issued        \* every lease handed out so far, for history only

storeVars == <<job, lease, noticeLease, receipts, issued>>

Job == [state : TerminalStates \cup ProcessableStates \cup {"absent"},
        fence : 0..(MaxAttempts + 1),
        attempts : 0..MaxAttempts,
        message : MessageIds \cup {None},
        placeholder : Results \cup {None},
        answer : Answers \cup {None},
        notice : NoticeStates,
        intent : [Names -> Intents \cup {None}],
        checkpoint : [Names -> Results \cup {None}]]

EmptyJob(state) ==
  [state |-> state, fence |-> 0, attempts |-> 0, message |-> None,
   placeholder |-> None, answer |-> None, notice |-> "none",
   intent |-> [n \in Names |-> None],
   checkpoint |-> [n \in Names |-> None]]

Exists == job.state # "absent"

Live == Exists /\ job.state \notin TerminalStates

FreshToken(t) == \A l \in issued : l.token # t

-----------------------------------------------------------------------------
(* What the ownership checks of the scripts answer.                        *)

Owns(l) == Live /\ job.fence = l.fence /\ lease = l

OwnsNotice(l) ==
  /\ job.state = "failed"
  /\ job.notice = "pending"
  /\ job.fence = l.fence
  /\ noticeLease = l

\* Mutant: no intent is ever ambiguous (ambiguous_on_takeover=False for all).
IntentStatusNeverAmbiguous(l, n, p) ==
  CASE ~Owns(l) -> "ownership_lost"
    [] Owns(l) /\ job.intent[n] # None /\ job.intent[n].payload # p -> "conflict"
    [] Owns(l) /\ job.checkpoint[n] # None -> "checkpointed"
    [] OTHER -> "prepared"

IntentStatus(l, n, p) ==
  CASE ~Owns(l) -> "ownership_lost"
    [] Owns(l) /\ job.intent[n] = None ->
         IF job.checkpoint[n] = None THEN "prepared" ELSE "conflict"
    [] Owns(l) /\ job.intent[n] # None ->
         IF job.intent[n].payload # p THEN "conflict"
         ELSE IF job.checkpoint[n] # None THEN "checkpointed"
         ELSE IF n \notin Repeatable /\ job.intent[n].fence # l.fence
              THEN "ambiguous"
              ELSE "prepared"

FinishTargets ==
  CASE job.state = "processing" ->
         {"failed_retryable", "failed", "failed_ambiguous"}
    [] job.state = "ready_to_deliver" ->
         {"delivered", "failed_retryable", "failed", "failed_ambiguous"}
    [] OTHER -> {}

\* Mutant: a notice is owed even when there is no message to edit.
NoticeOwedAnyway(wanted) == IF wanted THEN "pending" ELSE "none"

\* The notice a job that fails is owed, given that there is a text for it.
NoticeOwed(wanted) ==
  IF wanted /\ job.placeholder # None THEN "pending" ELSE "none"

-----------------------------------------------------------------------------
(* Creation and publication, called by the webhook and the scheduler.      *)

Create ==
  /\ ~Exists
  /\ job' = EmptyJob("received")
  /\ UNCHANGED <<lease, noticeLease, receipts, issued>>

RecordPublication(id) ==
  /\ Exists
  /\ job.message \in {None, id}
  /\ job' = [job EXCEPT !.message = id,
                        !.state = IF @ = "received" THEN "enqueued" ELSE @]
  /\ UNCHANGED <<lease, noticeLease, receipts, issued>>

-----------------------------------------------------------------------------
(* The worker's lease and what it may do under it.                         *)

\* Mutant: the check for a busy job is left out.
AcquirableWhileBusy ==
  job.state \in ProcessableStates /\ job.attempts < MaxAttempts

Acquirable ==
  /\ job.state \in ProcessableStates
  /\ lease = None
  /\ job.attempts < MaxAttempts

Acquire(t) ==
  /\ Acquirable
  /\ FreshToken(t)
  /\ job' = [job EXCEPT
               !.fence = @ + 1,
               !.attempts = @ + 1,
               !.state = IF @ \in WorkingStates THEN @ ELSE "processing"]
  /\ lease' = [token |-> t, fence |-> job.fence + 1]
  /\ issued' = issued \cup {lease'}
  /\ UNCHANGED <<noticeLease, receipts>>

\* Mutant: a lease that has expired is renewed as long as the fence fits.
RenewExpired(l) ==
  /\ Live
  /\ job.fence = l.fence
  /\ lease \in {None, l}
  /\ lease' = l
  /\ UNCHANGED <<job, noticeLease, receipts, issued>>

\* Renewing writes the lease value again with a later expiry.
Renew(l) ==
  /\ Owns(l)
  /\ lease' = l
  /\ UNCHANGED <<job, noticeLease, receipts, issued>>

PrepareIntent(l, n, p) ==
  /\ IntentStatus(l, n, p) = "prepared"
  /\ job' = [job EXCEPT !.intent[n] =
               IF @ = None THEN [payload |-> p, fence |-> l.fence] ELSE @]
  /\ UNCHANGED <<lease, noticeLease, receipts, issued>>

Checkpoint(l, n, r) ==
  /\ Owns(l)
  /\ job.intent[n] # None
  /\ job.checkpoint[n] \in {None, r}
  /\ job' = [job EXCEPT !.checkpoint[n] = r,
                        !.placeholder = IF n = Placeholder THEN r ELSE @]
  /\ UNCHANGED <<lease, noticeLease, receipts, issued>>

\* Mutant: the intent of a finished step may be cleared too.
ClearAnyIntent(l, n) ==
  /\ Owns(l)
  /\ job' = [job EXCEPT !.intent[n] = None]
  /\ UNCHANGED <<lease, noticeLease, receipts, issued>>

ClearIntent(l, n) ==
  /\ Owns(l)
  /\ job.checkpoint[n] = None
  /\ job' = [job EXCEPT !.intent[n] = None]
  /\ UNCHANGED <<lease, noticeLease, receipts, issued>>

SaveAnswer(l, a) ==
  /\ Owns(l)
  /\ job.state \in WorkingStates
  /\ job' = [job EXCEPT !.answer = IF @ = None THEN a ELSE @,
                        !.state = "ready_to_deliver"]
  /\ UNCHANGED <<lease, noticeLease, receipts, issued>>

Finish(l, target, wanted) ==
  /\ Owns(l)
  /\ target \in FinishTargets
  /\ job' = [job EXCEPT
               !.state = target,
               !.fence = IF target \in TerminalStates THEN @ + 1 ELSE @,
               !.notice = IF target = "failed" THEN NoticeOwed(wanted) ELSE @]
  /\ lease' = None
  /\ UNCHANGED <<noticeLease, receipts, issued>>

Release(l) ==
  /\ lease = l
  /\ lease' = None
  /\ UNCHANGED <<job, noticeLease, receipts, issued>>

-----------------------------------------------------------------------------
(* Failure: QStash gives up on the job, and the notice the user is owed.   *)

\* Mutant: the callback takes a job over while a worker holds it.
TakeoverOfBusy(id, wanted) ==
  /\ Live
  /\ job.message = id
  /\ job' = [job EXCEPT !.state = "failed", !.fence = @ + 1,
                        !.notice = NoticeOwed(wanted)]
  /\ UNCHANGED <<lease, noticeLease, receipts, issued>>

\* Mutant: a job that was being processed is left to its next delivery.
TakeoverOfIdle(id, wanted) ==
  /\ job.state \in {"enqueued", "failed_retryable"}
  /\ job.message = id
  /\ lease = None
  /\ job' = [job EXCEPT !.state = "failed", !.fence = @ + 1,
                        !.notice = NoticeOwed(wanted)]
  /\ UNCHANGED <<lease, noticeLease, receipts, issued>>

\* The job is live, has the message that failed, and no worker holds it.
FailureTakeover(id, wanted) ==
  /\ Live
  /\ job.message = id
  /\ lease = None
  /\ job' = [job EXCEPT !.state = "failed",
                        !.fence = @ + 1,
                        !.notice = NoticeOwed(wanted)]
  /\ UNCHANGED <<lease, noticeLease, receipts, issued>>

ClaimNotice(t) ==
  /\ job.state = "failed"
  /\ job.notice = "pending"
  /\ noticeLease = None
  /\ FreshToken(t)
  /\ noticeLease' = [token |-> t, fence |-> job.fence]
  /\ issued' = issued \cup {noticeLease'}
  /\ UNCHANGED <<job, lease, receipts>>

CompleteNotice(l) ==
  /\ OwnsNotice(l)
  /\ job' = [job EXCEPT !.notice = "delivered"]
  /\ noticeLease' = None
  /\ UNCHANGED <<lease, receipts, issued>>

FailNotice(l) ==
  /\ OwnsNotice(l)
  /\ job' = [job EXCEPT !.notice = "failed_permanent"]
  /\ noticeLease' = None
  /\ UNCHANGED <<lease, receipts, issued>>

ReleaseNotice(l) ==
  /\ noticeLease = l
  /\ noticeLease' = None
  /\ UNCHANGED <<job, lease, receipts, issued>>

-----------------------------------------------------------------------------
(* Privacy purge, and the clock.                                           *)

\* The job is marked cancelled and erased in one script: no caller ever
\* sees the cancelled hash, only that the job is gone.
Purge ==
  /\ Exists
  /\ receipts' = receipts \cup ({job.checkpoint[n] : n \in Names} \ {None})
  /\ job' = EmptyJob("absent")
  /\ lease' = None
  /\ noticeLease' = None
  /\ UNCHANGED issued

ExpireJob ==
  /\ Exists
  /\ job' = EmptyJob("absent")
  /\ lease' = None
  /\ noticeLease' = None
  /\ UNCHANGED <<receipts, issued>>

ExpireLease ==
  /\ lease # None
  /\ lease' = None
  /\ UNCHANGED <<job, noticeLease, receipts, issued>>

ExpireNoticeLease ==
  /\ noticeLease # None
  /\ noticeLease' = None
  /\ UNCHANGED <<job, lease, receipts, issued>>

-----------------------------------------------------------------------------
Init ==
  /\ job = EmptyJob("absent")
  /\ lease = None
  /\ noticeLease = None
  /\ receipts = {}
  /\ issued = {}

OwnerStep(l) ==
  \/ Renew(l)
  \/ \E n \in Names :
       \/ \E p \in Payloads : PrepareIntent(l, n, p)
       \/ \E r \in Results : Checkpoint(l, n, r)
       \/ ClearIntent(l, n)
  \/ \E a \in Answers : SaveAnswer(l, a)
  \/ \E target \in TerminalStates \cup {"failed_retryable"}, w \in BOOLEAN :
       Finish(l, target, w)
  \/ Release(l)

NoticeStep(l) == CompleteNotice(l) \/ FailNotice(l) \/ ReleaseNotice(l)

Next ==
  \/ Create
  \/ \E id \in MessageIds : RecordPublication(id)
  \/ \E t \in Tokens : Acquire(t) \/ ClaimNotice(t)
  \/ \E l \in issued : OwnerStep(l) \/ NoticeStep(l)
  \/ \E id \in MessageIds, w \in BOOLEAN : FailureTakeover(id, w)
  \/ Purge
  \/ ExpireJob
  \/ ExpireLease
  \/ ExpireNoticeLease

Spec == Init /\ [][Next]_storeVars

-----------------------------------------------------------------------------
(* Properties.                                                             *)

\* The store's fields have their types; in particular no job is ever handed
\* out more than MAX_PROCESS_ATTEMPTS times (the bound `acquire` enforces).
TypeOK ==
  /\ job \in Job
  /\ lease \in Leases \cup {None}
  /\ noticeLease \in Leases \cup {None}
  /\ receipts \subseteq Results
  /\ issued \subseteq Leases

\* The lease on record is always the newest one: it carries the job's own
\* fence and the job is in a state a worker works on.  It is what lets a
\* lease stand for ownership, and what every operation that changes the
\* state (finish, failure_takeover, purge) must leave true by dropping it.
LeaseIsCurrent ==
  lease # None =>
    /\ lease \in issued
    /\ lease.fence = job.fence
    /\ job.state \in WorkingStates

\* The fence is the number of attempts, plus one once the job has ended:
\* `acquire`, `finish` and `failure_takeover` are the only places that move
\* it, each exactly once, so two owners never share a fence.
FenceCountsAttempts ==
  job.fence = job.attempts + (IF job.state \in TerminalStates THEN 1 ELSE 0)

\* A step that was done keeps the intent it was done under, so that a retry
\* finds "checkpointed" and never prepares the step again: `clear_intent`
\* may only undo a step that has no checkpoint.
CheckpointHasIntent ==
  \A n \in Names : job.checkpoint[n] # None => job.intent[n] # None

\* An intent is always one of a lease this job really handed out.
IntentIsOfSomeAttempt ==
  \A n \in Names : job.intent[n] # None => job.intent[n].fence \in 1..job.attempts

\* The message a failure notice edits is the one the placeholder step was
\* checkpointed with, whichever attempt it was.
PlaceholderIsCheckpointed == job.placeholder = job.checkpoint[Placeholder]

\* A job is ready to deliver, or delivered, only with a saved answer.
DeliveryHasAnswer ==
  job.state \in {"ready_to_deliver", "delivered"} => job.answer # None

\* A notice is owed only by a job that failed and that has a message to put
\* it in, and is held by at most one lease, of the fence the job ended with.
NoticeIsOwedByFailure ==
  /\ job.notice # "none" => job.state = "failed" /\ job.placeholder # None
  /\ noticeLease # None =>
       /\ noticeLease \in issued
       /\ noticeLease.fence = job.fence
       /\ job.notice = "pending"

\* Fencing: a worker that lost the job never gets it back.  Whatever the
\* order of expiries, takeovers, purges and re-creations, a lease that does
\* not own the job now owns it in no later state either.
OwnershipNeverReturns ==
  [][\A l \in issued : ~Owns(l) => ~Owns(l)']_storeVars

\* The same for the lease of the failure notice.
NoticeOwnershipNeverReturns ==
  [][\A l \in issued : ~OwnsNotice(l) => ~OwnsNotice(l)']_storeVars

\* A job that ended stays as it ended until it is erased: no late worker,
\* callback or publication moves it or its fence again.
TerminalIsFinal ==
  [][job.state \in TerminalStates /\ Exists' =>
       /\ job'.state = job.state
       /\ job'.fence = job.fence]_storeVars

\* While the job exists nothing it recorded is forgotten or replaced: the
\* answer, each checkpoint and the publication keep their first value over
\* every retry, and the fence never goes back.
RecordsAreKept ==
  [][Exists /\ Exists' =>
       /\ job'.fence >= job.fence
       /\ job.answer # None => job'.answer = job.answer
       /\ job.message # None => job'.message = job.message
       /\ \A n \in Names :
            job.checkpoint[n] # None => job'.checkpoint[n] = job.checkpoint[n]
    ]_storeVars

=============================================================================
