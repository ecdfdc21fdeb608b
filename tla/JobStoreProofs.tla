--------------------------- MODULE JobStoreProofs ---------------------------
(***************************************************************************)
(* What holds of the job store for every number of tokens, messages,       *)
(* intents, results and attempts.  The heart is IInv, the conjunction of   *)
(* the invariants TLC checks with one more that only the induction needs;  *)
(* each operation has a lemma that it keeps IInv, and everything else      *)
(* follows from IInv at one step.                                          *)
(***************************************************************************)
EXTENDS JobStoreRefinement, TLAPS

\* A job in a worker's hands has been acquired at least once: without it an
\* intent could carry the fence 0 that no lease ever had.
WorkedOnWasAttempted == job.state \in WorkingStates => job.attempts > 0

IInv ==
  /\ TypeOK
  /\ LeaseIsCurrent
  /\ FenceCountsAttempts
  /\ CheckpointHasIntent
  /\ IntentIsOfSomeAttempt
  /\ PlaceholderIsCheckpointed
  /\ DeliveryHasAnswer
  /\ NoticeIsOwedByFailure
  /\ WorkedOnWasAttempted

-----------------------------------------------------------------------------
(* An absent or newly received job.                                        *)

\* The record a job is created with, and the one that stands for no job,
\* satisfy every part of the invariant that speaks of the job alone.
LEMMA EmptyJobIsFine ==
  ASSUME NEW state \in {"absent", "received"}
  PROVE  LET e == EmptyJob(state) IN
         /\ e \in Job
         /\ e.state = state
         /\ e.fence = 0 /\ e.attempts = 0
         /\ e.placeholder = None /\ e.answer = None /\ e.notice = "none"
         /\ e.intent = [n \in Names |-> None]
         /\ e.checkpoint = [n \in Names |-> None]
BY JobStoreAssumption
DEF EmptyJob, Job, ProcessableStates, NoticeStates

\* Replacing the job by an empty one, with both leases gone, keeps IInv.
LEMMA FreshJobKeeps ==
  ASSUME IInv, NEW state \in {"absent", "received"},
         job' = EmptyJob(state), lease' = None, noticeLease' = None,
         receipts' \subseteq Results, issued' = issued
  PROVE  IInv'
<1>1. TypeOK'
  BY EmptyJobIsFine DEF IInv, TypeOK
<1>2. /\ job'.state = state
      /\ job'.fence = 0 /\ job'.attempts = 0
      /\ job'.placeholder = None /\ job'.notice = "none"
      /\ job'.intent = [n \in Names |-> None]
      /\ job'.checkpoint = [n \in Names |-> None]
  BY EmptyJobIsFine
<1>3. LeaseIsCurrent' /\ NoticeIsOwedByFailure'
  BY <1>2 DEF LeaseIsCurrent, NoticeIsOwedByFailure
<1>4. FenceCountsAttempts' /\ DeliveryHasAnswer' /\ WorkedOnWasAttempted'
  BY <1>2 DEF FenceCountsAttempts, DeliveryHasAnswer, WorkedOnWasAttempted,
              TerminalStates, WorkingStates
<1>5. CheckpointHasIntent' /\ IntentIsOfSomeAttempt' /\ PlaceholderIsCheckpointed'
  BY <1>2, JobStoreAssumption
  DEF CheckpointHasIntent, IntentIsOfSomeAttempt, PlaceholderIsCheckpointed
<1> QED BY <1>1, <1>3, <1>4, <1>5 DEF IInv

LEMMA CreateKeeps ==
  ASSUME IInv, Create
  PROVE  IInv'
<1>1. lease = None /\ noticeLease = None
  BY DEF Create, Exists, IInv, LeaseIsCurrent, NoticeIsOwedByFailure, WorkingStates
<1> QED BY <1>1, FreshJobKeeps DEF Create, IInv, TypeOK

\* Purge, and the expiry of the job.
LEMMA ForgetKeeps ==
  ASSUME IInv, Purge \/ ExpireJob
  PROVE  IInv'
<1>1. CASE Purge
  <2>1. \A n \in Names : job.checkpoint[n] \in Results \cup {None}
    BY DEF IInv, TypeOK, Job
  <2>2. receipts' \subseteq Results
    BY <1>1, <2>1 DEF Purge, IInv, TypeOK
  <2> QED BY <1>1, <2>2, FreshJobKeeps DEF Purge
<1>2. CASE ExpireJob
  BY <1>2, FreshJobKeeps DEF ExpireJob, IInv, TypeOK
<1> QED BY <1>1, <1>2

-----------------------------------------------------------------------------
(* The operations that move a lease and nothing else.                      *)

\* Dropping either lease never hurts: every conjunct speaks of a lease only
\* under the assumption that there is one.
LEMMA LeaseDropKeeps ==
  ASSUME IInv, job' = job, receipts' = receipts, issued' = issued,
         lease' \in {lease, None}, noticeLease' \in {noticeLease, None}
  PROVE  IInv'
<1>1. TypeOK'
  BY DEF IInv, TypeOK
<1>2. LeaseIsCurrent' /\ NoticeIsOwedByFailure'
  BY DEF IInv, LeaseIsCurrent, NoticeIsOwedByFailure
<1>3. /\ FenceCountsAttempts' /\ DeliveryHasAnswer' /\ WorkedOnWasAttempted'
      /\ CheckpointHasIntent' /\ IntentIsOfSomeAttempt' /\ PlaceholderIsCheckpointed'
  BY DEF IInv, FenceCountsAttempts, DeliveryHasAnswer, WorkedOnWasAttempted,
         CheckpointHasIntent, IntentIsOfSomeAttempt, PlaceholderIsCheckpointed
<1> QED BY <1>1, <1>2, <1>3 DEF IInv

LEMMA LeaseOnlyKeeps ==
  ASSUME IInv, NEW l \in issued,
         Renew(l) \/ Release(l) \/ ReleaseNotice(l)
  PROVE  IInv'
BY LeaseDropKeeps DEF Renew, Owns, Release, ReleaseNotice

LEMMA ExpiryKeeps ==
  ASSUME IInv, ExpireLease \/ ExpireNoticeLease
  PROVE  IInv'
BY LeaseDropKeeps DEF ExpireLease, ExpireNoticeLease

-----------------------------------------------------------------------------
(* Publication and the worker's operations.                                *)

LEMMA RecordPublicationKeeps ==
  ASSUME IInv, NEW id \in MessageIds, RecordPublication(id)
  PROVE  IInv'
<1>1. /\ job' \in Job
      /\ job' = [job EXCEPT !.message = id, !.state = job'.state]
      /\ job'.state = IF job.state = "received" THEN "enqueued" ELSE job.state
      /\ UNCHANGED <<lease, noticeLease, receipts, issued>>
  BY DEF RecordPublication, IInv, TypeOK, Job, ProcessableStates
<1>2. /\ job'.fence = job.fence
      /\ job'.attempts = job.attempts
      /\ job'.placeholder = job.placeholder
      /\ job'.answer = job.answer
      /\ job'.notice = job.notice
      /\ job'.intent = job.intent
      /\ job'.checkpoint = job.checkpoint
  BY <1>1 DEF IInv, TypeOK, Job
<1>3. TypeOK'
  BY <1>1 DEF IInv, TypeOK
<1>4. /\ LeaseIsCurrent' /\ WorkedOnWasAttempted' /\ DeliveryHasAnswer'
  BY <1>1, <1>2
  DEF IInv, LeaseIsCurrent, WorkedOnWasAttempted, DeliveryHasAnswer, WorkingStates
<1>5. /\ FenceCountsAttempts' /\ NoticeIsOwedByFailure'
  BY <1>1, <1>2 DEF IInv, FenceCountsAttempts, NoticeIsOwedByFailure, TerminalStates
<1>6. CheckpointHasIntent' /\ IntentIsOfSomeAttempt' /\ PlaceholderIsCheckpointed'
  BY <1>1, <1>2
  DEF IInv, CheckpointHasIntent, IntentIsOfSomeAttempt, PlaceholderIsCheckpointed
<1> QED BY <1>3, <1>4, <1>5, <1>6 DEF IInv

LEMMA AcquireKeeps ==
  ASSUME IInv, NEW t \in Tokens, Acquire(t)
  PROVE  IInv'
<1>1. /\ job.state \in ProcessableStates
      /\ job.fence = job.attempts
      /\ job.attempts < MaxAttempts
      /\ job.attempts \in 0..MaxAttempts
  BY DEF Acquire, Acquirable, IInv, TypeOK, Job, FenceCountsAttempts,
      ProcessableStates, TerminalStates
<1>2. /\ job'.state = IF job.state \in WorkingStates THEN job.state ELSE "processing"
      /\ job'.fence = job.fence + 1
      /\ job'.attempts = job.attempts + 1
      /\ job'.message = job.message
      /\ job'.placeholder = job.placeholder
      /\ job'.answer = job.answer
      /\ job'.notice = job.notice
      /\ job'.intent = job.intent
      /\ job'.checkpoint = job.checkpoint
      /\ job' = [job EXCEPT !.state = job'.state, !.fence = job'.fence,
                            !.attempts = job'.attempts]
  BY DEF Acquire, IInv, TypeOK, Job
<1>3. job'.state \in WorkingStates
  BY <1>1, <1>2 DEF WorkingStates
<1>4. job' \in Job
  BY <1>1, <1>2, <1>3, JobStoreAssumption
  DEF IInv, TypeOK, Job, WorkingStates, ProcessableStates
<1>5. /\ lease' = [token |-> t, fence |-> job.fence + 1]
      /\ lease' \in Leases
      /\ issued' = issued \cup {lease'}
      /\ UNCHANGED <<noticeLease, receipts>>
  BY <1>1, JobStoreAssumption DEF Acquire, Leases
<1>6. TypeOK'
  BY <1>4, <1>5 DEF IInv, TypeOK
<1>7. LeaseIsCurrent' /\ WorkedOnWasAttempted'
  BY <1>1, <1>2, <1>3, <1>5 DEF LeaseIsCurrent, WorkedOnWasAttempted
<1>8. /\ FenceCountsAttempts'
  BY <1>1, <1>2, <1>3 DEF FenceCountsAttempts, TerminalStates, WorkingStates
<1>9. DeliveryHasAnswer' /\ NoticeIsOwedByFailure'
  BY <1>1, <1>2, <1>3, <1>5
  DEF IInv, DeliveryHasAnswer, NoticeIsOwedByFailure, WorkingStates, ProcessableStates
<1>10. CheckpointHasIntent' /\ PlaceholderIsCheckpointed'
  BY <1>2 DEF IInv, CheckpointHasIntent, PlaceholderIsCheckpointed
<1>11. IntentIsOfSomeAttempt'
  BY <1>1, <1>2 DEF IInv, IntentIsOfSomeAttempt
<1> QED BY <1>6, <1>7, <1>8, <1>9, <1>10, <1>11 DEF IInv

\* An operation that changes only the intents keeps IInv when the intents
\* stay of some attempt and no checkpoint loses its own.
LEMMA IntentChangeKeeps ==
  ASSUME IInv, job' = [job EXCEPT !.intent = job'.intent],
         UNCHANGED <<lease, noticeLease, receipts, issued>>,
         job'.intent \in [Names -> Intents \cup {None}],
         \A m \in Names : job'.intent[m] # None =>
            job'.intent[m].fence \in 1..job.attempts,
         \A m \in Names : job.checkpoint[m] # None => job'.intent[m] # None
  PROVE  IInv'
<1>1. /\ job'.state = job.state
      /\ job'.fence = job.fence
      /\ job'.attempts = job.attempts
      /\ job'.placeholder = job.placeholder
      /\ job'.answer = job.answer
      /\ job'.notice = job.notice
      /\ job'.checkpoint = job.checkpoint
      /\ job' \in Job
  BY DEF IInv, TypeOK, Job
<1>2. TypeOK'
  BY <1>1 DEF IInv, TypeOK
<1>3. /\ LeaseIsCurrent' /\ FenceCountsAttempts' /\ PlaceholderIsCheckpointed'
      /\ DeliveryHasAnswer' /\ NoticeIsOwedByFailure' /\ WorkedOnWasAttempted'
  BY <1>1 DEF IInv, LeaseIsCurrent, FenceCountsAttempts, PlaceholderIsCheckpointed,
              DeliveryHasAnswer, NoticeIsOwedByFailure, WorkedOnWasAttempted
<1>4. CheckpointHasIntent' /\ IntentIsOfSomeAttempt'
  BY <1>1 DEF CheckpointHasIntent, IntentIsOfSomeAttempt
<1> QED BY <1>2, <1>3, <1>4 DEF IInv

LEMMA PrepareIntentKeeps ==
  ASSUME IInv, NEW l \in issued, NEW n \in Names, NEW p \in Payloads,
         PrepareIntent(l, n, p)
  PROVE  IInv'
<1>1. Owns(l)
  BY DEF PrepareIntent, IntentStatus
<1>2. /\ l.fence = job.attempts
      /\ job.attempts \in 1..MaxAttempts
      /\ [payload |-> p, fence |-> l.fence] \in Intents
  <2>1. job.state \in WorkingStates /\ l.fence = job.fence
    BY <1>1, JobStoreAssumption DEF Owns, IInv, TypeOK, LeaseIsCurrent
  <2> QED BY <2>1, JobStoreAssumption
    DEF IInv, TypeOK, Job, FenceCountsAttempts, WorkedOnWasAttempted, Intents,
        WorkingStates, TerminalStates
<1>3. /\ job'.intent = [job.intent EXCEPT ![n] =
           IF @ = None THEN [payload |-> p, fence |-> l.fence] ELSE @]
      /\ job' = [job EXCEPT !.intent = job'.intent]
      /\ UNCHANGED <<lease, noticeLease, receipts, issued>>
  BY DEF PrepareIntent, IInv, TypeOK, Job
<1>4. /\ job'.intent \in [Names -> Intents \cup {None}]
      /\ \A m \in Names : job'.intent[m] # None =>
           job'.intent[m].fence \in 1..job.attempts
      /\ \A m \in Names : job.checkpoint[m] # None => job'.intent[m] # None
  BY <1>2, <1>3, JobStoreAssumption
  DEF IInv, TypeOK, Job, IntentIsOfSomeAttempt, CheckpointHasIntent
<1> QED BY <1>3, <1>4, IntentChangeKeeps

LEMMA ClearIntentKeeps ==
  ASSUME IInv, NEW l \in issued, NEW n \in Names, ClearIntent(l, n)
  PROVE  IInv'
<1>1. /\ job'.intent = [job.intent EXCEPT ![n] = None]
      /\ job' = [job EXCEPT !.intent = job'.intent]
      /\ job.checkpoint[n] = None
      /\ UNCHANGED <<lease, noticeLease, receipts, issued>>
  BY DEF ClearIntent, IInv, TypeOK, Job
<1>2. /\ job'.intent \in [Names -> Intents \cup {None}]
      /\ \A m \in Names : job'.intent[m] # None =>
           job'.intent[m].fence \in 1..job.attempts
      /\ \A m \in Names : job.checkpoint[m] # None => job'.intent[m] # None
  BY <1>1 DEF IInv, TypeOK, Job, IntentIsOfSomeAttempt, CheckpointHasIntent
<1> QED BY <1>1, <1>2, IntentChangeKeeps

LEMMA CheckpointKeeps ==
  ASSUME IInv, NEW l \in issued, NEW n \in Names, NEW r \in Results, Checkpoint(l, n, r)
  PROVE  IInv'
<1>1. /\ job'.state = job.state
      /\ job'.fence = job.fence
      /\ job'.attempts = job.attempts
      /\ job'.message = job.message
      /\ job'.placeholder = IF n = Placeholder THEN r ELSE job.placeholder
      /\ job'.answer = job.answer
      /\ job'.notice = job.notice
      /\ job'.intent = job.intent
      /\ job'.checkpoint = [job.checkpoint EXCEPT ![n] = r]
      /\ UNCHANGED <<lease, noticeLease, receipts, issued>>
      /\ Live
  BY DEF Checkpoint, IInv, TypeOK, Job, Owns
<1>2. job' \in Job
  <2>1. [job.checkpoint EXCEPT ![n] = r] \in [Names -> Results \cup {None}]
    BY DEF IInv, TypeOK, Job
  <2> QED BY <2>1, <1>1 DEF Checkpoint, IInv, TypeOK, Job
<1>3. TypeOK'
  BY <1>1, <1>2 DEF IInv, TypeOK
<1>4. LeaseIsCurrent' /\ WorkedOnWasAttempted' /\ DeliveryHasAnswer' /\ FenceCountsAttempts'
  BY <1>1
  DEF IInv, LeaseIsCurrent, WorkedOnWasAttempted, DeliveryHasAnswer, FenceCountsAttempts
<1>5. CheckpointHasIntent' /\ IntentIsOfSomeAttempt'
  BY <1>1 DEF Checkpoint, IInv, TypeOK, Job, CheckpointHasIntent, IntentIsOfSomeAttempt
<1>6. PlaceholderIsCheckpointed'
  BY <1>1, JobStoreAssumption DEF IInv, TypeOK, Job, PlaceholderIsCheckpointed
<1>7. NoticeIsOwedByFailure'
  BY <1>1 DEF IInv, NoticeIsOwedByFailure, Live, TerminalStates
<1> QED BY <1>3, <1>4, <1>5, <1>6, <1>7 DEF IInv

LEMMA SaveAnswerKeeps ==
  ASSUME IInv, NEW l \in issued, NEW a \in Answers, SaveAnswer(l, a)
  PROVE  IInv'
<1>1. /\ job'.state = "ready_to_deliver"
      /\ job'.fence = job.fence
      /\ job'.attempts = job.attempts
      /\ job'.message = job.message
      /\ job'.placeholder = job.placeholder
      /\ job'.answer = IF job.answer = None THEN a ELSE job.answer
      /\ job'.notice = job.notice
      /\ job'.intent = job.intent
      /\ job'.checkpoint = job.checkpoint
      /\ UNCHANGED <<lease, noticeLease, receipts, issued>>
      /\ job.state \in WorkingStates
      /\ "ready_to_deliver" \in WorkingStates
  BY DEF SaveAnswer, IInv, TypeOK, Job, WorkingStates
<1>2. job' \in Job
  BY <1>1 DEF SaveAnswer, IInv, TypeOK, Job, ProcessableStates
<1>3. TypeOK'
  BY <1>1, <1>2 DEF IInv, TypeOK
<1>4. LeaseIsCurrent' /\ WorkedOnWasAttempted' 
  BY <1>1 DEF IInv, LeaseIsCurrent, WorkedOnWasAttempted
<1>5. DeliveryHasAnswer'
  BY <1>1, JobStoreAssumption DEF DeliveryHasAnswer
<1>6. FenceCountsAttempts'
  BY <1>1 DEF IInv, FenceCountsAttempts, WorkingStates, TerminalStates
<1>7. CheckpointHasIntent' /\ IntentIsOfSomeAttempt' /\ PlaceholderIsCheckpointed'
  BY <1>1
  DEF IInv, CheckpointHasIntent, IntentIsOfSomeAttempt, PlaceholderIsCheckpointed
<1>8. NoticeIsOwedByFailure'
  BY <1>1 DEF IInv, NoticeIsOwedByFailure, WorkingStates
<1> QED BY <1>3, <1>4, <1>5, <1>6, <1>7, <1>8 DEF IInv

LEMMA FinishKeeps ==
  ASSUME IInv, NEW l \in issued,
         NEW target \in TerminalStates \cup {"failed_retryable"},
         NEW w \in BOOLEAN, Finish(l, target, w)
  PROVE  IInv'
<1>1. /\ job'.state = target
      /\ job'.fence = IF target \in TerminalStates THEN job.fence + 1 ELSE job.fence
      /\ job'.attempts = job.attempts
      /\ job'.message = job.message
      /\ job'.placeholder = job.placeholder
      /\ job'.answer = job.answer
      /\ job'.notice = IF target = "failed" THEN NoticeOwed(w) ELSE job.notice
      /\ job'.intent = job.intent
      /\ job'.checkpoint = job.checkpoint
      /\ lease' = None
      /\ job' = [job EXCEPT !.state = job'.state, !.fence = job'.fence,
                             !.notice = job'.notice]
      /\ UNCHANGED <<noticeLease, receipts, issued>>
  BY DEF Finish, IInv, TypeOK, Job
<1>2. /\ job.fence = job.attempts
      /\ job.attempts \in 0..MaxAttempts
      /\ job.state \notin TerminalStates
      /\ target = "delivered" => job.state = "ready_to_deliver"
  BY DEF Finish, Owns, Live, IInv, TypeOK, Job, FenceCountsAttempts, FinishTargets
<1>3. job.notice = "none" /\ noticeLease = None
  BY <1>2 DEF IInv, NoticeIsOwedByFailure, TerminalStates
<1>4. job'.notice \in NoticeStates
  BY <1>1, <1>3 DEF NoticeOwed, NoticeStates
<1>5. TypeOK'
  <2>1. job'.state \in TerminalStates \cup ProcessableStates
    BY <1>1 DEF ProcessableStates
  <2>2. job'.fence \in 0..(MaxAttempts + 1)
    BY <1>1, <1>2, JobStoreAssumption
  <2>3. job' \in Job
    BY <1>1, <1>4, <2>1, <2>2 DEF IInv, TypeOK, Job
  <2> QED BY <1>1, <2>3 DEF IInv, TypeOK
<1>6. LeaseIsCurrent' /\ WorkedOnWasAttempted' 
  BY <1>1 DEF IInv, LeaseIsCurrent, WorkedOnWasAttempted, TerminalStates, WorkingStates
<1>7. DeliveryHasAnswer'
  BY <1>1, <1>2 DEF IInv, DeliveryHasAnswer, TerminalStates
<1>8. FenceCountsAttempts'
  BY <1>1, <1>2 DEF FenceCountsAttempts
<1>9. CheckpointHasIntent' /\ IntentIsOfSomeAttempt' /\ PlaceholderIsCheckpointed'
  BY <1>1
  DEF IInv, CheckpointHasIntent, IntentIsOfSomeAttempt, PlaceholderIsCheckpointed
<1>10. NoticeIsOwedByFailure'
  BY <1>1, <1>3 DEF NoticeIsOwedByFailure, NoticeOwed
<1> QED BY <1>5, <1>6, <1>7, <1>8, <1>9, <1>10 DEF IInv

LEMMA FailureTakeoverKeeps ==
  ASSUME IInv, NEW id \in MessageIds, NEW w \in BOOLEAN, FailureTakeover(id, w)
  PROVE  IInv'
<1>1. /\ job'.state = "failed"
      /\ job'.fence = job.fence + 1
      /\ job'.attempts = job.attempts
      /\ job'.message = job.message
      /\ job'.placeholder = job.placeholder
      /\ job'.answer = job.answer
      /\ job'.notice = NoticeOwed(w)
      /\ job'.intent = job.intent
      /\ job'.checkpoint = job.checkpoint
      /\ lease = None
      /\ job' = [job EXCEPT !.state = job'.state, !.fence = job'.fence,
                             !.notice = job'.notice]
      /\ UNCHANGED <<lease, noticeLease, receipts, issued>>
      /\ "failed" \in TerminalStates
  BY DEF FailureTakeover, IInv, TypeOK, Job, TerminalStates
<1>2. /\ job.fence = job.attempts
      /\ job.attempts \in 0..MaxAttempts
      /\ job.state # "failed"
  BY DEF FailureTakeover, Live, IInv, TypeOK, Job, FenceCountsAttempts, TerminalStates
<1>3. noticeLease = None
  BY <1>2 DEF IInv, NoticeIsOwedByFailure
<1>4. TypeOK'
  <2>1. job'.notice \in NoticeStates
    BY <1>1 DEF NoticeOwed, NoticeStates
  <2>2. job'.fence \in 0..(MaxAttempts + 1)
    BY <1>1, <1>2, JobStoreAssumption
  <2>3. job' \in Job
    BY <1>1, <2>1, <2>2 DEF IInv, TypeOK, Job
  <2> QED BY <1>1, <2>3 DEF IInv, TypeOK
<1>5. LeaseIsCurrent' /\ WorkedOnWasAttempted' /\ DeliveryHasAnswer'
  BY <1>1 DEF LeaseIsCurrent, WorkedOnWasAttempted, WorkingStates, DeliveryHasAnswer
<1>6. FenceCountsAttempts'
  BY <1>1, <1>2 DEF FenceCountsAttempts
<1>7. CheckpointHasIntent' /\ IntentIsOfSomeAttempt' /\ PlaceholderIsCheckpointed'
  BY <1>1
  DEF IInv, CheckpointHasIntent, IntentIsOfSomeAttempt, PlaceholderIsCheckpointed
<1>8. NoticeIsOwedByFailure'
  BY <1>1, <1>3 DEF NoticeIsOwedByFailure, NoticeOwed
<1> QED BY <1>4, <1>5, <1>6, <1>7, <1>8 DEF IInv

-----------------------------------------------------------------------------
(* The failure notice.                                                     *)

LEMMA ClaimNoticeKeeps ==
  ASSUME IInv, NEW t \in Tokens, ClaimNotice(t)
  PROVE  IInv'
<1>1. /\ noticeLease' = [token |-> t, fence |-> job.fence]
      /\ noticeLease' \in Leases
      /\ issued' = issued \cup {noticeLease'}
      /\ UNCHANGED <<job, lease, receipts>>
  BY DEF ClaimNotice, IInv, TypeOK, Job, Leases
<1>2. TypeOK'
  BY <1>1 DEF IInv, TypeOK
<1>3. LeaseIsCurrent' /\ NoticeIsOwedByFailure'
  BY <1>1 DEF ClaimNotice, IInv, LeaseIsCurrent, NoticeIsOwedByFailure
<1>4. /\ FenceCountsAttempts' /\ DeliveryHasAnswer' /\ WorkedOnWasAttempted'
      /\ CheckpointHasIntent' /\ IntentIsOfSomeAttempt' /\ PlaceholderIsCheckpointed'
  BY <1>1 DEF IInv, FenceCountsAttempts, DeliveryHasAnswer, WorkedOnWasAttempted,
              CheckpointHasIntent, IntentIsOfSomeAttempt, PlaceholderIsCheckpointed
<1> QED BY <1>2, <1>3, <1>4 DEF IInv

LEMMA SettleNoticeKeeps ==
  ASSUME IInv, NEW l \in issued, CompleteNotice(l) \/ FailNotice(l)
  PROVE  IInv'
<1>1. /\ job' = [job EXCEPT !.notice = job'.notice]
      /\ job'.notice \in NoticeStates
      /\ noticeLease' = None
      /\ job.state = "failed" /\ job.notice = "pending"
      /\ UNCHANGED <<lease, receipts, issued>>
  BY DEF CompleteNotice, FailNotice, OwnsNotice, IInv, TypeOK, Job, NoticeStates
<1>2. /\ job'.state = job.state
      /\ job'.fence = job.fence
      /\ job'.attempts = job.attempts
      /\ job'.placeholder = job.placeholder
      /\ job'.answer = job.answer
      /\ job'.intent = job.intent
      /\ job'.checkpoint = job.checkpoint
      /\ job' \in Job
  BY <1>1 DEF IInv, TypeOK, Job
<1>3. TypeOK'
  BY <1>1, <1>2 DEF IInv, TypeOK
<1>4. NoticeIsOwedByFailure'
  BY <1>1, <1>2 DEF IInv, NoticeIsOwedByFailure
<1>5. /\ LeaseIsCurrent' /\ FenceCountsAttempts' /\ DeliveryHasAnswer'
      /\ WorkedOnWasAttempted' /\ CheckpointHasIntent' /\ IntentIsOfSomeAttempt'
      /\ PlaceholderIsCheckpointed'
  BY <1>1, <1>2 DEF IInv, LeaseIsCurrent, FenceCountsAttempts, DeliveryHasAnswer,
         WorkedOnWasAttempted, CheckpointHasIntent, IntentIsOfSomeAttempt,
         PlaceholderIsCheckpointed
<1> QED BY <1>3, <1>4, <1>5 DEF IInv

-----------------------------------------------------------------------------
(* The invariant.                                                          *)

LEMMA InitHasIInv == Init => IInv
<1> SUFFICES ASSUME Init PROVE IInv
  OBVIOUS
<1>1. TypeOK
  BY EmptyJobIsFine DEF Init, TypeOK
<1>2. /\ job.state = "absent" /\ job.fence = 0 /\ job.attempts = 0
      /\ job.placeholder = None /\ job.notice = "none"
      /\ job.intent = [n \in Names |-> None]
      /\ job.checkpoint = [n \in Names |-> None]
  BY EmptyJobIsFine DEF Init
<1>3. /\ LeaseIsCurrent /\ NoticeIsOwedByFailure /\ FenceCountsAttempts
      /\ DeliveryHasAnswer /\ WorkedOnWasAttempted
  BY <1>2 DEF Init, LeaseIsCurrent, NoticeIsOwedByFailure, FenceCountsAttempts,
              DeliveryHasAnswer, WorkedOnWasAttempted, TerminalStates, WorkingStates
<1>4. CheckpointHasIntent /\ IntentIsOfSomeAttempt /\ PlaceholderIsCheckpointed
  BY <1>2, JobStoreAssumption
  DEF CheckpointHasIntent, IntentIsOfSomeAttempt, PlaceholderIsCheckpointed
<1> QED BY <1>1, <1>3, <1>4 DEF IInv

\* A lease holder's step, whatever lease it holds.
LEMMA OwnerStepKeeps ==
  ASSUME IInv, NEW l \in issued, OwnerStep(l) \/ NoticeStep(l)
  PROVE  IInv'
<1>1. CASE Renew(l) \/ Release(l) \/ ReleaseNotice(l)
  BY <1>1, LeaseOnlyKeeps
<1>2. CASE \E n \in Names, p \in Payloads : PrepareIntent(l, n, p)
  BY <1>2, PrepareIntentKeeps
<1>3. CASE \E n \in Names, r \in Results : Checkpoint(l, n, r)
  BY <1>3, CheckpointKeeps
<1>4. CASE \E n \in Names : ClearIntent(l, n)
  BY <1>4, ClearIntentKeeps
<1>5. CASE \E a \in Answers : SaveAnswer(l, a)
  BY <1>5, SaveAnswerKeeps
<1>6. CASE \E target \in TerminalStates \cup {"failed_retryable"}, w \in BOOLEAN :
             Finish(l, target, w)
  BY <1>6, FinishKeeps
<1>7. CASE CompleteNotice(l) \/ FailNotice(l)
  BY <1>7, SettleNoticeKeeps
<1> QED BY <1>1, <1>2, <1>3, <1>4, <1>5, <1>6, <1>7 DEF OwnerStep, NoticeStep

LEMMA NextKeeps == IInv /\ [Next]_storeVars => IInv'
<1> SUFFICES ASSUME IInv, [Next]_storeVars PROVE IInv'
  OBVIOUS
<1>1. CASE Create
  BY <1>1, CreateKeeps
<1>2. CASE \E id \in MessageIds : RecordPublication(id)
  BY <1>2, RecordPublicationKeeps
<1>3. CASE \E t \in Tokens : Acquire(t) \/ ClaimNotice(t)
  BY <1>3, AcquireKeeps, ClaimNoticeKeeps
<1>4. CASE \E l \in issued : OwnerStep(l) \/ NoticeStep(l)
  BY <1>4, OwnerStepKeeps
<1>5. CASE \E id \in MessageIds, w \in BOOLEAN : FailureTakeover(id, w)
  BY <1>5, FailureTakeoverKeeps
<1>6. CASE Purge \/ ExpireJob
  BY <1>6, ForgetKeeps
<1>7. CASE ExpireLease \/ ExpireNoticeLease
  BY <1>7, ExpiryKeeps
<1>8. CASE UNCHANGED storeVars
  BY <1>8, LeaseDropKeeps DEF storeVars
<1> QED BY <1>1, <1>2, <1>3, <1>4, <1>5, <1>6, <1>7, <1>8 DEF Next

LEMMA IInvAlways == Spec => []IInv
BY InitHasIInv, NextKeeps, PTL DEF Spec

\* No operation ever stores a value outside its field's range: attempts
\* never pass the limit, whoever calls what and in whatever order.
THEOREM TypeCorrect == Spec => []TypeOK
BY IInvAlways, PTL DEF IInv

\* The lease on record is always the newest one, of the job's own fence.
THEOREM LeaseAlwaysCurrent == Spec => []LeaseIsCurrent
BY IInvAlways, PTL DEF IInv

\* Every fence is one attempt's, or the end's.
THEOREM FencesAreAttempts == Spec => []FenceCountsAttempts
BY IInvAlways, PTL DEF IInv

\* Every checkpoint still has its intent, so a step that was done is never
\* prepared again.
THEOREM CheckpointsKeepIntents == Spec => []CheckpointHasIntent
BY IInvAlways, PTL DEF IInv

\* Every open intent was prepared in an attempt the job really had, which is
\* what makes comparing fences a test for "prepared by somebody before me".
THEOREM IntentsAreOfAttempts == Spec => []IntentIsOfSomeAttempt
BY IInvAlways, PTL DEF IInv

\* The message the failure notice edits is the checkpointed placeholder.
THEOREM NoticeHasItsMessage == Spec => []PlaceholderIsCheckpointed
BY IInvAlways, PTL DEF IInv

\* A job is delivered only with its answer saved.
THEOREM DeliveredWithAnswer == Spec => []DeliveryHasAnswer
BY IInvAlways, PTL DEF IInv

\* Only a failed job owes a notice, and it has a message to put it in.
THEOREM NoticesOwedByFailures == Spec => []NoticeIsOwedByFailure
BY IInvAlways, PTL DEF IInv

-----------------------------------------------------------------------------
(* What one step may not do.                                               *)

\* A step keeps the lease, drops it, or draws a token never drawn before.
LEMMA LeaseStep ==
  ASSUME [Next]_storeVars
  PROVE  \/ lease' \in {lease, None}
         \/ \E t \in Tokens : FreshToken(t) /\ lease'.token = t
<1>1. CASE \E t \in Tokens : Acquire(t) \/ ClaimNotice(t)
  BY <1>1 DEF Acquire, ClaimNotice
<1>2. CASE \E l \in issued : OwnerStep(l) \/ NoticeStep(l)
  BY <1>2 DEF OwnerStep, NoticeStep, Renew, Owns, PrepareIntent, Checkpoint,
              ClearIntent, SaveAnswer, Finish, Release, CompleteNotice, FailNotice,
              ReleaseNotice
<1>3. CASE \/ Create \/ Purge \/ ExpireJob \/ ExpireLease \/ ExpireNoticeLease
           \/ UNCHANGED storeVars
  BY <1>3 DEF Create, Purge, ExpireJob, ExpireLease, ExpireNoticeLease, storeVars
<1>4. CASE \/ \E id \in MessageIds : RecordPublication(id)
           \/ \E id \in MessageIds, w \in BOOLEAN : FailureTakeover(id, w)
  BY <1>4 DEF RecordPublication, FailureTakeover
<1> QED BY <1>1, <1>2, <1>3, <1>4 DEF Next

LEMMA NoticeLeaseStep ==
  ASSUME [Next]_storeVars
  PROVE  \/ noticeLease' \in {noticeLease, None}
         \/ \E t \in Tokens : FreshToken(t) /\ noticeLease'.token = t
<1>1. CASE \E t \in Tokens : Acquire(t) \/ ClaimNotice(t)
  BY <1>1 DEF Acquire, ClaimNotice
<1>2. CASE \E l \in issued : OwnerStep(l) \/ NoticeStep(l)
  BY <1>2 DEF OwnerStep, NoticeStep, Renew, Owns, PrepareIntent, Checkpoint,
              ClearIntent, SaveAnswer, Finish, Release, CompleteNotice, FailNotice,
              ReleaseNotice
<1>3. CASE \/ Create \/ Purge \/ ExpireJob \/ ExpireLease \/ ExpireNoticeLease
           \/ UNCHANGED storeVars
  BY <1>3 DEF Create, Purge, ExpireJob, ExpireLease, ExpireNoticeLease, storeVars
<1>4. CASE \/ \E id \in MessageIds : RecordPublication(id)
           \/ \E id \in MessageIds, w \in BOOLEAN : FailureTakeover(id, w)
  BY <1>4 DEF RecordPublication, FailureTakeover
<1> QED BY <1>1, <1>2, <1>3, <1>4 DEF Next

\* By LeaseIsCurrent a lease on record owns the job, so a lease that does
\* not own it is not on record, and only a fresh token can get on record.
LEMMA OwnershipStep ==
  ASSUME IInv, [Next]_storeVars, NEW l \in issued, ~Owns(l)
  PROVE  ~Owns(l)'
<1> SUFFICES ASSUME Owns(l)' PROVE FALSE
  OBVIOUS
<1>1. lease' = l /\ l \in Leases /\ l # None
  BY JobStoreAssumption DEF Owns, IInv, TypeOK
<1>2. lease = l
  BY <1>1, LeaseStep DEF FreshToken
<1>3. Owns(l)
  BY <1>1, <1>2 DEF Owns, Live, Exists, IInv, LeaseIsCurrent, WorkingStates,
                    TerminalStates
<1> QED BY <1>3

LEMMA NoticeOwnershipStep ==
  ASSUME IInv, [Next]_storeVars, NEW l \in issued, ~OwnsNotice(l)
  PROVE  ~OwnsNotice(l)'
<1> SUFFICES ASSUME OwnsNotice(l)' PROVE FALSE
  OBVIOUS
<1>1. noticeLease' = l /\ l \in Leases /\ l # None
  BY JobStoreAssumption DEF OwnsNotice, IInv, TypeOK
<1>2. noticeLease = l
  BY <1>1, NoticeLeaseStep DEF FreshToken
<1>3. OwnsNotice(l)
  BY <1>1, <1>2 DEF OwnsNotice, IInv, NoticeIsOwedByFailure
<1> QED BY <1>3

\* Every operation that would move the state or the fence asks for a job
\* that has not ended.
LEMMA TerminalStep ==
  ASSUME IInv, [Next]_storeVars, job.state \in TerminalStates, Exists'
  PROVE  job'.state = job.state /\ job'.fence = job.fence
<1>1. ~Live /\ Exists /\ job.state \notin ProcessableStates /\ job.state # "received"
  BY DEF Live, Exists, TerminalStates, ProcessableStates
<1>2. \A l \in issued : ~Owns(l)
  BY <1>1 DEF Owns
<1>3. CASE \E id \in MessageIds : RecordPublication(id)
  BY <1>1, <1>3 DEF RecordPublication, IInv, TypeOK, Job
<1>4. CASE \E t \in Tokens : Acquire(t) \/ ClaimNotice(t)
  BY <1>1, <1>4 DEF Acquire, Acquirable, ClaimNotice
<1>5. CASE \E l \in issued : OwnerStep(l)
  BY <1>2, <1>5 DEF OwnerStep, Renew, PrepareIntent, IntentStatus, Checkpoint,
                    ClearIntent, SaveAnswer, Finish, Release
<1>6. CASE \E l \in issued : NoticeStep(l)
  BY <1>6 DEF NoticeStep, CompleteNotice, FailNotice, ReleaseNotice, IInv, TypeOK, Job
<1>7. CASE \E id \in MessageIds, w \in BOOLEAN : FailureTakeover(id, w)
  BY <1>1, <1>7 DEF FailureTakeover
<1>8. CASE Create \/ Purge \/ ExpireJob
  BY <1>1, <1>8 DEF Create, Purge, ExpireJob, Exists, EmptyJob
<1>9. CASE ExpireLease \/ ExpireNoticeLease \/ UNCHANGED storeVars
  BY <1>9 DEF ExpireLease, ExpireNoticeLease, storeVars
<1> QED BY <1>3, <1>4, <1>5, <1>6, <1>7, <1>8, <1>9 DEF Next

\* No operation overwrites what the job recorded: `checkpoint` refuses
\* another value, `save_answer` keeps the first, `record_publication` refuses
\* another message.
LEMMA RecordsStep ==
  ASSUME IInv, [Next]_storeVars, Exists, Exists'
  PROVE  /\ job'.fence >= job.fence
         /\ job.answer # None => job'.answer = job.answer
         /\ job.message # None => job'.message = job.message
         /\ \A n \in Names :
              job.checkpoint[n] # None => job'.checkpoint[n] = job.checkpoint[n]
<1>1. job.fence \in Nat /\ job \in Job
  BY JobStoreAssumption DEF IInv, TypeOK, Job
<1>2. CASE \E id \in MessageIds : RecordPublication(id)
  BY <1>1, <1>2 DEF RecordPublication, Job
<1>3. CASE \E t \in Tokens : Acquire(t) \/ ClaimNotice(t)
  <2>1. /\ job'.fence \in {job.fence, job.fence + 1}
        /\ job'.answer = job.answer /\ job'.message = job.message
        /\ job'.checkpoint = job.checkpoint
    BY <1>1, <1>3 DEF Acquire, ClaimNotice, Job
  <2> QED BY <1>1, <2>1
<1>4. CASE \E l \in issued : OwnerStep(l) \/ NoticeStep(l)
  <2>1. PICK l \in issued : OwnerStep(l) \/ NoticeStep(l)
    BY <1>4
  <2>2. CASE Renew(l) \/ Release(l) \/ NoticeStep(l)
    BY <1>1, <2>2 DEF Renew, Release, NoticeStep, CompleteNotice, FailNotice,
                      ReleaseNotice, Job
  <2>3. CASE \/ \E n \in Names, p \in Payloads : PrepareIntent(l, n, p)
             \/ \E n \in Names : ClearIntent(l, n)
    BY <1>1, <2>3 DEF PrepareIntent, ClearIntent, Job
  <2>4. CASE \E n \in Names, r \in Results : Checkpoint(l, n, r)
    <3>1. PICK n \in Names, r \in Results : Checkpoint(l, n, r)
      BY <2>4
    <3>2. /\ job'.fence = job.fence /\ job'.answer = job.answer
          /\ job'.message = job.message
          /\ job'.checkpoint = [job.checkpoint EXCEPT ![n] = r]
          /\ job.checkpoint[n] \in {None, r}
      BY <1>1, <3>1 DEF Checkpoint, Job
    <3>3. ASSUME NEW m \in Names, job.checkpoint[m] # None
          PROVE  job'.checkpoint[m] = job.checkpoint[m]
      BY <1>1, <3>2, <3>3 DEF Job
    <3> QED BY <1>1, <3>2, <3>3
  <2>5. CASE \/ \E a \in Answers : SaveAnswer(l, a)
             \/ \E target \in TerminalStates \cup {"failed_retryable"}, w \in BOOLEAN :
                  Finish(l, target, w)
    <3>1. /\ job'.fence \in {job.fence, job.fence + 1}
          /\ job'.message = job.message /\ job'.checkpoint = job.checkpoint
          /\ job.answer # None => job'.answer = job.answer
      BY <1>1, <2>5 DEF SaveAnswer, Finish, Job
    <3> QED BY <1>1, <3>1
  <2> QED BY <2>1, <2>2, <2>3, <2>4, <2>5 DEF OwnerStep
<1>5. CASE \E id \in MessageIds, w \in BOOLEAN : FailureTakeover(id, w)
  <2>1. /\ job'.fence = job.fence + 1
        /\ job'.answer = job.answer /\ job'.message = job.message
        /\ job'.checkpoint = job.checkpoint
    BY <1>1, <1>5 DEF FailureTakeover, Job
  <2> QED BY <1>1, <2>1
<1>6. CASE Create \/ Purge \/ ExpireJob
  BY <1>6, EmptyJobIsFine DEF Create, Purge, ExpireJob, Exists
<1>7. CASE ExpireLease \/ ExpireNoticeLease \/ UNCHANGED storeVars
  BY <1>1, <1>7 DEF ExpireLease, ExpireNoticeLease, storeVars
<1> QED BY <1>2, <1>3, <1>4, <1>5, <1>6, <1>7 DEF Next

\* A worker, callback or timer that lost the job never gets it back: the
\* fencing of the whole design, for any number of workers and takeovers.
THEOREM Fencing == Spec => OwnershipNeverReturns
<1>1. IInv /\ [Next]_storeVars =>
        [\A l \in issued : ~Owns(l) => ~Owns(l)']_storeVars
  BY OwnershipStep
<1> QED BY <1>1, IInvAlways, PTL DEF Spec, OwnershipNeverReturns

\* The same of the lease of the failure notice.
THEOREM NoticeFencing == Spec => NoticeOwnershipNeverReturns
<1>1. IInv /\ [Next]_storeVars =>
        [\A l \in issued : ~OwnsNotice(l) => ~OwnsNotice(l)']_storeVars
  BY NoticeOwnershipStep
<1> QED BY <1>1, IInvAlways, PTL DEF Spec, NoticeOwnershipNeverReturns

\* However a job ended, it stays so until it is erased.
THEOREM EndsOnce == Spec => TerminalIsFinal
<1>1. IInv /\ [Next]_storeVars =>
        [job.state \in TerminalStates /\ Exists' =>
           /\ job'.state = job.state
           /\ job'.fence = job.fence]_storeVars
  BY TerminalStep
<1> QED BY <1>1, IInvAlways, PTL DEF Spec, TerminalIsFinal

\* What the job recorded it keeps while it exists, over any number of
\* retries and owners.
THEOREM NothingForgotten == Spec => RecordsAreKept
<1>1. IInv /\ [Next]_storeVars =>
        [Exists /\ Exists' =>
           /\ job'.fence >= job.fence
           /\ job.answer # None => job'.answer = job.answer
           /\ job.message # None => job'.message = job.message
           /\ \A n \in Names :
                job.checkpoint[n] # None => job'.checkpoint[n] = job.checkpoint[n]
        ]_storeVars
  BY RecordsStep
<1> QED BY <1>1, IInvAlways, PTL DEF Spec, RecordsAreKept

-----------------------------------------------------------------------------
(* The job store implements the life cycle.                                *)

LEMMA InitMaps == Init => Lifecycle!Init
BY EmptyJobIsFine DEF Init, Lifecycle!Init, Phase, Live, Exists

\* A step that leaves attempts, answer and lease alone, and the state too
\* unless the job lives on in another, is a stutter.
LEMMA QuietStutters ==
  ASSUME job'.attempts = job.attempts, job'.answer = job.answer, lease' = lease,
         job'.state = job.state \/ (Live /\ Live')
  PROVE  UNCHANGED Lifecycle!vars
BY DEF Lifecycle!vars, Phase, Live, Exists

LEMMA CreateMaps ==
  ASSUME IInv, job.attempts = 0, job.answer = None, Create
  PROVE  Lifecycle!Submit
<1>1. /\ job.state = "absent" /\ lease = None /\ lease' = None
      /\ job'.state = "received" /\ job'.attempts = 0 /\ job'.answer = None
  BY EmptyJobIsFine DEF Create, Exists, IInv, LeaseIsCurrent, WorkingStates
<1> QED BY <1>1 DEF Lifecycle!Submit, Phase, Live, Exists, TerminalStates

LEMMA AcquireMaps ==
  ASSUME IInv, NEW t \in Tokens, Acquire(t)
  PROVE  Lifecycle!Attempt
<1>1. /\ Live /\ lease = None /\ job.attempts < MaxAttempts
      /\ job'.attempts = job.attempts + 1 /\ job'.answer = job.answer
      /\ job'.state \in WorkingStates
  BY DEF Acquire, Acquirable, Live, Exists, ProcessableStates, TerminalStates,
         WorkingStates, IInv, TypeOK, Job
<1>2. lease' # None
  <2>1. lease' \in Leases
    BY AcquireKeeps, JobStoreAssumption DEF IInv, TypeOK, Acquire, Leases, Job
  <2> QED BY <2>1, JobStoreAssumption
<1>3. Live'
  BY <1>1 DEF Live, Exists, WorkingStates, TerminalStates
<1> QED BY <1>1, <1>2, <1>3 DEF Lifecycle!Attempt, Phase

LEMMA OwnerStepMaps ==
  ASSUME IInv, NEW l \in issued, OwnerStep(l) \/ NoticeStep(l)
  PROVE  [Lifecycle!Next]_(Lifecycle!vars)
<1>1. l # None
  BY JobStoreAssumption DEF IInv, TypeOK
<1>2. CASE \/ Renew(l)
           \/ \E n \in Names, p \in Payloads : PrepareIntent(l, n, p)
           \/ \E n \in Names, r \in Results : Checkpoint(l, n, r)
           \/ \E n \in Names : ClearIntent(l, n)
           \/ NoticeStep(l)
  <2>1. /\ job'.attempts = job.attempts /\ job'.answer = job.answer
        /\ job'.state = job.state /\ lease' = lease
    BY <1>2 DEF IInv, TypeOK, Job, Renew, Owns, PrepareIntent, Checkpoint, ClearIntent,
                NoticeStep, CompleteNotice, FailNotice, ReleaseNotice
  <2> QED BY <2>1, QuietStutters
<1>3. CASE \E a \in Answers : SaveAnswer(l, a)
  <2>1. /\ Live /\ lease # None /\ lease' = lease
        /\ job'.attempts = job.attempts /\ job'.answer # None
        /\ job'.state = "ready_to_deliver"
    BY <1>1, <1>3, JobStoreAssumption DEF SaveAnswer, Owns, IInv, TypeOK, Job
  <2>2. Lifecycle!Answer
    BY <2>1 DEF Lifecycle!Answer, Phase, Live, Exists, TerminalStates
  <2> QED BY <2>2 DEF Lifecycle!Next
<1>4. CASE \E target \in TerminalStates \cup {"failed_retryable"}, w \in BOOLEAN :
             Finish(l, target, w)
  <2>1. PICK target \in TerminalStates \cup {"failed_retryable"}, w \in BOOLEAN :
          Finish(l, target, w)
    BY <1>4
  <2>2. /\ Live /\ lease # None /\ lease' = None
        /\ job'.attempts = job.attempts /\ job'.answer = job.answer
        /\ job'.state = target
        /\ target \in Lifecycle!Outcomes \cup {"failed_retryable"}
        /\ target = "delivered" => job.answer # None
    BY <1>1, <2>1 DEF Finish, FinishTargets, Owns, IInv, TypeOK, Job, DeliveryHasAnswer,
                      Lifecycle!Outcomes
  <2>3. CASE target = "failed_retryable"
    <3>1. Lifecycle!Yield
      BY <2>2, <2>3 DEF Lifecycle!Yield, Phase, Live, Exists, TerminalStates
    <3> QED BY <3>1 DEF Lifecycle!Next
  <2>4. CASE target \in Lifecycle!Outcomes
    <3>1. Lifecycle!Conclude(target)
      BY <2>2, <2>4 DEF Lifecycle!Conclude, Lifecycle!Outcomes, Phase, Live, Exists,
                        TerminalStates
    <3> QED BY <2>4, <3>1 DEF Lifecycle!Next
  <2> QED BY <2>2, <2>3, <2>4
<1>5. CASE Release(l)
  <2>1. Live /\ lease # None
    BY <1>1, <1>5 DEF Release, IInv, LeaseIsCurrent, Live, Exists, WorkingStates,
                      TerminalStates
  <2>2. Lifecycle!Yield
    BY <1>5, <2>1 DEF Release, Lifecycle!Yield, Phase, Live, Exists
  <2> QED BY <2>2 DEF Lifecycle!Next
<1> QED BY <1>2, <1>3, <1>4, <1>5 DEF OwnerStep

LEMMA TakeoverMaps ==
  ASSUME IInv, NEW id \in MessageIds, NEW w \in BOOLEAN, FailureTakeover(id, w)
  PROVE  Lifecycle!GiveUp
<1>1. /\ Live /\ lease = None /\ lease' = None
      /\ job'.state = "failed" /\ job'.attempts = job.attempts
      /\ job'.answer = job.answer
  BY DEF FailureTakeover, IInv, TypeOK, Job
<1> QED BY <1>1 DEF Lifecycle!GiveUp, Phase, Live, Exists, TerminalStates

LEMMA ForgetMaps ==
  ASSUME IInv, Purge \/ ExpireJob
  PROVE  Lifecycle!Forget
<1>1. /\ Exists /\ job'.state = "absent" /\ job'.attempts = 0
      /\ job'.answer = None
  BY EmptyJobIsFine DEF Purge, ExpireJob
<1> QED BY <1>1 DEF Lifecycle!Forget, Phase, Live, Exists

LEMMA ExpireLeaseMaps ==
  ASSUME IInv, ExpireLease
  PROVE  Lifecycle!Yield
<1>1. Live /\ lease # None
  BY DEF ExpireLease, IInv, LeaseIsCurrent, Live, Exists, WorkingStates, TerminalStates
<1> QED BY <1>1 DEF ExpireLease, Lifecycle!Yield, Phase, Live, Exists

\* A job that does not exist has no attempts and no answer: what makes its
\* creation the submission of a fresh job.
AbsentIsBlank == ~Exists => job.attempts = 0 /\ job.answer = None

LEMMA AbsentIsBlankStep ==
  ASSUME IInv, AbsentIsBlank, [Next]_storeVars
  PROVE  AbsentIsBlank'
<1> SUFFICES ASSUME ~Exists' PROVE job'.attempts = 0 /\ job'.answer = None
  BY DEF AbsentIsBlank
<1>1. CASE Purge \/ ExpireJob
  BY <1>1, EmptyJobIsFine DEF Purge, ExpireJob
<1>2. CASE \/ Create \/ ExpireLease \/ ExpireNoticeLease \/ UNCHANGED storeVars
  BY <1>2, EmptyJobIsFine DEF Create, ExpireLease, ExpireNoticeLease, storeVars,
     AbsentIsBlank, Exists
<1>3. CASE \E t \in Tokens : Acquire(t) \/ ClaimNotice(t)
  BY <1>3, AcquireMaps
  DEF ClaimNotice, AbsentIsBlank, Exists, Lifecycle!Attempt, Phase, Live
<1>4. CASE \E id \in MessageIds : RecordPublication(id)
  BY <1>4 DEF RecordPublication, Exists, IInv, TypeOK, Job
<1>5. CASE \E l \in issued : OwnerStep(l) \/ NoticeStep(l)
  <2>1. PICK l \in issued : OwnerStep(l) \/ NoticeStep(l)
    BY <1>5
  <2>2. CASE Renew(l) \/ Release(l) \/ ReleaseNotice(l)
    BY <2>2 DEF Renew, Release, ReleaseNotice, AbsentIsBlank, Exists
  <2>3. CASE \/ \E n \in Names, p \in Payloads : PrepareIntent(l, n, p)
             \/ \E n \in Names, r \in Results : Checkpoint(l, n, r)
             \/ \E n \in Names : ClearIntent(l, n)
    BY <2>3
    DEF PrepareIntent, IntentStatus, Checkpoint, ClearIntent, Owns, Live, Exists,
                IInv, TypeOK, Job
  <2>4. CASE \/ \E a \in Answers : SaveAnswer(l, a)
             \/ \E target \in TerminalStates \cup {"failed_retryable"}, w \in BOOLEAN :
                  Finish(l, target, w)
    BY <2>4 DEF SaveAnswer, Finish, TerminalStates, Exists, IInv, TypeOK, Job
  <2>5. CASE CompleteNotice(l) \/ FailNotice(l)
    BY <2>5 DEF CompleteNotice, FailNotice, OwnsNotice, Exists, IInv, TypeOK, Job
  <2> QED BY <2>1, <2>2, <2>3, <2>4, <2>5 DEF OwnerStep, NoticeStep
<1>6. CASE \E id \in MessageIds, w \in BOOLEAN : FailureTakeover(id, w)
  BY <1>6 DEF FailureTakeover, Exists, IInv, TypeOK, Job
<1> QED BY <1>1, <1>2, <1>3, <1>4, <1>5, <1>6 DEF Next

\* Every step of the store is a step of the life cycle or leaves it alone.
LEMMA StepMaps ==
  ASSUME IInv, AbsentIsBlank, [Next]_storeVars
  PROVE  [Lifecycle!Next]_(Lifecycle!vars)
<1>1. CASE Create
  BY <1>1, CreateMaps DEF AbsentIsBlank, Create, Lifecycle!Next
<1>2. CASE \E id \in MessageIds : RecordPublication(id)
  <2>1. /\ job'.attempts = job.attempts /\ job'.answer = job.answer /\ lease' = lease
        /\ job'.state = job.state \/ (Live /\ Live')
    BY <1>2 DEF RecordPublication, IInv, TypeOK, Job, Live, Exists, TerminalStates
  <2> QED BY <2>1, QuietStutters
<1>3. CASE \E t \in Tokens : Acquire(t)
  BY <1>3, AcquireMaps DEF Lifecycle!Next
<1>4. CASE \E t \in Tokens : ClaimNotice(t)
  BY <1>4, QuietStutters DEF ClaimNotice
<1>5. CASE \E l \in issued : OwnerStep(l) \/ NoticeStep(l)
  BY <1>5, OwnerStepMaps
<1>6. CASE \E id \in MessageIds, w \in BOOLEAN : FailureTakeover(id, w)
  BY <1>6, TakeoverMaps DEF Lifecycle!Next
<1>7. CASE Purge \/ ExpireJob
  BY <1>7, ForgetMaps DEF Lifecycle!Next
<1>8. CASE ExpireLease
  BY <1>8, ExpireLeaseMaps DEF Lifecycle!Next
<1>9. CASE ExpireNoticeLease \/ UNCHANGED storeVars
  BY <1>9, QuietStutters DEF ExpireNoticeLease, storeVars
<1> QED BY <1>1, <1>2, <1>3, <1>4, <1>5, <1>6, <1>7, <1>8, <1>9 DEF Next

\* The store implements the life cycle for every number of attempts: one
\* worker at a time, at most MaxAttempts of them, delivery only with an
\* answer, one end.
THEOREM Refinement == Spec => ImplementsLifecycle
<1>1. Init => IInv /\ AbsentIsBlank
  BY InitHasIInv, EmptyJobIsFine DEF Init, AbsentIsBlank
<1>2. IInv /\ AbsentIsBlank /\ [Next]_storeVars => IInv' /\ AbsentIsBlank'
  BY NextKeeps, AbsentIsBlankStep
<1>3. IInv /\ AbsentIsBlank /\ [Next]_storeVars => [Lifecycle!Next]_(Lifecycle!vars)
  BY StepMaps
<1> QED BY <1>1, <1>2, <1>3, InitMaps, PTL DEF Spec, ImplementsLifecycle, Lifecycle!Spec

=============================================================================
