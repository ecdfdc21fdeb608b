# Formal models of the bot

The repository is a Telegram bot that answers in one group. It runs on serverless
instances, keeps its state in Redis (Upstash) and has QStash call it back to do the slow
work. The same update and the same job may be delivered several times, to instances that
overlap, crash, time out or stall, against a Telegram API whose answers get lost. What
keeps the chat right is a handful of protocols: markers and deduplication at the
webhook, a job record with leases, intents and checkpoints, a versioned history, locks
and epochs around the memory, receipts and tombstones for privacy deletions. These
modules model them, TLC checks them on small instances, and TLAPS proves most of the
safety properties for every value of the constants.

## Inventory

| Part (under `src/app`) | State | Operations | Hard about it | What makes it correct | Module |
|---|---|---|---|---|---|
| webhook: `telegram/webhook.py`, `routing.py`, `triggers.py`, `addressing.py`, `models.py`, `store/dedup.py` | the completion marker, command receipts, the automatic-rule cooldown | look up, create, store the trigger, publish, record, mark; commands | Telegram repeats updates while their first call still runs; a step of several fails; a lobotomy, a purge or a change of rules in between | an update is marked only with its effect, which it has once | `Enqueue` |
| job store: `store/job_backend.py`, its Lua twin `store/job_backend_upstash.py`, `store/jobs.py` | one hash per job, a lease, a lease for the failure notice, purge receipts, indexes | create, publish, acquire, renew, prepare/checkpoint/clear an intent, save the answer, finish, release, take over, claim/complete/fail/release the notice, purge; expiry | stale owners, retries, takeovers and purges in any order | one owner at a time, fenced; records never forgotten; a job ends once | `JobStore` |
| worker and failure callback: `telegram/processor.py` | one invocation's locals | the steps of a delivery, the ways it ends, the notice | crash, timeout or stall between any two steps; unknown outcomes | nothing sent twice or out of order; the job ends; nobody is left with a placeholder | `Delivery` |
| Telegram: `telegram/client.py` | (external) the chat | send, edit | answers lost, requests late | as above | `Delivery` |
| queue: `queue/qstash.py` | (external) QStash | publish, deliver, call back | at least once, late; forgets deduplication ids | the job is concluded by somebody | `Delivery`, `Enqueue`, `Scheduler` |
| history: `store/history.py`, `store/redis.py` | the newest messages of a chat, by version | upsert, prune, remove, purge; expiry | writes in any order; late writers after a purge | the newest of what was stored, nothing purged | `History` |
| memory: `memory/` | epoch, gathered entries and observations, tombstones, two locks | record, observe, invalidate, describe a picture, reset, purge | writers that outlive their lock; threads that come late; deletions against queued writes | nothing of an old epoch or a deleted user comes back; no write lost | `Memory` |
| scheduler: `telegram/scheduler.py` | a marker per 20-minute slot | the cron call | calls overlap, fail and are repeated; a lobotomy or the night in between | one job per slot, and not none | `Scheduler` |
| users: `store/users.py` | profiles and aliases | observe, delete | late observations; names pass from user to user | a name has one owner, and nothing goes back | `Directory`, `Registry` |
| lists, rules: `store/lists.py`, `rules.py` | three keys per list, two per rule, the indexes | create, update, rename, delete, members, forget a user, read | administrators overlap; an update reads before it writes | the keys agree; what is deleted stays deleted; limits hold | `Catalog`, `Registry` |
| admin API: `admin/routes.py` | none of its own | CRUD, deletion of users and logs | a deletion is many round trips and may die at any | nothing of the user is left, also when the deletion is repeated | `Privacy`, `Catalog` |
| configuration, admins: `store/config_store.py`, `admins.py`, `lobotomy_access.py` | tone, mode, rosters, cooldown | set, clear, invite | a command repeated | a newer setting is not rolled back | `Enqueue` |
| sign-in: `auth/` | session cookies | OIDC | - | - | - |
| model and search: `llm/`, `search/` | none | generate, search | failures | - | (`Delivery`) |
| server, settings, metrics, scripts | none | wiring, one-shot tools | - | - | - |

How they interact: the webhook and the scheduler create jobs and publish them to QStash;
QStash delivers each job to the worker until it is accepted or the retries are used up,
and then calls the failure callback; worker and callback share nothing but the job store,
the history and the chat; the admin API purges jobs and history under their feet, and a
lobotomy changes the memory epoch they compare with.

## Modules

| Module | What it is |
|---|---|
| `Intake` | what the webhook promises about updates |
| `Enqueue` | the webhook, one action per request to the store or to QStash |
| `EnqueueRefinement`, `EnqueueProofs` | `Enqueue` implements `Intake`; the theorems about `Enqueue` |
| `JobLifecycle` | what the store promises: the abstract life of a job |
| `JobStore` | the job store, one action per operation |
| `JobStoreRefinement`, `JobStoreProofs` | `JobStore` implements `JobLifecycle`; the theorems about `JobStore` |
| `Delivery` | one job from the webhook to its end, composed with `JobStore`: QStash's deliveries, the callback, Telegram, the history, the purge |
| `DeliveryProofs` | the theorems about `Delivery`, on top of those about `JobStore` |
| `History`, `HistoryProofs` | the stored history, its theorems |
| `Memory`, `MemoryProofs` | gathered memory with its locks, epochs and threads, its theorems |
| `Scheduler`, `SchedulerProofs` | the banter of every twenty minutes, its theorems |
| `Directory` | profiles and aliases |
| `Catalog` | lists and rules |
| `Registry`, `RegistryProofs` | `Directory` and `Catalog` in one store, the theorems about all three |
| `Privacy`, `PrivacyProofs` | the deletion of users and logs over several jobs, its theorems |
| `MC...` | small instances for TLC |

Operators whose comment begins with "Mutant" are wrong versions of the definition that
follows them; nothing uses them. Each shows that a property can tell the code from a
plausible mistake in it. In all modules a key that has expired and one that is absent
are the same, an action that needs an expiry to happen lets it happen at any moment
unless said otherwise, and names, texts and ids are values that can only be compared.

### Enqueue

A call of the webhook is a record in `call`; `pc` is the request it makes next.

| Program counter | Code |
|---|---|
| `lookup` `check` | `repository.get`, `already_seen` and the choice of the branch in `_prepare_message` |
| `snapshot` `create` | the request's memory epoch, `create_reply_job`/`create_auto_job` |
| `trigger` `upsert` | `_persist_job_trigger`: `record_message` (which may refuse), `history.upsert` |
| `publish` `record` | `publish_reply_job`, `record_publication` |
| `persist` | `_persist_incoming` |
| `receipt` | `apply_tone_command`, `record_command` |
| `reset` | `lobotomy` |
| `mark` | `mark_seen` and the reply to a command |

Each call goes on from what it read: `found` is the job as the lookup saw it, `epoch` the
memory epoch of the snapshot. `Abandon` is a crash, a store or queue error, or a response
that Telegram never gets, before any step; Telegram then delivers the update again, and
it may do so while the first call still runs. What a message is (a mention, a command, a
match of an automatic rule ...) is its `Kind`: the parsing that decides it has no state.
`Hazards` adds QStash forgetting a deduplication id (`lapse`), an administrator who
removes the automatic rule (`rules`), and a privacy deletion (`purge`); only what a purge
does to the job, the history and the tombstone of older updates is here, the rest is in
`Privacy`. What the memory does with a message is in `Memory`; here it only refuses a
message without content, of another epoch, or older than the tombstone.

### JobStore

`job` is the hash `job:<id>`; its fields are the code's: `state`, `fence`, `attempts`,
`message` (`qstash_message_id`), `placeholder` (`placeholder_message_id`), `answer`,
`notice` (`failure_notice_state`), and the families `intent:<name>` and
`checkpoint:<name>` as functions of the name. A job that is not there has state
`"absent"`. `lease` and `noticeLease` are the two lease keys, `receipts` the set
`privacy:receipt:<index>`. `issued` is a history variable: the leases ever handed out.

An action is enabled exactly when the operation changes the store. The other outcomes
(`busy`, `exhausted`, `ownership_lost`, `conflict`, `state_rejected`, ...) change nothing
and are the negations of its guard. `Next` lets anybody call anything with any lease ever
issued, so what is shown does not rest on how the worker behaves.

Abstractions:
- Time. `_purge_job` drops what has expired before any operation looks at it, so an
  expired lease and an absent one are the same to every caller; `ExpireLease`,
  `ExpireNoticeLease` and `ExpireJob` drop them at any moment. Deadlines and
  `Retry-After` values are left out.
- Data. Answers, payload hashes, message ids and tokens are values that can only be
  compared. `secrets.token_urlsafe` never repeats (`FreshToken`).
- The failure callback's comparison of `maxRetries` is a comparison with a constant and
  is left out, and so are the user and chat indexes and the auto-rule cooldown.
- `complete_failure_notice` also stores the notice's own checkpoint, whose message id is
  the placeholder's and adds nothing to the receipts.

### Delivery

A worker (one delivery of the job) and a callback are records in `agent` with a program
counter; each step is one store operation or one call of `processor.py`, in the code's
order, so that crashes, timeouts and other invocations come between any two of them.
`wire` holds the requests sent to Telegram that have not taken effect; `Land` lets one
take effect at any later time, after its sender gave up, crashed or was taken over from.
A request may be rejected (then it never has an effect), answered, or not answered.

| Program counter | Code |
|---|---|
| `begin` ... `image` | `_run_delivery`, `_ensure_image_memory` |
| `prepare` `call` `send` `await` `clear` `record` | `_ensure_placeholder`, `_edit_first_chunk`, `_send_chunk` |
| `log` `upsert` `write` `recheck` `unlog` | `_history_upsert` |
| `read` `generate` `save` | `_answer` |
| `finish` `lost` | `_owned_job_response` |
| `overtime` `release` | `_process_job` |
| `claim` `notice_*` | `_failure_notice` |

A behaviour is of one scenario: the kind of the job, the number of its steps and the
hazards it meets. `scenario` is chosen among `Scenarios` in the initial state and never
changes. The hazards: `crash` (an instance dies and keeps what it holds), `store_fault` (a
store call fails, or its answer is lost), `timeout` (the budget of 240 s), `stall` (an
instance outlives its lease), `lobotomy`, `purge`. `MaxFaults` bounds crashes, store faults
and timeouts together. `StoreFault` says what each step makes of a failing store: a
delivery that gives up, a handler cut short, a notice's lease or the job's that is not
given back. Two history variables remember what an invocation does not notice or tell:
`unmodified`, that Telegram called its notice not modified (the record is then the
placeholder's with the notice's text, and may be older than the answer's), and `stranded`,
that its release of the job failed.

Abstractions:
- Without `stall`, a lease expires only when its holder is gone: the lease is 270 s long,
  the budget that ends its holder 240 s. The notice's lease, 30 s and never renewed, may
  expire at any time in every scenario.
- A rejection (4xx, 429, 5xx) is taken to mean that the request had no effect, as
  `telegram/client.py` takes it.
- A store call abandoned by a timeout took effect before the timeout or not at all. A
  late one is refused by the lease check, or, in the history, by its older version.
- The budget's end releases the notice's lease in the same step; the failure of that
  release is not modelled (the lease expires after 30 s at the latest).
- A delivery is not repeated by itself: each of the `Workers` is one delivery of QStash's.
  QStash calls the callback when every delivery has been made and none was accepted; a
  callback told to come again does, as long as there are tokens (`RoomToRedeliver`, the
  bound on redeliveries). A `busy` or `metadata_pending` callback changes nothing.
- The reads of one guard (epoch, then ownership) are one step where nothing the
  properties tell apart can come between them. Where something can, they are two: the
  ownership check and the request, the epoch check and the history record, the record and
  the check that follows it.
- Expiry and re-creation of the job are in `JobStore` only. Left out: the search stage of
  `/google`, the rejection of a snapshot that does not fit its kind, the identity stored
  in a checkpoint, QStash signatures.

### History

The list in Redis is sorted, so it is the set of its records; `Messages` are numbers,
`When` their time stamps, a version stands for the tuple `_record_version` compares. The
scripts of `redis.py` are actions: `Upsert` with its version check, its purge mark, cutoff,
limit and new expiry (the mark is by update id, and an edit is an update of its own:
`OfJob`); `Prune` on reading; `RemoveBlank` for an edit that leaves nothing;
`BlockJobs` (the purge mark of a user's jobs) and `Filter` (the purge of his messages);
`PurgeAll`. `Reset` is the lobotomy that raises the epoch records are stamped with, `Expire`
the key's expiry, `Tick` the clock, in seconds. `Usable` is what a reader gets. `stored`
remembers every record and version that was ever written, `cleared` that something was
removed by other means than age and the limit. `Removals` says which removals there are.

### Memory

A process in `proc` is a webhook call, a thread of the pool, a worker that describes a
picture, a `/lobotomy` or a request of the admin panel; `op` says which. Whoever writes
takes the chat's lock, then the user's, reads epoch, tombstone and shard, stores the shard
and puts it in the index, each a request to Redis and a step of the model; whoever finds
the chat's lock taken gives up. `Expire` frees a lock whose holder was killed (`Dead`) and,
with the hazard `stall`, one whose holder is still at work. The key of a shard of a
version before carries another name (`legacy`); it is read when the new one is empty,
also when an invalidation has just emptied it, so that what it dropped comes back.
Observations go through `pool`, stamped with the epoch at which they were submitted.
Telegram has the updates of one member of `Traffic` to deliver, chosen in the initial state
(`sent`), each until it is acknowledged. `outlived` remembers that a lock expired under a
process that goes on: the locks last 60 s, the functions 300 s. A reset reads the epoch in
one step (`NextEpoch`) and sets the next one in another (`Bump`), so that one that has
outlived its lock in between, which `lateReset` remembers, may set an epoch that another
has set already.
Left out: what is relevant to a prompt (`gathered_for_prompt`), the limits on characters,
the daily reserve of picture analyses, and the cooldown and the 10 s lock of `/lobotomy`,
which exclude nothing once the reset has stalled.

### Scheduler

A call of the endpoint belongs to the slot in which it started; `pc` is its next round
trip: `get` and `mark` the slot's marker (`again` when another call has set it first),
`look` for the slot's job, `drop` a marker without a job, read the `context` and then the
`epoch`, `create`, `publish`, `record`. `Fail` before any step of `Faults` answers 503 (or
dies), and QStash repeats the call, `MaxTries` in all. The worker is two steps: the last
check (`_ensure_memory_epoch`) and the delivery, of which `Delivery` says more. The
marker's own expiry, longer than a slot, is left out.

### Directory

The two writing scripts are the two actions: `Observe(u, n, o)` (`observe_user_json`), with
an order that stands for (`last_seen_at`, `last_update_id`) and a name or none, and
`Delete(u)`. Orders come in any sequence. Looking a name up
changes nothing and is left out.

### Catalog

A list is an entry in the index, a description and members, a rule the first two; the
handlers that read and then write (`update`) are two steps with an administrator's
`update` in between, a read of index and descriptions is two steps as well (`read`). The
actions are the scripts: creation (also forced), rename, deletion, adding and removing
members, forgetting a user, the seeding of the reserved list.

### Registry

`Directory` and `Catalog` together, with the one script that writes both: the deletion of a
user (`DeleteUserData(u)`), which takes the profile with its alias, if there is one, and
the memberships of the lists in the index. Every other step is one of either.

### Privacy

Several jobs and a deletion. The store keys a job by its update; calls of the webhook for
one update overlap and repeat, and a call that finds no job, because a deletion has erased
it, creates it anew. The model names a job, and the bot's message that answers it, after
the call that created it, so that the two are told apart (`Stored` is the one the store
has). The webhook looks for the job, reads the context, creates the job and stores the
trigger; an edit (`Edit`) stores the message again under another update id; the worker
sends, checkpoints, logs and takes the log back when it has lost its job; the deletion
begins with the receipts an earlier one left, lists the jobs of its index (a user's or the
chat's: `target`, one of `Targets`), for each writes the receipt, the tombstone and erases
it, then filters the history and drops the receipt. `Crash` ends a deletion anywhere, and
the administrator asks again. Tombstones and receipts do not expire (30 days in the code).

## What is checked

Each run asks one question of one module. `_safety`, `_orders` and the like check
invariants and action properties; `_live` runs check liveness, without symmetry.

| Run | Question | Bounds |
|---|---|---|
| `Enqueue_safety` | overlapping, repeated and abandoned calls, with a rule removed between any two steps; `Enqueue` implements `Intake` | 4 updates (a reply, two automatic ones that compete for the cooldown, a tone command), 2 calls, 3 QStash ids, 1 fault |
| `Enqueue_live` | every update is completed in the end, through a lobotomy, a purge and a forgotten deduplication id | a reply and a lobotomy, 2 calls, 3 ids, 1 fault |
| `JobStore_safety` | the records, fencing, and `JobStore` implements `JobLifecycle` | 4 tokens, 2 message ids, 2 intents (one repeatable), 2 payloads, 2 results, 2 answers, 3 attempts |
| `Delivery_safety` | one job from its first delivery to its end, in five scenarios: a reply of 3 steps under `crash`, `store_fault` and `timeout`; replies of 2 steps under `stall`, under `purge`, under `lobotomy`; an image job under `lobotomy` and `store_fault` | 2 deliveries, 1 callback, 2 answers, 2 attempts, 1 fault; 5 leases, 3 while both deliveries run (`FewLeases`) |
| `Delivery_live` | every job ends: a reply with a crash, an image job with a crash and a lobotomy | 2 deliveries, 1 callback, 1 answer, 1 fault |
| `Delivery_image` | expected to fail: an image job completes when nothing goes wrong | no fault |
| `History_orders` | messages in every order and repetition, resets, expiry, edits to a blank, purges of a user and of the chat, late writers | 4 messages in 2 versions, limit 2, retention 2 s, 6 s, 1 reset |
| `Memory_writes` | two processes of any kind, killed or outliving a lock: no write lost, nothing forgotten comes back | a message with its edit, or with a picture that has a job; one entry under the former key; shard of 2 entries, 1 reset (2 when they overlap), 1 purge, 1 fault, any two of the three together (`TwoOfThree`) |
| `Memory_former` | expected to fail: what an edit has dropped cannot be read | the same |
| `Scheduler_calls` | overlapping, failing and repeated calls | 2 calls, 2 slots (the second at night), 2 tries, 1 lobotomy, a failure before any step |
| `Registry_safety` | late observations and names that change hands, two administrators, a reader, deletions of users | 2 users, 2 names, orders 0 and 1; 3 lists, of which 2 fit, and 1 rule |
| `Privacy_purges` | a deletion that dies at any of its steps and is repeated | 2 updates of 2 users, one of which may quote the other, 2 calls of one and edits of its message; one deletion of a user or of the chat, 1 death |

Why the bounds are enough to be of interest. Two deliveries are an owner and the one that
takes over, the relation all of the job protocol is about; with the callback there is a
third party. The steps are the three kinds there are (a message to create and edit later,
the repeatable edit, an unrepeatable chunk). Two attempts reach the limit, and with one
fault every interleaving of a broken attempt with a whole one is explored. In `JobStore`
four tokens are two owners, one more attempt and a holder of the notice. At the webhook
two calls are the call and its repetition, and three ids let QStash make a second message
for an update whose deduplication id it has forgotten. Two automatic updates are what a
cooldown is about. Every limit (history, shard, lists) is small enough to be passed. Two
processes in `Memory` are a writer and whoever comes in between; two calls of the
scheduler with two tries each are one that finds another's marker without a job, drops it,
and one that builds the job meanwhile or fails. Where the bounds end a behaviour (all
updates answered, tokens or tries used up, nothing left to purge) the system stops by the
model's doing, and these runs do not ask for deadlocks; `History` and `Registry` always
have a next step, and there they are asked for. `Registry_safety` looks at states without
the history variables `gone` and `forgotten` (`Stored`), on which neither a step nor a
property of the run depends.

Two runs leave out states by a constraint, for the time they take. `FewLeases` stops where
a fourth lease is given out while two deliveries and the callback are all at work; any two
of them meet with all the leases they can have. `TwoOfThree` stops where a reset, a
deletion and a fault come together, and keeps every pair of them. The theorems cover what
both leave out.

The hazards of `Delivery` and the kinds of update of `Enqueue` are not all combined: each
scenario is one family of faults, and the kinds a run leaves out (modes, help, plain
messages) are covered by the theorems, which hold for every assignment of kinds.

Properties the runs check (stated at the end of each module):
- `LeaseIsCurrent`, `OwnershipNeverReturns`: fencing. `CheckpointHasIntent`,
  `NoticeIsOwedByFailure`: what the record of a job may look like.
- `NoMessageTwice`, `OnlySavedAnswersShown`, `DeliveredIsComplete`, `NoticeIsShown`: the
  chat against the job. `DeliveredIsLogged`, `PurgedStaysForgotten`: the history against
  the chat and the purge. `AmbiguousHasOpenIntent`, `NothingHeldWhenDone`: how an
  invocation ends. `JobEnds`: liveness.
- `MarkedIsComplete`, `EnqueuedIsAccepted`, `CommandOnce`, `AutoIsRationed`,
  `UpdatesComplete`: the webhook, between marker, job and queue.
- `Converged` (the usable history is the newest of all that was stored, whatever the order
  it came in), `NeverRolledBack`, `BlockedStaysOut`: the history.
- `NoWriteLost`, `OneEntryPerMessage`, `IndexFindsShards`, `TombstoneHolds`,
  `ResetForgets`: the memory.
- `BegunSlotIsServed`, `OpenJobIsServed`: the scheduler.
- `OneOwnerPerName`, `NamesMoveForward`: the directory. `IndexMatchesItems`,
  `NoOrphanMembers`: lists and rules. `DeletionIsWhole`: a deletion, across both.
- `CleanAfterPurge`, `ReceiptsCoverAnswers`: a deletion, its deaths and repetitions.

Some hold only without a fault the code does not withstand, and say so themselves:
- `DeliveredIsLogged` and what `NoticeIsShown` says of the history exclude stalled
  instances. Once Telegram has called a notice not modified, because a first one had been
  shown without an answer, `NoticeIsShown` lets the history keep the job's answer.
- `NothingHeldWhenDone` excepts an invocation whose release of the job failed: its lease
  stays until it expires.
- `NoWriteLost` and `TombstoneHolds` speak of processes that end before their locks do,
  `IndexFindsShards` of behaviours without a fault: shard and index are two requests. It
  excepts users with entries under the former key, for the reason `Memory_former` shows.
- `ResetForgets` holds whatever writers stall or die. Of resets it asks that each has set an
  epoch of its own (their number is the epoch), and says that each has unless one has
  outlived its lock.
- `Converged` speaks of histories from which nothing was removed (`cleared`).
- `BegunSlotIsServed` excepts slots in which a call failed; `OpenJobIsServed` asks that
  failing calls are repeated.
- `UpdatesComplete` excepts updates whose message the memory refuses for good
  (`Unrecordable`).
- `ReceiptsCoverAnswers` and `CleanAfterPurge` are asked of one deletion at a time.
  `CleanAfterPurge` and `BlockedStaysOut` say nothing of a message that is edited after the
  deletion: the edit has an update id of its own, which no tombstone names.

Properties that are only proved, in the theorems below, and checked by no run:
`TypeOK`, `FenceCountsAttempts`, `IntentIsOfSomeAttempt`, `PlaceholderIsCheckpointed`,
`DeliveryHasAnswer`, `NoticeOwnershipNeverReturns`, `TerminalIsFinal`, `RecordsAreKept` of
`JobStore`; `EnqueueTypeOK`, `AckedIsMarked`, `PublishedOnce` of `Enqueue`;
`DirectoryTypeOK`, `ProfileNeverOlder` of `Directory`; `HistoryTypeOK`,
`ExpiryCoversRecords` of `History`; `CatalogTypeOK`, `StoresAgree`, `DeletedListStays`,
`ForgottenIsNoMember`, `IgnoreStays` of `Catalog`; `RecordedIsPublished` of `Scheduler`;
`PrivacyTypeOK` of `Privacy`.

Fairness.
- `DeliveryFairness`: every invocation goes on unless it crashes, leases expire, and QStash
  delivers what it was given and then calls back. Telegram owes nothing: no fairness for
  `Land`. QStash's retries are its contract; an expiry is Redis's. `JobEnds` speaks of
  jobs whose publication was recorded: until then the callback is told `metadata_pending`.
- `EnqueueFairness`: a call that is not abandoned goes on (weak fairness), and Telegram
  delivers an update again until it is answered 200; strong, since whether a connection is
  free comes and goes with the other calls.
- `FairSchedulerSpec`: a call that has begun goes on; QStash repeats one that failed
  (`retries=3` in `scripts/set_qstash_schedule.py`) and delivers what it has accepted.

### Where code and documentation disagree

- `Delivery_image`. The worker that has analysed the picture of an `image_memory` job
  returns (`processor.py:903-905`) without an answer, and `finish("delivered")` is
  rejected from `processing`. The job is retried, analysed again and ends as failed, where
  the docstring speaks of "completing its memory job" (`processor.py:286`).
- `Memory_former`. An edit whose invalidation leaves nothing of a user's shard deletes the
  new key and takes the user out of the index (`memory/store.py:610-612`). If the shard
  had been read under the former key, it is still there: `gathered_for_user` falls back to
  it (`memory/store.py:290-292`) and shows what the message said before the edit, where
  the docstring says "Drop gathered observations" (`memory/store.py:590`), and a later
  lobotomy no longer finds the user. The epoch hides the entries from readers from then
  on. It was found while proving `IndexKeepsShards`: the former key was empty in the
  instances then.

What follows was met while modelling and is what the models do, but no run is about it.

- A worker that meets a lobotomy wants to cancel its job (`processor.py:1046-1056`;
  `tickets/02-qstash-llm-reply.md:215` has it answered with 200), but `finish` accepts
  `cancelled` from no state (`job_backend.py:571-585`): QStash retries, and the job ends as
  failed.
- A failure notice whose first edit went unanswered is "not modified" the second time, and
  is then logged without an edit date (`processor.py:971-981`, `721-730`): the history may
  take it for older than the answer it replaced in the chat, and the notice is still
  recorded as delivered.
- The release at the end of a delivery may fail and nobody is told
  (`processor.py:1178-1181`): QStash's next delivery finds the job busy until the lease
  expires.
- A worker that wakes after its lease expired, between its history record and the check
  that follows, removes the record by message id (`processor.py:350-355`), also when the
  next owner has written it again.
- A reply to the bot that has neither text nor picture gets a job, but its trigger is
  refused; every repetition ends in 503. The same happens when a lobotomy comes between an
  abandoned call and its repetition: the job's epoch is the old one.
- The reset of a `/lobotomy` comes before its marker, so that a repetition resets again.
- Two overlapping calls may see different rules; one acknowledges the update, and the job
  of the other stays unpublished.
- A name given up by its last owner goes back to the one before, on a late observation.
- The tombstone of a deleted user ends with the first newer message; a deletion that finds
  the memory's lock taken does nothing and is reported as done; a message that finds the
  chat's lock taken is never gathered.
- A reset that stalls for longer than its 60 s lock between reading the epoch and setting
  it (`memory/store.py:666-667`, `636`) sets the epoch another reset has set meanwhile, or
  sets it back; what a writer stores from before this reset is shown after it.
- A repeated original replaces the gathered entry of its edit, and an observation of the
  original that is still queued survives the edit.
- An edit to a blank leaves no trace of its version in the history; a repeated message is
  stamped with the epoch of its repetition.
- An update of a rule that was deleted meanwhile writes it back; a read between whose round
  trips something is deleted reports corruption.
- A call of the scheduler that dies between marker and job costs the slot its message; a
  message checked before 01:00 is sent after it; a lobotomy between the two reads of the
  epoch passes unnoticed.
- An edit of a purged user's message stores it in the history again (`webhook.py:300-310`):
  the tombstone is looked up under the edit's own update id. A repetition of a purged update
  creates its job anew, and the bot answers it once more, unlogged.
- Receipts of a deletion belong to one index, and to no deletion in particular, so that two
  at once can drop each other's; a job stored after the listing keeps purged messages in its
  snapshot.

## What is proved

TLAPS checks the theorems below for all constants that satisfy the modules' assumptions
(`JobStoreAssumption`, `EnqueueAssumption`, ...: limits are at least one, ids that stand
for "none" are none of the values, sets of slugs are finite). Each module is one inductive
invariant: its properties, strengthened by what a process knows at each of its steps.

- `JobStoreProofs`: every safety property of `JobStore`, those that `JobStore_safety`
  checks among them, and `Refinement == Spec => ImplementsLifecycle`. `IInv` is the
  invariants and `WorkedOnWasAttempted`, without which an intent could carry fence 0. None
  of them is inductive alone: that a lease's fence is the job's needs the working state to
  exclude takeovers with a lease on record; that intents are of some attempt needs the
  fence to count attempts; that only failed jobs owe notices needs the placeholder to be
  the checkpointed one. Fencing needs one more idea: a step keeps the lease, drops it, or
  draws a token no issued lease has (`LeaseStep`), so a lease that is not the one on record
  never becomes it again. The refinement adds `AbsentIsBlank`.
- `EnqueueProofs`: every safety property of `Enqueue`, for every mixture of kinds, and
  `EnqueueRefinesIntake`. `EnqueueInv` adds `CallIsSound`, what a call has established
  about its update at each step (the message is stored, the job published, the QStash id
  really given), and shows that no overlapping call, purge or lobotomy takes it away: a
  purge that empties the history leaves the tombstone in its stead (`Stored`). That tone
  commands apply once needs `MarkersAreSound`: no receipt without a marker, no effect
  without a receipt. `PublicationsOnce` assumes that QStash forgets no deduplication id.
- `DeliveryProofs`: every safety property of `Delivery`, for any number of deliveries,
  callbacks, steps and faults, in any scenario. `DeliveryUsesTheStore == DeliverySpec =>
  Spec` comes first: what is proved of the store holds of the store inside a delivery, its
  life cycle included. `DeliveryInv` has 28 parts, because none of the properties holds for
  a reason of its own. `EveryMessageOnce` rests on `PostedOnce` (at most one invocation has
  posted a step's message or may), this on `PostedUnderIntent` (whoever may is named by the
  intent's fence), this on `LeasesAreDistinct` (no two invocations were given one fence) and
  on `AnnouncedFirst` and `UnrecordedWhileOwned`, which say that what an invocation
  remembers of intent and checkpoint is still so when it acts on it. `OnlySavedAnswers` is
  `AnswersAgree`, over everything said: chat, wire, history and what invocations are about
  to say. `DeliveredMeansComplete` and `DeliveredMeansLogged` follow each invocation's
  steps (`StepsAreRecorded`, `StepsAreLogged`: what is behind it is on record, in the chat
  and in the history); the second needs `NobodyIsRobbed`, that without stalls only a purge
  takes a job from its worker. The proof does not go through all actions once for each
  part: `AgentMoves`, `JobMoves` and `WorldMoves` describe once what a step may do to an
  invocation, to the job's record and to chat, wire and history, and the parts are argued
  from these descriptions. TLC has checked `DeliveryInv` on the instances of
  `Delivery_safety` and `Delivery_image`. `DeliveryAssumption` asks for at least one
  delivery, steps with names of their own, and texts that can be told apart. A delivery
  takes the next token of a finite supply; that the supply suffices is a bound of the
  instances, not an assumption.
- `HistoryProofs`: types with the limit, expiry, versions, purge marks. The list stays
  within its limit because a record's position from the newest numbers the records.
  `Convergence == HistorySpec => []Converged`. The list forgets what it
  evicts, so that it is the newest of all that was ever stored is not obvious; it rests on
  `TopOfTop` (the newest of the newest and one more are the newest of all), on the limit
  being full whenever something was evicted (`TopIsFull`), and on time stamps below the
  cutoff staying below it. The invariant, `ConvergesUntilCleared`, is void once something
  was removed on purpose.
- `SchedulerProofs`: the types, and that a job recorded as published was
  (`RecordsAreTrue`). `SchedulerInv` adds that a slot with a message keeps its job as sent,
  and that a call about to record has published.
- `MemoryProofs`: every property of `Memory` that `Memory_writes` checks, for any number
  of users, processes, updates, resets, deletions and faults. `MemoryInv` adds to the
  types who holds the locks (`LocksAreHeld`: whoever is inside has the chat's, unless it
  has outlived it), how the epoch grows (`ResetsRaise`: a reset sets at most one more than
  the number of resets before it, and that only if each of them had set its own, so two
  that have set the same are never made good), what everything carries
  (`EverythingIsDated`: as long as they have, jobs, queued observations, processes and
  entries have the epoch they were born in), what the steps of a writer rest on
  (`TombstonesStand`: the tombstone is lifted before anything is stored;
  `PlansAreCurrent`: what is about to be stored is of the current epoch;
  `RecordedAreShown`: it drops nothing that was recorded but what it means to drop) and
  who is about to change the index (`IndexIsKnown`). The proof says once what a step may
  do: one process, alone inside, writes what they share, or nothing shared changes and
  every process moves `Quietly` (`Moves`); the parts are argued from these two cases. What
  a writer makes of a shard is `PlannedShard`, over any shard and any limit. TLC has
  checked `MemoryInv`, but for its types, on the instance of `Memory_writes`.
  `MemoryAssumption` asks for finitely many processes, positive time stamps, and former
  shards of the first epoch.
- `RegistryProofs`: of `Directory`, one owner per name and the two ordering properties;
  `DirectoryInv` is the type and the agreement of alias and profile in both directions. Of
  `Catalog`, every property; `CatalogInv` adds `UpdatesAreAllowed`, what an
  administrator's pending update may be. `RegistryComposes` makes them theorems about the
  store that has both, and `DeletionsAreWhole` needs both: only a deletion takes a profile,
  and the index it walks leads to every member.
- `PrivacyProofs`: the types, for any number of deletions at once; `ReceiptsKeepAnswers` and
  `SuccessIsClean`, for one that dies and is repeated any number of times, over any updates
  and any number of calls of each. `JobsAreSound` says that a job is erased only under the
  tombstone of its update, so that nothing created anew for the update has an answer in the
  history; `PurgeIsSound` follows the deletion's steps: until the history is filtered, every
  answer left of an erased job is in the receipt and in its hands.

Only model-checked: liveness (`JobEnds`, `UpdatesComplete`, `BegunSlotIsServed`,
`OpenJobIsServed`), which the prover does not do. Every other property that a passing run
checks is a theorem. Not established by either, but by reading: that the Lua scripts and
the Python backend of the job store agree (they do, operation by operation, on every guard
modelled). Assumed: a Redis script is atomic.

## Not modelled

- Pure functions over data: parsing of updates and commands, addressing and triggers, the
  choice of a rule (`rules.resolve`), prompts, text splitting, citations, HTML, the
  selection of memory for a prompt.
- Sign-in (`auth/`), server wiring, settings, metrics, body limits and the one-shot scripts:
  they keep no state that another step depends on, but for cookies and caches.
- Of what is modelled: the search stage of `/google` and snapshots rejected by their kind
  (`Delivery`); a publication that QStash accepts after the caller gave up on it; the
  roster commands; the removal or purge of a job under the scheduler's hands; the expiry of
  tombstones, receipts and markers, all of which outlast the protocols they serve; lease
  deadlines as numbers.
