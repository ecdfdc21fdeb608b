------------------------------ MODULE Privacy -------------------------------
(***************************************************************************)
(* The privacy purge of a user or of the whole chat, over several jobs:    *)
(* user_delete and logs_delete of src/app/admin/routes.py, purge_index of  *)
(* src/app/store/jobs.py and the receipts it keeps, while webhooks create  *)
(* jobs and workers answer them.  A purge is a sequence of round trips; it *)
(* may die at any of them, and the administrator asks again.               *)
(*                                                                         *)
(* Telegram repeats an update, and its calls overlap, so a job that was    *)
(* erased may be created again.  The store knows it by its update, as it   *)
(* did the first; here a job is named after the call that created it, and  *)
(* so is the bot's message that answers it.  An edit of the user's message *)
(* is an update of its own.  What a purge does besides, to profiles,       *)
(* memory and lists, is in the modules Directory, Memory and Catalog.      *)
(***************************************************************************)
EXTENDS Integers, FiniteSets

CONSTANTS
  Users,
  Updates,     \* Telegram updates that make a job, by which the store keys it
  Author,      \* the user whose message it is
  Calls,       \* calls of the webhook
  Update,      \* what they are calls for
  Edited,      \* the updates whose message the user edits, perhaps again
  Chat,        \* the index of the whole chat
  Purges,      \* the administrator's requests
  Targets,     \* what they may be asked to purge: an index for each of them
  NoUpdate,
  MaxCrashes   \* bound on the deaths of purges

Indexes == Users \cup {Chat}

ASSUME PrivacyAssumption ==
  /\ Author \in [Updates -> Users] /\ Update \in [Calls -> Updates]
  /\ Chat \notin Users /\ NoUpdate \notin Updates
  /\ Edited \subseteq Updates
  /\ Targets \subseteq [Purges -> Indexes]
  /\ MaxCrashes \in Nat

VARIABLES
  live,      \* the jobs in the store, at most one of an update
  erased,    \* history variable: the jobs a purge has erased
  quoted,    \* the other users in the context each call has read for a job
  webhook,   \* how far each call is
  worker,    \* how far the worker of each job is
  triggers,  \* history: the users' messages as first written, by their updates
  edits,     \* history: the users' messages in an edited version
  answers,   \* history: the records of the bot's messages, by their jobs
  receipt,   \* privacy:receipt:<index>: ids of the bot's messages
  tomb,      \* privacy:job:<update>
  target,    \* the index each purge is for
  purge,     \* the purges under way
  crashes    \* how many purges died

jobSide == <<live, erased, quoted, webhook, worker>>
historySide == <<triggers, edits, answers>>
purgeSide == <<receipt, tomb, target, purge, crashes>>
privacyVars == <<jobSide, historySide, purgeSide>>

NotBegun == [pc |-> "idle", todo |-> {}, at |-> NoUpdate, ids |-> {}, scope |-> {}]

PurgeStates == [pc : {"idle", "list", "jobs", "tomb", "erase", "receipt", "done"},
                todo : SUBSET Updates, at : Updates \cup {NoUpdate}, ids : SUBSET Calls,
                scope : SUBSET Calls]

\* The job is indexed under its author and under whoever its context quotes.
In(c, i) == i = Chat \/ i = Author[Update[c]] \/ i \in quoted[c]

\* The job the store has for the update.
Stored(u) == {c \in live : Update[c] = u}

\* The bot's messages whose checkpoints are in it.
Known(u) == {c \in Stored(u) : worker[c] \in {"checkpointed", "logged"}}

-----------------------------------------------------------------------------
(* Webhooks and workers.                                                   *)

\* The call finds the job of an earlier one and goes on to repair its
\* trigger, or reads the context of a new one.
Look(c) ==
  /\ webhook[c] = "idle"
  /\ IF Stored(Update[c]) = {}
     THEN /\ webhook' = [webhook EXCEPT ![c] = "read"]
          /\ quoted' = [quoted EXCEPT ![c] =
                          {Author[u] : u \in triggers \cup edits} \ {Author[Update[c]]}]
     ELSE /\ webhook' = [webhook EXCEPT ![c] = "created"]
          /\ UNCHANGED quoted
  /\ UNCHANGED <<live, erased, worker, historySide, purgeSide>>

\* It stores and indexes the job, unless another call has meanwhile: then
\* what it read is dropped.  The script asks for no tombstone: a job that was
\* erased is created anew.
CreateJob(c) ==
  /\ webhook[c] = "read"
  /\ webhook' = [webhook EXCEPT ![c] = "created"]
  /\ IF Stored(Update[c]) = {}
     THEN live' = live \cup {c} /\ UNCHANGED quoted
     ELSE quoted' = [quoted EXCEPT ![c] = {}] /\ UNCHANGED live
  /\ UNCHANGED <<erased, worker, historySide, purgeSide>>

\* _persist_job_trigger; the script writes nothing under a tombstone, and
\* nothing over the newer version of an edit.
Persist(c) ==
  /\ webhook[c] = "created"
  /\ webhook' = [webhook EXCEPT ![c] = "persisted"]
  /\ triggers' = triggers \cup ({Update[c]} \ (tomb \cup edits))
  /\ UNCHANGED <<live, erased, quoted, worker, edits, answers, purgeSide>>

\* _persist_incoming of an edit: its record has another update id, which no
\* tombstone names.
Edit(u) ==
  /\ edits' = edits \cup {u}
  /\ triggers' = triggers \ {u}
  /\ UNCHANGED <<jobSide, answers, purgeSide>>

\* The message is sent; its id is not stored yet.
SendAnswer(c) ==
  /\ worker[c] = "idle" /\ c \in live
  /\ worker' = [worker EXCEPT ![c] = "sent"]
  /\ UNCHANGED <<live, erased, quoted, webhook, historySide, purgeSide>>

\* The checkpoint is refused once the job is erased, also by a job that was
\* created anew, and the worker stops.
Checkpoint(c) ==
  /\ worker[c] = "sent"
  /\ worker' = [worker EXCEPT ![c] = IF c \in live THEN "checkpointed" ELSE "done"]
  /\ UNCHANGED <<live, erased, quoted, webhook, historySide, purgeSide>>

\* history.upsert in _history_upsert, under the update id of the job.
LogAnswer(c) ==
  /\ worker[c] = "checkpointed"
  /\ worker' = [worker EXCEPT ![c] = "logged"]
  /\ answers' = IF Update[c] \in tomb THEN answers ELSE answers \cup {c}
  /\ UNCHANGED <<live, erased, quoted, webhook, triggers, edits, purgeSide>>

\* The worker that has lost its job removes the record again.
GuardLog(c) ==
  /\ worker[c] = "logged" /\ c \notin live
  /\ worker' = [worker EXCEPT ![c] = "done"]
  /\ answers' = answers \ {c}
  /\ UNCHANGED <<live, erased, quoted, webhook, triggers, edits, purgeSide>>

-----------------------------------------------------------------------------
(* A purge.                                                                *)

\* The jobs of an index that were stored so far.
Made(i) == {c \in live \cup erased : In(c, i)}

\* Mutant: the repeated purge does not look for the receipts of the first.
BeginAnew(p) ==
  /\ purge[p].pc = "idle"
  /\ purge' = [purge EXCEPT ![p] = [NotBegun EXCEPT !.pc = "list", !.scope = Made(target[p])]]
  /\ UNCHANGED <<jobSide, historySide, receipt, tomb, target, crashes>>

\* The receipts that an earlier purge of the index has left.
Begin(p) ==
  /\ purge[p].pc = "idle"
  /\ purge' = [purge EXCEPT ![p] = [NotBegun EXCEPT !.pc = "list", !.ids = receipt[target[p]],
                                                    !.scope = Made(target[p])]]
  /\ UNCHANGED <<jobSide, historySide, receipt, tomb, target, crashes>>

\* index_job_ids.
ListJobs(p) ==
  /\ purge[p].pc = "list"
  /\ purge' = [purge EXCEPT ![p].pc = "jobs",
                            ![p].todo = {Update[c] : c \in {d \in live : In(d, target[p])}}]
  /\ UNCHANGED <<jobSide, historySide, receipt, tomb, target, crashes>>

\* The next job: skipped if it is gone, else the ids it has are put down in
\* the receipt, and all ids of the receipt are taken.
LookAt(p, u) ==
  LET i == target[p] IN
  /\ purge[p].pc = "jobs" /\ u \in purge[p].todo
  /\ IF Stored(u) # {}
     THEN /\ receipt' = [receipt EXCEPT ![i] = @ \cup Known(u)]
          /\ purge' = [purge EXCEPT ![p].pc = "tomb", ![p].at = u,
                                    ![p].ids = IF Known(u) # {} THEN @ \cup receipt'[i] ELSE @]
     ELSE /\ purge' = [purge EXCEPT ![p].todo = @ \ {u}]
          /\ UNCHANGED receipt
  /\ UNCHANGED <<jobSide, historySide, tomb, target, crashes>>

SetTombstone(p) ==
  /\ purge[p].pc = "tomb"
  /\ tomb' = tomb \cup {purge[p].at}
  /\ purge' = [purge EXCEPT ![p].pc = "erase"]
  /\ UNCHANGED <<jobSide, historySide, receipt, target, crashes>>

\* Mutant: the erased snapshot is only returned, its ids are in no receipt.
EraseWithoutReceipt(p) ==
  LET u == purge[p].at IN
  /\ purge[p].pc = "erase"
  /\ live' = live \ Stored(u) /\ erased' = erased \cup Stored(u)
  /\ purge' = [purge EXCEPT ![p].pc = "jobs", ![p].at = NoUpdate, ![p].todo = @ \ {u},
                            ![p].ids = @ \cup Known(u)]
  /\ UNCHANGED <<quoted, webhook, worker, historySide, receipt, tomb, target, crashes>>

\* The backend's purge: in one step the ids of the snapshot go into the
\* receipt and the job leaves the store and every index.
Erase(p) ==
  LET u == purge[p].at IN
  /\ purge[p].pc = "erase"
  /\ live' = live \ Stored(u) /\ erased' = erased \cup Stored(u)
  /\ receipt' = [receipt EXCEPT ![target[p]] = @ \cup Known(u)]
  /\ purge' = [purge EXCEPT ![p].pc = "jobs", ![p].at = NoUpdate, ![p].todo = @ \ {u},
                            ![p].ids = @ \cup Known(u)]
  /\ UNCHANGED <<quoted, webhook, worker, historySide, tomb, target, crashes>>

\* history.purge_user removes what the user wrote and the bot's messages
\* known by their ids, history.purge_all everything.
FilterHistory(p) ==
  LET i == target[p]
      own == {u \in Updates : i \in {Chat, Author[u]}}
  IN /\ purge[p].pc = "jobs" /\ purge[p].todo = {}
     /\ triggers' = triggers \ own
     /\ edits' = edits \ own
     /\ answers' = IF i = Chat THEN {} ELSE answers \ purge[p].ids
     /\ purge' = [purge EXCEPT ![p].pc = "receipt"]
     /\ UNCHANGED <<jobSide, receipt, tomb, target, crashes>>

\* The cleaning is complete; the rest of the deletion is idempotent.
DropReceipt(p) ==
  /\ purge[p].pc = "receipt"
  /\ receipt' = [receipt EXCEPT ![target[p]] = {}]
  /\ purge' = [purge EXCEPT ![p].pc = "done"]
  /\ UNCHANGED <<jobSide, historySide, tomb, target, crashes>>

\* The store fails or the process ends: an error, and the whole is repeated.
Crash(p) ==
  /\ purge[p].pc \notin {"idle", "done"} /\ crashes < MaxCrashes
  /\ purge' = [purge EXCEPT ![p] = NotBegun]
  /\ crashes' = crashes + 1
  /\ UNCHANGED <<jobSide, historySide, receipt, tomb, target>>

-----------------------------------------------------------------------------

PrivacyInit ==
  /\ live = {} /\ erased = {}
  /\ quoted = [c \in Calls |-> {}]
  /\ webhook = [c \in Calls |-> "idle"]
  /\ worker = [c \in Calls |-> "idle"]
  /\ triggers = {} /\ edits = {} /\ answers = {} /\ tomb = {}
  /\ receipt = [i \in Indexes |-> {}]
  /\ target \in Targets
  /\ purge = [p \in Purges |-> NotBegun]
  /\ crashes = 0

JobStep(c) ==
  \/ Look(c) \/ CreateJob(c) \/ Persist(c)
  \/ SendAnswer(c) \/ Checkpoint(c) \/ LogAnswer(c) \/ GuardLog(c)

PurgeStep(p) ==
  \/ Begin(p) \/ ListJobs(p)
  \/ \E u \in Updates : LookAt(p, u)
  \/ SetTombstone(p) \/ Erase(p)
  \/ FilterHistory(p) \/ DropReceipt(p)
  \/ Crash(p)

PrivacyNext ==
  \/ \E c \in Calls : JobStep(c)
  \/ \E u \in Edited : Edit(u)
  \/ \E p \in Purges : PurgeStep(p)

PrivacySpec == PrivacyInit /\ [][PrivacyNext]_privacyVars

-----------------------------------------------------------------------------
(* Properties.                                                             *)

\* Jobs, records and purges have their types, and a purge has a job at hand
\* only while it deals with it.
PrivacyTypeOK ==
  /\ live \subseteq Calls /\ erased \subseteq Calls
  /\ quoted \in [Calls -> SUBSET Users]
  /\ webhook \in [Calls -> {"idle", "read", "created", "persisted"}]
  /\ worker \in [Calls -> {"idle", "sent", "checkpointed", "logged", "done"}]
  /\ triggers \subseteq Updates /\ edits \subseteq Updates /\ answers \subseteq Calls
  /\ tomb \subseteq Updates
  /\ receipt \in [Indexes -> SUBSET Calls]
  /\ purge \in [Purges -> PurgeStates]
  /\ crashes \in 0..MaxCrashes
  /\ \A p \in Purges : purge[p].pc \in {"tomb", "erase"} <=> purge[p].at \in purge[p].todo

\* When a purge is answered as a success, and ever after: every job of the
\* index that was stored when it began is erased.  The history holds no
\* answer to it, nor to a job that a repeated or overlapping call of its
\* update has created since, and not the user's message as first written,
\* although such calls write the record again.  (The message is there again
\* once the user edits it: that is another update.)
CleanAfterPurge ==
  \A p \in Purges : purge[p].pc = "done" =>
    \A c \in purge[p].scope :
      /\ c \notin live
      /\ \A d \in answers : Update[d] # Update[c]
      /\ target[p] \in {Chat, Author[Update[c]]} => Update[c] \notin triggers

\* Whatever dies when: a message in the history whose job is erased is known
\* to a purge that has not done with it, or to a receipt, so that the purge
\* that is repeated finds it.
ReceiptsCoverAnswers ==
  \A c \in answers \cap erased :
    \/ \E i \in Indexes : c \in receipt[i]
    \/ \E p \in Purges : purge[p].pc # "done" /\ c \in purge[p].ids

=============================================================================
