------------------------------ MODULE History -------------------------------
(***************************************************************************)
(* The chat's capped history: src/app/store/history.py and the scripts it  *)
(* runs in src/app/store/redis.py (list_upsert_json, list_prune_json,      *)
(* list_privacy_filter, list_remove_message_ids).  Each script is atomic;  *)
(* what is hard is the order they come in.                                 *)
(*                                                                         *)
(* The list in Redis is sorted by (ts, message_id), so it is modelled as   *)
(* the set of its records.  A version stands for the tuple of              *)
(* _record_version: 0 is the original, an edit has a greater one.          *)
(***************************************************************************)
EXTENDS Integers, FiniteSets

CONSTANTS
  Messages,   \* Telegram message ids
  When,       \* the ts of a message
  Author,     \* its sender, Bot for an answer
  Quotes,     \* the user in its reply_to, or Nobody
  Source,     \* the message whose update it was stored for: itself, or the
              \* one a job answers
  Jobs,       \* the messages that got a job
  Users,
  Bot,
  Nobody,
  MaxVersion, \* bound on the versions of a message
  Limit,      \* HISTORY_LIMIT
  Retention,  \* HISTORY_RETENTION_SECONDS
  MaxClock,   \* bound on the seconds that pass
  MaxResets,  \* bound on lobotomies
  Removals    \* which removals happen: blank, purge, all

ASSUME HistoryAssumption ==
  /\ Messages \subseteq Nat /\ Jobs \subseteq Messages
  /\ When \in [Messages -> Nat]
  /\ Source \in [Messages -> Messages]
  /\ {MaxVersion, MaxClock, MaxResets} \subseteq Nat
  /\ Limit \in Nat \ {0} /\ Retention \in Nat \ {0}
  /\ Bot \notin Users /\ Nobody \notin Users \cup {Bot}

Versions == 0..MaxVersion

Records == [id : Messages, version : Versions, epoch : 0..MaxResets, quote : BOOLEAN]

VARIABLES
  list,     \* hist:<chat>
  expiry,   \* when the key expires
  blocked,  \* privacy:job:<update>, by the message of the update
  epoch,    \* memory:epoch:<chat>
  clock,
  \* History variables.
  stored,   \* messages and versions ever given to upsert and not blocked
  cleared,  \* whether anything was removed by other than age and limit
  purged    \* users and blocked jobs of theirs when their records were filtered out

historyVars == <<list, expiry, blocked, epoch, clock, stored, cleared, purged>>

-----------------------------------------------------------------------------
(* The order of records, and the newest of them.                           *)

\* _record_position.
Before(r, s) == When[r.id] < When[s.id] \/ (When[r.id] = When[s.id] /\ r.id < s.id)

\* Mutant: the limit is one too large.
NewestAndOne(S) == {r \in S : Cardinality({s \in S : Before(r, s)}) <= Limit}

Newest(S) == {r \in S : Cardinality({s \in S : Before(r, s)}) < Limit}

\* A record older than this is not usable.
Cutoff == clock - Retention

Usable(S) == {r \in S : When[r.id] >= Cutoff}

\* Mutant: the record that came last is taken.
SelectedIsLast(r) == r

\* The stored record of the same message, if it is newer; a repetition of
\* the same version replaces it.
Selected(r) ==
  IF \E s \in list : s.id = r.id /\ s.version > r.version
  THEN CHOOSE s \in list : s.id = r.id /\ s.version > r.version
  ELSE r

-----------------------------------------------------------------------------
\* The record carries the update id of a job: the original of the trigger,
\* and whatever the bot answered in whichever version.  An edit of the
\* trigger is an update of its own, which no job was made for.
OfJob(m, v) == Source[m] \in Jobs /\ (v = 0 \/ Author[m] = Bot)

\* Mutant: the tombstone of a deleted job is not looked at.
UpsertUnblocked(m, v, e) ==
  LET r == [id |-> m, version |-> v, epoch |-> e, quote |-> Quotes[m] # Nobody] IN
  /\ When[m] <= clock
  /\ e <= epoch
  /\ list' = Newest(Usable({s \in list : s.id # m} \cup {Selected(r)}))
  /\ expiry' = clock + Retention
  /\ stored' = stored \cup {<<m, v>>}
  /\ UNCHANGED <<blocked, epoch, clock, cleared, purged>>

\* history.upsert: the record of a version of a message, unless it is of a
\* job with a tombstone.  Its epoch is the job's, or the one the webhook read
\* in a round trip of its own just before.
Upsert(m, v, e) ==
  LET r == [id |-> m, version |-> v, epoch |-> e, quote |-> Quotes[m] # Nobody] IN
  /\ When[m] <= clock
  /\ e <= epoch
  /\ ~(OfJob(m, v) /\ Source[m] \in blocked)
  /\ list' = Newest(Usable({s \in list : s.id # m} \cup {Selected(r)}))
  /\ expiry' = clock + Retention
  /\ stored' = stored \cup {<<m, v>>}
  /\ UNCHANGED <<blocked, epoch, clock, cleared, purged>>

\* history.recent: what is too old is removed, the expiry stays.
Prune ==
  /\ list' = Usable(list)
  /\ UNCHANGED <<expiry, blocked, epoch, clock, stored, cleared, purged>>

\* An edit that leaves the message v without text removes it.
RemoveBlank(m, v) ==
  /\ "blank" \in Removals
  /\ When[m] <= clock /\ v > 0
  /\ list' = {r \in list : r.id # m}
  /\ cleared' = TRUE
  /\ UNCHANGED <<expiry, blocked, epoch, clock, stored, purged>>

\* purge_index, for the jobs whose request contains the user.
Concerns(m, u) == Author[m] = u \/ Quotes[m] = u

BlockJobs(u) ==
  /\ "purge" \in Removals
  /\ blocked' = blocked \cup {m \in Jobs : When[m] <= clock /\ Concerns(m, u)}
  /\ UNCHANGED <<list, expiry, epoch, clock, stored, cleared, purged>>

\* history.purge_user, with the ids of the answers of the purged jobs.
Filter(u) ==
  /\ "purge" \in Removals
  /\ \A m \in Jobs : When[m] <= clock /\ Concerns(m, u) => m \in blocked
  /\ list' = {[r EXCEPT !.quote = @ /\ Quotes[r.id] # u] :
                r \in {s \in list : /\ Author[s.id] # u
                                    /\ Author[s.id] = Bot => Source[s.id] \notin blocked}}
  /\ purged' = purged \cup ({u} \X {m \in blocked : Concerns(m, u)})
  /\ cleared' = TRUE
  /\ UNCHANGED <<expiry, blocked, epoch, clock, stored>>

\* history.purge_all.
PurgeAll ==
  /\ "all" \in Removals
  /\ list' = {}
  /\ cleared' = TRUE
  /\ UNCHANGED <<expiry, blocked, epoch, clock, stored, purged>>

\* /lobotomy raises the epoch and leaves the history.
Reset ==
  /\ epoch < MaxResets
  /\ epoch' = epoch + 1
  /\ UNCHANGED <<list, expiry, blocked, clock, stored, cleared, purged>>

\* Redis expires the key.
Expire ==
  /\ clock >= expiry
  /\ list # {}
  /\ list' = {}
  /\ UNCHANGED <<expiry, blocked, epoch, clock, stored, cleared, purged>>

Tick ==
  /\ clock < MaxClock
  /\ clock' = clock + 1
  /\ UNCHANGED <<list, expiry, blocked, epoch, stored, cleared, purged>>

HistoryInit ==
  /\ list = {}
  /\ expiry = 0
  /\ blocked = {}
  /\ epoch = 0
  /\ clock = 0
  /\ stored = {}
  /\ cleared = FALSE
  /\ purged = {}

HistoryNext ==
  \/ \E m \in Messages, v \in Versions, e \in 0..MaxResets : Upsert(m, v, e)
  \/ Prune
  \/ \E m \in Messages, v \in Versions : RemoveBlank(m, v)
  \/ \E u \in Users : BlockJobs(u) \/ Filter(u)
  \/ PurgeAll \/ Reset \/ Expire \/ Tick

HistorySpec == HistoryInit /\ [][HistoryNext]_historyVars

-----------------------------------------------------------------------------
(* Properties.                                                             *)

HistoryTypeOK ==
  /\ list \subseteq Records
  /\ Cardinality(list) <= Limit
  /\ \A r, s \in list : r.id = s.id => r = s
  /\ expiry \in Nat /\ epoch \in 0..MaxResets /\ clock \in 0..MaxClock
  /\ blocked \subseteq Jobs /\ purged \subseteq Users \X Jobs

\* The newest version of every message stored so far.
Latest == {p \in stored : \A q \in stored : q[1] = p[1] => q[2] <= p[2]}

\* Until something is removed, the usable history is the newest of all that was
\* stored, each message in its newest version, whatever the order it came
\* in: a late message that is too old is not taken for a newer one, an edit
\* of an evicted message does not bring it back, and no newer one is missing.
\* (In the second of the cutoff itself the key may have expired before its
\* last record.)
Converged ==
  ~cleared =>
  LET newest == {p \in Latest :
        Cardinality({q \in Latest : When[p[1]] < When[q[1]]
                       \/ (When[p[1]] = When[q[1]] /\ p[1] < q[1])}) < Limit} IN
  {<<r.id, r.version>> : r \in {s \in list : When[s.id] > Cutoff}}
    = {p \in newest : When[p[1]] > Cutoff}

\* A record in the list never goes back to an older version.
NeverRolledBack ==
  [][\A r \in list, s \in list' : r.id = s.id => s.version >= r.version]_historyVars

\* The key outlives its records: what expires with it was not usable, but
\* for the record of the very second of the cutoff.
ExpiryCoversRecords == \A r \in list : When[r.id] + Retention <= expiry

\* Once a user is purged, the triggers of his jobs as they were first written,
\* and every version of the answers to them, stay out of the history, and
\* quotations of him in them redacted, whatever write was still on its way or
\* is repeated.  Only an edit of a trigger, an update of its own that no
\* tombstone names, puts the message into the history again.
BlockedStaysOut ==
  \A u \in Users, r \in list :
    <<u, Source[r.id]>> \in purged =>
      /\ Author[r.id] # Bot
      /\ r.version = 0 => /\ Author[r.id] # u
                          /\ Quotes[r.id] = u => ~r.quote

=============================================================================
