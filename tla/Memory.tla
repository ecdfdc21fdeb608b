------------------------------- MODULE Memory -------------------------------
(***************************************************************************)
(* Gathered memory: src/app/memory/store.py, with its callers in           *)
(* telegram/webhook.py (_persist_incoming, _persist_job_trigger),          *)
(* memory/images.py and admin/routes.py.  One chat is configured.          *)
(*                                                                         *)
(* Every participant has a shard, a list of entries in Redis.  Whoever     *)
(* writes takes the chat's lock and the user's, both with an expiry, reads *)
(* the shard, and stores it changed; every step of a process below is one  *)
(* request to Redis.  A process is a webhook call, a thread of the pool    *)
(* that extracts observations, a worker that describes a picture, a        *)
(* /lobotomy or a request of the admin panel.                              *)
(***************************************************************************)
EXTENDS Integers, Sequences, FiniteSets

CONSTANTS
  Users,
  Updates,   \* records: user, msg, ts, text, edited, job, image
  Traffic,   \* sets of updates: those Telegram may have to deliver
  Procs,
  Fact,      \* what the model extracts from a message
  Legacy,    \* an entry under the former key of its user, from before
  MaxItems,  \* MAX_GATHERED_ITEMS
  MaxClock,  \* bound on the seconds that pass
  MaxResets, \* bound on resets
  MaxPurges, \* bound on deletions of users
  MaxFaults, \* bound on abandoned processes and expired locks of live ones
  Hazards,   \* which faults: crash, stall
  Nobody,    \* no holder
  Dead       \* a holder that is no more

Entries(s) == {s[i] : i \in DOMAIN s}

\* What entries come from.
Origins == Updates \cup UNION {Entries(Legacy[u]) : u \in Users}

\* born: how often the memory had been reset when the work was given out that
\* made the entry (history).
EntryType ==
  [kind : {"message", "image", "observation"}, msg : {x.msg : x \in Origins},
   ts : {x.ts : x \in Origins}, text : {x.text : x \in Origins} \cup {Fact},
   epoch : Nat, born : Nat, analysed : BOOLEAN]

\* No two entries are of one message, but for observations.
OneEach(s) ==
  \A i, j \in DOMAIN s :
    s[i].kind # "observation" /\ s[j].kind # "observation" /\ s[i].msg = s[j].msg => i = j

\* What a shard may be.
Shards == {s \in Seq(EntryType) : Len(s) <= MaxItems /\ OneEach(s)}

ASSUME MemoryAssumption ==
  /\ \A x \in Updates : /\ x.user \in Users
                        /\ x.ts \in Nat \ {0}
                        /\ {x.edited, x.job, x.image} \subseteq BOOLEAN
  /\ Traffic \subseteq SUBSET Updates
  /\ IsFiniteSet(Procs)
  /\ MaxItems \in Nat \ {0}
  /\ \A u \in Users : /\ Legacy[u] \in Shards
                      /\ \A e \in Entries(Legacy[u]) : /\ e.ts \in Nat \ {0}
                                                         /\ e.born = e.epoch
  /\ MaxClock \in Nat \ {0}
  /\ {MaxResets, MaxPurges, MaxFaults} \subseteq Nat
  /\ Nobody \notin Procs /\ Dead \notin Procs /\ Nobody # Dead

VARIABLES
  shard,     \* memory:gathered<user>; the empty list when there is no key
  legacy,    \* memory:gathered:<chat>:<user>
  index,     \* memory:gathered:index:<chat>
  epoch,     \* memory:epoch:<chat>
  tombstone, \* memory:gathered:tombstone:<chat>:<user>; 0 when there is none
  chatLock,  \* memory:gathered:chat-lock:<chat>
  userLock,  \* memory:gathered:lock:<chat>:<user>
  job,       \* memory_epoch in the request of an update's job; born -1: no job
  pool,      \* observations submitted to the executor
  proc,      \* the processes
  clock,
  sent,      \* the updates of this behaviour
  acked,     \* the updates Telegram got the answer 200 for
  purges,
  faults,
  \* History variables.
  resets,    \* how often a reset has set the epoch
  recorded,  \* updates whose entry was stored and not superseded since
  outlived,  \* whether a lock has expired under a process that goes on
  lateReset  \* whether one has under a reset

shardSide == <<shard, legacy, index, epoch, tombstone, resets, recorded>>
lockSide == <<chatLock, userLock>>
stalls == <<outlived, lateReset>>
worldSide == <<job, pool, clock, sent, acked, purges, faults, stalls>>
memoryVars == <<shardSide, lockSide, worldSide, proc>>

Ops == {"idle", "invalidate", "record", "observe", "attach", "reset", "purge"}

\* born: how often the memory had been reset when the process was given its
\* work (history); expected: the epoch a writer began in, or the one a reset
\* is about to set; plan: the shard to be stored, or the users to clear.
Idle == [op |-> "idle", pc |-> "idle", update |-> Nobody, user |-> Nobody,
         expected |-> 0, born |-> 0, text |-> Nobody, plan |-> <<>>]

NoJob == [epoch |-> 0, born |-> -1]

IsIdle(p) == proc[p].op = "idle"

Task(p, op, pc) == proc[p].op = op /\ proc[p].pc = pc

Goto(p, pc) == proc' = [proc EXCEPT ![p].pc = pc]

\* Mutant: one entry too many is kept.
NewestAndOne(s) ==
  IF Len(s) > MaxItems THEN SubSeq(s, Len(s) - MaxItems, Len(s)) ELSE s

\* _normalize_observations keeps the newest; the limit on characters, which
\* drops from the same end, is not told apart.
Newest(s) == IF Len(s) > MaxItems THEN SubSeq(s, Len(s) - MaxItems + 1, Len(s)) ELSE s

\* The entries of s at some of its positions, in their order: the n-th is at
\* the position that is the n-th of them.
Keep(s, at) ==
  [n \in 1..Cardinality(at) |->
     s[CHOOSE i \in at : Cardinality({j \in at : j <= i}) = n]]

\* gathered_for_user: the entries of the current epoch.
Visible(u) ==
  LET s == IF shard[u] # <<>> THEN shard[u] ELSE legacy[u]
  IN  Keep(s, {i \in DOMAIN s : s[i].epoch = epoch})

-----------------------------------------------------------------------------
(* Work is given out.                                                      *)

\* A call for an update; job: the call creates the job or finds it.  Edits
\* first drop what was gathered from the message.
Deliver(p, x) ==
  LET found == IF x.job /\ job[x].born >= 0 THEN job[x]
               ELSE [epoch |-> epoch, born |-> resets] IN
  /\ IsIdle(p)
  /\ x \in sent \ acked
  /\ x.ts <= clock
  /\ proc' = [proc EXCEPT ![p] =
       [Idle EXCEPT !.op = IF x.edited THEN "invalidate" ELSE "record",
                    !.pc = "chat", !.update = x, !.user = x.user,
                    !.expected = found.epoch, !.born = found.born]]
  /\ job' = IF x.job THEN [job EXCEPT ![x] = found] ELSE job
  /\ UNCHANGED <<shardSide, lockSide, pool, clock, sent, acked, purges, faults, stalls>>

\* Mutant: the epoch is read by the thread, not when the work is submitted.
StartObservationNow(p, o) ==
  /\ IsIdle(p)
  /\ o \in pool
  /\ pool' = pool \ {o}
  /\ proc' = [proc EXCEPT ![p] =
       [Idle EXCEPT !.op = "observe", !.pc = "chat", !.update = o.update,
                    !.user = o.update.user, !.expected = epoch,
                    !.born = o.born, !.text = Fact]]
  /\ UNCHANGED <<shardSide, lockSide, job, clock, sent, acked, purges, faults, stalls>>

\* A thread of the pool starts on an observation: the model's extraction, or
\* the message's own text when the model is not available.
StartObservation(p, o) ==
  /\ IsIdle(p)
  /\ o \in pool
  /\ pool' = pool \ {o}
  /\ \E t \in {Fact, o.update.text} :
       proc' = [proc EXCEPT ![p] =
         [Idle EXCEPT !.op = "observe", !.pc = "chat", !.update = o.update,
                      !.user = o.update.user, !.expected = o.epoch,
                      !.born = o.born, !.text = t]]
  /\ UNCHANGED <<shardSide, lockSide, job, clock, sent, acked, purges, faults, stalls>>

\* analyze_image in a worker, unless the entry has its analysis.
StartAnalysis(p, x) ==
  /\ IsIdle(p)
  /\ x.image /\ job[x].born >= 0
  /\ ~\E e \in Entries(Visible(x.user)) : e.msg = x.msg /\ e.analysed
  /\ proc' = [proc EXCEPT ![p] =
       [Idle EXCEPT !.op = "attach", !.pc = "chat", !.update = x, !.user = x.user,
                    !.expected = job[x].epoch, !.born = job[x].born]]
  /\ UNCHANGED <<shardSide, lockSide, worldSide>>

\* /lobotomy, or the deletion of the logs.
StartReset(p) ==
  /\ IsIdle(p)
  /\ resets < MaxResets
  /\ proc' = [proc EXCEPT ![p] = [Idle EXCEPT !.op = "reset", !.pc = "chat"]]
  /\ UNCHANGED <<shardSide, lockSide, worldSide>>

\* user_delete in the admin panel.
StartPurge(p, u) ==
  /\ IsIdle(p)
  /\ purges < MaxPurges
  /\ purges' = purges + 1
  /\ proc' = [proc EXCEPT ![p] = [Idle EXCEPT !.op = "purge", !.pc = "chat", !.user = u]]
  /\ UNCHANGED <<shardSide, lockSide, job, pool, clock, sent, acked, faults, stalls>>

Tick ==
  /\ clock < MaxClock
  /\ clock' = clock + 1
  /\ UNCHANGED <<shardSide, lockSide, job, pool, sent, acked, purges, faults, stalls, proc>>

-----------------------------------------------------------------------------
(* What follows an operation, done or not.                                 *)

\* Telegram has its answer; the plain path has submitted an observation,
\* unless the pool had no slot free, or the message is an edit.
Answer(p) ==
  LET x == proc[p].update IN
  /\ acked' = acked \cup {x}
  /\ proc' = [proc EXCEPT ![p] = Idle]
  /\ \/ pool' = pool
     \/ /\ ~x.job /\ ~x.edited
        /\ pool' = pool \cup {[update |-> x, epoch |-> epoch, born |-> resets]}

\* An edit whose invalidation is over is recorded in its turn, with the
\* epoch read anew.
ThenRecord(p) ==
  /\ proc' = [proc EXCEPT ![p].op = "record", ![p].pc = "chat", ![p].plan = <<>>,
                          ![p].expected = epoch, ![p].born = resets]
  /\ UNCHANGED <<acked, pool>>

StopWork(p) == proc' = [proc EXCEPT ![p] = Idle] /\ UNCHANGED <<acked, pool>>

\* What an operation that failed leads to: the plain path takes no notice;
\* a job's trigger must be stored, and the call is refused.
Continue(p, ok) ==
  LET q == proc[p] IN
  CASE q.op = "invalidate" -> ThenRecord(p)
    [] q.op = "record" /\ (ok \/ ~q.update.job) -> Answer(p)
    [] OTHER -> StopWork(p)

-----------------------------------------------------------------------------
(* The locks.                                                              *)

Locked(p) ==
  /\ chatLock' = p
  /\ Goto(p, IF proc[p].op \in {"reset", "purge"} THEN "first" ELSE "user")
  /\ UNCHANGED <<shardSide, userLock, worldSide>>

\* set_nx on the chat's lock; whoever finds it taken gives up at once.
TakeChatLock(p) ==
  /\ proc[p].pc = "chat"
  /\ \/ chatLock = Nobody /\ Locked(p)
     \/ /\ chatLock # Nobody
        /\ Continue(p, FALSE)
        /\ UNCHANGED <<shardSide, lockSide, job, clock, sent, purges, faults, stalls>>

\* delete_if_value: a lock is deleted only with its own token.
Free(p) ==
  /\ chatLock' = IF chatLock = p THEN Nobody ELSE chatLock
  /\ userLock' = [u \in Users |-> IF userLock[u] = p THEN Nobody ELSE userLock[u]]

\* Leaving the with block ends the operation.
Leave(p, ok) ==
  /\ Continue(p, ok) /\ Free(p)
  /\ UNCHANGED <<shardSide, job, clock, sent, purges, faults, stalls>>

TakeUserLock(p) ==
  /\ proc[p].pc = "user"
  /\ IF userLock[proc[p].user] = Nobody
     THEN /\ userLock' = [userLock EXCEPT ![proc[p].user] = p]
          /\ Goto(p, IF proc[p].op \in {"record", "observe"} THEN "tombstone" ELSE "read")
          /\ UNCHANGED <<shardSide, chatLock, worldSide>>
     ELSE Leave(p, FALSE)

-----------------------------------------------------------------------------
(* The writers: record_message, _write_observation, attach_image_analysis  *)
(* and invalidate_source_message.                                          *)

\* Mutant: the tombstone is not looked at.
TombstoneIgnored(p) ==
  /\ proc[p].pc = "tombstone"
  /\ Goto(p, "read")
  /\ UNCHANGED <<shardSide, lockSide, worldSide>>

\* record_message compares the epoch before the tombstone; for an observation
\* the comparison after the reading does as well.
Tombstone(p) ==
  LET q == proc[p] IN
  /\ q.pc = "tombstone"
  /\ IF (q.op = "record" /\ q.expected # epoch) \/ q.update.ts <= tombstone[q.user]
     THEN Leave(p, FALSE)
     ELSE /\ Goto(p, IF tombstone[q.user] > 0 THEN "lift" ELSE "read")
          /\ UNCHANGED <<shardSide, lockSide, worldSide>>

\* A message newer than the deletion lifts the tombstone.
Lift(p) ==
  /\ proc[p].pc = "lift"
  /\ tombstone' = [tombstone EXCEPT ![proc[p].user] = 0]
  /\ Goto(p, "read")
  /\ UNCHANGED <<shard, legacy, index, epoch, resets, recorded, lockSide, worldSide>>

NewEntry(p) ==
  LET q == proc[p] IN
  [kind |-> CASE q.op = "observe" -> "observation"
              [] q.op = "record" /\ q.update.image -> "image"
              [] OTHER -> "message",
   msg |-> q.update.msg, ts |-> q.update.ts,
   text |-> IF q.op = "observe" THEN q.text ELSE q.update.text,
   epoch |-> q.expected, born |-> q.born, analysed |-> FALSE]

\* The entry of the picture itself.
Describes(p, e) == e.msg = proc[p].update.msg /\ e.kind = "image"

\* Mutant: a message that comes again is appended again.
PlanAppending(p, old) ==
  CASE proc[p].op \in {"record", "observe"} -> Newest(Append(old, NewEntry(p)))
    [] OTHER -> old

\* The shard an operation makes of the visible entries.
Plan(p, old) ==
  LET q == proc[p] IN
  CASE q.op = "record" ->
         Newest(Append(Keep(old, {i \in DOMAIN old : \/ old[i].msg # q.update.msg
                                                     \/ old[i].kind = "observation"}),
                       NewEntry(p)))
    [] q.op = "observe" -> Newest(Append(old, NewEntry(p)))
    [] q.op = "attach" ->
         [i \in DOMAIN old |-> IF Describes(p, old[i]) THEN [old[i] EXCEPT !.analysed = TRUE]
                               ELSE old[i]]
    [] OTHER -> Keep(old, {i \in DOMAIN old : old[i].msg # q.update.msg})

\* An observation that says nothing new, a picture without an entry and an
\* edit of a message nothing is known of change nothing.
Pointless(p, old) ==
  LET q == proc[p] IN
  \/ q.op = "observe" /\ \E e \in Entries(old) : e.text = q.text
  \/ q.op = "attach" /\ ~\E e \in Entries(old) : Describes(p, e)
  \/ q.op = "invalidate" /\ ~\E e \in Entries(old) : e.msg = q.update.msg

Read(p) ==
  LET old == Visible(proc[p].user) IN
  /\ proc[p].pc = "read"
  /\ IF Pointless(p, old)
     THEN Leave(p, FALSE)
     ELSE /\ proc' = [proc EXCEPT ![p].pc = "recheck", ![p].plan = Plan(p, old)]
          /\ UNCHANGED <<shardSide, lockSide, worldSide>>

\* Mutant: the with block ends before the shard is stored.
RecheckThenFree(p) ==
  /\ proc[p].pc = "recheck"
  /\ proc[p].expected = epoch
  /\ Goto(p, "store")
  /\ Free(p)
  /\ UNCHANGED <<shardSide, worldSide>>

\* The epoch is compared a last time, but not in one step with the storing.
Recheck(p) ==
  /\ proc[p].pc = "recheck"
  /\ IF proc[p].expected # epoch
     THEN Leave(p, FALSE)
     ELSE /\ Goto(p, "store")
          /\ UNCHANGED <<shardSide, lockSide, worldSide>>

HasEntry(s, x) == \E e \in Entries(s) : e.msg = x.msg /\ e.kind # "observation"

\* The updates whose entry the storing drops by intent: other versions of
\* the message, and what a full shard has no room for.
Superseded(p) ==
  LET q == proc[p] IN
  {x \in recorded : x.user = q.user /\
     \/ q.op \in {"record", "invalidate"} /\ x.msg = q.update.msg
     \/ Len(q.plan) = MaxItems /\ ~HasEntry(q.plan, x)}

\* The whole shard is replaced; storing no entry deletes the key.
Store(p) ==
  LET q == proc[p] IN
  /\ q.pc = "store"
  /\ shard' = [shard EXCEPT ![q.user] = q.plan]
  /\ recorded' = (recorded \ Superseded(p)) \cup
                   (IF q.op = "record" THEN {q.update} ELSE {})
  /\ Goto(p, "index")
  /\ UNCHANGED <<legacy, index, epoch, tombstone, resets, lockSide, worldSide>>

\* Mutant: only record_message puts its author in the index.
IndexAfterRecord(p) ==
  LET q == proc[p] IN
  /\ q.pc = "index"
  /\ index' = CASE q.op = "record" -> index \cup {q.user}
                [] q.op = "invalidate" /\ q.plan = <<>> -> index \ {q.user}
                [] OTHER -> index
  /\ Goto(p, "leave")
  /\ UNCHANGED <<shard, legacy, epoch, tombstone, resets, recorded, lockSide, worldSide>>

\* A writer adds the user to the index, an invalidation that left nothing
\* takes him out.
Index(p) ==
  LET q == proc[p] IN
  /\ q.pc = "index"
  /\ \/ q.op # "invalidate" /\ index' = index \cup {q.user}
     \/ /\ q.op = "invalidate"
        /\ index' = IF q.plan = <<>> THEN index \ {q.user} ELSE index
  /\ Goto(p, "leave")
  /\ UNCHANGED <<shard, legacy, epoch, tombstone, resets, recorded, lockSide, worldSide>>

Done(p) == proc[p].pc = "leave" /\ Leave(p, TRUE)

-----------------------------------------------------------------------------
(* lobotomy and clear_gathered.                                            *)

NextEpoch(p) ==
  /\ Task(p, "reset", "first")
  /\ proc' = [proc EXCEPT ![p].pc = "set", ![p].expected = epoch + 1]
  /\ UNCHANGED <<shardSide, lockSide, worldSide>>

\* The epoch that was read may be an old one, if the lock did not last.
Bump(p) ==
  /\ Task(p, "reset", "set")
  /\ epoch' = proc[p].expected
  /\ resets' = resets + 1
  /\ recorded' = {}
  /\ Goto(p, "members")
  /\ UNCHANGED <<shard, legacy, index, tombstone, lockSide, worldSide>>

ReadIndex(p) ==
  /\ Task(p, "reset", "members")
  /\ proc' = [proc EXCEPT ![p].pc = "clear", ![p].plan = index]
  /\ UNCHANGED <<shardSide, lockSide, worldSide>>

Without(f, us) == [u \in Users |-> IF u \in us THEN <<>> ELSE f[u]]

Clear(p) ==
  /\ Task(p, "reset", "clear")
  /\ shard' = Without(shard, proc[p].plan)
  /\ legacy' = Without(legacy, proc[p].plan)
  /\ index' = {}
  /\ Goto(p, "leave")
  /\ UNCHANGED <<epoch, tombstone, resets, recorded, lockSide, worldSide>>

(* purge_user.                                                             *)

Drop(p) ==
  /\ Task(p, "purge", "first")
  /\ shard' = Without(shard, {proc[p].user})
  /\ legacy' = Without(legacy, {proc[p].user})
  /\ recorded' = {x \in recorded : x.user # proc[p].user}
  /\ Goto(p, "deindex")
  /\ UNCHANGED <<index, epoch, tombstone, resets, lockSide, worldSide>>

Deindex(p) ==
  /\ Task(p, "purge", "deindex")
  /\ index' = index \ {proc[p].user}
  /\ Goto(p, "entomb")
  /\ UNCHANGED <<shard, legacy, epoch, tombstone, resets, recorded, lockSide, worldSide>>

Entomb(p) ==
  /\ Task(p, "purge", "entomb")
  /\ tombstone' = [tombstone EXCEPT ![proc[p].user] = clock]
  /\ Goto(p, "leave")
  /\ UNCHANGED <<shard, legacy, index, epoch, resets, recorded, lockSide, worldSide>>

-----------------------------------------------------------------------------
(* Faults.                                                                 *)

Orphan(h, p) == IF h = p THEN Dead ELSE h

\* A process is abandoned: by an exception, which leaves the with block, or
\* killed, and its locks stay until they expire.
Abandon(p) ==
  /\ "crash" \in Hazards
  /\ faults < MaxFaults
  /\ ~IsIdle(p)
  /\ faults' = faults + 1
  /\ proc' = [proc EXCEPT ![p] = Idle]
  /\ \/ Free(p)
     \/ /\ chatLock' = Orphan(chatLock, p)
        /\ userLock' = [u \in Users |-> Orphan(userLock[u], p)]
  /\ UNCHANGED <<shardSide, job, pool, clock, sent, acked, purges, stalls>>

\* The locks of a killed process expire; those of a live one that stalls for
\* longer than a minute do too (the host may run it for five, and freezes the
\* threads of an instance that has answered).  The chat's lock was taken
\* first and expires first.
Expire(h) ==
  /\ \/ h = Dead /\ UNCHANGED <<faults, stalls>>
     \/ /\ "stall" \in Hazards
        /\ h \in Procs
        /\ IF chatLock = h THEN faults < MaxFaults /\ faults' = faults + 1
                           ELSE UNCHANGED faults
        /\ outlived' = TRUE
        /\ \/ proc[h].op = "reset" /\ lateReset' = TRUE
           \/ proc[h].op # "reset" /\ UNCHANGED lateReset
  /\ \/ /\ chatLock = h
        /\ chatLock' = Nobody
        /\ UNCHANGED userLock
     \/ /\ chatLock # h
        /\ \E u \in Users : userLock[u] = h /\ userLock' = [userLock EXCEPT ![u] = Nobody]
        /\ UNCHANGED chatLock
  /\ UNCHANGED <<shardSide, job, pool, clock, sent, acked, purges, proc>>

MemoryInit ==
  /\ shard = [u \in Users |-> <<>>]
  /\ legacy = [u \in Users |-> Legacy[u]]
  /\ index = {u \in Users : Legacy[u] # <<>>}
  /\ epoch = 0
  /\ tombstone = [u \in Users |-> 0]
  /\ chatLock = Nobody
  /\ userLock = [u \in Users |-> Nobody]
  /\ job = [x \in Updates |-> NoJob]
  /\ pool = {}
  /\ proc = [p \in Procs |-> Idle]
  /\ clock = 1
  /\ sent \in Traffic
  /\ acked = {}
  /\ purges = 0
  /\ faults = 0
  /\ resets = 0
  /\ recorded = {}
  /\ outlived = FALSE
  /\ lateReset = FALSE

Step(p) ==
  \/ TakeChatLock(p) \/ TakeUserLock(p)
  \/ Tombstone(p) \/ Lift(p) \/ Read(p) \/ Recheck(p) \/ Store(p) \/ Index(p)
  \/ NextEpoch(p) \/ Bump(p) \/ ReadIndex(p) \/ Clear(p)
  \/ Drop(p) \/ Deindex(p) \/ Entomb(p)
  \/ Done(p)

MemoryNext ==
  \/ Tick
  \/ \E h \in Procs \cup {Dead} : Expire(h)
  \/ \E p \in Procs :
       \/ \E x \in Updates : Deliver(p, x) \/ StartAnalysis(p, x)
       \/ \E o \in pool : StartObservation(p, o)
       \/ StartReset(p)
       \/ \E u \in Users : StartPurge(p, u)
       \/ Step(p)
       \/ Abandon(p)

MemorySpec == MemoryInit /\ [][MemoryNext]_memoryVars

-----------------------------------------------------------------------------
(* Properties.                                                             *)

MemoryTypeOK ==
  /\ index \subseteq Users
  /\ epoch \in 0..MaxResets + Cardinality(Procs)
  /\ \A u \in Users :
       /\ Len(shard[u]) <= MaxItems
       /\ tombstone[u] \in 0..MaxClock
       /\ userLock[u] \in Procs \cup {Nobody, Dead}
  /\ chatLock \in Procs \cup {Nobody, Dead}
  /\ \A p \in Procs : proc[p].op \in Ops /\ (IsIdle(p) <=> proc[p].pc = "idle")
  /\ acked \subseteq sent /\ recorded \subseteq sent

\* What was gathered from work given out before a reset is not visible after
\* it, whichever writers stalled or died: the shard may come back, its entries
\* carry the epoch the work began in.  That takes a reset to set an epoch of
\* its own, as each has done when their number is the epoch.  Each does,
\* unless the lock of one has expired under it: then two may set the same, and
\* what a writer stores from before the second one stays visible.
ResetForgets ==
  /\ ~lateReset => resets = epoch
  /\ resets = epoch => \A u \in Users : \A e \in Entries(Visible(u)) : e.born = resets

\* Repetitions of an update, however they overlap, leave one entry of a
\* message in a shard.
OneEntryPerMessage ==
  \A u \in Users : OneEach(shard[u])

\* While a tombstone stands nothing as old as the deletion is in the shard,
\* unless a process has stalled for longer than its locks last: a writer
\* compares the epoch again before it stores, but not the tombstone, and a
\* deletion sets the tombstone after it has dropped the shard.
TombstoneHolds ==
  ~outlived =>
  \A u \in Users : \A e \in Entries(shard[u]) : e.ts > tombstone[u]

\* An entry that was stored stays, until it is superseded, deleted or pushed
\* out of a full shard: no writer stores a shard it read before another one
\* wrote, as long as no process stalls for longer than its locks last.
NoWriteLost ==
  ~outlived => \A x \in recorded : HasEntry(shard[x.user], x)

\* A shard is in the index, where a reset looks for it, unless its writer is
\* about to put it there, or was abandoned before it did.  A user who still
\* has entries under the former key is excepted: an invalidation that leaves
\* nothing takes him out of the index although there is something to read.
IndexFindsShards ==
  \A u \in Users :
    shard[u] # <<>> /\ legacy[u] = <<>> /\ faults = 0 =>
      u \in index \/ \E p \in Procs : proc[p].user = u /\ proc[p].pc = "index"

\* An edit that has dropped what was gathered from the message leaves nothing
\* of it to be read, as the docstring of invalidate_source_message says.  It
\* does when that was all there was under the former key: only the new key is
\* deleted, and a reader falls back to the former one.
InvalidatedIsGone ==
  ~outlived =>
  \A p \in Procs : Task(p, "invalidate", "leave") =>
    ~\E e \in Entries(Visible(proc[p].user)) : e.msg = proc[p].update.msg

=============================================================================
