--------------------------- MODULE PrivacyProofs ----------------------------
(***************************************************************************)
(* Theorems about Privacy, for any jobs, users and number of deaths.  That *)
(* a deletion leaves nothing behind rests on the tombstone, which is set   *)
(* before a job is erased (JobsAreSound), and on the receipt, which holds  *)
(* what the history still has of the erased jobs for as long as the        *)
(* deletion may have to begin anew (PurgeIsSound).  The second is of one   *)
(* deletion at a time.                                                     *)
(***************************************************************************)
EXTENDS Privacy, TLAPS

\* There is one administrator's request, which may die and be repeated.
OnePurge == \E p : Purges = {p}

\* What Privacy's type leaves out: the index of a purge, and no job at hand
\* between two jobs.
Typed ==
  /\ PrivacyTypeOK
  /\ target \in [Purges -> Indexes]
  /\ \A p \in Purges :
       /\ purge[p].pc \notin {"tomb", "erase"} => purge[p].at = NoUpdate
       /\ purge[p].pc = "erase" => purge[p].at \in tomb

\* The store has one job of an update.  A job is there once its call has
\* stored it, what it answered was logged by its worker, and its update has a
\* tombstone once it is erased; what another call of the update creates then
\* has no answer in the history.
JobsAreSound ==
  /\ \A c, d \in live : Update[c] = Update[d] => c = d
  /\ live \cap erased = {}
  /\ \A c \in Calls :
       /\ webhook[c] \in {"idle", "read"} => c \notin live \cup erased
       /\ worker[c] # "idle" => c \in live \cup erased
       /\ c \in answers => worker[c] = "logged"
       /\ c \in erased => Update[c] \in tomb
  /\ \A c \in erased, d \in answers : Update[c] = Update[d] => d \in erased

\* The answers in the history whose jobs are erased.
Leftover == answers \cap erased

\* What a purge has established at each of its steps.
PurgeIsSound ==
  \A p \in Purges :
    LET pc == purge[p].pc IN
    /\ pc \in {"idle", "list", "jobs", "tomb", "erase"} => Leftover \subseteq receipt[target[p]]
    /\ pc \in {"list", "jobs", "tomb", "erase"} => Leftover \subseteq purge[p].ids
    /\ pc \in {"receipt", "done"} => Leftover = {}
    /\ \A c \in purge[p].scope :
         /\ c \in live \cup erased /\ In(c, target[p])
         /\ pc \in {"jobs", "tomb", "erase"} => c \in erased \/ Update[c] \in purge[p].todo
         /\ pc \in {"receipt", "done"} =>
              /\ c \in erased
              /\ \A d \in answers : Update[d] # Update[c]
              /\ target[p] \in {Chat, Author[Update[c]]} => Update[c] \notin triggers

\* All of a deletion.
PrivacyInv == Typed /\ JobsAreSound /\ PurgeIsSound

-----------------------------------------------------------------------------

\* The invariant holds before anything has happened.
LEMMA PrivacyInitially == PrivacyInit => PrivacyInv
<1> USE PrivacyAssumption
<1>1. NotBegun \in PurgeStates
  BY DEF NotBegun, PurgeStates
<1> QED BY <1>1 DEF PrivacyInit, PrivacyInv, Typed, PrivacyTypeOK, JobsAreSound, PurgeIsSound,
                    Leftover, NotBegun

\* A step of one purge that leaves the others alone keeps the types if what it
\* writes has them.
LEMMA TypedStep ==
  ASSUME Typed, NEW q \in Purges, UNCHANGED <<quoted, webhook, worker, target>>,
         live' \subseteq Calls, erased' \subseteq Calls,
         triggers' \subseteq Updates, edits' \subseteq Updates, answers' \subseteq Calls,
         tomb \subseteq tomb', tomb' \subseteq Updates,
         receipt' \in [Indexes -> SUBSET Calls], crashes' \in 0..MaxCrashes,
         purge' \in [Purges -> PurgeStates],
         \A p \in Purges \ {q} : purge'[p] = purge[p],
         purge'[q].pc \in {"tomb", "erase"} <=> purge'[q].at \in purge'[q].todo,
         purge'[q].pc \notin {"tomb", "erase"} => purge'[q].at = NoUpdate,
         purge'[q].pc = "erase" => purge'[q].at \in tomb'
  PROVE  Typed'
<1>2. PrivacyTypeOK'
  BY DEF Typed, PrivacyTypeOK
<1>3. \A p \in Purges :
        /\ purge'[p].pc \notin {"tomb", "erase"} => purge'[p].at = NoUpdate
        /\ purge'[p].pc = "erase" => purge'[p].at \in tomb'
  BY DEF Typed
<1> QED BY <1>2, <1>3 DEF Typed

\* A purge that only goes on to another step stays well-typed.
LEMMA PurgeGoesOn ==
  ASSUME NEW q \in Purges, purge \in [Purges -> PurgeStates],
         NEW pc \in {"receipt", "erase", "done"}, purge' = [purge EXCEPT ![q].pc = pc]
  PROVE  /\ purge' \in [Purges -> PurgeStates]
         /\ \A p \in Purges \ {q} : purge'[p] = purge[p]
<1> DEFINE next == [purge[q] EXCEPT !.pc = pc]
<1>1. next \in PurgeStates
  BY DEF PurgeStates
<1>2. purge' = [purge EXCEPT ![q] = next]
  OBVIOUS
<1> HIDE DEF next
<1> QED BY <1>1, <1>2

-----------------------------------------------------------------------------
(* Every step keeps the parts of the invariant.                            *)

\* Types, and what belongs to them.
LEMMA TypedForever ==
  ASSUME Typed, JobsAreSound, [PrivacyNext]_privacyVars
  PROVE  Typed'
<1> USE PrivacyAssumption
<1>1. ASSUME NEW k \in Calls, Look(k)
      PROVE  Typed'
  <2>1. /\ quoted' \in [Calls -> SUBSET Users]
        /\ webhook' \in [Calls -> {"idle", "read", "created", "persisted"}]
    <3>1. \A S \in SUBSET Users :
            [quoted EXCEPT ![k] = S] \in [Calls -> SUBSET Users]
      BY DEF Typed, PrivacyTypeOK
    <3>2. {Author[u] : u \in triggers \cup edits} \ {Author[Update[k]]} \subseteq Users
      BY DEF Typed, PrivacyTypeOK
    <3>3. quoted' = quoted \/ \E S \in SUBSET Users : quoted' = [quoted EXCEPT ![k] = S]
      BY <1>1, <3>2 DEF Look
    <3>4. quoted' \in [Calls -> SUBSET Users]
      BY <3>1, <3>3 DEF Typed, PrivacyTypeOK
    <3>5. webhook' \in [Calls -> {"idle", "read", "created", "persisted"}]
      BY <1>1 DEF Look, Typed, PrivacyTypeOK
    <3> QED BY <3>4, <3>5
  <2>2. UNCHANGED <<live, erased, worker, triggers, edits, answers, receipt, tomb, target, purge,
                    crashes>>
    BY <1>1 DEF Look, historySide, purgeSide
  <2> QED BY <2>1, <2>2 DEF Typed, PrivacyTypeOK
<1>2. ASSUME NEW k \in Calls, CreateJob(k)
      PROVE  Typed'
  BY <1>2 DEF CreateJob, Typed, PrivacyTypeOK, PurgeStates, NotBegun, Indexes,
     historySide, purgeSide, jobSide
<1>3. ASSUME NEW k \in Calls, Persist(k)
      PROVE  Typed'
  BY <1>3 DEF Persist, Typed, PrivacyTypeOK, PurgeStates, NotBegun, Indexes,
     historySide, purgeSide, jobSide
<1>4. ASSUME NEW k \in Calls, SendAnswer(k)
      PROVE  Typed'
  BY <1>4 DEF SendAnswer, Typed, PrivacyTypeOK, PurgeStates, NotBegun, Indexes,
     historySide, purgeSide, jobSide
<1>5. ASSUME NEW k \in Calls, Checkpoint(k)
      PROVE  Typed'
  BY <1>5 DEF Checkpoint, Typed, PrivacyTypeOK, PurgeStates, NotBegun, Indexes,
     historySide, purgeSide, jobSide
<1>6. ASSUME NEW k \in Calls, LogAnswer(k)
      PROVE  Typed'
  BY <1>6 DEF LogAnswer, Typed, PrivacyTypeOK, PurgeStates, NotBegun, Indexes,
     historySide, purgeSide, jobSide
<1>7. ASSUME NEW k \in Calls, GuardLog(k)
      PROVE  Typed'
  BY <1>7 DEF GuardLog, Typed, PrivacyTypeOK, PurgeStates, NotBegun, Indexes,
     historySide, purgeSide, jobSide
<1>8. ASSUME NEW q \in Purges, Begin(q)
      PROVE  Typed'
  <2>1. /\ purge' \in [Purges -> PurgeStates]
        /\ \A p \in Purges \ {q} : purge'[p] = purge[p]
    <3>1. Made(target[q]) \subseteq Calls /\ receipt[target[q]] \subseteq Calls
      BY DEF Made, Typed, PrivacyTypeOK
    <3> DEFINE begun == [NotBegun EXCEPT !.pc = "list", !.ids = receipt[target[q]],
                                         !.scope = Made(target[q])]
    <3>2. begun \in PurgeStates
      BY <3>1 DEF NotBegun, PurgeStates
    <3>3. purge' = [purge EXCEPT ![q] = begun] /\ purge \in [Purges -> PurgeStates]
      BY <1>8 DEF Begin, Typed, PrivacyTypeOK
    <3> QED BY <3>2, <3>3
  <2>2. /\ purge'[q].pc = "list"
        /\ purge'[q].todo = {}
        /\ purge'[q].at = NoUpdate
    BY <1>8 DEF Begin, Typed, PrivacyTypeOK, PurgeStates, NotBegun
  <2>3. /\ purge[q].todo \subseteq Updates /\ purge[q].at \in Updates \cup {NoUpdate}
        /\ purge[q].ids \subseteq Calls /\ target[q] \in Indexes
    BY DEF Typed, PrivacyTypeOK, PurgeStates
  <2> QED BY <1>8, <2>1, <2>2, <2>3, TypedStep
          DEF Begin, Typed, PrivacyTypeOK, jobSide, historySide
<1>9. ASSUME NEW q \in Purges, ListJobs(q)
      PROVE  Typed'
  <2> DEFINE listed == {Update[c] : c \in {d \in live : In(d, target[q])}}
  <2>0. /\ purge \in [Purges -> PurgeStates]
        /\ purge' = [purge EXCEPT ![q].pc = "jobs", ![q].todo = listed]
        /\ listed \subseteq Updates
    BY <1>9 DEF ListJobs, Typed, PrivacyTypeOK
  <2> HIDE DEF listed
  <2>1. /\ \A p \in Purges \ {q} : purge'[p] = purge[p]
        /\ purge'[q].pc = "jobs" /\ purge'[q].todo = listed /\ purge'[q].at = purge[q].at
    BY <2>0 DEF PurgeStates
  <2>3. purge' \in [Purges -> PurgeStates]
    <3>1. ASSUME NEW r \in PurgeStates
          PROVE  [r EXCEPT !.pc = "jobs", !.todo = listed] \in PurgeStates
      BY <2>0 DEF PurgeStates
    <3> QED BY <2>0, <3>1
  <2>2. purge[q].at = NoUpdate
    BY <1>9 DEF ListJobs, Typed
  <2> QED BY <1>9, <2>0, <2>1, <2>2, <2>3, TypedStep
          DEF ListJobs, Typed, PrivacyTypeOK, jobSide, historySide
<1>10. ASSUME NEW q \in Purges, NEW u \in Updates, LookAt(q, u)
      PROVE  Typed'
  <2>0. target[q] \in Indexes /\ purge[q].ids \subseteq Calls
    BY DEF Typed, PrivacyTypeOK, PurgeStates
  <2>4. Known(u) \subseteq Calls
    BY DEF Known, Stored, Typed, PrivacyTypeOK
  <2>1. receipt' \in [Indexes -> SUBSET Calls]
    <3>1. \/ receipt' = receipt
          \/ receipt' = [receipt EXCEPT ![target[q]] = @ \cup Known(u)]
      BY <1>10 DEF LookAt
    <3>2. receipt \in [Indexes -> SUBSET Calls]
      BY DEF Typed, PrivacyTypeOK
    <3> QED BY <2>0, <2>4, <3>1, <3>2
  <2>5. UNCHANGED <<live, erased, quoted, webhook, worker, triggers, edits, answers, tomb,
                    target, crashes>>
    BY <1>10 DEF LookAt, jobSide, historySide
  <2>2. CASE Stored(u) # {}
    <3> DEFINE ids == IF Known(u) # {} THEN purge[q].ids \cup receipt'[target[q]]
                                       ELSE purge[q].ids
    <3>1. ids \subseteq Calls
      BY <2>0, <2>1
    <3>2. /\ purge' = [purge EXCEPT ![q].pc = "tomb", ![q].at = u, ![q].ids = ids]
          /\ u \in purge[q].todo
      BY <1>10, <2>2 DEF LookAt, Typed, PrivacyTypeOK, PurgeStates
    <3> HIDE DEF ids
    <3>3. purge \in [Purges -> PurgeStates]
      BY DEF Typed, PrivacyTypeOK
    <3>4. /\ \A p \in Purges \ {q} : purge'[p] = purge[p]
          /\ purge'[q].pc = "tomb" /\ purge'[q].todo = purge[q].todo /\ purge'[q].at = u
      BY <3>2, <3>3 DEF PurgeStates
    <3>5. purge' \in [Purges -> PurgeStates]
      <4>1. [purge[q] EXCEPT !.pc = "tomb", !.at = u, !.ids = ids] \in PurgeStates
        BY <3>1, <3>3 DEF PurgeStates
      <4> QED BY <3>2, <3>3, <4>1
    <3> QED BY <2>1, <2>5, <3>2, <3>4, <3>5, TypedStep DEF Typed, PrivacyTypeOK
  <2>3. CASE Stored(u) = {}
    <3>1. /\ purge \in [Purges -> PurgeStates] /\ purge[q].pc = "jobs"
          /\ purge' = [purge EXCEPT ![q].todo = @ \ {u}]
      BY <1>10, <2>3 DEF LookAt, Typed, PrivacyTypeOK
    <3>2. /\ purge' \in [Purges -> PurgeStates]
          /\ \A p \in Purges \ {q} : purge'[p] = purge[p]
      <4> DEFINE next == [purge[q] EXCEPT !.todo = @ \ {u}]
      <4>1. next \in PurgeStates
        BY <3>1 DEF PurgeStates
      <4>2. purge' = [purge EXCEPT ![q] = next]
        BY <3>1
      <4> HIDE DEF next
      <4> QED BY <3>1, <4>1, <4>2
    <3>4. /\ purge'[q].pc = "jobs" /\ purge'[q].todo = purge[q].todo \ {u}
          /\ purge'[q].at = purge[q].at
      BY <3>1 DEF PurgeStates
    <3>3. purge[q].at = NoUpdate /\ purge[q].todo \subseteq Updates
      BY <3>1 DEF Typed, PrivacyTypeOK, PurgeStates
    <3> QED BY <2>1, <2>5, <3>1, <3>2, <3>3, <3>4, TypedStep DEF Typed, PrivacyTypeOK
  <2> QED BY <2>2, <2>3
<1>11. ASSUME NEW q \in Purges, SetTombstone(q)
      PROVE  Typed'
  <2>1. /\ purge' \in [Purges -> PurgeStates]
        /\ \A p \in Purges \ {q} : purge'[p] = purge[p]
    <3>1. purge \in [Purges -> PurgeStates] /\ purge' = [purge EXCEPT ![q].pc = "erase"]
      BY <1>11 DEF SetTombstone, Typed, PrivacyTypeOK
    <3> QED BY <3>1, PurgeGoesOn
  <2>2. /\ purge'[q].pc = "erase"
        /\ purge'[q].todo = purge[q].todo
        /\ purge'[q].at = purge[q].at
    BY <1>11 DEF SetTombstone, Typed, PrivacyTypeOK, PurgeStates, NotBegun
  <2>3. /\ purge[q].todo \subseteq Updates /\ purge[q].at \in Updates \cup {NoUpdate}
        /\ purge[q].ids \subseteq Calls /\ target[q] \in Indexes
    BY DEF Typed, PrivacyTypeOK, PurgeStates
  <2> QED BY <1>11, <2>1, <2>2, <2>3, TypedStep
          DEF SetTombstone, Typed, PrivacyTypeOK, jobSide, historySide
<1>12. ASSUME NEW q \in Purges, Erase(q)
      PROVE  Typed'
  <2>1. /\ purge' \in [Purges -> PurgeStates]
        /\ \A p \in Purges \ {q} : purge'[p] = purge[p]
    <3>1. Known(purge[q].at) \subseteq Calls
      BY DEF Known, Stored, Typed, PrivacyTypeOK
    <3> DEFINE found == Known(purge[q].at)
    <3>2. /\ purge' = [purge EXCEPT ![q].pc = "jobs", ![q].at = NoUpdate,
                                    ![q].todo = @ \ {purge[q].at}, ![q].ids = @ \cup found]
          /\ purge \in [Purges -> PurgeStates]
      BY <1>12 DEF Erase, Typed, PrivacyTypeOK
    <3> HIDE DEF found
    <3>3. found \subseteq Calls
      BY <3>1 DEF found
    <3>4. [purge[q] EXCEPT !.pc = "jobs", !.at = NoUpdate, !.todo = @ \ {purge[q].at},
                           !.ids = @ \cup found] \in PurgeStates
      BY <3>2, <3>3 DEF PurgeStates
    <3> QED BY <3>2, <3>4
  <2>2. /\ purge'[q].pc = "jobs"
        /\ purge'[q].todo = purge[q].todo \ {purge[q].at}
        /\ purge'[q].at = NoUpdate
    BY <1>12 DEF Erase, Typed, PrivacyTypeOK, PurgeStates, NotBegun
  <2>3. /\ purge[q].todo \subseteq Updates /\ purge[q].at \in Updates \cup {NoUpdate}
        /\ purge[q].ids \subseteq Calls /\ target[q] \in Indexes
    BY DEF Typed, PrivacyTypeOK, PurgeStates
  <2>4. purge[q].at \in purge[q].todo
    BY <1>12 DEF Erase, Typed, PrivacyTypeOK
  <2>5. Stored(purge[q].at) \subseteq Calls /\ Known(purge[q].at) \subseteq Calls
    BY DEF Known, Stored, Typed, PrivacyTypeOK
  <2>6. live' \subseteq Calls /\ erased' \subseteq Calls
    BY <1>12, <2>5 DEF Erase, Typed, PrivacyTypeOK
  <2>7. receipt' \in [Indexes -> SUBSET Calls]
    BY <1>12, <2>3, <2>5 DEF Erase, Typed, PrivacyTypeOK
  <2>8. /\ UNCHANGED <<quoted, webhook, worker, triggers, edits, answers, tomb, target, crashes>>
        /\ triggers \subseteq Updates /\ edits \subseteq Updates
        /\ answers \subseteq Calls /\ tomb \subseteq Updates /\ crashes \in 0..MaxCrashes
    BY <1>12 DEF Erase, Typed, PrivacyTypeOK, historySide
  <2>9. NoUpdate \notin purge'[q].todo
    BY <2>2, <2>3
  <2> QED BY <2>1, <2>2, <2>6, <2>7, <2>8, <2>9, TypedStep
<1>13. ASSUME NEW q \in Purges, FilterHistory(q)
      PROVE  Typed'
  <2>0. purge \in [Purges -> PurgeStates] /\ purge' = [purge EXCEPT ![q].pc = "receipt"]
    BY <1>13 DEF FilterHistory, Typed, PrivacyTypeOK
  <2>1. /\ purge' \in [Purges -> PurgeStates]
        /\ \A p \in Purges \ {q} : purge'[p] = purge[p]
    BY <2>0, PurgeGoesOn
  <2>2. /\ purge'[q].pc = "receipt"
        /\ purge'[q].todo = purge[q].todo
        /\ purge'[q].at = purge[q].at
    BY <1>13 DEF FilterHistory, Typed, PrivacyTypeOK, PurgeStates, NotBegun
  <2>3. /\ purge[q].todo \subseteq Updates /\ purge[q].at \in Updates \cup {NoUpdate}
        /\ purge[q].ids \subseteq Calls /\ target[q] \in Indexes
    BY DEF Typed, PrivacyTypeOK, PurgeStates
  <2> QED BY <1>13, <2>1, <2>2, <2>3, TypedStep
          DEF FilterHistory, Typed, PrivacyTypeOK, jobSide, historySide
<1>14. ASSUME NEW q \in Purges, DropReceipt(q)
      PROVE  Typed'
  <2>1. /\ purge' \in [Purges -> PurgeStates]
        /\ \A p \in Purges \ {q} : purge'[p] = purge[p]
    <3>1. purge \in [Purges -> PurgeStates] /\ purge' = [purge EXCEPT ![q].pc = "done"]
      BY <1>14 DEF DropReceipt, Typed, PrivacyTypeOK
    <3> QED BY <3>1, PurgeGoesOn
  <2>2. /\ purge'[q].pc = "done"
        /\ purge'[q].todo = purge[q].todo
        /\ purge'[q].at = purge[q].at
    BY <1>14 DEF DropReceipt, Typed, PrivacyTypeOK, PurgeStates, NotBegun
  <2>3. /\ purge[q].todo \subseteq Updates /\ purge[q].at \in Updates \cup {NoUpdate}
        /\ purge[q].ids \subseteq Calls /\ target[q] \in Indexes
    BY DEF Typed, PrivacyTypeOK, PurgeStates
  <2> QED BY <1>14, <2>1, <2>2, <2>3, TypedStep
          DEF DropReceipt, Typed, PrivacyTypeOK, jobSide, historySide
<1>15. ASSUME NEW q \in Purges, Crash(q)
      PROVE  Typed'
  <2>1. /\ purge' \in [Purges -> PurgeStates]
        /\ \A p \in Purges \ {q} : purge'[p] = purge[p]
    BY <1>15 DEF Crash, Typed, PrivacyTypeOK, PurgeStates, NotBegun
  <2>2. /\ purge'[q].pc = "idle"
        /\ purge'[q].todo = {}
        /\ purge'[q].at = NoUpdate
    BY <1>15 DEF Crash, Typed, PrivacyTypeOK, PurgeStates, NotBegun
  <2>3. /\ purge[q].todo \subseteq Updates /\ purge[q].at \in Updates \cup {NoUpdate}
        /\ purge[q].ids \subseteq Calls /\ target[q] \in Indexes
    BY DEF Typed, PrivacyTypeOK, PurgeStates
  <2> QED BY <1>15, <2>1, <2>2, <2>3, TypedStep
          DEF Crash, Typed, PrivacyTypeOK, jobSide, historySide
<1>16. ASSUME NEW u \in Updates, Edit(u)
      PROVE  Typed'
  BY <1>16 DEF Edit, Typed, PrivacyTypeOK, PurgeStates, jobSide, purgeSide
<1>17. CASE UNCHANGED privacyVars
  BY <1>17 DEF privacyVars, Typed, PrivacyTypeOK, PurgeStates, NotBegun, Indexes,
     historySide, purgeSide, jobSide
<1> QED BY <1>1, <1>2, <1>3, <1>4, <1>5, <1>6, <1>7, <1>8, <1>9, <1>10, <1>11, <1>12, <1>13,
           <1>14, <1>15, <1>16, <1>17 DEF PrivacyNext, JobStep, PurgeStep

\* A job is erased only under its tombstone, after which its records are refused.
LEMMA JobsStaySound ==
  ASSUME Typed, JobsAreSound, [PrivacyNext]_privacyVars
  PROVE  JobsAreSound'
<1> USE PrivacyAssumption DEF Typed, PrivacyTypeOK, JobsAreSound, PurgeStates, Stored, jobSide,
                               historySide, purgeSide
<1>1. ASSUME NEW k \in Calls, Look(k)
      PROVE  JobsAreSound'
  BY <1>1 DEF Look
<1>2. ASSUME NEW k \in Calls, CreateJob(k)
      PROVE  JobsAreSound'
  BY <1>2 DEF CreateJob
<1>3. ASSUME NEW k \in Calls, Persist(k)
      PROVE  JobsAreSound'
  BY <1>3 DEF Persist
<1>4. ASSUME NEW k \in Calls, SendAnswer(k)
      PROVE  JobsAreSound'
  BY <1>4 DEF SendAnswer
<1>5. ASSUME NEW k \in Calls, Checkpoint(k)
      PROVE  JobsAreSound'
  BY <1>5 DEF Checkpoint
<1>6. ASSUME NEW k \in Calls, LogAnswer(k)
      PROVE  JobsAreSound'
  BY <1>6 DEF LogAnswer
<1>7. ASSUME NEW k \in Calls, GuardLog(k)
      PROVE  JobsAreSound'
  BY <1>7 DEF GuardLog
<1>8. ASSUME NEW q \in Purges, Begin(q)
      PROVE  JobsAreSound'
  BY <1>8 DEF Begin
<1>9. ASSUME NEW q \in Purges, ListJobs(q)
      PROVE  JobsAreSound'
  BY <1>9 DEF ListJobs
<1>10. ASSUME NEW q \in Purges, NEW u \in Updates, LookAt(q, u)
      PROVE  JobsAreSound'
  BY <1>10 DEF LookAt
<1>11. ASSUME NEW q \in Purges, SetTombstone(q)
      PROVE  JobsAreSound'
  BY <1>11 DEF SetTombstone
<1>12. ASSUME NEW q \in Purges, Erase(q)
      PROVE  JobsAreSound'
  BY <1>12 DEF Erase
<1>13. ASSUME NEW q \in Purges, FilterHistory(q)
      PROVE  JobsAreSound'
  BY <1>13 DEF FilterHistory
<1>14. ASSUME NEW q \in Purges, DropReceipt(q)
      PROVE  JobsAreSound'
  BY <1>14 DEF DropReceipt
<1>15. ASSUME NEW q \in Purges, Crash(q)
      PROVE  JobsAreSound'
  BY <1>15 DEF Crash
<1>16. ASSUME NEW u \in Updates, Edit(u)
      PROVE  JobsAreSound'
  BY <1>16 DEF Edit
<1>17. CASE UNCHANGED privacyVars
  BY <1>17 DEF privacyVars
<1> QED BY <1>1, <1>2, <1>3, <1>4, <1>5, <1>6, <1>7, <1>8, <1>9, <1>10, <1>11, <1>12, <1>13,
           <1>14, <1>15, <1>16, <1>17 DEF PrivacyNext, JobStep, PurgeStep

\* What the one purge has established, no webhook or worker takes away, and its
\* own death leaves in the receipt.
LEMMA PurgeStaysSound ==
  ASSUME OnePurge, PrivacyInv, [PrivacyNext]_privacyVars
  PROVE  PurgeIsSound'
<1> USE PrivacyAssumption DEF PrivacyInv, PurgeIsSound, Leftover, In, Typed, PrivacyTypeOK,
                               JobsAreSound, PurgeStates, Stored, jobSide, historySide,
                               purgeSide
<1>1. ASSUME NEW k \in Calls, Look(k)
      PROVE  PurgeIsSound'
  BY <1>1 DEF Look
<1>2. ASSUME NEW k \in Calls, CreateJob(k)
      PROVE  PurgeIsSound'
  BY <1>2 DEF CreateJob
<1>3. ASSUME NEW k \in Calls, Persist(k)
      PROVE  PurgeIsSound'
  BY <1>3 DEF Persist
<1>4. ASSUME NEW k \in Calls, SendAnswer(k)
      PROVE  PurgeIsSound'
  BY <1>4 DEF SendAnswer
<1>5. ASSUME NEW k \in Calls, Checkpoint(k)
      PROVE  PurgeIsSound'
  BY <1>5 DEF Checkpoint
<1>6. ASSUME NEW k \in Calls, LogAnswer(k)
      PROVE  PurgeIsSound'
  BY <1>6 DEF LogAnswer
<1>7. ASSUME NEW k \in Calls, GuardLog(k)
      PROVE  PurgeIsSound'
  BY <1>7 DEF GuardLog
<1>8. ASSUME NEW q \in Purges, Begin(q)
      PROVE  PurgeIsSound'
  BY <1>8 DEF Begin, Made, NotBegun, OnePurge
<1>9. ASSUME NEW q \in Purges, ListJobs(q)
      PROVE  PurgeIsSound'
  BY <1>9 DEF ListJobs, OnePurge
<1>10. ASSUME NEW q \in Purges, NEW u \in Updates, LookAt(q, u)
      PROVE  PurgeIsSound'
  BY <1>10 DEF LookAt, OnePurge
<1>11. ASSUME NEW q \in Purges, SetTombstone(q)
      PROVE  PurgeIsSound'
  BY <1>11 DEF SetTombstone, OnePurge
<1>12. ASSUME NEW q \in Purges, Erase(q)
      PROVE  PurgeIsSound'
  BY <1>12 DEF Erase, Known, Stored, OnePurge
<1>13. ASSUME NEW q \in Purges, FilterHistory(q)
      PROVE  PurgeIsSound'
  BY <1>13 DEF FilterHistory, OnePurge
<1>14. ASSUME NEW q \in Purges, DropReceipt(q)
      PROVE  PurgeIsSound'
  BY <1>14 DEF DropReceipt, OnePurge
<1>15. ASSUME NEW q \in Purges, Crash(q)
      PROVE  PurgeIsSound'
  BY <1>15 DEF Crash, NotBegun, OnePurge
<1>16. ASSUME NEW u \in Updates, Edit(u)
      PROVE  PurgeIsSound'
  BY <1>16 DEF Edit
<1>17. CASE UNCHANGED privacyVars
  BY <1>17 DEF privacyVars
<1> QED BY <1>1, <1>2, <1>3, <1>4, <1>5, <1>6, <1>7, <1>8, <1>9, <1>10, <1>11, <1>12, <1>13,
           <1>14, <1>15, <1>16, <1>17 DEF PrivacyNext, JobStep, PurgeStep

\* The invariant of all deletions, and that of the only one.
LEMMA TypedAndSound == PrivacySpec => [](Typed /\ JobsAreSound)
<1>1. PrivacyInit => Typed /\ JobsAreSound
  BY PrivacyInitially DEF PrivacyInv
<1>2. (Typed /\ JobsAreSound) /\ [PrivacyNext]_privacyVars => (Typed /\ JobsAreSound)'
  BY TypedForever, JobsStaySound
<1> QED BY <1>1, <1>2, PTL DEF PrivacySpec

LEMMA PrivacyInvariance ==
  ASSUME OnePurge
  PROVE  PrivacySpec => []PrivacyInv
<1>1. PrivacyInit => PrivacyInv
  BY PrivacyInitially
<1>2. PrivacyInv /\ [PrivacyNext]_privacyVars => PrivacyInv'
  BY OnePurge, TypedForever, JobsStaySound, PurgeStaysSound DEF PrivacyInv
<1> QED BY <1>1, <1>2, PTL DEF PrivacySpec

-----------------------------------------------------------------------------
(* The theorems.                                                           *)

\* Jobs, records, receipts and purges keep their types, however many purges
\* overlap, and no purge has a job at hand that it has not listed.
THEOREM PrivacyTypes == PrivacySpec => []PrivacyTypeOK
<1>1. Typed /\ JobsAreSound => PrivacyTypeOK
  BY DEF Typed
<1> QED BY <1>1, TypedAndSound, PTL

\* One deletion that is repeated as often as it dies, at whatever step: an
\* answer in the history whose job is erased is in a receipt or in the hands
\* of the deletion under way (purge_index in store/jobs.py).
THEOREM ReceiptsKeepAnswers ==
  ASSUME OnePurge
  PROVE  PrivacySpec => []ReceiptsCoverAnswers
<1>1. PrivacyInv => ReceiptsCoverAnswers
  <2> SUFFICES ASSUME PrivacyInv, NEW j \in answers \cap erased
               PROVE  \/ \E i \in Indexes : j \in receipt[i]
                      \/ \E p \in Purges : purge[p].pc # "done" /\ j \in purge[p].ids
    BY DEF ReceiptsCoverAnswers
  <2>1. PICK p : Purges = {p}
    BY OnePurge DEF OnePurge
  <2>2. purge[p] \in PurgeStates /\ target[p] \in Indexes /\ j \in Leftover
    BY <2>1 DEF PrivacyInv, Typed, PrivacyTypeOK, Leftover
  <2>3. CASE purge[p].pc = "idle"
    BY <2>1, <2>2, <2>3 DEF PrivacyInv, PurgeIsSound
  <2>4. CASE purge[p].pc \in {"list", "jobs", "tomb", "erase"}
    BY <2>1, <2>2, <2>4 DEF PrivacyInv, PurgeIsSound
  <2>5. CASE purge[p].pc \in {"receipt", "done"}
    BY <2>1, <2>2, <2>5 DEF PrivacyInv, PurgeIsSound
  <2> QED BY <2>2, <2>3, <2>4, <2>5 DEF PurgeStates
<1> QED BY <1>1, PrivacyInvariance, PTL

\* A deletion that is answered as a success has erased every job of its index
\* that was there when it began.  The history then holds no answer to these
\* jobs or to another job of their updates, and not the user's own messages as
\* first written, whatever webhooks and workers go on; only an edit, an update
\* of its own, brings one back (user_delete and logs_delete in
\* admin/routes.py, list_upsert_json in store/redis.py).
THEOREM SuccessIsClean ==
  ASSUME OnePurge
  PROVE  PrivacySpec => []CleanAfterPurge
<1>1. PrivacyInv => CleanAfterPurge
  <2> SUFFICES ASSUME PrivacyInv, NEW p \in Purges, purge[p].pc = "done",
                      NEW c \in purge[p].scope
               PROVE  /\ c \notin live
                      /\ \A d \in answers : Update[d] # Update[c]
                      /\ target[p] \in {Chat, Author[Update[c]]} => Update[c] \notin triggers
    BY DEF CleanAfterPurge
  <2>1. /\ c \in erased
        /\ \A d \in answers : Update[d] # Update[c]
        /\ target[p] \in {Chat, Author[Update[c]]} => Update[c] \notin triggers
    BY DEF PrivacyInv, PurgeIsSound
  <2>2. c \notin live
    BY <2>1 DEF PrivacyInv, JobsAreSound
  <2> QED BY <2>1, <2>2
<1> QED BY <1>1, PrivacyInvariance, PTL

=============================================================================
