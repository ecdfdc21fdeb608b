--------------------------- MODULE HistoryProofs ----------------------------
(***************************************************************************)
(* What holds of the history for any messages, versions, limits and        *)
(* retention.  The list stays within its limit because the position from   *)
(* the newest numbers its records: that is Newest's lemma below.           *)
(***************************************************************************)
EXTENDS History, FunctionTheorems, FiniteSetTheorems, TLAPS

\* One record for each message.
OneRecordEach(S) == \A r, s \in S : r.id = s.id => r = s

\* Nothing is stored before it was sent, so no record is newer than the clock.
NoneFromTheFuture == \A r \in list : When[r.id] <= clock

\* Filter notes a user's job only once it is blocked.
PurgedAreBlocked == \A p \in purged : p[2] \in blocked

HistoryInv ==
  /\ HistoryTypeOK
  /\ IsFiniteSet(list)
  /\ NoneFromTheFuture
  /\ ExpiryCoversRecords
  /\ PurgedAreBlocked
  /\ BlockedStaysOut

-----------------------------------------------------------------------------
(* The newest records of a set.                                            *)

\* Records of different messages are in some order, which is transitive.
LEMMA BeforeIsOrder ==
  ASSUME NEW S \in SUBSET Records, OneRecordEach(S), NEW r \in S, NEW s \in S
  PROVE  /\ r # s => Before(r, s) \/ Before(s, r)
         /\ ~Before(r, r)
         /\ \A t \in S : Before(r, s) /\ Before(s, t) => Before(r, t)
<1>1. \A x \in S : x.id \in Messages /\ x.id \in Nat /\ When[x.id] \in Nat
  BY HistoryAssumption DEF Records
<1>2. r # s => r.id # s.id
  BY DEF OneRecordEach
<1> QED BY <1>1, <1>2 DEF Before

\* How many records of a set are newer than one: fewer for a newer one.
LEMMA NewerHasFewerAbove ==
  ASSUME NEW S \in SUBSET Records, IsFiniteSet(S), OneRecordEach(S), NEW r \in S, NEW s \in S,
         Before(r, s)
  PROVE  /\ Cardinality({t \in S : Before(s, t)}) \in Nat
         /\ Cardinality({t \in S : Before(r, t)}) \in Nat
         /\ Cardinality({t \in S : Before(s, t)}) < Cardinality({t \in S : Before(r, t)})
<1> DEFINE above(x) == {t \in S : Before(x, t)}
<1>1. above(s) \subseteq above(r) /\ s \in above(r) /\ s \notin above(s)
  BY BeforeIsOrder
<1>2. IsFiniteSet(above(r)) /\ above(r) \subseteq S
  BY FS_Subset
<1> HIDE DEF above
<1>3. IsFiniteSet(above(s)) /\ Cardinality(above(s)) <= Cardinality(above(r))
      /\ (Cardinality(above(r)) = Cardinality(above(s)) => above(r) = above(s))
  BY <1>1, <1>2, FS_Subset
<1>4. Cardinality(above(s)) \in Nat /\ Cardinality(above(r)) \in Nat
  BY <1>2, <1>3, FS_CardinalityType
<1>5. Cardinality(above(s)) < Cardinality(above(r))
  BY <1>1, <1>3, <1>4
<1> QED BY <1>4, <1>5 DEF above

\* At most Limit records are the newest ones.
LEMMA NewestFits ==
  ASSUME NEW S \in SUBSET Records, IsFiniteSet(S), OneRecordEach(S)
  PROVE  /\ IsFiniteSet(Newest(S))
         /\ Cardinality(Newest(S)) <= Limit
<1> DEFINE T == Newest(S)
           above(r) == Cardinality({t \in S : Before(r, t)})
           position == [r \in T |-> above(r)]
<1>1. T \subseteq S /\ IsFiniteSet(T)
  BY FS_Subset DEF Newest
<1>2. \A r \in T : above(r) \in 0..(Limit - 1)
  <2> SUFFICES ASSUME NEW r \in T PROVE above(r) \in 0..(Limit - 1)
    OBVIOUS
  <2>1. above(r) < Limit
    BY DEF Newest
  <2>2. IsFiniteSet({t \in S : Before(r, t)})
    BY FS_Subset
  <2>3. above(r) \in Nat
    BY <2>2, FS_CardinalityType
  <2> QED BY <2>1, <2>3, HistoryAssumption
<1>3. \A r, s \in T : r # s => above(r) # above(s)
  <2> SUFFICES ASSUME NEW r \in T, NEW s \in T, r # s PROVE above(r) # above(s)
    OBVIOUS
  <2>1. r \in S /\ s \in S
    BY <1>1
  <2>2. Before(r, s) \/ Before(s, r)
    BY <2>1, BeforeIsOrder
  <2>3. CASE Before(r, s)
    <3>1. above(s) \in Nat /\ above(r) \in Nat /\ above(s) < above(r)
      BY <2>1, <2>3, NewerHasFewerAbove
    <3> QED BY <3>1
  <2>4. CASE Before(s, r)
    <3>1. above(s) \in Nat /\ above(r) \in Nat /\ above(r) < above(s)
      BY <2>1, <2>4, NewerHasFewerAbove
    <3> QED BY <3>1
  <2> QED BY <2>2, <2>3, <2>4
<1> HIDE DEF above
<1>4. position \in Injection(T, 0..(Limit - 1))
  BY <1>2, <1>3 DEF Injection, IsInjective
<1>5. IsFiniteSet(0..(Limit - 1)) /\ Cardinality(0..(Limit - 1)) = Limit
  <2>1. 0 \in Int /\ Limit - 1 \in Int /\ ~(0 > Limit - 1) /\ (Limit - 1) - 0 + 1 = Limit
    BY HistoryAssumption
  <2> QED BY <2>1, FS_Interval
<1>6. Cardinality(T) <= Limit
  BY <1>4, <1>5, FS_Injection
<1> QED BY <1>1, <1>6

\* A part of the list fits as well.
LEMMA PartFits ==
  ASSUME HistoryInv, NEW S \in SUBSET list
  PROVE  IsFiniteSet(S) /\ Cardinality(S) <= Limit
<1>1. IsFiniteSet(S) /\ Cardinality(S) <= Cardinality(list)
  BY FS_Subset DEF HistoryInv
<1>2. Cardinality(S) \in Nat /\ Cardinality(list) \in Nat
  BY <1>1, FS_CardinalityType DEF HistoryInv
<1> QED BY <1>1, <1>2, HistoryAssumption DEF HistoryInv, HistoryTypeOK

-----------------------------------------------------------------------------
(* What an upsert writes.                                                  *)

\* The record that is kept is the given one or a newer one of the same
\* message, which was in the list.
LEMMA SelectedIsNewest ==
  ASSUME NEW r
  PROVE  \/ Selected(r) \in list /\ Selected(r).id = r.id /\ Selected(r).version > r.version
         \/ Selected(r) = r /\ \A s \in list : s.id = r.id => ~(s.version > r.version)
BY DEF Selected

\* The records before the limit is applied.
Merged(m, r) == {s \in list : s.id # m} \cup {Selected(r)}

LEMMA MergedIsFine ==
  ASSUME HistoryInv, NEW m \in Messages, NEW r \in Records, r.id = m
  PROVE  /\ Merged(m, r) \in SUBSET Records
         /\ IsFiniteSet(Merged(m, r))
         /\ OneRecordEach(Merged(m, r))
         /\ \A s \in Merged(m, r) :
              \/ s \in list
              \/ s = r /\ \A t \in list : t.id = m => ~(t.version > s.version)
<1>1. Selected(r) \in Records /\ Selected(r).id = m
  BY SelectedIsNewest DEF HistoryInv, HistoryTypeOK
<1>2. Merged(m, r) \in SUBSET Records /\ OneRecordEach(Merged(m, r))
  BY <1>1 DEF Merged, OneRecordEach, HistoryInv, HistoryTypeOK
<1>3. IsFiniteSet({s \in list : s.id # m})
  BY FS_Subset DEF HistoryInv
<1>4. IsFiniteSet(Merged(m, r))
  BY <1>3, FS_AddElement DEF Merged
<1> QED BY <1>2, <1>4, SelectedIsNewest DEF Merged

\* The list after an upsert, in the terms of Merged.
LEMMA UpsertedList ==
  ASSUME HistoryInv, NEW m \in Messages, NEW v \in Versions, NEW e \in 0..MaxResets,
         Upsert(m, v, e)
  PROVE  \E r \in Records :
           /\ r = [id |-> m, version |-> v, epoch |-> e, quote |-> Quotes[m] # Nobody]
           /\ list' = Newest(Usable(Merged(m, r)))
           /\ list' \subseteq Merged(m, r)
           /\ IsFiniteSet(list') /\ Cardinality(list') <= Limit
           /\ OneRecordEach(list')
<1> DEFINE r == [id |-> m, version |-> v, epoch |-> e, quote |-> Quotes[m] # Nobody]
           U == Usable(Merged(m, r))
<1>1. r \in Records /\ r.id = m
  BY DEF Records
<1>2. list' = Newest(U)
  BY DEF Upsert, Merged
<1> HIDE DEF r
<1>3. Merged(m, r) \in SUBSET Records /\ IsFiniteSet(Merged(m, r)) /\ OneRecordEach(Merged(m, r))
  BY <1>1, MergedIsFine
<1>4. U \subseteq Merged(m, r) /\ U \in SUBSET Records /\ OneRecordEach(U)
  BY <1>3 DEF Usable, OneRecordEach
<1>5. IsFiniteSet(U)
  BY <1>3, <1>4, FS_Subset
<1> HIDE DEF U
<1>6. IsFiniteSet(list') /\ Cardinality(list') <= Limit
  BY <1>2, <1>4, <1>5, NewestFits
<1>7. list' \subseteq U
  BY <1>2 DEF Newest
<1>8. OneRecordEach(list')
  BY <1>4, <1>7 DEF OneRecordEach
<1>9. list' = Newest(Usable(Merged(m, r)))
  BY <1>2 DEF U
<1>10. list' \subseteq Merged(m, r)
  BY <1>4, <1>7
<1>11. r = [id |-> m, version |-> v, epoch |-> e, quote |-> Quotes[m] # Nobody]
  BY DEF r
<1> QED BY <1>1, <1>6, <1>8, <1>9, <1>10, <1>11

-----------------------------------------------------------------------------
(* The invariant.                                                          *)

LEMMA InitHasHistoryInv == HistoryInit => HistoryInv
BY HistoryAssumption, FS_EmptySet
DEF HistoryInit, HistoryInv, HistoryTypeOK, NoneFromTheFuture, ExpiryCoversRecords,
    PurgedAreBlocked, BlockedStaysOut

LEMMA UpsertKeeps ==
  ASSUME HistoryInv, NEW m \in Messages, NEW v \in Versions, NEW e \in 0..MaxResets,
         Upsert(m, v, e)
  PROVE  HistoryInv'
<1>1. PICK r \in Records :
        /\ r = [id |-> m, version |-> v, epoch |-> e, quote |-> Quotes[m] # Nobody]
        /\ list' \subseteq Merged(m, r)
        /\ IsFiniteSet(list') /\ Cardinality(list') <= Limit /\ OneRecordEach(list')
  BY UpsertedList
<1>2. /\ Merged(m, r) \in SUBSET Records
      /\ \A s \in list' : s \in list \/ s = r
  BY <1>1, MergedIsFine
<1>3. /\ When[m] <= clock /\ expiry' = clock + Retention
      /\ ~(OfJob(m, v) /\ Source[m] \in blocked)
      /\ UNCHANGED <<blocked, epoch, clock, purged>>
      /\ When \in [Messages -> Nat] /\ Retention \in Nat /\ MaxClock \in Nat
  BY HistoryAssumption DEF Upsert
<1>4. HistoryTypeOK'
  BY <1>1, <1>2, <1>3, HistoryAssumption DEF HistoryInv, HistoryTypeOK, OneRecordEach
<1>5. NoneFromTheFuture'
  BY <1>1, <1>2, <1>3 DEF HistoryInv, NoneFromTheFuture
<1>6. ExpiryCoversRecords'
  <2> SUFFICES ASSUME NEW s \in list' PROVE When[s.id] + Retention <= expiry'
    BY DEF ExpiryCoversRecords
  <2>1. When[s.id] <= clock /\ s.id \in Messages
    BY <1>1, <1>2, <1>3, <1>5 DEF NoneFromTheFuture, Records, HistoryInv, HistoryTypeOK
  <2> QED BY <1>3, <2>1 DEF HistoryInv, HistoryTypeOK
<1>7. PurgedAreBlocked'
  BY <1>3 DEF HistoryInv, PurgedAreBlocked
<1>8. BlockedStaysOut'
  <2> SUFFICES ASSUME NEW u \in Users, NEW s \in list', <<u, Source[s.id]>> \in purged
               PROVE  /\ Author[s.id] # Bot
                      /\ s.version = 0 => /\ Author[s.id] # u
                                          /\ Quotes[s.id] = u => ~s.quote
    BY <1>3 DEF BlockedStaysOut
  <2>1. CASE s \in list
    BY <2>1 DEF HistoryInv, BlockedStaysOut
  <2>2. CASE s = r
    <3>1. s.id = m /\ s.version = v
      BY <1>1, <2>2
    <3>2. Source[m] \in blocked /\ Source[m] \in Jobs
      BY <3>1 DEF HistoryInv, PurgedAreBlocked, HistoryTypeOK
    <3> QED BY <1>3, <3>1, <3>2 DEF OfJob
  <2> QED BY <1>2, <2>1, <2>2
<1> QED BY <1>1, <1>4, <1>5, <1>6, <1>7, <1>8 DEF HistoryInv

\* What only takes records away, or lets time pass.
LEMMA ShrinkingKeeps ==
  ASSUME HistoryInv,
         \/ Prune \/ PurgeAll \/ Reset \/ Expire \/ Tick \/ UNCHANGED historyVars
         \/ \E m \in Messages, v \in Versions : RemoveBlank(m, v)
         \/ \E u \in Users : BlockJobs(u)
  PROVE  HistoryInv'
<1> USE DEF Prune, PurgeAll, Reset, Expire, Tick, RemoveBlank, BlockJobs, historyVars
<1>1. list' \subseteq list
  BY DEF Usable
<1>2. /\ expiry' = expiry /\ purged' = purged /\ blocked \subseteq blocked'
      /\ clock' = clock \/ (clock' = clock + 1 /\ clock < MaxClock)
      /\ epoch' = epoch \/ (epoch' = epoch + 1 /\ epoch < MaxResets)
      /\ blocked' \subseteq blocked \cup Jobs
  OBVIOUS
<1> USE HistoryAssumption
<1>3. IsFiniteSet(list') /\ Cardinality(list') <= Limit
  BY <1>1, PartFits
<1>4. HistoryTypeOK'
  BY <1>1, <1>2, <1>3 DEF HistoryInv, HistoryTypeOK
<1>5. NoneFromTheFuture' /\ ExpiryCoversRecords'
  <2>1. \A r \in list : When[r.id] \in Nat
    BY DEF HistoryInv, HistoryTypeOK, Records
  <2>2. clock \in Nat /\ (clock' = clock \/ clock' = clock + 1)
    BY <1>2 DEF HistoryInv, HistoryTypeOK
  <2> QED BY <1>1, <1>2, <2>1, <2>2 DEF HistoryInv, NoneFromTheFuture, ExpiryCoversRecords
<1>6. PurgedAreBlocked' /\ BlockedStaysOut'
  BY <1>1, <1>2 DEF HistoryInv, PurgedAreBlocked, BlockedStaysOut
<1> QED BY <1>3, <1>4, <1>5, <1>6 DEF HistoryInv

\* A filtered record is one of the list, its quotation perhaps redacted.
LEMMA FilteredFromList ==
  ASSUME HistoryInv, NEW u \in Users, Filter(u)
  PROVE  \A r \in list' : \E s \in list :
           /\ r = [s EXCEPT !.quote = @ /\ Quotes[s.id] # u]
           /\ Author[s.id] # u /\ (Author[s.id] = Bot => Source[s.id] \notin blocked)
BY DEF Filter

LEMMA FilterKeeps ==
  ASSUME HistoryInv, NEW u \in Users, Filter(u)
  PROVE  HistoryInv'
<1> DEFINE kept == {s \in list : /\ Author[s.id] # u
                                 /\ Author[s.id] = Bot => Source[s.id] \notin blocked}
           redacted == [r \in kept |-> [r EXCEPT !.quote = @ /\ Quotes[r.id] # u]]
<1>1. /\ UNCHANGED <<expiry, blocked, epoch, clock>>
      /\ purged' = purged \cup ({u} \X {m \in blocked : Concerns(m, u)})
  BY DEF Filter
<1>2. \A r \in list' : \E s \in list :
        /\ r \in Records /\ r.id = s.id /\ r.version = s.version /\ r.epoch = s.epoch
        /\ r.quote => s.quote /\ Quotes[s.id] # u
        /\ r = [s EXCEPT !.quote = @ /\ Quotes[s.id] # u]
        /\ Author[s.id] # u /\ (Author[s.id] = Bot => Source[s.id] \notin blocked)
  <2> SUFFICES ASSUME NEW r \in list', NEW s \in list,
                      r = [s EXCEPT !.quote = @ /\ Quotes[s.id] # u]
               PROVE  /\ r \in Records /\ r.id = s.id /\ r.version = s.version /\ r.epoch = s.epoch
                      /\ r.quote => s.quote /\ Quotes[s.id] # u
    BY FilteredFromList
  <2>1. s \in Records
    BY DEF HistoryInv, HistoryTypeOK
  <2>2. (s.quote /\ Quotes[s.id] # u) \in BOOLEAN
    BY Zenon
  <2> DEFINE q == s.quote /\ Quotes[s.id] # u
  <2>3. r = [s EXCEPT !.quote = q] /\ q \in BOOLEAN
    BY <2>2, Zenon
  <2>4. q => s.quote /\ Quotes[s.id] # u
    BY Zenon
  <2> HIDE DEF q
  <2>5. r \in Records /\ r.id = s.id /\ r.version = s.version /\ r.epoch = s.epoch /\ r.quote = q
    BY <2>1, <2>3 DEF Records
  <2> QED BY <2>4, <2>5, Zenon
<1>3. IsFiniteSet(list') /\ Cardinality(list') <= Limit
  <2>1. list' = {[r EXCEPT !.quote = @ /\ Quotes[r.id] # u] : r \in kept}
    BY DEF Filter
  <2>2. redacted \in Surjection(kept, list')
    BY <2>1 DEF Surjection
  <2>3. IsFiniteSet(kept) /\ Cardinality(kept) <= Limit
    BY PartFits
  <2>4. IsFiniteSet(list') /\ Cardinality(list') <= Cardinality(kept)
    BY <2>2, <2>3, FS_Surjection
  <2>5. Cardinality(kept) \in Nat /\ Cardinality(list') \in Nat
    BY <2>3, <2>4, FS_CardinalityType
  <2> QED BY <2>3, <2>4, <2>5, HistoryAssumption
<1>4. HistoryTypeOK'
  BY <1>1, <1>2, <1>3 DEF HistoryInv, HistoryTypeOK
<1>5. NoneFromTheFuture' /\ ExpiryCoversRecords'
  BY <1>1, <1>2 DEF HistoryInv, NoneFromTheFuture, ExpiryCoversRecords
<1>6. PurgedAreBlocked'
  BY <1>1 DEF HistoryInv, PurgedAreBlocked
<1>7. BlockedStaysOut'
  <2> SUFFICES ASSUME NEW w \in Users, NEW r \in list', <<w, Source[r.id]>> \in purged'
               PROVE  /\ Author[r.id] # Bot
                      /\ r.version = 0 => /\ Author[r.id] # w
                                          /\ Quotes[r.id] = w => ~r.quote
    BY DEF BlockedStaysOut
  <2>1. PICK s \in list :
          /\ r.id = s.id /\ r.version = s.version /\ (r.quote => s.quote /\ Quotes[s.id] # u)
          /\ Author[s.id] # u /\ (Author[s.id] = Bot => Source[s.id] \notin blocked)
    BY <1>2
  <2>2. CASE <<w, Source[r.id]>> \in purged
    BY <2>1, <2>2 DEF HistoryInv, BlockedStaysOut
  <2>3. CASE w = u /\ Source[r.id] \in blocked
    BY <2>1, <2>3
  <2> QED BY <1>1, <2>2, <2>3
<1> QED BY <1>3, <1>4, <1>5, <1>6, <1>7 DEF HistoryInv

\* The invariant of the history.
THEOREM HistoryInvariance == HistorySpec => []HistoryInv
<1>1. HistoryInv /\ [HistoryNext]_historyVars => HistoryInv'
  BY UpsertKeeps, ShrinkingKeeps, FilterKeeps DEF HistoryNext
<1> QED BY <1>1, InitHasHistoryInv, PTL DEF HistorySpec

-----------------------------------------------------------------------------
(* The properties.                                                         *)

\* The list never outgrows its limit and holds each message once, whatever
\* writes, edits and removals come in whatever order.
THEOREM HistoryTypes == HistorySpec => []HistoryTypeOK
BY HistoryInvariance, PTL DEF HistoryInv

\* The key does not expire before a record that is still usable.
THEOREM ExpiryIsLateEnough == HistorySpec => []ExpiryCoversRecords
BY HistoryInvariance, PTL DEF HistoryInv

\* What a purge took out stays out, whatever is still being written.
THEOREM PurgeHolds == HistorySpec => []BlockedStaysOut
BY HistoryInvariance, PTL DEF HistoryInv

\* No write puts an older version of a message over a newer one.
THEOREM VersionsGoForward == HistorySpec => NeverRolledBack
<1>1. HistoryInv /\ [HistoryNext]_historyVars
        => [\A r \in list, s \in list' : r.id = s.id => s.version >= r.version]_historyVars
  <2> SUFFICES ASSUME HistoryInv, HistoryNext, NEW r \in list, NEW s \in list', r.id = s.id
               PROVE  s.version >= r.version
    BY DEF historyVars
  <2>0. \A x \in list : x.version \in Nat /\ (x.id = r.id => x = r)
    BY HistoryAssumption DEF HistoryInv, HistoryTypeOK, Records, Versions
  <2>1. ASSUME NEW m \in Messages, NEW v \in Versions, NEW e \in 0..MaxResets, Upsert(m, v, e)
        PROVE  s.version >= r.version
    <3>1. PICK n \in Records :
            n = [id |-> m, version |-> v, epoch |-> e, quote |-> Quotes[m] # Nobody]
            /\ list' \subseteq Merged(m, n)
      BY <2>1, UpsertedList
    <3>2. \/ s \in list
          \/ s = n /\ \A t \in list : t.id = m => ~(t.version > s.version)
      BY <3>1, MergedIsFine
    <3>3. n.id = m /\ n.version \in Nat
      BY <3>1, HistoryAssumption DEF Versions
    <3> QED BY <2>0, <3>2, <3>3
  <2>2. ASSUME NEW u \in Users, Filter(u)
        PROVE  s.version >= r.version
    <3>1. PICK t \in list : s = [t EXCEPT !.quote = @ /\ Quotes[t.id] # u]
      BY <2>2, FilteredFromList
    <3>2. s.version = t.version /\ s.id = t.id
      BY <3>1 DEF HistoryInv, HistoryTypeOK, Records
    <3> QED BY <2>0, <3>2
  <2>3. ASSUME list' \subseteq list
        PROVE  s.version >= r.version
    BY <2>0, <2>3
  <2>4. (\E m \in Messages, v \in Versions : RemoveBlank(m, v)) \/ (\E u \in Users : BlockJobs(u))
        \/ Prune \/ PurgeAll \/ Reset \/ Expire \/ Tick => list' \subseteq list
    BY DEF RemoveBlank, BlockJobs, Prune, PurgeAll, Reset, Expire, Tick, Usable
  <2> QED BY <2>1, <2>2, <2>3, <2>4 DEF HistoryNext
<1> QED BY <1>1, HistoryInvariance, PTL DEF HistorySpec, NeverRolledBack

-----------------------------------------------------------------------------
(***************************************************************************)
(* Converged: until something is removed, what the list keeps is what      *)
(* sorting everything that was ever stored would give.  The list forgets,  *)
(* so this is not obvious: it rests on TopOfTop, that taking the newest of *)
(* the newest and of one more is taking the newest of all.                 *)
(***************************************************************************)

\* The same order and selection, of messages in place of records.
IdBefore(i, j) == When[i] < When[j] \/ (When[i] = When[j] /\ i < j)

Above(A, i) == {j \in A : IdBefore(i, j)}

TopIds(A) == {i \in A : Cardinality(Above(A, i)) < Limit}

IdsOf(S) == {r.id : r \in S}

StoredIds == {p[1] : p \in stored}

\* A message that has not reached its retention.
Fresh(i) == When[i] > Cutoff

-----------------------------------------------------------------------------
(* The newest messages of a set.                                           *)

\* The order of messages is total and transitive.
LEMMA IdBeforeIsOrder ==
  ASSUME NEW i \in Messages, NEW j \in Messages
  PROVE  /\ i # j => IdBefore(i, j) \/ IdBefore(j, i)
         /\ ~IdBefore(i, i)
         /\ ~(IdBefore(i, j) /\ IdBefore(j, i))
         /\ \A k \in Messages : IdBefore(i, j) /\ IdBefore(j, k) => IdBefore(i, k)
<1>1. \A x \in Messages : x \in Nat /\ When[x] \in Nat
  BY HistoryAssumption
<1> QED BY <1>1 DEF IdBefore

\* How many are above a message is a number, and grows with the set.
LEMMA AboveIsMonotone ==
  ASSUME NEW B, IsFiniteSet(B), NEW A \in SUBSET B, NEW i
  PROVE  /\ Cardinality(Above(A, i)) \in Nat
         /\ Cardinality(Above(B, i)) \in Nat
         /\ Cardinality(Above(A, i)) <= Cardinality(Above(B, i))
<1>1. Above(A, i) \subseteq Above(B, i) /\ Above(B, i) \subseteq B
  BY DEF Above
<1>2. IsFiniteSet(Above(B, i))
  BY <1>1, FS_Subset
<1>3. IsFiniteSet(Above(A, i)) /\ Cardinality(Above(A, i)) <= Cardinality(Above(B, i))
  BY <1>1, <1>2, FS_Subset
<1> QED BY <1>2, <1>3, FS_CardinalityType

\* Fewer are above the newer of two.
LEMMA AboveDecreases ==
  ASSUME NEW A \in SUBSET Messages, IsFiniteSet(A), NEW i \in A, NEW j \in A, IdBefore(i, j)
  PROVE  Cardinality(Above(A, j)) < Cardinality(Above(A, i))
<1>1. Above(A, j) \subseteq Above(A, i) /\ j \in Above(A, i) /\ j \notin Above(A, j)
  BY IdBeforeIsOrder DEF Above
<1>2. IsFiniteSet(Above(A, i))
  BY FS_Subset DEF Above
<1>3. /\ Cardinality(Above(A, j)) <= Cardinality(Above(A, i))
      /\ Cardinality(Above(A, i)) = Cardinality(Above(A, j)) => Above(A, i) = Above(A, j)
  BY <1>1, <1>2, FS_Subset
<1>4. Cardinality(Above(A, j)) \in Nat /\ Cardinality(Above(A, i)) \in Nat
  BY AboveIsMonotone
<1> QED BY <1>1, <1>3, <1>4

\* If a message is not among the newest, there are Limit of those and all of
\* them are above it: the number above each is a bijection with 0, 1, 2, ...
LEMMA TopIsFull ==
  ASSUME NEW A \in SUBSET Messages, IsFiniteSet(A), NEW y \in A, y \notin TopIds(A)
  PROVE  /\ TopIds(A) \subseteq Above(A, y)
         /\ Cardinality(TopIds(A)) >= Limit
<1> DEFINE N == Cardinality(A)
           pos == [i \in A |-> Cardinality(Above(A, i))]
<1>0. N \in Nat /\ Limit \in Nat \ {0}
  BY FS_CardinalityType, HistoryAssumption
<1>1. \A i \in A : pos[i] \in 0..(N - 1)
  <2> SUFFICES ASSUME NEW i \in A PROVE Cardinality(Above(A, i)) \in 0..(N - 1)
    OBVIOUS
  <2>1. Above(A, i) \subseteq A \ {i}
    BY IdBeforeIsOrder DEF Above
  <2>2. IsFiniteSet(A \ {i}) /\ Cardinality(A \ {i}) = N - 1
    BY FS_RemoveElement
  <2>3. Cardinality(Above(A, i)) <= N - 1 /\ Cardinality(Above(A, i)) \in Nat
    BY <2>1, <2>2, FS_Subset, AboveIsMonotone
  <2> QED BY <1>0, <2>3
<1>2. \A i, j \in A : pos[i] = pos[j] => i = j
  <2> SUFFICES ASSUME NEW i \in A, NEW j \in A, i # j
               PROVE  Cardinality(Above(A, i)) # Cardinality(Above(A, j))
    OBVIOUS
  <2>1. Cardinality(Above(A, i)) \in Nat /\ Cardinality(Above(A, j)) \in Nat
    BY AboveIsMonotone
  <2>2. IdBefore(i, j) \/ IdBefore(j, i)
    BY IdBeforeIsOrder
  <2>3. \/ Cardinality(Above(A, i)) < Cardinality(Above(A, j))
        \/ Cardinality(Above(A, j)) < Cardinality(Above(A, i))
    BY <2>2, AboveDecreases
  <2> QED BY <2>1, <2>3
<1>3. pos \in Injection(A, 0..(N - 1))
  BY <1>1, <1>2, Fun_IsInj
<1>4. N > 0
  BY <1>0, <1>1
<1>5. IsFiniteSet(0..(N - 1)) /\ Cardinality(0..(N - 1)) = N
  <2>1. 0 \in Int /\ N - 1 \in Int /\ ~(0 > N - 1) /\ (N - 1) - 0 + 1 = N
    BY <1>0, <1>4
  <2> QED BY <2>1, FS_Interval
<1>6. \A k \in 0..(N - 1) : \E i \in A : pos[i] = k
  <2>1. pos \in Surjection(A, 0..(N - 1))
    BY <1>3, <1>5, FS_Injection
  <2> HIDE DEF pos
  <2> QED BY <2>1 DEF Surjection
<1>7. pos[y] \in Nat /\ pos[y] >= Limit /\ Limit <= N
  BY <1>0, <1>1 DEF TopIds
<1>8. TopIds(A) \subseteq Above(A, y)
  <2> SUFFICES ASSUME NEW t \in TopIds(A) PROVE IdBefore(y, t)
    BY DEF TopIds, Above
  <2>1. t \in A /\ t # y /\ pos[t] < Limit /\ pos[t] \in Nat
    BY <1>1 DEF TopIds
  <2>2. ~IdBefore(t, y)
    BY <1>7, <2>1, <1>0, AboveDecreases
  <2> QED BY <2>1, <2>2, IdBeforeIsOrder
<1> HIDE DEF N, pos
<1>9. \A k \in 0..(Limit - 1) : \E i \in TopIds(A) : pos[i] = k
  <2> SUFFICES ASSUME NEW k \in 0..(Limit - 1) PROVE \E i \in TopIds(A) : pos[i] = k
    OBVIOUS
  <2>1. k \in 0..(N - 1) /\ k < Limit
    BY <1>0, <1>7
  <2>2. PICK i \in A : pos[i] = k
    BY <1>6, <2>1
  <2> QED BY <2>1, <2>2 DEF pos, TopIds
<1>10. Cardinality(TopIds(A)) >= Limit
  <2> DEFINE T == TopIds(A)
             part == [i \in T |-> pos[i]]
  <2>1. IsFiniteSet(T) /\ Cardinality(T) \in Nat
    BY FS_Subset, FS_CardinalityType DEF TopIds
  <2>2. \A i \in T : pos[i] \in 0..(Limit - 1)
    <3> SUFFICES ASSUME NEW i \in T PROVE pos[i] \in 0..(Limit - 1)
      OBVIOUS
    <3>1. i \in A /\ pos[i] < Limit
      BY DEF TopIds, pos
    <3>2. pos[i] \in 0..(N - 1)
      BY <1>1, <3>1
    <3> QED BY <1>0, <3>1, <3>2
  <2> HIDE DEF T
  <2>3. part \in Surjection(T, 0..(Limit - 1))
    BY <1>9, <2>2, Fun_IsSurj DEF T
  <2>4. Cardinality(0..(Limit - 1)) = Limit
    <3>1. 0 \in Int /\ Limit - 1 \in Int /\ ~(0 > Limit - 1) /\ (Limit - 1) - 0 + 1 = Limit
      BY <1>0
    <3> QED BY <3>1, FS_Interval
  <2>5. Limit <= Cardinality(T)
    BY <2>1, <2>3, <2>4, FS_Surjection
  <2> QED BY <1>0, <2>1, <2>5 DEF T
<1> QED BY <1>8, <1>10

\* The newest of the newest and of one more are the newest of all.
LEMMA TopOfTop ==
  ASSUME NEW A \in SUBSET Messages, IsFiniteSet(A), NEW m \in Messages
  PROVE  TopIds(TopIds(A) \cup {m}) = TopIds(A \cup {m})
<1> DEFINE B == A \cup {m}
           C == TopIds(A) \cup {m}
<1>1. /\ B \in SUBSET Messages /\ IsFiniteSet(B) /\ C \in SUBSET B
      /\ IsFiniteSet(TopIds(A)) /\ TopIds(A) \subseteq A
  BY FS_AddElement, FS_Subset DEF TopIds
<1>2. IsFiniteSet(C)
  BY <1>1, FS_Subset
<1>3. ASSUME NEW x \in TopIds(B)
      PROVE  x \in TopIds(C)
  <2>1. Cardinality(Above(B, x)) < Limit
    BY DEF TopIds
  <2>2. x \in C
    <3>1. CASE x \in A
      <4>1. /\ Cardinality(Above(A, x)) <= Cardinality(Above(B, x))
            /\ Cardinality(Above(A, x)) \in Nat /\ Cardinality(Above(B, x)) \in Nat
        BY <1>1, AboveIsMonotone
      <4> QED BY <2>1, <3>1, <4>1, HistoryAssumption DEF TopIds
    <3>2. CASE x = m
      BY <3>2
    <3> QED BY <3>1, <3>2 DEF TopIds
  <2>3. /\ Cardinality(Above(C, x)) <= Cardinality(Above(B, x))
        /\ Cardinality(Above(C, x)) \in Nat /\ Cardinality(Above(B, x)) \in Nat
    BY <1>1, AboveIsMonotone
  <2> QED BY <2>1, <2>2, <2>3, HistoryAssumption DEF TopIds
<1>4. ASSUME NEW x \in TopIds(C)
      PROVE  x \in TopIds(B)
  <2>1. x \in C /\ x \in B /\ x \in Messages /\ Cardinality(Above(C, x)) < Limit
    BY <1>1 DEF TopIds
  <2>2. ASSUME Above(B, x) \subseteq C
        PROVE  x \in TopIds(B)
    <3>1. Above(B, x) = Above(C, x)
      BY <1>1, <2>2 DEF Above
    <3> QED BY <2>1, <3>1 DEF TopIds
  <2>3. ASSUME NEW y \in Above(B, x), y \notin C
        PROVE  FALSE
    <3>1. y \in A /\ y \notin TopIds(A) /\ y \in Messages /\ IdBefore(x, y)
      BY <2>3 DEF Above
    <3>2. TopIds(A) \subseteq Above(A, y) /\ Cardinality(TopIds(A)) >= Limit
      BY <3>1, TopIsFull
    <3>3. TopIds(A) \subseteq Above(C, x)
      BY <2>1, <3>1, <3>2, IdBeforeIsOrder DEF Above
    <3>4. IsFiniteSet(Above(C, x))
      BY <1>2, FS_Subset DEF Above
    <3>5. /\ Cardinality(TopIds(A)) <= Cardinality(Above(C, x))
          /\ Cardinality(TopIds(A)) \in Nat /\ Cardinality(Above(C, x)) \in Nat
      BY <1>1, <3>3, <3>4, FS_Subset, FS_CardinalityType
    <3> QED BY <2>1, <3>2, <3>5, HistoryAssumption
  <2> QED BY <2>2, <2>3
<1> QED BY <1>3, <1>4

\* Which of the fresh messages are the newest depends on the fresh ones only.
LEMMA FreshTop ==
  ASSUME NEW A \in SUBSET Messages, NEW B \in SUBSET Messages, clock \in Nat,
         \A i \in Messages : Fresh(i) => (i \in A <=> i \in B)
  PROVE  \A i \in Messages : Fresh(i) => (i \in TopIds(A) <=> i \in TopIds(B))
<1> SUFFICES ASSUME NEW i \in Messages, Fresh(i) PROVE i \in TopIds(A) <=> i \in TopIds(B)
  OBVIOUS
<1>1. \A j \in Messages : IdBefore(i, j) => Fresh(j)
  <2>1. Cutoff \in Int /\ \A x \in Messages : When[x] \in Nat
    BY HistoryAssumption DEF Cutoff
  <2> QED BY <2>1 DEF IdBefore, Fresh
<1>2. Above(A, i) = Above(B, i)
  BY <1>1 DEF Above
<1> QED BY <1>2 DEF TopIds

-----------------------------------------------------------------------------
(* From records and versions to messages.                                  *)

\* With one record each, the newest records are those of the newest messages.
LEMMA NewestAreTop ==
  ASSUME NEW S \in SUBSET Records, IsFiniteSet(S), OneRecordEach(S)
  PROVE  \A r \in S : r \in Newest(S) <=> r.id \in TopIds(IdsOf(S))
<1> SUFFICES ASSUME NEW r \in S PROVE r \in Newest(S) <=> r.id \in TopIds(IdsOf(S))
  OBVIOUS
<1> DEFINE X == {s \in S : Before(r, s)}
           Y == Above(IdsOf(S), r.id)
           f == [s \in X |-> s.id]
<1>1. IsFiniteSet(X)
  BY FS_Subset
<1>2. \A s \in X : f[s] \in Y
  BY DEF Before, Above, IdBefore, IdsOf
<1>3. \A s, t \in X : f[s] = f[t] => s = t
  BY DEF OneRecordEach
<1>4. \A y \in Y : \E s \in X : f[s] = y
  BY DEF Before, Above, IdBefore, IdsOf
<1>5. f \in [X -> Y]
  BY <1>2
<1> HIDE DEF X, Y, f
<1>6. f \in Bijection(X, Y)
  BY <1>3, <1>4, <1>5, Fun_IsBij
<1>7. Cardinality(X) = Cardinality(Y)
  BY <1>1, <1>6, FS_Bijection DEF ExistsBijection
<1>8. r \in Newest(S) <=> Cardinality(X) < Limit
  BY DEF Newest, X
<1>9. r.id \in TopIds(IdsOf(S)) <=> Cardinality(Y) < Limit
  BY DEF TopIds, IdsOf, Y
<1> QED BY <1>7, <1>8, <1>9

-----------------------------------------------------------------------------
(* The invariant.                                                          *)

\* A message that was stored has a newest version.
EachHasLatest == \A p \in stored : \E q \in Latest : q[1] = p[1]

\* The list has, of the fresh messages, the newest, in their newest version.
KeepsFreshTop ==
  /\ \A i \in Messages : Fresh(i) => (i \in IdsOf(list) <=> i \in TopIds(StoredIds))
  /\ \A r \in list : Fresh(r.id) => <<r.id, r.version>> \in Latest

ConvergedInv ==
  /\ HistoryInv
  /\ stored \subseteq Messages \X Versions
  /\ IsFiniteSet(stored)
  /\ IsFiniteSet(StoredIds)
  /\ EachHasLatest
  /\ KeepsFreshTop

\* Of each message one version is the newest.
LEMMA LatestIsUnique ==
  ASSUME stored \subseteq Messages \X Versions, NEW p \in Latest, NEW q \in Latest, p[1] = q[1]
  PROVE  p = q
<1>1. p \in Messages \X Versions /\ q \in Messages \X Versions
  BY DEF Latest
<1>2. p[2] <= q[2] /\ q[2] <= p[2] /\ p[2] \in Nat /\ q[2] \in Nat
  BY <1>1, HistoryAssumption DEF Latest, Versions
<1>3. p[2] = q[2]
  BY <1>2
<1> QED BY <1>1, <1>3

\* The invariant is the property, in other terms.
LEMMA InvIsConverged == ConvergedInv => Converged
<1> SUFFICES ASSUME ConvergedInv PROVE Converged
  OBVIOUS
<1> USE DEF ConvergedInv
<1> DEFINE higher(p) == {q \in Latest : When[p[1]] < When[q[1]]
                            \/ (When[p[1]] = When[q[1]] /\ p[1] < q[1])}
           newest == {p \in Latest : Cardinality(higher(p)) < Limit}
<1>1. \A p \in Latest : p \in newest <=> p[1] \in TopIds(StoredIds)
  <2> SUFFICES ASSUME NEW p \in Latest PROVE p \in newest <=> p[1] \in TopIds(StoredIds)
    OBVIOUS
  <2> DEFINE X == higher(p)
             Y == Above(StoredIds, p[1])
             f == [q \in X |-> q[1]]
  <2>1. IsFiniteSet(X)
    BY FS_Subset DEF Latest
  <2>2. f \in [X -> Y]
    BY DEF Latest, StoredIds, Above, IdBefore
  <2>3. \A q, r \in X : f[q] = f[r] => q = r
    BY LatestIsUnique
  <2>4. \A y \in Y : \E q \in X : f[q] = y
    <3> SUFFICES ASSUME NEW y \in Y PROVE \E q \in X : f[q] = y
      OBVIOUS
    <3>1. PICK q \in Latest : q[1] = y
      BY DEF Above, StoredIds, EachHasLatest
    <3>2. q \in X
      BY <3>1 DEF Above, IdBefore
    <3> QED BY <3>1, <3>2
  <2>5. p[1] \in StoredIds
    BY DEF Latest, StoredIds
  <2> HIDE DEF X, Y, f
  <2>6. f \in Bijection(X, Y)
    BY <2>2, <2>3, <2>4, Fun_IsBij
  <2>7. Cardinality(X) = Cardinality(Y)
    BY <2>1, <2>6, FS_Bijection DEF ExistsBijection
  <2> QED BY <2>5, <2>7 DEF TopIds, X, Y
<1> HIDE DEF newest, higher
<1>2. ASSUME NEW r \in list, When[r.id] > Cutoff
      PROVE  <<r.id, r.version>> \in newest
  <2>1. r.id \in Messages /\ Fresh(r.id) /\ r.id \in IdsOf(list)
    BY <1>2 DEF HistoryInv, HistoryTypeOK, Records, Fresh, IdsOf
  <2>2. <<r.id, r.version>> \in Latest /\ r.id \in TopIds(StoredIds)
    BY <2>1 DEF KeepsFreshTop
  <2> QED BY <1>1, <2>2
<1>3. ASSUME NEW p \in newest, When[p[1]] > Cutoff
      PROVE  \E r \in list : When[r.id] > Cutoff /\ p = <<r.id, r.version>>
  <2>1. p \in Latest /\ p \in Messages \X Versions
    BY DEF newest, Latest
  <2>2. p[1] \in Messages /\ Fresh(p[1]) /\ p[1] \in TopIds(StoredIds)
    BY <1>1, <1>3, <2>1 DEF Fresh
  <2>3. PICK r \in list : r.id = p[1]
    BY <2>2 DEF KeepsFreshTop, IdsOf
  <2>4. <<r.id, r.version>> \in Latest
    BY <2>2, <2>3 DEF KeepsFreshTop
  <2>5. p = <<r.id, r.version>>
    BY <2>1, <2>3, <2>4, LatestIsUnique
  <2> QED BY <1>3, <2>3, <2>5
<1>4. {<<r.id, r.version>> : r \in {s \in list : When[s.id] > Cutoff}}
        = {p \in newest : When[p[1]] > Cutoff}
  BY <1>2, <1>3
<1> QED BY <1>4 DEF Converged, newest, higher

LEMMA InitHasConvergedInv == HistoryInit => ConvergedInv
<1> SUFFICES ASSUME HistoryInit PROVE ConvergedInv
  OBVIOUS
<1>1. StoredIds = {} /\ TopIds(StoredIds) = {} /\ IdsOf(list) = {}
  BY DEF HistoryInit, StoredIds, TopIds, IdsOf
<1> QED BY <1>1, InitHasHistoryInv, FS_EmptySet
        DEF HistoryInit, ConvergedInv, EachHasLatest, KeepsFreshTop

\* What an upsert makes of the newest versions.
LEMMA UpsertedLatest ==
  ASSUME ConvergedInv, NEW m \in Messages, NEW v \in Versions, stored' = stored \cup {<<m, v>>}
  PROVE  /\ \A p \in Latest : p[1] # m => p \in Latest'
         /\ \A p \in Latest : p[1] = m /\ p[2] > v => p \in Latest'
         /\ (\A p \in Latest : p[1] = m => p[2] <= v) => <<m, v>> \in Latest'
         /\ EachHasLatest'
<1> USE DEF ConvergedInv
<1>0. \A p \in stored' : p \in Messages \X Versions /\ p[2] \in Nat
  BY HistoryAssumption DEF Versions
<1>1. \A p \in Latest : p[1] # m => p \in Latest'
  BY DEF Latest
<1>2. ASSUME NEW p \in Latest, p[1] = m, p[2] > v
      PROVE  p \in Latest'
  <2>1. p \in stored' /\ \A q \in stored : q[1] = p[1] => q[2] <= p[2]
    BY DEF Latest
  <2> QED BY <1>0, <1>2, <2>1 DEF Latest
<1>3. ASSUME \A p \in Latest : p[1] = m => p[2] <= v
      PROVE  <<m, v>> \in Latest'
  <2> SUFFICES ASSUME NEW q \in stored', q[1] = m PROVE q[2] <= v
    BY DEF Latest
  <2>1. CASE q \in stored
    <3>1. PICK p \in Latest : p[1] = m
      BY <2>1 DEF EachHasLatest
    <3>2. q[2] <= p[2] /\ p[2] <= v /\ p \in stored'
      BY <1>3, <2>1, <3>1 DEF Latest
    <3> QED BY <1>0, <3>2, HistoryAssumption DEF Versions
  <2>2. CASE q = <<m, v>>
    BY <2>2, HistoryAssumption DEF Versions
  <2> QED BY <2>1, <2>2
<1>4. EachHasLatest'
  <2> SUFFICES ASSUME NEW p \in stored' PROVE \E q \in Latest' : q[1] = p[1]
    BY DEF EachHasLatest
  <2>1. CASE p[1] # m
    <3>1. PICK q \in Latest : q[1] = p[1]
      BY <2>1 DEF EachHasLatest
    <3> QED BY <1>1, <2>1, <3>1
  <2>2. CASE p[1] = m
    <3>1. CASE \A q \in Latest : q[1] = m => q[2] <= v
      BY <1>3, <2>2, <3>1
    <3>2. ASSUME NEW q \in Latest, q[1] = m, ~(q[2] <= v)
          PROVE  \E x \in Latest' : x[1] = p[1]
      <4>1. q[2] \in Nat /\ v \in Nat
        BY <1>0, HistoryAssumption DEF Latest, Versions
      <4>2. q[2] > v
        BY <3>2, <4>1
      <4> QED BY <1>2, <2>2, <3>2, <4>2
    <3> QED BY <3>1, <3>2
  <2> QED BY <2>1, <2>2
<1> QED BY <1>1, <1>2, <1>3, <1>4

\* An upsert leaves the list with the newest of what is stored by then.
LEMMA UpsertConverges ==
  ASSUME ConvergedInv, NEW m \in Messages, NEW v \in Versions, NEW e \in 0..MaxResets,
         Upsert(m, v, e)
  PROVE  ConvergedInv'
<1>1. HistoryInv /\ HistoryInv' /\ clock' = clock /\ clock \in Nat
  <2>1. HistoryInv
    BY DEF ConvergedInv
  <2>2. HistoryInv'
    BY <2>1, UpsertKeeps
  <2> QED BY <2>1, <2>2 DEF Upsert, HistoryInv, HistoryTypeOK
<1>2. stored' = stored \cup {<<m, v>>}
  BY DEF Upsert
<1>3. StoredIds' = StoredIds \cup {m} /\ StoredIds \in SUBSET Messages
  <2>1. <<m, v>>[1] = m
    OBVIOUS
  <2>2. \A p \in stored : p[1] \in Messages
    BY DEF ConvergedInv
  <2>3. StoredIds' = {p[1] : p \in stored \cup {<<m, v>>}}
    BY <1>2 DEF StoredIds
  <2> QED BY <2>1, <2>2, <2>3 DEF StoredIds
<1>4. /\ stored' \subseteq Messages \X Versions /\ IsFiniteSet(stored')
      /\ IsFiniteSet(StoredIds) /\ IsFiniteSet(StoredIds')
  <2>1. IsFiniteSet(stored) /\ IsFiniteSet(StoredIds) /\ stored \subseteq Messages \X Versions
    BY DEF ConvergedInv
  <2>2. IsFiniteSet(stored')
    BY <1>2, <2>1, FS_AddElement
  <2>3. IsFiniteSet(StoredIds')
    BY <1>3, <2>1, FS_AddElement
  <2> QED BY <1>2, <2>1, <2>2, <2>3
<1>5. PICK n \in Records :
        /\ n = [id |-> m, version |-> v, epoch |-> e, quote |-> Quotes[m] # Nobody]
        /\ list' = Newest(Usable(Merged(m, n)))
  BY <1>1, UpsertedList
<1>6. n.id = m /\ n.version = v
  BY <1>5
<1> DEFINE M == Merged(m, n)
           U == Usable(Merged(m, n))
<1>7. M \in SUBSET Records /\ IsFiniteSet(M) /\ OneRecordEach(M)
  BY <1>1, <1>6, MergedIsFine
<1>8. U \subseteq M /\ OneRecordEach(U)
  BY <1>7 DEF Usable, OneRecordEach
<1>9. IsFiniteSet(U) /\ U \in SUBSET Records
  BY <1>7, <1>8, FS_Subset
<1>10. Selected(n).id = m
  BY <1>6, SelectedIsNewest
<1>11. \A i \in Messages : Fresh(i) => (i \in IdsOf(U) <=> i \in TopIds(StoredIds) \cup {m})
  <2> SUFFICES ASSUME NEW i \in Messages, Fresh(i)
               PROVE  i \in IdsOf(U) <=> i \in TopIds(StoredIds) \cup {m}
    OBVIOUS
  <2>1. \A r \in M : r.id = i => r \in U
    <3>1. When[i] \in Nat /\ Cutoff \in Int
      BY <1>1, HistoryAssumption DEF Cutoff
    <3> QED BY <3>1 DEF Usable, Fresh
  <2>2. i \in IdsOf(U) <=> \E r \in M : r.id = i
    BY <1>8, <2>1 DEF IdsOf
  <2>3. (\E r \in M : r.id = i) <=> i \in IdsOf(list) \cup {m}
    BY <1>10 DEF Merged, IdsOf
  <2>4. i \in IdsOf(list) <=> i \in TopIds(StoredIds)
    BY DEF ConvergedInv, KeepsFreshTop
  <2> QED BY <2>2, <2>3, <2>4
<1> HIDE DEF U, M
<1>12. \A i \in Messages : Fresh(i) => (i \in TopIds(IdsOf(U)) <=> i \in TopIds(StoredIds'))
  <2>1. IdsOf(U) \in SUBSET Messages
    BY <1>9 DEF IdsOf, Records
  <2>2. TopIds(StoredIds) \cup {m} \in SUBSET Messages
    BY <1>3 DEF TopIds
  <2>3. \A i \in Messages :
          Fresh(i) => (i \in TopIds(IdsOf(U)) <=> i \in TopIds(TopIds(StoredIds) \cup {m}))
    BY <1>1, <1>11, <2>1, <2>2, FreshTop
  <2>4. TopIds(TopIds(StoredIds) \cup {m}) = TopIds(StoredIds')
    BY <1>3, <1>4, TopOfTop
  <2> QED BY <2>3, <2>4
<1>13. \A i \in Messages : Fresh(i) => (i \in IdsOf(list') <=> i \in TopIds(StoredIds'))
  <2> SUFFICES ASSUME NEW i \in Messages, Fresh(i)
               PROVE  i \in IdsOf(list') <=> i \in TopIds(IdsOf(U))
    BY <1>12
  <2>1. \A r \in U : r \in list' <=> r.id \in TopIds(IdsOf(U))
    BY <1>5, <1>8, <1>9, NewestAreTop DEF U
  <2>2. list' \subseteq U /\ TopIds(IdsOf(U)) \subseteq IdsOf(U)
    BY <1>5 DEF Newest, TopIds, U
  <2> QED BY <2>1, <2>2 DEF IdsOf
<1>14. ASSUME NEW r \in list', Fresh(r.id)
       PROVE  <<r.id, r.version>> \in Latest'
  <2>1. r \in M /\ r \in Records /\ r.id \in Messages
    BY <1>5, <1>7, <1>8 DEF Newest, U, Records
  <2>2. CASE r.id # m
    <3>1. r \in list
      BY <1>10, <2>1, <2>2 DEF M, Merged
    <3>2. <<r.id, r.version>> \in Latest
      BY <1>14, <3>1 DEF ConvergedInv, KeepsFreshTop
    <3> QED BY <1>2, <2>2, <3>2, UpsertedLatest
  <2>3. CASE r.id = m /\ r = Selected(n) /\ Selected(n) \in list /\ Selected(n).version > v
    <3>1. <<m, r.version>> \in Latest
      BY <1>14, <2>3 DEF ConvergedInv, KeepsFreshTop
    <3> QED BY <1>2, <2>3, <3>1, UpsertedLatest
  <2>4. CASE r = n /\ \A s \in list : s.id = m => ~(s.version > v)
    <3>1. \A p \in Latest : p[1] = m => p[2] <= v
      <4> SUFFICES ASSUME NEW p \in Latest, p[1] = m PROVE p[2] <= v
        OBVIOUS
      <4>1. m \in IdsOf(list') /\ Fresh(m)
        BY <1>6, <1>14, <2>4 DEF IdsOf
      <4>2. m \in TopIds(StoredIds')
        BY <1>13, <4>1
      <4>3. m \in StoredIds
        BY DEF Latest, StoredIds
      <4>4. StoredIds' = StoredIds
        BY <1>3, <4>3
      <4>5. PICK s \in list : s.id = m
        BY <4>1, <4>2, <4>4 DEF ConvergedInv, KeepsFreshTop, IdsOf
      <4>6. <<m, s.version>> \in Latest
        BY <4>1, <4>5 DEF ConvergedInv, KeepsFreshTop
      <4>7. p = <<m, s.version>>
        BY <4>6, LatestIsUnique DEF ConvergedInv
      <4>8. s.version \in Nat /\ v \in Nat /\ ~(s.version > v)
        BY <2>4, <4>5, HistoryAssumption DEF ConvergedInv, HistoryInv, HistoryTypeOK, Records, Versions
      <4> QED BY <4>7, <4>8
    <3> QED BY <1>2, <1>6, <2>4, <3>1, UpsertedLatest
  <2>5. r.id = m => r = Selected(n)
    BY <2>1 DEF M, Merged
  <2> QED BY <1>6, <2>2, <2>3, <2>4, <2>5, SelectedIsNewest
<1>15. KeepsFreshTop'
  BY <1>1, <1>13, <1>14 DEF KeepsFreshTop, Fresh, Cutoff, IdsOf
<1> QED BY <1>1, <1>2, <1>4, <1>15, UpsertedLatest DEF ConvergedInv

\* Time takes freshness from messages, pruning and expiry take no fresh ones:
\* the key expires when its last record has just ceased to be fresh.
LEMMA TimeConverges ==
  ASSUME ConvergedInv,
         \/ Prune \/ Reset \/ Expire \/ Tick \/ UNCHANGED historyVars
         \/ \E u \in Users : BlockJobs(u)
  PROVE  ConvergedInv'
<1>1. HistoryInv /\ HistoryInv'
  BY ShrinkingKeeps DEF ConvergedInv
<1>2. stored' = stored /\ (clock' = clock \/ clock' = clock + 1)
  BY DEF Prune, Reset, Expire, Tick, BlockJobs, historyVars
<1>3. Latest' = Latest /\ StoredIds' = StoredIds /\ EachHasLatest'
  <2>1. Latest' = Latest
    BY <1>2 DEF Latest
  <2>2. StoredIds' = StoredIds
    BY <1>2 DEF StoredIds
  <2> QED BY <1>2, <2>1, <2>2 DEF EachHasLatest, ConvergedInv
<1>4. clock \in Nat /\ \A r \in list : When[r.id] \in Nat /\ r.id \in Messages
  <2>1. clock \in 0..MaxClock /\ list \subseteq Records
    BY <1>1 DEF HistoryInv, HistoryTypeOK
  <2>2. \A r \in Records : r.id \in Messages
    BY DEF Records
  <2>3. MaxClock \in Nat /\ When \in [Messages -> Nat]
    BY HistoryAssumption
  <2>4. clock \in Nat
    BY <2>1, <2>3
  <2> QED BY <2>1, <2>2, <2>3, <2>4
<1>5. \A i \in Messages : Fresh(i)' => Fresh(i)
  BY <1>2, <1>4, HistoryAssumption DEF Fresh, Cutoff
<1>6. list' \subseteq list
  BY DEF Prune, Reset, Expire, Tick, BlockJobs, historyVars, Usable
<1>7. \A r \in list : Fresh(r.id)' => r \in list'
  <2> SUFFICES ASSUME NEW r \in list, Fresh(r.id)' PROVE r \in list'
    OBVIOUS
  <2>1. CASE Prune
    BY <1>4, <2>1, HistoryAssumption DEF Prune, Usable, Fresh, Cutoff
  <2>2. CASE Expire
    <3>1. When[r.id] + Retention <= expiry /\ expiry <= clock /\ expiry \in Nat
      BY <1>1, <1>4, <2>2 DEF Expire, HistoryInv, ExpiryCoversRecords, HistoryTypeOK
    <3>2. When[r.id] > clock - Retention
      BY <2>2 DEF Expire, Fresh, Cutoff
    <3> QED BY <1>4, <3>1, <3>2, HistoryAssumption
  <2>3. CASE Reset \/ Tick \/ (\E u \in Users : BlockJobs(u)) \/ UNCHANGED historyVars
    BY <2>3 DEF Reset, Tick, BlockJobs, historyVars
  <2> QED BY <2>1, <2>2, <2>3
<1>8. KeepsFreshTop'
  <2>1. ASSUME NEW i \in Messages, Fresh(i)'
        PROVE  i \in IdsOf(list') <=> i \in TopIds(StoredIds')
    <3>1. Fresh(i) /\ (i \in IdsOf(list) <=> i \in TopIds(StoredIds))
      BY <1>5, <2>1 DEF ConvergedInv, KeepsFreshTop
    <3>2. i \in IdsOf(list') <=> i \in IdsOf(list)
      BY <1>6, <1>7, <2>1 DEF IdsOf
    <3> QED BY <1>3, <3>1, <3>2
  <2>2. ASSUME NEW r \in list', Fresh(r.id)'
        PROVE  <<r.id, r.version>> \in Latest'
    BY <1>3, <1>4, <1>5, <1>6, <2>2 DEF ConvergedInv, KeepsFreshTop
  <2> QED BY <2>1, <2>2 DEF KeepsFreshTop, IdsOf
<1> QED BY <1>1, <1>2, <1>3, <1>8 DEF ConvergedInv

\* The inductive invariant: once something was removed, what was stored says
\* no more what the list should be.
ConvergesUntilCleared == HistoryInv /\ (~cleared => ConvergedInv)

\* Until something is removed, the usable history is the newest of all that was
\* ever stored, whatever the order it came in.
THEOREM Convergence == HistorySpec => []Converged
<1>1. HistoryInit => ConvergesUntilCleared
  BY InitHasConvergedInv, InitHasHistoryInv DEF ConvergesUntilCleared
<1>2. ConvergesUntilCleared /\ [HistoryNext]_historyVars => ConvergesUntilCleared'
  <2> SUFFICES ASSUME ConvergesUntilCleared, [HistoryNext]_historyVars
               PROVE  ConvergesUntilCleared'
    OBVIOUS
  <2>1. HistoryInv'
    BY UpsertKeeps, ShrinkingKeeps, FilterKeeps DEF HistoryNext, ConvergesUntilCleared
  <2>2. CASE \E m \in Messages, v \in Versions, e \in 0..MaxResets : Upsert(m, v, e)
    <3>1. cleared' = cleared
      BY <2>2 DEF Upsert
    <3> QED BY <2>1, <2>2, <3>1, UpsertConverges DEF ConvergesUntilCleared
  <2>3. CASE \/ Prune \/ Reset \/ Expire \/ Tick \/ UNCHANGED historyVars
             \/ \E u \in Users : BlockJobs(u)
    <3>1. cleared' = cleared
      BY <2>3 DEF Prune, Reset, Expire, Tick, BlockJobs, historyVars
    <3> QED BY <2>1, <2>3, <3>1, TimeConverges DEF ConvergesUntilCleared
  <2>4. CASE \/ PurgeAll
             \/ \E m \in Messages, v \in Versions : RemoveBlank(m, v)
             \/ \E u \in Users : Filter(u)
    <3>1. cleared' = TRUE
      BY <2>4 DEF PurgeAll, RemoveBlank, Filter
    <3> QED BY <2>1, <3>1 DEF ConvergesUntilCleared
  <2> QED BY <2>2, <2>3, <2>4 DEF HistoryNext
<1>3. ConvergesUntilCleared => Converged
  BY InvIsConverged DEF ConvergesUntilCleared, Converged
<1> QED BY <1>1, <1>2, <1>3, PTL DEF HistorySpec

=============================================================================
