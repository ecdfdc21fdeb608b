---------------------------- MODULE MemoryProofs ----------------------------
(***************************************************************************)
(* What holds of the gathered memory for any number of users, processes,   *)
(* updates, resets, deletions and faults.                                  *)
(*                                                                         *)
(* MemoryInv is inductive where the properties are not: that no write is   *)
(* lost rests on what every process is about to store, and that on who     *)
(* holds the chat's lock.  Its proof first says what any step may do       *)
(* (Moves): either one process, alone inside, writes what they share, or   *)
(* nothing shared changes and every process moves Quietly.  Each part of   *)
(* the invariant then has a lemma that argues from these two cases.        *)
(***************************************************************************)
EXTENDS Memory, FiniteSetTheorems, TLAPS

Writers == {"invalidate", "record", "observe", "attach"}

\* The entries were born in the epoch they carry.
Dated(s) == \A e \in Entries(s) : e.born = e.epoch

\* And so was the work of a writer.
DatedWork(q) == q.op \in Writers => q.born = q.expected

\* A process is inside from the chat's lock on.
Inside(p) == proc[p].pc \notin {"idle", "chat"}

\* Who is about to store what it made of a shard.
Planned(p) == proc[p].op \in Writers /\ proc[p].pc \in {"recheck", "store"}

ProcType ==
  [op : Ops,
   pc : {"idle", "chat", "user", "tombstone", "lift", "read", "recheck", "store",
         "index", "leave", "first", "set", "members", "clear", "deindex", "entomb"},
   update : Updates \cup {Nobody}, user : Users \cup {Nobody},
   expected : Nat, born : Nat,
   text : {x.text : x \in Updates} \cup {Fact, Nobody},
   plan : Shards \cup SUBSET Users]

\* What a process works on, and where its operation takes it.
ProcIsSound(q) ==
  /\ q.op = "idle" <=> q.pc = "idle"
  /\ q.op \in Writers =>
       /\ q.pc \notin {"first", "set", "members", "clear", "deindex", "entomb"}
       /\ q.op \in {"attach", "invalidate"} => q.pc \notin {"tombstone", "lift"}
       /\ q.update \in Updates /\ q.user = q.update.user
       /\ q.op \in {"record", "invalidate"} => q.update \in sent
       /\ q.op = "observe" => q.text \in {q.update.text, Fact}
       /\ q.pc \in {"recheck", "store", "index"} => q.plan \in Shards
  /\ q.op = "reset" => /\ q.pc \in {"chat", "first", "set", "members", "clear", "leave"}
                       /\ q.pc = "clear" => q.plan \subseteq Users
  /\ q.op = "purge" => /\ q.pc \in {"chat", "first", "deindex", "entomb", "leave"}
                       /\ q.user \in Users

\* Everything has its type.
Typed ==
  /\ shard \in [Users -> Shards] /\ legacy \in [Users -> Shards]
  /\ index \subseteq Users
  /\ epoch \in Nat /\ resets \in Nat
  /\ tombstone \in [Users -> 0..MaxClock]
  /\ chatLock \in Procs \cup {Nobody, Dead}
  /\ userLock \in [Users -> Procs \cup {Nobody, Dead}]
  /\ job \in [Updates -> [epoch : Nat, born : Nat \cup {-1}]]
  /\ \A o \in pool : o.update \in Updates /\ o.epoch \in Nat /\ o.born \in Nat
  /\ proc \in [Procs -> ProcType]
  /\ \A p \in Procs : ProcIsSound(proc[p])
  /\ clock \in 1..MaxClock
  /\ sent \subseteq Updates /\ acked \subseteq sent /\ recorded \subseteq sent
  /\ faults \in Nat /\ outlived \in BOOLEAN /\ lateReset \in BOOLEAN

\* A reset that was given out may not have set the epoch yet.
ResetsAreBounded ==
  resets + Cardinality({p \in Procs : /\ proc[p].op = "reset"
                                      /\ proc[p].pc \in {"chat", "first", "set"}})
    <= MaxResets + Cardinality(Procs)

\* Only a reset that read the epoch of every reset before it sets one of its
\* own, and only one that has outlived its lock may have read another.
ResetsRaise ==
  /\ epoch <= resets
  /\ \A p \in Procs : Task(p, "reset", "set") =>
       /\ proc[p].expected <= resets + 1
       /\ proc[p].expected = resets + 1 => epoch = resets
  /\ ~lateReset => /\ epoch = resets
                   /\ \A p \in Procs : Task(p, "reset", "set") => proc[p].expected = epoch + 1

\* The work that is given out or may be was born in the epoch it carries.
WorkIsDated ==
  /\ \A x \in Updates : job[x].born >= 0 => job[x].born = job[x].epoch
  /\ \A o \in pool : o.born = o.epoch
  /\ \A p \in Procs : DatedWork(proc[p])

\* And so was what is stored, or about to be.
EntriesAreDated ==
  /\ \A u \in Users : Dated(shard[u]) /\ Dated(legacy[u])
  /\ \A p \in Procs : Planned(p) => Dated(proc[p].plan)

\* As long as every reset has set an epoch of its own.
EverythingIsDated == resets = epoch => WorkIsDated /\ EntriesAreDated

\* Whoever is inside has the chat's lock, unless it has outlived it.
LocksAreHeld ==
  /\ \A p \in Procs : chatLock = p => Inside(p)
  /\ \A p \in Procs, u \in Users : userLock[u] = p => Inside(p)
  /\ \A p \in Procs : Inside(p) /\ (~outlived \/ (~lateReset /\ proc[p].op = "reset")) =>
                        chatLock = p
  /\ faults = 0 => ~outlived

\* A tombstone stands over an empty shard, and is lifted before anything is
\* stored.
TombstonesStand ==
  ~outlived =>
    /\ \A u \in Users : tombstone[u] > 0 => shard[u] = <<>> /\ legacy[u] = <<>>
    /\ \A p \in Procs :
         \/ Planned(p)
         \/ proc[p].op \in {"record", "observe"} /\ proc[p].pc = "read"
         => tombstone[proc[p].user] = 0
    /\ \A p \in Procs : proc[p].pc \in {"deindex", "entomb"} =>
         shard[proc[p].user] = <<>> /\ legacy[proc[p].user] = <<>>

\* What is about to be stored is of the current epoch.
PlansAreCurrent ==
  ~outlived => \A p \in Procs : Planned(p) =>
    /\ \A e \in Entries(proc[p].plan) : e.epoch \in {epoch, proc[p].expected}
    /\ proc[p].pc = "store" => proc[p].expected = epoch

\* A shard shows an update in an entry that a reader gets.
Shows(s, x) == \E e \in Entries(s) : e.msg = x.msg /\ e.kind # "observation" /\ e.epoch = epoch

\* Whoever is about to store drops nothing without intent.
RecordedAreShown ==
  ~outlived =>
    /\ \A x \in recorded : Shows(shard[x.user], x)
    /\ \A p \in Procs : Planned(p) =>
         /\ \A x \in recorded : x.user = proc[p].user =>
              HasEntry(proc[p].plan, x) \/ x \in Superseded(p)
         /\ proc[p].op = "record" => HasEntry(proc[p].plan, proc[p].update)
    /\ \A p \in Procs : proc[p].op = "reset" /\ proc[p].pc \in {"members", "clear"} =>
         recorded = {}

\* Who is about to change the index knows what it is about.
IndexIsKnown ==
  faults = 0 =>
    /\ \A p \in Procs : proc[p].pc = "index" => shard[proc[p].user] = proc[p].plan
    /\ \A p \in Procs : proc[p].pc = "clear" => proc[p].plan = index
    /\ \A p \in Procs :
         /\ proc[p].op = "invalidate" /\ proc[p].plan # <<>>
         /\ proc[p].pc \in {"recheck", "store", "index"}
         => proc[p].user \in index \/ legacy[proc[p].user] # <<>>

MemoryInv ==
  /\ Typed /\ ResetsAreBounded /\ ResetsRaise /\ EverythingIsDated /\ LocksAreHeld
  /\ TombstonesStand /\ PlansAreCurrent /\ RecordedAreShown /\ IndexIsKnown /\ IndexFindsShards

-----------------------------------------------------------------------------
(* Lists.                                                                  *)

\* The positions up to each of them number the positions.
LEMMA Numbering ==
  ASSUME NEW at \in SUBSET Nat, IsFiniteSet(at)
  PROVE  /\ Cardinality(at) \in Nat
         /\ \A n \in 1..Cardinality(at) :
              \E i \in at : Cardinality({j \in at : j <= i}) = n
         /\ \A i \in at : Cardinality({j \in at : j <= i}) \in 1..Cardinality(at)
         /\ \A i, k \in at :
              Cardinality({j \in at : j <= i}) = Cardinality({j \in at : j <= k}) => i = k
<1> DEFINE upto(i) == {j \in at : j <= i}
           number == [i \in at |-> Cardinality(upto(i))]
           all == 1..Cardinality(at)
<1>1. Cardinality(at) \in Nat
  BY FS_CardinalityType
<1>2. \A i \in at : IsFiniteSet(upto(i)) /\ Cardinality(upto(i)) <= Cardinality(at)
  BY FS_Subset
<1>3. \A i \in at : Cardinality(upto(i)) \in Nat
  BY <1>2, FS_CardinalityType
<1>4. \A i \in at : Cardinality(upto(i)) # 0
  BY <1>2, FS_EmptySet
<1>5. \A i \in at : Cardinality(upto(i)) \in all
  BY <1>1, <1>2, <1>3, <1>4
<1>6. ASSUME NEW i \in at, NEW k \in at, Cardinality(upto(i)) = Cardinality(upto(k)), i <= k
      PROVE  i = k
  <2>1. ASSUME NEW j \in upto(i) PROVE j \in upto(k)
    <3>1. j \in at /\ j \in Nat /\ i \in Nat /\ k \in Nat /\ j <= i
      OBVIOUS
    <3> QED BY <1>6, <3>1
  <2>2. upto(i) = upto(k)
    BY <1>2, <1>6, <2>1, FS_Subset
  <2> QED BY <1>6, <2>2
<1>7. \A i, k \in at : Cardinality(upto(i)) = Cardinality(upto(k)) => i = k
  BY <1>6
<1>8. number \in Injection(at, all)
  BY <1>5, <1>7 DEF Injection, IsInjective
<1>9. IsFiniteSet(all) /\ Cardinality(all) = Cardinality(at)
  BY <1>1, FS_Interval
<1>10. number \in Surjection(at, all)
  BY <1>8, <1>9, FS_Injection
<1>11. \A n \in all : \E i \in at : number[i] = n
  BY <1>10 DEF Surjection
<1> QED BY <1>1, <1>5, <1>7, <1>11

\* What is kept of a list are the entries at the positions, each once.
LEMMA KeepSelects ==
  ASSUME NEW E, NEW s \in Seq(E), NEW at \in SUBSET DOMAIN s
  PROVE  /\ Keep(s, at) \in Seq(E)
         /\ Cardinality(at) \in Nat
         /\ DOMAIN Keep(s, at) = 1..Cardinality(at)
         /\ Len(Keep(s, at)) <= Len(s)
         /\ \E f \in [1..Cardinality(at) -> at] :
              /\ \A n \in 1..Cardinality(at) : Keep(s, at)[n] = s[f[n]]
              /\ \A m, n \in 1..Cardinality(at) : f[m] = f[n] => m = n
              /\ \A i \in at : \E n \in 1..Cardinality(at) : f[n] = i
<1> DEFINE all == 1..Cardinality(at)
           f == [n \in all |-> CHOOSE i \in at : Cardinality({j \in at : j <= i}) = n]
<1>1. DOMAIN s = 1..Len(s) /\ Len(s) \in Nat /\ \A i \in 1..Len(s) : s[i] \in E
  OBVIOUS
<1>2. IsFiniteSet(1..Len(s)) /\ Cardinality(1..Len(s)) = Len(s)
  <2>1. 1 \in Int /\ Len(s) \in Int
    BY <1>1
  <2>2. /\ IsFiniteSet(1..Len(s))
        /\ Cardinality(1..Len(s)) = IF 1 > Len(s) THEN 0 ELSE Len(s) - 1 + 1
    BY <2>1, FS_Interval
  <2> QED BY <1>1, <2>2
<1>3. IsFiniteSet(at) /\ Cardinality(at) <= Len(s) /\ at \in SUBSET Nat
  BY <1>1, <1>2, FS_Subset
<1>4. Cardinality(at) \in Nat
  BY <1>3, FS_CardinalityType
<1>5. ASSUME NEW n \in all
      PROVE  f[n] \in at /\ Cardinality({j \in at : j <= f[n]}) = n
  <2>1. \E i \in at : Cardinality({j \in at : j <= i}) = n
    BY <1>3, Numbering
  <2> QED BY <2>1
<1>6. f \in [all -> at]
  BY <1>5
<1>7. \A n \in all : Keep(s, at)[n] = s[f[n]]
  BY DEF Keep
<1>8. \A m, n \in all : f[m] = f[n] => m = n
  BY <1>5, Zenon
<1>9. ASSUME NEW i \in at
      PROVE  \E n \in all : f[n] = i
  <2> DEFINE n == Cardinality({j \in at : j <= i})
  <2>1. n \in all
    BY <1>3, Numbering
  <2>2. f[n] \in at /\ Cardinality({j \in at : j <= f[n]}) = Cardinality({j \in at : j <= i})
    BY <1>5, <2>1
  <2>3. f[n] = i
    BY <1>3, <2>2, Numbering
  <2> QED BY <2>1, <2>3
<1>10. DOMAIN Keep(s, at) = all
  BY DEF Keep
<1>11. Keep(s, at) \in [all -> E]
  <2>1. \A n \in all : f[n] \in 1..Len(s)
    BY <1>1, <1>6
  <2>2. \A n \in all : s[f[n]] \in E
    BY <1>1, <2>1, Zenon
  <2>3. \A n \in all : Keep(s, at)[n] \in E
    BY <1>7, <2>2
  <2>4. Keep(s, at) = [n \in all |-> Keep(s, at)[n]]
    BY DEF Keep
  <2> QED BY <2>3, <2>4
<1>12. Keep(s, at) \in Seq(E) /\ Len(Keep(s, at)) = Cardinality(at)
  BY <1>4, <1>10, <1>11
<1> HIDE DEF f
<1> QED BY <1>3, <1>4, <1>6, <1>7, <1>8, <1>9, <1>10, <1>12

\* A process is a record of its type; what it plans may be a shard.
LEMMA EmptyIsShard == <<>> \in Shards /\ \A s \in Shards : s \in Seq(EntryType)
BY MemoryAssumption DEF Shards, OneEach

\* Entries have a positive time, since they come of messages.
LEMMA EntriesAreTimed == \A e \in EntryType : e.ts \in Nat \ {0}
<1>1. \A x \in Origins : x.ts \in Nat \ {0}
  BY MemoryAssumption DEF Origins
<1> QED BY <1>1 DEF EntryType

\* What is kept of a shard is one, of the entries at the positions.
LEMMA KeptIsShard ==
  ASSUME NEW s \in Shards, NEW at \in SUBSET DOMAIN s
  PROVE  Keep(s, at) \in Shards /\ Entries(Keep(s, at)) = {s[i] : i \in at}
<1>0. s \in Seq(EntryType)
  BY DEF Shards
<1>1. s \in Seq(EntryType) /\ Len(s) <= MaxItems /\ OneEach(s)
  BY DEF Shards
<1>2. /\ Keep(s, at) \in Seq(EntryType) /\ Len(Keep(s, at)) <= Len(s)
      /\ DOMAIN Keep(s, at) = 1..Cardinality(at)
  BY <1>0, KeepSelects
<1>3. PICK f \in [1..Cardinality(at) -> at] :
        /\ \A n \in 1..Cardinality(at) : Keep(s, at)[n] = s[f[n]]
        /\ \A m, n \in 1..Cardinality(at) : f[m] = f[n] => m = n
        /\ \A i \in at : \E n \in 1..Cardinality(at) : f[n] = i
  BY SMTT(30), <1>0, KeepSelects
<1>4. \A n \in 1..Cardinality(at) : f[n] \in at /\ f[n] \in DOMAIN s
  BY <1>3
<1>5. Len(Keep(s, at)) <= MaxItems
  BY <1>1, <1>2, MemoryAssumption
<1>6. OneEach(Keep(s, at))
  BY <1>1, <1>2, <1>3, <1>4 DEF OneEach
<1>7. Entries(Keep(s, at)) = {s[i] : i \in at}
  BY <1>2, <1>3, <1>4 DEF Entries
<1> QED BY <1>2, <1>5, <1>6, <1>7 DEF Shards

\* A new entry at the end of a shard pushes out old ones only when it is full.
LEMMA AppendedIsShard ==
  ASSUME NEW s \in Shards, NEW e \in EntryType,
         e.kind # "observation" =>
           \A d \in Entries(s) : d.kind = "observation" \/ d.msg # e.msg
  PROVE  LET r == Newest(Append(s, e))
         IN  /\ r \in Shards
             /\ e \in Entries(r)
             /\ Entries(r) \subseteq Entries(s) \cup {e}
             /\ Len(r) = MaxItems \/ Entries(s) \subseteq Entries(r)
<1> DEFINE t == Append(s, e)
           r == Newest(t)
<1>1. s \in Seq(EntryType) /\ Len(s) <= MaxItems /\ OneEach(s)
  BY DEF Shards
<1>2. MaxItems \in Nat /\ MaxItems >= 1 /\ Len(s) \in Nat /\ DOMAIN s = 1..Len(s)
  BY <1>1, MemoryAssumption
<1>3. /\ t \in Seq(EntryType) /\ Len(t) = Len(s) + 1 /\ DOMAIN t = 1..(Len(s) + 1)
      /\ t[Len(s) + 1] = e /\ \A i \in 1..Len(s) : t[i] = s[i]
  BY <1>1, <1>2
<1>4. OneEach(t)
  BY <1>1, <1>2, <1>3 DEF OneEach, Entries
<1>5. Entries(t) = Entries(s) \cup {e}
  BY <1>2, <1>3 DEF Entries
<1> HIDE DEF t
<1>7. CASE Len(t) <= MaxItems
  <2>1. r = t
    BY <1>2, <1>3, <1>7 DEF Newest
  <2> QED BY <1>3, <1>4, <1>5, <1>7, <2>1 DEF Shards, t
<1>8. CASE Len(t) > MaxItems
  <2> DEFINE k == Len(t) - MaxItems
  <2>1. k \in Nat /\ k >= 1 /\ Len(t) - k = MaxItems
    BY <1>2, <1>3, <1>8
  <2>2. r = SubSeq(t, k + 1, Len(t))
    BY <1>2, <1>3, <1>8 DEF Newest
  <2>3. /\ r \in Seq(EntryType) /\ Len(r) = MaxItems /\ DOMAIN r = 1..MaxItems
        /\ \A i \in 1..MaxItems : r[i] = t[i + k] /\ i + k \in DOMAIN t
    BY <1>2, <1>3, <1>8, <2>1, <2>2
  <2>4. OneEach(r)
    <3> SUFFICES ASSUME NEW i \in 1..MaxItems, NEW j \in 1..MaxItems,
                        r[i].kind # "observation", r[j].kind # "observation",
                        r[i].msg = r[j].msg
                 PROVE  i = j
      BY <2>3 DEF OneEach
    <3>1. i + k \in DOMAIN t /\ j + k \in DOMAIN t /\ r[i] = t[i + k] /\ r[j] = t[j + k]
      BY <2>3
    <3>2. i + k = j + k
      BY <1>4, <3>1 DEF OneEach
    <3> QED BY <1>2, <2>1, <3>2
  <2>5. Entries(r) \subseteq Entries(t)
    BY <2>3 DEF Entries
  <2>6. r[MaxItems] = e /\ MaxItems \in DOMAIN r
    BY <1>2, <1>3, <2>1, <2>3
  <2>7. e \in Entries(r)
    BY <2>6 DEF Entries
  <2>8. r \in Shards
    BY <2>3, <2>4, <1>2 DEF Shards
  <2> QED BY <1>5, <2>3, <2>5, <2>7, <2>8 DEF t
<1> QED BY <1>2, <1>3, <1>7, <1>8

\* What a reader gets are the entries of the current epoch.
LEMMA VisibleEntries ==
  ASSUME Typed, NEW u \in Users
  PROVE  /\ Visible(u) \in Shards
         /\ Entries(Visible(u)) = {e \in Entries(IF shard[u] # <<>> THEN shard[u] ELSE legacy[u]) :
                                     e.epoch = epoch}
<1> DEFINE s == IF shard[u] # <<>> THEN shard[u] ELSE legacy[u]
           at == {i \in DOMAIN s : s[i].epoch = epoch}
<1>1. s \in Shards /\ at \in SUBSET DOMAIN s
  BY DEF Typed
<1>2. Visible(u) = Keep(s, at)
  BY DEF Visible
<1>3. {s[i] : i \in at} = {e \in Entries(s) : e.epoch = epoch}
  BY DEF Entries
<1> HIDE DEF s, at
<1>4. Visible(u) \in Shards /\ Entries(Visible(u)) = {s[i] : i \in at}
  BY <1>1, <1>2, KeptIsShard
<1> QED BY <1>3, <1>4 DEF s

\* The new entry of a message, and what a new one of the same message drops.
LEMMA NewEntries ==
  ASSUME Typed, NEW p \in Procs, proc[p].op \in {"record", "observe"}
  PROVE  LET q == proc[p]
             e == NewEntry(p)
         IN  /\ e \in EntryType /\ e.born = q.born /\ e.epoch = q.expected
             /\ e.msg = q.update.msg
             /\ e.kind = "observation" <=> q.op = "observe"
<1> DEFINE q == proc[p]
<1>1. /\ q.update \in Updates /\ q.born \in Nat /\ q.expected \in Nat
      /\ q.op = "observe" => q.text \in {q.update.text, Fact}
  BY DEF Typed, ProcType, ProcIsSound, Writers
<1>2. /\ q.update.msg \in {x.msg : x \in Origins}
      /\ q.update.ts \in {x.ts : x \in Origins}
      /\ q.update.text \in {x.text : x \in Origins}
  BY <1>1 DEF Origins
<1> QED BY <1>1, <1>2 DEF NewEntry, EntryType

\* What an operation makes of the shard it read: a shard again, of current
\* entries and its own, without any but those it means to drop.
LEMMA PlannedShard ==
  ASSUME Typed, NEW p \in Procs, proc[p].op \in Writers, proc[p].pc = "read"
  PROVE  LET q == proc[p]
             s == Plan(p, Visible(q.user))
         IN  /\ s \in Shards
             /\ \A e \in Entries(s) : e.epoch \in {epoch, q.expected}
             /\ \A x \in Updates : Shows(shard[q.user], x) =>
                  \/ HasEntry(s, x)
                  \/ q.op \in {"record", "invalidate"} /\ x.msg = q.update.msg
                  \/ Len(s) = MaxItems
             /\ q.op = "record" => HasEntry(s, q.update)
             /\ Dated(Visible(q.user)) /\ DatedWork(q) => Dated(s)
<1> DEFINE q == proc[p]
           old == Visible(q.user)
           s == Plan(p, old)
<1>1. q.user \in Users /\ q.update \in Updates /\ q.op \in Writers
  BY MemoryAssumption DEF Typed, ProcIsSound
<1>2. /\ old \in Shards
      /\ Entries(old) = {e \in Entries(IF shard[q.user] # <<>> THEN shard[q.user]
                                       ELSE legacy[q.user]) : e.epoch = epoch}
  BY <1>1, VisibleEntries
<1>3. \A x \in Updates : Shows(shard[q.user], x) =>
        \E e \in Entries(old) : e.msg = x.msg /\ e.kind # "observation"
  <2> SUFFICES ASSUME NEW x \in Updates, Shows(shard[q.user], x)
               PROVE  \E e \in Entries(old) : e.msg = x.msg /\ e.kind # "observation"
    OBVIOUS
  <2>1. PICK e \in Entries(shard[q.user]) :
          e.msg = x.msg /\ e.kind # "observation" /\ e.epoch = epoch
    BY DEF Shows
  <2>2. shard[q.user] # <<>>
    BY <2>1 DEF Entries
  <2> QED BY <1>2, <2>1, <2>2
<1>4. \A e \in Entries(old) : e.epoch = epoch
  BY <1>2
<1> HIDE DEF old
<1>5. CASE q.op = "record"
  <2> DEFINE at == {i \in DOMAIN old : old[i].msg # q.update.msg \/ old[i].kind = "observation"}
             kept == Keep(old, at)
             e == NewEntry(p)
  <2>1. s = Newest(Append(kept, e))
    BY <1>5 DEF Plan
  <2>2. kept \in Shards /\ Entries(kept) = {old[i] : i \in at}
    BY <1>2, KeptIsShard
  <2>3. e \in EntryType /\ e.born = q.born /\ e.epoch = q.expected /\ e.msg = q.update.msg
        /\ e.kind # "observation"
    BY <1>5, NewEntries
  <2>4. \A d \in Entries(kept) : d.kind = "observation" \/ d.msg # e.msg
    BY <2>2, <2>3
  <2>5. \A d \in Entries(old) : d \in Entries(kept) \/ (d.msg = q.update.msg)
    BY <2>2 DEF Entries
  <2>6. Entries(kept) \subseteq Entries(old)
    BY <2>2 DEF Entries
  <2> HIDE DEF kept, e
  <2>7. /\ s \in Shards /\ e \in Entries(s) /\ Entries(s) \subseteq Entries(kept) \cup {e}
        /\ Len(s) = MaxItems \/ Entries(kept) \subseteq Entries(s)
    BY <2>1, <2>2, <2>3, <2>4, AppendedIsShard
  <2> HIDE DEF s, old
  <2>8. \A d \in Entries(s) : d.epoch \in {epoch, q.expected}
    BY <1>4, <2>3, <2>6, <2>7
  <2>9. HasEntry(s, q.update)
    BY <2>3, <2>7 DEF HasEntry
  <2>10. ASSUME NEW x \in Updates, Shows(shard[q.user], x)
         PROVE  HasEntry(s, x) \/ x.msg = q.update.msg \/ Len(s) = MaxItems
    BY <1>3, <2>5, <2>7, <2>10 DEF HasEntry
  <2>11. Dated(old) /\ DatedWork(q) => Dated(s)
    BY <1>1, <2>3, <2>6, <2>7 DEF Dated, DatedWork
  <2> QED BY <1>5, <2>7, <2>8, <2>9, <2>10, <2>11 DEF s, old
<1>6. CASE q.op = "observe"
  <2> DEFINE e == NewEntry(p)
  <2>1. s = Newest(Append(old, e))
    BY <1>6 DEF Plan
  <2>2. e \in EntryType /\ e.born = q.born /\ e.epoch = q.expected /\ e.kind = "observation"
    BY <1>6, NewEntries
  <2> HIDE DEF e
  <2>3. /\ s \in Shards /\ Entries(s) \subseteq Entries(old) \cup {e}
        /\ Len(s) = MaxItems \/ Entries(old) \subseteq Entries(s)
    BY <1>2, <2>1, <2>2, AppendedIsShard
  <2> HIDE DEF s, old
  <2>4. \A d \in Entries(s) : d.epoch \in {epoch, q.expected}
    BY <1>4, <2>2, <2>3
  <2>5. ASSUME NEW x \in Updates, Shows(shard[q.user], x)
        PROVE  HasEntry(s, x) \/ Len(s) = MaxItems
    BY <1>3, <2>3, <2>5 DEF HasEntry
  <2>6. Dated(old) /\ DatedWork(q) => Dated(s)
    BY <1>1, <2>2, <2>3 DEF Dated, DatedWork
  <2> QED BY <1>6, <2>3, <2>4, <2>5, <2>6 DEF s, old
<1>7. CASE q.op = "attach"
  <2>1. s = [i \in DOMAIN old |-> IF Describes(p, old[i]) THEN [old[i] EXCEPT !.analysed = TRUE]
                                  ELSE old[i]]
    BY <1>7 DEF Plan
  <2>2. old \in Seq(EntryType) /\ Len(old) <= MaxItems /\ OneEach(old)
    BY <1>2 DEF Shards
  <2>3. DOMAIN old = 1..Len(old) /\ Len(old) \in Nat /\ \A i \in DOMAIN old : old[i] \in EntryType
    BY <2>2
  <2> HIDE DEF s, old
  <2>4. /\ DOMAIN s = DOMAIN old
        /\ \A i \in DOMAIN old : /\ s[i] \in EntryType /\ s[i].epoch = old[i].epoch
                                 /\ s[i].born = old[i].born /\ s[i].kind = old[i].kind
                                 /\ s[i].msg = old[i].msg
    BY <2>1, <2>3 DEF EntryType
  <2>5. s \in Seq(EntryType) /\ Len(s) = Len(old)
    <3>1. s = [i \in 1..Len(old) |-> s[i]]
      BY <2>1, <2>3
    <3>2. s \in [1..Len(old) -> EntryType]
      BY <3>1, <2>3, <2>4
    <3> QED BY <2>3, <3>2
  <2>6. s \in Shards
    BY <2>2, <2>4, <2>5 DEF Shards, OneEach
  <2>7. \A e \in Entries(s) : e.epoch = epoch
    BY <1>4, <2>4 DEF Entries
  <2>8. ASSUME NEW x \in Updates, Shows(shard[q.user], x)
        PROVE  HasEntry(s, x)
    <3>1. PICK i \in DOMAIN old : old[i].msg = x.msg /\ old[i].kind # "observation"
      BY <1>3, <2>8 DEF Entries
    <3> QED BY <2>4, <3>1 DEF HasEntry, Entries
  <2>9. Dated(old) => Dated(s)
    BY <2>4 DEF Dated, Entries
  <2> QED BY <1>7, <2>6, <2>7, <2>8, <2>9 DEF s, old
<1>8. CASE q.op = "invalidate"
  <2> DEFINE at == {i \in DOMAIN old : old[i].msg # q.update.msg}
  <2>1. s = Keep(old, at)
    BY <1>8 DEF Plan
  <2>2. s \in Shards /\ Entries(s) = {old[i] : i \in at}
    BY <1>2, <2>1, KeptIsShard
  <2> HIDE DEF s, old
  <2>3. \A e \in Entries(s) : e.epoch = epoch
    BY <1>4, <2>2 DEF Entries
  <2>4. \A d \in Entries(old) : d \in Entries(s) \/ d.msg = q.update.msg
    BY <2>2 DEF Entries
  <2>5. ASSUME NEW x \in Updates, Shows(shard[q.user], x)
        PROVE  HasEntry(s, x) \/ x.msg = q.update.msg
    BY <1>3, <2>4, <2>5 DEF HasEntry
  <2>6. Dated(old) => Dated(s)
    BY <2>2 DEF Dated, Entries
  <2> QED BY <1>8, <2>2, <2>3, <2>5, <2>6 DEF s, old
<1> QED BY <1>1, <1>5, <1>6, <1>7, <1>8 DEF Writers

-----------------------------------------------------------------------------
(* How processes move.                                                     *)

OthersStay(p) == \A r \in Procs \ {p} : proc'[r] = proc[r]

\* A process that keeps its work.
SameWork(p) ==
  /\ proc'[p].op = proc[p].op /\ proc'[p].update = proc[p].update
  /\ proc'[p].user = proc[p].user /\ proc'[p].expected = proc[p].expected
  /\ proc'[p].born = proc[p].born /\ proc'[p].text = proc[p].text

\* A process without work is sound.
LEMMA IdleIsSound == Idle \in ProcType /\ ProcIsSound(Idle)
BY EmptyIsShard DEF Idle, ProcType, ProcIsSound, Ops, Writers

\* One process gets a new record, the others keep theirs.
LEMMA OneMoves ==
  ASSUME Typed, NEW p \in Procs, NEW q \in ProcType, proc' = [proc EXCEPT ![p] = q]
  PROVE  OthersStay(p) /\ proc'[p] = q /\ proc' \in [Procs -> ProcType]
BY DEF Typed, OthersStay

\* A process that only goes on keeps its work, and stays typed.
LEMMA GotoMoves ==
  ASSUME Typed, NEW p \in Procs, NEW pc, Goto(p, pc)
  PROVE  OthersStay(p) /\ SameWork(p) /\ proc'[p].pc = pc /\ proc'[p].plan = proc[p].plan
<1>1. proc \in [Procs -> ProcType] /\ proc[p] \in ProcType
  BY DEF Typed
<1> QED BY <1>1 DEF Goto, OthersStay, SameWork, ProcType

\* Wherever it goes.
LEMMA GotoIsTyped ==
  ASSUME Typed, NEW p \in Procs, Goto(p, "user") \/ Goto(p, "tombstone") \/ Goto(p, "lift")
           \/ Goto(p, "read") \/ Goto(p, "store") \/ Goto(p, "index") \/ Goto(p, "leave")
           \/ Goto(p, "first") \/ Goto(p, "members") \/ Goto(p, "deindex") \/ Goto(p, "entomb")
  PROVE  proc' \in [Procs -> ProcType]
<1>1. proc \in [Procs -> ProcType] /\ proc[p] \in ProcType
  BY DEF Typed
<1>2. PICK pc \in {"user", "tombstone", "lift", "read", "store", "index", "leave", "first",
                   "members", "deindex", "entomb"} : Goto(p, pc)
  OBVIOUS
<1>3. [proc[p] EXCEPT !.pc = pc] \in ProcType
  BY <1>1 DEF ProcType
<1> QED BY <1>1, <1>2, <1>3 DEF Goto

\* What follows an operation: the process rests, or goes on to record the
\* edit whose former entries it has dropped.
Rests(p) ==
  /\ OthersStay(p)
  /\ proc' \in [Procs -> ProcType]
  /\ proc'[p].pc \in {"idle", "chat"}
  /\ proc'[p].op # "reset"
  /\ ProcIsSound(proc'[p])

\* Whatever follows an operation, done or not, is typed: Telegram is answered
\* for an update it sent, and an observation is submitted with the epoch of
\* that moment.
LEMMA ContinueRests ==
  ASSUME Typed, NEW p \in Procs, NEW ok, Continue(p, ok)
  PROVE  /\ Rests(p)
         /\ acked' \subseteq sent
         /\ \A o \in pool' : o.update \in Updates /\ o.epoch \in Nat /\ o.born \in Nat
         /\ resets = epoch => /\ \A o \in pool' : o \in pool \/ o.born = o.epoch
                              /\ DatedWork(proc'[p])
<1> DEFINE q == proc[p]
<1>1. q \in ProcType /\ ProcIsSound(q) /\ acked \subseteq sent /\ epoch \in Nat /\ resets \in Nat
      /\ \A o \in pool : o.update \in Updates /\ o.epoch \in Nat /\ o.born \in Nat
  BY DEF Typed
<1>2. Idle.pc = "idle" /\ Idle.op = "idle" /\ DatedWork(Idle)
  BY DEF Idle, DatedWork
<1>3. CASE StopWork(p)
  BY <1>1, <1>2, <1>3, IdleIsSound, OneMoves DEF StopWork, Rests
<1>4. CASE q.op = "record" /\ Answer(p)
  <2>1. q.update \in sent /\ q.update \in Updates
    BY <1>1, <1>4 DEF ProcIsSound, Writers
  <2>2. Rests(p) /\ DatedWork(proc'[p])
    BY <1>2, <1>4, IdleIsSound, OneMoves DEF Answer, Rests
  <2>3. acked' \subseteq sent
    BY <1>1, <1>4, <2>1 DEF Answer
  <2>4. \A o \in pool' : o \in pool \/ o = [update |-> q.update, epoch |-> epoch, born |-> resets]
    BY <1>4 DEF Answer
  <2> QED BY <1>1, <2>1, <2>2, <2>3, <2>4
<1>5. CASE q.op = "invalidate" /\ ThenRecord(p)
  <2> DEFINE r == [q EXCEPT !.op = "record", !.pc = "chat", !.plan = <<>>,
                            !.expected = epoch, !.born = resets]
  <2>1. proc' = [proc EXCEPT ![p] = r]
    BY <1>1, <1>5 DEF ThenRecord, Typed
  <2>2. r \in ProcType
    BY <1>1, EmptyIsShard DEF ProcType, Ops
  <2>3. q.update \in sent /\ q.update \in Updates /\ q.user = q.update.user
    BY <1>1, <1>5 DEF ProcIsSound, Writers
  <2>4. ProcIsSound(r) /\ r.pc = "chat" /\ r.op = "record"
    BY <1>1, <2>3 DEF ProcIsSound, Writers, ProcType
  <2>5. resets = epoch => DatedWork(r)
    BY <1>1 DEF DatedWork, ProcType
  <2> QED BY <1>1, <1>5, <2>1, <2>2, <2>4, <2>5, OneMoves DEF Rests, ThenRecord
<1> QED BY <1>3, <1>4, <1>5 DEF Continue

\* A step on what the processes share is one of these.
Writes(p) ==
  \/ Lift(p) \/ Store(p) \/ Index(p)
  \/ Bump(p) \/ Clear(p)
  \/ Drop(p) \/ Deindex(p) \/ Entomb(p)

\* Any other step leaves a process where it is or moves it like this.
Enters(p) ==
  /\ proc[p].pc = "chat" /\ chatLock = Nobody
  /\ SameWork(p) /\ proc'[p].plan = proc[p].plan
  /\ proc'[p].pc = IF proc[p].op \in {"reset", "purge"} THEN "first" ELSE "user"

Prepares(p) ==
  /\ proc[p].pc = "user"
  /\ SameWork(p) /\ proc'[p].plan = proc[p].plan
  /\ proc'[p].pc = IF proc[p].op \in {"record", "observe"} THEN "tombstone" ELSE "read"

Passes(p) ==
  /\ proc[p].pc = "tombstone"
  /\ SameWork(p) /\ proc'[p].plan = proc[p].plan
  /\ \/ proc'[p].pc = "lift"
     \/ proc'[p].pc = "read" /\ ~(tombstone[proc[p].user] > 0)

Plans(p) ==
  /\ proc[p].pc = "read" /\ ~Pointless(p, Visible(proc[p].user))
  /\ SameWork(p) /\ proc'[p].pc = "recheck"
  /\ proc'[p].plan = Plan(p, Visible(proc[p].user))

Compares(p) ==
  /\ proc[p].pc = "recheck" /\ proc[p].expected = epoch
  /\ SameWork(p) /\ proc'[p].plan = proc[p].plan /\ proc'[p].pc = "store"

Counts(p) ==
  /\ Task(p, "reset", "first")
  /\ proc'[p].op = "reset" /\ proc'[p].pc = "set" /\ proc'[p].expected = epoch + 1

Lists(p) ==
  /\ proc[p].op = "reset" /\ proc[p].pc = "members"
  /\ SameWork(p) /\ proc'[p].plan = index /\ proc'[p].pc = "clear"

Waits(p) ==
  /\ proc'[p].pc \in {"idle", "chat"}
  /\ proc'[p].op = "reset" => resets < MaxResets
  /\ proc[p].pc = "index" => faults' # 0

Quietly(p) ==
  \/ proc'[p] = proc[p] \/ Waits(p)
  \/ Enters(p) \/ Prepares(p) \/ Passes(p) \/ Plans(p) \/ Compares(p) \/ Counts(p) \/ Lists(p)

\* The work that is given out is sound.
LEMMA GivenWork ==
  ASSUME Typed, NEW p \in Procs,
         \/ \E x \in Updates : Deliver(p, x) \/ StartAnalysis(p, x)
         \/ \E o \in pool : StartObservation(p, o)
         \/ StartReset(p)
         \/ \E u \in Users : StartPurge(p, u)
  PROVE  /\ OthersStay(p) /\ IsIdle(p) /\ proc'[p].pc = "chat"
         /\ proc' \in [Procs -> ProcType] /\ ProcIsSound(proc'[p])
         /\ proc'[p].op = "reset" => resets < MaxResets
         /\ resets = epoch /\ WorkIsDated => DatedWork(proc'[p])
         /\ UNCHANGED <<shardSide, lockSide, clock, sent, acked, faults, stalls>>
<1> DEFINE dated == resets = epoch /\ WorkIsDated
           given(q) ==
      /\ q \in ProcType /\ q.pc = "chat" /\ ProcIsSound(q) /\ proc' = [proc EXCEPT ![p] = q]
      /\ q.op = "reset" => resets < MaxResets
      /\ dated => DatedWork(q)
<1>1. ASSUME NEW q, given(q)
      PROVE  OthersStay(p) /\ proc'[p].pc = "chat" /\ proc' \in [Procs -> ProcType]
             /\ ProcIsSound(proc'[p]) /\ (proc'[p].op = "reset" => resets < MaxResets)
             /\ (dated => DatedWork(proc'[p]))
  BY <1>1, OneMoves
<1>2. /\ epoch \in Nat /\ resets \in Nat
      /\ \A x \in Updates : job[x].epoch \in Nat /\ (job[x].born >= 0 => job[x].born \in Nat)
      /\ \A x \in Updates : x.user \in Users
      /\ <<>> \in Shards
  BY EmptyIsShard, MemoryAssumption DEF Typed
<1>3. ASSUME NEW x \in Updates, Deliver(p, x)
      PROVE  \E q : given(q)
  <2> DEFINE found == IF x.job /\ job[x].born >= 0 THEN job[x]
                      ELSE [epoch |-> epoch, born |-> resets]
             op == IF x.edited THEN "invalidate" ELSE "record"
             q == [Idle EXCEPT !.op = op, !.pc = "chat", !.update = x, !.user = x.user,
                               !.expected = found.epoch, !.born = found.born]
  <2>1. found.epoch \in Nat /\ found.born \in Nat /\ (dated => found.born = found.epoch)
    BY <1>2 DEF WorkIsDated
  <2>2. x \in sent /\ op \in {"invalidate", "record"}
    BY <1>3 DEF Deliver
  <2>3. proc' = [proc EXCEPT ![p] = q]
    BY <1>3 DEF Deliver
  <2> HIDE DEF found, op
  <2>4. q \in ProcType
    BY <1>2, <2>1, <2>2 DEF ProcType, Ops, Idle
  <2>5. ProcIsSound(q)
    BY <1>2, <2>1, <2>2 DEF ProcIsSound, Writers, Idle
  <2>6. q.pc = "chat" /\ q.op # "reset" /\ (dated => DatedWork(q))
    BY <2>1, <2>2 DEF Idle, DatedWork
  <2> HIDE DEF q
  <2> QED BY <2>3, <2>4, <2>5, <2>6
<1>4. ASSUME NEW x \in Updates, StartAnalysis(p, x)
      PROVE  \E q : given(q)
  <2> DEFINE q == [Idle EXCEPT !.op = "attach", !.pc = "chat", !.update = x, !.user = x.user,
                               !.expected = job[x].epoch, !.born = job[x].born]
  <2>1. /\ job[x].epoch \in Nat /\ job[x].born \in Nat
        /\ dated => job[x].born = job[x].epoch
    BY <1>2, <1>4 DEF StartAnalysis, WorkIsDated
  <2>2. proc' = [proc EXCEPT ![p] = q]
    BY <1>4 DEF StartAnalysis
  <2>3. q \in ProcType
    BY <1>2, <2>1 DEF ProcType, Ops, Idle
  <2>4. ProcIsSound(q)
    BY <1>2, <2>1 DEF ProcIsSound, Writers, Idle
  <2>5. q.pc = "chat" /\ q.op # "reset" /\ (dated => DatedWork(q))
    BY <2>1 DEF Idle, DatedWork
  <2> HIDE DEF q
  <2> QED BY <2>2, <2>3, <2>4, <2>5
<1>5. ASSUME NEW o \in pool, StartObservation(p, o)
      PROVE  \E q : given(q)
  <2>1. PICK t \in {Fact, o.update.text} :
          proc' = [proc EXCEPT ![p] =
            [Idle EXCEPT !.op = "observe", !.pc = "chat", !.update = o.update,
                         !.user = o.update.user, !.expected = o.epoch,
                         !.born = o.born, !.text = t]]
    BY <1>5 DEF StartObservation
  <2> DEFINE q == [Idle EXCEPT !.op = "observe", !.pc = "chat", !.update = o.update,
                               !.user = o.update.user, !.expected = o.epoch,
                               !.born = o.born, !.text = t]
  <2>2. /\ o.update \in Updates /\ o.epoch \in Nat /\ o.born \in Nat
        /\ dated => o.born = o.epoch
    BY DEF Typed, WorkIsDated
  <2>3. q \in ProcType
    BY <1>2, <2>2 DEF ProcType, Ops, Idle
  <2>4. ProcIsSound(q)
    BY <1>2, <2>2 DEF ProcIsSound, Writers, Idle
  <2>5. q.pc = "chat" /\ q.op # "reset" /\ proc' = [proc EXCEPT ![p] = q]
        /\ (dated => DatedWork(q))
    BY <2>1, <2>2 DEF Idle, DatedWork
  <2> HIDE DEF q
  <2> QED BY <2>3, <2>4, <2>5
<1>6. ASSUME StartReset(p)
      PROVE  \E q : given(q)
  <2> DEFINE q == [Idle EXCEPT !.op = "reset", !.pc = "chat"]
  <2>1. proc' = [proc EXCEPT ![p] = q]
    BY <1>6 DEF StartReset
  <2>2. q \in ProcType /\ ProcIsSound(q)
    BY <1>2 DEF ProcType, Ops, ProcIsSound, Writers, Idle
  <2>3. q.pc = "chat" /\ resets < MaxResets /\ DatedWork(q)
    BY <1>6 DEF Idle, StartReset, DatedWork, Writers
  <2> HIDE DEF q
  <2> QED BY <2>1, <2>2, <2>3
<1>7. ASSUME NEW u \in Users, StartPurge(p, u)
      PROVE  \E q : given(q)
  <2> DEFINE q == [Idle EXCEPT !.op = "purge", !.pc = "chat", !.user = u]
  <2>1. proc' = [proc EXCEPT ![p] = q]
    BY <1>7 DEF StartPurge
  <2>2. q \in ProcType /\ ProcIsSound(q)
    BY <1>2 DEF ProcType, Ops, ProcIsSound, Writers, Idle
  <2>3. q.pc = "chat" /\ q.op # "reset" /\ DatedWork(q)
    BY DEF Idle, DatedWork, Writers
  <2> HIDE DEF q
  <2> QED BY <2>1, <2>2, <2>3
<1>8. \E q : given(q)
  BY <1>3, <1>4, <1>5, <1>6, <1>7
<1>9. IsIdle(p) /\ UNCHANGED <<shardSide, lockSide, clock, sent, acked, faults, stalls>>
  BY DEF Deliver, StartAnalysis, StartObservation, StartReset, StartPurge, worldSide
<1> QED BY <1>1, <1>8, <1>9

\* A step on what the processes share is one of a process inside, which
\* goes on; nothing else changes.
LEMMA WriteMoves ==
  ASSUME Typed, NEW p \in Procs, Writes(p)
  PROVE  /\ OthersStay(p) /\ SameWork(p) /\ proc'[p].plan = proc[p].plan
         /\ proc' \in [Procs -> ProcType]
         /\ UNCHANGED <<lockSide, worldSide>>
         /\ Inside(p) /\ Inside(p)'
         /\ ProcIsSound(proc'[p])
<1>1. /\ Lift(p) => proc[p].pc = "lift" /\ Goto(p, "read")
      /\ Store(p) => proc[p].pc = "store" /\ Goto(p, "index")
      /\ Index(p) => proc[p].pc = "index" /\ Goto(p, "leave")
      /\ Bump(p) => proc[p].op = "reset" /\ proc[p].pc = "set" /\ Goto(p, "members")
      /\ Clear(p) => proc[p].op = "reset" /\ proc[p].pc = "clear" /\ Goto(p, "leave")
      /\ Drop(p) => proc[p].op = "purge" /\ proc[p].pc = "first" /\ Goto(p, "deindex")
      /\ Deindex(p) => proc[p].op = "purge" /\ proc[p].pc = "deindex" /\ Goto(p, "entomb")
      /\ Entomb(p) => proc[p].op = "purge" /\ proc[p].pc = "entomb" /\ Goto(p, "leave")
  BY DEF Lift, Store, Index, Bump, Clear, Drop, Deindex, Entomb, Task
<1>2. UNCHANGED <<lockSide, worldSide>>
  BY DEF Writes, Lift, Store, Index, Bump, Clear, Drop, Deindex, Entomb
<1>3. \A pc : Goto(p, pc) =>
        OthersStay(p) /\ SameWork(p) /\ proc'[p].pc = pc /\ proc'[p].plan = proc[p].plan
  BY GotoMoves
<1>4. proc' \in [Procs -> ProcType]
  BY <1>1, GotoIsTyped DEF Writes
<1>5. ProcIsSound(proc[p])
  BY DEF Typed
<1>6. ProcIsSound(proc'[p])
  BY <1>1, <1>3, <1>5 DEF Writes, ProcIsSound, SameWork, Writers
<1> QED BY <1>1, <1>2, <1>3, <1>4, <1>6 DEF Writes, Inside

\* Every other step leaves what the processes share, and moves each of them
\* as above.
LEMMA Moves ==
  ASSUME Typed, [MemoryNext]_memoryVars
  PROVE  \/ \E p \in Procs : Writes(p)
         \/ UNCHANGED shardSide /\ \A r \in Procs : Quietly(r)
<1> DEFINE Moved(p) == UNCHANGED shardSide /\ OthersStay(p) /\ Quietly(p)
<1>1. \A p \in Procs : Moved(p) => UNCHANGED shardSide /\ \A r \in Procs : Quietly(r)
  BY DEF OthersStay, Quietly
<1>2. \A p \in Procs : ProcIsSound(proc[p]) /\ proc[p] \in ProcType
  BY DEF Typed
<1>3. ASSUME UNCHANGED proc, UNCHANGED shardSide
      PROVE  \A r \in Procs : Quietly(r)
  BY <1>3 DEF Quietly
<1>4. CASE Tick \/ UNCHANGED memoryVars
  BY <1>3, <1>4 DEF Tick, memoryVars
<1>5. CASE \E h \in Procs \cup {Dead} : Expire(h)
  BY <1>3, <1>5 DEF Expire
<1>6. ASSUME NEW p \in Procs,
             \/ \E x \in Updates : Deliver(p, x) \/ StartAnalysis(p, x)
             \/ \E o \in pool : StartObservation(p, o)
             \/ StartReset(p)
             \/ \E u \in Users : StartPurge(p, u)
      PROVE  Moved(p)
  <2>1. /\ OthersStay(p) /\ IsIdle(p) /\ proc'[p].pc = "chat"
        /\ proc'[p].op = "reset" => resets < MaxResets
        /\ UNCHANGED shardSide
    BY <1>6, GivenWork
  <2>2. proc[p].pc = "idle"
    BY <1>2, <2>1 DEF IsIdle, ProcIsSound
  <2> QED BY <2>1, <2>2 DEF Quietly, Waits
<1>7. ASSUME NEW p \in Procs, NEW ok, Continue(p, ok), proc[p].pc # "index", UNCHANGED shardSide
      PROVE  Moved(p)
  BY <1>7, ContinueRests DEF Rests, Quietly, Waits
<1>8. ASSUME NEW p \in Procs, NEW ok, Leave(p, ok), proc[p].pc # "index"
      PROVE  Moved(p)
  BY <1>7, <1>8 DEF Leave
<1>9. ASSUME NEW p \in Procs, TakeChatLock(p)
      PROVE  Moved(p)
  <2>1. CASE chatLock = Nobody /\ Locked(p)
    <3>1. Enters(p) /\ OthersStay(p)
      BY <1>9, <2>1, GotoMoves DEF TakeChatLock, Locked, Enters
    <3> QED BY <2>1, <3>1 DEF Locked, Quietly
  <2>2. CASE Continue(p, FALSE) /\ UNCHANGED shardSide
    BY <1>7, <1>9, <2>2 DEF TakeChatLock
  <2> QED BY <1>9, <2>1, <2>2 DEF TakeChatLock
<1>10. ASSUME NEW p \in Procs, TakeUserLock(p)
       PROVE  Moved(p)
  <2>1. CASE Leave(p, FALSE)
    BY <1>8, <1>10, <2>1 DEF TakeUserLock
  <2>2. CASE /\ UNCHANGED shardSide
             /\ Goto(p, IF proc[p].op \in {"record", "observe"} THEN "tombstone" ELSE "read")
    <3>1. Prepares(p) /\ OthersStay(p)
      BY <1>10, <2>2, GotoMoves DEF TakeUserLock, Prepares
    <3> QED BY <2>2, <3>1 DEF Quietly
  <2> QED BY <1>10, <2>1, <2>2 DEF TakeUserLock
<1>11. ASSUME NEW p \in Procs, Tombstone(p)
       PROVE  Moved(p)
  <2>1. CASE Leave(p, FALSE)
    BY <1>8, <1>11, <2>1 DEF Tombstone
  <2>2. CASE /\ UNCHANGED shardSide
             /\ Goto(p, IF tombstone[proc[p].user] > 0 THEN "lift" ELSE "read")
    <3>1. Passes(p) /\ OthersStay(p)
      BY <1>11, <2>2, GotoMoves DEF Tombstone, Passes
    <3> QED BY <2>2, <3>1 DEF Quietly
  <2> QED BY <1>11, <2>1, <2>2 DEF Tombstone
<1>12. ASSUME NEW p \in Procs, Read(p)
       PROVE  Moved(p)
  <2> DEFINE old == Visible(proc[p].user)
             new == Plan(p, old)
  <2>1. CASE Leave(p, FALSE)
    BY <1>8, <1>12, <2>1 DEF Read
  <2>2. CASE /\ UNCHANGED shardSide /\ ~Pointless(p, old)
             /\ proc' = [proc EXCEPT ![p].pc = "recheck", ![p].plan = new]
    <3> HIDE DEF new
    <3>1. /\ OthersStay(p) /\ SameWork(p)
          /\ proc'[p].pc = "recheck" /\ proc'[p].plan = new
      BY <2>2 DEF OthersStay, SameWork, Typed, ProcType
    <3>2. Plans(p)
      BY <1>12, <2>2, <3>1 DEF Read, Plans, new
    <3> QED BY <2>2, <3>1, <3>2 DEF Quietly
  <2> QED BY <1>12, <2>1, <2>2 DEF Read
<1>13. ASSUME NEW p \in Procs, Recheck(p)
       PROVE  Moved(p)
  <2>1. CASE Leave(p, FALSE)
    BY <1>8, <1>13, <2>1 DEF Recheck
  <2>2. CASE proc[p].expected = epoch /\ Goto(p, "store") /\ UNCHANGED shardSide
    <3>1. Compares(p) /\ OthersStay(p)
      BY <1>13, <2>2, GotoMoves DEF Recheck, Compares
    <3> QED BY <2>2, <3>1 DEF Quietly
  <2> QED BY <1>13, <2>1, <2>2 DEF Recheck
<1>14. ASSUME NEW p \in Procs, ReadIndex(p)
       PROVE  Moved(p)
  <2>1. /\ OthersStay(p) /\ SameWork(p)
        /\ proc'[p].pc = "clear" /\ proc'[p].plan = index
    BY <1>14 DEF ReadIndex, OthersStay, SameWork, Typed, ProcType
  <2> QED BY <1>14, <2>1 DEF ReadIndex, Task, Quietly, Lists
<1>15. ASSUME NEW p \in Procs, NextEpoch(p)
       PROVE  Moved(p)
  <2>1. /\ OthersStay(p) /\ proc'[p].op = proc[p].op
        /\ proc'[p].pc = "set" /\ proc'[p].expected = epoch + 1
    BY <1>15 DEF NextEpoch, OthersStay, Typed, ProcType
  <2> QED BY <1>15, <2>1 DEF NextEpoch, Task, Quietly, Counts
<1>16. ASSUME NEW p \in Procs, Done(p)
       PROVE  Moved(p)
  BY <1>8, <1>16 DEF Done
<1>17. ASSUME NEW p \in Procs, Abandon(p)
       PROVE  Moved(p)
  <2>1. OthersStay(p) /\ proc'[p] = Idle
    BY <1>17, IdleIsSound, OneMoves DEF Abandon
  <2>2. faults' # 0
    BY <1>17 DEF Abandon, Typed
  <2> QED BY <1>17, <2>1, <2>2 DEF Abandon, Quietly, Waits, Idle
<1>18. CASE \E p \in Procs :
              \/ \E x \in Updates : Deliver(p, x) \/ StartAnalysis(p, x)
              \/ \E o \in pool : StartObservation(p, o)
              \/ StartReset(p)
              \/ \E u \in Users : StartPurge(p, u)
              \/ TakeChatLock(p) \/ TakeUserLock(p) \/ Tombstone(p) \/ Read(p) \/ Recheck(p)
              \/ NextEpoch(p) \/ ReadIndex(p) \/ Done(p) \/ Abandon(p)
  <2>1. \E p \in Procs : Moved(p)
    BY <1>6, <1>9, <1>10, <1>11, <1>12, <1>13, <1>14, <1>15, <1>16, <1>17, <1>18
  <2> QED BY <1>1, <2>1
<1>19. \/ \E p \in Procs : Writes(p)
       \/ Tick \/ UNCHANGED memoryVars
       \/ \E h \in Procs \cup {Dead} : Expire(h)
       \/ \E p \in Procs :
              \/ \E x \in Updates : Deliver(p, x) \/ StartAnalysis(p, x)
              \/ \E o \in pool : StartObservation(p, o)
              \/ StartReset(p)
              \/ \E u \in Users : StartPurge(p, u)
              \/ TakeChatLock(p) \/ TakeUserLock(p) \/ Tombstone(p) \/ Read(p) \/ Recheck(p)
              \/ NextEpoch(p) \/ ReadIndex(p) \/ Done(p) \/ Abandon(p)
  BY DEF MemoryNext, Step, Writes
<1> QED BY <1>3, <1>4, <1>5, <1>18, <1>19 DEF Tick, Expire, memoryVars

-----------------------------------------------------------------------------
(* Types.                                                                  *)

LocksTyped ==
  /\ chatLock \in Procs \cup {Nobody, Dead}
  /\ userLock \in [Users -> Procs \cup {Nobody, Dead}]

WorldTyped ==
  /\ job \in [Updates -> [epoch : Nat, born : Nat \cup {-1}]]
  /\ \A o \in pool : o.update \in Updates /\ o.epoch \in Nat /\ o.born \in Nat
  /\ clock \in 1..MaxClock
  /\ acked \subseteq sent
  /\ faults \in Nat /\ outlived \in BOOLEAN /\ lateReset \in BOOLEAN

ProcsTyped ==
  /\ proc \in [Procs -> ProcType]
  /\ \A p \in Procs : ProcIsSound(proc[p])

SharedTyped ==
  /\ shard \in [Users -> Shards] /\ legacy \in [Users -> Shards]
  /\ index \subseteq Users
  /\ epoch \in Nat /\ resets \in Nat
  /\ tombstone \in [Users -> 0..MaxClock]
  /\ recorded \subseteq sent

\* Typed, by who changes what.
LEMMA TypedParts ==
  Typed <=> LocksTyped /\ WorldTyped /\ ProcsTyped /\ SharedTyped /\ sent \subseteq Updates
BY DEF Typed, LocksTyped, WorldTyped, ProcsTyped, SharedTyped

\* One process moves soundly, and the updates that were sent stay.
LEMMA ProcsStayTyped ==
  ASSUME Typed, NEW p \in Procs, OthersStay(p), proc' \in [Procs -> ProcType],
         ProcIsSound(proc'[p]), UNCHANGED sent
  PROVE  ProcsTyped'
<1>1. \A r \in Procs : ProcIsSound(proc[r])
  BY DEF Typed
<1>2. \A r \in Procs : ProcIsSound(proc'[r])
  BY <1>1 DEF OthersStay
<1>3. \A r \in Procs : ProcIsSound(proc[r])'
  BY <1>2 DEF ProcIsSound
<1> QED BY <1>3 DEF ProcsTyped

\* A step of a process that keeps its work and goes on.
LEMMA GotoStaysSound ==
  ASSUME Typed, NEW p \in Procs, NEW pc, Goto(p, pc), UNCHANGED sent,
         ProcIsSound([proc[p] EXCEPT !.pc = pc]), [proc[p] EXCEPT !.pc = pc] \in ProcType
  PROVE  ProcsTyped'
<1>1. proc' = [proc EXCEPT ![p] = [proc[p] EXCEPT !.pc = pc]]
  BY DEF Goto, Typed
<1> QED BY <1>1, OneMoves, ProcsStayTyped

\* A lock that is taken is that of a process; one that is freed nobody's.
LEMMA FreeIsTyped ==
  ASSUME Typed, NEW p \in Procs, Free(p)
  PROVE  LocksTyped'
BY DEF Typed, Free, LocksTyped

\* The end of an operation is typed.
LEMMA LeaveIsTyped ==
  ASSUME Typed, NEW p \in Procs, NEW ok,
         Continue(p, ok), LocksTyped',
         UNCHANGED <<shardSide, job, clock, sent, purges, faults, stalls>>
  PROVE  Typed'
<1>1. /\ Rests(p)
      /\ acked' \subseteq sent
      /\ \A o \in pool' : o.update \in Updates /\ o.epoch \in Nat /\ o.born \in Nat
  BY ContinueRests
<1>2. ProcsTyped'
  BY <1>1, ProcsStayTyped DEF Rests
<1>3. WorldTyped /\ SharedTyped /\ sent \subseteq Updates
  BY TypedParts
<1>4. WorldTyped'
  BY <1>1, <1>3 DEF WorldTyped, stalls
<1>5. SharedTyped' /\ (sent \subseteq Updates)'
  BY <1>3 DEF SharedTyped, shardSide
<1> QED BY <1>2, <1>4, <1>5, TypedParts, PTL

\* What the processes share keeps its type.
LEMMA WritesAreTyped ==
  ASSUME Typed, NEW p \in Procs, Writes(p)
  PROVE  Typed'
<1>1. /\ OthersStay(p) /\ proc' \in [Procs -> ProcType] /\ ProcIsSound(proc'[p])
      /\ UNCHANGED <<lockSide, worldSide>>
  BY WriteMoves
<1>2. LocksTyped /\ WorldTyped /\ SharedTyped /\ sent \subseteq Updates
  BY TypedParts
<1>3. ProcsTyped'
  BY <1>1, ProcsStayTyped DEF worldSide
<1>4. LocksTyped' /\ WorldTyped' /\ (sent \subseteq Updates)'
  BY <1>1, <1>2 DEF LocksTyped, WorldTyped, lockSide, worldSide, stalls
<1>5. sent' = sent
  BY <1>1 DEF worldSide
<1>6. /\ proc[p].pc = "store" /\ proc[p].op \in Writers => proc[p].plan \in Shards
      /\ proc[p].op = "record" => proc[p].update \in sent
      /\ proc[p].op \in Writers => proc[p].user \in Users
      /\ proc[p].op = "purge" => proc[p].user \in Users
      /\ proc[p].op = "idle" <=> proc[p].pc = "idle"
      /\ proc[p].op \in Ops
      /\ proc[p].op = "reset" => proc[p].pc \notin {"store", "index", "lift"}
      /\ proc[p].op = "purge" => proc[p].pc \notin {"store", "index", "lift"}
      /\ proc[p].expected \in Nat
  BY MemoryAssumption DEF Typed, ProcIsSound, Writers, ProcType
<1>7. <<>> \in Shards /\ 0 \in 0..MaxClock /\ clock \in 0..MaxClock
  BY EmptyIsShard, MemoryAssumption DEF Typed
<1>8. Index(p) => proc[p].user \in Users
  <2>1. Index(p) => proc[p].pc = "index"
    BY DEF Index
  <2> QED BY <1>6, <2>1 DEF Ops, Writers
<1>9. SharedTyped'
  <2>1. CASE Lift(p)
    BY <1>2, <1>5, <1>7, <2>1 DEF Lift, SharedTyped
  <2>2. CASE Store(p)
    <3>1. proc[p].pc = "store"
      BY <2>2 DEF Store
    <3>2. proc[p].op \in Writers
      BY <1>6, <3>1 DEF Ops, Writers
    <3>3. /\ proc[p].plan \in Shards
          /\ proc[p].op = "record" => proc[p].update \in sent
      BY <1>6, <3>1, <3>2
    <3>4. recorded' \subseteq sent
      BY <1>2, <2>2, <3>3 DEF Store, SharedTyped
    <3> QED BY <1>2, <1>5, <2>2, <3>3, <3>4 DEF Store, SharedTyped
  <2>3. CASE Index(p)
    BY <1>2, <1>5, <1>8, <2>3 DEF Index, SharedTyped
  <2>4. CASE Bump(p)
    BY <1>2, <1>5, <1>6, <2>4 DEF Bump, SharedTyped
  <2>5. CASE Clear(p)
    BY <1>2, <1>5, <1>7, <2>5 DEF Clear, Without, SharedTyped
  <2>6. CASE Drop(p)
    BY <1>2, <1>5, <1>7, <2>6 DEF Drop, Without, SharedTyped
  <2>7. CASE Deindex(p)
    BY <1>2, <1>5, <2>7 DEF Deindex, SharedTyped
  <2>8. CASE Entomb(p)
    BY <1>2, <1>5, <1>7, <2>8 DEF Entomb, SharedTyped
  <2> QED BY <2>1, <2>2, <2>3, <2>4, <2>5, <2>6, <2>7, <2>8 DEF Writes
<1> QED BY <1>3, <1>4, <1>9, TypedParts, PTL

\* The other steps.
LEMMA QuietStepsAreTyped ==
  ASSUME Typed, [MemoryNext]_memoryVars
  PROVE  Typed' \/ \E p \in Procs : Writes(p)
<1> USE DEF shardSide, lockSide, worldSide, stalls
<1>1. LocksTyped /\ WorldTyped /\ ProcsTyped /\ SharedTyped /\ sent \subseteq Updates
  BY TypedParts
<1>2. ASSUME UNCHANGED shardSide
      PROVE  SharedTyped' \/ ~UNCHANGED sent
  BY <1>1, <1>2 DEF SharedTyped
<1>3. ASSUME UNCHANGED <<proc, sent>>
      PROVE  ProcsTyped'
  BY <1>1, <1>3 DEF ProcsTyped, ProcIsSound
<1>4. ASSUME UNCHANGED lockSide
      PROVE  LocksTyped'
  BY <1>1, <1>4 DEF LocksTyped
<1>5. ASSUME LocksTyped', WorldTyped', ProcsTyped', UNCHANGED <<shardSide, sent>>
      PROVE  Typed'
  BY <1>1, <1>2, <1>5 DEF Typed, LocksTyped, WorldTyped, ProcsTyped, SharedTyped
<1>6. CASE UNCHANGED memoryVars
  BY <1>1, <1>3, <1>4, <1>5, <1>6 DEF memoryVars, WorldTyped
<1>7. CASE Tick
  <2>1. WorldTyped'
    BY <1>1, <1>7, MemoryAssumption DEF Tick, WorldTyped
  <2> QED BY <1>3, <1>4, <1>5, <1>7, <2>1 DEF Tick
<1>8. ASSUME NEW h \in Procs \cup {Dead}, Expire(h)
      PROVE  Typed'
  <2>1. WorldTyped'
    <3>1. faults' \in Nat /\ UNCHANGED <<job, pool, clock, acked, sent>>
      BY <1>1, <1>8 DEF Expire, WorldTyped
    <3>2. /\ outlived' = TRUE \/ outlived' = outlived
          /\ lateReset' = TRUE \/ lateReset' = lateReset
      BY <1>8 DEF Expire
    <3>3. outlived' \in BOOLEAN /\ lateReset' \in BOOLEAN
      BY Zenon, <1>1, <3>2 DEF WorldTyped
    <3> QED BY <1>1, <3>1, <3>3 DEF WorldTyped
  <2>2. LocksTyped'
    BY <1>1, <1>8 DEF Expire, LocksTyped
  <2> QED BY <1>3, <1>5, <1>8, <2>1, <2>2 DEF Expire
<1>9. ASSUME NEW p \in Procs,
             \/ \E x \in Updates : Deliver(p, x) \/ StartAnalysis(p, x)
             \/ \E o \in pool : StartObservation(p, o)
             \/ StartReset(p)
             \/ \E u \in Users : StartPurge(p, u)
      PROVE  Typed'
  <2>1. /\ OthersStay(p) /\ proc' \in [Procs -> ProcType] /\ ProcIsSound(proc'[p])
        /\ UNCHANGED <<shardSide, lockSide, clock, sent, acked, faults, stalls>>
    BY <1>9, GivenWork
  <2>2. ProcsTyped' /\ LocksTyped'
    BY <1>4, <2>1, ProcsStayTyped
  <2>3. pool' \subseteq pool
    BY <1>9 DEF Deliver, StartAnalysis, StartObservation, StartReset, StartPurge
  <2> DEFINE JobTyped == job' \in [Updates -> [epoch : Nat, born : Nat \cup {-1}]]
  <2>4. JobTyped
    <3>1. CASE UNCHANGED job
      BY <1>1, <3>1 DEF WorldTyped
    <3>2. ASSUME NEW x \in Updates, Deliver(p, x)
          PROVE  JobTyped
      <4> DEFINE found == IF x.job /\ job[x].born >= 0 THEN job[x]
                          ELSE [epoch |-> epoch, born |-> resets]
      <4>1. found \in [epoch : Nat, born : Nat \cup {-1}]
        BY <1>1 DEF WorldTyped, SharedTyped
      <4>2. job' = job \/ job' = [job EXCEPT ![x] = found]
        BY <3>2 DEF Deliver
      <4> HIDE DEF found
      <4> QED BY <1>1, <4>1, <4>2 DEF WorldTyped
    <3>3. UNCHANGED job \/ \E x \in Updates : Deliver(p, x)
      BY <1>9 DEF StartAnalysis, StartObservation, StartReset, StartPurge
    <3> QED BY <3>1, <3>2, <3>3
  <2>5. WorldTyped'
    BY <1>1, <2>1, <2>3, <2>4 DEF WorldTyped
  <2> QED BY <1>5, <2>1, <2>2, <2>5
<1>10. ASSUME NEW p \in Procs, NEW ok, Leave(p, ok)
       PROVE  Typed'
  BY <1>10, FreeIsTyped, LeaveIsTyped DEF Leave
<1>11. ASSUME NEW p \in Procs, ProcsTyped', LocksTyped', UNCHANGED <<shardSide, worldSide>>
       PROVE  Typed'
  BY <1>1, <1>5, <1>11 DEF WorldTyped
<1>12. \A p \in Procs : ProcIsSound(proc[p]) /\ proc[p] \in ProcType
  BY <1>1 DEF ProcsTyped
<1>13. ASSUME NEW p \in Procs, TakeChatLock(p)
       PROVE  Typed'
  <2>1. CASE chatLock = Nobody /\ Locked(p)
    <3> DEFINE to == IF proc[p].op \in {"reset", "purge"} THEN "first" ELSE "user"
    <3>1. Goto(p, to) /\ UNCHANGED <<shardSide, worldSide>> /\ LocksTyped'
      BY <1>1, <2>1 DEF Locked, LocksTyped
    <3>2. [proc[p] EXCEPT !.pc = to] \in ProcType
      BY <1>12 DEF ProcType
    <3>3. ProcIsSound([proc[p] EXCEPT !.pc = to])
      BY <1>12, <1>13 DEF TakeChatLock, ProcType, ProcIsSound, Writers
    <3> HIDE DEF to
    <3> QED BY <1>11, <3>1, <3>2, <3>3, GotoStaysSound
  <2>2. CASE Continue(p, FALSE) /\ UNCHANGED lockSide
             /\ UNCHANGED <<shardSide, job, clock, sent, purges, faults, stalls>>
    BY <1>4, <2>2, LeaveIsTyped
  <2> QED BY <1>13, <2>1, <2>2 DEF TakeChatLock
<1>14. ASSUME NEW p \in Procs, TakeUserLock(p)
       PROVE  Typed'
  <2> DEFINE to == IF proc[p].op \in {"record", "observe"} THEN "tombstone" ELSE "read"
  <2>1. CASE Leave(p, FALSE)
    BY <1>10, <2>1
  <2>2. CASE /\ Goto(p, to) /\ UNCHANGED <<shardSide, worldSide, chatLock>>
             /\ userLock' = [userLock EXCEPT ![proc[p].user] = p]
    <3>1. LocksTyped'
      BY <1>1, <2>2 DEF LocksTyped
    <3>2. [proc[p] EXCEPT !.pc = to] \in ProcType
      BY <1>12 DEF ProcType
    <3>3. ProcIsSound([proc[p] EXCEPT !.pc = to])
      BY <1>12, <1>14 DEF TakeUserLock, ProcType, ProcIsSound, Writers
    <3> HIDE DEF to
    <3> QED BY <1>11, <2>2, <3>1, <3>2, <3>3, GotoStaysSound
  <2> QED BY <1>14, <2>1, <2>2 DEF TakeUserLock
<1>15. ASSUME NEW p \in Procs, Tombstone(p)
       PROVE  Typed'
  <2> DEFINE to == IF tombstone[proc[p].user] > 0 THEN "lift" ELSE "read"
  <2>1. CASE Leave(p, FALSE)
    BY <1>10, <2>1
  <2>2. CASE Goto(p, to) /\ UNCHANGED <<shardSide, lockSide, worldSide>>
    <3>1. proc[p].pc = "tombstone" /\ to \in {"lift", "read"}
      BY <1>15 DEF Tombstone
    <3> HIDE DEF to
    <3>2. [proc[p] EXCEPT !.pc = to] \in ProcType
      BY <1>12, <3>1 DEF ProcType
    <3>3. ProcIsSound([proc[p] EXCEPT !.pc = to])
      BY <1>12, <3>1 DEF ProcType, ProcIsSound, Writers
    <3> QED BY <1>4, <1>11, <2>2, <3>2, <3>3, GotoStaysSound
  <2> QED BY <1>15, <2>1, <2>2 DEF Tombstone
<1>16. ASSUME NEW p \in Procs, Read(p)
       PROVE  Typed'
  <2> DEFINE new == Plan(p, Visible(proc[p].user))
             q == [proc[p] EXCEPT !.pc = "recheck", !.plan = new]
  <2>1. CASE Leave(p, FALSE)
    BY <1>10, <2>1
  <2>2. CASE /\ proc' = [proc EXCEPT ![p].pc = "recheck", ![p].plan = new]
             /\ UNCHANGED <<shardSide, lockSide, worldSide>>
    <3>1. proc[p].pc = "read" /\ proc[p].op \in Writers
      <4>1. proc[p].pc = "read"
        BY <1>16 DEF Read
      <4> QED BY <1>12, <4>1 DEF ProcIsSound, ProcType, Ops, Writers
    <3>2. new \in Shards
      BY <3>1, PlannedShard
    <3> HIDE DEF new
    <3>3. proc' = [proc EXCEPT ![p] = q]
      BY <1>1, <2>2 DEF ProcsTyped
    <3>4. q \in ProcType
      BY <1>12, <3>2 DEF ProcType
    <3>5. ProcIsSound(q)
      BY <1>12, <3>1, <3>2 DEF ProcType, ProcIsSound, Writers
    <3> HIDE DEF q
    <3>6. ProcsTyped'
      BY <2>2, <3>3, <3>4, <3>5, OneMoves, ProcsStayTyped
    <3> QED BY <1>4, <1>11, <2>2, <3>6
  <2> QED BY <1>16, <2>1, <2>2 DEF Read
<1>17. ASSUME NEW p \in Procs, Recheck(p)
       PROVE  Typed'
  <2>1. CASE Leave(p, FALSE)
    BY <1>10, <2>1
  <2>2. CASE Goto(p, "store") /\ UNCHANGED <<shardSide, lockSide, worldSide>>
    <3>1. proc[p].pc = "recheck"
      BY <1>17 DEF Recheck
    <3>2. [proc[p] EXCEPT !.pc = "store"] \in ProcType
      BY <1>12 DEF ProcType
    <3>3. ProcIsSound([proc[p] EXCEPT !.pc = "store"])
      BY <1>12, <3>1 DEF ProcType, ProcIsSound, Writers
    <3> QED BY <1>4, <1>11, <2>2, <3>2, <3>3, GotoStaysSound
  <2> QED BY <1>17, <2>1, <2>2 DEF Recheck
<1>18. ASSUME NEW p \in Procs, ReadIndex(p)
       PROVE  Typed'
  <2> DEFINE q == [proc[p] EXCEPT !.pc = "clear", !.plan = index]
  <2>1. proc' = [proc EXCEPT ![p] = q]
    BY <1>1, <1>18 DEF ReadIndex, ProcsTyped
  <2>2. proc[p].op = "reset" /\ proc[p].pc = "members" /\ index \subseteq Users
    BY <1>1, <1>18 DEF ReadIndex, Task, SharedTyped
  <2>3. q \in ProcType
    BY <1>12, <2>2 DEF ProcType
  <2>4. ProcIsSound(q)
    BY <1>12, <2>2 DEF ProcType, ProcIsSound, Writers
  <2> HIDE DEF q
  <2>5. ProcsTyped'
    BY <1>18, <2>1, <2>3, <2>4, OneMoves, ProcsStayTyped DEF ReadIndex
  <2> QED BY <1>4, <1>11, <1>18, <2>5 DEF ReadIndex
<1>19. ASSUME NEW p \in Procs, NextEpoch(p)
       PROVE  Typed'
  <2> DEFINE q == [proc[p] EXCEPT !.pc = "set", !.expected = epoch + 1]
  <2>1. proc' = [proc EXCEPT ![p] = q]
    BY <1>1, <1>19 DEF NextEpoch, ProcsTyped
  <2>2. proc[p].op = "reset" /\ proc[p].pc = "first" /\ epoch + 1 \in Nat
    BY <1>1, <1>19 DEF NextEpoch, Task, SharedTyped
  <2>3. q \in ProcType
    BY <1>12, <2>2 DEF ProcType
  <2>4. ProcIsSound(q)
    BY <1>12, <2>2 DEF ProcType, ProcIsSound, Writers
  <2> HIDE DEF q
  <2>5. ProcsTyped'
    BY <1>19, <2>1, <2>3, <2>4, OneMoves, ProcsStayTyped DEF NextEpoch
  <2> QED BY <1>4, <1>11, <1>19, <2>5 DEF NextEpoch
<1>20. ASSUME NEW p \in Procs, Abandon(p)
       PROVE  Typed'
  <2>1. ProcsTyped'
    BY <1>20, IdleIsSound, OneMoves, ProcsStayTyped DEF Abandon
  <2>2. LocksTyped'
    BY <1>1, <1>20 DEF Abandon, Free, Orphan, LocksTyped
  <2>3. WorldTyped'
    BY <1>1, <1>20 DEF Abandon, WorldTyped
  <2> QED BY <1>5, <1>20, <2>1, <2>2, <2>3 DEF Abandon
<1> QED BY <1>6, <1>7, <1>8, <1>9, <1>10, <1>13, <1>14, <1>15, <1>16, <1>17, <1>18, <1>19, <1>20
        DEF MemoryNext, Step, Writes, Done

-----------------------------------------------------------------------------
(* Faults, resets and locks.                                               *)

\* A fault is not forgotten.
LEMMA FaultsStay ==
  ASSUME Typed, [MemoryNext]_memoryVars
  PROVE  /\ faults' = 0 => faults = 0
         /\ (outlived => outlived') /\ (lateReset => lateReset')
<1> USE DEF worldSide, stalls
<1>1. faults \in Nat
  BY DEF Typed
<1>2. CASE Tick \/ UNCHANGED memoryVars
  BY <1>2 DEF Tick, memoryVars
<1>3. ASSUME NEW h \in Procs \cup {Dead}, Expire(h)
      PROVE  (faults' = 0 => faults = 0) /\ (outlived => outlived') /\ (lateReset => lateReset')
  <2>1. faults' = 0 => faults = 0
    BY <1>1, <1>3 DEF Expire
  <2>2. /\ outlived' = TRUE \/ outlived' = outlived
        /\ lateReset' = TRUE \/ lateReset' = lateReset
    BY <1>3 DEF Expire
  <2> QED BY <2>1, <2>2
<1>4. ASSUME NEW p \in Procs, Abandon(p)
      PROVE  (faults' = 0 => faults = 0) /\ (outlived => outlived') /\ (lateReset => lateReset')
  BY <1>1, <1>4 DEF Abandon
<1>5. ASSUME NEW p \in Procs,
             \/ \E x \in Updates : Deliver(p, x) \/ StartAnalysis(p, x)
             \/ \E o \in pool : StartObservation(p, o)
             \/ StartReset(p)
             \/ \E u \in Users : StartPurge(p, u)
      PROVE  UNCHANGED <<faults, stalls>>
  BY <1>5, GivenWork
<1>6. ASSUME NEW p \in Procs, Writes(p)
      PROVE  UNCHANGED <<faults, stalls>>
  BY <1>6, WriteMoves
<1>7. ASSUME NEW p \in Procs, TakeChatLock(p) \/ TakeUserLock(p)
      PROVE  UNCHANGED <<faults, stalls>>
  BY <1>7 DEF TakeChatLock, TakeUserLock, Locked, Leave
<1>8. ASSUME NEW p \in Procs, \/ Tombstone(p) \/ Read(p) \/ Recheck(p) \/ NextEpoch(p)
                              \/ ReadIndex(p) \/ Done(p)
      PROVE  UNCHANGED <<faults, stalls>>
  BY <1>8 DEF Tombstone, Read, Recheck, NextEpoch, ReadIndex, Done, Leave
<1> QED BY <1>2, <1>3, <1>4, <1>5, <1>6, <1>7, <1>8 DEF MemoryNext, Step, Writes

Resetting == {p \in Procs : proc[p].op = "reset" /\ proc[p].pc \in {"chat", "first", "set"}}

\* Every reset is counted once: until it sets the epoch, or when it does.
LEMMA ResetsAreBoundedStep ==
  ASSUME Typed, ResetsAreBounded, [MemoryNext]_memoryVars
  PROVE  ResetsAreBounded'
<1> DEFINE now == Resetting
           next == Resetting'
<1>1. IsFiniteSet(Procs) /\ MaxResets \in Nat
  BY MemoryAssumption
<1>2. /\ IsFiniteSet(now) /\ Cardinality(now) <= Cardinality(Procs)
      /\ IsFiniteSet(next) /\ Cardinality(next) <= Cardinality(Procs)
  BY <1>1, FS_Subset DEF Resetting
<1>3. Cardinality(Procs) \in Nat /\ Cardinality(now) \in Nat /\ Cardinality(next) \in Nat
  BY <1>1, <1>2, FS_CardinalityType
<1>4. resets \in Nat /\ resets + Cardinality(now) <= MaxResets + Cardinality(Procs)
  BY DEF Typed, ResetsAreBounded, Resetting
<1>5. resets' + Cardinality(next) <= MaxResets + Cardinality(Procs)
  <2>1. CASE resets' = resets /\ next \subseteq now
    <3>1. Cardinality(next) <= Cardinality(now)
      BY <1>2, <2>1, FS_Subset
    <3> QED BY <1>1, <1>3, <1>4, <2>1, <3>1
  <2>2. CASE resets' = resets /\ resets < MaxResets
    BY <1>1, <1>2, <1>3, <1>4, <2>2
  <2>3. ASSUME NEW p \in Procs, Bump(p)
        PROVE  resets' + Cardinality(next) <= MaxResets + Cardinality(Procs)
    <3>1. p \in now /\ resets' = resets + 1 /\ Goto(p, "members")
      BY <2>3 DEF Bump, Task, Resetting
    <3>2. OthersStay(p) /\ proc'[p].pc = "members"
      BY <3>1, GotoMoves
    <3>3. next \subseteq now \ {p}
      BY <3>2 DEF Resetting, OthersStay
    <3>4. IsFiniteSet(now \ {p}) /\ Cardinality(now \ {p}) = Cardinality(now) - 1
      BY <1>2, <3>1, FS_RemoveElement
    <3>5. Cardinality(next) <= Cardinality(now \ {p})
      BY <3>3, <3>4, FS_Subset
    <3> QED BY <1>1, <1>3, <1>4, <3>1, <3>4, <3>5
  <2>4. ASSUME NEW p \in Procs, Writes(p), ~Bump(p)
        PROVE  resets' = resets /\ next \subseteq now
    <3>1. OthersStay(p) /\ SameWork(p) /\ ProcIsSound(proc'[p]) /\ Inside(p)'
      BY <2>4, WriteMoves
    <3>2. proc'[p].pc \notin {"first", "set"}
      BY <2>4, GotoMoves
         DEF Writes, Lift, Store, Index, Clear, Drop, Deindex, Entomb
    <3>3. resets' = resets
      BY <2>4 DEF Writes, Lift, Store, Index, Clear, Drop, Deindex, Entomb
    <3> QED BY <3>1, <3>2, <3>3 DEF Resetting, OthersStay, Inside
  <2>5. CASE UNCHANGED shardSide /\ \A r \in Procs : Quietly(r)
    <3>1. resets' = resets
      BY <2>5 DEF shardSide
    <3>2. CASE \E r \in Procs : Waits(r) /\ proc'[r].op = "reset"
      BY <2>2, <3>1, <3>2 DEF Waits
    <3>3. CASE ~\E r \in Procs : Waits(r) /\ proc'[r].op = "reset"
      <4> SUFFICES ASSUME NEW r \in next
                   PROVE  r \in now
        BY <2>1, <3>1
      <4>1. r \in Procs /\ proc'[r].op = "reset" /\ proc'[r].pc \in {"chat", "first", "set"}
        BY DEF Resetting
      <4>2. Quietly(r) /\ ~Waits(r)
        BY <2>5, <3>3, <4>1
      <4>3. proc'[r] = proc[r] \/ Enters(r) \/ Counts(r)
        BY <4>1, <4>2 DEF Quietly, Prepares, Passes, Plans, Compares, Lists, Enters
      <4> QED BY <4>1, <4>3 DEF Enters, Counts, Task, SameWork, Resetting
    <3> QED BY <3>2, <3>3
  <2> HIDE DEF now, next
  <2> QED BY <2>1, <2>3, <2>4, <2>5, Moves
<1> QED BY <1>5 DEF ResetsAreBounded, Resetting

\* As long as no process has outlived its lock only one is inside.
LEMMA OneInside ==
  ASSUME LocksAreHeld, ~outlived, NEW p \in Procs, NEW r \in Procs, Inside(p), Inside(r)
  PROVE  p = r /\ chatLock = p
BY DEF LocksAreHeld

\* A process that is inside and goes on keeps its locks.
LEMMA LocksStayHeld ==
  ASSUME LocksAreHeld, NEW p \in Procs, OthersStay(p),
         Inside(p), Inside(p)', proc'[p].op = proc[p].op,
         UNCHANGED <<lockSide, faults, stalls>>
  PROVE  LocksAreHeld'
BY DEF LocksAreHeld, OthersStay, Inside, lockSide, stalls

\* Who leaves frees its own locks only.
LEMMA LocksAreFreed ==
  ASSUME Typed, LocksAreHeld, NEW p \in Procs, OthersStay(p), ~Inside(p)',
         Free(p) \/ (/\ chatLock' = Orphan(chatLock, p)
                     /\ userLock' = [u \in Users |-> Orphan(userLock[u], p)]),
         UNCHANGED stalls, faults' = 0 => faults = 0
  PROVE  LocksAreHeld'
<1> USE DEF stalls
<1>1. Nobody \notin Procs /\ Dead \notin Procs
  BY MemoryAssumption
<1>2. \A r \in Procs : chatLock' = r => chatLock = r /\ r # p
  BY <1>1 DEF Free, Orphan
<1>3. \A r \in Procs, u \in Users : userLock'[u] = r => userLock[u] = r /\ r # p
  BY <1>1 DEF Free, Orphan
<1>4. \A r \in Procs \ {p} : chatLock = r => chatLock' = r
  BY DEF Free, Orphan
<1>5. \A r \in Procs \ {p} : Inside(r)' <=> Inside(r)
  BY DEF OthersStay, Inside
<1>6. \A r \in Procs \ {p} : proc'[r].op = proc[r].op
  BY DEF OthersStay
<1>7. \A r \in Procs : chatLock' = r => Inside(r)'
  BY <1>2, <1>5 DEF LocksAreHeld
<1>8. \A r \in Procs, u \in Users : userLock'[u] = r => Inside(r)'
  BY <1>3, <1>5 DEF LocksAreHeld
<1>9. \A r \in Procs :
        Inside(r)' /\ (~outlived' \/ (~lateReset' /\ proc'[r].op = "reset")) => chatLock' = r
  BY <1>4, <1>5, <1>6 DEF LocksAreHeld
<1>10. faults' = 0 => ~outlived'
  BY DEF LocksAreHeld
<1> QED BY <1>7, <1>8, <1>9, <1>10 DEF LocksAreHeld

\* A lock goes with its process, but for one that outlives it.
LEMMA LocksAreHeldStep ==
  ASSUME Typed, LocksAreHeld, [MemoryNext]_memoryVars
  PROVE  LocksAreHeld'
<1> USE DEF worldSide, lockSide, stalls
<1>1. Nobody \notin Procs /\ Dead \notin Procs /\ Nobody # Dead
  BY MemoryAssumption
<1>2. ASSUME UNCHANGED <<proc, lockSide, faults, stalls>>
      PROVE  LocksAreHeld'
  BY <1>2 DEF LocksAreHeld, Inside
<1>3. CASE Tick \/ UNCHANGED memoryVars
  BY <1>2, <1>3 DEF Tick, memoryVars
<1>4. ASSUME NEW h \in Procs \cup {Dead}, Expire(h)
      PROVE  LocksAreHeld'
  <2>1. /\ \A r \in Procs : chatLock' = r => chatLock = r
        /\ \A r \in Procs, u \in Users : userLock'[u] = r => userLock[u] = r
    BY <1>1, <1>4 DEF Expire, Typed
  <2>2. UNCHANGED proc
    BY <1>4 DEF Expire
  <2>3. \A r \in Procs : /\ Inside(r)' <=> Inside(r)
                         /\ proc'[r].op = proc[r].op
    BY <2>2 DEF Inside
  <2>4. \A r \in Procs : chatLock = r /\ (~outlived' \/ (~lateReset' /\ proc[r].op = "reset"))
          => chatLock' = r
    BY <1>1, <1>4 DEF Expire
  <2>5. (outlived => outlived') /\ (lateReset => lateReset')
    BY FaultsStay
  <2>6. faults' = 0 => ~outlived'
    <3>1. CASE h = Dead
      BY <1>1, <1>4, <3>1 DEF Expire, LocksAreHeld
    <3>2. CASE h \in Procs /\ chatLock = h
      BY <1>1, <1>4, <3>2 DEF Expire, Typed
    <3>3. CASE h \in Procs /\ chatLock # h
      <4>1. Inside(h) /\ faults' = faults
        BY <1>1, <1>4, <3>3 DEF Expire, LocksAreHeld
      <4> QED BY <3>3, <4>1 DEF LocksAreHeld
    <3> QED BY <3>1, <3>2, <3>3
  <2> QED BY <2>1, <2>3, <2>4, <2>5, <2>6 DEF LocksAreHeld
<1>5. ASSUME NEW p \in Procs,
             \/ \E x \in Updates : Deliver(p, x) \/ StartAnalysis(p, x)
             \/ \E o \in pool : StartObservation(p, o)
             \/ StartReset(p)
             \/ \E u \in Users : StartPurge(p, u)
      PROVE  LocksAreHeld'
  <2>1. /\ OthersStay(p) /\ IsIdle(p) /\ proc'[p].pc = "chat"
        /\ UNCHANGED <<lockSide, faults, stalls>>
    BY <1>5, GivenWork
  <2>2. proc[p].pc = "idle"
    BY <2>1 DEF Typed, IsIdle, ProcIsSound
  <2> QED BY <2>1, <2>2 DEF LocksAreHeld, OthersStay, Inside
<1>6. ASSUME NEW p \in Procs, Writes(p)
      PROVE  LocksAreHeld'
  BY <1>6, WriteMoves, LocksStayHeld DEF SameWork
<1>7. ASSUME NEW p \in Procs, NEW ok, Leave(p, ok)
      PROVE  LocksAreHeld'
  BY <1>7, ContinueRests, LocksAreFreed DEF Leave, Rests, Inside
<1>8. ASSUME NEW p \in Procs, TakeChatLock(p)
      PROVE  LocksAreHeld'
  <2>1. CASE chatLock = Nobody /\ Locked(p)
    <3>1. OthersStay(p) /\ SameWork(p) /\ Inside(p)'
      BY <2>1, GotoMoves DEF Locked, Inside
    <3> QED BY <1>1, <2>1, <3>1 DEF Locked, LocksAreHeld, OthersStay, Inside, SameWork
  <2>2. CASE Continue(p, FALSE) /\ UNCHANGED <<lockSide, faults, stalls>>
    <3>1. OthersStay(p) /\ ~Inside(p)'
      BY <2>2, ContinueRests DEF Rests, Inside
    <3>2. ~Inside(p)
      BY <1>8 DEF TakeChatLock, Inside
    <3> QED BY <2>2, <3>1, <3>2 DEF LocksAreHeld, OthersStay, Inside
  <2> QED BY <1>8, <2>1, <2>2 DEF TakeChatLock
<1>9. ASSUME NEW p \in Procs, TakeUserLock(p)
      PROVE  LocksAreHeld'
  <2> DEFINE to == IF proc[p].op \in {"record", "observe"} THEN "tombstone" ELSE "read"
  <2>1. CASE Leave(p, FALSE)
    BY <1>7, <2>1
  <2>2. CASE /\ userLock' = [userLock EXCEPT ![proc[p].user] = p]
             /\ Goto(p, to) /\ UNCHANGED <<chatLock, faults, stalls>>
    <3>1. Inside(p)
      BY <1>9 DEF TakeUserLock, Inside
    <3>2. OthersStay(p) /\ SameWork(p) /\ Inside(p)'
      BY <2>2, GotoMoves DEF Inside
    <3> QED BY <2>2, <3>1, <3>2 DEF LocksAreHeld, OthersStay, Inside, SameWork, Typed
  <2> QED BY <1>9, <2>1, <2>2 DEF TakeUserLock
<1>10. ASSUME NEW p \in Procs, Tombstone(p) \/ Recheck(p)
       PROVE  LocksAreHeld'
  <2>1. CASE Leave(p, FALSE)
    BY <1>7, <2>1
  <2>2. CASE /\ Goto(p, "store") \/ Goto(p, "lift") \/ Goto(p, "read")
             /\ UNCHANGED <<lockSide, worldSide>>
    <3>1. Inside(p)
      BY <1>10 DEF Tombstone, Recheck, Inside
    <3>2. OthersStay(p) /\ SameWork(p) /\ Inside(p)'
      BY <2>2, GotoMoves DEF Inside
    <3> QED BY <2>2, <3>1, <3>2, LocksStayHeld DEF SameWork
  <2> QED BY <1>10, <2>1, <2>2 DEF Tombstone, Recheck
<1>11. ASSUME NEW p \in Procs, Read(p) \/ ReadIndex(p)
       PROVE  LocksAreHeld'
  <2>1. CASE Leave(p, FALSE)
    BY <1>7, <2>1
  <2>2. ASSUME NEW pc \in {"recheck", "clear"}, NEW new,
               proc' = [proc EXCEPT ![p].pc = pc, ![p].plan = new],
               UNCHANGED <<lockSide, worldSide>>
        PROVE  LocksAreHeld'
    <3>1. Inside(p)
      BY <1>11 DEF Read, ReadIndex, Task, Inside
    <3>2. OthersStay(p) /\ proc'[p].op = proc[p].op /\ Inside(p)'
      BY <2>2 DEF OthersStay, Typed, ProcType, Inside
    <3> QED BY <2>2, <3>1, <3>2, LocksStayHeld
  <2>3. \/ Leave(p, FALSE)
        \/ \E pc \in {"recheck", "clear"}, new \in {Plan(p, Visible(proc[p].user)), index} :
             /\ proc' = [proc EXCEPT ![p].pc = pc, ![p].plan = new]
             /\ UNCHANGED <<lockSide, worldSide>>
    BY <1>11 DEF Read, ReadIndex
  <2> QED BY <2>1, <2>2, <2>3
<1>12. ASSUME NEW p \in Procs, NextEpoch(p)
       PROVE  LocksAreHeld'
  <2>1. Inside(p)
    BY <1>12 DEF NextEpoch, Task, Inside
  <2>2. OthersStay(p) /\ proc'[p].op = proc[p].op /\ Inside(p)'
    BY <1>12 DEF NextEpoch, OthersStay, Typed, ProcType, Inside
  <2> QED BY <1>12, <2>1, <2>2, LocksStayHeld DEF NextEpoch
<1>13. ASSUME NEW p \in Procs, Abandon(p)
       PROVE  LocksAreHeld'
  <2>1. OthersStay(p) /\ proc'[p] = Idle
    BY <1>13, IdleIsSound, OneMoves DEF Abandon
  <2>2. ~Inside(p)' /\ (faults' = 0 => faults = 0)
    BY <1>13, <2>1 DEF Abandon, Inside, Idle, Typed
  <2> QED BY <1>13, <2>1, <2>2, LocksAreFreed DEF Abandon
<1> QED BY <1>3, <1>4, <1>5, <1>6, <1>7, <1>8, <1>9, <1>10, <1>11, <1>12, <1>13
        DEF MemoryNext, Step, Writes, Done

\* Whoever changes what is shared is alone.
LEMMA AloneWrites ==
  ASSUME Typed, LocksAreHeld, ~outlived, NEW p \in Procs, Writes(p)
  PROVE  \A r \in Procs \ {p} : proc'[r] = proc[r] /\ ~Inside(r)
<1>1. OthersStay(p) /\ Inside(p)
  BY WriteMoves
<1> QED BY <1>1, OneInside DEF OthersStay

\* Where a writer is.
LEMMA WritersAreAt ==
  ASSUME Typed, NEW p \in Procs
  PROVE  /\ Lift(p) => proc[p].pc = "lift" /\ Goto(p, "read")
                       /\ proc[p].op \in {"record", "observe"} /\ proc[p].user \in Users
         /\ Store(p) => proc[p].pc = "store" /\ Goto(p, "index") /\ proc[p].op \in Writers
                        /\ proc[p].user \in Users /\ proc[p].plan \in Shards
                        /\ proc[p].update \in Updates
         /\ Index(p) => proc[p].pc = "index" /\ Goto(p, "leave") /\ proc[p].op \in Writers
                        /\ proc[p].user \in Users
         /\ Bump(p) => proc[p].pc = "set" /\ proc[p].op = "reset" /\ Goto(p, "members")
         /\ Clear(p) => proc[p].pc = "clear" /\ proc[p].op = "reset" /\ Goto(p, "leave")
                        /\ proc[p].plan \subseteq Users
         /\ Drop(p) => proc[p].pc = "first" /\ proc[p].op = "purge" /\ Goto(p, "deindex")
                       /\ proc[p].user \in Users
         /\ Deindex(p) => proc[p].pc = "deindex" /\ proc[p].op = "purge" /\ Goto(p, "entomb")
                          /\ proc[p].user \in Users
         /\ Entomb(p) => proc[p].pc = "entomb" /\ proc[p].op = "purge" /\ Goto(p, "leave")
                         /\ proc[p].user \in Users
<1>1. /\ Lift(p) => proc[p].pc = "lift" /\ Goto(p, "read")
      /\ Store(p) => proc[p].pc = "store" /\ Goto(p, "index")
      /\ Index(p) => proc[p].pc = "index" /\ Goto(p, "leave")
      /\ Bump(p) => proc[p].pc = "set" /\ proc[p].op = "reset" /\ Goto(p, "members")
      /\ Clear(p) => proc[p].pc = "clear" /\ proc[p].op = "reset" /\ Goto(p, "leave")
      /\ Drop(p) => proc[p].pc = "first" /\ proc[p].op = "purge" /\ Goto(p, "deindex")
      /\ Deindex(p) => proc[p].pc = "deindex" /\ proc[p].op = "purge" /\ Goto(p, "entomb")
      /\ Entomb(p) => proc[p].pc = "entomb" /\ proc[p].op = "purge" /\ Goto(p, "leave")
  BY DEF Lift, Store, Index, Bump, Clear, Drop, Deindex, Entomb, Task
<1>2. /\ proc[p].op = "idle" <=> proc[p].pc = "idle"
      /\ proc[p].op \in Ops
      /\ proc[p].op \in Writers =>
           /\ proc[p].user \in Users /\ proc[p].update \in Updates
           /\ proc[p].op \in {"attach", "invalidate"} => proc[p].pc # "lift"
           /\ proc[p].pc = "store" => proc[p].plan \in Shards
      /\ proc[p].op = "reset" => /\ proc[p].pc \notin {"lift", "store", "index"}
                                 /\ proc[p].pc = "clear" => proc[p].plan \subseteq Users
      /\ proc[p].op = "purge" => /\ proc[p].pc \notin {"lift", "store", "index"}
                                 /\ proc[p].user \in Users
  BY MemoryAssumption DEF Typed, ProcType, ProcIsSound, Writers
<1>3. proc[p].pc \in {"lift", "store", "index"} => proc[p].op \in Writers
  BY <1>2 DEF Ops, Writers
<1> QED BY <1>1, <1>2, <1>3 DEF Writers

\* What is read of nothing is nothing.
LEMMA SeenIsThere ==
  ASSUME Typed, NEW u \in Users, NEW e \in Entries(Visible(u))
  PROVE  /\ shard[u] # <<>> \/ legacy[u] # <<>>
         /\ e.epoch = epoch
<1>1. e \in Entries(IF shard[u] # <<>> THEN shard[u] ELSE legacy[u]) /\ e.epoch = epoch
  BY VisibleEntries
<1>2. Entries(<<>>) = {}
  BY DEF Entries
<1> QED BY <1>1, <1>2

\* An operation that gives up its former entries, or describes one, saw some.
LEMMA PlannersSaw ==
  ASSUME Typed, NEW p \in Procs, Plans(p), proc[p].op \in {"attach", "invalidate"}
  PROVE  proc[p].user \in Users /\ (shard[proc[p].user] # <<>> \/ legacy[proc[p].user] # <<>>)
<1>1. proc[p].user \in Users
  BY MemoryAssumption DEF Typed, ProcIsSound, Writers
<1>2. \E e \in Entries(Visible(proc[p].user)) : TRUE
  BY DEF Plans, Pointless
<1> QED BY <1>1, <1>2, SeenIsThere

-----------------------------------------------------------------------------
(* Resets and the epoch.                                                   *)

\* A reset sets an epoch that none has set before, unless it has read an old
\* one; and it reads an old one only if another has got in since.
LEMMA ResetsRaiseStep ==
  ASSUME Typed, LocksAreHeld, ResetsRaise, [MemoryNext]_memoryVars
  PROVE  ResetsRaise'
<1> DEFINE Set(r) == Task(r, "reset", "set")
<1>1. epoch \in Nat /\ resets \in Nat /\ epoch <= resets
  BY DEF Typed, ResetsRaise
<1>2. ~lateReset' => ~lateReset
  BY FaultsStay
<1>3. CASE UNCHANGED shardSide /\ \A r \in Procs : Quietly(r)
  <2>1. epoch' = epoch /\ resets' = resets
    BY <1>3 DEF shardSide
  <2>2. ASSUME NEW r \in Procs, Set(r)'
        PROVE  (Set(r) /\ proc'[r].expected = proc[r].expected) \/ proc'[r].expected = epoch + 1
    <3>1. proc'[r] = proc[r] \/ Counts(r)
      BY <1>3, <2>2 DEF Task, Quietly, Waits, Enters, Prepares, Passes, Plans, Compares, Lists
    <3> QED BY <2>2, <3>1 DEF Counts, Task
  <2> QED BY <1>1, <1>2, <2>1, <2>2 DEF ResetsRaise
<1>4. ASSUME NEW p \in Procs, Writes(p)
      PROVE  ResetsRaise'
  <2>1. OthersStay(p) /\ UNCHANGED worldSide
    BY <1>4, WriteMoves
  <2>2. proc'[p].pc # "set"
    BY <1>4, GotoMoves, WritersAreAt DEF Writes
  <2>3. \A r \in Procs : Set(r)' => r # p /\ proc'[r] = proc[r] /\ Set(r)
    BY <2>1, <2>2 DEF Task, OthersStay
  <2>4. lateReset' = lateReset
    BY <2>1 DEF worldSide, stalls
  <2>5. CASE Bump(p)
    <3>1. Set(p) /\ epoch' = proc[p].expected /\ resets' = resets + 1
      BY <2>5 DEF Bump
    <3>2. ASSUME ~lateReset, NEW r \in Procs, Set(r)
          PROVE  r = p
      BY <3>1, <3>2 DEF Task, Inside, LocksAreHeld
    <3>3. proc[p].expected \in Nat /\ \A r \in Procs : proc[r].expected \in Nat
      BY DEF Typed, ProcType
    <3> QED BY <1>1, <2>3, <2>4, <3>1, <3>2, <3>3 DEF ResetsRaise
  <2>6. CASE ~Bump(p)
    <3>1. epoch' = epoch /\ resets' = resets
      BY <1>4, <2>6 DEF Writes, Lift, Store, Index, Clear, Drop, Deindex, Entomb
    <3> QED BY <2>3, <2>4, <3>1 DEF ResetsRaise
  <2> QED BY <2>5, <2>6
<1> QED BY <1>3, <1>4, Moves

\* Two resets that have set the same epoch are never made good.
LEMMA EpochsStayBehind ==
  ASSUME Typed, ResetsRaise, [MemoryNext]_memoryVars, resets' = epoch'
  PROVE  resets = epoch
<1>1. epoch \in Nat /\ resets \in Nat
  BY DEF Typed
<1>2. ASSUME NEW p \in Procs, Bump(p)
      PROVE  resets = epoch
  BY <1>1, <1>2 DEF Bump, ResetsRaise
<1>3. CASE UNCHANGED <<epoch, resets>>
  BY <1>3
<1>4. ASSUME NEW p \in Procs, Writes(p), ~Bump(p)
      PROVE  UNCHANGED <<epoch, resets>>
  BY <1>4 DEF Writes, Lift, Store, Index, Clear, Drop, Deindex, Entomb
<1> QED BY <1>2, <1>3, <1>4, Moves DEF shardSide

\* Work is given out with the epoch of that moment, or that of its job.
LEMMA WorkStaysDated ==
  ASSUME Typed, resets = epoch, WorkIsDated, [MemoryNext]_memoryVars
  PROVE  WorkIsDated'
<1> USE DEF worldSide
<1>1. ASSUME UNCHANGED <<job, pool>>, NEW p \in Procs, OthersStay(p), DatedWork(proc'[p])
      PROVE  WorkIsDated'
  BY <1>1 DEF WorkIsDated, OthersStay
<1>2. ASSUME UNCHANGED <<job, pool, proc>>
      PROVE  WorkIsDated'
  BY <1>2 DEF WorkIsDated
<1>3. CASE Tick \/ UNCHANGED memoryVars \/ \E h \in Procs \cup {Dead} : Expire(h)
  BY <1>2, <1>3 DEF Tick, memoryVars, Expire
<1>4. \A p \in Procs : DatedWork(proc[p])
  BY DEF WorkIsDated
<1>5. ASSUME NEW p \in Procs,
             \/ \E x \in Updates : Deliver(p, x) \/ StartAnalysis(p, x)
             \/ \E o \in pool : StartObservation(p, o)
             \/ StartReset(p)
             \/ \E u \in Users : StartPurge(p, u)
      PROVE  WorkIsDated'
  <2>1. OthersStay(p) /\ DatedWork(proc'[p])
    BY <1>5, GivenWork
  <2>2. pool' \subseteq pool
    BY <1>5 DEF Deliver, StartAnalysis, StartObservation, StartReset, StartPurge
  <2>3. \A x \in Updates : job'[x].born >= 0 => job'[x].born = job'[x].epoch
    <3>1. CASE UNCHANGED job
      BY <3>1 DEF WorkIsDated
    <3>2. ASSUME NEW x \in Updates, Deliver(p, x)
          PROVE  \A y \in Updates : job'[y].born >= 0 => job'[y].born = job'[y].epoch
      <4> DEFINE found == IF x.job /\ job[x].born >= 0 THEN job[x]
                          ELSE [epoch |-> epoch, born |-> resets]
      <4>1. found.born = found.epoch
        BY DEF WorkIsDated
      <4>2. job' = job \/ job' = [job EXCEPT ![x] = found]
        BY <3>2 DEF Deliver
      <4> HIDE DEF found
      <4>3. \A y \in Updates : job'[y] = job[y] \/ job'[y] = found
        BY <4>2 DEF Typed
      <4> QED BY <4>1, <4>3 DEF WorkIsDated
    <3>3. UNCHANGED job \/ \E x \in Updates : Deliver(p, x)
      BY <1>5 DEF StartAnalysis, StartObservation, StartReset, StartPurge
    <3> QED BY <3>1, <3>2, <3>3
  <2> QED BY <2>1, <2>2, <2>3 DEF WorkIsDated, OthersStay
<1>6. ASSUME NEW p \in Procs, Writes(p)
      PROVE  WorkIsDated'
  BY <1>1, <1>4, <1>6, WriteMoves DEF SameWork, DatedWork
<1>7. ASSUME NEW p \in Procs, NEW ok, Continue(p, ok), UNCHANGED job
      PROVE  WorkIsDated'
  <2>1. /\ OthersStay(p) /\ DatedWork(proc'[p])
        /\ \A o \in pool' : o \in pool \/ o.born = o.epoch
    BY <1>7, ContinueRests DEF Rests
  <2> QED BY <1>7, <2>1 DEF WorkIsDated, OthersStay
<1>8. ASSUME NEW p \in Procs, NEW pc, Goto(p, pc), UNCHANGED worldSide
      PROVE  WorkIsDated'
  BY <1>1, <1>4, <1>8, GotoMoves DEF SameWork, DatedWork
<1>9. ASSUME NEW p \in Procs, \/ TakeChatLock(p) \/ TakeUserLock(p) \/ Tombstone(p)
                              \/ Recheck(p) \/ Done(p)
      PROVE  WorkIsDated'
  <2>1. ASSUME NEW ok, Leave(p, ok)
        PROVE  WorkIsDated'
    BY <1>7, <2>1 DEF Leave
  <2>2. CASE TakeChatLock(p)
    BY <1>7, <1>8, <2>2 DEF TakeChatLock, Locked
  <2>3. CASE TakeUserLock(p)
    BY <1>8, <2>1, <2>3 DEF TakeUserLock
  <2>4. CASE Tombstone(p)
    BY <1>8, <2>1, <2>4 DEF Tombstone
  <2>5. CASE Recheck(p)
    BY <1>8, <2>1, <2>5 DEF Recheck
  <2>6. CASE Done(p)
    BY <2>1, <2>6 DEF Done
  <2> QED BY <1>9, <2>2, <2>3, <2>4, <2>5, <2>6
<1>10. ASSUME NEW p \in Procs, Read(p)
       PROVE  WorkIsDated'
  <2>1. CASE Leave(p, FALSE)
    BY <1>7, <2>1 DEF Leave
  <2>2. ASSUME NEW new, proc' = [proc EXCEPT ![p].pc = "recheck", ![p].plan = new],
               UNCHANGED worldSide
        PROVE  WorkIsDated'
    <3>1. OthersStay(p) /\ proc'[p].op = proc[p].op /\ proc'[p].born = proc[p].born
          /\ proc'[p].expected = proc[p].expected
      BY <2>2 DEF OthersStay, Typed, ProcType
    <3> QED BY <1>1, <1>4, <2>2, <3>1 DEF DatedWork
  <2>3. Leave(p, FALSE) \/ \E new \in {Plan(p, Visible(proc[p].user))} :
          /\ proc' = [proc EXCEPT ![p].pc = "recheck", ![p].plan = new]
          /\ UNCHANGED worldSide
    BY <1>10 DEF Read
  <2> QED BY <2>1, <2>2, <2>3
<1>11. ASSUME NEW p \in Procs, NextEpoch(p) \/ ReadIndex(p)
       PROVE  WorkIsDated'
  <2>1. OthersStay(p) /\ proc'[p].op = "reset"
    BY <1>11 DEF NextEpoch, ReadIndex, Task, OthersStay, Typed, ProcType
  <2> QED BY <1>1, <1>11, <2>1 DEF NextEpoch, ReadIndex, DatedWork, Writers
<1>12. ASSUME NEW p \in Procs, Abandon(p)
       PROVE  WorkIsDated'
  <2>1. OthersStay(p) /\ proc'[p] = Idle
    BY <1>12, IdleIsSound, OneMoves DEF Abandon
  <2> QED BY <1>1, <1>12, <2>1 DEF Abandon, DatedWork, Idle, Writers
<1> QED BY <1>3, <1>5, <1>6, <1>9, <1>10, <1>11, <1>12 DEF MemoryNext, Step, Writes

\* What a writer stores it has made of such entries and its own.
LEMMA EverythingIsDatedStep ==
  ASSUME Typed, ResetsRaise, EverythingIsDated, [MemoryNext]_memoryVars
  PROVE  EverythingIsDated'
<1> SUFFICES ASSUME resets' = epoch'
             PROVE  WorkIsDated' /\ EntriesAreDated'
  BY DEF EverythingIsDated
<1>1. resets = epoch /\ WorkIsDated /\ EntriesAreDated
  BY EpochsStayBehind DEF EverythingIsDated
<1>2. WorkIsDated'
  BY <1>1, WorkStaysDated
<1>3. /\ \A u \in Users : Dated(shard[u]) /\ Dated(legacy[u])
      /\ \A r \in Procs : Planned(r) => Dated(proc[r].plan)
      /\ \A r \in Procs : DatedWork(proc[r])
  BY <1>1 DEF EntriesAreDated, WorkIsDated
<1>4. CASE UNCHANGED shardSide /\ \A r \in Procs : Quietly(r)
  <2>1. shard' = shard /\ legacy' = legacy
    BY <1>4 DEF shardSide
  <2>2. ASSUME NEW r \in Procs, Planned(r)'
        PROVE  Dated(proc'[r].plan)
    <3>1. CASE Plans(r)
      <4>1. proc[r].op \in Writers /\ proc[r].pc = "read"
            /\ proc'[r].plan = Plan(r, Visible(proc[r].user))
        BY <2>2, <3>1 DEF Plans, SameWork, Planned
      <4>2. proc[r].user \in Users
        BY <4>1, MemoryAssumption DEF Typed, ProcIsSound
      <4>3. Dated(Visible(proc[r].user))
        BY <1>3, <4>2, VisibleEntries DEF Dated
      <4>4. Dated(Plan(r, Visible(proc[r].user)))
        BY <1>3, <4>1, <4>3, PlannedShard
      <4> QED BY <4>1, <4>4
    <3>2. CASE proc'[r] = proc[r] \/ Compares(r)
      <4>1. Planned(r) /\ proc'[r].plan = proc[r].plan
        BY <2>2, <3>2 DEF Compares, SameWork, Planned
      <4> QED BY <1>3, <4>1
    <3>3. ~Waits(r) /\ ~Enters(r) /\ ~Prepares(r) /\ ~Passes(r) /\ ~Counts(r) /\ ~Lists(r)
      BY <2>2 DEF Waits, Enters, Prepares, Passes, Counts, Lists, SameWork, Planned
    <3> QED BY <1>4, <3>1, <3>2, <3>3 DEF Quietly
  <2> QED BY <1>2, <1>3, <2>1, <2>2 DEF EntriesAreDated
<1>5. ASSUME NEW p \in Procs, Writes(p)
      PROVE  EntriesAreDated'
  <2>1. OthersStay(p)
    BY <1>5, WriteMoves
  <2>2. ~Planned(p)'
    BY <1>5, GotoMoves, WritersAreAt DEF Writes, Planned
  <2>3. \A r \in Procs : Planned(r)' => Dated(proc'[r].plan)
    BY <1>3, <2>1, <2>2 DEF OthersStay, Planned
  <2>4. Dated(<<>>)
    BY DEF Dated, Entries
  <2>5. \A u \in Users : Dated(shard'[u]) /\ Dated(legacy'[u])
    <3>1. CASE Store(p)
      <4>1. Planned(p) /\ proc[p].user \in Users
        BY <3>1, WritersAreAt DEF Planned
      <4>2. Dated(proc[p].plan)
        BY <1>3, <4>1
      <4>3. \A u \in Users : shard'[u] = shard[u] \/ shard'[u] = proc[p].plan
        BY <3>1, <4>1 DEF Store, Typed
      <4> QED BY <1>3, <3>1, <4>2, <4>3 DEF Store
    <3>2. CASE Clear(p) \/ Drop(p)
      <4> SUFFICES ASSUME NEW u \in Users
                   PROVE  Dated(shard'[u]) /\ Dated(legacy'[u])
        OBVIOUS
      <4>1. shard'[u] \in {shard[u], <<>>} /\ legacy'[u] \in {legacy[u], <<>>}
        BY <3>2 DEF Clear, Drop, Without
      <4>2. Dated(shard[u]) /\ Dated(legacy[u])
        BY <1>3
      <4> HIDE DEF Dated
      <4> QED BY Zenon, <2>4, <4>1, <4>2
    <3>3. CASE Lift(p) \/ Index(p) \/ Bump(p) \/ Deindex(p) \/ Entomb(p)
      BY <1>3, <3>3 DEF Lift, Index, Bump, Deindex, Entomb
    <3> QED BY <1>5, <3>1, <3>2, <3>3 DEF Writes
  <2> QED BY <2>3, <2>5 DEF EntriesAreDated
<1> QED BY <1>2, <1>4, <1>5, Moves

-----------------------------------------------------------------------------
(* Tombstones.                                                             *)

Reading(p) == proc[p].op \in {"record", "observe"} /\ proc[p].pc = "read"

\* A deletion empties the shard before it puts up the tombstone, and a writer
\* lifts the tombstone before it reads; neither comes in between the other.
LEMMA TombstonesStandStep ==
  ASSUME Typed, LocksAreHeld, TombstonesStand, [MemoryNext]_memoryVars
  PROVE  TombstonesStand'
<1> SUFFICES ASSUME ~outlived'
             PROVE  TombstonesStand'
  BY DEF TombstonesStand
<1>1. ~outlived
  BY FaultsStay
<1>2. /\ \A u \in Users : tombstone[u] > 0 => shard[u] = <<>> /\ legacy[u] = <<>>
      /\ \A r \in Procs : Planned(r) \/ Reading(r) => tombstone[proc[r].user] = 0
      /\ \A r \in Procs : proc[r].pc \in {"deindex", "entomb"} =>
           shard[proc[r].user] = <<>> /\ legacy[proc[r].user] = <<>>
  BY <1>1 DEF TombstonesStand, Reading
<1>3. /\ tombstone \in [Users -> Nat] /\ shard \in [Users -> Shards]
      /\ legacy \in [Users -> Shards]
  BY MemoryAssumption DEF Typed
<1>4. \A r \in Procs : proc[r].op \in Ops /\ (proc[r].op \in Writers => proc[r].user \in Users)
  BY MemoryAssumption DEF Typed, ProcIsSound, ProcType
<1>5. CASE UNCHANGED shardSide /\ \A r \in Procs : Quietly(r)
  <2> USE <1>5 DEF shardSide
  <2>1. ASSUME NEW r \in Procs, Planned(r)' \/ Reading(r)'
        PROVE  tombstone'[proc'[r].user] = 0
    <3>1. CASE proc'[r] = proc[r]
      BY <1>2, <2>1, <3>1 DEF Planned, Reading
    <3>2. CASE Passes(r)
      <4>1. ~(tombstone[proc[r].user] > 0) /\ proc[r].op \in Writers /\ SameWork(r)
        BY <2>1, <3>2 DEF Passes, Planned, Reading, SameWork, Writers
      <4> QED BY <1>3, <1>4, <4>1 DEF SameWork
    <3>3. CASE Plans(r)
      <4>1. SameWork(r) /\ proc[r].pc = "read" /\ proc[r].op \in Writers
        BY <2>1, <3>3 DEF Plans, SameWork, Planned, Reading
      <4>2. CASE proc[r].op \in {"record", "observe"}
        BY <1>2, <4>1, <4>2 DEF Reading, SameWork
      <4>3. CASE proc[r].op \in {"attach", "invalidate"}
        BY <1>2, <1>3, <3>3, <4>1, <4>3, PlannersSaw DEF SameWork
      <4> QED BY <4>1, <4>2, <4>3 DEF Writers
    <3>4. CASE Compares(r)
      BY <1>2, <2>1, <3>4 DEF Compares, SameWork, Planned, Reading
    <3>5. ~Waits(r) /\ ~Enters(r) /\ ~Prepares(r) /\ ~Counts(r) /\ ~Lists(r)
      BY <2>1 DEF Waits, Enters, Prepares, Counts, Lists, SameWork, Planned, Reading
    <3> QED BY <3>1, <3>2, <3>3, <3>4, <3>5 DEF Quietly
  <2>2. ASSUME NEW r \in Procs, proc'[r].pc \in {"deindex", "entomb"}
        PROVE  shard'[proc'[r].user] = <<>> /\ legacy'[proc'[r].user] = <<>>
    <3>1. proc'[r] = proc[r]
      BY <2>2 DEF Quietly, Waits, Enters, Prepares, Passes, Plans, Compares, Counts, Lists
    <3> QED BY <1>2, <2>2, <3>1
  <2> QED BY <1>2, <2>1, <2>2 DEF TombstonesStand, Reading
<1>6. ASSUME NEW p \in Procs, Writes(p)
      PROVE  TombstonesStand'
  <2>1. \A r \in Procs \ {p} : proc'[r] = proc[r] /\ ~Inside(r)
    BY <1>1, <1>6, AloneWrites
  <2>2. \A r \in Procs \ {p} : /\ ~Planned(r)' /\ ~Reading(r)'
                               /\ proc'[r].pc \notin {"deindex", "entomb"}
    BY <2>1 DEF Planned, Reading, Inside
  <2>3. SameWork(p) /\ proc'[p].plan = proc[p].plan
    BY <1>6, WriteMoves
  <2>4. \A pc : Goto(p, pc) => proc'[p].pc = pc
    BY GotoMoves
  <2> DEFINE Buried == \A u \in Users : tombstone'[u] > 0 => shard'[u] = <<>> /\ legacy'[u] = <<>>
             Ready == Planned(p)' \/ Reading(p)' => tombstone'[proc'[p].user] = 0
             Cleared == proc'[p].pc \in {"deindex", "entomb"} =>
                          shard'[proc'[p].user] = <<>> /\ legacy'[proc'[p].user] = <<>>
  <2>5. Buried /\ Ready /\ Cleared
    <3>1. CASE Lift(p)
      <4>1. /\ proc[p].user \in Users /\ proc'[p].pc = "read"
            /\ tombstone' = [tombstone EXCEPT ![proc[p].user] = 0]
            /\ UNCHANGED <<shard, legacy>>
        BY <2>4, <3>1, WritersAreAt DEF Lift
      <4>2. Buried
        BY <1>2, <1>3, <4>1
      <4>3. tombstone'[proc'[p].user] = 0
        BY <1>3, <2>3, <4>1 DEF SameWork
      <4> QED BY <4>1, <4>2, <4>3
    <3>2. CASE Store(p)
      <4>1. tombstone[proc[p].user] = 0 /\ proc[p].user \in Users
        BY <1>2, <3>2, WritersAreAt DEF Planned
      <4> QED BY <1>2, <1>3, <2>4, <3>2, <4>1 DEF Store, Planned, Reading
    <3>3. CASE Index(p)
      BY <1>2, <2>4, <3>3 DEF Index, Planned, Reading
    <3>4. CASE Bump(p)
      BY <1>2, <2>4, <3>4 DEF Bump, Planned, Reading
    <3>5. CASE Clear(p)
      BY <1>2, <2>4, <3>5 DEF Clear, Without, Planned, Reading
    <3>6. CASE Drop(p)
      BY <1>2, <2>3, <2>4, <3>6, WritersAreAt DEF Drop, Without, Planned, Reading, SameWork
    <3>7. CASE Deindex(p)
      BY <1>2, <2>3, <2>4, <3>7, WritersAreAt DEF Deindex, Planned, Reading, SameWork
    <3>8. CASE Entomb(p)
      BY <1>2, <1>3, <2>4, <3>8, WritersAreAt DEF Entomb, Planned, Reading
    <3> QED BY <1>6, <3>1, <3>2, <3>3, <3>4, <3>5, <3>6, <3>7, <3>8 DEF Writes
  <2>6. \A r \in Procs : Planned(r)' \/ Reading(r)' => tombstone'[proc'[r].user] = 0
    BY <2>2, <2>5
  <2>7. \A r \in Procs : proc'[r].pc \in {"deindex", "entomb"} =>
          shard'[proc'[r].user] = <<>> /\ legacy'[proc'[r].user] = <<>>
    BY <2>2, <2>5
  <2> QED BY <2>5, <2>6, <2>7 DEF TombstonesStand, Reading
<1> QED BY <1>5, <1>6, Moves

-----------------------------------------------------------------------------
(* Plans and what was recorded.                                            *)

\* A shard is read in the current epoch, and stored in it.
LEMMA PlansAreCurrentStep ==
  ASSUME Typed, LocksAreHeld, PlansAreCurrent, [MemoryNext]_memoryVars
  PROVE  PlansAreCurrent'
<1> SUFFICES ASSUME ~outlived', NEW r \in Procs, Planned(r)'
             PROVE  /\ \A e \in Entries(proc'[r].plan) : e.epoch \in {epoch', proc'[r].expected}
                    /\ proc'[r].pc = "store" => proc'[r].expected = epoch'
  BY DEF PlansAreCurrent
<1>1. ~outlived
  BY FaultsStay
<1>2. Planned(r) => /\ \A e \in Entries(proc[r].plan) : e.epoch \in {epoch, proc[r].expected}
                    /\ proc[r].pc = "store" => proc[r].expected = epoch
  BY <1>1 DEF PlansAreCurrent
<1>3. CASE UNCHANGED shardSide /\ Quietly(r)
  <2>1. epoch' = epoch
    BY <1>3 DEF shardSide
  <2>2. CASE proc'[r] = proc[r]
    BY <1>2, <2>1, <2>2 DEF Planned
  <2>3. CASE Plans(r)
    <3>1. proc[r].op \in Writers /\ proc[r].pc = "read" /\ proc'[r].pc = "recheck"
          /\ proc'[r].expected = proc[r].expected
          /\ proc'[r].plan = Plan(r, Visible(proc[r].user))
      BY <2>3 DEF Plans, SameWork, Planned
    <3>2. \A e \in Entries(Plan(r, Visible(proc[r].user))) : e.epoch \in {epoch, proc[r].expected}
      BY <3>1, PlannedShard
    <3> QED BY <2>1, <3>1, <3>2
  <2>4. CASE Compares(r)
    <3>1. Planned(r) /\ proc'[r].plan = proc[r].plan /\ proc'[r].expected = proc[r].expected
          /\ proc[r].expected = epoch
      BY <2>4 DEF Compares, SameWork, Planned
    <3> QED BY <1>2, <2>1, <3>1
  <2>5. ~Waits(r) /\ ~Enters(r) /\ ~Prepares(r) /\ ~Passes(r) /\ ~Counts(r) /\ ~Lists(r)
    BY DEF Waits, Enters, Prepares, Passes, Counts, Lists, SameWork, Planned
  <2> QED BY <1>3, <2>2, <2>3, <2>4, <2>5 DEF Quietly
<1>4. ASSUME NEW p \in Procs, Writes(p)
      PROVE  FALSE
  <2>1. p = r
    BY <1>1, <1>4, AloneWrites DEF Planned, Inside
  <2>2. \A pc : Goto(r, pc) => proc'[r].pc = pc
    BY GotoMoves
  <2>3. proc'[r].pc \notin {"recheck", "store"}
    BY <1>4, <2>1, <2>2, WritersAreAt DEF Writes
  <2> QED BY <2>3 DEF Planned
<1> QED BY <1>3, <1>4, Moves

\* Whoever stores a shard read it after everyone else had stored theirs.
LEMMA RecordedAreShownStep ==
  ASSUME Typed, LocksAreHeld, PlansAreCurrent, RecordedAreShown, [MemoryNext]_memoryVars
  PROVE  RecordedAreShown'
<1> SUFFICES ASSUME ~outlived'
             PROVE  RecordedAreShown'
  BY DEF RecordedAreShown
<1>1. ~outlived
  BY FaultsStay
<1>2. /\ \A x \in recorded : Shows(shard[x.user], x)
      /\ \A r \in Procs : Planned(r) =>
           /\ \A x \in recorded : x.user = proc[r].user =>
                HasEntry(proc[r].plan, x) \/ x \in Superseded(r)
           /\ proc[r].op = "record" => HasEntry(proc[r].plan, proc[r].update)
      /\ \A r \in Procs : proc[r].op = "reset" /\ proc[r].pc \in {"members", "clear"} =>
           recorded = {}
  BY <1>1 DEF RecordedAreShown
<1>3. recorded \subseteq Updates /\ shard \in [Users -> Shards]
      /\ \A x \in Updates : x.user \in Users
  BY MemoryAssumption DEF Typed
<1>4. CASE UNCHANGED shardSide /\ \A r \in Procs : Quietly(r)
  <2>1. recorded' = recorded /\ shard' = shard /\ epoch' = epoch
    BY <1>4 DEF shardSide
  <2>2. \A x \in recorded' : Shows(shard[x.user], x)'
    BY <1>2, <2>1 DEF Shows
  <2>3. ASSUME NEW r \in Procs, Planned(r)'
        PROVE  /\ \A x \in recorded' : x.user = proc'[r].user =>
                    HasEntry(proc'[r].plan, x) \/ x \in Superseded(r)'
               /\ proc'[r].op = "record" => HasEntry(proc'[r].plan, proc'[r].update)
    <3>1. CASE proc'[r] = proc[r]
      BY <1>2, <2>1, <2>3, <3>1 DEF Planned, Superseded
    <3>2. CASE Compares(r)
      <4>1. Planned(r) /\ SameWork(r) /\ proc'[r].plan = proc[r].plan
        BY <2>3, <3>2 DEF Compares, SameWork, Planned
      <4> QED BY <1>2, <2>1, <4>1 DEF SameWork, Superseded
    <3>3. CASE Plans(r)
      <4> DEFINE new == Plan(r, Visible(proc[r].user))
      <4>1. proc[r].op \in Writers /\ proc[r].pc = "read" /\ SameWork(r) /\ proc'[r].plan = new
        BY <2>3, <3>3 DEF Plans, SameWork, Planned
      <4>2. /\ \A x \in Updates : Shows(shard[proc[r].user], x) =>
                 \/ HasEntry(new, x)
                 \/ proc[r].op \in {"record", "invalidate"} /\ x.msg = proc[r].update.msg
                 \/ Len(new) = MaxItems
            /\ proc[r].op = "record" => HasEntry(new, proc[r].update)
        BY <4>1, PlannedShard
      <4> HIDE DEF new
      <4> QED BY <1>2, <1>3, <2>1, <4>1, <4>2 DEF SameWork, Superseded
    <3>4. ~Waits(r) /\ ~Enters(r) /\ ~Prepares(r) /\ ~Passes(r) /\ ~Counts(r) /\ ~Lists(r)
      BY <2>3 DEF Waits, Enters, Prepares, Passes, Counts, Lists, SameWork, Planned
    <3> QED BY <1>4, <3>1, <3>2, <3>3, <3>4 DEF Quietly
  <2>4. ASSUME NEW r \in Procs, proc'[r].op = "reset", proc'[r].pc \in {"members", "clear"}
        PROVE  recorded = {}
    <3>1. proc'[r] = proc[r] \/ Lists(r)
      BY <1>4, <2>4 DEF Quietly, Waits, Enters, Prepares, Passes, Plans, Compares, Counts
    <3> QED BY <1>2, <2>4, <3>1 DEF Lists
  <2> QED BY <2>1, <2>2, <2>3, <2>4 DEF RecordedAreShown
<1>5. ASSUME NEW p \in Procs, Writes(p)
      PROVE  RecordedAreShown'
  <2>1. \A r \in Procs \ {p} : proc'[r] = proc[r] /\ ~Inside(r)
    BY <1>1, <1>5, AloneWrites
  <2>2. \A pc : Goto(p, pc) => proc'[p].pc = pc
    BY GotoMoves
  <2>3. SameWork(p)
    BY <1>5, WriteMoves
  <2>4. \A r \in Procs : ~Planned(r)'
    <3>1. ~Planned(p)'
      BY <1>5, <2>2, WritersAreAt DEF Writes, Planned
    <3> QED BY <2>1, <3>1 DEF Planned, Inside
  <2>5. /\ \A x \in recorded' : Shows(shard[x.user], x)'
        /\ proc'[p].op = "reset" /\ proc'[p].pc \in {"members", "clear"} => recorded' = {}
    <3>1. CASE Store(p)
      <4> DEFINE q == proc[p]
      <4>1. q.user \in Users /\ q.op \in Writers /\ Planned(p) /\ proc'[p].pc = "index"
            /\ q.expected = epoch /\ \A e \in Entries(q.plan) : e.epoch = epoch
        BY <1>1, <2>2, <3>1, WritersAreAt DEF Planned, PlansAreCurrent
      <4>2. /\ shard' = [shard EXCEPT ![q.user] = q.plan] /\ epoch' = epoch
            /\ recorded' = (recorded \ Superseded(p)) \cup
                             (IF q.op = "record" THEN {q.update} ELSE {})
        BY <3>1 DEF Store
      <4>3. ASSUME NEW x \in recorded'
            PROVE  Shows(shard'[x.user], x)
        <5>1. CASE x \in recorded /\ x \notin Superseded(p) /\ x.user = q.user
          <6>1. HasEntry(q.plan, x)
            BY <1>2, <4>1, <5>1
          <6>2. shard'[x.user] = q.plan
            BY <1>3, <4>1, <4>2, <5>1
          <6> QED BY <4>1, <6>1, <6>2 DEF HasEntry, Shows
        <5>2. CASE x \in recorded /\ x.user # q.user
          BY <1>2, <1>3, <4>2, <5>2
        <5>3. CASE q.op = "record" /\ x = q.update
          <6>1. q.update.user = q.user
            BY <4>1 DEF Typed, ProcIsSound
          <6>2. HasEntry(q.plan, x)
            BY <1>2, <4>1, <5>3
          <6>3. shard'[x.user] = q.plan
            BY <1>3, <4>1, <4>2, <5>3, <6>1
          <6> QED BY <4>1, <6>2, <6>3 DEF HasEntry, Shows
        <5> QED BY <4>2, <5>1, <5>2, <5>3
      <4> QED BY <4>1, <4>2, <4>3 DEF Shows
    <3>2. CASE Lift(p) \/ Index(p) \/ Deindex(p) \/ Entomb(p)
      <4>1. UNCHANGED <<shard, epoch, recorded>>
        BY <3>2 DEF Lift, Index, Deindex, Entomb
      <4>2. proc'[p].pc \notin {"members", "clear"}
        BY <2>2, <3>2, WritersAreAt
      <4> QED BY <1>2, <4>1, <4>2 DEF Shows
    <3>3. CASE Bump(p)
      BY <3>3 DEF Bump
    <3>4. CASE Clear(p)
      BY <1>2, <3>4, WritersAreAt DEF Clear
    <3>5. CASE Drop(p)
      <4>1. /\ shard' = Without(shard, {proc[p].user}) /\ epoch' = epoch
            /\ recorded' = {x \in recorded : x.user # proc[p].user}
        BY <3>5 DEF Drop
      <4>2. proc'[p].pc = "deindex"
        BY <2>2, <3>5, WritersAreAt
      <4>3. \A x \in recorded' : shard'[x.user] = shard[x.user]
        BY <1>3, <4>1 DEF Without
      <4> QED BY <1>2, <4>1, <4>2, <4>3 DEF Shows
    <3> QED BY <1>5, <3>1, <3>2, <3>3, <3>4, <3>5 DEF Writes
  <2>6. \A r \in Procs : proc'[r].op = "reset" /\ proc'[r].pc \in {"members", "clear"} =>
          recorded' = {}
    BY <2>1, <2>5 DEF Inside
  <2> QED BY <2>4, <2>5, <2>6 DEF RecordedAreShown
<1> QED BY <1>4, <1>5, Moves

-----------------------------------------------------------------------------
(* The index.                                                              *)

\* Without a fault no process has outlived its locks.
LEMMA NoFaultNoStall ==
  ASSUME Typed, LocksAreHeld, [MemoryNext]_memoryVars, faults' = 0
  PROVE  faults = 0 /\ ~outlived
BY FaultsStay DEF LocksAreHeld

\* What is about to be done to the index fits the shards.
LEMMA IndexIsKnownStep ==
  ASSUME Typed, LocksAreHeld, IndexIsKnown, IndexFindsShards, [MemoryNext]_memoryVars
  PROVE  IndexIsKnown'
<1> DEFINE Drops(q) == /\ q.op = "invalidate" /\ q.plan # <<>>
                       /\ q.pc \in {"recheck", "store", "index"}
<1> SUFFICES ASSUME faults' = 0, NEW r \in Procs
             PROVE  /\ proc'[r].pc = "index" => shard'[proc'[r].user] = proc'[r].plan
                    /\ proc'[r].pc = "clear" => proc'[r].plan = index'
                    /\ Drops(proc'[r]) =>
                         proc'[r].user \in index' \/ legacy'[proc'[r].user] # <<>>
  BY DEF IndexIsKnown
<1>1. faults = 0 /\ ~outlived
  BY NoFaultNoStall
<1>2. /\ proc[r].pc = "index" => shard[proc[r].user] = proc[r].plan
      /\ proc[r].pc = "clear" => proc[r].plan = index
      /\ Drops(proc[r]) => proc[r].user \in index \/ legacy[proc[r].user] # <<>>
  BY <1>1 DEF IndexIsKnown
<1>3. CASE UNCHANGED shardSide /\ Quietly(r)
  <2>1. UNCHANGED <<shard, legacy, index>>
    BY <1>3 DEF shardSide
  <2>2. CASE proc'[r] = proc[r]
    BY <1>2, <2>1, <2>2
  <2>3. CASE Plans(r)
    <3>1. SameWork(r) /\ proc'[r].pc = "recheck" /\ proc[r].pc = "read"
      BY <2>3 DEF Plans
    <3>2. ASSUME proc[r].op = "invalidate", legacy[proc[r].user] = <<>>
          PROVE  proc[r].user \in index
      <4>1. proc[r].user \in Users /\ shard[proc[r].user] # <<>>
        BY <2>3, <3>2, PlannersSaw
      <4>2. ASSUME NEW o \in Procs, proc[o].pc = "index"
            PROVE  FALSE
        BY <1>1, <3>1, <4>2, OneInside DEF Inside
      <4> QED BY <1>1, <3>2, <4>1, <4>2 DEF IndexFindsShards
    <3> QED BY <2>1, <3>1, <3>2 DEF SameWork
  <2>4. CASE Compares(r)
    <3>1. SameWork(r) /\ proc'[r].pc = "store" /\ proc[r].pc = "recheck"
          /\ proc'[r].plan = proc[r].plan
      BY <2>4 DEF Compares
    <3> QED BY <1>2, <2>1, <3>1 DEF SameWork
  <2>5. CASE Lists(r)
    BY <2>1, <2>5 DEF Lists, SameWork
  <2>6. CASE Waits(r) \/ Enters(r) \/ Prepares(r) \/ Passes(r) \/ Counts(r)
    <3>1. proc'[r].pc \notin {"index", "clear", "recheck", "store"}
      BY <2>6 DEF Waits, Enters, Prepares, Passes, Counts
    <3> QED BY <3>1
  <2> QED BY <1>3, <2>2, <2>3, <2>4, <2>5, <2>6 DEF Quietly
<1>4. ASSUME NEW p \in Procs, Writes(p), p # r
      PROVE  proc'[r].pc \notin {"index", "clear", "recheck", "store"}
  BY <1>1, <1>4, AloneWrites DEF Inside
<1>5. CASE Writes(r)
  <2>1. \A pc : Goto(r, pc) => proc'[r].pc = pc
    BY GotoMoves
  <2>2. SameWork(r) /\ proc'[r].plan = proc[r].plan
    BY <1>5, WriteMoves
  <2>3. CASE Store(r)
    <3>1. /\ shard' = [shard EXCEPT ![proc[r].user] = proc[r].plan]
          /\ UNCHANGED <<legacy, index>>
      BY <2>3 DEF Store
    <3>2. proc[r].pc = "store" /\ proc'[r].pc = "index" /\ proc[r].user \in Users
      BY <2>1, <2>3, WritersAreAt
    <3>3. shard'[proc[r].user] = proc[r].plan
      BY <3>1, <3>2 DEF Typed
    <3> QED BY <1>2, <2>2, <3>1, <3>2, <3>3 DEF SameWork
  <2>4. CASE ~Store(r)
    <3>1. proc'[r].pc \notin {"index", "clear", "recheck", "store"}
      BY <1>5, <2>1, <2>4, WritersAreAt DEF Writes
    <3> QED BY <3>1
  <2> QED BY <2>3, <2>4
<1> QED BY <1>3, <1>4, <1>5, Moves

\* A shard is put in the index after it is stored, and taken out after it is
\* emptied.
LEMMA IndexFindsShardsStep ==
  ASSUME Typed, LocksAreHeld, TombstonesStand, IndexIsKnown, IndexFindsShards,
         [MemoryNext]_memoryVars
  PROVE  IndexFindsShards'
<1> SUFFICES ASSUME faults' = 0, NEW u \in Users, shard'[u] # <<>>, legacy'[u] = <<>>
             PROVE  u \in index' \/ \E p \in Procs : proc'[p].user = u /\ proc'[p].pc = "index"
  BY DEF IndexFindsShards
<1>1. faults = 0 /\ ~outlived
  BY NoFaultNoStall
<1>2. shard[u] # <<>> /\ legacy[u] = <<>> =>
        u \in index \/ \E p \in Procs : proc[p].user = u /\ proc[p].pc = "index"
  BY <1>1 DEF IndexFindsShards
<1>3. CASE UNCHANGED shardSide /\ \A r \in Procs : Quietly(r)
  <2>1. UNCHANGED <<shard, legacy, index>>
    BY <1>3 DEF shardSide
  <2>2. ASSUME NEW p \in Procs, proc[p].pc = "index"
        PROVE  proc'[p] = proc[p]
    BY <1>3, <2>2
       DEF Quietly, Waits, Enters, Prepares, Passes, Plans, Compares, Counts, Task, Lists
  <2> QED BY <1>2, <2>1, <2>2
<1>4. ASSUME NEW p \in Procs, Writes(p)
      PROVE  u \in index' \/ \E r \in Procs : proc'[r].user = u /\ proc'[r].pc = "index"
  <2>1. \A pc : Goto(p, pc) => proc'[p].pc = pc
    BY GotoMoves
  <2>2. SameWork(p)
    BY <1>4, WriteMoves
  <2>3. \A r \in Procs : proc[r].pc = "index" => r = p
    BY <1>1, <1>4, AloneWrites DEF Inside
  <2>4. ASSUME UNCHANGED <<shard, legacy, index>>, proc[p].pc # "index"
        PROVE  u \in index'
    BY <1>2, <2>3, <2>4
  <2>5. CASE Lift(p) \/ Bump(p) \/ Entomb(p)
    <3>1. UNCHANGED <<shard, legacy, index>> /\ proc[p].pc # "index"
      BY <2>5, WritersAreAt DEF Lift, Bump, Entomb
    <3> QED BY <2>4, <3>1
  <2>6. CASE Store(p)
    <3>1. /\ shard' = [shard EXCEPT ![proc[p].user] = proc[p].plan]
          /\ UNCHANGED <<legacy, index>>
      BY <2>6 DEF Store
    <3>2. proc[p].pc = "store" /\ proc'[p].pc = "index"
      BY <2>1, <2>6, WritersAreAt
    <3>3. CASE proc[p].user = u
      BY <2>2, <3>2, <3>3 DEF SameWork
    <3>4. CASE proc[p].user # u
      <4>1. shard'[u] = shard[u]
        BY <3>1, <3>4 DEF Typed
      <4> QED BY <1>2, <2>3, <3>1, <3>2, <4>1
    <3> QED BY <3>3, <3>4
  <2>7. CASE Index(p)
    <3>1. /\ proc[p].op # "invalidate" => index' = index \cup {proc[p].user}
          /\ proc[p].op = "invalidate" =>
               index' = IF proc[p].plan = <<>> THEN index \ {proc[p].user} ELSE index
          /\ UNCHANGED <<shard, legacy>>
      BY <2>7 DEF Index
    <3>2. proc[p].pc = "index"
      BY <2>7, WritersAreAt
    <3>3. CASE proc[p].user = u
      <4>1. shard[u] = proc[p].plan
        BY <1>1, <3>2, <3>3 DEF IndexIsKnown
      <4>2. CASE proc[p].op # "invalidate"
        BY <3>1, <3>3, <4>2
      <4>3. CASE proc[p].op = "invalidate"
        <5>1. proc[p].plan # <<>>
          BY <3>1, <4>1
        <5>2. u \in index
          BY <1>1, <3>1, <3>2, <3>3, <4>3, <5>1 DEF IndexIsKnown
        <5> QED BY <3>1, <4>3, <5>1, <5>2
      <4> QED BY <4>2, <4>3
    <3>4. CASE proc[p].user # u
      <4>1. u \in index
        BY <1>2, <2>3, <3>1, <3>4
      <4> QED BY <3>1, <3>4, <4>1
    <3> QED BY <3>3, <3>4
  <2>8. CASE Clear(p)
    <3>1. shard'[u] = (IF u \in proc[p].plan THEN <<>> ELSE shard[u])
          /\ legacy'[u] = (IF u \in proc[p].plan THEN <<>> ELSE legacy[u])
      BY <2>8 DEF Clear, Without
    <3>2. proc[p].pc = "clear" /\ proc[p].plan = index
      BY <1>1, <2>8, WritersAreAt DEF IndexIsKnown
    <3> QED BY <1>2, <2>3, <3>1, <3>2
  <2>9. CASE Drop(p)
    <3>1. /\ shard'[u] = (IF u \in {proc[p].user} THEN <<>> ELSE shard[u])
          /\ legacy'[u] = (IF u \in {proc[p].user} THEN <<>> ELSE legacy[u])
          /\ index' = index
      BY <2>9 DEF Drop, Without
    <3>2. proc[p].pc # "index"
      BY <2>9, WritersAreAt
    <3> QED BY <1>2, <2>3, <3>1, <3>2
  <2>10. CASE Deindex(p)
    <3>1. index' = index \ {proc[p].user} /\ UNCHANGED <<shard, legacy>>
      BY <2>10 DEF Deindex
    <3>2. proc[p].pc = "deindex"
      BY <2>10, WritersAreAt
    <3>3. shard[proc[p].user] = <<>>
      BY <1>1, <3>2 DEF TombstonesStand
    <3> QED BY <1>2, <2>3, <3>1, <3>2, <3>3
  <2> QED BY <1>4, <2>5, <2>6, <2>7, <2>8, <2>9, <2>10 DEF Writes
<1> QED BY <1>3, <1>4, Moves

-----------------------------------------------------------------------------
(* The invariant and what it shows.                                        *)

\* The invariant holds of the first states.
LEMMA MemoryInvInit == MemoryInit => MemoryInv
<1> SUFFICES ASSUME MemoryInit
             PROVE  MemoryInv
  OBVIOUS
<1> USE DEF MemoryInit
<1>1. \A p \in Procs : proc[p] = Idle /\ Idle.op = "idle" /\ Idle.pc = "idle"
  BY DEF Idle
<1>2. Nobody \notin Procs /\ Dead \notin Procs /\ IsFiniteSet(Procs)
      /\ MaxClock \in Nat \ {0} /\ MaxResets \in Nat /\ Traffic \subseteq SUBSET Updates
      /\ \A u \in Users : Legacy[u] \in Shards
  BY MemoryAssumption
<1>3. Typed
  <2>1. ProcsTyped
    BY <1>1, IdleIsSound DEF ProcsTyped
  <2>2. WorldTyped
    <3>1. job \in [Updates -> [epoch : Nat, born : Nat \cup {-1}]]
      BY DEF NoJob
    <3>2. clock \in 1..MaxClock
      BY <1>2
    <3> QED BY <3>1, <3>2 DEF WorldTyped
  <2>3. LocksTyped /\ SharedTyped /\ sent \subseteq Updates
    BY <1>2, EmptyIsShard DEF LocksTyped, SharedTyped
  <2> QED BY <2>1, <2>2, <2>3, TypedParts
<1>4. ResetsAreBounded
  <2>1. Resetting = {}
    BY <1>1 DEF Resetting
  <2>2. Cardinality(Resetting) = 0 /\ Cardinality(Procs) \in Nat
    BY <1>2, <2>1, FS_EmptySet, FS_CardinalityType
  <2> QED BY <1>2, <2>2 DEF ResetsAreBounded, Resetting
<1>5. \A p \in Procs : ~Inside(p) /\ ~Planned(p)
  BY <1>1 DEF Inside, Planned
<1>6. LocksAreHeld
  BY <1>2, <1>5 DEF LocksAreHeld
<1>7. TombstonesStand /\ PlansAreCurrent /\ RecordedAreShown
  BY <1>1, <1>5 DEF TombstonesStand, PlansAreCurrent, RecordedAreShown
<1>8. IndexIsKnown /\ IndexFindsShards
  BY <1>1 DEF IndexIsKnown, IndexFindsShards
<1>9. ResetsRaise
  BY <1>1 DEF ResetsRaise, Task
<1>10. EverythingIsDated
  <2>1. WorkIsDated
    BY <1>1 DEF WorkIsDated, NoJob, DatedWork, Writers
  <2>2. Dated(<<>>) /\ \A u \in Users : Dated(Legacy[u])
    BY MemoryAssumption DEF Dated, Entries
  <2>3. EntriesAreDated
    BY <1>5, <2>2 DEF EntriesAreDated
  <2> QED BY <2>1, <2>3 DEF EverythingIsDated
<1> QED BY <1>3, <1>4, <1>6, <1>7, <1>8, <1>9, <1>10 DEF MemoryInv

\* And every step keeps it.
LEMMA MemoryInvStep == MemoryInv /\ [MemoryNext]_memoryVars => MemoryInv'
<1> SUFFICES ASSUME MemoryInv, [MemoryNext]_memoryVars
             PROVE  MemoryInv'
  OBVIOUS
<1>1. /\ Typed /\ ResetsAreBounded /\ ResetsRaise /\ EverythingIsDated /\ LocksAreHeld
      /\ TombstonesStand /\ PlansAreCurrent /\ RecordedAreShown /\ IndexIsKnown
      /\ IndexFindsShards
  BY DEF MemoryInv
<1>2. Typed'
  BY <1>1, QuietStepsAreTyped, WritesAreTyped
<1>3. ResetsAreBounded'
  BY <1>1, ResetsAreBoundedStep
<1>4. LocksAreHeld'
  BY <1>1, LocksAreHeldStep
<1>5. TombstonesStand'
  BY <1>1, TombstonesStandStep
<1>6. PlansAreCurrent'
  BY <1>1, PlansAreCurrentStep
<1>7. RecordedAreShown'
  BY <1>1, RecordedAreShownStep
<1>8. IndexIsKnown'
  BY <1>1, IndexIsKnownStep
<1>9. IndexFindsShards'
  BY <1>1, IndexFindsShardsStep
<1>10. ResetsRaise'
  BY <1>1, ResetsRaiseStep
<1>11. EverythingIsDated'
  BY <1>1, EverythingIsDatedStep
<1> QED BY <1>2, <1>3, <1>4, <1>5, <1>6, <1>7, <1>8, <1>9, <1>10, <1>11 DEF MemoryInv

\* So it always holds.
LEMMA MemoryInvAlways == MemorySpec => []MemoryInv
BY MemoryInvInit, MemoryInvStep, PTL DEF MemorySpec

\* Shards are bounded, and the epoch is: a reset sets it once, to at most one
\* more than any had set before (MAX_GATHERED_ITEMS, lobotomy).
THEOREM MemoryTypes == MemorySpec => []MemoryTypeOK
<1>1. MemoryInv => MemoryTypeOK
  <2> SUFFICES ASSUME MemoryInv
               PROVE  MemoryTypeOK
    OBVIOUS
  <2>1. Typed /\ ResetsAreBounded /\ epoch <= resets
    BY DEF MemoryInv, ResetsRaise
  <2>2. epoch \in 0..MaxResets + Cardinality(Procs)
    <3>1. IsFiniteSet(Procs) /\ MaxResets \in Nat
      BY MemoryAssumption
    <3>2. IsFiniteSet(Resetting)
      BY <3>1, FS_Subset DEF Resetting
    <3>3. Cardinality(Resetting) \in Nat /\ Cardinality(Procs) \in Nat
      BY <3>1, <3>2, FS_CardinalityType
    <3> QED BY <2>1, <3>1, <3>3 DEF Typed, ResetsAreBounded, Resetting
  <2>3. \A u \in Users : Len(shard[u]) <= MaxItems
    BY <2>1 DEF Typed, Shards
  <2>4. \A p \in Procs : proc[p].op \in Ops /\ (IsIdle(p) <=> proc[p].pc = "idle")
    BY <2>1 DEF Typed, ProcIsSound, ProcType, IsIdle
  <2> QED BY <2>1, <2>2, <2>3, <2>4 DEF Typed, MemoryTypeOK
<1> QED BY <1>1, MemoryInvAlways, PTL

\* What was gathered from work given out before a reset (/lobotomy) is not
\* read after it, whichever writers stall, die or come late, as long as every
\* reset has set an epoch of its own; and each has, unless one has outlived
\* the chat's lock.
THEOREM ResetsForget == MemorySpec => []ResetForgets
<1>1. MemoryInv => ResetForgets
  <2> SUFFICES ASSUME MemoryInv
               PROVE  ResetForgets
    OBVIOUS
  <2>1. ~lateReset => resets = epoch
    BY DEF MemoryInv, ResetsRaise
  <2>2. ASSUME resets = epoch, NEW u \in Users, NEW e \in Entries(Visible(u))
        PROVE  e.born = resets
    <3>1. Typed /\ EntriesAreDated
      BY <2>2 DEF MemoryInv, EverythingIsDated
    <3>2. /\ e \in Entries(IF shard[u] # <<>> THEN shard[u] ELSE legacy[u])
          /\ e.epoch = epoch
      BY <3>1, VisibleEntries
    <3> QED BY <2>2, <3>1, <3>2 DEF EntriesAreDated, Dated
  <2> QED BY <2>1, <2>2 DEF ResetForgets
<1> QED BY <1>1, MemoryInvAlways, PTL

\* A repeated or edited message never has two entries in a shard: record_message
\* replaces its own.
THEOREM MessagesHaveOneEntry == MemorySpec => []OneEntryPerMessage
<1>1. MemoryInv => OneEntryPerMessage
  BY DEF MemoryInv, Typed, Shards, OneEntryPerMessage
<1> QED BY <1>1, MemoryInvAlways, PTL

\* While a tombstone of purge_user stands nothing as old as the deletion is in
\* the shard, as long as no process outlives its locks.
THEOREM TombstonesHold == MemorySpec => []TombstoneHolds
<1>1. MemoryInv => TombstoneHolds
  <2> SUFFICES ASSUME MemoryInv, ~outlived, NEW u \in Users, NEW e \in Entries(shard[u])
               PROVE  e.ts > tombstone[u]
    BY DEF TombstoneHolds
  <2>1. Typed /\ TombstonesStand
    BY DEF MemoryInv
  <2>2. shard[u] # <<>>
    BY DEF Entries
  <2>3. tombstone[u] \in Nat /\ ~(tombstone[u] > 0)
    BY <2>1, <2>2, MemoryAssumption DEF Typed, TombstonesStand
  <2>4. e \in EntryType
    BY <2>1 DEF Typed, Shards, Entries
  <2> QED BY <2>3, <2>4, EntriesAreTimed
<1> QED BY <1>1, MemoryInvAlways, PTL

\* No writer stores a shard over one it has not seen, as long as none outlives
\* its locks: what was recorded stays until it is superseded, pushed out,
\* deleted or reset.
THEOREM NoWriteIsLost == MemorySpec => []NoWriteLost
<1>1. MemoryInv => NoWriteLost
  BY DEF MemoryInv, RecordedAreShown, Shows, HasEntry, NoWriteLost
<1> QED BY <1>1, MemoryInvAlways, PTL

\* As long as nothing fails, a shard that was stored is in the index, where a
\* reset looks for it, or about to be put there; a user with entries under the
\* former key is excepted, whom invalidate_source_message takes out too early.
THEOREM IndexKeepsShards == MemorySpec => []IndexFindsShards
<1>1. MemoryInv => IndexFindsShards
  BY DEF MemoryInv
<1> QED BY <1>1, MemoryInvAlways, PTL

=============================================================================
