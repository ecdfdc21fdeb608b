--------------------------- MODULE DeliveryProofs ---------------------------
(***************************************************************************)
(* What holds of the delivery of a job for any number of deliveries,       *)
(* callbacks, steps, leases and faults, whatever the scenario.             *)
(*                                                                         *)
(* The properties of Delivery are far from inductive: that no message is   *)
(* sent twice rests on the intent that names who may send it, the intent   *)
(* on fences being told apart, and both on where each invocation is and    *)
(* what it remembers.  DeliveryInv is the conjunction of all that.  Its    *)
(* proof first describes, once for all parts, what any step may do: to an  *)
(* invocation (AgentMoves), to the record of the job (JobMoves) and to the *)
(* rest of the world (WorldMoves).  Each part of the invariant then has a  *)
(* lemma that argues from these descriptions, not from the actions.        *)
(***************************************************************************)
EXTENDS Delivery, JobStoreProofs, FiniteSetTheorems

\* An invocation that has not let go of its job: without stalls it owns it.
HoldingPcs == {"begin", "image", "prepare", "call", "send", "await", "clear",
               "record", "log", "upsert", "write", "recheck", "read", "generate", "save"}

\* Where an invocation has a lease of the job, its own still or not.
LeasedPcs == HoldingPcs \cup {"unlog", "lost", "finish", "overtime", "release"}

\* From the message of a step to the end of its record in the history.
LogPcs == {"log", "upsert", "write", "recheck", "unlog"}

\* Between the placeholder and the answer.
AnswerPcs == {"read", "generate", "save"}

\* Where an invocation has the lease of the failure notice.
NoticePcs == {"notice_call", "notice_send", "notice_await", "notice_log",
              "notice_write", "notice_done", "notice_fail"}

\* Where the message of the present step has not been sent, or was rejected.
UnsentPcs == {"idle", "begin", "image", "prepare", "call", "send", "clear"}

\* Every lease in use is one the store issued, and who works has one.
LeasesAreHeld ==
  /\ \A a \in Agents : agent[a].lease # None => a \in Workers /\ agent[a].lease \in issued
  /\ \A a \in Agents : agent[a].notice # None => agent[a].notice \in issued
  /\ \A a \in Agents : agent[a].pc \in NoticePcs => agent[a].notice # None
  /\ \A a \in Agents : agent[a].pc \in LeasedPcs => agent[a].lease # None
  /\ \A w \in Workers : agent[w].pc = "idle" => agent[w].lease = None
  /\ lease # None => \E w \in Workers : agent[w].lease = lease

\* No two invocations have a lease of one fence.
LeasesAreDistinct ==
  /\ \A w \in Workers : agent[w].lease # None /\ Exists =>
       agent[w].lease.fence \in 1..job.attempts
  /\ \A v, w \in Workers :
       agent[v].lease # None /\ agent[w].lease # None
         /\ agent[v].lease.fence = agent[w].lease.fence => v = w

\* Nothing happens before the job is published, and only a purge erases it.
NothingBeforePublication ==
  /\ webhook = "new" => purger = "idle" /\ ~Exists
  /\ webhook \in {"new", "created"} =>
       /\ wire = {} /\ chat = [m \in Messages |-> None] /\ history = chat
       /\ \A a \in Agents : agent[a].pc = "idle"
  /\ webhook # "new" => (Exists <=> purger \in {"idle", "marked"})

\* What an invocation says, and where, at each step.
StepsInOrder ==
  \A w \in Workers :
    /\ agent[w].step \in 1..scenario.steps
    /\ agent[w].text \in Payloads
    /\ agent[w].pc \in {"idle", "begin", "image"} \cup AnswerPcs => agent[w].step = 1
    /\ agent[w].step > 1 \/ agent[w].pc = "save" => agent[w].text \in Answers
    /\ agent[w].step = 1 /\ agent[w].pc \in ({"idle", "unlog"} \cup HoldingPcs) \ {"save"} =>
         agent[w].text = "placeholder"
    /\ agent[w].pc = "clear" =>
         Name(w) # Edit /\ agent[w].target \in {"failed_retryable", "failed"}
    /\ agent[w].step > 1 \/ agent[w].pc \in LogPcs \cup AnswerPcs => agent[w].message # None

\* The message an invocation remembers is in the chat; it is the placeholder's
\* until the first chunk, and again for the failure notice.
MessagesAreShown ==
  /\ \A a \in Agents : agent[a].message # None =>
       /\ chat[agent[a].message] # None
       /\ a \in Callbacks \/ agent[a].step <= 2 => agent[a].message[1] = Placeholder
  /\ \A a \in Agents : agent[a].pc \in NoticePcs =>
       agent[a].message # None /\ agent[a].message[1] = Placeholder

\* The job has failed, and may have been erased since.
JobFailed == job.state \in {"failed", "absent"}

\* Nothing speaks of a failure, in chat, history or wire, but of one.
NoticesAreOfFailedJobs ==
  /\ \A a \in Agents : agent[a].pc \in NoticePcs \cup {"claim"} => JobFailed
  /\ \A m \in Messages : chat[m] = "notice" \/ history[m] = "notice" =>
       JobFailed /\ m[1] = Placeholder
  /\ \A r \in wire : r.text = "notice" => JobFailed

\* A request that does not create its message finds it in the chat.
WireIsOrderly ==
  \A r \in wire :
    /\ r.text = "placeholder" =>
         r.message = <<Placeholder, r.from>> /\ chat[r.message] = None
    /\ r.text # "placeholder" /\ r.message[1] = Placeholder => chat[r.message] # None
    /\ r.message[1] # Placeholder =>
         r.text \in Answers /\ r.message[2] = r.from /\ chat[r.message] = None

\* An invocation at work has nothing on the wire but what it waits for.
OneRequestAtATime ==
  \A w \in Workers, r \in wire :
    r.from = w /\ agent[w].pc \in {"idle", "unlog"} \cup HoldingPcs =>
      agent[w].pc = "await" /\ r = Request(w)

\* Only the placeholder's message is ever anything but an answer.
ChatIsOrderly ==
  \A m \in Messages : m[1] # Placeholder => chat[m] \in Answers \cup {None}

\* Who may still put a step's message into the chat, or has.
MayPost(n) ==
  Posted(n) \cup {w \in Workers : agent[w].pc = "send" /\ Name(w) = n}

\* No two invocations have posted a step's message, or may.
PostedOnce == \A n \in Sends : \A v, w \in MayPost(n) : v = w

\* Who has posted it, or may, is whom the intent names.
PostedUnderIntent ==
  Exists => \A n \in Sends : \A w \in MayPost(n) :
              /\ agent[w].lease # None /\ job.intent[n] # None
              /\ job.intent[n].fence = agent[w].lease.fence

\* A step is posted when it is reached, and not before.
PostedInOrder ==
  \A w \in Workers, i \in 1..Len(Steps) :
    i # 2 /\ w \in Posted(Steps[i]) =>
      i < agent[w].step \/ (i = agent[w].step /\ agent[w].pc \notin UnsentPcs)

\* A message is announced before it is sent, under the sender's own lease.
AnnouncedFirst ==
  Exists => \A w \in Workers :
    agent[w].pc \in {"call", "send", "await", "clear", "record"} =>
      /\ job.intent[Name(w)] # None
      /\ Name(w) # Edit => job.intent[Name(w)].fence = agent[w].lease.fence

\* Until its result is recorded by whoever announced it.
UnrecordedWhileOwned ==
  \A w \in Workers :
    /\ agent[w].pc \in {"call", "send", "await", "clear"} /\ Name(w) # Edit
    /\ Owns(agent[w].lease)
    => job.checkpoint[Name(w)] = None

\* A request of a delivery step that is not on the wire any more and was not
\* rejected has been carried out.
Landed(w) ==
  /\ chat[ResultOf(w)] # None
  /\ Name(w) # Placeholder => chat[ResultOf(w)] # "placeholder"

\* Who waits finds its request on the wire or carried out.
AnsweredIsLanded ==
  \A w \in Workers :
    /\ agent[w].pc = "await" => Request(w) \in wire \/ Landed(w)
    /\ agent[w].pc = "record" => Landed(w)

\* What is recorded as sent is in the chat.
CheckpointsAreShown ==
  /\ \A n \in Sends : job.checkpoint[n] # None =>
       /\ job.checkpoint[n] \in Messages
       /\ job.checkpoint[n][1] = n
       /\ chat[job.checkpoint[n]] # None
  /\ job.checkpoint[Edit] # None =>
       /\ job.checkpoint[Edit] = job.checkpoint[Placeholder]
       /\ chat[job.checkpoint[Edit]] # "placeholder"

\* The steps an invocation has behind it.
Behind(w) ==
  {i \in 1..scenario.steps :
     \/ i < agent[w].step
     \/ i = agent[w].step /\ agent[w].pc \in LogPcs \cup AnswerPcs
     \/ Kind # "image_memory" /\ agent[w].pc = "finish" /\ agent[w].target = "delivered"}

\* They are on record, and all of them once the job is delivered.
StepsAreRecorded ==
  Exists =>
    /\ \A w \in Workers : \A i \in Behind(w) : job.checkpoint[Steps[i]] # None
    /\ job.state = "delivered" =>
         \A i \in 1..scenario.steps : job.checkpoint[Steps[i]] # None

\* The message an invocation remembers is the one on record.
MessagesAreRecorded ==
  Exists =>
    /\ \A w \in Workers :
         agent[w].message # None =>
           /\ \E n \in Names : agent[w].message = job.checkpoint[n]
           /\ agent[w].step <= 2 => agent[w].message = job.checkpoint[Placeholder]
           /\ agent[w].pc \in LogPcs => agent[w].message = job.checkpoint[Name(w)]
    /\ \A a \in Agents : agent[a].pc \in NoticePcs =>
         agent[a].message = job.checkpoint[Placeholder]

\* The job of an image sends nothing, and no other analyses one.
ImageJobsAreSilent ==
  IF Kind # "image_memory"
  THEN \A w \in Workers : agent[w].pc # "image"
  ELSE
    /\ job.state \notin {"ready_to_deliver", "delivered"}
    /\ \A w \in Workers :
         agent[w].pc \notin ({"unlog"} \cup HoldingPcs) \ {"begin", "image"}

\* The answers shown, about to be shown or on their way.
Said ==
  {chat[m] : m \in Messages} \cup {r.text : r \in wire}
    \cup {history[m] : m \in Messages}
    \cup {agent[w].text : w \in {v \in Workers : agent[v].step > 1}}

\* They are all one, and the one that was saved.
AnswersAgree ==
  /\ \A x, y \in Said \cap Answers : x = y
  /\ Exists => \A x \in Said \cap Answers : x = job.answer

\* The history has the job's recorded messages only, and after a purge none.
HistoryIsOfTheJob ==
  \A m \in Messages : history[m] # None =>
    /\ Exists => \E n \in Names : job.checkpoint[n] = m
    /\ purger = "erased" => m \in receipts
    /\ purger # "cleaned"

\* Without stalls nobody loses the job while working on it, but to a purge.
NobodyIsRobbed ==
  "stall" \notin Hazards /\ Exists =>
    \A w \in Workers :
      /\ agent[w].pc \in HoldingPcs => Owns(agent[w].lease)
      /\ agent[w].pc # "unlog"

\* An invocation is about to write its record into the history.
Logging(w) == agent[w].pc \in {"log", "upsert", "write"}

\* A step's message is in the history; the placeholder's in any version.
Logged(i) ==
  IF i = 1 THEN history[job.checkpoint[Steps[i]]] # None
           ELSE history[job.checkpoint[Steps[i]]] \in Answers \cup {"notice"}

\* Without stalls what is behind an invocation is in the history.
StepsAreLogged ==
  "stall" \notin Hazards /\ purger = "idle" /\ Exists =>
    /\ \A w \in Workers : \A i \in Behind(w) :
         ~(i = agent[w].step /\ Logging(w)) => Logged(i)
    /\ job.state = "delivered" => \A i \in 1..scenario.steps : Logged(i)

\* Where an invocation still has something to learn about the notice.
TalkingPcs == {"notice_call", "notice_send", "notice_await", "notice_log", "notice_write"}

\* The notice that is settled was shown; where the history has kept the answer,
\* it is known who found the notice there, and did not look again.
SettledIsShown ==
  job.notice = "delivered" =>
    /\ chat[job.placeholder] \in Answers \cup {"notice"}
    /\ purger = "idle" /\ "stall" \notin Hazards =>
         \/ history[job.placeholder] = "notice"
         \/ /\ history[job.placeholder] \in Answers
            /\ \E a \in unmodified : agent[a].pc \notin TalkingPcs

\* Who shows the notice finds it on the wire, then in the chat, then logged.
NoticesAreShown ==
  /\ \A a \in Agents :
       /\ agent[a].pc = "notice_await" =>
            \/ chat[agent[a].message] \in Answers \cup {"notice"}
            \/ [from |-> a, message |-> agent[a].message, text |-> "notice"] \in wire
       /\ agent[a].pc \in {"notice_log", "notice_write", "notice_done"} =>
            chat[agent[a].message] \in Answers \cup {"notice"}
       /\ agent[a].pc = "notice_done" /\ purger = "idle" /\ "stall" \notin Hazards =>
            \/ history[agent[a].message] = "notice"
            \/ history[agent[a].message] \in Answers /\ a \in unmodified
  /\ SettledIsShown

\* Who is about to give the job up as ambiguous knows an open message.
AmbiguityIsOpen ==
  /\ \A w \in Workers :
       agent[w].pc = "finish" /\ agent[w].target = "failed_ambiguous"
         /\ Owns(agent[w].lease) =>
         \E n \in Sends : job.intent[n] # None /\ job.checkpoint[n] = None
  /\ AmbiguousHasOpenIntent

\* All of it together is inductive.
DeliveryInv ==
  /\ IInv /\ DeliveryTypeOK
  /\ LeasesAreHeld /\ LeasesAreDistinct /\ NothingBeforePublication
  /\ StepsInOrder /\ MessagesAreShown /\ NoticesAreOfFailedJobs
  /\ WireIsOrderly /\ OneRequestAtATime /\ ChatIsOrderly
  /\ PostedOnce /\ PostedUnderIntent /\ PostedInOrder
  /\ AnnouncedFirst /\ UnrecordedWhileOwned /\ AnsweredIsLanded
  /\ CheckpointsAreShown /\ StepsAreRecorded /\ MessagesAreRecorded
  /\ ImageJobsAreSilent /\ AnswersAgree /\ HistoryIsOfTheJob
  /\ NobodyIsRobbed /\ StepsAreLogged /\ NoticesAreShown /\ AmbiguityIsOpen
  /\ NothingHeldWhenDone

-----------------------------------------------------------------------------
(* The constants.                                                          *)

\* The type of an invocation.
AgentRecords ==
  [pc : Pcs, lease : Leases \cup {None}, notice : Leases \cup {None},
   step : 1..Len(Steps), text : Texts, message : Messages \cup {None},
   target : TerminalStates \cup {"failed_retryable", "none"},
   reply : {"none", "ok", "retry"}]

\* The steps have names of their own; but for the edit each creates a message.
LEMMA StepNames ==
  /\ Len(Steps) \in Nat /\ Len(Steps) >= 2
  /\ \A i \in 1..Len(Steps) : Steps[i] \in Names
  /\ \A i, j \in 1..Len(Steps) : Steps[i] = Steps[j] => i = j
  /\ Placeholder = Steps[1] /\ Edit = Steps[2] /\ Placeholder # Edit
  /\ Placeholder \in Sends /\ Edit \in Names /\ Edit \notin Sends
  /\ Names = Sends \cup {Edit} /\ Repeatable = {Edit}
  /\ \A i \in 1..Len(Steps) : Steps[i] \in Sends <=> i # 2
<1>1. Len(Steps) \in Nat /\ Len(Steps) >= 2
  BY DeliveryAssumption
<1>2. 1 \in 1..Len(Steps) /\ 2 \in 1..Len(Steps)
  BY <1>1
<1>3. Placeholder = Steps[1] /\ Edit = Steps[2] /\ Placeholder # Edit
  BY <1>2, DeliveryAssumption DEF Edit
<1>4. Names = {Steps[i] : i \in 1..Len(Steps)} /\ Repeatable = {Edit}
  BY DeliveryAssumption
<1>5. \A i \in 1..Len(Steps) : Steps[i] \in Names
  BY <1>4
<1>6. Sends = Names \ {Edit}
  BY <1>4 DEF Sends
<1>7. \A i, j \in 1..Len(Steps) : Steps[i] = Steps[j] => i = j
  BY DeliveryAssumption
<1>8. \A i \in 1..Len(Steps) : Steps[i] \in Sends <=> i # 2
  BY <1>2, <1>3, <1>5, <1>6, <1>7
<1>9. Placeholder \in Sends /\ Edit \in Names /\ Edit \notin Sends /\ Names = Sends \cup {Edit}
  BY <1>2, <1>3, <1>5, <1>6
<1> QED BY <1>1, <1>3, <1>4, <1>5, <1>7, <1>8, <1>9

\* What is said in a message is told apart by what kind of text it is.
LEMMA TextKinds ==
  /\ Texts = Answers \cup {"placeholder", "notice"}
  /\ "placeholder" \notin Answers /\ "notice" \notin Answers
  /\ None \notin Texts /\ None \notin Answers /\ None # "placeholder" /\ None # "notice"
  /\ Payloads = Answers \cup {"placeholder"}
  /\ Messages = Results /\ None \notin Messages
  /\ \A m \in Messages : m = <<m[1], m[2]>> /\ m[1] \in Sends /\ m[2] \in Workers
  /\ \A n \in Sends, w \in Workers :
       <<n, w>> \in Messages /\ <<n, w>>[1] = n /\ <<n, w>>[2] = w
<1>1. /\ Texts = Answers \cup {"placeholder", "notice"}
      /\ Payloads = Answers \cup {"placeholder"}
      /\ "placeholder" \notin Answers /\ "notice" \notin Answers
      /\ None \notin Texts /\ Messages = Results
  BY DeliveryAssumption DEF Texts
<1>2. None \notin Results
  BY JobStoreAssumption
<1>3. \A m \in Messages : m = <<m[1], m[2]>> /\ m[1] \in Sends /\ m[2] \in Workers
  BY DEF Messages
<1>4. \A n \in Sends, w \in Workers :
        <<n, w>> \in Messages /\ <<n, w>>[1] = n /\ <<n, w>>[2] = w
  BY DEF Messages
<1> QED BY <1>1, <1>2, <1>3, <1>4

\* An invocation that has not begun is one of its type.
LEMMA IdleAgentIsTyped == IdleAgent \in AgentRecords
BY StepNames, TextKinds DEF IdleAgent, AgentRecords, Pcs

\* The invocations are records of their type.
LEMMA TypeIsRecords == DeliveryTypeOK => agent \in [Agents -> AgentRecords]
BY DEF DeliveryTypeOK, AgentRecords

-----------------------------------------------------------------------------
(* Every step is one of the job store's, or leaves the store alone.        *)

\* The steps that do not touch the store.
QuietStep ==
  \/ PublishJob
  \/ \E w \in Workers :
       \/ Begin(w) \/ AnalyzeImage(w) \/ CallTelegram(w) \/ SendRequest(w)
       \/ AwaitTelegram(w) \/ LogStep(w) \/ UpsertStep(w) \/ WriteRecord(w)
       \/ RecheckStep(w) \/ UnlogStep(w) \/ ReadAnswer(w) \/ Generate(w) \/ LoseJob(w)
  \/ \E c \in Callbacks : Redeliver(c)
  \/ \E a \in Agents :
       \/ GuardNotice(a) \/ SendNotice(a) \/ AwaitNotice(a) \/ LogNotice(a)
       \/ WriteNotice(a) \/ StoreFault(a) \/ Crash(a)
  \/ \E r \in wire : Land(r)
  \/ Lobotomy \/ MarkPurged \/ CleanPurged

\* Most steps leave the job store alone.
LEMMA QuietIsQuiet ==
  ASSUME QuietStep
  PROVE  UNCHANGED storeVars
<1> USE DEF QuietStore, Quiet
<1>1. CASE \E w \in Workers :
       \/ Begin(w) \/ AnalyzeImage(w) \/ CallTelegram(w) \/ SendRequest(w)
       \/ AwaitTelegram(w) \/ LogStep(w) \/ UpsertStep(w) \/ WriteRecord(w)
       \/ RecheckStep(w) \/ UnlogStep(w) \/ ReadAnswer(w) \/ Generate(w) \/ LoseJob(w)
  BY <1>1
  DEF Begin, AnalyzeImage, CallTelegram, SendRequest, AwaitTelegram, LogStep,
      UpsertStep, WriteRecord, RecheckStep, UnlogStep, ReadAnswer, Generate, LoseJob
<1>2. CASE \/ \E c \in Callbacks : Redeliver(c)
           \/ \E a \in Agents :
                \/ GuardNotice(a) \/ SendNotice(a) \/ AwaitNotice(a) \/ LogNotice(a)
                \/ WriteNotice(a) \/ StoreFault(a) \/ Crash(a)
  BY <1>2
  DEF Redeliver, GuardNotice, SendNotice, AwaitNotice, LogNotice, WriteNotice,
      StoreFault, Crash
<1> QED
  BY <1>1, <1>2 DEF QuietStep, PublishJob, Land, Lobotomy, MarkPurged, CleanPurged

\* What a working invocation hands to the store has the types of the store.
LEMMA WorkerArguments ==
  ASSUME DeliveryInv, NEW w \in Workers
  PROVE  /\ w \in Agents
         /\ Name(w) \in Names
         /\ agent[w].pc \in LeasedPcs => agent[w].lease \in issued
         /\ agent[w].text \in Payloads
         /\ agent[w].pc = "save" => agent[w].text \in Answers
         /\ Name(w) # Edit => ResultOf(w) = <<Name(w), w>> /\ Name(w) \in Sends
         /\ Name(w) = Edit => ResultOf(w) = agent[w].message /\ agent[w].step = 2
         /\ ResultOf(w) \in Results
<1>1. w \in Agents /\ agent[w] \in AgentRecords
  BY TypeIsRecords DEF Agents, DeliveryInv
<1>2. agent[w].step \in 1..Len(Steps) /\ agent[w].message \in Messages \cup {None}
  BY <1>1 DEF AgentRecords
<1>3. Name(w) \in Names /\ (Name(w) = Edit <=> agent[w].step = 2)
  BY <1>2, StepNames DEF Name
<1>4. agent[w].step > 1 => agent[w].message # None
  BY DEF DeliveryInv, StepsInOrder
<1>5. Name(w) = Edit => agent[w].message \in Messages
  BY <1>2, <1>3, <1>4
<1>6. Name(w) # Edit => <<Name(w), w>> \in Messages /\ Name(w) \in Sends
  BY <1>3, StepNames, TextKinds
<1>7. ResultOf(w) \in Results
  BY <1>5, <1>6, TextKinds DEF ResultOf
<1>8. agent[w].text \in Payloads /\ (agent[w].pc = "save" => agent[w].text \in Answers)
  BY DEF DeliveryInv, StepsInOrder
<1>9. agent[w].pc \in LeasedPcs => agent[w].lease \in issued
  BY <1>1 DEF DeliveryInv, LeasesAreHeld
<1> QED BY <1>1, <1>3, <1>6, <1>7, <1>8, <1>9 DEF ResultOf

\* Each step of the delivery is a step of the job store or none.
LEMMA StoreStep ==
  ASSUME DeliveryInv, [DeliveryNext]_vars
  PROVE  [Next]_storeVars
<1> USE DEF QuietStore, Quiet
<1>1. CASE QuietStep
  BY <1>1, QuietIsQuiet
<1>2. CASE UNCHANGED vars
  BY <1>2 DEF vars
<1>3. CASE CreateJob \/ RecordJob
  BY <1>3 DEF CreateJob, RecordJob, Next
<1>4. ASSUME NEW w \in Workers, DeliveryStep(w) \/ Timeout(w), ~QuietStep
      PROVE  [Next]_storeVars
  <2>1. CASE Deliver(w)
    <3>1. \/ UNCHANGED storeVars
          \/ \E t \in Tokens : Acquire(t)
      BY <2>1 DEF Deliver
    <3> QED BY <3>1 DEF Next
  <2>2. CASE PrepareStep(w) \/ ClearStep(w) \/ RecordStep(w) \/ StoreAnswer(w)
    <3>1. agent[w].pc \in LeasedPcs
      BY <2>2 DEF PrepareStep, ClearStep, RecordStep, StoreAnswer, LeasedPcs, HoldingPcs
    <3>2. \/ UNCHANGED storeVars
          \/ PrepareIntent(agent[w].lease, Name(w), agent[w].text)
          \/ ClearIntent(agent[w].lease, Name(w))
          \/ Checkpoint(agent[w].lease, Name(w), ResultOf(w))
          \/ agent[w].pc = "save" /\ SaveAnswer(agent[w].lease, agent[w].text)
      BY <2>2 DEF PrepareStep, ClearStep, RecordStep, StoreAnswer
    <3> QED BY <3>1, <3>2, WorkerArguments DEF Next, OwnerStep
  <2>3. CASE FinishJob(w) \/ Overtime(w) \/ ReleaseHeldJob(w)
    <3>1. agent[w].pc \in LeasedPcs
      BY <2>3 DEF FinishJob, Overtime, ReleaseHeldJob, LeasedPcs
    <3>2. \/ UNCHANGED storeVars
          \/ \E target \in TerminalStates \cup {"failed_retryable"}, wanted \in BOOLEAN :
               Finish(agent[w].lease, target, wanted)
          \/ Release(agent[w].lease)
      <4>1. FinishTargets \subseteq TerminalStates \cup {"failed_retryable"}
        BY DEF FinishTargets, TerminalStates
      <4> QED BY <2>3, <4>1 DEF FinishJob, Overtime, ReleaseHeldJob, Finish
    <3> QED BY <3>1, <3>2, WorkerArguments DEF Next, OwnerStep
  <2>4. CASE Timeout(w)
    <3>1. agent[w].notice # None => agent[w].notice \in issued
      BY DEF DeliveryInv, LeasesAreHeld, Agents
    <3> QED BY <2>4, <3>1 DEF Timeout, Next, NoticeStep
  <2> QED BY <1>4, <2>1, <2>2, <2>3, <2>4 DEF DeliveryStep, QuietStep
<1>5. ASSUME NEW c \in Callbacks, CallBack(c)
      PROVE  [Next]_storeVars
  BY <1>5 DEF CallBack, Next
<1>6. ASSUME NEW a \in Agents, FailureNoticeStep(a), ~QuietStep
      PROVE  [Next]_storeVars
  <2>1. agent[a].notice # None => agent[a].notice \in issued
    BY DEF DeliveryInv, LeasesAreHeld
  <2>2. CASE ClaimHeldNotice(a)
    BY <2>2 DEF ClaimHeldNotice, Next
  <2>3. CASE SettleNotice(a)
    <3>1. agent[a].notice \in issued
      BY <2>1, <2>3 DEF SettleNotice, DeliveryInv, LeasesAreHeld, NoticePcs
    <3> QED BY <2>3, <3>1 DEF SettleNotice, Next, NoticeStep
  <2>4. CASE ReleaseHeldNotice(a)
    BY <2>1, <2>4 DEF ReleaseHeldNotice, ReleaseNotice, Next, NoticeStep, storeVars
  <2> QED BY <1>6, <2>2, <2>3, <2>4 DEF FailureNoticeStep, QuietStep
<1>7. CASE ErasePurged \/ LapseLease \/ LapseNoticeLease
  BY <1>7 DEF ErasePurged, LapseLease, LapseNoticeLease, Next
<1> QED BY <1>1, <1>2, <1>3, <1>4, <1>5, <1>6, <1>7
  DEF DeliveryNext, QuietStep, CallbackStep

-----------------------------------------------------------------------------
(* Types.                                                                  *)

\* What the moves of an invocation make of its record.
LEMMA MovesAreTyped ==
  ASSUME agent \in [Agents -> AgentRecords], NEW a \in Agents
  PROVE  /\ \A g \in AgentRecords :
              agent' = [agent EXCEPT ![a] = g] => agent' \in [Agents -> AgentRecords]
         /\ \A pc \in Pcs : Goto(a, pc) => agent' \in [Agents -> AgentRecords]
         /\ \A target \in TerminalStates \cup {"failed_retryable"} :
              EndWith(a, target) => agent' \in [Agents -> AgentRecords]
         /\ \A reply \in {"ok", "retry"} :
              Reply(a, reply) => agent' \in [Agents -> AgentRecords]
<1>1. ASSUME NEW pc \in Pcs, Goto(a, pc)
      PROVE  agent' \in [Agents -> AgentRecords]
  <2>1. [agent[a] EXCEPT !.pc = pc] \in AgentRecords
    BY DEF AgentRecords
  <2> QED BY <1>1, <2>1 DEF Goto
<1>2. ASSUME NEW target \in TerminalStates \cup {"failed_retryable"}, EndWith(a, target)
      PROVE  agent' \in [Agents -> AgentRecords]
  <2>1. "finish" \in Pcs
    BY DEF Pcs
  <2>2. [agent[a] EXCEPT !.pc = "finish", !.target = target] \in AgentRecords
    BY <2>1 DEF AgentRecords
  <2> QED BY <1>2, <2>2 DEF EndWith
<1>3. ASSUME NEW reply \in {"ok", "retry"}, Reply(a, reply)
      PROVE  agent' \in [Agents -> AgentRecords]
  <2> DEFINE next == IF agent[a].notice # None THEN "notice_release"
                     ELSE IF agent[a].lease # None THEN "release" ELSE "done"
  <2>1. next \in Pcs
    BY DEF Pcs
  <2>2. agent' = [agent EXCEPT ![a].reply = reply, ![a].pc = next]
    BY <1>3 DEF Reply
  <2> HIDE DEF next
  <2>3. [agent[a] EXCEPT !.reply = reply, !.pc = next] \in AgentRecords
    BY <2>1 DEF AgentRecords
  <2> QED BY <2>2, <2>3
<1> QED BY <1>1, <1>2, <1>3

\* A delivery's own steps keep the invocations' type.
LEMMA WorkerTypes ==
  ASSUME DeliveryInv, IInv', NEW w \in Workers, DeliveryStep(w) \/ Timeout(w)
  PROVE  agent' \in [Agents -> AgentRecords]
<1> DEFINE Typed == agent' \in [Agents -> AgentRecords]
<1>1. agent \in [Agents -> AgentRecords] /\ w \in Agents
  BY TypeIsRecords DEF DeliveryInv, Agents
<1>2. /\ \A pc \in Pcs : Goto(w, pc) => Typed
      /\ \A target \in TerminalStates \cup {"failed_retryable"} : EndWith(w, target) => Typed
      /\ \A reply \in {"ok", "retry"} : Reply(w, reply) => Typed
  BY <1>1, MovesAreTyped
<1>3. agent[w] \in AgentRecords /\ agent[w].step \in 1..Len(Steps) /\ Len(Steps) \in Nat
  BY <1>1, StepNames DEF AgentRecords
<1>4. "begin" \in Pcs /\ "log" \in Pcs /\ "prepare" \in Pcs /\ "save" \in Pcs /\ "overtime" \in Pcs
  BY DEF Pcs
<1>5. CASE Begin(w)
  BY <1>2, <1>5 DEF Begin, Pcs, TerminalStates
<1>6. CASE AnalyzeImage(w)
  BY <1>2, <1>6 DEF AnalyzeImage, Pcs, TerminalStates
<1>7. CASE CallTelegram(w)
  BY <1>2, <1>7 DEF CallTelegram, Pcs, TerminalStates
<1>8. CASE SendRequest(w)
  BY <1>2, <1>8 DEF SendRequest, Pcs, TerminalStates
<1>9. CASE ClearStep(w)
  BY <1>2, <1>9 DEF ClearStep, Pcs, TerminalStates
<1>10. CASE LogStep(w)
  BY <1>2, <1>10 DEF LogStep, Pcs, TerminalStates
<1>11. CASE UpsertStep(w)
  BY <1>2, <1>11 DEF UpsertStep, Pcs, TerminalStates
<1>12. CASE WriteRecord(w)
  BY <1>2, <1>12 DEF WriteRecord, Pcs, TerminalStates
<1>13. CASE UnlogStep(w)
  BY <1>2, <1>13 DEF UnlogStep, Pcs, TerminalStates
<1>14. CASE FinishJob(w)
  BY <1>2, <1>14 DEF FinishJob, Pcs, TerminalStates
<1>15. CASE LoseJob(w)
  BY <1>2, <1>15 DEF LoseJob, Pcs, TerminalStates
<1>16. CASE Overtime(w)
  BY <1>2, <1>16 DEF Overtime, Pcs, TerminalStates
<1>17. CASE ReleaseHeldJob(w)
  BY <1>2, <1>17 DEF ReleaseHeldJob, Pcs, TerminalStates
<1>18. CASE Deliver(w)
  <2>1. lease' \in Leases \cup {None}
    BY DEF IInv, TypeOK
  <2>2. [agent[w] EXCEPT !.pc = "begin", !.lease = lease'] \in AgentRecords
    BY <1>3, <1>4, <2>1 DEF AgentRecords
  <2>3. agent' = [agent EXCEPT ![w].pc = "begin", ![w].lease = lease'] => Typed
    BY <1>1, <2>2
  <2> QED BY <1>2, <1>18, <2>3 DEF Deliver, Pcs
<1>19. CASE PrepareStep(w)
  <2> DEFINE m == job.checkpoint[Name(w)]
  <2>1. m \in Messages \cup {None}
    BY WorkerArguments, TextKinds DEF DeliveryInv, IInv, TypeOK, Job
  <2> HIDE DEF m
  <2>2. [agent[w] EXCEPT !.pc = "log", !.message = m] \in AgentRecords
    BY <1>3, <1>4, <2>1 DEF AgentRecords
  <2>3. agent' = [agent EXCEPT ![w].pc = "log", ![w].message = m] => Typed
    BY <1>1, <2>2
  <2> QED BY <1>2, <1>19, <2>3 DEF PrepareStep, Pcs, TerminalStates, m
<1>20. CASE AwaitTelegram(w)
  <2>1. \A target \in TerminalStates \cup {"failed_retryable"}, pc \in Pcs :
          [agent[w] EXCEPT !.target = target, !.pc = pc] \in AgentRecords
    BY <1>3 DEF AgentRecords
  <2>2. \A target \in TerminalStates \cup {"failed_retryable"}, pc \in Pcs :
          agent' = [agent EXCEPT ![w].target = target, ![w].pc = pc] => Typed
    BY <1>1, <2>1
  <2>3. UnansweredTarget(w) \in TerminalStates \cup {"failed_retryable"}
    BY DEF UnansweredTarget, TerminalStates
  <2> QED BY <1>2, <1>20, <2>2, <2>3 DEF AwaitTelegram, Pcs, TerminalStates
<1>21. CASE RecordStep(w)
  <2> DEFINE m == ResultOf(w)
  <2>1. m \in Messages \cup {None}
    BY WorkerArguments, TextKinds
  <2> HIDE DEF m
  <2>2. [agent[w] EXCEPT !.pc = "log", !.message = m] \in AgentRecords
    BY <1>3, <1>4, <2>1 DEF AgentRecords
  <2>3. agent' = [agent EXCEPT ![w].pc = "log", ![w].message = m] => Typed
    BY <1>1, <2>2
  <2> QED BY <1>2, <1>21, <2>3 DEF RecordStep, Pcs, m
<1>22. CASE RecheckStep(w)
  <2>1. scenario.steps \in 2..Len(Steps)
    BY DeliveryAssumption DEF DeliveryInv, DeliveryTypeOK, AllScenarios
  <2>2. ASSUME agent[w].step \in 2..(scenario.steps - 1)
        PROVE  [agent[w] EXCEPT !.pc = "prepare", !.step = @ + 1] \in AgentRecords
    <3>1. agent[w].step + 1 \in 1..Len(Steps)
      BY <1>3, <2>1, <2>2
    <3> QED BY <1>3, <1>4, <3>1 DEF AgentRecords
  <2>3. agent[w].step \in 2..(scenario.steps - 1)
        /\ agent' = [agent EXCEPT ![w].pc = "prepare", ![w].step = @ + 1] => Typed
    BY <1>1, <2>2
  <2> QED BY <1>2, <1>22, <2>3 DEF RecheckStep, Advance, Pcs, TerminalStates
<1>23. CASE ReadAnswer(w) \/ Generate(w)
  <2>1. \A t \in Answers : [agent[w] EXCEPT !.pc = "save", !.text = t] \in AgentRecords
    BY <1>3, <1>4, TextKinds DEF AgentRecords
  <2>2. \A t \in Answers : agent' = [agent EXCEPT ![w].pc = "save", ![w].text = t] => Typed
    BY <1>1, <2>1
  <2>3. job.answer # None => job.answer \in Answers
    BY DEF DeliveryInv, IInv, TypeOK, Job
  <2> QED BY <1>2, <1>23, <2>2, <2>3 DEF ReadAnswer, Generate, Pcs, TerminalStates
<1>24. CASE StoreAnswer(w)
  <2>1. job'.answer \in Answers \cup {None} /\ job \in Job /\ None \notin Answers
    BY TextKinds DEF DeliveryInv, IInv, TypeOK, Job
  <2>2. agent[w].text \in Answers /\ (SaveAnswer(agent[w].lease, agent[w].text) =>
                                        job'.answer # None)
    <3>1. agent[w].text \in Answers
      BY <1>24, WorkerArguments DEF StoreAnswer
    <3> QED BY <2>1, <3>1 DEF SaveAnswer, Job
  <2>3. \A t \in Answers :
          [agent[w] EXCEPT !.pc = "prepare", !.step = 2, !.text = t] \in AgentRecords
    <3>1. 2 \in 1..Len(Steps) /\ Answers \subseteq Texts
      BY StepNames, TextKinds
    <3> QED BY <1>3, <1>4, <3>1 DEF AgentRecords
  <2>4. \A t \in Answers :
          agent' = [agent EXCEPT ![w].pc = "prepare", ![w].step = 2, ![w].text = t] => Typed
    BY <1>1, <2>3
  <2> QED BY <1>2, <1>24, <2>1, <2>2, <2>4 DEF StoreAnswer, Pcs
<1>25. CASE Timeout(w)
  <2>1. [agent[w] EXCEPT !.pc = "overtime", !.notice = None] \in AgentRecords
    BY <1>3, <1>4 DEF AgentRecords
  <2> QED BY <1>1, <1>25, <2>1 DEF Timeout
<1> QED BY <1>5, <1>6, <1>7, <1>8, <1>9, <1>10, <1>11, <1>12, <1>13, <1>14, <1>15, <1>16, <1>17,
     <1>18, <1>19, <1>20, <1>21, <1>22, <1>23, <1>24, <1>25
  DEF DeliveryStep

\* So do the failure notice, the callbacks and the faults.
LEMMA OtherTypes ==
  ASSUME DeliveryInv, IInv', NEW a \in Agents,
         \/ FailureNoticeStep(a) \/ StoreFault(a) \/ Crash(a)
         \/ a \in Callbacks /\ CallbackStep(a)
  PROVE  agent' \in [Agents -> AgentRecords]
<1> DEFINE Typed == agent' \in [Agents -> AgentRecords]
<1>1. agent \in [Agents -> AgentRecords] /\ agent[a] \in AgentRecords
  BY TypeIsRecords DEF DeliveryInv
<1>2. /\ \A pc \in Pcs : Goto(a, pc) => Typed
      /\ \A target \in TerminalStates \cup {"failed_retryable"} : EndWith(a, target) => Typed
      /\ \A reply \in {"ok", "retry"} : Reply(a, reply) => Typed
  BY <1>1, MovesAreTyped
<1>3. CASE ClaimHeldNotice(a)
  <2> DEFINE m == job.placeholder
  <2>1. noticeLease' \in Leases \cup {None} /\ m \in Messages \cup {None}
    BY TextKinds DEF DeliveryInv, IInv, TypeOK, Job
  <2>2. "notice_call" \in Pcs
    BY DEF Pcs
  <2> HIDE DEF m
  <2>3. [agent[a] EXCEPT !.pc = "notice_call", !.notice = noticeLease', !.message = m]
          \in AgentRecords
    BY <1>1, <2>1, <2>2 DEF AgentRecords
  <2>4. agent' = [agent EXCEPT ![a].pc = "notice_call", ![a].notice = noticeLease',
                               ![a].message = m] => Typed
    BY <1>1, <2>3
  <2> QED BY <1>2, <1>3, <2>4 DEF ClaimHeldNotice, m
<1>4. CASE GuardNotice(a) \/ SendNotice(a) \/ AwaitNotice(a)
  BY <1>2, <1>4 DEF GuardNotice, SendNotice, AwaitNotice, Pcs
<1>5. CASE LogNotice(a) \/ WriteNotice(a) \/ SettleNotice(a)
  BY <1>2, <1>5 DEF LogNotice, WriteNotice, SettleNotice, Pcs
<1>6. ASSUME NEW reply \in {"none", "ok", "retry"}, DropNotice(a, reply)
      PROVE  Typed
  <2> DEFINE next == IF agent[a].lease # None THEN "release" ELSE "done"
  <2>1. next \in Pcs
    BY DEF Pcs
  <2>2. agent' = [agent EXCEPT ![a].notice = None, ![a].reply = reply, ![a].pc = next]
    BY <1>6 DEF DropNotice
  <2> HIDE DEF next
  <2>3. [agent[a] EXCEPT !.notice = None, !.reply = reply, !.pc = next] \in AgentRecords
    BY <1>1, <2>1 DEF AgentRecords
  <2> QED BY <1>1, <2>2, <2>3
<1>7. CASE StoreFault(a) \/ ReleaseHeldNotice(a)
  <2>1. agent[a].reply \in {"none", "ok", "retry"} /\ "done" \in Pcs
    BY <1>1 DEF AgentRecords, Pcs
  <2> QED BY <1>2, <1>6, <1>7, <2>1 DEF StoreFault, ReleaseHeldNotice
<1>8. CASE Crash(a)
  BY <1>2, <1>8 DEF Crash, Pcs
<1>9. CASE CallBack(a)
  BY <1>2, <1>9 DEF CallBack, Pcs
<1>10. CASE Redeliver(a)
  BY <1>1, <1>10, IdleAgentIsTyped DEF Redeliver
<1> QED BY <1>3, <1>4, <1>5, <1>7, <1>8, <1>9, <1>10 DEF FailureNoticeStep, CallbackStep

\* The store aside, an invocation changes the wire and the history only.
LEMMA WorldTypes ==
  ASSUME DeliveryInv, DeliveryNext
  PROVE  /\ webhook' \in {"new", "created", "published", "recorded"}
         /\ chat' \in [Messages -> Texts \cup {None}]
         /\ wire' \subseteq Requests
         /\ history' \in [Messages -> Texts \cup {None}]
         /\ purger' \in {"idle", "marked", "erased", "cleaned"}
         /\ epoch' \in 0..1
         /\ faults' \in 0..MaxFaults
         /\ scenario' = scenario
         /\ unmodified' \subseteq Agents /\ stranded' \subseteq Agents
<1> DEFINE Typed ==
      /\ webhook' \in {"new", "created", "published", "recorded"}
      /\ chat' \in [Messages -> Texts \cup {None}]
      /\ wire' \subseteq Requests
      /\ history' \in [Messages -> Texts \cup {None}]
      /\ purger' \in {"idle", "marked", "erased", "cleaned"}
      /\ epoch' \in 0..1
      /\ faults' \in 0..MaxFaults
      /\ scenario' = scenario
      /\ unmodified' \subseteq Agents /\ stranded' \subseteq Agents
<1>1. /\ webhook \in {"new", "created", "published", "recorded"}
      /\ chat \in [Messages -> Texts \cup {None}]
      /\ wire \subseteq Requests
      /\ history \in [Messages -> Texts \cup {None}]
      /\ purger \in {"idle", "marked", "erased", "cleaned"}
      /\ epoch \in 0..1 /\ faults \in 0..MaxFaults /\ MaxFaults \in Nat
      /\ unmodified \subseteq Agents /\ stranded \subseteq Agents
  BY DeliveryAssumption DEF DeliveryInv, DeliveryTypeOK
<1>2. UNCHANGED worldVars => Typed
  BY <1>1 DEF worldVars
<1>3. \A hazard : Fault(hazard) /\ stranded' \subseteq Agents => Typed
  BY <1>1 DEF Fault
<1>4. \A m \in Messages \cup {None}, text \in Texts : Upsert(m, text) =>
        history' \in [Messages -> Texts \cup {None}]
  BY <1>1 DEF Upsert
<1>5. CASE CreateJob \/ PublishJob \/ RecordJob
  BY <1>1, <1>5 DEF CreateJob, PublishJob, RecordJob
<1>6. ASSUME NEW w \in Workers, DeliveryStep(w) \/ Timeout(w)
      PROVE  Typed
  <2> USE DEF Quiet
  <2>1. /\ w \in Agents /\ agent[w].message \in Messages \cup {None}
        /\ agent[w].text \in Texts /\ agent[w] \in AgentRecords
    BY TypeIsRecords DEF DeliveryInv, Agents, AgentRecords
  <2>2. CASE SendRequest(w)
    <3>1. Request(w) \in Requests
      BY <2>1, WorkerArguments, TextKinds DEF Request, Requests
    <3> QED BY <1>1, <2>2, <3>1 DEF SendRequest
  <2>3. CASE AwaitTelegram(w)
    BY <1>1, <2>3 DEF AwaitTelegram
  <2>4. CASE WriteRecord(w)
    BY <1>1, <1>4, <2>1, <2>4 DEF WriteRecord
  <2>5. CASE UnlogStep(w)
    BY <1>1, <2>5 DEF UnlogStep
  <2>6. CASE Timeout(w)
    BY <1>1, <1>3, <2>6 DEF Timeout
  <2>7. CASE \/ Deliver(w) \/ Begin(w) \/ AnalyzeImage(w) \/ PrepareStep(w)
             \/ CallTelegram(w) \/ ClearStep(w) \/ RecordStep(w) \/ LogStep(w)
    BY <1>2, <2>7 DEF Deliver, Begin, AnalyzeImage, PrepareStep, CallTelegram, ClearStep,
       RecordStep, LogStep
  <2>8. CASE \/ UpsertStep(w) \/ RecheckStep(w) \/ ReadAnswer(w) \/ Generate(w)
             \/ StoreAnswer(w) \/ FinishJob(w) \/ LoseJob(w) \/ Overtime(w)
             \/ ReleaseHeldJob(w)
    BY <1>2, <2>8 DEF UpsertStep, RecheckStep, ReadAnswer, Generate, StoreAnswer, FinishJob,
       LoseJob, Overtime, ReleaseHeldJob
  <2> QED BY <1>6, <2>2, <2>3, <2>4, <2>5, <2>6, <2>7, <2>8 DEF DeliveryStep
<1>7. ASSUME NEW a \in Agents,
             \/ FailureNoticeStep(a) \/ StoreFault(a) \/ Crash(a)
             \/ CallbackStep(a)
      PROVE  Typed
  <2> USE DEF Quiet
  <2>1. agent[a].message \in Messages \cup {None} /\ "notice" \in Texts
    BY TypeIsRecords, TextKinds DEF DeliveryInv, AgentRecords
  <2>2. CASE SendNotice(a)
    <3>1. agent[a].message # None
      BY <2>2 DEF SendNotice, DeliveryInv, MessagesAreShown, NoticePcs
    <3>2. [from |-> a, message |-> agent[a].message, text |-> "notice"] \in Requests
      BY <2>1, <3>1 DEF Requests
    <3> QED BY <1>1, <2>2, <3>2 DEF SendNotice
  <2>3. CASE AwaitNotice(a)
    BY <1>1, <2>3 DEF AwaitNotice
  <2>4. CASE WriteNotice(a)
    BY <1>1, <1>4, <2>1, <2>4 DEF WriteNotice
  <2>5. CASE StoreFault(a) \/ Crash(a)
    BY <1>1, <1>3, <2>5 DEF StoreFault, Crash
  <2>6. CASE \/ ClaimHeldNotice(a) \/ GuardNotice(a) \/ LogNotice(a) \/ SettleNotice(a)
             \/ ReleaseHeldNotice(a) \/ CallBack(a) \/ Redeliver(a)
    BY <1>2, <2>6 DEF ClaimHeldNotice, GuardNotice, LogNotice, SettleNotice,
       ReleaseHeldNotice, CallBack, Redeliver
  <2> QED BY <1>7, <2>2, <2>3, <2>4, <2>5, <2>6 DEF FailureNoticeStep, CallbackStep
<1>8. ASSUME NEW r \in wire, Land(r)
      PROVE  Typed
  <2>1. r.text \in Texts /\ r.message \in Messages /\ r.from \in Agents
    BY <1>1 DEF Requests
  <2> QED BY <1>1, <1>8, <2>1 DEF Land
<1>9. CASE Lobotomy \/ MarkPurged \/ ErasePurged \/ CleanPurged
  BY <1>1, <1>9 DEF Lobotomy, MarkPurged, ErasePurged, CleanPurged
<1>10. CASE LapseLease \/ LapseNoticeLease
  BY <1>2, <1>10 DEF LapseLease, LapseNoticeLease
<1> QED BY <1>5, <1>6, <1>7, <1>8, <1>9, <1>10 DEF DeliveryNext, Agents

\* Every step keeps every variable in its type.
LEMMA TypeStep ==
  ASSUME DeliveryInv, DeliveryNext, IInv'
  PROVE  DeliveryTypeOK'
<1>1. agent' \in [Agents -> AgentRecords]
  <2>1. CASE \/ CreateJob \/ PublishJob \/ RecordJob \/ \E r \in wire : Land(r)
             \/ Lobotomy \/ MarkPurged \/ ErasePurged \/ CleanPurged
             \/ LapseLease \/ LapseNoticeLease
    <3>1. agent' = agent
      BY <2>1 DEF CreateJob, PublishJob, RecordJob, Land, Lobotomy, MarkPurged, ErasePurged,
         CleanPurged, LapseLease, LapseNoticeLease
    <3> QED BY <3>1, TypeIsRecords DEF DeliveryInv
  <2> QED BY <2>1, WorkerTypes, OtherTypes DEF DeliveryNext, Agents
<1> QED BY <1>1, WorldTypes DEF DeliveryTypeOK, DeliveryInv, AgentRecords

-----------------------------------------------------------------------------
(* What no step undoes.                                                    *)

\* The number of attempts never goes back while the job exists.
LEMMA AttemptsStep ==
  ASSUME IInv, [Next]_storeVars, Exists, Exists'
  PROVE  job'.attempts >= job.attempts
<1>1. job \in Job
  BY DEF IInv, TypeOK
<1> SUFFICES job'.attempts \in {job.attempts, job.attempts + 1}
  <2>1. job.attempts \in Nat
    BY <1>1, JobStoreAssumption DEF Job
  <2> QED BY <2>1
<1>2. CASE \E id \in MessageIds : RecordPublication(id)
  BY <1>1, <1>2 DEF RecordPublication, Job
<1>3. CASE \E id \in MessageIds, w \in BOOLEAN : FailureTakeover(id, w)
  BY <1>1, <1>3 DEF FailureTakeover, Job
<1>4. CASE \E t \in Tokens : Acquire(t) \/ ClaimNotice(t)
  BY <1>1, <1>4 DEF Acquire, ClaimNotice, Job
<1>5. CASE \E l \in issued : OwnerStep(l)
  <2>1. ASSUME NEW l \in issued, NEW n \in Names,
               \/ \E p \in Payloads : PrepareIntent(l, n, p)
               \/ \E r \in Results : Checkpoint(l, n, r)
               \/ ClearIntent(l, n)
        PROVE  job'.attempts = job.attempts
    BY <1>1, <2>1 DEF PrepareIntent, Checkpoint, ClearIntent, Job
  <2>2. ASSUME NEW l \in issued,
               \/ Renew(l) \/ Release(l) \/ \E a \in Answers : SaveAnswer(l, a)
               \/ \E target \in TerminalStates \cup {"failed_retryable"}, w \in BOOLEAN :
                    Finish(l, target, w)
        PROVE  job'.attempts = job.attempts
    BY <1>1, <2>2 DEF Renew, Release, SaveAnswer, Finish, Job
  <2> QED BY <1>5, <2>1, <2>2 DEF OwnerStep
<1>6. CASE \E l \in issued : NoticeStep(l)
  BY <1>1, <1>6 DEF NoticeStep, CompleteNotice, FailNotice, ReleaseNotice, Job
<1>7. CASE Create \/ ExpireLease \/ ExpireNoticeLease \/ UNCHANGED storeVars
  BY <1>7 DEF Create, ExpireLease, ExpireNoticeLease, storeVars
<1>8. CASE Purge \/ ExpireJob
  BY <1>8, EmptyJobIsFine DEF Purge, ExpireJob, Exists
<1> QED BY <1>2, <1>3, <1>4, <1>5, <1>6, <1>7, <1>8 DEF Next

\* Leases are never taken back from the list of those handed out.
LEMMA IssuedStep ==
  ASSUME [Next]_storeVars
  PROVE  issued \subseteq issued'
<1>1. CASE \E t \in Tokens : Acquire(t) \/ ClaimNotice(t)
  BY <1>1 DEF Acquire, ClaimNotice
<1>2. CASE \E l \in issued : OwnerStep(l) \/ NoticeStep(l)
  BY <1>2 DEF OwnerStep, NoticeStep, Renew, PrepareIntent, Checkpoint, ClearIntent,
     SaveAnswer, Finish, Release, CompleteNotice, FailNotice, ReleaseNotice
<1> QED BY <1>1, <1>2
  DEF Next, Create, RecordPublication, FailureTakeover, Purge, ExpireJob, ExpireLease,
      ExpireNoticeLease, storeVars

\* The job is created once, and nothing but a purge erases it.
LEMMA ExistenceStep ==
  ASSUME DeliveryInv, [DeliveryNext]_vars
  PROVE  /\ Exists' => Exists \/ CreateJob
         /\ Exists => Exists' \/ ErasePurged
<1> USE DEF QuietStore, Exists
<1>1. job \in Job
  BY DEF DeliveryInv, IInv, TypeOK
<1>2. CASE QuietStep \/ UNCHANGED vars
  BY <1>2, QuietIsQuiet DEF vars, storeVars
<1>3. CASE CreateJob \/ ErasePurged \/ LapseLease \/ LapseNoticeLease
  BY <1>3, EmptyJobIsFine DEF CreateJob, Create, ErasePurged, Purge, LapseLease, LapseNoticeLease,
     ExpireLease, ExpireNoticeLease, storeVars
<1>4. CASE RecordJob
  BY <1>1, <1>4 DEF RecordJob, RecordPublication, Job, storeVars
<1>5. ASSUME NEW w \in Workers, DeliveryStep(w) \/ Timeout(w), ~QuietStep
      PROVE  Exists' <=> Exists
  <2>1. CASE Deliver(w)
    BY <1>1, <2>1 DEF Deliver, Acquire, Acquirable, ProcessableStates, WorkingStates, Job,
       storeVars
  <2>2. CASE PrepareStep(w)
    BY <1>1, <2>2 DEF PrepareStep, PrepareIntent, Job, storeVars
  <2>3. CASE ClearStep(w) \/ RecordStep(w)
    BY <1>1, <2>3 DEF ClearStep, RecordStep, ClearIntent, Checkpoint, Job, storeVars
  <2>4. CASE StoreAnswer(w)
    BY <1>1, <2>4 DEF StoreAnswer, SaveAnswer, Owns, Live, Job, storeVars
  <2>5. CASE FinishJob(w)
    <3>1. "absent" \notin FinishTargets
      BY DEF FinishTargets
    <3> QED BY <1>1, <2>5, <3>1 DEF FinishJob, Finish, Owns, Live, Job, storeVars
  <2>6. CASE Overtime(w)
    BY <1>1, <2>6 DEF Overtime, Finish, Owns, Live, Job, storeVars
  <2>7. CASE ReleaseHeldJob(w) \/ Timeout(w)
    BY <2>7 DEF ReleaseHeldJob, Release, Timeout, ReleaseNotice, storeVars
  <2> QED BY <1>5, <2>1, <2>2, <2>3, <2>4, <2>5, <2>6, <2>7 DEF DeliveryStep, QuietStep
<1>6. ASSUME NEW a \in Agents, FailureNoticeStep(a) \/ CallBack(a), ~QuietStep
      PROVE  Exists' <=> Exists
  BY <1>1, <1>6 DEF FailureNoticeStep, QuietStep, ClaimHeldNotice, ClaimNotice, SettleNotice,
     CompleteNotice, FailNotice, ReleaseHeldNotice, ReleaseNotice, CallBack,
     FailureTakeover, Live, Job, storeVars
<1> QED BY <1>2, <1>3, <1>4, <1>5, <1>6
  DEF DeliveryNext, QuietStep, CallbackStep, Agents

\* What every later step may rely on.
LEMMA StoreFrame ==
  ASSUME DeliveryInv, [DeliveryNext]_vars
  PROVE  /\ IInv /\ IInv' /\ issued \subseteq issued'
         /\ webhook # "new" /\ Exists' => Exists
         /\ Exists /\ Exists' =>
              /\ job'.attempts >= job.attempts
              /\ job.answer # None => job'.answer = job.answer
              /\ \A n \in Names :
                   job.checkpoint[n] # None => job'.checkpoint[n] = job.checkpoint[n]
         /\ job.state \in TerminalStates /\ Exists' => job'.state = job.state
         /\ webhook # "new" /\ JobFailed => JobFailed'
         /\ \A l \in issued : Owns(l)' => Owns(l)
<1>1. IInv /\ [Next]_storeVars
  BY StoreStep DEF DeliveryInv
<1>2. IInv' /\ issued \subseteq issued'
  BY <1>1, NextKeeps, IssuedStep
<1>3. webhook # "new" => ~CreateJob
  BY DEF CreateJob
<1>4. job.state \in TerminalStates /\ Exists' => job'.state = job.state
  BY <1>1, TerminalStep
<1>5. webhook # "new" /\ JobFailed => JobFailed'
  BY <1>3, <1>4, ExistenceStep DEF JobFailed, Exists, TerminalStates
<1> QED BY <1>1, <1>2, <1>3, <1>4, <1>5, ExistenceStep, AttemptsStep, RecordsStep,
        OwnershipStep

-----------------------------------------------------------------------------
(* The moves of an invocation.                                             *)

\* The other invocations stay where they are.
Others(a) == \A b \in Agents \ {a} : agent'[b] = agent[b]

\* What an invocation remembers stays as it is.
Kept(a) ==
  /\ agent'[a].lease = agent[a].lease /\ agent'[a].notice = agent[a].notice
  /\ agent'[a].step = agent[a].step /\ agent'[a].text = agent[a].text
  /\ agent'[a].message = agent[a].message

\* What each way of moving an invocation leaves of it, and of the others.
LEMMA Moves ==
  ASSUME DeliveryInv, NEW a \in Agents
  PROVE  /\ agent' = agent => Others(a) /\ agent'[a] = agent[a]
         /\ \A pc : Goto(a, pc) =>
              /\ Others(a) /\ Kept(a)
              /\ agent'[a].pc = pc /\ agent'[a].target = agent[a].target
         /\ \A target : EndWith(a, target) =>
              /\ Others(a) /\ Kept(a)
              /\ agent'[a].pc = "finish" /\ agent'[a].target = target
         /\ \A reply : Reply(a, reply) =>
              /\ Others(a) /\ Kept(a)
              /\ agent'[a].pc = IF agent[a].notice # None THEN "notice_release"
                                ELSE IF agent[a].lease # None THEN "release" ELSE "done"
<1>1. agent \in [Agents -> AgentRecords]
  BY TypeIsRecords DEF DeliveryInv
<1>2. ASSUME NEW pc, Goto(a, pc)
      PROVE  /\ Others(a) /\ Kept(a)
             /\ agent'[a].pc = pc /\ agent'[a].target = agent[a].target
  BY <1>1, <1>2 DEF Goto, Others, Kept, AgentRecords
<1>3. ASSUME NEW target, EndWith(a, target)
      PROVE  /\ Others(a) /\ Kept(a)
             /\ agent'[a].pc = "finish" /\ agent'[a].target = target
  BY <1>1, <1>3 DEF EndWith, Others, Kept, AgentRecords
<1>4. ASSUME NEW reply, Reply(a, reply)
      PROVE  /\ Others(a) /\ Kept(a)
             /\ agent'[a].pc = IF agent[a].notice # None THEN "notice_release"
                               ELSE IF agent[a].lease # None THEN "release" ELSE "done"
  BY <1>1, <1>4 DEF Reply, Others, Kept, AgentRecords
<1> QED BY <1>2, <1>3, <1>4 DEF Others

\* And to be done with the notice.
LEMMA DropMoves ==
  ASSUME DeliveryInv, NEW a \in Agents, NEW reply, DropNotice(a, reply)
  PROVE  /\ Others(a)
         /\ agent'[a].lease = agent[a].lease /\ agent'[a].notice = None
         /\ agent'[a].step = agent[a].step /\ agent'[a].text = agent[a].text
         /\ agent'[a].message = agent[a].message
         /\ agent'[a].pc = IF agent[a].lease # None THEN "release" ELSE "done"
BY TypeIsRecords DEF DropNotice, Others, AgentRecords, DeliveryInv

\* Steps of the world move no invocation.
LEMMA WorldStaysOut ==
  ASSUME \/ CreateJob \/ PublishJob \/ RecordJob \/ \E r \in wire : Land(r)
         \/ Lobotomy \/ MarkPurged \/ ErasePurged \/ CleanPurged
         \/ LapseLease \/ LapseNoticeLease
  PROVE  agent' = agent
BY DEF CreateJob, PublishJob, RecordJob, Land, Lobotomy, MarkPurged, ErasePurged, CleanPurged,
   LapseLease, LapseNoticeLease

\* Where reading the answer, and the callback, may lead.
LEMMA ReadMoves ==
  ASSUME NEW w, ReadAnswer(w)
  PROVE  /\ agent[w].pc = "read" /\ UNCHANGED worldVars /\ UNCHANGED storeVars
         /\ \/ Goto(w, "lost")
            \/ Goto(w, "generate") /\ Owns(agent[w].lease)
            \/ /\ Exists /\ job.answer # None
               /\ agent' = [agent EXCEPT ![w].pc = "save", ![w].text = job.answer]
<1> DEFINE Led == \/ Goto(w, "lost")
                  \/ Goto(w, "generate") /\ Owns(agent[w].lease)
                  \/ /\ Exists /\ job.answer # None
                     /\ agent' = [agent EXCEPT ![w].pc = "save", ![w].text = job.answer]
<1>1. CASE ~Exists
  BY <1>1 DEF ReadAnswer, Quiet
<1>2. CASE Exists /\ job.answer # None
  BY <1>2 DEF ReadAnswer, Quiet
<1>3. CASE Exists /\ job.answer = None
  <2>1. Goto(w, IF Owns(agent[w].lease) THEN "generate" ELSE "lost")
    BY <1>3 DEF ReadAnswer
  <2>2. CASE Owns(agent[w].lease)
    <3>1. (IF Owns(agent[w].lease) THEN "generate" ELSE "lost") = "generate"
      BY <2>2
    <3>2. Goto(w, "generate")
      BY <2>1, <3>1
    <3>3. Led
      BY <2>2, <3>2
    <3> QED BY <3>3 DEF ReadAnswer, Quiet
  <2>3. CASE ~Owns(agent[w].lease)
    <3>1. (IF Owns(agent[w].lease) THEN "generate" ELSE "lost") = "lost"
      BY <2>3
    <3>2. Goto(w, "lost")
      BY <2>1, <3>1
    <3>3. Led
      BY <3>2
    <3> QED BY <3>3 DEF ReadAnswer, Quiet
  <2> QED BY <2>2, <2>3
<1> QED BY <1>1, <1>2, <1>3 DEF ReadAnswer, Quiet

\* What a failure callback does when it arrives.
LEMMA CallBackMoves ==
  ASSUME DeliveryInv, NEW c, CallBack(c)
  PROVE  /\ agent[c].pc = "idle" /\ UNCHANGED worldVars
         /\ (Goto(c, "claim") /\ job'.state = "failed") \/ Reply(c, "ok")
<1>1. \A id \in MessageIds : FailureTakeover(id, TRUE) => job'.state = "failed"
  BY DEF FailureTakeover, DeliveryInv, IInv, TypeOK, Job
<1> QED BY <1>1 DEF CallBack, QuietStore, storeVars

-----------------------------------------------------------------------------
(* Leases.                                                                 *)

\* The lease of the job changes hands only when it is acquired.
LEMMA LeaseFrame ==
  ASSUME DeliveryInv, [DeliveryNext]_vars
  PROVE  \/ lease' \in {lease, None}
         \/ \E w \in Workers, t \in Tokens :
              /\ agent[w].pc = "idle" /\ Acquire(t)
              /\ agent' = [agent EXCEPT ![w].pc = "begin", ![w].lease = lease']
<1> USE DEF QuietStore, storeVars
<1>1. CASE QuietStep \/ UNCHANGED vars
  BY <1>1, QuietIsQuiet DEF vars
<1>2. CASE CreateJob \/ RecordJob \/ ErasePurged \/ LapseLease \/ LapseNoticeLease
  BY <1>2 DEF CreateJob, Create, RecordJob, RecordPublication, ErasePurged, Purge, LapseLease,
     LapseNoticeLease, ExpireLease, ExpireNoticeLease
<1>3. ASSUME NEW w \in Workers, Deliver(w), lease' \notin {lease, None}
      PROVE  \E t \in Tokens :
               /\ agent[w].pc = "idle" /\ Acquire(t)
               /\ agent' = [agent EXCEPT ![w].pc = "begin", ![w].lease = lease']
  BY <1>3 DEF Deliver
<1>4. ASSUME NEW w \in Workers, DeliveryStep(w) \/ Timeout(w), ~Deliver(w), ~QuietStep
      PROVE  lease' \in {lease, None}
  BY <1>4 DEF DeliveryStep, QuietStep, PrepareStep, PrepareIntent, ClearStep, ClearIntent,
     RecordStep, Checkpoint, StoreAnswer, SaveAnswer, FinishJob, Finish, Overtime,
     ReleaseHeldJob, Release, Timeout, ReleaseNotice
<1>5. ASSUME NEW a \in Agents, FailureNoticeStep(a) \/ CallBack(a), ~QuietStep
      PROVE  lease' \in {lease, None}
  BY <1>5 DEF FailureNoticeStep, QuietStep, ClaimHeldNotice, ClaimNotice, SettleNotice,
     CompleteNotice, FailNotice, ReleaseHeldNotice, ReleaseNotice, CallBack, FailureTakeover
<1> QED BY <1>1, <1>2, <1>3, <1>4, <1>5
  DEF DeliveryNext, QuietStep, CallbackStep, Agents

\* What an invocation holds it was given, and a job's lease stays with it.
HoldsItsOwn(a) ==
  /\ agent'[a].lease # None => a \in Workers /\ agent'[a].lease \in issued'
  /\ agent'[a].notice # None => agent'[a].notice \in issued'
  /\ agent'[a].pc \in NoticePcs => agent'[a].notice # None
  /\ agent'[a].pc \in LeasedPcs => agent'[a].lease # None
  /\ a \in Workers /\ agent'[a].pc = "idle" => agent'[a].lease = None
  /\ agent[a].lease # None => agent'[a].lease = agent[a].lease

\* Every step leaves each invocation its lease, or gives it one just issued.
LEMMA LeaseMoves ==
  ASSUME DeliveryInv, DeliveryNext
  PROVE  \A a \in Agents : HoldsItsOwn(a)
<1> USE DEF HoldsItsOwn
<1>1. /\ agent \in [Agents -> AgentRecords] /\ issued \subseteq issued'
      /\ Agents = Workers \cup Callbacks /\ Workers \cap Callbacks = {}
  BY TypeIsRecords, StoreFrame, DeliveryAssumption DEF DeliveryInv, Agents
<1>2. /\ \A a \in Agents : agent[a].lease # None => a \in Workers /\ agent[a].lease \in issued
      /\ \A a \in Agents : agent[a].notice # None => agent[a].notice \in issued
      /\ \A a \in Agents : agent[a].pc \in NoticePcs => agent[a].notice # None
      /\ \A a \in Agents : agent[a].pc \in LeasedPcs => agent[a].lease # None
      /\ \A w \in Workers : agent[w].pc = "idle" => agent[w].lease = None
  BY DEF DeliveryInv, LeasesAreHeld
<1>3. \A t \in Tokens : /\ Acquire(t) => lease' \in issued' /\ lease' # None
                        /\ ClaimNotice(t) => noticeLease' \in issued' /\ noticeLease' # None
  BY StoreFrame, JobStoreAssumption DEF Acquire, ClaimNotice, IInv, TypeOK
<1>4. ASSUME NEW w \in Workers, DeliveryStep(w) \/ Timeout(w)
       PROVE  Others(w) /\ HoldsItsOwn(w)
  <2> USE DEF Kept
  <2>1. /\ \A pc : Goto(w, pc) =>
             Others(w) /\ Kept(w) /\ agent'[w].pc = pc
             /\ agent'[w].target = agent[w].target
        /\ \A target : EndWith(w, target) =>
             Others(w) /\ Kept(w) /\ agent'[w].pc = "finish"
             /\ agent'[w].target = target
        /\ \A reply : Reply(w, reply) =>
             Others(w) /\ Kept(w)
             /\ agent'[w].pc = IF agent[w].notice # None THEN "notice_release"
                               ELSE IF agent[w].lease # None THEN "release" ELSE "done"
    BY Moves DEF Agents
  <2>2. CASE Deliver(w)
    <3>1. agent[w].pc = "idle" /\ agent[w].lease = None /\ agent[w] \in AgentRecords
      BY <1>1, <1>2, <2>2 DEF Deliver, Agents
    <3>2. CASE /\ \E t \in Tokens : t = NextToken /\ Acquire(t)
               /\ agent' = [agent EXCEPT ![w].pc = "begin", ![w].lease = lease']
      <4>1. lease' \in issued' /\ lease' # None
        <5>1. PICK t \in Tokens : Acquire(t)
          BY <3>2
        <5> QED BY <1>3, <5>1
      <4> DEFINE given == lease'
      <4>2. /\ agent' = [agent EXCEPT ![w].pc = "begin", ![w].lease = given]
            /\ given \in issued' /\ given # None
        BY <3>2, <4>1
      <4> HIDE DEF given
      <4>3. /\ agent'[w].pc = "begin" /\ agent'[w].lease = given
            /\ agent'[w].notice = agent[w].notice
        BY <1>1, <3>1, <4>2 DEF Agents, AgentRecords
      <4>4. Others(w)
        BY <1>1, <4>2 DEF Others
      <4> QED BY <1>1, <1>2, <3>1, <4>2, <4>3, <4>4 DEF NoticePcs, Agents
    <3>3. CASE Goto(w, "claim") \/ Reply(w, "retry") \/ Reply(w, "ok")
      BY <1>1, <1>2, <2>1, <3>1, <3>3 DEF NoticePcs, LeasedPcs, HoldingPcs
    <3> QED BY <2>2, <3>2, <3>3 DEF Deliver
  <2>3. CASE Begin(w)
    BY <1>1, <1>2, <2>1, <2>3 DEF Begin, NoticePcs, LeasedPcs, HoldingPcs
  <2>4. CASE AnalyzeImage(w)
    BY <1>1, <1>2, <2>1, <2>4 DEF AnalyzeImage, NoticePcs, LeasedPcs, HoldingPcs
  <2>5. CASE PrepareStep(w)
    BY <1>1, <1>2, <2>1, <2>5
    DEF PrepareStep, NoticePcs, LeasedPcs, HoldingPcs, Others, AgentRecords
  <2>6. CASE CallTelegram(w)
    BY <1>1, <1>2, <2>1, <2>6 DEF CallTelegram, NoticePcs, LeasedPcs, HoldingPcs
  <2>7. CASE SendRequest(w)
    BY <1>1, <1>2, <2>1, <2>7 DEF SendRequest, NoticePcs, LeasedPcs, HoldingPcs
  <2>8. CASE AwaitTelegram(w)
    BY <1>1, <1>2, <2>1, <2>8
    DEF AwaitTelegram, NoticePcs, LeasedPcs, HoldingPcs, Others, AgentRecords
  <2>9. CASE ClearStep(w)
    BY <1>1, <1>2, <2>1, <2>9 DEF ClearStep, NoticePcs, LeasedPcs, HoldingPcs
  <2>10. CASE RecordStep(w)
    BY <1>1, <1>2, <2>1, <2>10
    DEF RecordStep, NoticePcs, LeasedPcs, HoldingPcs, Others, AgentRecords
  <2>11. CASE LogStep(w)
    BY <1>1, <1>2, <2>1, <2>11 DEF LogStep, NoticePcs, LeasedPcs, HoldingPcs
  <2>12. CASE UpsertStep(w)
    BY <1>1, <1>2, <2>1, <2>12 DEF UpsertStep, NoticePcs, LeasedPcs, HoldingPcs
  <2>13. CASE WriteRecord(w)
    BY <1>1, <1>2, <2>1, <2>13 DEF WriteRecord, NoticePcs, LeasedPcs, HoldingPcs
  <2>14. CASE RecheckStep(w)
    BY <1>1, <1>2, <2>1, <2>14
    DEF RecheckStep, NoticePcs, LeasedPcs, HoldingPcs, Others, AgentRecords, Advance
  <2>15. CASE UnlogStep(w)
    BY <1>1, <1>2, <2>1, <2>15 DEF UnlogStep, NoticePcs, LeasedPcs, HoldingPcs
  <2>16. CASE ReadAnswer(w)
    <3>1. agent[w].pc = "read"
      BY <2>16, ReadMoves
    <3>2. CASE Goto(w, "lost") \/ Goto(w, "generate")
      BY <1>1, <1>2, <2>1, <3>1, <3>2 DEF NoticePcs, LeasedPcs, HoldingPcs
    <3>3. CASE job.answer # None /\ agent' = [agent EXCEPT ![w].pc = "save", ![w].text = job.answer]
      BY <1>1, <1>2, <3>1, <3>3 DEF NoticePcs, LeasedPcs, HoldingPcs, Others, AgentRecords
    <3> QED BY <2>16, <3>2, <3>3, ReadMoves
  <2>17. CASE Generate(w)
    BY <1>1, <1>2, <2>1, <2>17
    DEF Generate, NoticePcs, LeasedPcs, HoldingPcs, Others, AgentRecords
  <2>18. CASE StoreAnswer(w)
    BY <1>1, <1>2, <2>1, <2>18
    DEF StoreAnswer, NoticePcs, LeasedPcs, HoldingPcs, Others, AgentRecords
  <2>19. CASE FinishJob(w)
    BY <1>1, <1>2, <2>1, <2>19 DEF FinishJob, NoticePcs, LeasedPcs, HoldingPcs
  <2>20. CASE LoseJob(w)
    BY <1>1, <1>2, <2>1, <2>20 DEF LoseJob, NoticePcs, LeasedPcs, HoldingPcs
  <2>21. CASE Overtime(w)
    BY <1>1, <1>2, <2>1, <2>21 DEF Overtime, NoticePcs, LeasedPcs, HoldingPcs
  <2>22. CASE ReleaseHeldJob(w)
    BY <1>1, <1>2, <2>1, <2>22 DEF ReleaseHeldJob, NoticePcs, LeasedPcs, HoldingPcs
  <2>23. CASE Timeout(w)
    BY <1>1, <1>2, <2>1, <2>23
    DEF Timeout, NoticePcs, LeasedPcs, HoldingPcs, Others, AgentRecords
  <2> QED BY <1>4, <2>2, <2>3, <2>4, <2>5, <2>6, <2>7, <2>8, <2>9, <2>10, <2>11, <2>12, <2>13,
     <2>14, <2>15, <2>16, <2>17, <2>18, <2>19, <2>20, <2>21, <2>22, <2>23
  DEF DeliveryStep
<1>5. ASSUME NEW a \in Agents,
              \/ FailureNoticeStep(a) \/ StoreFault(a) \/ Crash(a)
              \/ a \in Callbacks /\ CallbackStep(a)
       PROVE  Others(a) /\ HoldsItsOwn(a)
  <2> USE DEF Kept
  <2>1. /\ \A pc : Goto(a, pc) =>
             Others(a) /\ Kept(a) /\ agent'[a].pc = pc
             /\ agent'[a].target = agent[a].target
        /\ \A target : EndWith(a, target) =>
             Others(a) /\ Kept(a) /\ agent'[a].pc = "finish"
             /\ agent'[a].target = target
        /\ \A reply : Reply(a, reply) =>
             Others(a) /\ Kept(a)
             /\ agent'[a].pc = IF agent[a].notice # None THEN "notice_release"
                               ELSE IF agent[a].lease # None THEN "release" ELSE "done"
    BY Moves DEF Agents
  <2>2. CASE ClaimHeldNotice(a)
    <3>1. agent[a].pc = "claim" /\ agent[a] \in AgentRecords
      BY <1>1, <2>2 DEF ClaimHeldNotice
    <3>2. CASE /\ \E t \in Tokens : t = NextToken /\ ClaimNotice(t)
               /\ agent' = [agent EXCEPT ![a].pc = "notice_call", ![a].notice = noticeLease',
                                         ![a].message = job.placeholder]
      <4>1. noticeLease' \in issued' /\ noticeLease' # None
        <5>1. PICK t \in Tokens : ClaimNotice(t)
          BY <3>2
        <5> QED BY <1>3, <5>1
      <4> DEFINE given == noticeLease'
                 shown == job.placeholder
      <4>2. /\ agent' = [agent EXCEPT ![a].pc = "notice_call", ![a].notice = given,
                                      ![a].message = shown]
            /\ given \in issued' /\ given # None
        BY <3>2, <4>1
      <4> HIDE DEF given, shown
      <4>3. /\ agent'[a].pc = "notice_call" /\ agent'[a].notice = given
            /\ agent'[a].lease = agent[a].lease
        BY <1>1, <3>1, <4>2 DEF AgentRecords
      <4>4. Others(a)
        BY <1>1, <4>2 DEF Others
      <4>5. "claim" \in LeasedPcs <=> "notice_call" \in LeasedPcs
        BY DEF LeasedPcs, HoldingPcs, NoticePcs
      <4> QED BY <1>1, <1>2, <3>1, <4>2, <4>3, <4>4, <4>5
    <3>3. CASE Reply(a, "retry") \/ Reply(a, "ok")
      BY <1>1, <1>2, <2>1, <3>1, <3>3 DEF NoticePcs, LeasedPcs, HoldingPcs
    <3> QED BY <2>2, <3>2, <3>3 DEF ClaimHeldNotice
  <2>3. CASE GuardNotice(a)
    BY <1>1, <1>2, <2>1, <2>3 DEF GuardNotice, NoticePcs, LeasedPcs, HoldingPcs
  <2>4. CASE SendNotice(a)
    BY <1>1, <1>2, <2>1, <2>4 DEF SendNotice, NoticePcs, LeasedPcs, HoldingPcs
  <2>5. CASE AwaitNotice(a)
    BY <1>1, <1>2, <2>1, <2>5 DEF AwaitNotice, NoticePcs, LeasedPcs, HoldingPcs
  <2>6. CASE LogNotice(a)
    BY <1>1, <1>2, <2>1, <2>6 DEF LogNotice, NoticePcs, LeasedPcs, HoldingPcs
  <2>7. CASE WriteNotice(a)
    BY <1>1, <1>2, <2>1, <2>7 DEF WriteNotice, NoticePcs, LeasedPcs, HoldingPcs
  <2>8. CASE SettleNotice(a)
    BY <1>1, <1>2, <2>1, <2>8 DEF SettleNotice, NoticePcs, LeasedPcs, HoldingPcs
  <2>9. CASE ReleaseHeldNotice(a)
    BY <1>1, <1>2, DropMoves, <2>9 DEF ReleaseHeldNotice, NoticePcs, LeasedPcs, HoldingPcs
  <2>10. CASE StoreFault(a)
    <3>1. CASE \E reply : DropNotice(a, reply)
      BY <1>1, <1>2, DropMoves, <3>1 DEF NoticePcs, LeasedPcs, HoldingPcs
    <3>2. CASE ~\E reply : DropNotice(a, reply)
      BY <1>1, <1>2, <2>1, <2>10, <3>2
      DEF StoreFault, StorePcs, NoticePcs, LeasedPcs, HoldingPcs
    <3> QED BY <3>1, <3>2
  <2>11. CASE Crash(a)
    BY <1>1, <1>2, <2>1, <2>11 DEF Crash, NoticePcs, LeasedPcs, HoldingPcs
  <2>12. CASE CallBack(a) /\ a \in Callbacks
    BY <1>1, <1>2, <2>1, CallBackMoves, <2>12 DEF NoticePcs, LeasedPcs, HoldingPcs
  <2>13. CASE Redeliver(a) /\ a \in Callbacks
    BY <1>1, <1>2, <2>1, <2>13
    DEF Redeliver, IdleAgent, NoticePcs, LeasedPcs, HoldingPcs, Others, AgentRecords
  <2> QED BY <1>5, <2>2, <2>3, <2>4, <2>5, <2>6, <2>7, <2>8, <2>9, <2>10, <2>11, <2>12, <2>13
  DEF FailureNoticeStep, CallbackStep
<1>6. ASSUME NEW a \in Agents, Others(a), HoldsItsOwn(a)
      PROVE  \A b \in Agents : HoldsItsOwn(b)
  BY <1>2, <1>6, StoreFrame DEF Others
<1>7. agent' = agent => \A a \in Agents : HoldsItsOwn(a)
  BY <1>1, <1>2
<1> QED BY <1>1, <1>6, <1>7, <1>4, <1>5, WorldStaysOut DEF DeliveryNext

\* Every lease in use is one the store issued, and stays so.
LEMMA LeasesAreHeldStep ==
  ASSUME DeliveryInv, DeliveryNext
  PROVE  LeasesAreHeld'
<1>1. \A a \in Agents : HoldsItsOwn(a)
  BY LeaseMoves
<1>2. lease' # None => \E w \in Workers : agent'[w].lease = lease'
  <2>1. CASE lease' \in {lease, None}
    BY <1>1, <2>1 DEF HoldsItsOwn, DeliveryInv, LeasesAreHeld, Agents
  <2>2. ASSUME NEW w \in Workers, agent' = [agent EXCEPT ![w].pc = "begin", ![w].lease = lease']
        PROVE  agent'[w].lease = lease'
    BY <2>2, TypeIsRecords DEF DeliveryInv, Agents, AgentRecords
  <2> QED BY <2>1, <2>2, LeaseFrame
<1> QED BY <1>1, <1>2 DEF HoldsItsOwn, LeasesAreHeld, Agents

-----------------------------------------------------------------------------
(* How an invocation gets from one point to another.                       *)

\* An invocation gets from one point to another.
Shift(a, from, to) == agent[a].pc = from /\ agent'[a].pc = to

\* Its lease, its step and its text stay, and perhaps its message.
Same(a) ==
  /\ agent'[a].lease = agent[a].lease
  /\ agent'[a].step = agent[a].step /\ agent'[a].text = agent[a].text

\* Its message stays too.
Remains(a) == Same(a) /\ agent'[a].message = agent[a].message

\* A worker is given the job.
Starts(w) ==
  /\ Shift(w, "idle", "begin")
  /\ agent'[w].lease = lease' /\ \E t \in Tokens : Acquire(t)
  /\ agent'[w].step = agent[w].step /\ agent'[w].text = agent[w].text
  /\ agent'[w].message = agent[w].message

\* A worker goes on, and remembers what it did.
GoesOn(w) ==
  LET l == agent[w].lease IN
  /\ Remains(w)
  /\ \/ Shift(w, "begin", "image") /\ Kind = "image_memory"
     \/ Shift(w, "begin", "prepare") /\ Kind # "image_memory"
     \/ Shift(w, "prepare", "call") /\ PrepareIntent(l, Name(w), agent[w].text)
     \/ Shift(w, "call", "send") /\ Owns(l)
     \/ Shift(w, "send", "await") /\ wire' = wire \cup {Request(w)}
     \/ /\ Shift(w, "await", "clear") /\ Name(w) # Edit /\ Pending(w)
        /\ wire' = {r \in wire : r.from # w}
        /\ agent'[w].target \in {"failed_retryable", "failed"}
     \/ Shift(w, "await", "record") /\ ~Pending(w) /\ wire' = wire
     \/ Shift(w, "log", "upsert") \/ Shift(w, "upsert", "write")
     \/ Shift(w, "write", "recheck") /\ Upsert(agent[w].message, agent[w].text)
     \/ Shift(w, "recheck", "read") /\ agent[w].step = 1
     \/ Shift(w, "recheck", "unlog") /\ ~Owns(l)
     \/ Shift(w, "read", "generate")

\* A step is found recorded, or is recorded now.
Records(w) ==
  LET l == agent[w].lease IN
  /\ Same(w)
  /\ \/ /\ Shift(w, "prepare", "log")
        /\ IntentStatus(l, Name(w), agent[w].text) = "checkpointed"
        /\ agent'[w].message = job.checkpoint[Name(w)] /\ UNCHANGED storeVars
     \/ /\ Shift(w, "record", "log")
        /\ Checkpoint(l, Name(w), ResultOf(w))
        /\ agent'[w].message = ResultOf(w)

\* The next step is taken up, or there is something to say.
TakesUp(w) ==
  /\ agent'[w].lease = agent[w].lease /\ agent'[w].message = agent[w].message
  /\ \/ /\ Shift(w, "recheck", "prepare")
        /\ agent[w].step \in 2..(scenario.steps - 1)
        /\ agent'[w].step = agent[w].step + 1 /\ agent'[w].text = agent[w].text
     \/ /\ Shift(w, "read", "save") \/ Shift(w, "generate", "save")
        /\ agent'[w].step = agent[w].step /\ agent'[w].text \in Answers
     \/ /\ Shift(w, "save", "prepare")
        /\ SaveAnswer(agent[w].lease, agent[w].text)
        /\ agent'[w].step = 2 /\ agent'[w].text = job'.answer

\* What a delivery does until it ends.
Works(w) == Starts(w) \/ GoesOn(w) \/ Records(w) \/ TakesUp(w)

\* What a delivery has done that means to finish in such a state.
Concludes(a) ==
  /\ agent'[a].target = "delivered" =>
       \/ agent[a].pc = "image"
       \/ agent[a].pc = "recheck" /\ agent[a].step \notin 1..(scenario.steps - 1)
  /\ agent'[a].target = "failed_ambiguous" =>
       \/ agent[a].pc = "await" /\ Name(a) \notin Repeatable
       \/ /\ agent[a].pc = "prepare" /\ UNCHANGED storeVars
          /\ IntentStatus(agent[a].lease, Name(a), agent[a].text) = "ambiguous"

\* An invocation is at an end, or soon will be.
Leaves(a) ==
  /\ Remains(a)
  /\ agent'[a].pc \in {"finish", "lost", "overtime", "release", "notice_release",
                       "done", "crashed", "claim"}
  /\ agent'[a].pc = "finish" => a \in Workers /\ Concludes(a)
  /\ agent'[a].pc = "claim" => JobFailed'
  /\ agent'[a].pc = "done" /\ agent[a].pc # "release" => agent[a].lease = None
  /\ Shift(a, "release", "done") => lease' # agent[a].lease \/ a \in stranded'

\* The failure notice.
Notifies(a) ==
  /\ Same(a)
  /\ \/ /\ Shift(a, "claim", "notice_call")
        /\ agent'[a].message = job.placeholder /\ job' = job
        /\ job.state = "failed" /\ job.notice = "pending"
     \/ /\ agent'[a].message = agent[a].message
        /\ \/ Shift(a, "notice_call", "notice_send")
           \/ /\ Shift(a, "notice_send", "notice_await")
              /\ wire' = wire \cup
                   {[from |-> a, message |-> agent[a].message, text |-> "notice"]}
           \/ Shift(a, "notice_await", "notice_log") /\ ~Pending(a) /\ wire' = wire
           \/ Shift(a, "notice_await", "notice_fail")
           \/ Shift(a, "notice_log", "notice_write")
           \/ /\ Shift(a, "notice_write", "notice_done")
              /\ \/ Upsert(agent[a].message, "notice")
                 \/ /\ a \in unmodified' /\ history' = history
                    /\ history[agent[a].message] \in Answers

\* A callback is delivered again.
Begins(c) == agent'[c] = IdleAgent

\* Whatever happens, an invocation moves in one of these ways.
AgentMoved(a) ==
  \/ agent'[a] = agent[a]
  \/ Leaves(a) \/ Notifies(a)
  \/ a \in Workers /\ Works(a)
  \/ a \in Callbacks /\ Begins(a)

\* Every step moves each invocation in one of these ways.
LEMMA AgentMoves ==
  ASSUME DeliveryInv, DeliveryNext
  PROVE  \A a \in Agents : AgentMoved(a)
<1>1. /\ agent \in [Agents -> AgentRecords]
      /\ Agents = Workers \cup Callbacks /\ Workers \cap Callbacks = {}
  BY TypeIsRecords, DeliveryAssumption DEF DeliveryInv, Agents
<1>2. /\ \A a \in Agents : agent[a].lease # None => a \in Workers
      /\ \A a \in Agents : agent[a].pc \in LeasedPcs => a \in Workers
      /\ \A a \in Agents : agent[a].pc \in LeasedPcs => agent[a].lease # None
      /\ \A w \in Workers : agent[w].pc = "idle" => agent[w].lease = None
  BY DEF DeliveryInv, LeasesAreHeld
<1>3. \A w \in Workers : \A target, wanted :
         Finish(agent[w].lease, target, wanted) => job'.state = target
  BY DEF Finish, DeliveryInv, IInv, TypeOK, Job
<1>4. job.answer # None => job.answer \in Answers
  BY DEF DeliveryInv, IInv, TypeOK, Job
<1>5. /\ \A w \in Workers : agent[w].pc = "clear" =>
             agent[w].target \notin {"delivered", "failed_ambiguous"}
      /\ \A w \in Workers : agent[w].pc = "image" => Kind = "image_memory"
  BY DEF DeliveryInv, StepsInOrder, ImageJobsAreSilent
<1>6. ASSUME NEW w \in Workers, DeliveryStep(w) \/ Timeout(w)
       PROVE  Others(w) /\ (Leaves(w) \/ Notifies(w) \/ Works(w))
  <2> USE DEF Kept
  <2>1. /\ \A pc : Goto(w, pc) =>
             Others(w) /\ Kept(w) /\ agent'[w].pc = pc
             /\ agent'[w].target = agent[w].target
        /\ \A target : EndWith(w, target) =>
             Others(w) /\ Kept(w) /\ agent'[w].pc = "finish"
             /\ agent'[w].target = target
        /\ \A reply : Reply(w, reply) =>
             Others(w) /\ Kept(w)
             /\ agent'[w].pc = IF agent[w].notice # None THEN "notice_release"
                               ELSE IF agent[w].lease # None THEN "release" ELSE "done"
    BY Moves DEF Agents
  <2>2. CASE Deliver(w)
    BY <1>1, <1>2, <1>5, <2>1, <2>2
    DEF Deliver, Leaves, Remains, Same, Shift, Concludes, Starts, Works, JobFailed,
        QuietStore, storeVars, LeasedPcs, HoldingPcs, Others, AgentRecords
  <2>3. CASE Begin(w)
    BY <1>1, <1>2, <1>5, <2>1, <2>3
    DEF Begin, Leaves, Remains, Same, Shift, Concludes, GoesOn, Works, LeasedPcs,
        HoldingPcs
  <2>4. CASE AnalyzeImage(w)
    BY <1>1, <1>2, <1>5, <2>1, <2>4
    DEF AnalyzeImage, Leaves, Remains, Same, Shift, Concludes, LeasedPcs, HoldingPcs
  <2>5. CASE PrepareStep(w)
    BY <1>1, <1>2, <1>5, <2>1, <2>5
    DEF PrepareStep, Leaves, Remains, Same, Shift, Concludes, GoesOn, Works, Records,
        Quiet, QuietStore, LeasedPcs, HoldingPcs, Others, AgentRecords
  <2>6. CASE CallTelegram(w)
    BY <1>1, <1>2, <1>5, <2>1, <2>6
    DEF CallTelegram, Leaves, Remains, Same, Shift, Concludes, GoesOn, Works,
        LeasedPcs, HoldingPcs
  <2>7. CASE SendRequest(w)
    BY <1>1, <1>2, <1>5, <2>1, <2>7
    DEF SendRequest, Leaves, Remains, Same, Shift, Concludes, GoesOn, Works,
        LeasedPcs, HoldingPcs
  <2>8. CASE AwaitTelegram(w)
    BY <1>1, <1>2, <1>5, <2>1, <2>8
    DEF AwaitTelegram, Leaves, Remains, Same, Shift, Concludes, GoesOn, Works,
        UnansweredTarget, LeasedPcs, HoldingPcs, Others, AgentRecords
  <2>9. CASE ClearStep(w)
    BY <1>1, <1>2, <1>5, <2>1, <2>9
    DEF ClearStep, Leaves, Remains, Same, Shift, Concludes, LeasedPcs, HoldingPcs
  <2>10. CASE RecordStep(w)
    BY <1>1, <1>2, <1>5, <2>1, <2>10
    DEF RecordStep, Leaves, Remains, Same, Shift, Concludes, Records, Works,
        LeasedPcs, HoldingPcs, Others, AgentRecords
  <2>11. CASE LogStep(w)
    BY <1>1, <1>2, <1>5, <2>1, <2>11
    DEF LogStep, Leaves, Remains, Same, Shift, Concludes, GoesOn, Works, LeasedPcs,
        HoldingPcs
  <2>12. CASE UpsertStep(w)
    BY <1>1, <1>2, <1>5, <2>1, <2>12
    DEF UpsertStep, Leaves, Remains, Same, Shift, Concludes, GoesOn, Works, LeasedPcs,
        HoldingPcs
  <2>13. CASE WriteRecord(w)
    BY <1>1, <1>2, <1>5, <2>1, <2>13
    DEF WriteRecord, Leaves, Remains, Same, Shift, Concludes, GoesOn, Works,
        LeasedPcs, HoldingPcs
  <2>14. CASE RecheckStep(w)
    BY <1>1, <1>2, <1>5, <2>1, <2>14
    DEF RecheckStep, Leaves, Remains, Same, Shift, Concludes, GoesOn, Works, TakesUp,
        LeasedPcs, HoldingPcs, Others, AgentRecords, Advance
  <2>15. CASE UnlogStep(w)
    BY <1>1, <1>2, <1>5, <2>1, <2>15
    DEF UnlogStep, Leaves, Remains, Same, Shift, Concludes, LeasedPcs, HoldingPcs
  <2>16. CASE ReadAnswer(w)
    <3>1. agent[w].pc = "read"
      BY <2>16, ReadMoves
    <3>2. CASE Goto(w, "lost") \/ Goto(w, "generate")
      BY <1>1, <1>2, <2>1, <3>1, <3>2
      DEF Leaves, Works, GoesOn, Remains, Same, Shift
    <3>3. CASE job.answer # None /\ agent' = [agent EXCEPT ![w].pc = "save", ![w].text = job.answer]
      BY <1>1, <1>4, <3>1, <3>3
      DEF Works, TakesUp, Shift, Others, AgentRecords
    <3> QED BY <2>16, <3>2, <3>3, ReadMoves
  <2>17. CASE Generate(w)
    BY <1>1, <1>2, <1>5, <2>1, <2>17
    DEF Generate, Leaves, Remains, Same, Shift, Concludes, TakesUp, Works, LeasedPcs,
        HoldingPcs, Others, AgentRecords
  <2>18. CASE StoreAnswer(w)
    BY <1>1, <1>2, <1>5, <2>1, <2>18
    DEF StoreAnswer, Leaves, Remains, Same, Shift, Concludes, TakesUp, Works,
        LeasedPcs, HoldingPcs, Others, AgentRecords
  <2>19. CASE FinishJob(w)
    <3>1. agent[w].pc = "finish"
      BY <2>19 DEF FinishJob
    <3>2. CASE \E pc \in {"claim", "lost"} :
                 Goto(w, pc) /\ (pc = "claim" => job'.state = "failed")
      BY <1>1, <1>2, <2>1, <3>2 DEF Leaves, Remains, Same, Shift, JobFailed
    <3>3. CASE EndWith(w, "failed_retryable")
      BY <1>1, <1>2, <2>1, <3>3 DEF Leaves, Remains, Same, Shift, Concludes
    <3>4. CASE \E reply : Reply(w, reply)
      BY <1>1, <1>2, <2>1, <3>1, <3>4 DEF Leaves, Remains, Same, Shift
    <3> QED BY <2>19, <1>3, <3>2, <3>3, <3>4 DEF FinishJob
  <2>20. CASE LoseJob(w)
    BY <1>1, <1>2, <1>5, <2>1, <2>20
    DEF LoseJob, Leaves, Remains, Same, Shift, Concludes, LeasedPcs, HoldingPcs
  <2>21. CASE Overtime(w)
    BY <1>1, <1>2, <1>5, <2>1, <2>21
    DEF Overtime, Leaves, Remains, Same, Shift, Concludes, LeasedPcs, HoldingPcs
  <2>22. CASE ReleaseHeldJob(w)
    BY <1>1, <1>2, <1>5, <2>1, <2>22
    DEF ReleaseHeldJob, Leaves, Remains, Same, Shift, Concludes, Release, QuietStore,
        storeVars, LeasedPcs, HoldingPcs
  <2>23. CASE Timeout(w)
    BY <1>1, <1>2, <1>5, <2>1, <2>23
    DEF Timeout, Leaves, Remains, Same, Shift, Concludes, LeasedPcs, HoldingPcs,
        Others, AgentRecords
  <2> QED BY <1>6, <2>2, <2>3, <2>4, <2>5, <2>6, <2>7, <2>8, <2>9, <2>10, <2>11, <2>12, <2>13,
     <2>14, <2>15, <2>16, <2>17, <2>18, <2>19, <2>20, <2>21, <2>22, <2>23
  DEF DeliveryStep
<1>7. ASSUME NEW a \in Agents,
              \/ FailureNoticeStep(a) \/ StoreFault(a) \/ Crash(a)
              \/ a \in Callbacks /\ CallbackStep(a)
       PROVE  Others(a) /\ AgentMoved(a)
  <2> USE DEF Kept
  <2>1. /\ \A pc : Goto(a, pc) =>
             Others(a) /\ Kept(a) /\ agent'[a].pc = pc
             /\ agent'[a].target = agent[a].target
        /\ \A target : EndWith(a, target) =>
             Others(a) /\ Kept(a) /\ agent'[a].pc = "finish"
             /\ agent'[a].target = target
        /\ \A reply : Reply(a, reply) =>
             Others(a) /\ Kept(a)
             /\ agent'[a].pc = IF agent[a].notice # None THEN "notice_release"
                               ELSE IF agent[a].lease # None THEN "release" ELSE "done"
    BY Moves DEF Agents
  <2>2. CASE ClaimHeldNotice(a)
    BY <1>1, <1>2, <1>5, <2>1, <2>2
    DEF ClaimHeldNotice, Notifies, Leaves, Remains, Same, Shift, Concludes,
        AgentMoved, ClaimNotice, LeasedPcs, HoldingPcs, Others, AgentRecords
  <2>3. CASE GuardNotice(a)
    BY <1>1, <1>2, <1>5, <2>1, <2>3
    DEF GuardNotice, Notifies, Leaves, Remains, Same, Shift, Concludes, AgentMoved,
        LeasedPcs, HoldingPcs
  <2>4. CASE SendNotice(a)
    BY <1>1, <1>2, <1>5, <2>1, <2>4
    DEF SendNotice, Notifies, Leaves, Remains, Same, Shift, Concludes, AgentMoved,
        LeasedPcs, HoldingPcs
  <2>5. CASE AwaitNotice(a)
    BY <1>1, <1>2, <1>5, <2>1, <2>5
    DEF AwaitNotice, Notifies, Leaves, Remains, Same, Shift, Concludes, AgentMoved,
        LeasedPcs, HoldingPcs
  <2>6. CASE LogNotice(a)
    BY <1>1, <1>2, <1>5, <2>1, <2>6
    DEF LogNotice, Notifies, Leaves, Remains, Same, Shift, Concludes, AgentMoved,
        LeasedPcs, HoldingPcs
  <2>7. CASE WriteNotice(a)
    BY <1>1, <1>2, <1>5, <2>1, <2>7
    DEF WriteNotice, Notifies, Leaves, Remains, Same, Shift, Concludes, AgentMoved,
        LeasedPcs, HoldingPcs
  <2>8. CASE SettleNotice(a)
    BY <1>1, <1>2, <1>5, <2>1, <2>8
    DEF SettleNotice, Leaves, Remains, Same, Shift, Concludes, AgentMoved, LeasedPcs,
        HoldingPcs
  <2>9. CASE ReleaseHeldNotice(a)
    BY <1>1, <1>2, DropMoves, <2>9
    DEF ReleaseHeldNotice, Leaves, Remains, Same, Shift, AgentMoved
  <2>10. CASE StoreFault(a)
    <3>1. CASE agent[a].pc = "notice_release" /\ DropNotice(a, "retry")
      BY <1>1, <1>2, DropMoves, <3>1 DEF Leaves, Remains, Same, Shift, AgentMoved
    <3>2. CASE agent[a].pc = "release" /\ Goto(a, "done") /\ stranded' = stranded \cup {a}
      BY <1>1, <1>2, <2>1, <3>2 DEF Leaves, Remains, Same, Shift, AgentMoved
    <3>3. CASE ~(agent[a].pc = "notice_release" /\ DropNotice(a, "retry"))
               /\ ~(/\ agent[a].pc = "release" /\ Goto(a, "done")
                    /\ stranded' = stranded \cup {a})
      BY <1>1, <1>2, <1>5, <2>1, <2>10, <3>3
      DEF StoreFault, Leaves, Remains, Same, Shift, Concludes, AgentMoved, StorePcs,
          LeasedPcs, HoldingPcs
    <3> QED BY <3>1, <3>2, <3>3
  <2>11. CASE Crash(a)
    BY <1>1, <1>2, <1>5, <2>1, <2>11
    DEF Crash, Leaves, Remains, Same, Shift, Concludes, AgentMoved, LeasedPcs,
        HoldingPcs
  <2>12. CASE CallBack(a) /\ a \in Callbacks
    BY <1>1, <1>2, <1>5, <2>1, CallBackMoves, <2>12
    DEF Leaves, Remains, Same, Shift, Concludes, AgentMoved, JobFailed, LeasedPcs,
        HoldingPcs
  <2>13. CASE Redeliver(a) /\ a \in Callbacks
    BY <1>1, <1>2, <1>5, <2>1, <2>13
    DEF Redeliver, AgentMoved, Begins, LeasedPcs, HoldingPcs, Others, AgentRecords
  <2> QED BY <1>7, <2>2, <2>3, <2>4, <2>5, <2>6, <2>7, <2>8, <2>9, <2>10, <2>11, <2>12, <2>13
  DEF FailureNoticeStep, CallbackStep
<1>8. ASSUME NEW a \in Agents, Others(a), AgentMoved(a)
      PROVE  \A b \in Agents : AgentMoved(b)
  BY <1>8 DEF Others, AgentMoved
<1>9. agent' = agent => \A a \in Agents : AgentMoved(a)
  BY DEF AgentMoved
<1> QED BY <1>1, <1>8, <1>9, <1>6, <1>7, WorldStaysOut DEF DeliveryNext, AgentMoved

-----------------------------------------------------------------------------
(* How the rest of the world changes.                                      *)

\* The request that shows the failure notice.
NoticeRequest(a) == [from |-> a, message |-> agent[a].message, text |-> "notice"]

\* A request is sent by the invocation that asks for it; it is carried out,
\* or rejected while that invocation waits for it.
WireMoved ==
  /\ \A r \in wire' \ wire :
       \/ \E w \in Workers : Shift(w, "send", "await") /\ r = Request(w)
       \/ \E a \in Agents :
            Shift(a, "notice_send", "notice_await") /\ r = NoticeRequest(a)
  /\ \A r \in wire \ wire' :
       \/ Land(r)
       \/ /\ agent[r.from].pc \in {"await", "notice_await"}
          /\ agent'[r.from].pc \notin {"await", "notice_await"}

\* The history is written by the two upserts, the recheck and the purge.
HistoryMoved ==
  \/ history' = history
  \/ \E w \in Workers : agent[w].pc = "write" /\ Upsert(agent[w].message, agent[w].text)
  \/ \E w \in Workers :
       agent[w].pc = "unlog" /\ history' = [history EXCEPT ![agent[w].message] = None]
  \/ \E a \in Agents : agent[a].pc = "notice_write" /\ Upsert(agent[a].message, "notice")
  \/ CleanPurged

\* What may change outside the job store.
WorldMoved ==
  /\ scenario' = scenario
  /\ chat' = chat \/ \E r \in wire : Land(r)
  /\ WireMoved /\ HistoryMoved
  /\ stranded \subseteq stranded'
  /\ \A a \in unmodified \ unmodified' :
       agent[a].pc \in {"notice_send", "notice_await", "notice_write"}
  /\ purger' = purger \/ MarkPurged \/ ErasePurged \/ CleanPurged
  /\ webhook' = webhook \/ CreateJob \/ PublishJob \/ RecordJob

\* Every step changes chat, wire, history, purge and webhook in these ways only.
LEMMA WorldMoves ==
  ASSUME DeliveryInv, DeliveryNext
  PROVE  WorldMoved
<1> USE DEF WorldMoved, HistoryMoved
<1>1. UNCHANGED worldVars => WorldMoved
  BY DEF worldVars, WireMoved
<1>2. \A hazard : Fault(hazard) /\ stranded \subseteq stranded' => WorldMoved
  BY DEF Fault, WireMoved
<1>3. wire' = wire => WireMoved
  BY DEF WireMoved
<1>4. CASE CreateJob \/ PublishJob \/ RecordJob
  BY <1>3, <1>4 DEF CreateJob, PublishJob, RecordJob
<1>5. ASSUME NEW w \in Workers, DeliveryStep(w) \/ Timeout(w)
      PROVE  WorldMoved
  <2> USE DEF Quiet
  <2>1. w \in Agents /\ agent \in [Agents -> AgentRecords]
    BY TypeIsRecords DEF DeliveryInv, Agents
  <2>2. CASE SendRequest(w)
    <3>1. agent[w].pc = "send" /\ wire' \in {wire, wire \cup {Request(w)}}
      BY <2>2 DEF SendRequest
    <3>2. wire' # wire => agent'[w].pc = "await"
      BY <2>1, <2>2, Moves DEF SendRequest
    <3>3. WireMoved
      BY <3>1, <3>2 DEF WireMoved, Shift
    <3> QED BY <2>2, <3>3 DEF SendRequest
  <2>3. CASE AwaitTelegram(w)
    <3>1. agent[w].pc = "await" /\ (wire' # wire => agent'[w].pc \in {"finish", "clear"})
      <4>1. \A target : agent' = [agent EXCEPT ![w].target = target,
                                    ![w].pc = IF Name(w) \in Repeatable
                                             THEN "finish" ELSE "clear"]
              => agent'[w].pc \in {"finish", "clear"}
        BY <2>1 DEF AgentRecords
      <4> QED BY <2>3, <4>1 DEF AwaitTelegram
    <3>2. \A r \in wire \ wire' : r.from = w
      BY <2>3 DEF AwaitTelegram
    <3>3. wire' \subseteq wire
      BY <2>3 DEF AwaitTelegram
    <3>4. WireMoved
      BY <3>1, <3>2, <3>3 DEF WireMoved
    <3> QED BY <2>3, <3>4 DEF AwaitTelegram
  <2>4. CASE WriteRecord(w) \/ UnlogStep(w)
    BY <1>3, <2>4 DEF WriteRecord, UnlogStep
  <2>5. CASE Timeout(w)
    BY <1>2, <2>5 DEF Timeout
  <2>6. CASE \/ Deliver(w) \/ Begin(w) \/ AnalyzeImage(w) \/ PrepareStep(w)
             \/ CallTelegram(w) \/ ClearStep(w) \/ RecordStep(w) \/ LogStep(w)
    BY <1>1, <2>6 DEF Deliver, Begin, AnalyzeImage, PrepareStep, CallTelegram, ClearStep,
       RecordStep, LogStep
  <2>7. CASE \/ UpsertStep(w) \/ RecheckStep(w) \/ ReadAnswer(w) \/ Generate(w)
             \/ StoreAnswer(w) \/ FinishJob(w) \/ LoseJob(w) \/ Overtime(w)
             \/ ReleaseHeldJob(w)
    BY <1>1, <2>7 DEF UpsertStep, RecheckStep, ReadAnswer, Generate, StoreAnswer, FinishJob,
       LoseJob, Overtime, ReleaseHeldJob
  <2> QED BY <1>5, <2>2, <2>3, <2>4, <2>5, <2>6, <2>7 DEF DeliveryStep
<1>6. ASSUME NEW a \in Agents,
             \/ FailureNoticeStep(a) \/ StoreFault(a) \/ Crash(a)
             \/ CallbackStep(a)
      PROVE  WorldMoved
  <2> USE DEF Quiet
  <2>1. CASE SendNotice(a)
    <3>1. agent[a].pc = "notice_send" /\ wire' \in {wire, wire \cup {NoticeRequest(a)}}
      BY <2>1 DEF SendNotice, NoticeRequest
    <3>2. wire' # wire => agent'[a].pc = "notice_await"
      BY <2>1, Moves DEF SendNotice
    <3>3. WireMoved
      BY <3>1, <3>2 DEF WireMoved, Shift
    <3> QED BY <2>1, <3>3 DEF SendNotice
  <2>2. CASE AwaitNotice(a)
    <3>1. agent[a].pc = "notice_await" /\ wire' \subseteq wire
          /\ \A r \in wire \ wire' : r.from = a
      BY <2>2 DEF AwaitNotice
    <3>2. agent'[a].pc \notin {"await", "notice_await"}
      BY <2>2, Moves DEF AwaitNotice
    <3>3. WireMoved
      BY <3>1, <3>2 DEF WireMoved
    <3> QED BY <2>2, <3>3 DEF AwaitNotice
  <2>3. CASE WriteNotice(a)
    BY <1>3, <2>3 DEF WriteNotice
  <2>4. CASE StoreFault(a) \/ Crash(a)
    BY <1>2, <2>4 DEF StoreFault, Crash
  <2>5. CASE \/ ClaimHeldNotice(a) \/ GuardNotice(a) \/ LogNotice(a) \/ SettleNotice(a)
             \/ ReleaseHeldNotice(a) \/ CallBack(a) \/ Redeliver(a)
    BY <1>1, <2>5 DEF ClaimHeldNotice, GuardNotice, LogNotice, SettleNotice,
       ReleaseHeldNotice, CallBack, Redeliver
  <2> QED BY <1>6, <2>1, <2>2, <2>3, <2>4, <2>5 DEF FailureNoticeStep, CallbackStep
<1>7. ASSUME NEW r \in wire, Land(r)
      PROVE  WorldMoved
  BY <1>7 DEF Land, WireMoved
<1>8. CASE Lobotomy \/ MarkPurged \/ ErasePurged \/ CleanPurged
  BY <1>3, <1>8 DEF Lobotomy, MarkPurged, ErasePurged, CleanPurged
<1>9. CASE LapseLease \/ LapseNoticeLease
  BY <1>1, <1>9 DEF LapseLease, LapseNoticeLease
<1> QED BY <1>4, <1>5, <1>6, <1>7, <1>8, <1>9 DEF DeliveryNext, Agents

\* Every change of the job is of one invocation's, at the step that makes it.
JobMoved ==
  /\ \A n \in Names : job'.intent[n] # job.intent[n] =>
       \E w \in Workers :
         /\ Owns(agent[w].lease) /\ Name(w) = n
         /\ \/ /\ Shift(w, "prepare", "call")
               /\ job.intent[n] = None /\ job'.intent[n] # None
            \/ Shift(w, "clear", "finish") /\ job.checkpoint[n] = None
  /\ \A n \in Names : job'.checkpoint[n] # job.checkpoint[n] =>
       \E w \in Workers :
         /\ Owns(agent[w].lease) /\ Name(w) = n
         /\ Shift(w, "record", "log") /\ job'.checkpoint[n] = ResultOf(w)
  /\ job'.answer # job.answer =>
       \E w \in Workers : Owns(agent[w].lease) /\ Shift(w, "save", "prepare")
  /\ job'.state = "ready_to_deliver" /\ job.state # "ready_to_deliver" =>
       \E w \in Workers : agent[w].pc = "save"
  /\ job'.state \in {"delivered", "failed_ambiguous"} /\ job.state # job'.state =>
       \E w \in Workers :
         /\ Owns(agent[w].lease) /\ agent[w].pc = "finish"
         /\ agent[w].target = job'.state
         /\ job'.state = "delivered" => job.state = "ready_to_deliver"
  /\ job'.notice = "delivered" /\ job.notice # "delivered" =>
       \E a \in Agents : agent[a].pc = "notice_done"

\* Nothing but the state, the fences and the publication changes.
JobFields ==
  /\ job'.intent = job.intent /\ job'.checkpoint = job.checkpoint
  /\ job'.answer = job.answer
  /\ job'.notice # "delivered" \/ job'.notice = job.notice

\* Every step changes the record of the job in these ways only.
LEMMA JobMoves ==
  ASSUME DeliveryInv, DeliveryNext, Exists, Exists'
  PROVE  JobMoved
<1> USE DEF Quiet, QuietStore
<1>1. /\ job \in Job /\ agent \in [Agents -> AgentRecords]
      /\ \A w \in Workers : w \in Agents /\ Name(w) \in Names
  BY TypeIsRecords, WorkerArguments DEF DeliveryInv, IInv, TypeOK, Agents
<1>2. JobFields /\ (job'.state = job.state
                      \/ job'.state \notin {"ready_to_deliver", "delivered", "failed_ambiguous"})
        => JobMoved
  BY DEF JobFields, JobMoved
<1>3. UNCHANGED storeVars => JobMoved
  BY <1>2 DEF storeVars, JobFields
<1>4. CASE QuietStep
  BY <1>3, <1>4, QuietIsQuiet
<1>5. CASE CreateJob \/ RecordJob \/ ErasePurged \/ LapseLease \/ LapseNoticeLease
  <2>1. ~CreateJob /\ ~ErasePurged
    BY EmptyJobIsFine DEF CreateJob, Create, ErasePurged, Purge, Exists
  <2>2. CASE RecordJob
    <3>1. ASSUME NEW id \in MessageIds, RecordPublication(id)
          PROVE  JobFields /\ job'.state \in {job.state, "enqueued"}
      BY <1>1, <3>1 DEF RecordPublication, JobFields, Job
    <3> QED BY <1>2, <1>3, <2>2, <3>1 DEF RecordJob
  <2>3. CASE LapseLease \/ LapseNoticeLease
    BY <1>2, <2>3 DEF LapseLease, LapseNoticeLease, ExpireLease, ExpireNoticeLease, JobFields
  <2> QED BY <1>5, <2>1, <2>2, <2>3
<1>6. ASSUME NEW w \in Workers, DeliveryStep(w) \/ Timeout(w), ~QuietStep
      PROVE  JobMoved
  <2>1. CASE Deliver(w)
    <3>1. JobFields /\ (job'.state = job.state \/ job'.state = "processing")
      BY <1>1, <2>1 DEF Deliver, Acquire, JobFields, Job, storeVars
    <3> QED BY <1>2, <3>1
  <2>2. CASE PrepareStep(w)
    <3>1. CASE UNCHANGED storeVars
      BY <1>3, <3>1
    <3>2. CASE PrepareIntent(agent[w].lease, Name(w), agent[w].text) /\ Goto(w, "call")
      <4>1. Shift(w, "prepare", "call") /\ Owns(agent[w].lease)
        BY <1>1, <2>2, <3>2, Moves DEF Shift, PrepareStep, PrepareIntent, IntentStatus
      <4>2. /\ job'.checkpoint = job.checkpoint /\ job'.answer = job.answer
            /\ job'.state = job.state /\ job'.notice = job.notice
            /\ \A n \in Names : job'.intent[n] # job.intent[n] => n = Name(w)
            /\ job.intent[Name(w)] # None => job'.intent[Name(w)] = job.intent[Name(w)]
        BY <1>1, <3>2 DEF PrepareIntent, Job
      <4> QED BY <1>1, <4>1, <4>2 DEF JobMoved
    <3> QED BY <2>2, <3>1, <3>2 DEF PrepareStep
  <2>3. CASE ClearStep(w)
    <3>1. CASE UNCHANGED storeVars
      BY <1>3, <3>1
    <3>2. CASE Owns(agent[w].lease) /\ ClearIntent(agent[w].lease, Name(w))
      <4>1. /\ job'.checkpoint = job.checkpoint /\ job'.answer = job.answer
            /\ job'.state = job.state /\ job'.notice = job.notice
            /\ \A n \in Names : job'.intent[n] # job.intent[n] => n = Name(w)
            /\ job.checkpoint[Name(w)] = None
        BY <1>1, <3>2 DEF ClearIntent, Job
      <4>2. Shift(w, "clear", "finish")
        BY <1>1, <2>3, <3>2, Moves DEF ClearStep, Shift
      <4> QED BY <3>2, <4>1, <4>2 DEF JobMoved
    <3> QED BY <2>3, <3>1, <3>2 DEF ClearStep
  <2>4. CASE RecordStep(w)
    <3>1. CASE UNCHANGED storeVars
      BY <1>3, <3>1
    <3>2. CASE /\ Checkpoint(agent[w].lease, Name(w), ResultOf(w))
               /\ agent' = [agent EXCEPT ![w].pc = "log", ![w].message = ResultOf(w)]
      <4>1. Shift(w, "record", "log") /\ Owns(agent[w].lease)
        BY <1>1, <2>4, <3>2 DEF Shift, RecordStep, Checkpoint, AgentRecords
      <4>2. /\ job'.intent = job.intent /\ job'.answer = job.answer
            /\ job'.state = job.state /\ job'.notice = job.notice
            /\ \A n \in Names : job'.checkpoint[n] # job.checkpoint[n] =>
                 n = Name(w) /\ job'.checkpoint[n] = ResultOf(w)
        BY <1>1, <3>2 DEF Checkpoint, Job
      <4> QED BY <4>1, <4>2 DEF JobMoved
    <3> QED BY <2>4, <3>1, <3>2 DEF RecordStep
  <2>5. CASE StoreAnswer(w)
    <3>1. CASE UNCHANGED storeVars
      BY <1>3, <3>1
    <3>2. CASE /\ Owns(agent[w].lease) /\ SaveAnswer(agent[w].lease, agent[w].text)
               /\ agent' = [agent EXCEPT ![w].pc = "prepare", ![w].step = 2,
                                         ![w].text = job'.answer]
      <4> DEFINE answer == job'.answer
      <4>1. agent' = [agent EXCEPT ![w].pc = "prepare", ![w].step = 2, ![w].text = answer]
        BY <3>2
      <4> HIDE DEF answer
      <4>2. Shift(w, "save", "prepare")
        BY <1>1, <2>5, <4>1 DEF Shift, StoreAnswer, AgentRecords
      <4>3. /\ job'.intent = job.intent /\ job'.checkpoint = job.checkpoint
            /\ job'.state = "ready_to_deliver" /\ job'.notice = job.notice
        BY <1>1, <3>2 DEF SaveAnswer, Job
      <4> QED BY <2>5, <3>2, <4>2, <4>3 DEF JobMoved, StoreAnswer
    <3> QED BY <2>5, <3>1, <3>2 DEF StoreAnswer
  <2>6. CASE FinishJob(w)
    <3>1. CASE UNCHANGED storeVars
      BY <1>3, <3>1
    <3>2. CASE Finish(agent[w].lease, agent[w].target, Kind # "image_memory")
      <4>1. /\ job'.intent = job.intent /\ job'.checkpoint = job.checkpoint
            /\ job'.answer = job.answer /\ job'.state = agent[w].target
            /\ job'.notice # "delivered" \/ job'.notice = job.notice
            /\ Owns(agent[w].lease)
        BY <1>1, <3>2 DEF Finish, Job, NoticeOwed
      <4>2. /\ job'.state = "delivered" => job.state = "ready_to_deliver"
            /\ job'.state # "ready_to_deliver"
        BY <3>2, <4>1 DEF Finish, FinishTargets
      <4> QED BY <2>6, <4>1, <4>2 DEF JobMoved, FinishJob
    <3> QED BY <2>6, <3>1, <3>2 DEF FinishJob
  <2>7. CASE Overtime(w)
    <3>1. \/ UNCHANGED storeVars
          \/ Finish(agent[w].lease, "failed_retryable", FALSE)
      BY <2>7 DEF Overtime
    <3>2. ASSUME Finish(agent[w].lease, "failed_retryable", FALSE)
          PROVE  JobFields /\ job'.state = "failed_retryable"
      BY <1>1, <3>2 DEF Finish, JobFields, Job
    <3> QED BY <1>2, <1>3, <3>1, <3>2
  <2>8. CASE ReleaseHeldJob(w) \/ Timeout(w)
    BY <1>2, <1>3, <2>8 DEF ReleaseHeldJob, Release, Timeout, ReleaseNotice, JobFields
  <2> QED BY <1>6, <2>1, <2>2, <2>3, <2>4, <2>5, <2>6, <2>7, <2>8 DEF DeliveryStep, QuietStep
<1>7. ASSUME NEW c \in Callbacks, CallBack(c)
      PROVE  JobMoved
  <2>1. ASSUME NEW id \in MessageIds, FailureTakeover(id, TRUE)
        PROVE  JobFields /\ job'.state = "failed"
    BY <1>1, <2>1 DEF FailureTakeover, JobFields, Job, NoticeOwed
  <2> QED BY <1>2, <1>3, <1>7, <2>1 DEF CallBack
<1>8. ASSUME NEW a \in Agents, FailureNoticeStep(a), ~QuietStep
      PROVE  JobMoved
  <2>1. CASE ClaimHeldNotice(a) \/ ReleaseHeldNotice(a)
    BY <1>2, <1>3, <2>1
    DEF ClaimHeldNotice, ClaimNotice, ReleaseHeldNotice, ReleaseNotice, JobFields
  <2>2. CASE SettleNotice(a)
    <3>1. ASSUME \/ CompleteNotice(agent[a].notice) /\ agent[a].pc = "notice_done"
                 \/ FailNotice(agent[a].notice)
          PROVE  JobMoved
      BY <1>1, <3>1 DEF CompleteNotice, FailNotice, JobMoved, Job
    <3> QED BY <1>3, <2>2, <3>1 DEF SettleNotice
  <2> QED BY <1>8, <2>1, <2>2 DEF FailureNoticeStep, QuietStep
<1> QED BY <1>4, <1>5, <1>6, <1>7, <1>8 DEF DeliveryNext, QuietStep, CallbackStep

-----------------------------------------------------------------------------
(* Leases of one fence, and the order of publication.                      *)

\* What acquiring does to the number of attempts.
LEMMA AcquiredFence ==
  ASSUME DeliveryInv, NEW t \in Tokens, Acquire(t)
  PROVE  /\ Exists /\ Exists' /\ lease = None /\ lease' # None
         /\ lease'.fence = job'.attempts /\ job'.attempts = job.attempts + 1
         /\ job.attempts \in Nat
<1>1. job \in Job /\ job.attempts \in Nat /\ job.fence \in Nat /\ FenceCountsAttempts
  BY JobStoreAssumption DEF DeliveryInv, IInv, TypeOK, Job
<1>2. job.state \in ProcessableStates /\ job.state \notin TerminalStates
  BY DEF Acquire, Acquirable, ProcessableStates, TerminalStates
<1>3. job.fence = job.attempts
  BY <1>1, <1>2 DEF FenceCountsAttempts
<1>4. /\ lease' = [token |-> t, fence |-> job.fence + 1] /\ lease = None
      /\ job'.attempts = job.attempts + 1
      /\ job'.state \in WorkingStates
  BY <1>1 DEF Acquire, Acquirable, WorkingStates, Job
<1>5. lease' \in Leases
  BY <1>4, AcquireKeeps, JobStoreAssumption DEF DeliveryInv, IInv, TypeOK, Acquire, Leases
<1> QED BY <1>1, <1>2, <1>3, <1>4, <1>5, JobStoreAssumption
  DEF Exists, ProcessableStates, WorkingStates

\* An invocation gets its lease when it is given the job, and only one does.
LEMMA NewLease ==
  ASSUME DeliveryInv, DeliveryNext
  PROVE  \/ \A a \in Agents : agent'[a].lease = agent[a].lease
         \/ \E w \in Workers, t \in Tokens :
              /\ Acquire(t) /\ agent[w].lease = None /\ agent'[w].lease = lease'
              /\ \A a \in Agents \ {w} : agent'[a] = agent[a]
<1>1. agent \in [Agents -> AgentRecords] /\ Workers \subseteq Agents
  BY TypeIsRecords DEF DeliveryInv, Agents
<1>2. CASE \E w \in Workers : Starts(w)
  <2>1. PICK t \in Tokens : Acquire(t)
    BY <1>2 DEF Starts
  <2>2. lease' \notin {lease, None}
    BY <2>1, AcquiredFence
  <2>3. PICK w \in Workers, s \in Tokens :
          /\ agent[w].pc = "idle" /\ Acquire(s)
          /\ agent' = [agent EXCEPT ![w].pc = "begin", ![w].lease = lease']
    BY <2>2, LeaseFrame
  <2>4. agent'[w].lease = lease' /\ \A a \in Agents \ {w} : agent'[a] = agent[a]
    BY <1>1, <2>3 DEF AgentRecords
  <2>5. agent[w].lease = None
    BY <2>3 DEF DeliveryInv, LeasesAreHeld
  <2> QED BY <2>3, <2>4, <2>5
<1>3. CASE \A w \in Workers : ~Starts(w)
  <2>1. \A a \in Agents : AgentMoved(a)
    BY AgentMoves
  <2>2. ASSUME NEW a \in Callbacks, Begins(a)
        PROVE  agent'[a].lease = agent[a].lease
    <3>1. agent[a].lease = None
      BY DeliveryAssumption DEF DeliveryInv, LeasesAreHeld, Agents
    <3> QED BY <2>2, <3>1 DEF Begins, IdleAgent
  <2>3. \A a \in Agents : Leaves(a) \/ Notifies(a) \/ GoesOn(a) \/ Records(a) \/ TakesUp(a)
          => agent'[a].lease = agent[a].lease
    BY DEF Leaves, Notifies, GoesOn, Records, TakesUp, Remains, Same
  <2>4. \A a \in Agents : agent'[a].lease = agent[a].lease
    BY <1>3, <2>1, <2>2, <2>3 DEF AgentMoved, Works
  <2> QED BY <2>4
<1> QED BY <1>2, <1>3

\* The job is created before anything else happens.
LEMMA Creation ==
  ASSUME DeliveryInv, DeliveryNext, Exists', ~Exists
  PROVE  /\ CreateJob /\ webhook = "new" /\ job' = EmptyJob("received")
         /\ agent' = agent /\ wire' = {} /\ wire = {}
         /\ chat = [m \in Messages |-> None] /\ chat' = chat
         /\ history = chat /\ history' = chat /\ purger = "idle" /\ purger' = purger
         /\ \A a \in Agents : agent[a].pc = "idle"
         /\ \A w \in Workers : agent[w].step = 1 /\ agent[w].lease = None
<1>1. CreateJob
  BY ExistenceStep
<1>2. webhook = "new"
  BY <1>1 DEF CreateJob
<1> QED BY <1>1, <1>2 DEF CreateJob, Create, DeliveryInv, NothingBeforePublication,
  StepsInOrder, LeasesAreHeld, Agents

\* No step gives two invocations one fence.
LEMMA LeasesAreDistinctStep ==
  ASSUME DeliveryInv, DeliveryNext
  PROVE  LeasesAreDistinct'
<1>1. /\ \A w \in Workers : agent[w].lease # None /\ Exists =>
           agent[w].lease.fence \in 1..job.attempts
      /\ \A v, w \in Workers :
           agent[v].lease # None /\ agent[w].lease # None
             /\ agent[v].lease.fence = agent[w].lease.fence => v = w
  BY DEF DeliveryInv, LeasesAreDistinct
<1>2. /\ Workers \subseteq Agents
      /\ Exists /\ Exists' => job'.attempts >= job.attempts
      /\ Exists => job.attempts \in Nat
      /\ Exists' => job'.attempts \in Nat
  BY StoreFrame, JobStoreAssumption DEF Agents, IInv, TypeOK, Job
<1>3. CASE \A a \in Agents : agent'[a].lease = agent[a].lease
  <2>1. ~Exists /\ Exists' => \A w \in Workers : agent'[w].lease = None
    BY <1>2, <1>3, Creation
  <2> QED BY <1>1, <1>2, <1>3, <2>1 DEF LeasesAreDistinct
<1>4. ASSUME NEW w \in Workers, NEW t \in Tokens,
             Acquire(t), agent[w].lease = None, agent'[w].lease = lease',
             \A a \in Agents \ {w} : agent'[a] = agent[a]
      PROVE  LeasesAreDistinct'
  BY <1>1, <1>2, <1>4, AcquiredFence DEF LeasesAreDistinct
<1> QED BY <1>3, <1>4, NewLease

\* Nothing gets ahead of the webhook's publication.
LEMMA NothingBeforePublicationStep ==
  ASSUME DeliveryInv, DeliveryNext
  PROVE  NothingBeforePublication'
<1>1. /\ webhook = "new" => purger = "idle" /\ ~Exists
      /\ webhook \in {"new", "created"} =>
           /\ wire = {} /\ chat = [m \in Messages |-> None] /\ history = chat
           /\ \A a \in Agents : agent[a].pc = "idle"
      /\ webhook # "new" => (Exists <=> purger \in {"idle", "marked"})
      /\ webhook \in {"new", "created", "published", "recorded"}
  BY DEF DeliveryInv, NothingBeforePublication, DeliveryTypeOK
<1>2. WorldMoved
  BY WorldMoves
<1>3. ASSUME webhook \in {"new", "created"}
      PROVE  \/ CreateJob \/ PublishJob \/ Lobotomy \/ MarkPurged \/ ErasePurged \/ CleanPurged
             \/ LapseLease \/ LapseNoticeLease
  <2>1. ~RecordJob /\ \A r \in wire : ~Land(r)
    BY <1>1, <1>3 DEF RecordJob
  <2>2. \A w \in Workers : agent[w].pc = "idle" /\ agent[w].lease = None
    BY <1>1, <1>3 DEF DeliveryInv, LeasesAreHeld, Agents
  <2>3. \A w \in Workers : ~DeliveryStep(w) /\ ~Timeout(w)
    <3> SUFFICES ASSUME NEW w \in Workers PROVE ~DeliveryStep(w) /\ ~Timeout(w)
      OBVIOUS
    <3>1. ~Deliver(w) /\ ~ReadAnswer(w)
      BY <1>3, <2>2, ReadMoves DEF Deliver
    <3>2. /\ ~Begin(w) /\ ~AnalyzeImage(w) /\ ~PrepareStep(w) /\ ~CallTelegram(w)
          /\ ~SendRequest(w) /\ ~AwaitTelegram(w) /\ ~ClearStep(w) /\ ~RecordStep(w)
          /\ ~LogStep(w) /\ ~UpsertStep(w) /\ ~WriteRecord(w) /\ ~RecheckStep(w)
      BY <2>2 DEF Begin, AnalyzeImage, PrepareStep, CallTelegram, SendRequest, AwaitTelegram,
         ClearStep, RecordStep, LogStep, UpsertStep, WriteRecord, RecheckStep
    <3>3. /\ ~UnlogStep(w) /\ ~Generate(w) /\ ~StoreAnswer(w) /\ ~FinishJob(w)
          /\ ~LoseJob(w) /\ ~Overtime(w) /\ ~ReleaseHeldJob(w) /\ ~Timeout(w)
      BY <2>2 DEF UnlogStep, Generate, StoreAnswer, FinishJob, LoseJob, Overtime,
         ReleaseHeldJob, Timeout
    <3> QED BY <3>1, <3>2, <3>3 DEF DeliveryStep
  <2>4. \A c \in Callbacks : ~CallbackStep(c)
    <3>1. \E w \in Workers : agent[w].pc = "idle"
      BY <2>2, DeliveryAssumption
    <3> QED BY <1>1, <1>3, <3>1 DEF CallbackStep, CallBack, Redeliver, Agents
  <2>5. \A a \in Agents : ~FailureNoticeStep(a) /\ ~StoreFault(a) /\ ~Crash(a)
    <3> SUFFICES ASSUME NEW a \in Agents
                 PROVE  ~FailureNoticeStep(a) /\ ~StoreFault(a) /\ ~Crash(a)
      OBVIOUS
    <3>1. agent[a].pc = "idle"
      BY <1>1, <1>3
    <3>2. /\ ~ClaimHeldNotice(a) /\ ~GuardNotice(a) /\ ~SendNotice(a) /\ ~AwaitNotice(a)
          /\ ~LogNotice(a) /\ ~WriteNotice(a) /\ ~SettleNotice(a) /\ ~ReleaseHeldNotice(a)
      BY <3>1 DEF ClaimHeldNotice, GuardNotice, SendNotice, AwaitNotice, LogNotice, WriteNotice,
         SettleNotice, ReleaseHeldNotice
    <3>3. ~StoreFault(a) /\ ~Crash(a)
      BY <3>1 DEF StoreFault, StorePcs, Crash
    <3> QED BY <3>2, <3>3 DEF FailureNoticeStep
  <2> QED BY <2>1, <2>3, <2>4, <2>5 DEF DeliveryNext
<1>4. webhook' = webhook \/ CreateJob \/ PublishJob \/ RecordJob
  BY <1>2 DEF WorldMoved
<1>5. webhook' \in {"new", "created"} => webhook \in {"new", "created"}
  BY <1>1, <1>4 DEF CreateJob, PublishJob, RecordJob
<1>6. webhook' \in {"new", "created"} =>
        /\ wire' = wire /\ chat' = chat /\ agent' = agent
        /\ history' = history \/ CleanPurged
  BY <1>3, <1>5 DEF CreateJob, PublishJob, Lobotomy, MarkPurged, ErasePurged, CleanPurged,
     LapseLease, LapseNoticeLease, worldVars
<1>7. webhook' \in {"new", "created"} =>
        /\ wire' = {} /\ chat' = [m \in Messages |-> None] /\ history' = chat'
        /\ \A a \in Agents : agent'[a].pc = "idle"
  <2>1. history = [m \in Messages |-> None] /\ CleanPurged =>
          history' = [m \in Messages |-> None]
    BY DEF CleanPurged
  <2> QED BY <1>1, <1>5, <1>6, <2>1
<1>8. webhook' = "new" => purger' = "idle" /\ ~Exists'
  <2> SUFFICES ASSUME webhook' = "new" PROVE purger' = "idle" /\ ~Exists'
    OBVIOUS
  <2>1. webhook = "new" /\ ~CreateJob
    BY <1>1, <1>4 DEF CreateJob, PublishJob, RecordJob
  <2> QED BY <1>1, <1>2, <2>1, ExistenceStep DEF WorldMoved, MarkPurged, ErasePurged, CleanPurged
<1>9. webhook' # "new" => (Exists' <=> purger' \in {"idle", "marked"})
  <2> SUFFICES ASSUME webhook' # "new" PROVE Exists' <=> purger' \in {"idle", "marked"}
    OBVIOUS
  <2>1. CASE webhook = "new"
    <3>1. CreateJob
      BY <1>4, <2>1 DEF PublishJob, RecordJob
    <3> QED BY <1>1, <2>1, <3>1, EmptyJobIsFine DEF CreateJob, Create, Exists
  <2>2. CASE webhook # "new"
    <3>1. Exists' => Exists
      BY <2>2, StoreFrame
    <3>2. CASE ErasePurged
      BY <3>2, EmptyJobIsFine DEF ErasePurged, Purge, Exists, QuietStore, storeVars
    <3>3. CASE ~ErasePurged
      <4>1. Exists' <=> Exists
        BY <3>1, <3>3, ExistenceStep
      <4>2. purger' \in {"idle", "marked"} <=> purger \in {"idle", "marked"}
        BY <1>2, <3>3 DEF WorldMoved, MarkPurged, CleanPurged
      <4> QED BY <1>1, <2>2, <4>1, <4>2
    <3> QED BY <3>2, <3>3
  <2> QED BY <2>1, <2>2
<1> QED BY <1>7, <1>8, <1>9 DEF NothingBeforePublication

-----------------------------------------------------------------------------
(* What an invocation is at, and what it has said.                         *)

\* A message that is in the chat stays there, and the placeholder comes first.
LEMMA ChatFrame ==
  ASSUME DeliveryInv, DeliveryNext, NEW m \in Messages
  PROVE  /\ chat[m] # None => chat'[m] # None
         /\ chat[m] \in Answers \cup {"notice"} => chat'[m] \in Answers \cup {"notice"}
         /\ chat[m] # None /\ chat[m] # "placeholder" => chat'[m] # "placeholder"
         /\ m[1] # Placeholder => chat'[m] \in {None} \cup Answers
         /\ chat'[m] # chat[m] =>
              \E r \in wire : Land(r) /\ r.message = m /\ chat'[m] = r.text
<1>1. /\ chat \in [Messages -> Texts \cup {None}] /\ wire \subseteq Requests
      /\ WireIsOrderly /\ ChatIsOrderly
  BY DEF DeliveryInv, DeliveryTypeOK
<1>2. CASE chat' = chat
  BY <1>1, <1>2 DEF ChatIsOrderly
<1>3. ASSUME NEW r \in wire, Land(r)
      PROVE  /\ chat[m] # None => chat'[m] # None
             /\ chat[m] \in Answers \cup {"notice"} => chat'[m] \in Answers \cup {"notice"}
             /\ chat[m] # None /\ chat[m] # "placeholder" => chat'[m] # "placeholder"
             /\ m[1] # Placeholder => chat'[m] \in {None} \cup Answers
             /\ chat'[m] # chat[m] => r.message = m /\ chat'[m] = r.text
  <2>1. r.message \in Messages /\ r.text \in Texts
    BY <1>1 DEF Requests
  <2>2. chat'[m] = IF r.message = m THEN r.text ELSE chat[m]
    BY <1>1, <1>3, <2>1 DEF Land
  <2>3. /\ r.text = "placeholder" => chat[r.message] = None
        /\ r.message[1] # Placeholder => r.text \in Answers
    BY <1>1 DEF WireIsOrderly
  <2> QED BY <1>1, <2>1, <2>2, <2>3, TextKinds DEF ChatIsOrderly
<1> QED BY <1>2, <1>3, WorldMoves DEF WorldMoved

\* Every step keeps what an invocation says in line with where it is.
LEMMA StepsInOrderStep ==
  ASSUME DeliveryInv, DeliveryNext
  PROVE  StepsInOrder'
<1> SUFFICES ASSUME NEW w \in Workers
    PROVE
    /\ agent'[w].step \in 1..scenario.steps
    /\ agent'[w].text \in Payloads
    /\ agent'[w].pc \in {"idle", "begin", "image"} \cup AnswerPcs => agent'[w].step = 1
    /\ agent'[w].step > 1 \/ agent'[w].pc = "save" => agent'[w].text \in Answers
    /\ agent'[w].step = 1 /\ agent'[w].pc \in ({"idle", "unlog"} \cup HoldingPcs) \ {"save"} =>
         agent'[w].text = "placeholder"
    /\ agent'[w].pc = "clear" =>
         Steps[agent'[w].step] # Edit /\ agent'[w].target \in {"failed_retryable", "failed"}
    /\ agent'[w].step > 1 \/ agent'[w].pc \in LogPcs \cup AnswerPcs =>
         agent'[w].message # None
  BY WorldMoves DEF WorldMoved, StepsInOrder, Name
<1>1. /\ agent[w].step \in 1..scenario.steps
      /\ agent[w].text \in Payloads
      /\ agent[w].pc \in {"idle", "begin", "image"} \cup AnswerPcs => agent[w].step = 1
      /\ agent[w].step > 1 \/ agent[w].pc = "save" => agent[w].text \in Answers
      /\ agent[w].step = 1 /\ agent[w].pc \in ({"idle", "unlog"} \cup HoldingPcs) \ {"save"} =>
           agent[w].text = "placeholder"
      /\ agent[w].pc = "clear" =>
           Steps[agent[w].step] # Edit /\ agent[w].target \in {"failed_retryable", "failed"}
      /\ agent[w].step > 1 \/ agent[w].pc \in LogPcs \cup AnswerPcs => agent[w].message # None
  BY DEF DeliveryInv, StepsInOrder, Name
<1>2. /\ scenario.steps \in 2..Len(Steps) /\ Len(Steps) \in Nat
      /\ Answers \subseteq Payloads /\ agent[w].step \in Nat
  BY <1>1, StepNames, TextKinds, DeliveryAssumption DEF DeliveryInv, DeliveryTypeOK, AllScenarios
<1>3. AgentMoved(w) /\ w \in Agents /\ w \notin Callbacks
  BY AgentMoves, DeliveryAssumption DEF Agents
<1> USE DEF LogPcs, AnswerPcs, HoldingPcs
<1>4. CASE agent'[w] = agent[w]
  BY <1>1, <1>4
<1>5. CASE Leaves(w)
  BY <1>1, <1>5 DEF Leaves, Remains, Same
<1>6. CASE Notifies(w)
  <2>1. agent[w].pc = "claim" /\ agent[w].step > 1 => agent'[w].message # None
    <3>1. agent[w].pc = "claim" /\ job.notice = "pending" => job.placeholder # None
      BY DEF DeliveryInv, IInv, NoticeIsOwedByFailure
    <3> QED BY <1>1, <1>6, <3>1 DEF Notifies, Shift
  <2> QED BY <1>1, <1>6, <2>1 DEF Notifies, Same, Shift
<1>7. CASE Starts(w)
  BY <1>1, <1>7 DEF Starts, Shift
<1>8. CASE GoesOn(w)
  BY <1>1, <1>8 DEF GoesOn, Remains, Same, Shift, Name
<1>9. CASE Records(w)
  <2>1. agent'[w].message # None
    BY <1>9, WorkerArguments, TextKinds, JobStoreAssumption DEF Records, IntentStatus
  <2> QED BY <1>1, <1>9, <2>1 DEF Records, Same, Shift
<1>10. CASE TakesUp(w)
  <2>1. Shift(w, "save", "prepare") /\ SaveAnswer(agent[w].lease, agent[w].text)
          => job'.answer \in Answers
    BY <1>1, TextKinds DEF SaveAnswer, Shift, DeliveryInv, IInv, TypeOK, Job
  <2>2. CASE Shift(w, "recheck", "prepare")
    <3>1. agent[w].step \in 2..(scenario.steps - 1) /\ agent'[w].step = agent[w].step + 1
      BY <1>10, <2>2 DEF TakesUp, Shift
    <3>2. agent'[w].step \in 2..scenario.steps
      BY <1>2, <3>1
    <3>3. agent[w].step > 1 /\ agent'[w].step # 1
      BY <1>2, <3>1, <3>2
    <3> QED BY <1>1, <1>10, <2>2, <3>1, <3>2, <3>3 DEF TakesUp, Shift
  <2>3. CASE Shift(w, "read", "save") \/ Shift(w, "generate", "save")
    BY <1>1, <1>2, <1>10, <2>3 DEF TakesUp, Shift
  <2>4. CASE Shift(w, "save", "prepare")
    BY <1>1, <1>2, <1>10, <2>1, <2>4 DEF TakesUp, Shift
  <2> QED BY <1>10, <2>2, <2>3, <2>4 DEF TakesUp
<1> QED BY <1>3, <1>4, <1>5, <1>6, <1>7, <1>8, <1>9, <1>10 DEF AgentMoved, Works

\* A job that does not exist stays as it is, until it is created.
LEMMA AbsentStays ==
  ASSUME DeliveryInv, [DeliveryNext]_vars, ~Exists, ~Exists'
  PROVE  job' = job
<1>1. job \in Job /\ [Next]_storeVars
  BY StoreStep DEF DeliveryInv, IInv, TypeOK
<1>2. job.state = "absent" /\ ~Live
  BY DEF Exists, Live
<1>3. CASE \/ \E l \in issued : NoticeStep(l)
           \/ \E t \in Tokens : Acquire(t) \/ ClaimNotice(t)
  BY <1>2, <1>3 DEF NoticeStep, CompleteNotice, FailNotice, ReleaseNotice, OwnsNotice, Acquire,
     Acquirable, ClaimNotice, ProcessableStates
<1>4. CASE \E l \in issued : OwnerStep(l)
  <2>1. \A l : ~Owns(l)
    BY <1>2 DEF Owns
  <2>2. \A l, n, p : ~PrepareIntent(l, n, p)
    BY <2>1 DEF PrepareIntent, IntentStatus
  <2>3. \A l, n, r, p, wanted :
          /\ ~Renew(l) /\ ~Checkpoint(l, n, r) /\ ~ClearIntent(l, n)
          /\ ~SaveAnswer(l, r) /\ ~Finish(l, p, wanted)
    BY <2>1 DEF Renew, Checkpoint, ClearIntent, SaveAnswer, Finish
  <2>4. PICK l \in issued : Release(l)
    BY <1>4, <2>2, <2>3 DEF OwnerStep
  <2> QED BY <2>4 DEF Release
<1>5. ~Create
  BY EmptyJobIsFine DEF Create, Exists
<1>6. \A id, wanted : /\ ~RecordPublication(id) /\ ~FailureTakeover(id, wanted)
                      /\ ~Purge /\ ~ExpireJob
  BY <1>2 DEF RecordPublication, FailureTakeover, Purge, ExpireJob
<1>7. CASE ExpireLease \/ ExpireNoticeLease \/ UNCHANGED storeVars
  BY <1>7 DEF ExpireLease, ExpireNoticeLease, storeVars
<1> QED BY <1>1, <1>3, <1>4, <1>5, <1>6, <1>7 DEF Next

\* The job failed before its notice was thought of, and has not recovered.
LEMMA FailureStays ==
  ASSUME DeliveryInv, DeliveryNext, JobFailed,
         \/ \E a \in Agents : agent[a].pc # "idle"
         \/ \E m \in Messages : chat[m] # None \/ history[m] # None
         \/ wire # {}
  PROVE  JobFailed'
<1>1. webhook # "new"
  BY DEF DeliveryInv, NothingBeforePublication
<1> QED BY <1>1, StoreFrame

\* How the record of a message changes.
LEMMA HistoryFrame ==
  ASSUME DeliveryInv, DeliveryNext, NEW m \in Messages, history'[m] # history[m]
  PROVE  \/ \E w \in Workers :
              /\ agent[w].pc = "write" /\ agent[w].message = m
              /\ history'[m] = agent[w].text /\ purger = "idle"
              /\ ~(Version(agent[w].text) < Version(history[m]))
         \/ \E w \in Workers :
              agent[w].pc = "unlog" /\ agent[w].message = m /\ history'[m] = None
         \/ \E a \in Agents :
              /\ agent[a].pc = "notice_write" /\ agent[a].message = m
              /\ history'[m] = "notice" /\ purger = "idle"
         \/ CleanPurged /\ m \in receipts /\ history'[m] = None
<1>1. history \in [Messages -> Texts \cup {None}] /\ HistoryMoved
  BY WorldMoves DEF DeliveryInv, DeliveryTypeOK, WorldMoved
<1>2. \A k, text : Upsert(k, text) =>
        /\ k = m /\ history'[m] = text /\ purger = "idle"
        /\ ~(Version(text) < Version(history[m]))
  BY <1>1 DEF Upsert
<1>3. \A k : history' = [history EXCEPT ![k] = None] => k = m /\ history'[m] = None
  BY <1>1
<1>4. CleanPurged => m \in receipts /\ history'[m] = None
  BY DEF CleanPurged
<1> QED BY <1>1, <1>2, <1>3, <1>4 DEF HistoryMoved

\* What an invocation remembers as a message stays in the chat.
LEMMA MessagesAreShownStep ==
  ASSUME DeliveryInv, DeliveryNext
  PROVE  MessagesAreShown'
<1> SUFFICES ASSUME NEW a \in Agents
    PROVE  /\ agent'[a].message # None =>
                /\ chat'[agent'[a].message] # None
                /\ a \in Callbacks \/ agent'[a].step <= 2 =>
                     agent'[a].message[1] = Placeholder
           /\ agent'[a].pc \in NoticePcs =>
                agent'[a].message # None /\ agent'[a].message[1] = Placeholder
  BY DEF MessagesAreShown
<1>1. /\ agent[a].message # None =>
           /\ chat[agent[a].message] # None
           /\ a \in Callbacks \/ agent[a].step <= 2 => agent[a].message[1] = Placeholder
      /\ agent[a].pc \in NoticePcs =>
           agent[a].message # None /\ agent[a].message[1] = Placeholder
  BY DEF DeliveryInv, MessagesAreShown
<1>2. /\ agent[a].message \in Messages \cup {None} /\ agent[a].step \in Nat
      /\ AgentMoved(a) /\ Workers \cap Callbacks = {}
  BY TypeIsRecords, AgentMoves, StepNames, DeliveryAssumption DEF DeliveryInv, AgentRecords
<1>3. \A m \in Messages : chat[m] # None => chat'[m] # None
  BY ChatFrame
<1>4. /\ \A n \in Sends : job.checkpoint[n] # None =>
           /\ job.checkpoint[n] \in Messages
           /\ job.checkpoint[n][1] = n
           /\ chat[job.checkpoint[n]] # None
      /\ job.checkpoint[Edit] # None => job.checkpoint[Edit] = job.checkpoint[Placeholder]
      /\ job.placeholder = job.checkpoint[Placeholder]
      /\ job.notice # "none" => job.placeholder # None
  BY DEF DeliveryInv, CheckpointsAreShown, IInv, PlaceholderIsCheckpointed, NoticeIsOwedByFailure
<1>5. CASE agent'[a] = agent[a] \/ Leaves(a)
  BY <1>1, <1>2, <1>3, <1>5 DEF Leaves, Remains, Same, NoticePcs
<1>6. CASE Notifies(a)
  BY <1>1, <1>2, <1>3, <1>4, <1>6, StepNames DEF Notifies, Same, Shift, NoticePcs
<1>7. CASE a \in Workers /\ (Starts(a) \/ GoesOn(a))
  BY <1>1, <1>2, <1>3, <1>7 DEF Starts, GoesOn, Remains, Same, Shift, NoticePcs
<1>8. CASE a \in Workers /\ TakesUp(a)
  <2>1. agent[a].pc \in AnswerPcs => agent[a].step = 1
    BY <1>8 DEF DeliveryInv, StepsInOrder
  <2>2. CASE Shift(a, "recheck", "prepare")
    <3>1. agent'[a].message = agent[a].message /\ ~(agent'[a].step <= 2)
      BY <1>2, <1>8, <2>2 DEF TakesUp, Shift
    <3> QED BY <1>1, <1>2, <1>3, <1>8, <2>2, <3>1 DEF Shift, NoticePcs
  <2>3. CASE ~Shift(a, "recheck", "prepare")
    BY <1>1, <1>2, <1>3, <1>8, <2>1, <2>3 DEF TakesUp, Shift, NoticePcs, AnswerPcs
  <2> QED BY <2>2, <2>3
<1>9. CASE a \in Workers /\ Records(a)
  <2>1. /\ Name(a) \in Names /\ (Name(a) = Edit => agent[a].step = 2)
        /\ Name(a) # Edit => ResultOf(a) = <<Name(a), a>> /\ Name(a) \in Sends
        /\ Name(a) = Edit => ResultOf(a) = agent[a].message
        /\ ResultOf(a) \in Messages
        /\ agent[a].step <= 2 => Name(a) \in {Placeholder, Edit}
        /\ agent[a].step > 1 => agent[a].message # None
    <3>1. agent[a].step <= 2 => Name(a) \in {Placeholder, Edit}
      <4>1. agent[a].step \in 1..Len(Steps)
        BY TypeIsRecords DEF DeliveryInv, AgentRecords
      <4>2. agent[a].step <= 2 => agent[a].step \in {1, 2}
        BY <4>1, StepNames
      <4> QED BY <4>2, StepNames DEF Name
    <3> QED BY <1>9, <3>1, WorkerArguments, TextKinds DEF DeliveryInv, StepsInOrder
  <2>2. agent'[a].step = agent[a].step /\ agent'[a].pc = "log"
    BY <1>9 DEF Records, Same, Shift
  <2>3. CASE agent'[a].message = job.checkpoint[Name(a)] /\ agent'[a].message # None
    BY <1>2, <1>3, <1>4, <1>9, <2>1, <2>2, <2>3, StepNames DEF NoticePcs
  <2>4. CASE agent[a].pc = "record" /\ agent'[a].message = ResultOf(a)
    <3>1. chat[ResultOf(a)] # None
      BY <1>9, <2>4 DEF DeliveryInv, AnsweredIsLanded, Landed
    <3>2. agent[a].step <= 2 => ResultOf(a)[1] = Placeholder
      <4>1. CASE Name(a) = Edit
        BY <1>1, <1>2, <2>1, <4>1
      <4>2. CASE Name(a) # Edit
        BY <2>1, <4>2
      <4> QED BY <4>1, <4>2
    <3> QED BY <1>2, <1>3, <1>9, <2>1, <2>2, <2>4, <3>1, <3>2 DEF NoticePcs
  <2>5. agent[a].pc = "prepare" /\ agent'[a].message = job.checkpoint[Name(a)]
          => agent'[a].message # None \/ ~Records(a)
    BY JobStoreAssumption DEF Records, IntentStatus, Shift
  <2> QED BY <1>9, <2>3, <2>4, <2>5 DEF Records, Shift
<1>10. CASE a \in Callbacks /\ Begins(a)
  BY <1>10 DEF Begins, IdleAgent, NoticePcs
<1> QED BY <1>2, <1>5, <1>6, <1>7, <1>8, <1>9, <1>10 DEF AgentMoved, Works

\* No step lets a notice appear for a job that has not failed.
LEMMA NoticesAreOfFailedJobsStep ==
  ASSUME DeliveryInv, DeliveryNext
  PROVE  NoticesAreOfFailedJobs'
<1>1. /\ \A a \in Agents : agent[a].pc \in NoticePcs \cup {"claim"} => JobFailed
      /\ \A m \in Messages : chat[m] = "notice" \/ history[m] = "notice" =>
           JobFailed /\ m[1] = Placeholder
      /\ \A r \in wire : r.text = "notice" => JobFailed
  BY DEF DeliveryInv, NoticesAreOfFailedJobs
<1>2. ASSUME NEW a \in Agents, agent'[a].pc \in NoticePcs \cup {"claim"}
      PROVE  JobFailed'
  <2>1. AgentMoved(a)
    BY AgentMoves
  <2>2. CASE agent'[a] = agent[a] \/ Notifies(a)
    <3>1. agent[a].pc \in NoticePcs \cup {"claim"} /\ agent[a].pc # "idle"
      BY <1>2, <2>2 DEF Notifies, Shift, NoticePcs
    <3> QED BY <1>1, <3>1, FailureStays
  <2>3. CASE Leaves(a)
    BY <1>2, <2>3 DEF Leaves, NoticePcs
  <2>4. CASE Works(a)
    BY <1>2, <2>4 DEF Works, Starts, GoesOn, Records, TakesUp, Shift, NoticePcs
  <2>5. CASE Begins(a)
    BY <1>2, <2>5 DEF Begins, IdleAgent, NoticePcs
  <2> QED BY <2>1, <2>2, <2>3, <2>4, <2>5 DEF AgentMoved
<1>3. ASSUME NEW m \in Messages, chat'[m] = "notice"
      PROVE  JobFailed' /\ m[1] = Placeholder
  <2>1. m[1] = Placeholder
    BY <1>3, ChatFrame, TextKinds
  <2>2. CASE chat[m] = "notice"
    BY <1>1, <2>1, <2>2, FailureStays, TextKinds
  <2>3. CASE chat[m] # "notice"
    <3>1. PICK r \in wire : chat'[m] = r.text
      BY <1>3, <2>3, ChatFrame
    <3> QED BY <1>1, <1>3, <2>1, <3>1, FailureStays
  <2> QED BY <2>2, <2>3
<1>4. ASSUME NEW m \in Messages, history'[m] = "notice"
      PROVE  JobFailed' /\ m[1] = Placeholder
  <2>1. CASE history[m] = "notice"
    BY <1>1, <2>1, FailureStays, TextKinds
  <2>2. CASE history[m] # "notice"
    <3>1. \A w \in Workers : agent[w].text # "notice"
      BY TextKinds DEF DeliveryInv, StepsInOrder
    <3>2. PICK a \in Agents : agent[a].pc = "notice_write" /\ agent[a].message = m
      BY <1>4, <2>2, <3>1, HistoryFrame, TextKinds
    <3>3. JobFailed /\ m[1] = Placeholder
      BY <1>1, <3>2 DEF NoticePcs, DeliveryInv, MessagesAreShown
    <3> QED BY <3>2, <3>3, FailureStays
  <2> QED BY <2>1, <2>2
<1>5. ASSUME NEW r \in wire', r.text = "notice"
      PROVE  JobFailed'
  <2>1. CASE r \in wire
    BY <1>1, <1>5, <2>1, FailureStays
  <2>2. CASE \E w \in Workers : r = Request(w)
    BY <1>5, <2>2, TextKinds DEF Request, DeliveryInv, StepsInOrder
  <2>3. CASE \E a \in Agents : agent[a].pc = "notice_send"
    <3>1. JobFailed /\ \E a \in Agents : agent[a].pc # "idle"
      BY <1>1, <2>3 DEF NoticePcs
    <3> QED BY <3>1, FailureStays
  <2> QED BY <2>1, <2>2, <2>3, WorldMoves DEF WorldMoved, WireMoved, Shift
<1> QED BY <1>2, <1>3, <1>4, <1>5 DEF NoticesAreOfFailedJobs, JobFailed

-----------------------------------------------------------------------------
(* The wire.                                                               *)

\* An invocation about to send has not sent this message before.
LEMMA NotSentYet ==
  ASSUME DeliveryInv, NEW w \in Workers, agent[w].pc = "send", Name(w) # Edit
  PROVE  /\ Name(w) \in Sends /\ <<Name(w), w>> \in Messages
         /\ chat[<<Name(w), w>>] = None /\ w \notin Posted(Name(w))
<1>1. agent[w].step \in 1..Len(Steps) /\ Len(Steps) \in Nat
  BY TypeIsRecords, StepNames DEF DeliveryInv, AgentRecords, Agents
<1>2. agent[w].step # 2 /\ Name(w) \in Sends
  BY <1>1, StepNames DEF Name
<1>3. w \notin Posted(Name(w))
  BY <1>1, <1>2 DEF DeliveryInv, PostedInOrder, UnsentPcs, Name
<1> QED BY <1>2, <1>3, TextKinds DEF Posted

\* What an invocation's next request will be, at each step.
LEMMA RequestKinds ==
  ASSUME DeliveryInv, NEW w \in Workers, agent[w].pc \in {"send", "await"}
  PROVE  /\ Request(w).from = w /\ Request(w).message = ResultOf(w)
         /\ Request(w).text = agent[w].text
         /\ Name(w) = Placeholder => ResultOf(w) = <<Placeholder, w>>
                                     /\ agent[w].text = "placeholder"
         /\ Name(w) # Placeholder => agent[w].text \in Answers
         /\ Name(w) = Edit => /\ ResultOf(w) \in Messages
                              /\ ResultOf(w) = agent[w].message
                              /\ ResultOf(w)[1] = Placeholder
                              /\ chat[ResultOf(w)] # None
         /\ Name(w) # Edit => /\ ResultOf(w) = <<Name(w), w>> /\ Name(w) \in Sends
                              /\ ResultOf(w)[1] = Name(w) /\ ResultOf(w)[2] = w
<1>1. agent[w].step \in 1..Len(Steps) /\ Len(Steps) \in Nat /\ w \in Agents
  BY TypeIsRecords, StepNames DEF DeliveryInv, AgentRecords, Agents
<1>2. Name(w) = Placeholder <=> agent[w].step = 1
  BY <1>1, StepNames DEF Name
<1>3. /\ agent[w].step = 1 => agent[w].text = "placeholder"
      /\ agent[w].step > 1 => agent[w].text \in Answers /\ agent[w].message # None
  BY DEF DeliveryInv, StepsInOrder, HoldingPcs
<1>4. /\ Name(w) # Edit => ResultOf(w) = <<Name(w), w>> /\ Name(w) \in Sends
      /\ Name(w) = Edit => ResultOf(w) = agent[w].message /\ agent[w].step = 2
      /\ ResultOf(w) \in Messages
  BY WorkerArguments, TextKinds
<1>5. Name(w) # Edit => ResultOf(w)[1] = Name(w) /\ ResultOf(w)[2] = w
  BY <1>4
<1>6. Name(w) = Edit => agent[w].message[1] = Placeholder /\ chat[agent[w].message] # None
  BY <1>1, <1>3, <1>4 DEF DeliveryInv, MessagesAreShown
<1> QED BY <1>1, <1>2, <1>3, <1>4, <1>5, <1>6, StepNames DEF Request

\* Requests are told apart by sender, message and text.
LEMMA SameRequest ==
  ASSUME DeliveryInv, NEW q \in wire, NEW r \in wire,
         q.from = r.from, q.message = r.message, q.text = r.text
  PROVE  q = r
BY DEF DeliveryInv, DeliveryTypeOK, Requests

\* No step puts a request on the wire that is out of place there.
LEMMA WireIsOrderlyStep ==
  ASSUME DeliveryInv, DeliveryNext
  PROVE  WireIsOrderly'
<1> SUFFICES ASSUME NEW r \in wire'
    PROVE /\ r.text = "placeholder" =>
               r.message = <<Placeholder, r.from>> /\ chat'[r.message] = None
          /\ r.text # "placeholder" /\ r.message[1] = Placeholder => chat'[r.message] # None
          /\ r.message[1] # Placeholder =>
               r.text \in Answers /\ r.message[2] = r.from /\ chat'[r.message] = None
  BY DEF WireIsOrderly
<1>1. \A q \in wire :
        /\ q.text = "placeholder" =>
             q.message = <<Placeholder, q.from>> /\ chat[q.message] = None
        /\ q.text # "placeholder" /\ q.message[1] = Placeholder => chat[q.message] # None
        /\ q.message[1] # Placeholder =>
             q.text \in Answers /\ q.message[2] = q.from /\ chat[q.message] = None
        /\ q.message \in Messages /\ q.from \in Agents
  BY DEF DeliveryInv, WireIsOrderly, DeliveryTypeOK, Requests
<1>2. CASE r \in wire
  <2>1. chat[r.message] # None => chat'[r.message] # None
    BY <1>1, <1>2, ChatFrame
  <2>2. ASSUME chat'[r.message] # chat[r.message],
               r.text = "placeholder" \/ r.message[1] # Placeholder
        PROVE  FALSE
    <3>1. PICK q \in wire : Land(q) /\ q.message = r.message
      BY <1>1, <1>2, <2>2, ChatFrame
    <3>2. q # r
      BY <3>1 DEF Land
    <3>3. q.from = r.from /\ q.text = r.text
      <4>1. CASE r.text = "placeholder"
        <5>1. r.message = <<Placeholder, r.from>> /\ chat[r.message] = None
          BY <1>1, <1>2, <4>1
        <5>2. r.message[1] = Placeholder
          BY <5>1
        <5>3. q.text = "placeholder" /\ q.message = <<Placeholder, q.from>>
          BY <1>1, <3>1, <5>1, <5>2
        <5> QED BY <3>1, <4>1, <5>1, <5>3
      <4>2. CASE r.message[1] # Placeholder
        <5>1. /\ q.text \in Answers /\ r.text \in Answers
              /\ q.message[2] = q.from /\ r.message[2] = r.from
          BY <1>1, <1>2, <3>1, <4>2
        <5>2. q.text \in Said /\ r.text \in Said
          BY <1>2 DEF Said
        <5> QED BY <3>1, <5>1, <5>2 DEF DeliveryInv, AnswersAgree
      <4> QED BY <2>2, <4>1, <4>2
    <3> QED BY <1>2, <3>1, <3>2, <3>3, SameRequest
  <2> QED BY <1>1, <1>2, <2>1, <2>2
<1>3. CASE r \notin wire
  <2>1. \A q \in wire : ~Land(q)
    BY <1>3 DEF Land
  <2>2. chat' = chat
    BY <2>1, WorldMoves DEF WorldMoved
  <2>3. ASSUME NEW w \in Workers, agent[w].pc = "send", r = Request(w)
        PROVE  /\ r.text = "placeholder" =>
                    r.message = <<Placeholder, r.from>> /\ chat[r.message] = None
               /\ r.text # "placeholder" /\ r.message[1] = Placeholder => chat[r.message] # None
               /\ r.message[1] # Placeholder =>
                    r.text \in Answers /\ r.message[2] = r.from /\ chat[r.message] = None
    BY <2>3, RequestKinds, NotSentYet, TextKinds, StepNames
  <2>4. ASSUME NEW a \in Agents, agent[a].pc = "notice_send", r = NoticeRequest(a)
        PROVE  /\ r.text = "notice" /\ r.message[1] = Placeholder
               /\ chat[r.message] # None
    BY <2>4 DEF NoticeRequest, NoticePcs, DeliveryInv, MessagesAreShown
  <2> QED BY <1>3, <2>2, <2>3, <2>4, WorldMoves DEF WorldMoved, WireMoved, Shift
<1> QED BY <1>2, <1>3

\* No step puts anything but an answer in a chunk's message.
LEMMA ChatIsOrderlyStep ==
  ASSUME DeliveryInv, DeliveryNext
  PROVE  ChatIsOrderly'
BY ChatFrame DEF ChatIsOrderly

\* No step leaves an invocation at work with a stray request.
LEMMA OneRequestAtATimeStep ==
  ASSUME DeliveryInv, DeliveryNext
  PROVE  OneRequestAtATime'
<1> SUFFICES ASSUME NEW w \in Workers, NEW r \in wire', r.from = w,
                    agent'[w].pc \in {"idle", "unlog"} \cup HoldingPcs
             PROVE  agent'[w].pc = "await" /\ r = Request(w)'
  BY DEF OneRequestAtATime
<1>1. r \in wire /\ agent[w].pc \in {"idle", "unlog"} \cup HoldingPcs =>
        agent[w].pc = "await" /\ r = Request(w)
  BY DEF DeliveryInv, OneRequestAtATime
<1>2. AgentMoved(w) /\ w \in Agents /\ w \notin Callbacks
  BY AgentMoves, DeliveryAssumption DEF Agents
<1>3. CASE r \in wire
  <2>1. CASE agent'[w] = agent[w]
    BY <1>1, <1>3, <2>1 DEF Request, ResultOf, Name
  <2>2. ~Leaves(w) /\ ~Notifies(w)
    BY DEF Leaves, Notifies, Shift, HoldingPcs
  <2>3. CASE Works(w)
    <3>1. agent[w].pc = "await" /\ GoesOn(w)
      BY <1>1, <1>3, <2>3 DEF Works, Starts, GoesOn, Records, TakesUp, Shift, HoldingPcs
    <3>2. Pending(w)
      BY <1>3 DEF Pending
    <3> QED BY <3>1, <3>2 DEF GoesOn, Shift
  <2> QED BY <1>2, <2>1, <2>2, <2>3 DEF AgentMoved
<1>4. CASE r \notin wire
  <2>1. ASSUME NEW v \in Workers, Shift(v, "send", "await"), r = Request(v)
        PROVE  agent'[w].pc = "await" /\ r = Request(w)'
    <3>1. v = w
      BY <2>1 DEF Request
    <3>2. Remains(w)
      BY <1>2, <2>1, <3>1 DEF AgentMoved, Leaves, Notifies, Works, Starts, GoesOn, Records,
         TakesUp, Shift
    <3> QED BY <2>1, <3>1, <3>2 DEF Request, ResultOf, Name, Remains, Same, Shift
  <2>2. ASSUME NEW a \in Agents, Shift(a, "notice_send", "notice_await"), r = NoticeRequest(a)
        PROVE  FALSE
    BY <2>2 DEF NoticeRequest, Shift, HoldingPcs
  <2> QED BY <1>4, <2>1, <2>2, WorldMoves DEF WorldMoved, WireMoved
<1> QED BY <1>3, <1>4

\* What an invocation asks for stays the same while it waits for it.
LEMMA RequestStays ==
  ASSUME NEW w, Remains(w)
  PROVE  /\ Name(w)' = Name(w) /\ ResultOf(w)' = ResultOf(w)
         /\ Request(w)' = Request(w)
BY DEF Remains, Same, Request, ResultOf, Name

\* Who waits for a request finds it on the wire or carried out.
LEMMA AnsweredIsLandedStep ==
  ASSUME DeliveryInv, DeliveryNext
  PROVE  AnsweredIsLanded'
<1> SUFFICES ASSUME NEW w \in Workers
             PROVE  /\ agent'[w].pc = "await" => Request(w)' \in wire' \/ Landed(w)'
                    /\ agent'[w].pc = "record" => Landed(w)'
  BY DEF AnsweredIsLanded
<1>1. /\ agent[w].pc = "await" => Request(w) \in wire \/ Landed(w)
      /\ agent[w].pc = "record" => Landed(w)
      /\ AgentMoved(w) /\ w \in Agents /\ w \notin Callbacks /\ ResultOf(w) \in Messages
  BY AgentMoves, DeliveryAssumption, WorkerArguments, TextKinds
  DEF DeliveryInv, AnsweredIsLanded, Agents
<1>2. Landed(w) =>
        /\ chat'[ResultOf(w)] # None
        /\ Name(w) # Placeholder => chat'[ResultOf(w)] # "placeholder"
  BY <1>1, ChatFrame DEF Landed
<1>3. Landed(w) /\ Remains(w) => Landed(w)'
  BY <1>2, RequestStays DEF Landed
<1>4. CASE agent'[w] = agent[w]
  <2>1. Remains(w)
    BY <1>4 DEF Remains, Same
  <2>2. ASSUME agent[w].pc = "await", Request(w) \in wire, Request(w) \notin wire'
        PROVE  Landed(w)'
    <3>1. Request(w).from = w /\ Request(w).message = ResultOf(w) /\ Request(w).text = agent[w].text
      BY DEF Request
    <3>2. Land(Request(w))
      BY <1>4, <2>2, <3>1, WorldMoves DEF WorldMoved, WireMoved
    <3>3. chat'[ResultOf(w)] = agent[w].text
      BY <1>1, <3>1, <3>2 DEF Land, DeliveryInv, DeliveryTypeOK
    <3>4. /\ agent[w].text \in Payloads
          /\ Name(w) # Placeholder => agent[w].text \in Answers
      BY <2>2, RequestKinds DEF DeliveryInv, StepsInOrder
    <3> QED BY <2>1, <3>3, <3>4, RequestStays, TextKinds DEF Landed
  <2> QED BY <1>1, <1>3, <1>4, <2>1, <2>2, RequestStays
<1>5. CASE Works(w)
  <2>1. CASE Shift(w, "send", "await")
    BY <1>5, <2>1, RequestStays DEF Works, Starts, GoesOn, Records, TakesUp, Shift
  <2>2. CASE Shift(w, "await", "record")
    <3>1. Remains(w) /\ ~Pending(w)
      BY <1>5, <2>2 DEF Works, Starts, GoesOn, Records, TakesUp, Shift
    <3>2. Request(w) \notin wire
      BY <3>1 DEF Pending, Request
    <3> QED BY <1>1, <1>3, <2>2, <3>1, <3>2 DEF Shift
  <2> QED BY <1>5, <2>1, <2>2 DEF Works, Starts, GoesOn, Records, TakesUp, Shift
<1>6. CASE Leaves(w) \/ Notifies(w)
  BY <1>6 DEF Leaves, Notifies, Shift
<1> QED BY <1>1, <1>4, <1>5, <1>6 DEF AgentMoved

-----------------------------------------------------------------------------
(* Intents and checkpoints.                                                *)

\* The checkpoint of a step changes when its result is recorded.
LEMMA CheckpointFrame ==
  ASSUME DeliveryInv, DeliveryNext
  PROVE  /\ Exists /\ Exists' /\ JobMoved
         \/ \A n \in Names : job'.checkpoint[n] = None
         \/ job' = job
<1>1. CASE Exists /\ Exists'
  BY <1>1, JobMoves
<1>2. CASE Exists /\ ~Exists'
  BY <1>2, ExistenceStep, EmptyJobIsFine DEF ErasePurged, Purge
<1>3. CASE ~Exists /\ Exists'
  BY <1>3, Creation, EmptyJobIsFine
<1>4. CASE ~Exists /\ ~Exists'
  BY <1>4, AbsentStays
<1> QED BY <1>1, <1>2, <1>3, <1>4

\* No step records a message that is not in the chat.
LEMMA CheckpointsAreShownStep ==
  ASSUME DeliveryInv, DeliveryNext
  PROVE  CheckpointsAreShown'
<1>1. /\ \A n \in Sends : job.checkpoint[n] # None =>
           /\ job.checkpoint[n] \in Messages
           /\ job.checkpoint[n][1] = n
           /\ chat[job.checkpoint[n]] # None
      /\ job.checkpoint[Edit] # None =>
           /\ job.checkpoint[Edit] = job.checkpoint[Placeholder]
           /\ chat[job.checkpoint[Edit]] # "placeholder"
  BY DEF DeliveryInv, CheckpointsAreShown
<1>2. \A m \in Messages :
        /\ chat[m] # None => chat'[m] # None
        /\ chat[m] # None /\ chat[m] # "placeholder" => chat'[m] # "placeholder"
  BY ChatFrame
<1>3. CASE job' = job
  BY <1>1, <1>2, <1>3, StepNames DEF CheckpointsAreShown
<1>4. CASE \A n \in Names : job'.checkpoint[n] = None
  BY <1>4, StepNames DEF CheckpointsAreShown
<1>5. CASE Exists /\ Exists' /\ JobMoved
  <2>1. ASSUME NEW n \in Sends, job'.checkpoint[n] # None
        PROVE  /\ job'.checkpoint[n] \in Messages
               /\ job'.checkpoint[n][1] = n
               /\ chat'[job'.checkpoint[n]] # None
    <3>1. CASE job'.checkpoint[n] = job.checkpoint[n]
      BY <1>1, <1>2, <2>1, <3>1
    <3>2. CASE job'.checkpoint[n] # job.checkpoint[n]
      <4>1. PICK w \in Workers :
              /\ Name(w) = n /\ agent[w].pc = "record" /\ job'.checkpoint[n] = ResultOf(w)
        BY <1>5, <3>2, StepNames DEF JobMoved, Shift
      <4>2. ResultOf(w) = <<n, w>> /\ chat[ResultOf(w)] # None
        BY <4>1, StepNames, WorkerArguments DEF DeliveryInv, AnsweredIsLanded, Landed
      <4> QED BY <1>2, <4>1, <4>2, TextKinds
    <3> QED BY <3>1, <3>2
  <2>2. ASSUME job'.checkpoint[Edit] # None
        PROVE  /\ job'.checkpoint[Edit] = job'.checkpoint[Placeholder]
               /\ chat'[job'.checkpoint[Edit]] # "placeholder"
    <3>1. CASE job'.checkpoint[Edit] = job.checkpoint[Edit]
      <4>1. job.checkpoint[Placeholder] # None
        BY <1>1, <2>2, <3>1
      <4>2. job'.checkpoint[Placeholder] = job.checkpoint[Placeholder]
        BY <1>5, <4>1, StoreFrame, StepNames
      <4> QED BY <1>1, <1>2, <2>2, <3>1, <4>1, <4>2, StepNames
    <3>2. CASE job'.checkpoint[Edit] # job.checkpoint[Edit]
      <4>1. PICK w \in Workers :
              /\ Name(w) = Edit /\ agent[w].pc = "record" /\ job'.checkpoint[Edit] = ResultOf(w)
        BY <1>5, <3>2, StepNames DEF JobMoved, Shift
      <4>2. ResultOf(w) = agent[w].message /\ agent[w].step = 2 /\ ResultOf(w) \in Messages
        BY <4>1, WorkerArguments, TextKinds
      <4>3. agent[w].message = job.checkpoint[Placeholder] /\ agent[w].message # None
        BY <1>5, <4>2, TextKinds DEF DeliveryInv, MessagesAreRecorded
      <4>4. job'.checkpoint[Placeholder] = job.checkpoint[Placeholder]
        BY <1>5, <4>3, StoreFrame, StepNames
      <4>5. chat[ResultOf(w)] # None /\ chat[ResultOf(w)] # "placeholder"
        BY <4>1, StepNames DEF DeliveryInv, AnsweredIsLanded, Landed
      <4> QED BY <1>2, <4>1, <4>2, <4>3, <4>4, <4>5
    <3> QED BY <3>1, <3>2
  <2> QED BY <2>1, <2>2 DEF CheckpointsAreShown
<1> QED BY <1>3, <1>4, <1>5, CheckpointFrame

\* A step that is prepared has no result yet, and is announced under the
\* lease of who prepares it, unless it may be repeated.
LEMMA PreparedFacts ==
  ASSUME DeliveryInv, NEW l \in issued, NEW n \in Names, NEW p \in Payloads,
         PrepareIntent(l, n, p)
  PROVE  /\ Owns(l) /\ job.checkpoint[n] = None /\ job'.checkpoint = job.checkpoint
         /\ job'.intent[n] # None
         /\ n \notin Repeatable => job'.intent[n].fence = l.fence
<1>1. /\ job \in Job /\ None \notin Intents /\ l \in Leases
  BY JobStoreAssumption DEF DeliveryInv, IInv, TypeOK
<1> DEFINE intent == [payload |-> p, fence |-> l.fence]
<1>2. intent \in Intents /\ intent.fence = l.fence /\ intent # None
  <2>1. intent \in Intents
    BY <1>1 DEF Intents, Leases
  <2> QED BY <1>1, <2>1
<1>3. job' = [job EXCEPT !.intent[n] = IF @ = None THEN intent ELSE @]
  BY DEF PrepareIntent
<1> HIDE DEF intent
<1>4. /\ job'.checkpoint = job.checkpoint
      /\ job'.intent[n] = IF job.intent[n] = None THEN intent ELSE job.intent[n]
  BY <1>1, <1>3 DEF Job
<1>5. /\ Owns(l)
      /\ job.intent[n] = None => job.checkpoint[n] = None
      /\ job.intent[n] # None => job.checkpoint[n] = None
      /\ n \notin Repeatable /\ job.intent[n] # None => job.intent[n].fence = l.fence
  BY DEF PrepareIntent, IntentStatus
<1> QED BY <1>2, <1>4, <1>5

\* Two invocations whose leases own the job, or have one fence, are one.
LEMMA OneOwner ==
  ASSUME DeliveryInv, NEW v \in Workers, NEW w \in Workers,
         agent[v].lease # None, agent[w].lease # None,
         \/ Owns(agent[v].lease) /\ Owns(agent[w].lease)
         \/ agent[v].lease.fence = agent[w].lease.fence
  PROVE  v = w
BY DEF DeliveryInv, LeasesAreDistinct, Owns

\* A worker at work has its lease, and keeps it.
LEMMA LeaseStays ==
  ASSUME DeliveryInv, DeliveryNext, NEW w \in Workers,
         agent[w].pc \in LeasedPcs \/ agent[w].lease # None
  PROVE  /\ agent[w].lease # None /\ agent[w].lease \in issued
         /\ agent'[w].lease = agent[w].lease
         /\ Owns(agent[w].lease)' => Owns(agent[w].lease)
<1>1. w \in Agents /\ agent[w].lease # None /\ agent[w].lease \in issued
  BY DEF DeliveryInv, LeasesAreHeld, Agents
<1>2. agent'[w].lease = agent[w].lease
  BY <1>1, LeaseMoves DEF HoldsItsOwn
<1>3. \A l \in issued : Owns(l)' => Owns(l)
  BY StoreFrame
<1> DEFINE l == agent[w].lease
<1>4. Owns(agent[w].lease)' => Live' /\ job'.fence = l.fence /\ lease' = l
  BY <1>2 DEF Owns
<1>5. l \in issued
  BY <1>1
<1> HIDE DEF l
<1>6. Owns(agent[w].lease)' => Owns(l)
  BY <1>3, <1>4, <1>5 DEF Owns
<1> QED BY <1>1, <1>2, <1>6 DEF l

\* No step lets a worker ask Telegram for what it has not announced.
LEMMA AnnouncedFirstStep ==
  ASSUME DeliveryInv, DeliveryNext
  PROVE  AnnouncedFirst'
<1> DEFINE Announced == {"call", "send", "await", "clear", "record"}
<1> SUFFICES ASSUME Exists', NEW w \in Workers, agent'[w].pc \in Announced
             PROVE  /\ job'.intent[Name(w)'] # None
                    /\ Name(w)' # Edit => job'.intent[Name(w)'].fence = agent'[w].lease.fence
  BY DEF AnnouncedFirst
<1>1. /\ Exists /\ agent[w].pc \in Announced =>
           /\ job.intent[Name(w)] # None
           /\ Name(w) # Edit => job.intent[Name(w)].fence = agent[w].lease.fence
      /\ AgentMoved(w) /\ w \in Agents /\ w \notin Callbacks /\ Name(w) \in Names
  BY AgentMoves, DeliveryAssumption, WorkerArguments DEF DeliveryInv, AnnouncedFirst, Agents
<1>2. Exists /\ JobMoved
  BY <1>1, Creation, JobMoves
<1>3. \/ Remains(w) /\ agent[w].pc \in Announced
      \/ Remains(w) /\ PrepareIntent(agent[w].lease, Name(w), agent[w].text)
         /\ agent[w].pc = "prepare"
  BY <1>1 DEF AgentMoved, Leaves, Notifies, Works, Starts, GoesOn, Records, TakesUp, Shift,
     Remains, Same
<1>4. agent[w].pc = "prepare" => agent[w].lease \in issued /\ agent[w].text \in Payloads
  BY WorkerArguments DEF LeasedPcs, HoldingPcs
<1>5. Name(w)' = Name(w) /\ agent'[w].lease = agent[w].lease
  BY <1>3, RequestStays DEF Remains, Same
<1>6. CASE PrepareIntent(agent[w].lease, Name(w), agent[w].text) /\ agent[w].pc = "prepare"
  BY <1>1, <1>4, <1>5, <1>6, PreparedFacts, StepNames
<1>7. CASE agent[w].pc \in Announced
  <2>1. ASSUME job'.intent[Name(w)] # job.intent[Name(w)]
        PROVE  FALSE
    <3>1. PICK v \in Workers :
            /\ Owns(agent[v].lease) /\ Name(v) = Name(w) /\ Shift(v, "clear", "finish")
      BY <1>1, <1>2, <1>7, <2>1 DEF JobMoved
    <3>2. Name(v) # Edit
      BY <3>1 DEF Shift, DeliveryInv, StepsInOrder
    <3>3. job.intent[Name(v)].fence = agent[v].lease.fence
      BY <1>2, <3>1, <3>2 DEF DeliveryInv, AnnouncedFirst, Shift
    <3>4. agent[v].lease # None /\ agent[w].lease # None
      BY <1>7, <3>1, LeaseStays DEF LeasedPcs, HoldingPcs, Shift
    <3>5. v = w
      BY <1>1, <1>2, <1>7, <3>1, <3>2, <3>3, <3>4, OneOwner
    <3> QED BY <3>1, <3>5 DEF Shift
  <2> QED BY <1>1, <1>2, <1>5, <1>7, <2>1
<1> QED BY <1>3, <1>6, <1>7

\* No step records the message an owner is still asking for.
LEMMA UnrecordedWhileOwnedStep ==
  ASSUME DeliveryInv, DeliveryNext
  PROVE  UnrecordedWhileOwned'
<1> DEFINE Asking == {"call", "send", "await", "clear"}
<1> SUFFICES ASSUME NEW w \in Workers, agent'[w].pc \in Asking, Name(w)' # Edit,
                    Owns(agent[w].lease)'
             PROVE  job'.checkpoint[Name(w)'] = None
  BY DEF UnrecordedWhileOwned
<1>1. /\ agent[w].pc \in Asking /\ Name(w) # Edit /\ Owns(agent[w].lease)
           => job.checkpoint[Name(w)] = None
      /\ AgentMoved(w) /\ w \in Agents /\ w \notin Callbacks /\ Name(w) \in Names
  BY AgentMoves, DeliveryAssumption, WorkerArguments DEF DeliveryInv, UnrecordedWhileOwned, Agents
<1>2. \/ Remains(w) /\ agent[w].pc \in Asking
      \/ Remains(w) /\ PrepareIntent(agent[w].lease, Name(w), agent[w].text)
         /\ agent[w].pc = "prepare"
  BY <1>1 DEF AgentMoved, Leaves, Notifies, Works, Starts, GoesOn, Records, TakesUp, Shift,
     Remains, Same
<1>3. agent[w].pc = "prepare" => agent[w].lease \in issued /\ agent[w].text \in Payloads
  BY WorkerArguments DEF LeasedPcs, HoldingPcs
<1>4. Name(w)' = Name(w) /\ Owns(agent[w].lease) /\ agent[w].lease # None
  BY <1>2, RequestStays, LeaseStays DEF LeasedPcs, HoldingPcs
<1>5. CASE PrepareIntent(agent[w].lease, Name(w), agent[w].text) /\ agent[w].pc = "prepare"
  BY <1>1, <1>3, <1>4, <1>5, PreparedFacts
<1>6. CASE agent[w].pc \in Asking
  <2>1. Exists /\ Exists'
    BY <1>4 DEF Owns, Live, Exists
  <2>2. ASSUME job'.checkpoint[Name(w)] # job.checkpoint[Name(w)]
        PROVE  FALSE
    <3>1. PICK v \in Workers : Owns(agent[v].lease) /\ Shift(v, "record", "log")
      BY <1>1, <2>1, <2>2, JobMoves DEF JobMoved
    <3>2. v = w
      BY <1>4, <3>1, OneOwner, LeaseStays DEF LeasedPcs, HoldingPcs, Shift
    <3> QED BY <1>6, <3>1, <3>2 DEF Shift
  <2> QED BY <1>1, <1>4, <1>6, <2>2
<1> QED BY <1>2, <1>5, <1>6

-----------------------------------------------------------------------------
(* Who has posted a step's message, and who still may.                     *)

\* A step's message is posted by who sends it.
LEMMA PostedMoves ==
  ASSUME DeliveryInv, DeliveryNext, NEW n \in Sends, NEW w \in Workers, w \in Posted(n)'
  PROVE  w \in Posted(n) \/ (Shift(w, "send", "await") /\ Name(w) = n)
<1>1. WireIsOrderly /\ <<n, w>> \in Messages /\ <<n, w>>[1] = n /\ <<n, w>>[2] = w
  BY TextKinds DEF DeliveryInv
<1>2. CASE chat'[<<n, w>>] # None
  <2>1. CASE chat[<<n, w>>] # None
    BY <2>1 DEF Posted
  <2>2. CASE chat[<<n, w>>] = None
    <3>1. PICK r \in wire : r.message = <<n, w>>
      BY <1>1, <1>2, <2>2, ChatFrame
    <3>2. n = Placeholder => r.text = "placeholder"
      BY <1>1, <2>2, <3>1 DEF WireIsOrderly
    <3> QED BY <3>1, <3>2 DEF Posted
  <2> QED BY <2>1, <2>2
<1>3. ASSUME NEW r \in wire', r.message = <<n, w>>, n = Placeholder => r.text = "placeholder"
      PROVE  w \in Posted(n) \/ (Shift(w, "send", "await") /\ Name(w) = n)
  <2>1. CASE r \in wire
    BY <1>3, <2>1 DEF Posted
  <2>2. ASSUME NEW v \in Workers, Shift(v, "send", "await"), r = Request(v)
        PROVE  v = w /\ Name(v) = n
    <3>1. ResultOf(v) = <<n, w>> /\ r.text = agent[v].text
      BY <1>3, <2>2, RequestKinds DEF Shift
    <3>2. Name(v) # Edit
      BY <1>1, <1>3, <2>2, <3>1, RequestKinds, StepNames, TextKinds DEF Shift
    <3> QED BY <1>1, <2>2, <3>1, <3>2, RequestKinds DEF Shift
  <2>3. ASSUME NEW a \in Agents, Shift(a, "notice_send", "notice_await"), r = NoticeRequest(a)
        PROVE  FALSE
    <3>1. agent[a].message[1] = Placeholder
      BY <2>3 DEF DeliveryInv, MessagesAreShown, Shift, NoticePcs
    <3>2. r.message = agent[a].message /\ r.text = "notice"
      BY <2>3 DEF NoticeRequest
    <3> QED BY <1>1, <1>3, <3>1, <3>2
  <2> QED BY <2>1, <2>2, <2>3, WorldMoves DEF WorldMoved, WireMoved
<1> QED BY <1>2, <1>3 DEF Posted

\* Who is about to send is who asked for the job just before.
LEMMA MayPostMoves ==
  ASSUME DeliveryInv, DeliveryNext, NEW n \in Sends, NEW w \in Workers, w \in MayPost(n)'
  PROVE  \/ w \in MayPost(n)
         \/ /\ Shift(w, "call", "send") /\ Name(w) = n
            /\ Owns(agent[w].lease)
<1>1. CASE w \in Posted(n)'
  BY <1>1, PostedMoves DEF MayPost, Shift
<1>2. CASE agent'[w].pc = "send" /\ Name(w)' = n
  <2>1. AgentMoved(w) /\ w \notin Callbacks
    BY AgentMoves, DeliveryAssumption DEF Agents
  <2>2. CASE agent'[w] = agent[w]
    BY <1>2, <2>2 DEF MayPost, Name
  <2>3. CASE GoesOn(w)
    <3>1. Remains(w) /\ Shift(w, "call", "send") /\ Owns(agent[w].lease)
      BY <1>2, <2>3 DEF GoesOn, Shift
    <3> QED BY <1>2, <3>1, RequestStays
  <2>4. ~Leaves(w) /\ ~Notifies(w) /\ ~Starts(w) /\ ~Records(w) /\ ~TakesUp(w)
    BY <1>2 DEF Leaves, Notifies, Starts, Records, TakesUp, Shift
  <2> QED BY <2>1, <2>2, <2>3, <2>4 DEF AgentMoved, Works
<1> QED BY <1>1, <1>2 DEF MayPost

\* No step posts a message before its invocation is there.
LEMMA PostedInOrderStep ==
  ASSUME DeliveryInv, DeliveryNext
  PROVE  PostedInOrder'
<1> SUFFICES ASSUME NEW w \in Workers, NEW i \in 1..Len(Steps), i # 2,
                    w \in Posted(Steps[i])'
             PROVE  i < agent'[w].step \/ (i = agent'[w].step /\ agent'[w].pc \notin UnsentPcs)
  BY DEF PostedInOrder, Posted
<1>1. /\ AgentMoved(w) /\ w \notin Callbacks /\ w \in Agents /\ agent[w].step \in 1..Len(Steps)
      /\ Steps[i] \in Sends
  BY AgentMoves, StepNames, DeliveryAssumption
  DEF Agents, DeliveryInv, DeliveryTypeOK
<1>2. CASE Shift(w, "send", "await") /\ Name(w) = Steps[i]
  <2>1. agent[w].step = i
    BY <1>1, <1>2, StepNames DEF Name
  <2>2. agent'[w].step = agent[w].step
    BY <1>1, <1>2 DEF AgentMoved, Leaves, Notifies, Works, Starts, GoesOn, Records, TakesUp,
      Shift, Remains, Same
  <2> QED BY <1>2, <2>1, <2>2 DEF Shift, UnsentPcs
<1>3. CASE w \in Posted(Steps[i])
  <2>1. i < agent[w].step \/ (i = agent[w].step /\ agent[w].pc \notin UnsentPcs)
    BY <1>3 DEF DeliveryInv, PostedInOrder
  <2>2. CASE Shift(w, "await", "clear") /\ GoesOn(w)
    <3>1. /\ Name(w) # Edit /\ Pending(w) /\ wire' = {r \in wire : r.from # w}
          /\ agent'[w].step = agent[w].step
      BY <2>2 DEF GoesOn, Shift, Remains, Same
    <3>2. ASSUME i = agent[w].step
          PROVE  FALSE
      <4>1. PICK r \in wire : r.from = w
        BY <3>1 DEF Pending
      <4>2. r = Request(w)
        BY <2>2, <4>1 DEF DeliveryInv, OneRequestAtATime, Shift, HoldingPcs
      <4>3. r.message = <<Steps[i], w>> /\ <<Steps[i], w>> \in Messages
            /\ <<Steps[i], w>>[1] = Steps[i] /\ <<Steps[i], w>>[2] = w
            /\ (Steps[i] = Placeholder => r.text = "placeholder")
        BY <1>1, <2>2, <3>1, <3>2, <4>2, RequestKinds, TextKinds DEF Name, Shift
      <4>4. chat[<<Steps[i], w>>] = None
        BY <4>3 DEF DeliveryInv, WireIsOrderly
      <4>5. chat'[<<Steps[i], w>>] = None
        BY <2>2, <4>3, <4>4, ChatFrame DEF Land, Shift
      <4>6. ASSUME NEW q \in wire', q.message = <<Steps[i], w>>,
                   Steps[i] = Placeholder => q.text = "placeholder"
            PROVE  FALSE
        <5>1. q \in wire /\ q.from # w
          BY <3>1, <4>6
        <5> QED BY <4>3, <4>6, <5>1 DEF DeliveryInv, WireIsOrderly
      <4> QED BY <4>5, <4>6 DEF Posted
    <3> QED BY <1>1, <2>1, <3>1, <3>2
  <2>3. CASE agent'[w].step = agent[w].step /\ ~(Shift(w, "await", "clear") /\ GoesOn(w))
    <3>1. agent[w].pc \notin UnsentPcs => agent'[w].pc \notin UnsentPcs
      <4>1. CASE GoesOn(w)
        BY <2>3, <4>1 DEF GoesOn, Shift, UnsentPcs
      <4>2. CASE agent'[w] = agent[w] \/ Leaves(w)
        BY <4>2 DEF Leaves, UnsentPcs
      <4>3. CASE Notifies(w) \/ Starts(w) \/ Records(w)
        BY <4>3 DEF Notifies, Starts, Records, Shift, UnsentPcs
      <4>4. CASE TakesUp(w)
        BY <1>1, <2>3, <4>4 DEF TakesUp, Shift, UnsentPcs, DeliveryInv, StepsInOrder, AnswerPcs
      <4> QED BY <1>1, <4>1, <4>2, <4>3, <4>4 DEF AgentMoved, Works
    <3> QED BY <2>1, <2>3, <3>1
  <2>4. CASE agent'[w].step # agent[w].step
    <3>1. TakesUp(w)
      BY <1>1, <2>4 DEF AgentMoved, Leaves, Notifies, Works, Starts, GoesOn, Records, Remains, Same
    <3>2. agent'[w].step = agent[w].step + 1
      BY <1>1, <2>4, <3>1 DEF TakesUp, Shift, DeliveryInv, StepsInOrder, AnswerPcs
    <3> QED BY <1>1, <2>1, <3>2
  <2> QED BY <2>2, <2>3, <2>4 DEF GoesOn, Remains, Same
<1> QED BY <1>1, <1>2, <1>3, PostedMoves

\* No step lets a second invocation post a message: whoever may is named by
\* the fence of the intent, and fences are told apart.
LEMMA PostedOnceStep ==
  ASSUME DeliveryInv, DeliveryNext
  PROVE  PostedOnce'
<1> DEFINE New(w, n) == /\ Shift(w, "call", "send") /\ Name(w) = n /\ Owns(agent[w].lease)
<1>1. ASSUME NEW n \in Sends, NEW v \in Workers, NEW w \in Workers, New(w, n),
             v \in MayPost(n) \/ New(v, n)
      PROVE  v = w
  <2>1. Exists /\ Name(w) # Edit /\ agent[w].lease # None
    BY <1>1, StepNames, LeaseStays DEF Owns, Live, Shift, LeasedPcs, HoldingPcs
  <2>2. CASE v \in MayPost(n)
    <3>1. agent[v].lease # None /\ job.intent[n].fence = agent[v].lease.fence
      BY <1>1, <2>1, <2>2 DEF DeliveryInv, PostedUnderIntent
    <3>2. job.intent[n].fence = agent[w].lease.fence
      BY <1>1, <2>1 DEF DeliveryInv, AnnouncedFirst, Shift
    <3> QED BY <2>1, <3>1, <3>2, OneOwner
  <2>3. CASE New(v, n)
    BY <1>1, <2>1, <2>3, LeaseStays, OneOwner DEF Shift, LeasedPcs, HoldingPcs
  <2> QED BY <1>1, <2>2, <2>3
<1>2. ASSUME NEW n \in Sends, NEW v \in MayPost(n)', NEW w \in MayPost(n)'
      PROVE  v = w
  <2>1. v \in Workers /\ w \in Workers
    BY <1>2 DEF MayPost, Posted
  <2>2. (v \in MayPost(n) \/ New(v, n)) /\ (w \in MayPost(n) \/ New(w, n))
    BY <1>2, <2>1, MayPostMoves
  <2>3. CASE v \in MayPost(n) /\ w \in MayPost(n)
    BY <1>2, <2>3 DEF DeliveryInv, PostedOnce
  <2>4. CASE New(v, n) \/ New(w, n)
    BY <1>1, <2>1, <2>2, <2>4
  <2> QED BY <2>2, <2>3, <2>4
<1> QED BY <1>2 DEF PostedOnce, MayPost, Posted

\* No step takes away the intent of a message that was posted.
LEMMA PostedUnderIntentStep ==
  ASSUME DeliveryInv, DeliveryNext
  PROVE  PostedUnderIntent'
<1> SUFFICES ASSUME Exists', NEW n \in Sends, NEW w \in MayPost(n)'
             PROVE  /\ agent'[w].lease # None /\ job'.intent[n] # None
                    /\ job'.intent[n].fence = agent'[w].lease.fence
  BY DEF PostedUnderIntent, MayPost, Posted
<1>1. w \in Workers /\ n \in Names
  BY StepNames DEF MayPost, Posted
<1>2. Exists
  <2>1. SUFFICES ASSUME ~Exists PROVE FALSE
    OBVIOUS
  <2>2. <<n, w>> \in Messages /\ wire' = {} /\ chat' = [m \in Messages |-> None]
        /\ agent'[w].pc = "idle"
    BY <1>1, <2>1, Creation, TextKinds DEF Agents
  <2> QED BY <2>2 DEF MayPost, Posted
<1>3. \/ w \in MayPost(n)
      \/ Shift(w, "call", "send") /\ Name(w) = n /\ Owns(agent[w].lease)
  BY <1>1, MayPostMoves
<1>4. /\ agent[w].lease # None /\ job.intent[n] # None
      /\ job.intent[n].fence = agent[w].lease.fence
  <2>1. CASE w \in MayPost(n)
    BY <1>2, <2>1 DEF DeliveryInv, PostedUnderIntent
  <2>2. CASE Shift(w, "call", "send") /\ Name(w) = n
    BY <1>1, <1>2, <2>2, LeaseStays, StepNames
    DEF DeliveryInv, AnnouncedFirst, Shift, LeasedPcs, HoldingPcs
  <2> QED BY <1>3, <2>1, <2>2
<1>5. agent'[w].lease = agent[w].lease
  BY <1>1, <1>4, LeaseStays
<1>6. ASSUME job'.intent[n] # job.intent[n]
      PROVE  FALSE
  <2>1. PICK v \in Workers :
          Owns(agent[v].lease) /\ Name(v) = n /\ Shift(v, "clear", "finish")
    BY <1>1, <1>2, <1>4, <1>6, JobMoves DEF JobMoved
  <2>2. agent[v].lease # None /\ job.intent[n].fence = agent[v].lease.fence
    BY <1>2, <2>1, LeaseStays, StepNames
    DEF DeliveryInv, AnnouncedFirst, Shift, LeasedPcs, HoldingPcs
  <2>3. v = w
    BY <1>1, <1>4, <2>2, OneOwner
  <2>4. w \in Posted(n) /\ agent[w].pc = "clear"
    BY <1>3, <2>1, <2>3 DEF MayPost, Shift
  <2>5. agent[w].step \in 1..Len(Steps) /\ n = Steps[agent[w].step] /\ agent[w].step # 2
    BY <1>1, <2>1, <2>3, StepNames DEF Name, DeliveryInv, DeliveryTypeOK, Agents
  <2> QED BY <1>1, <2>4, <2>5 DEF DeliveryInv, PostedInOrder, UnsentPcs
<1> QED BY <1>4, <1>5, <1>6

-----------------------------------------------------------------------------
(* The steps behind an invocation are on record.                           *)

\* A step is behind an invocation when its record is found or made.
LEMMA BehindMoves ==
  ASSUME DeliveryInv, DeliveryNext, NEW w \in Workers, NEW i \in Behind(w)'
  PROVE  /\ i \in 1..scenario.steps /\ i \in 1..Len(Steps)
         /\ i \in Behind(w) \/ (Records(w) /\ i = agent[w].step)
<1>1. /\ AgentMoved(w) /\ w \notin Callbacks /\ scenario' = scenario
      /\ agent[w].step \in 1..scenario.steps /\ i \in 1..scenario.steps
      /\ scenario.steps \in 2..Len(Steps)
  <2>1. scenario' = scenario /\ scenario \in AllScenarios
    BY WorldMoves, DeliveryAssumption DEF WorldMoved, DeliveryInv, DeliveryTypeOK
  <2> QED BY <2>1, AgentMoves, DeliveryAssumption
      DEF Agents, DeliveryInv, StepsInOrder, Behind, AllScenarios
<1>2. CASE i < agent'[w].step
  <2>1. CASE agent'[w].step = agent[w].step
    BY <1>1, <1>2, <2>1 DEF Behind
  <2>2. CASE agent'[w].step # agent[w].step
    <3>1. TakesUp(w)
      BY <1>1, <2>2 DEF AgentMoved, Leaves, Notifies, Works, Starts, GoesOn, Records,
        Remains, Same
    <3>2. agent'[w].step = agent[w].step + 1 /\ agent[w].pc \in {"recheck", "save"}
      BY <1>1, <2>2, <3>1 DEF TakesUp, Shift, DeliveryInv, StepsInOrder, AnswerPcs
    <3> QED BY <1>1, <1>2, <3>2 DEF Behind, LogPcs, AnswerPcs
  <2> QED BY <2>1, <2>2
<1>3. CASE i = agent'[w].step /\ agent'[w].pc \in LogPcs \cup AnswerPcs
  <2>1. CASE agent'[w] = agent[w]
    BY <1>1, <1>3, <2>1 DEF Behind
  <2>2. CASE GoesOn(w)
    BY <1>1, <1>3, <2>2 DEF Behind, GoesOn, Shift, Remains, Same, LogPcs, AnswerPcs
  <2>3. CASE TakesUp(w)
    BY <1>1, <1>3, <2>3 DEF Behind, TakesUp, Shift, LogPcs, AnswerPcs
  <2>4. CASE Records(w)
    BY <1>1, <1>3, <2>4 DEF Records, Same
  <2>5. ~Leaves(w) /\ ~Notifies(w) /\ ~Starts(w)
    BY <1>3 DEF Leaves, Notifies, Starts, Shift, LogPcs, AnswerPcs
  <2> QED BY <1>1, <2>1, <2>2, <2>3, <2>4, <2>5 DEF AgentMoved, Works
<1>4. CASE Kind # "image_memory" /\ agent'[w].pc = "finish" /\ agent'[w].target = "delivered"
  <2>1. CASE agent'[w] = agent[w]
    BY <1>1, <1>4, <2>1 DEF Behind
  <2>2. CASE Leaves(w)
    <3>1. agent[w].pc = "recheck" /\ agent[w].step \notin 1..(scenario.steps - 1)
      BY <1>4, <2>2 DEF Leaves, Concludes, DeliveryInv, ImageJobsAreSilent
    <3>2. i <= agent[w].step
      BY <1>1, <3>1
    <3> QED BY <1>1, <3>1, <3>2 DEF Behind, LogPcs
  <2>3. ~Notifies(w) /\ ~Works(w)
    BY <1>4 DEF Notifies, Works, Starts, GoesOn, Records, TakesUp, Shift
  <2> QED BY <1>1, <2>1, <2>2, <2>3 DEF AgentMoved
<1>5. Kind' = Kind
  BY <1>1 DEF Kind
<1> QED BY <1>1, <1>2, <1>3, <1>4, <1>5 DEF Behind

\* What is recorded, or found recorded, is what the invocation remembers.
LEMMA RecordedFacts ==
  ASSUME DeliveryInv, NEW w \in Workers, Records(w)
  PROVE  /\ Owns(agent[w].lease) /\ Name(w)' = Name(w)
         /\ agent'[w].message = job'.checkpoint[Name(w)] /\ agent'[w].message # None
<1>1. Name(w) \in Names /\ ResultOf(w) \in Results /\ None \notin Results /\ job \in Job
  BY WorkerArguments, JobStoreAssumption DEF DeliveryInv, IInv, TypeOK
<1>2. Name(w)' = Name(w)
  BY DEF Records, Same, Name
<1>3. CASE IntentStatus(agent[w].lease, Name(w), agent[w].text) = "checkpointed"
           /\ agent'[w].message = job.checkpoint[Name(w)] /\ UNCHANGED storeVars
  BY <1>2, <1>3 DEF IntentStatus, storeVars
<1>4. CASE Checkpoint(agent[w].lease, Name(w), ResultOf(w)) /\ agent'[w].message = ResultOf(w)
  <2>1. job'.checkpoint[Name(w)] = ResultOf(w) /\ Owns(agent[w].lease)
    BY <1>1, <1>4 DEF Checkpoint, Job
  <2> QED BY <1>1, <1>2, <1>4, <2>1
<1> QED BY <1>3, <1>4 DEF Records

\* Before the job is created nobody has a step behind.
LEMMA NothingBehindYet ==
  ASSUME DeliveryInv, DeliveryNext, Exists', ~Exists, NEW w \in Workers
  PROVE  Behind(w)' = {}
<1>1. agent'[w] = agent[w] /\ agent[w].pc = "idle" /\ agent[w].step = 1
  BY Creation DEF Agents
<1>2. scenario'.steps \in Nat
  BY SMTT(30), WorldMoves, DeliveryAssumption
  DEF WorldMoved, DeliveryInv, DeliveryTypeOK, AllScenarios
<1> QED BY <1>1, <1>2 DEF Behind, LogPcs, AnswerPcs

\* A delivery that is about to be concluded has every step behind it.
LEMMA ConcludingFacts ==
  ASSUME DeliveryInv, DeliveryNext, Exists, Exists',
         job'.state = "delivered", job.state # "delivered"
  PROVE  \E w \in Workers : agent[w].pc = "finish" /\ Behind(w) = 1..scenario.steps
<1>1. PICK w \in Workers :
        agent[w].pc = "finish" /\ agent[w].target = "delivered" /\ job.state = "ready_to_deliver"
  BY JobMoves DEF JobMoved
<1>2. Kind # "image_memory"
  BY <1>1 DEF DeliveryInv, ImageJobsAreSilent
<1> QED BY <1>1, <1>2 DEF Behind

\* No step puts a delivery step behind an invocation without its record.
LEMMA StepsAreRecordedStep ==
  ASSUME DeliveryInv, DeliveryNext
  PROVE  StepsAreRecorded'
<1> SUFFICES ASSUME Exists' PROVE
       /\ \A w \in Workers : \A i \in Behind(w)' : job'.checkpoint[Steps[i]] # None
       /\ job'.state = "delivered" =>
            \A i \in 1..scenario'.steps : job'.checkpoint[Steps[i]] # None
  BY DEF StepsAreRecorded
<1>1. scenario' = scenario /\ scenario.steps \in 2..Len(Steps)
  BY WorldMoves, DeliveryAssumption
  DEF WorldMoved, DeliveryInv, DeliveryTypeOK, AllScenarios
<1>2. CASE ~Exists
  BY <1>2, NothingBehindYet, Creation DEF EmptyJob
<1>3. CASE Exists
  <2>1. \A i \in 1..Len(Steps) :
          job.checkpoint[Steps[i]] # None => job'.checkpoint[Steps[i]] # None
    BY <1>3, StoreFrame, StepNames
  <2>2. ASSUME NEW w \in Workers, NEW i \in Behind(w)'
        PROVE  job'.checkpoint[Steps[i]] # None
    <3>1. CASE i \in Behind(w)
      BY <1>3, <2>1, <2>2, <3>1, BehindMoves DEF DeliveryInv, StepsAreRecorded
    <3>2. CASE Records(w) /\ i = agent[w].step
      BY <3>2, RecordedFacts DEF Name
    <3> QED BY <2>2, <3>1, <3>2, BehindMoves
  <2>3. ASSUME job'.state = "delivered", NEW i \in 1..scenario.steps
        PROVE  job.checkpoint[Steps[i]] # None
    <3>1. CASE job.state = "delivered"
      BY <1>3, <2>3, <3>1 DEF DeliveryInv, StepsAreRecorded
    <3>2. CASE job.state # "delivered"
      BY <1>3, <2>3, <3>2, ConcludingFacts DEF DeliveryInv, StepsAreRecorded
    <3> QED BY <3>1, <3>2
  <2>4. 1..scenario.steps \subseteq 1..Len(Steps)
    BY <1>1, StepNames
  <2> QED BY <1>1, <2>1, <2>2, <2>3, <2>4
<1> QED BY <1>2, <1>3

\* What an invocation remembers stays what is on record.
LEMMA MessagesAreRecordedStep ==
  ASSUME DeliveryInv, DeliveryNext
  PROVE  MessagesAreRecorded'
<1> DEFINE OnRecord(w) ==
      agent'[w].message # None =>
        /\ \E n \in Names : agent'[w].message = job'.checkpoint[n]
        /\ agent'[w].step <= 2 => agent'[w].message = job'.checkpoint[Placeholder]
        /\ agent'[w].pc \in LogPcs => agent'[w].message = job'.checkpoint[Name(w)']
<1>1. CASE Exists' /\ ~Exists
  <2>1. \A a \in Agents : agent'[a].message = None /\ agent'[a].pc = "idle"
    BY <1>1, Creation DEF DeliveryInv, MessagesAreShown, DeliveryTypeOK
  <2> QED BY <2>1 DEF MessagesAreRecorded, NoticePcs, Agents
<1>2. CASE Exists /\ Exists'
  <2>1. /\ \A n \in Names : job.checkpoint[n] # None => job'.checkpoint[n] = job.checkpoint[n]
        /\ Placeholder \in Names /\ Placeholder = Steps[1] /\ Edit = Steps[2]
        /\ job.placeholder = job.checkpoint[Placeholder]
    BY <1>2, StoreFrame, StepNames DEF DeliveryInv, IInv, PlaceholderIsCheckpointed
  <2>2. ASSUME NEW w \in Workers, agent'[w].message # None
        PROVE  OnRecord(w)
    <3>1. AgentMoved(w) /\ w \notin Callbacks /\ w \in Agents /\ Name(w) \in Names
          /\ agent[w].step \in 1..Len(Steps)
      BY AgentMoves, WorkerArguments, DeliveryAssumption
      DEF Agents, DeliveryInv, DeliveryTypeOK
    <3>2. agent[w].message # None =>
            /\ \E n \in Names : agent[w].message = job.checkpoint[n]
            /\ agent[w].step <= 2 => agent[w].message = job.checkpoint[Placeholder]
            /\ agent[w].pc \in LogPcs => agent[w].message = job.checkpoint[Name(w)]
      BY <1>2 DEF DeliveryInv, MessagesAreRecorded
    <3>3. CASE Records(w)
      <4>1. agent'[w].message = job'.checkpoint[Name(w)] /\ Name(w)' = Name(w)
            /\ agent'[w].step = agent[w].step
        BY <3>3, RecordedFacts DEF Records, Same
      <4>2. CASE agent'[w].step = 1
        BY <2>1, <3>1, <4>1, <4>2 DEF Name
      <4>3. CASE agent'[w].step = 2
        <5>1. Name(w) = Edit
          BY <2>1, <4>1, <4>3 DEF Name
        <5>2. job'.checkpoint[Edit] = job'.checkpoint[Placeholder]
          BY <2>2, <4>1, <5>1, CheckpointsAreShownStep DEF CheckpointsAreShown
        <5> QED BY <3>1, <4>1, <5>1, <5>2
      <4>4. CASE agent'[w].step > 2
        BY <3>1, <4>1, <4>4
      <4> QED BY <3>1, <4>1, <4>2, <4>3, <4>4
    <3>4. CASE Shift(w, "claim", "notice_call") /\ agent'[w].message = job.placeholder
               /\ job' = job
      BY <2>1, <3>4 DEF Shift, LogPcs
    <3>5. CASE /\ agent'[w].message = agent[w].message
               /\ agent'[w].step = agent[w].step
               /\ agent'[w].pc \in LogPcs => agent[w].pc \in LogPcs
      <4>1. Name(w)' = Name(w)
        BY <3>5 DEF Name
      <4> QED BY <2>1, <2>2, <3>1, <3>2, <3>5, <4>1
    <3>6. CASE TakesUp(w)
      <4>1. agent'[w].pc \notin LogPcs /\ agent'[w].message = agent[w].message
        BY <3>6 DEF TakesUp, Shift, LogPcs
      <4>2. agent'[w].step <= 2 => agent[w].step <= 2
        BY <3>1, <3>6 DEF TakesUp, Shift, DeliveryInv, StepsInOrder, AnswerPcs
      <4> QED BY <2>1, <2>2, <3>1, <3>2, <4>1, <4>2
    <3>7. CASE Leaves(w) \/ GoesOn(w) \/ Starts(w)
      BY <3>5, <3>7 DEF Leaves, GoesOn, Starts, Shift, Remains, Same, LogPcs
    <3>8. CASE Notifies(w)
      BY <3>4, <3>5, <3>8 DEF Notifies, Shift, Same, LogPcs
    <3> QED BY <3>1, <3>3, <3>5, <3>6, <3>7, <3>8 DEF AgentMoved, Works
  <2>3. ASSUME NEW a \in Agents, agent'[a].pc \in NoticePcs
        PROVE  agent'[a].message = job'.checkpoint[Placeholder]
    <3>1. \/ agent'[a].message = agent[a].message /\ agent[a].pc \in NoticePcs
          \/ agent'[a].message = job.placeholder /\ job' = job
      <4>1. AgentMoved(a)
        BY AgentMoves
      <4>2. CASE Notifies(a)
        BY <4>2 DEF Notifies, Shift, NoticePcs
      <4>3. ~Leaves(a) /\ ~Works(a) /\ ~Begins(a)
        BY <2>3 DEF Leaves, Works, Starts, GoesOn, Records, TakesUp, Begins, IdleAgent, Shift,
          NoticePcs
      <4> QED BY <2>3, <4>1, <4>2, <4>3 DEF AgentMoved
    <3>2. CASE agent'[a].message = agent[a].message /\ agent[a].pc \in NoticePcs
      <4>1. agent[a].message = job.checkpoint[Placeholder] /\ agent[a].message # None
        BY <1>2, <3>2 DEF DeliveryInv, MessagesAreRecorded, MessagesAreShown
      <4> QED BY <2>1, <3>2, <4>1
    <3> QED BY <2>1, <3>1, <3>2
  <2> QED BY <2>2, <2>3 DEF MessagesAreRecorded
<1> QED BY <1>1, <1>2 DEF MessagesAreRecorded

\* No step makes the job of an image send anything.
LEMMA ImageJobsAreSilentStep ==
  ASSUME DeliveryInv, DeliveryNext
  PROVE  ImageJobsAreSilent'
<1>1. Kind' = Kind /\ \A w \in Workers : AgentMoved(w) /\ w \notin Callbacks
  BY WorldMoves, AgentMoves, DeliveryAssumption DEF WorldMoved, Kind, Agents
<1>2. CASE Kind # "image_memory"
  <2>1. ASSUME NEW w \in Workers PROVE agent'[w].pc # "image"
    <3>1. agent[w].pc # "image"
      BY <1>2 DEF DeliveryInv, ImageJobsAreSilent
    <3> QED BY <1>1, <1>2, <3>1
      DEF AgentMoved, Leaves, Notifies, Works, Starts, GoesOn, Records, TakesUp, Shift
  <2> QED BY <1>1, <1>2, <2>1 DEF ImageJobsAreSilent
<1>3. CASE Kind = "image_memory"
  <2>1. /\ job.state \notin {"ready_to_deliver", "delivered"}
        /\ \A w \in Workers : agent[w].pc \notin ({"unlog"} \cup HoldingPcs) \ {"begin", "image"}
    BY <1>3 DEF DeliveryInv, ImageJobsAreSilent
  <2>2. job'.state \notin {"ready_to_deliver", "delivered"}
    <3>1. CASE Exists /\ Exists'
      BY <2>1, <3>1, JobMoves DEF JobMoved, HoldingPcs
    <3>2. CASE ~Exists /\ Exists'
      BY <3>2, Creation DEF EmptyJob
    <3> QED BY <3>1, <3>2 DEF Exists
  <2>3. ASSUME NEW w \in Workers
        PROVE  agent'[w].pc \notin ({"unlog"} \cup HoldingPcs) \ {"begin", "image"}
    BY <1>1, <1>3, <2>1 DEF AgentMoved, Leaves, Notifies, Works, Starts, GoesOn, Records,
      TakesUp, Shift, HoldingPcs
  <2> QED BY <1>1, <1>3, <2>2, <2>3 DEF ImageJobsAreSilent
<1> QED BY <1>2, <1>3

-----------------------------------------------------------------------------
(* The answers agree, and the history is of the job.                       *)

\* Nobody says an answer who has not said it before, or saves it now.
LEMMA SaidMoves ==
  ASSUME DeliveryInv, DeliveryNext, NEW x \in Said', x \in Answers
  PROVE  \/ x \in Said
         \/ \E w \in Workers : SaveAnswer(agent[w].lease, agent[w].text) /\ x = job'.answer
<1>1. /\ "placeholder" \notin Answers /\ "notice" \notin Answers /\ None \notin Answers
      /\ \A w \in Workers : AgentMoved(w) /\ w \notin Callbacks
  BY TextKinds, AgentMoves, DeliveryAssumption DEF Agents
<1>2. ASSUME NEW w \in Workers, x = agent[w].text,
             agent[w].pc \in {"send", "write"} \/ agent[w].step > 1
      PROVE  x \in Said
  <2>1. agent[w].step > 1
    BY <1>1, <1>2 DEF DeliveryInv, StepsInOrder, HoldingPcs, DeliveryTypeOK, Agents
  <2> QED BY <1>2, <2>1 DEF Said
<1>3. ASSUME NEW m \in Messages, x = chat'[m]
      PROVE  x \in Said
  BY <1>3, ChatFrame DEF Said
<1>4. ASSUME NEW r \in wire', x = r.text
      PROVE  x \in Said
  <2>1. CASE r \in wire
    BY <1>4, <2>1 DEF Said
  <2>2. CASE r \notin wire
    <3>1. \/ \E w \in Workers : Shift(w, "send", "await") /\ r = Request(w)
          \/ \E a \in Agents : r = NoticeRequest(a)
      BY <1>4, <2>2, WorldMoves DEF WorldMoved, WireMoved
    <3>2. \A a \in Agents : r # NoticeRequest(a)
      BY <1>1, <1>4 DEF NoticeRequest
    <3>3. \A w \in Workers : Request(w).text = agent[w].text
      BY DEF Request
    <3> QED BY <1>2, <1>4, <3>1, <3>2, <3>3 DEF Shift
  <2> QED BY <2>1, <2>2
<1>5. ASSUME NEW m \in Messages, x = history'[m]
      PROVE  x \in Said
  <2>1. CASE history'[m] = history[m]
    BY <1>5, <2>1 DEF Said
  <2>2. CASE history'[m] # history[m]
    <3>1. PICK w \in Workers : agent[w].pc = "write" /\ history'[m] = agent[w].text
      BY <1>1, <1>5, <2>2, HistoryFrame
    <3> QED BY <1>2, <1>5, <3>1
  <2> QED BY <2>1, <2>2
<1>6. ASSUME NEW w \in Workers, agent'[w].step > 1, x = agent'[w].text
      PROVE  \/ x \in Said
             \/ SaveAnswer(agent[w].lease, agent[w].text) /\ x = job'.answer
  <2>1. CASE agent'[w].text = agent[w].text /\ agent'[w].step = agent[w].step
    BY <1>2, <1>6, <2>1
  <2>2. CASE TakesUp(w)
    <3>1. CASE Shift(w, "recheck", "prepare")
      <4>1. agent[w].step \in 2..(scenario.steps - 1) /\ agent'[w].text = agent[w].text
        BY <2>2, <3>1 DEF TakesUp, Shift
      <4>2. scenario.steps \in Nat
        BY DeliveryAssumption DEF DeliveryInv, DeliveryTypeOK, AllScenarios
      <4> QED BY <1>2, <1>6, <4>1, <4>2
    <3>2. CASE Shift(w, "read", "save") \/ Shift(w, "generate", "save")
      BY <1>6, <2>2, <3>2 DEF TakesUp, Shift, DeliveryInv, StepsInOrder, AnswerPcs
    <3> QED BY <1>6, <2>2, <3>1, <3>2 DEF TakesUp
  <2>3. TakesUp(w) \/ (agent'[w].text = agent[w].text /\ agent'[w].step = agent[w].step)
    BY <1>1 DEF AgentMoved, Leaves, Notifies, Works, Starts, GoesOn, Records, Remains, Same
  <2> QED BY <2>1, <2>2, <2>3
<1> QED BY <1>3, <1>4, <1>5, <1>6 DEF Said

\* No step brings up an answer other than the saved one.
LEMMA AnswersAgreeStep ==
  ASSUME DeliveryInv, DeliveryNext
  PROVE  AnswersAgree'
<1>1. /\ \A x, y \in Said \cap Answers : x = y
      /\ Exists => \A x \in Said \cap Answers : x = job.answer
      /\ None \notin Answers
  BY TextKinds DEF DeliveryInv, AnswersAgree
<1>2. CASE \E w \in Workers : SaveAnswer(agent[w].lease, agent[w].text)
  <2>1. Exists /\ Exists'
    <3>1. PICK w \in Workers : SaveAnswer(agent[w].lease, agent[w].text)
      BY <1>2
    <3>2. job'.state = "ready_to_deliver" /\ job.state \in WorkingStates
      BY <3>1 DEF SaveAnswer, DeliveryInv, IInv, TypeOK, Job
    <3> QED BY <3>2 DEF Exists, WorkingStates
  <2>2. \A x \in Said \cap Answers : x = job'.answer
    BY <1>1, <2>1, StoreFrame
  <2>3. \A x \in Said' \cap Answers : x = job'.answer
    BY <2>2, SaidMoves
  <2> QED BY <2>3 DEF AnswersAgree
<1>3. CASE ~(\E w \in Workers : SaveAnswer(agent[w].lease, agent[w].text))
  <2>1. Said' \cap Answers \subseteq Said \cap Answers
    BY <1>3, SaidMoves
  <2>2. Exists' => \A x \in Said \cap Answers : x = job'.answer
    <3>1. CASE Exists
      BY <1>1, <3>1, StoreFrame
    <3>2. CASE ~Exists /\ Exists'
      <4>1. Said \subseteq {None}
        BY <3>2, Creation DEF Said
      <4> QED BY <1>1, <4>1
    <3> QED BY <3>1, <3>2
  <2> QED BY <1>1, <2>1, <2>2 DEF AnswersAgree
<1> QED BY <1>2, <1>3

\* A receipt is kept.
LEMMA ReceiptsStep ==
  ASSUME [Next]_storeVars
  PROVE  receipts \subseteq receipts'
<1>1. CASE UNCHANGED storeVars
  BY <1>1 DEF storeVars
<1>2. ASSUME NEW l \in issued, OwnerStep(l) \/ NoticeStep(l)
      PROVE  receipts' = receipts
  <2>1. \A n \in Names, p \in Payloads : PrepareIntent(l, n, p) => receipts' = receipts
    BY Zenon DEF PrepareIntent
  <2>2. \A n \in Names, r \in Results : Checkpoint(l, n, r) => receipts' = receipts
    BY Zenon DEF Checkpoint
  <2>3. \A n \in Names : ClearIntent(l, n) => receipts' = receipts
    BY Zenon DEF ClearIntent
  <2>4. \A a \in Answers : SaveAnswer(l, a) => receipts' = receipts
    BY Zenon DEF SaveAnswer
  <2>5. \A target \in TerminalStates \cup {"failed_retryable"}, w \in BOOLEAN :
           Finish(l, target, w) => receipts' = receipts
    BY Zenon DEF Finish
  <2>6. Renew(l) \/ Release(l) \/ NoticeStep(l) => receipts' = receipts
    BY DEF Renew, Release, NoticeStep, CompleteNotice, FailNotice, ReleaseNotice
  <2> QED BY <1>2, <2>1, <2>2, <2>3, <2>4, <2>5, <2>6 DEF OwnerStep
<1>3. CASE \E t \in Tokens : Acquire(t) \/ ClaimNotice(t)
  BY <1>3 DEF Acquire, ClaimNotice
<1>4. CASE Purge
  BY <1>4 DEF Purge
<1>5. CASE \E id \in MessageIds, w \in BOOLEAN : RecordPublication(id) \/ FailureTakeover(id, w)
  BY <1>5 DEF RecordPublication, FailureTakeover
<1>6. CASE Create \/ ExpireJob \/ ExpireLease \/ ExpireNoticeLease
  BY <1>6 DEF Create, ExpireJob, ExpireLease, ExpireNoticeLease
<1> QED BY <1>1, <1>2, <1>3, <1>4, <1>5, <1>6 DEF Next

\* As long as nothing is erased an invocation under way finds the job.
LEMMA JobIsThere ==
  ASSUME DeliveryInv, purger \in {"idle", "marked"},
         (\E a \in Agents : agent[a].pc # "idle") \/ purger = "marked"
  PROVE  Exists
BY DEF DeliveryInv, NothingBeforePublication

\* How far the purge gets.
LEMMA PurgerMoves ==
  ASSUME DeliveryInv, DeliveryNext
  PROVE  /\ purger' \in {"idle", "marked"} => purger \in {"idle", "marked"}
         /\ purger' = "idle" => purger = "idle"
         /\ purger' = "erased" => purger = "erased" \/ (purger = "marked" /\ Exists /\ Purge)
         /\ purger' = "cleaned" => purger = "cleaned" \/ (purger = "erased" /\ CleanPurged)
<1>1. purger' = purger \/ MarkPurged \/ ErasePurged \/ CleanPurged
  BY WorldMoves DEF WorldMoved
<1> QED BY <1>1, JobIsThere DEF MarkPurged, ErasePurged, CleanPurged

\* No step writes into the history what a purge would not find.
LEMMA HistoryIsOfTheJobStep ==
  ASSUME DeliveryInv, DeliveryNext
  PROVE  HistoryIsOfTheJob'
<1> SUFFICES ASSUME NEW m \in Messages, history'[m] # None
             PROVE  /\ Exists' => \E n \in Names : job'.checkpoint[n] = m
                    /\ purger' = "erased" => m \in receipts'
                    /\ purger' # "cleaned"
  BY DEF HistoryIsOfTheJob
<1>1. /\ m # None /\ receipts \subseteq receipts' /\ m \in Results
      /\ Exists /\ Exists' => \A n \in Names :
           job.checkpoint[n] # None => job'.checkpoint[n] = job.checkpoint[n]
  BY TextKinds, StoreStep, ReceiptsStep, StoreFrame
<1>2. CASE history[m] # None
  <2>1. /\ Exists => \E n \in Names : job.checkpoint[n] = m
        /\ purger = "erased" => m \in receipts
        /\ purger # "cleaned"
    BY <1>2 DEF DeliveryInv, HistoryIsOfTheJob
  <2>2. Exists' => Exists
    BY <1>2, Creation
  <2>3. Exists /\ Purge => m \in receipts'
    BY <1>1, <2>1 DEF Purge
  <2>4. purger = "erased" => ~CleanPurged
    BY <2>1 DEF CleanPurged
  <2> QED BY <1>1, <2>1, <2>2, <2>3, <2>4, PurgerMoves
<1>3. CASE history[m] = None
  <2>1. /\ purger = "idle"
        /\ \/ \E w \in Workers : agent[w].pc = "write" /\ agent[w].message = m
           \/ \E a \in Agents : agent[a].pc = "notice_write" /\ agent[a].message = m
    BY <1>3, HistoryFrame
  <2>2. Exists
    BY <2>1, JobIsThere DEF Agents
  <2>3. \E n \in Names : job.checkpoint[n] = m
    BY <1>1, <2>1, <2>2, StepNames DEF DeliveryInv, MessagesAreRecorded, NoticePcs
  <2> QED BY <1>1, <2>1, <2>2, <2>3, PurgerMoves
<1> QED BY <1>2, <1>3

-----------------------------------------------------------------------------
(* Without stalls a worker keeps the job.                                  *)

\* A lease is dropped by its holder when it ends, or expires.
LEMMA LeaseDrops ==
  ASSUME DeliveryInv, DeliveryNext, lease # None, lease' # lease, Exists'
  PROVE  \/ "stall" \in Hazards \/ ~Running(lease)
         \/ \E v \in Workers :
              agent[v].lease = lease /\ agent[v].pc \in {"finish", "overtime", "release"}
<1>1. ~QuietStep
  BY QuietIsQuiet DEF storeVars
<1>2. ~CreateJob /\ ~RecordJob /\ ~LapseNoticeLease
  <2>1. Create \/ QuietStore => lease' = lease
    BY DEF Create, QuietStore, storeVars
  <2>2. \A id \in MessageIds : RecordPublication(id) => lease' = lease
    BY DEF RecordPublication
  <2>3. ~ExpireNoticeLease
    BY DEF ExpireNoticeLease
  <2> QED BY <2>1, <2>2, <2>3 DEF CreateJob, RecordJob, LapseNoticeLease
<1>3. ~ErasePurged
  <2>1. ~Purge
    BY EmptyJobIsFine DEF Purge, Exists
  <2>2. ~QuietStore
    BY DEF QuietStore, storeVars
  <2> QED BY <2>1, <2>2 DEF ErasePurged
<1>4. CASE LapseLease
  BY <1>4 DEF LapseLease
<1>5. ASSUME NEW w \in Workers, DeliveryStep(w) \/ Timeout(w)
      PROVE  agent[w].lease = lease /\ agent[w].pc \in {"finish", "overtime", "release"}
  <2>1. ~Deliver(w) /\ ~Timeout(w)
    BY DEF Deliver, Acquire, Acquirable, Timeout, ReleaseNotice, QuietStore, storeVars
  <2>2. ~PrepareStep(w) /\ ~ClearStep(w) /\ ~RecordStep(w) /\ ~StoreAnswer(w)
    BY DEF PrepareStep, PrepareIntent, ClearStep, ClearIntent, RecordStep, Checkpoint,
      StoreAnswer, SaveAnswer, QuietStore, storeVars
  <2>3. CASE FinishJob(w) \/ Overtime(w)
    BY <2>3 DEF FinishJob, Overtime, Finish, Owns, QuietStore, storeVars
  <2>4. CASE ReleaseHeldJob(w)
    BY <2>4 DEF ReleaseHeldJob, QuietStore, storeVars
  <2> QED BY <1>1, <1>5, <2>1, <2>2, <2>3, <2>4 DEF DeliveryStep, QuietStep
<1>6. ASSUME NEW c \in Callbacks, CallbackStep(c)
      PROVE  FALSE
  BY <1>1, <1>6 DEF CallbackStep, CallBack, FailureTakeover, QuietStore, storeVars, QuietStep
<1>7. ASSUME NEW a \in Agents, FailureNoticeStep(a)
      PROVE  FALSE
  BY <1>1, <1>7 DEF FailureNoticeStep, QuietStep, ClaimHeldNotice, ClaimNotice,
    ReleaseHeldNotice, ReleaseNotice, SettleNotice, CompleteNotice, FailNotice,
    QuietStore, storeVars
<1> QED BY <1>1, <1>2, <1>3, <1>4, <1>5, <1>6, <1>7 DEF DeliveryNext, QuietStep

\* The lease on record stands for ownership.
LEMMA OwnedByLease ==
  ASSUME IInv, NEW l \in Leases, lease = l
  PROVE  Owns(l)
<1>1. lease.fence = job.fence /\ job.state \in WorkingStates
  BY JobStoreAssumption DEF IInv, LeaseIsCurrent
<1> QED BY <1>1 DEF Owns, Live, Exists, WorkingStates, TerminalStates

\* No step but a stall's or a purge's takes the job from who works on it.
LEMMA NobodyIsRobbedStep ==
  ASSUME DeliveryInv, DeliveryNext
  PROVE  NobodyIsRobbed'
<1> SUFFICES ASSUME "stall" \notin Hazards', Exists', NEW w \in Workers
             PROVE  /\ agent'[w].pc \in HoldingPcs => Owns(agent[w].lease)'
                    /\ agent'[w].pc # "unlog"
  BY DEF NobodyIsRobbed
<1>1. /\ AgentMoved(w) /\ w \notin Callbacks /\ w \in Agents /\ Hazards' = Hazards
      /\ IInv' /\ None \notin Leases /\ issued \subseteq Leases /\ issued' \subseteq Leases
  BY AgentMoves, WorldMoves, StoreFrame, DeliveryAssumption, JobStoreAssumption
  DEF WorldMoved, Hazards, Agents, IInv, TypeOK
<1>2. CASE ~Exists
  BY <1>1, <1>2, Creation DEF HoldingPcs
<1>3. CASE Exists
  <2>1. /\ agent[w].pc \in HoldingPcs => Owns(agent[w].lease)
        /\ agent[w].pc # "unlog"
    BY <1>1, <1>3 DEF DeliveryInv, NobodyIsRobbed
  <2>2. agent'[w].pc # "unlog"
    BY <1>1, <2>1 DEF AgentMoved, Leaves, Notifies, Works, Starts, GoesOn, Records, TakesUp,
      Shift, HoldingPcs
  <2>3. ASSUME agent'[w].pc \in HoldingPcs
        PROVE  lease' = agent'[w].lease /\ agent'[w].lease \in issued'
    <3>1. agent'[w].lease \in issued'
      BY <1>1, <2>3, LeaseMoves DEF HoldsItsOwn, LeasedPcs
    <3>2. CASE Starts(w)
      BY <3>1, <3>2 DEF Starts
    <3>3. CASE ~Starts(w)
      <4>1. agent[w].pc \in HoldingPcs
        BY <1>1, <2>1, <2>3, <3>3 DEF AgentMoved, Leaves, Notifies, Works, GoesOn, Records,
          TakesUp, Shift, HoldingPcs
      <4>2. /\ agent[w].lease = lease /\ lease # None
            /\ agent'[w].lease = agent[w].lease
        BY <2>1, <4>1, LeaseStays DEF Owns, LeasedPcs
      <4>3. Running(lease)
        BY <1>1, <4>1, <4>2 DEF Running, HoldingPcs
      <4>4. ASSUME NEW v \in Workers, agent[v].lease = lease,
                   agent[v].pc \in {"finish", "overtime", "release"}
            PROVE  FALSE
        <5>1. v = w
          BY <4>2, <4>4, OneOwner
        <5> QED BY <4>1, <4>4, <5>1 DEF HoldingPcs
      <4>5. lease' = lease
        BY <1>1, <4>2, <4>3, <4>4, LeaseDrops
      <4> QED BY <3>1, <4>2, <4>5
    <3> QED BY <3>2, <3>3
  <2>4. ASSUME agent'[w].pc \in HoldingPcs
        PROVE  Owns(agent[w].lease)'
    <3>1. lease' # None /\ lease' = agent'[w].lease
      BY <1>1, <2>3, <2>4
    <3>2. lease'.fence = job'.fence /\ job'.state \in WorkingStates
      BY <1>1, <3>1 DEF IInv, LeaseIsCurrent
    <3> QED BY <3>1, <3>2 DEF Owns, Live, Exists, WorkingStates, TerminalStates
  <2> QED BY <2>2, <2>4
<1> QED BY <1>2, <1>3

-----------------------------------------------------------------------------
(* What has been logged stays logged.                                      *)

\* How late a version of a message each text is.
LEMMA Versions ==
  /\ Version(None) = 0 /\ Version("placeholder") = 1 /\ Version("notice") = 3
  /\ \A a \in Answers : Version(a) = 2
BY TextKinds DEF Version

\* Without stalls and purge the history of a message only gets later.
LEMMA HistoryGrows ==
  ASSUME DeliveryInv, DeliveryNext, "stall" \notin Hazards, purger' = "idle",
         NEW m \in Messages, history[m] # None
  PROVE  /\ history'[m] # None
         /\ history[m] \in Answers \cup {"notice"} => history'[m] \in Answers \cup {"notice"}
         /\ history[m] = "notice" => history'[m] = "notice"
<1>1. CASE history'[m] = history[m]
  BY <1>1
<1>2. CASE history'[m] # history[m]
  <2>1. purger = "idle" /\ ~CleanPurged
    BY PurgerMoves DEF CleanPurged
  <2>2. ASSUME NEW w \in Workers, agent[w].pc = "unlog"
        PROVE  FALSE
    <3>1. Exists
      BY <2>1, <2>2, JobIsThere DEF Agents
    <3> QED BY <2>2, <3>1 DEF DeliveryInv, NobodyIsRobbed
  <2>3. ASSUME NEW w \in Workers, history'[m] = agent[w].text,
               ~(Version(agent[w].text) < Version(history[m]))
        PROVE  /\ history'[m] # None
               /\ history[m] \in Answers \cup {"notice"} => history'[m] \in Answers
               /\ history[m] # "notice"
    <3>1. agent[w].text \in Answers \cup {"placeholder"}
      BY WorkerArguments, TextKinds
    <3> QED BY <2>3, <3>1, Versions, TextKinds
  <2> QED BY <1>2, <2>1, <2>2, <2>3, HistoryFrame, TextKinds
<1> QED BY <1>1, <1>2

\* What a write leaves in the history.
LEMMA WrittenFacts ==
  ASSUME DeliveryInv, DeliveryNext, NEW m \in Messages, NEW text \in Texts, Upsert(m, text),
         purger = "idle"
  PROVE  /\ history'[m] # None
         /\ text \in Answers => history'[m] \in Answers \cup {"notice"}
         /\ text = "notice" => history'[m] = "notice"
<1>1. history \in [Messages -> Texts \cup {None}]
  BY DEF DeliveryInv, DeliveryTypeOK
<1>2. history'[m] = text \/ (history'[m] = history[m] /\ Version(text) < Version(history[m]))
  BY <1>1 DEF Upsert
<1>3. history[m] \in Answers \cup {"placeholder", "notice", None} /\ text # None
  BY <1>1, TextKinds
<1>4. text \in Answers \cup {"placeholder", "notice"}
  BY TextKinds
<1> QED BY <1>2, <1>3, <1>4, Versions, TextKinds

\* A step on record that is logged stays so.
LEMMA LoggedStays ==
  ASSUME DeliveryInv, DeliveryNext, "stall" \notin Hazards, purger' = "idle",
         Exists, Exists', NEW i \in 1..Len(Steps), job.checkpoint[Steps[i]] # None, Logged(i)
  PROVE  Logged(i)'
<1> DEFINE m == job.checkpoint[Steps[i]]
<1>1. job'.checkpoint[Steps[i]] = m
  BY StoreFrame, StepNames
<1>2. m \in Messages
  BY StepNames, TextKinds DEF DeliveryInv, IInv, TypeOK, Job
<1>3. /\ i = 1 => history[m] # None
      /\ i # 1 => history[m] \in Answers \cup {"notice"}
  BY DEF Logged
<1> HIDE DEF m
<1>4. /\ i = 1 => history'[m] # None
      /\ i # 1 => history'[m] \in Answers \cup {"notice"}
  BY <1>2, <1>3, HistoryGrows, TextKinds
<1> QED BY <1>1, <1>4 DEF Logged

\* A step that is being logged is logged by the time its invocation goes on.
LEMMA LoggingEnds ==
  ASSUME DeliveryInv, DeliveryNext, "stall" \notin Hazards, purger' = "idle",
         Exists, Exists', NEW w \in Workers, NEW i \in Behind(w)',
         i = agent[w].step, Logging(w), ~(i = agent'[w].step /\ Logging(w)')
  PROVE  Logged(i)'
<1>1. /\ AgentMoved(w) /\ w \notin Callbacks /\ agent[w].step \in 1..Len(Steps)
      /\ Name(w) = Steps[i] /\ Name(w) \in Names /\ agent[w].text \in Payloads
  BY AgentMoves, WorkerArguments, DeliveryAssumption
  DEF Agents, DeliveryInv, DeliveryTypeOK, Name
<1>2. Shift(w, "write", "recheck") /\ Upsert(agent[w].message, agent[w].text)
  <2>1. CASE Leaves(w)
    <3>1. /\ agent'[w].step = agent[w].step
          /\ agent'[w].pc \notin LogPcs \cup AnswerPcs
          /\ agent'[w].pc = "finish" => agent'[w].target # "delivered"
      BY <2>1 DEF Leaves, Concludes, Remains, Same, Logging, LogPcs, AnswerPcs
    <3> QED BY <1>1, <3>1 DEF Behind
  <2>2. CASE GoesOn(w)
    BY <2>2 DEF GoesOn, Shift, Remains, Same, Logging
  <2>3. agent'[w] # agent[w]
    BY DEF Logging
  <2>4. ~Notifies(w) /\ ~Starts(w) /\ ~Records(w) /\ ~TakesUp(w)
    BY DEF Notifies, Starts, Records, TakesUp, Shift, Logging
  <2> QED BY <1>1, <2>1, <2>2, <2>3, <2>4 DEF AgentMoved, Works
<1>3. agent[w].message = job.checkpoint[Steps[i]] /\ agent[w].message \in Messages
  <2>1. agent[w].message # None
    BY <1>2 DEF DeliveryInv, StepsInOrder, Shift, LogPcs
  <2> QED BY <1>1, <1>2, <2>1
      DEF DeliveryInv, MessagesAreRecorded, DeliveryTypeOK, Agents, Shift, LogPcs
<1>4. job'.checkpoint[Steps[i]] = agent[w].message
  BY <1>1, <1>3, StoreFrame, TextKinds
<1>5. i # 1 => agent[w].text \in Answers
  BY <1>1 DEF DeliveryInv, StepsInOrder
<1>6. /\ history'[agent[w].message] # None
      /\ agent[w].text \in Answers => history'[agent[w].message] \in Answers \cup {"notice"}
  BY <1>1, <1>2, <1>3, WrittenFacts, PurgerMoves DEF Texts
<1> QED BY <1>4, <1>5, <1>6 DEF Logged

\* No step puts a delivery step behind an invocation before its log.
LEMMA StepsAreLoggedStep ==
  ASSUME DeliveryInv, DeliveryNext
  PROVE  StepsAreLogged'
<1> SUFFICES ASSUME "stall" \notin Hazards', purger' = "idle", Exists'
             PROVE  /\ \A w \in Workers : \A i \in Behind(w)' :
                         ~(i = agent'[w].step /\ Logging(w)') => Logged(i)'
                    /\ job'.state = "delivered" => \A i \in 1..scenario'.steps : Logged(i)'
  BY DEF StepsAreLogged
<1>1. /\ scenario' = scenario /\ Hazards' = Hazards /\ purger = "idle"
      /\ 1..scenario.steps \subseteq 1..Len(Steps)
  <2>1. scenario' = scenario /\ scenario.steps \in 2..Len(Steps)
    BY WorldMoves, DeliveryAssumption
    DEF WorldMoved, DeliveryInv, DeliveryTypeOK, AllScenarios
  <2> QED BY <2>1, StepNames, PurgerMoves DEF Hazards
<1>2. CASE ~Exists
  BY <1>2, NothingBehindYet, Creation DEF EmptyJob
<1>3. CASE Exists
  <2>1. /\ \A w \in Workers : \A i \in Behind(w) :
             /\ job.checkpoint[Steps[i]] # None
             /\ ~(i = agent[w].step /\ Logging(w)) => Logged(i)
        /\ job.state = "delivered" => \A i \in 1..scenario.steps :
             job.checkpoint[Steps[i]] # None /\ Logged(i)
    BY <1>1, <1>3 DEF DeliveryInv, StepsAreRecorded, StepsAreLogged
  <2>2. ASSUME NEW w \in Workers, NEW i \in Behind(w)', ~(i = agent'[w].step /\ Logging(w)')
        PROVE  Logged(i)'
    <3>1. CASE i \in Behind(w) /\ ~(i = agent[w].step /\ Logging(w))
      BY <1>1, <1>3, <2>1, <2>2, <3>1, BehindMoves, LoggedStays
    <3>2. CASE i = agent[w].step /\ Logging(w)
      BY <1>1, <1>3, <2>2, <3>2, LoggingEnds
    <3>3. CASE Records(w) /\ i = agent[w].step
      BY <2>2, <3>3 DEF Records, Same, Shift, Logging
    <3> QED BY <2>2, <3>1, <3>2, <3>3, BehindMoves
  <2>3. ASSUME job'.state = "delivered", NEW i \in 1..scenario.steps
        PROVE  job.checkpoint[Steps[i]] # None /\ Logged(i)
    <3>1. CASE job.state = "delivered"
      BY <2>1, <2>3, <3>1
    <3>2. CASE job.state # "delivered"
      BY <1>3, <2>1, <2>3, <3>2, ConcludingFacts DEF Logging
    <3> QED BY <3>1, <3>2
  <2> QED BY <1>1, <1>3, <2>2, <2>3, LoggedStays
<1> QED BY <1>2, <1>3

-----------------------------------------------------------------------------
(* The failure notice, the ambiguous step, and what is held at the end.    *)

\* A notice that is recorded as shown is one of a job that failed.
LEMMA SettledNotice ==
  ASSUME IInv, job.notice = "delivered"
  PROVE  Exists /\ job.placeholder # None /\ job.placeholder = job.checkpoint[Placeholder]
BY DEF IInv, NoticeIsOwedByFailure, PlaceholderIsCheckpointed, Exists

\* Who found the notice there and is through with it is remembered.
LEMMA UnmodifiedStays ==
  ASSUME DeliveryInv, DeliveryNext, NEW a \in Agents, a \in unmodified,
         agent[a].pc \notin TalkingPcs, job.notice # "pending" \/ agent[a].pc # "claim"
  PROVE  a \in unmodified' /\ agent'[a].pc \notin TalkingPcs
<1>1. a \in unmodified'
  BY WorldMoves DEF WorldMoved, TalkingPcs
<1>2. AgentMoved(a)
  BY AgentMoves
<1>3. CASE agent'[a] = agent[a] \/ Leaves(a) \/ Notifies(a)
  BY <1>1, <1>3 DEF Leaves, Notifies, Shift, TalkingPcs
<1>4. CASE Works(a) \/ Begins(a)
  BY <1>1, <1>4 DEF Works, Starts, GoesOn, Records, TakesUp, Begins, IdleAgent, Shift,
    TalkingPcs
<1> QED BY <1>1, <1>2, <1>3, <1>4 DEF AgentMoved

\* No step records a notice as shown that was not.
LEMMA NoticesAreShownStep ==
  ASSUME DeliveryInv, DeliveryNext
  PROVE  NoticesAreShown'
<1> DEFINE Good == Answers \cup {"notice"}
           Waits(a) == agent[a].pc = "notice_await"
           Logs(a) == agent[a].pc \in {"notice_log", "notice_write", "notice_done"}
<1>1. /\ Hazards' = Hazards /\ (purger' = "idle" => purger = "idle")
      /\ IInv /\ IInv'
  BY WorldMoves, PurgerMoves, StoreFrame DEF WorldMoved, Hazards
<1>2. ASSUME NEW a \in Agents, agent'[a].pc \in NoticePcs
      PROVE  /\ agent'[a].pc # "notice_call" =>
                  agent'[a].message = agent[a].message /\ agent[a].message \in Messages
             /\ Waits(a)' => Waits(a) \/ NoticeRequest(a) \in wire'
             /\ Logs(a)' => Logs(a) \/ (Waits(a) /\ NoticeRequest(a) \notin wire)
             /\ agent'[a].pc = "notice_done" =>
                  \/ agent[a].pc = "notice_done"
                  \/ Upsert(agent[a].message, "notice")
                  \/ /\ a \in unmodified' /\ history' = history
                     /\ history[agent[a].message] \in Answers
  <2>1. AgentMoved(a)
    BY AgentMoves
  <2>2. ~Leaves(a) /\ ~Works(a) /\ ~Begins(a)
    BY <1>2 DEF Leaves, Works, Starts, GoesOn, Records, TakesUp, Begins, IdleAgent, Shift,
      NoticePcs
  <2>3. agent[a].pc \in NoticePcs => agent[a].message \in Messages
    BY DEF DeliveryInv, MessagesAreShown, DeliveryTypeOK
  <2>4. CASE agent'[a] = agent[a]
    BY <1>2, <2>3, <2>4
  <2>5. CASE Notifies(a)
    BY <1>2, <2>3, <2>5 DEF Notifies, Shift, NoticePcs, NoticeRequest, Pending
  <2> QED BY <2>1, <2>2, <2>4, <2>5 DEF AgentMoved
<1>3. ASSUME NEW a \in Agents, Waits(a)'
      PROVE  chat'[agent'[a].message] \in Good \/ NoticeRequest(a)' \in wire'
  <2>1. /\ agent'[a].message = agent[a].message /\ agent[a].message \in Messages
        /\ Waits(a) \/ NoticeRequest(a) \in wire'
    BY <1>2, <1>3 DEF NoticePcs
  <2>2. NoticeRequest(a)' = NoticeRequest(a)
    BY <2>1 DEF NoticeRequest
  <2>3. CASE Waits(a) /\ chat[agent[a].message] \in Good
    BY <2>1, <2>3, ChatFrame
  <2>4. CASE Waits(a) /\ NoticeRequest(a) \in wire /\ NoticeRequest(a) \notin wire'
    <3>1. NoticeRequest(a).from = a /\ NoticeRequest(a).message = agent[a].message
          /\ NoticeRequest(a).text = "notice"
      BY DEF NoticeRequest
    <3>2. Land(NoticeRequest(a))
      BY <1>3, <2>4, <3>1, WorldMoves DEF WorldMoved, WireMoved
    <3>3. chat' = [chat EXCEPT ![agent[a].message] = "notice"]
      BY <3>1, <3>2 DEF Land
    <3> QED BY <2>1, <3>3 DEF DeliveryInv, DeliveryTypeOK
  <2>5. Waits(a) => chat[agent[a].message] \in Good \/ NoticeRequest(a) \in wire
    BY DEF DeliveryInv, NoticesAreShown, NoticeRequest
  <2> QED BY <2>1, <2>2, <2>3, <2>4, <2>5
<1>4. ASSUME NEW a \in Agents, Logs(a)'
      PROVE  chat'[agent'[a].message] \in Good
  <2>1. /\ agent'[a].message = agent[a].message /\ agent[a].message \in Messages
        /\ Logs(a) \/ (Waits(a) /\ NoticeRequest(a) \notin wire)
    BY <1>2, <1>4 DEF NoticePcs
  <2>2. chat[agent[a].message] \in Good
    BY <2>1 DEF DeliveryInv, NoticesAreShown, NoticeRequest
  <2> QED BY <2>1, <2>2, ChatFrame
<1>5. ASSUME NEW a \in Agents, agent'[a].pc = "notice_done", purger' = "idle",
             "stall" \notin Hazards
      PROVE  \/ history'[agent'[a].message] = "notice"
             \/ history'[agent'[a].message] \in Answers /\ a \in unmodified'
  <2>1. /\ agent'[a].message = agent[a].message /\ agent[a].message \in Messages
        /\ \/ agent[a].pc = "notice_done"
           \/ Upsert(agent[a].message, "notice")
           \/ /\ a \in unmodified' /\ history' = history
              /\ history[agent[a].message] \in Answers
    BY <1>2, <1>5 DEF NoticePcs
  <2>2. CASE agent[a].pc = "notice_done"
    <3>1. \/ history[agent[a].message] = "notice"
          \/ history[agent[a].message] \in Answers /\ a \in unmodified
      BY <1>1, <1>5, <2>2 DEF DeliveryInv, NoticesAreShown
    <3>2. a \in unmodified => a \in unmodified'
      BY <2>2, UnmodifiedStays DEF TalkingPcs
    <3> QED BY <1>5, <2>1, <3>1, <3>2, HistoryGrows, TextKinds
  <2>3. CASE Upsert(agent[a].message, "notice")
    BY <1>1, <1>5, <2>1, <2>3, WrittenFacts, TextKinds
  <2> QED BY <2>1, <2>2, <2>3
<1>6. ASSUME job'.notice = "delivered"
      PROVE  /\ chat'[job'.placeholder] \in Good
             /\ purger' = "idle" /\ "stall" \notin Hazards =>
                  \/ history'[job'.placeholder] = "notice"
                  \/ /\ history'[job'.placeholder] \in Answers
                     /\ \E a \in unmodified' : agent'[a].pc \notin TalkingPcs
  <2> DEFINE Known ==
        \E a \in unmodified :
          agent[a].pc \notin TalkingPcs /\ (job.notice # "pending" \/ agent[a].pc # "claim")
  <2>1. Exists' /\ job'.placeholder # None
    BY <1>1, <1>6 DEF IInv, NoticeIsOwedByFailure, Exists
  <2>2. Exists
    BY <1>6, <2>1, Creation, EmptyJobIsFine
  <2>3. \/ job.notice = "delivered"
        \/ \E a \in Agents : agent[a].pc = "notice_done"
    BY <1>6, <2>1, <2>2, JobMoves DEF JobMoved
  <2>4. PICK m \in Messages :
          /\ m = job.checkpoint[Placeholder] /\ chat[m] \in Good
          /\ purger = "idle" /\ "stall" \notin Hazards =>
               history[m] = "notice" \/ (history[m] \in Answers /\ Known)
    <3>1. CASE job.notice = "delivered"
      <4>1. job.checkpoint[Placeholder] \in Messages
        BY <1>1, <3>1, SettledNotice, StepNames DEF DeliveryInv, CheckpointsAreShown
      <4> QED BY <1>1, <3>1, <4>1, SettledNotice DEF DeliveryInv, NoticesAreShown, SettledIsShown
    <3>2. ASSUME NEW a \in Agents, agent[a].pc = "notice_done"
          PROVE  /\ agent[a].message = job.checkpoint[Placeholder]
                 /\ agent[a].message \in Messages
                 /\ chat[agent[a].message] \in Good
                 /\ purger = "idle" /\ "stall" \notin Hazards =>
                      \/ history[agent[a].message] = "notice"
                      \/ history[agent[a].message] \in Answers /\ Known
      BY <2>2, <3>2 DEF DeliveryInv, MessagesAreRecorded, MessagesAreShown, NoticePcs,
        TalkingPcs, NoticesAreShown, DeliveryTypeOK
    <3> QED BY <2>3, <3>1, <3>2
  <2>5. job'.placeholder = m
    <3>1. job'.checkpoint[Placeholder] = job.checkpoint[Placeholder]
      BY <2>1, <2>2, <2>4, StoreFrame, StepNames, TextKinds
    <3> QED BY <1>1, <2>4, <3>1 DEF IInv, PlaceholderIsCheckpointed
  <2>6. Known => \E a \in unmodified' : agent'[a].pc \notin TalkingPcs
    <3>1. ASSUME NEW a \in unmodified, agent[a].pc \notin TalkingPcs,
                 job.notice # "pending" \/ agent[a].pc # "claim"
          PROVE  a \in unmodified' /\ agent'[a].pc \notin TalkingPcs
      <4>1. a \in Agents
        BY DEF DeliveryInv, DeliveryTypeOK
      <4> QED BY <3>1, <4>1, UnmodifiedStays
    <3> QED BY <3>1
  <2> QED BY <1>1, <2>4, <2>5, <2>6, ChatFrame, HistoryGrows, TextKinds
<1> QED BY <1>1, <1>3, <1>4, <1>5, <1>6 DEF NoticesAreShown, SettledIsShown, NoticeRequest

\* A step that its owner announced stays open until the owner closes it.
LEMMA OpenStays ==
  ASSUME DeliveryInv, DeliveryNext, Exists, Exists', NEW n \in Names,
         job.intent[n] # None, job.checkpoint[n] = None,
         \A v \in Workers : Owns(agent[v].lease) => agent[v].pc \notin {"clear", "record"}
  PROVE  job'.intent[n] # None /\ job'.checkpoint[n] = None
BY JobMoves DEF JobMoved, Shift

\* No step ends a job as ambiguous whose messages are all accounted for.
LEMMA AmbiguityIsOpenStep ==
  ASSUME DeliveryInv, DeliveryNext
  PROVE  AmbiguityIsOpen'
<1>1. Sends \subseteq Names /\ Names = Sends \cup Repeatable /\ Edit \in Repeatable
  BY StepNames
<1>2. ASSUME NEW w \in Workers, agent'[w].pc = "finish", agent'[w].target = "failed_ambiguous",
             Owns(agent[w].lease)'
      PROVE  \E n \in Sends : job'.intent[n] # None /\ job'.checkpoint[n] = None
  <2>1. AgentMoved(w) /\ w \notin Callbacks /\ Name(w) \in Names /\ w \in Agents
    BY AgentMoves, WorkerArguments, DeliveryAssumption DEF Agents
  <2>2. agent'[w] = agent[w] \/ Leaves(w)
    BY <1>2, <2>1 DEF AgentMoved, Notifies, Works, Starts, GoesOn, Records, TakesUp, Shift
  <2>3. agent[w].lease # None /\ Owns(agent[w].lease)
    <3>1. agent[w].lease # None
      <4>1. agent'[w].lease # None
        BY <1>2, <2>1, LeaseMoves DEF HoldsItsOwn, LeasedPcs
      <4> QED BY <2>2, <4>1 DEF Leaves, Remains, Same
    <3> QED BY <1>2, <3>1, LeaseStays
  <2>4. Exists /\ Exists'
    BY <1>2, <2>3 DEF Owns, Live, Exists
  <2>5. PICK n \in Sends : job.intent[n] # None /\ job.checkpoint[n] = None
    <3>1. CASE agent'[w] = agent[w]
      BY <1>2, <2>3, <3>1 DEF DeliveryInv, AmbiguityIsOpen
    <3>2. CASE agent[w].pc = "await" /\ Name(w) \notin Repeatable
      BY <1>1, <2>1, <2>3, <2>4, <3>2
      DEF DeliveryInv, AnnouncedFirst, UnrecordedWhileOwned
    <3>3. CASE IntentStatus(agent[w].lease, Name(w), agent[w].text) = "ambiguous"
      BY <1>1, <2>1, <3>3 DEF IntentStatus
    <3> QED BY <1>2, <2>2, <3>1, <3>2, <3>3 DEF Leaves, Concludes
  <2>6. agent[w].pc \notin {"clear", "record"}
    <3>1. CASE agent'[w] = agent[w]
      BY <1>2, <3>1
    <3>2. CASE Leaves(w)
      BY <1>2, <3>2 DEF Leaves, Concludes
    <3> QED BY <2>2, <3>1, <3>2
  <2>7. \A v \in Workers : Owns(agent[v].lease) => agent[v].pc \notin {"clear", "record"}
    BY <2>3, <2>6, OneOwner, LeaseStays DEF LeasedPcs, HoldingPcs
  <2> QED BY <1>1, <2>4, <2>5, <2>7, OpenStays
<1>3. ASSUME job'.state = "failed_ambiguous"
      PROVE  \E n \in Sends : job'.intent[n] # None /\ job'.checkpoint[n] = None
  <2>1. Exists' /\ Exists
    BY <1>3, Creation, EmptyJobIsFine DEF Exists
  <2>2. CASE job.state = "failed_ambiguous"
    <3>1. \A v \in Workers : ~Owns(agent[v].lease)
      BY <2>2 DEF Owns, Live, TerminalStates
    <3>2. PICK n \in Sends : job.intent[n] # None /\ job.checkpoint[n] = None
      BY <2>2 DEF DeliveryInv, AmbiguityIsOpen, AmbiguousHasOpenIntent
    <3> QED BY <1>1, <2>1, <3>1, <3>2, OpenStays
  <2>3. CASE job.state # "failed_ambiguous"
    <3>1. PICK w \in Workers :
            /\ Owns(agent[w].lease) /\ agent[w].pc = "finish"
            /\ agent[w].target = "failed_ambiguous"
      BY <1>3, <2>1, <2>3, JobMoves DEF JobMoved
    <3>2. PICK n \in Sends : job.intent[n] # None /\ job.checkpoint[n] = None
      BY <3>1 DEF DeliveryInv, AmbiguityIsOpen
    <3>3. \A v \in Workers : Owns(agent[v].lease) => agent[v].pc \notin {"clear", "record"}
      BY <3>1, OneOwner, LeaseStays DEF LeasedPcs, HoldingPcs
    <3> QED BY <1>1, <2>1, <3>2, <3>3, OpenStays
  <2> QED BY <2>2, <2>3
<1> QED BY <1>2, <1>3 DEF AmbiguityIsOpen, AmbiguousHasOpenIntent

\* No step ends an invocation with the job still in its hands.
LEMMA NothingHeldWhenDoneStep ==
  ASSUME DeliveryInv, DeliveryNext
  PROVE  NothingHeldWhenDone'
<1> SUFFICES ASSUME NEW a \in Agents, agent'[a].pc = "done", agent'[a].lease # None
             PROVE  lease' # agent'[a].lease \/ a \in stranded'
  BY DEF NothingHeldWhenDone
<1>1. AgentMoved(a) /\ stranded \subseteq stranded'
  BY AgentMoves, WorldMoves DEF WorldMoved
<1>2. CASE agent'[a] = agent[a]
  <2>1. (lease # agent[a].lease \/ a \in stranded) /\ agent[a].lease \in issued
    BY <1>2 DEF DeliveryInv, NothingHeldWhenDone, LeasesAreHeld
  <2>2. \A t \in Tokens : Acquire(t) => lease'.token = t /\ FreshToken(t)
    BY DEF Acquire
  <2>3. lease' \in {lease, None} \/ \E t \in Tokens : Acquire(t)
    BY LeaseFrame
  <2> QED BY <1>1, <1>2, <2>1, <2>2, <2>3 DEF FreshToken
<1>3. CASE Leaves(a)
  BY <1>3 DEF Leaves, Remains, Same, Shift
<1>4. ~Notifies(a) /\ ~Works(a) /\ ~Begins(a)
  BY DEF Notifies, Works, Starts, GoesOn, Records, TakesUp, Begins, IdleAgent, Shift
<1> QED BY <1>1, <1>2, <1>3, <1>4 DEF AgentMoved

-----------------------------------------------------------------------------
(* The invariant holds from the beginning and over every step.             *)

\* The invariant holds when nothing has happened yet.
LEMMA InitHasDeliveryInv == DeliveryInit => DeliveryInv
<1> SUFFICES ASSUME DeliveryInit PROVE DeliveryInv
  OBVIOUS
<1>1. /\ IInv /\ job = EmptyJob("absent") /\ ~Exists
      /\ lease = None /\ receipts = {} /\ issued = {}
  BY InitHasIInv DEF DeliveryInit, Init, Exists, EmptyJob
<1>2. /\ \A n \in Names : job.intent[n] = None /\ job.checkpoint[n] = None
      /\ job.notice = "none" /\ job.state = "absent"
  BY <1>1 DEF EmptyJob
<1>3. /\ \A a \in Agents :
           /\ agent[a].pc = "idle" /\ agent[a].lease = None /\ agent[a].notice = None
           /\ agent[a].step = 1 /\ agent[a].text = "placeholder" /\ agent[a].message = None
           /\ agent[a].target = "none"
      /\ Workers \subseteq Agents
  BY DEF DeliveryInit, IdleAgent, Agents
<1>4. /\ webhook = "new" /\ wire = {} /\ purger = "idle" /\ epoch = 0 /\ faults = 0
      /\ chat = [m \in Messages |-> None] /\ history = chat
      /\ scenario \in Scenarios /\ scenario.steps \in 2..Len(Steps)
      /\ unmodified = {} /\ stranded = {}
  BY DeliveryAssumption DEF DeliveryInit, AllScenarios
<1>5. DeliveryTypeOK
  <2>1. agent \in [Agents -> AgentRecords]
    BY IdleAgentIsTyped DEF DeliveryInit
  <2> QED BY <1>4, <2>1, DeliveryAssumption DEF DeliveryTypeOK, AgentRecords
<1>6. LeasesAreHeld /\ LeasesAreDistinct /\ NothingBeforePublication
  BY <1>1, <1>3, <1>4
  DEF LeasesAreHeld, LeasesAreDistinct, NothingBeforePublication, LeasedPcs, HoldingPcs, NoticePcs
<1>7. StepsInOrder
  BY <1>3, <1>4, TextKinds, StepNames DEF StepsInOrder, LogPcs, AnswerPcs
<1>8. MessagesAreShown /\ NoticesAreOfFailedJobs
  BY <1>2, <1>3, <1>4, TextKinds DEF MessagesAreShown, NoticesAreOfFailedJobs, NoticePcs
<1>9. WireIsOrderly /\ OneRequestAtATime /\ ChatIsOrderly
  BY <1>4 DEF WireIsOrderly, OneRequestAtATime, ChatIsOrderly
<1>10. \A n \in Sends : MayPost(n) = {}
  BY <1>3, <1>4, TextKinds DEF MayPost, Posted
<1>11. PostedOnce /\ PostedUnderIntent
  BY <1>10 DEF PostedOnce, PostedUnderIntent
<1>12. PostedInOrder
  BY <1>10, StepNames DEF PostedInOrder, MayPost
<1>13. AnnouncedFirst /\ UnrecordedWhileOwned /\ AnsweredIsLanded
  BY <1>1, <1>3 DEF AnnouncedFirst, UnrecordedWhileOwned, AnsweredIsLanded
<1>14. CheckpointsAreShown
  BY <1>2, StepNames DEF CheckpointsAreShown
<1>15. StepsAreRecorded /\ MessagesAreRecorded /\ NobodyIsRobbed /\ StepsAreLogged
  BY <1>1 DEF StepsAreRecorded, MessagesAreRecorded, NobodyIsRobbed, StepsAreLogged
<1>16. ImageJobsAreSilent
  BY <1>2, <1>3 DEF ImageJobsAreSilent, HoldingPcs
<1>17. AnswersAgree
  <2>1. Said \subseteq {None}
    BY <1>3, <1>4 DEF Said
  <2> QED BY <2>1, TextKinds DEF AnswersAgree
<1>18. HistoryIsOfTheJob
  BY <1>4 DEF HistoryIsOfTheJob
<1>19. NoticesAreShown /\ AmbiguityIsOpen /\ NothingHeldWhenDone
  BY <1>2, <1>3
  DEF NoticesAreShown, SettledIsShown, AmbiguityIsOpen, AmbiguousHasOpenIntent,
    NothingHeldWhenDone
<1> QED BY <1>1, <1>5, <1>6, <1>7, <1>8, <1>9, <1>11, <1>12, <1>13, <1>14, <1>15, <1>16,
        <1>17, <1>18, <1>19 DEF DeliveryInv

\* It says nothing of anything but the variables.
LEMMA DeliveryStutters ==
  ASSUME DeliveryInv, UNCHANGED vars
  PROVE  DeliveryInv'
<1> USE DEF DeliveryInv, vars, storeVars, worldVars
<1>1. IInv'
  BY StoreFrame
<1>2. DeliveryTypeOK'
  BY DEF DeliveryTypeOK
<1>3. LeasesAreHeld' /\ LeasesAreDistinct' /\ NothingBeforePublication'
  BY DEF LeasesAreHeld, LeasesAreDistinct, NothingBeforePublication, Exists
<1>4. StepsInOrder' /\ MessagesAreShown' /\ NoticesAreOfFailedJobs'
  BY DEF StepsInOrder, MessagesAreShown, NoticesAreOfFailedJobs, JobFailed, Name
<1>5. WireIsOrderly' /\ OneRequestAtATime' /\ ChatIsOrderly'
  BY DEF WireIsOrderly, OneRequestAtATime, ChatIsOrderly, Request, ResultOf, Name
<1>6. PostedOnce'
  BY DEF PostedOnce, MayPost, Posted, Name
<1>7. PostedUnderIntent'
  BY DEF PostedUnderIntent, MayPost, Posted, Name, Exists
<1>8. PostedInOrder'
  BY DEF PostedInOrder, Posted
<1>9. AnnouncedFirst' /\ UnrecordedWhileOwned' /\ AnsweredIsLanded'
  BY DEF AnnouncedFirst, UnrecordedWhileOwned, AnsweredIsLanded, Landed, Request, ResultOf,
    Name, Exists, Live, Owns
<1>10. CheckpointsAreShown'
  BY DEF CheckpointsAreShown
<1>11. StepsAreRecorded'
  BY DEF StepsAreRecorded, Behind, Exists, Kind
<1>12. MessagesAreRecorded'
  BY DEF MessagesAreRecorded, Exists, Name
<1>13. ImageJobsAreSilent'
  BY DEF ImageJobsAreSilent, Kind
<1>14. AnswersAgree'
  BY DEF AnswersAgree, Said, Exists
<1>15. HistoryIsOfTheJob'
  BY DEF HistoryIsOfTheJob, Exists
<1>16. NobodyIsRobbed'
  BY DEF NobodyIsRobbed, Hazards, Exists, Live, Owns
<1>17. StepsAreLogged'
  BY DEF StepsAreLogged, Behind, Logging, Logged, Hazards, Exists, Kind
<1>18. NoticesAreShown'
  BY DEF NoticesAreShown, SettledIsShown, Hazards
<1>19. AmbiguityIsOpen' /\ NothingHeldWhenDone'
  BY DEF AmbiguityIsOpen, AmbiguousHasOpenIntent, NothingHeldWhenDone, Owns, Live, Exists
<1> QED BY <1>1, <1>2, <1>3, <1>4, <1>5, <1>6, <1>7, <1>8, <1>9, <1>10, <1>11, <1>12, <1>13,
        <1>14, <1>15, <1>16, <1>17, <1>18, <1>19

\* Every step keeps it.
LEMMA DeliveryStepKeeps ==
  ASSUME DeliveryInv, DeliveryNext
  PROVE  DeliveryInv'
<1>1. IInv' /\ DeliveryTypeOK'
  BY StoreFrame, TypeStep
<1>2. /\ LeasesAreHeld' /\ LeasesAreDistinct' /\ NothingBeforePublication'
      /\ StepsInOrder' /\ MessagesAreShown' /\ NoticesAreOfFailedJobs'
  BY LeasesAreHeldStep, LeasesAreDistinctStep, NothingBeforePublicationStep,
     StepsInOrderStep, MessagesAreShownStep, NoticesAreOfFailedJobsStep
<1>3. /\ WireIsOrderly' /\ OneRequestAtATime' /\ ChatIsOrderly'
      /\ PostedOnce' /\ PostedUnderIntent' /\ PostedInOrder'
  BY WireIsOrderlyStep, OneRequestAtATimeStep, ChatIsOrderlyStep,
     PostedOnceStep, PostedUnderIntentStep, PostedInOrderStep
<1>4. /\ AnnouncedFirst' /\ UnrecordedWhileOwned' /\ AnsweredIsLanded'
      /\ CheckpointsAreShown' /\ StepsAreRecorded' /\ MessagesAreRecorded'
  BY AnnouncedFirstStep, UnrecordedWhileOwnedStep, AnsweredIsLandedStep,
     CheckpointsAreShownStep, StepsAreRecordedStep, MessagesAreRecordedStep
<1>5. /\ ImageJobsAreSilent' /\ AnswersAgree' /\ HistoryIsOfTheJob'
      /\ NobodyIsRobbed' /\ StepsAreLogged' /\ NoticesAreShown' /\ AmbiguityIsOpen'
      /\ NothingHeldWhenDone'
  BY ImageJobsAreSilentStep, AnswersAgreeStep, HistoryIsOfTheJobStep, NobodyIsRobbedStep,
     StepsAreLoggedStep, NoticesAreShownStep, AmbiguityIsOpenStep, NothingHeldWhenDoneStep
<1> QED BY <1>1, <1>2, <1>3, <1>4, <1>5 DEF DeliveryInv

\* So it holds at all times.
LEMMA DeliveryInvAlways == DeliverySpec => []DeliveryInv
<1>1. DeliveryInv /\ [DeliveryNext]_vars => DeliveryInv'
  BY DeliveryStepKeeps, DeliveryStutters
<1> QED BY InitHasDeliveryInv, <1>1, PTL DEF DeliverySpec

-----------------------------------------------------------------------------
(* What a delivery promises.                                               *)

\* Whatever the webhook, the deliveries, the callbacks and the purge do to
\* the job store in whatever order, it is a behaviour of the store: each
\* uses its operations, one at a time, under leases it was given.
THEOREM DeliveryUsesTheStore == DeliverySpec => Spec
<1>1. DeliveryInit => Init
  BY DEF DeliveryInit
<1>2. DeliveryInv /\ [DeliveryNext]_vars => [Next]_storeVars
  BY StoreStep
<1> QED BY <1>1, <1>2, DeliveryInvAlways, PTL DEF DeliverySpec, Spec

\* And so the job of a delivery has the life cycle of every job: one worker
\* at a time, a bounded number of attempts, one end.
THEOREM DeliveryHasLifecycle == DeliverySpec => ImplementsLifecycle
BY DeliveryUsesTheStore, Refinement

\* Every invocation, message, request and record has its type.
THEOREM DeliveryTypeCorrect == DeliverySpec => []DeliveryTypeOK
BY DeliveryInvAlways, PTL DEF DeliveryInv

\* However many deliveries of the job there are, and whatever crashes,
\* stalls, times out or stays unanswered, no step's message is ever sent by
\* two of them (prepare_intent before the request, ambiguity after it).
THEOREM EveryMessageOnce == DeliverySpec => []NoMessageTwice
<1>1. DeliveryInv => NoMessageTwice
  <2> SUFFICES ASSUME DeliveryInv, NEW n \in Sends PROVE Cardinality(Posted(n)) <= 1
    BY DEF NoMessageTwice
  <2>1. \A v, w \in Posted(n) : v = w
    BY DEF DeliveryInv, PostedOnce, MayPost
  <2>2. Posted(n) = {} \/ \E w : Posted(n) = {w}
    BY <2>1
  <2>3. Cardinality(Posted(n)) \in {0, 1}
    BY <2>2, FS_EmptySet, FS_Singleton, Zenon
  <2> QED BY <2>3
<1> QED BY <1>1, DeliveryInvAlways, PTL

\* Every answer in the chat or on its way there is the one the store kept,
\* even when two deliveries generated two (_answer saves before it delivers).
THEOREM OnlySavedAnswers == DeliverySpec => []OnlySavedAnswersShown
<1>1. DeliveryInv => OnlySavedAnswersShown
  <2> SUFFICES ASSUME DeliveryInv, NEW m \in Messages
               PROVE  /\ Exists /\ chat[m] \in Answers => chat[m] = job.answer
                      /\ \A k \in Messages :
                           {chat[m], chat[k]} \subseteq Answers => chat[m] = chat[k]
                      /\ \A r \in wire : {chat[m], r.text} \subseteq Answers => chat[m] = r.text
    BY DEF OnlySavedAnswersShown
  <2>1. (\A k \in Messages : chat[k] \in Said) /\ (\A r \in wire : r.text \in Said)
    BY DEF Said
  <2> QED BY <2>1 DEF DeliveryInv, AnswersAgree
<1> QED BY <1>1, DeliveryInvAlways, PTL

\* What a delivered job recorded of a message.
LEMMA DeliveredFacts ==
  ASSUME DeliveryInv, job.state = "delivered", NEW n \in SentSteps
  PROVE  /\ \E i \in 1..scenario.steps : Steps[i] = n /\ (n # Placeholder => i # 1)
         /\ 2 \in 1..scenario.steps
         /\ job.checkpoint[n] \in Messages /\ job.checkpoint[n][1] = n
         /\ job.checkpoint[Placeholder] = job.checkpoint[Edit]
         /\ chat[job.checkpoint[n]] = job.answer
         /\ \A m \in Messages : history[m] # "notice"
<1>1. Exists /\ ~JobFailed
  BY DEF Exists, JobFailed
<1>2. scenario.steps \in 2..Len(Steps)
  BY DeliveryAssumption DEF DeliveryInv, DeliveryTypeOK, AllScenarios
<1>3. 2 \in 1..scenario.steps /\ 1..scenario.steps \subseteq 1..Len(Steps)
  BY <1>2, StepNames
<1>4. PICK i \in 1..scenario.steps : Steps[i] = n /\ n # Edit
  BY DEF SentSteps
<1>5. n \in Sends /\ (n # Placeholder => i # 1)
  BY <1>3, <1>4, StepNames
<1>6. job.checkpoint[n] # None /\ job.checkpoint[Edit] # None
  BY <1>1, <1>3, <1>4, StepNames DEF DeliveryInv, StepsAreRecorded
<1>7. /\ job.checkpoint[n] \in Messages /\ job.checkpoint[n][1] = n
      /\ chat[job.checkpoint[n]] # None
      /\ job.checkpoint[Edit] = job.checkpoint[Placeholder]
      /\ chat[job.checkpoint[Edit]] # "placeholder"
  BY <1>5, <1>6 DEF DeliveryInv, CheckpointsAreShown
<1>8. \A m \in Messages : chat[m] # "notice" /\ history[m] # "notice"
  BY <1>1 DEF DeliveryInv, NoticesAreOfFailedJobs
<1>9. chat[job.checkpoint[n]] \in Answers
  <2>1. CASE n = Placeholder
    BY <1>7, <1>8, <2>1, TextKinds DEF DeliveryInv, DeliveryTypeOK
  <2>2. CASE n # Placeholder
    BY <1>7, <2>2 DEF DeliveryInv, ChatIsOrderly
  <2> QED BY <2>1, <2>2
<1>10. chat[job.checkpoint[n]] = job.answer
  BY <1>1, <1>7, <1>9 DEF DeliveryInv, AnswersAgree, Said
<1> QED BY <1>3, <1>4, <1>5, <1>7, <1>8, <1>10

\* A job that is delivered has its whole answer in the chat.
THEOREM DeliveredMeansComplete == DeliverySpec => []DeliveredIsComplete
<1>1. DeliveryInv => DeliveredIsComplete
  <2> SUFFICES ASSUME DeliveryInv, job.state = "delivered", NEW n \in SentSteps
               PROVE  \E w \in Workers : chat[<<n, w>>] = job.answer
    BY DEF DeliveredIsComplete
  <2> QED BY DeliveredFacts, TextKinds
<1> QED BY <1>1, DeliveryInvAlways, PTL

\* And, unless it is being purged or instances may stall, in the history.
THEOREM DeliveredMeansLogged == DeliverySpec => []DeliveredIsLogged
<1>1. DeliveryInv => DeliveredIsLogged
  <2> SUFFICES ASSUME DeliveryInv, job.state = "delivered", purger = "idle",
                      "stall" \notin Hazards, NEW n \in SentSteps
               PROVE  history[job.checkpoint[n]] = job.answer
    BY DEF DeliveredIsLogged
  <2>1. \A i \in 1..scenario.steps : Logged(i)
    BY DEF DeliveryInv, StepsAreLogged, Exists
  <2>2. history[job.checkpoint[n]] \in Answers \cup {"notice"}
    <3>1. CASE n = Placeholder
      BY <2>1, <3>1, DeliveredFacts, StepNames DEF Logged
    <3>2. CASE n # Placeholder
      BY <2>1, <3>2, DeliveredFacts DEF Logged
    <3> QED BY <3>1, <3>2
  <2>3. history[job.checkpoint[n]] \in Answers
    BY <2>2, DeliveredFacts
  <2> QED BY <2>3, DeliveredFacts DEF DeliveryInv, AnswersAgree, Said, Exists
<1> QED BY <1>1, DeliveryInvAlways, PTL

\* A notice that is recorded as delivered was shown in place of the
\* placeholder, and the history says so, or has the answer, when somebody
\* learnt that the notice was there before.
THEOREM SettledNoticeIsShown == DeliverySpec => []NoticeIsShown
<1>1. DeliveryInv => NoticeIsShown
  BY DEF DeliveryInv, NoticesAreShown, SettledIsShown, NoticeIsShown
<1> QED BY <1>1, DeliveryInvAlways, PTL

\* A job is given up as ambiguous only with a message announced whose result
\* nobody recorded.
THEOREM AmbiguousMeansOpen == DeliverySpec => []AmbiguousHasOpenIntent
BY DeliveryInvAlways, PTL DEF DeliveryInv, AmbiguityIsOpen

\* Who has answered QStash holds nothing back, unless its release failed.
THEOREM DoneHoldsNothing == DeliverySpec => []NothingHeldWhenDone
BY DeliveryInvAlways, PTL DEF DeliveryInv

\* Nothing of a purged job comes back into the history.
THEOREM PurgedIsForgotten == DeliverySpec => []PurgedStaysForgotten
<1>1. DeliveryInv => PurgedStaysForgotten
  BY DEF DeliveryInv, HistoryIsOfTheJob, PurgedStaysForgotten
<1> QED BY <1>1, DeliveryInvAlways, PTL
=============================================================================
