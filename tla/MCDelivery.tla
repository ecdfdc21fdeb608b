----------------------------- MODULE MCDelivery -----------------------------
(***************************************************************************)
(* Small instances of Delivery.  The names of the intents are the code's.  *)
(***************************************************************************)
EXTENDS Delivery, TLC

CONSTANTS w1, w2, c1, m1, a1, a2

MCWorkers == {w1, w2}
MCCallbacks == {c1}
MCTokens == 1..(2 * Cardinality(Workers) + Cardinality(Callbacks))
MCMessageIds == {m1}
MCSteps == <<"placeholder", "answer_edit", "chunk:1">>
MCNames == {Steps[i] : i \in 1..Len(Steps)}
MCRepeatable == {"answer_edit"}
MCOneAnswer == {a1}
MCTwoAnswers == {a1, a2}
MCPayloads == Answers \cup {"placeholder"}
MCResults == Messages

ReplyJob(steps, hazards) ==
  [kind |-> "reply", steps |-> steps, hazards |-> hazards]

ImageJob(hazards) ==
  [kind |-> "image_memory", steps |-> 2, hazards |-> hazards]

\* A long answer under faults; leases that lapse while their holders stall; a
\* purge; a lobotomy, which leaves a lease to the release, and that may fail.
MCSafety ==
  {ReplyJob(3, {"crash", "store_fault", "timeout"}),
   ReplyJob(2, {"stall"}),
   ReplyJob(2, {"purge"}),
   ReplyJob(2, {"lobotomy"}),
   ImageJob({"lobotomy", "store_fault"})}

MCLive == {ReplyJob(2, {"crash"}), ImageJob({"crash", "lobotomy"})}

MCImage == {ImageJob({})}

\* While both deliveries run, they and the callback draw three leases between
\* them; the fourth and the fifth come when one has ended.
FewLeases ==
  \/ Cardinality(issued) <= 3
  \/ \E w \in Workers : agent[w].pc \in {"done", "crashed"}

Symmetry == Permutations(Workers) \cup Permutations(Answers)

=============================================================================
