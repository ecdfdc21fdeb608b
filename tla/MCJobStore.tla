----------------------------- MODULE MCJobStore -----------------------------
(***************************************************************************)
(* A small store for TLC.  Four leases are an owner, two that took over,   *)
(* and a holder of the notice; three attempts reach the limit; one         *)
(* repeatable and one unrepeatable intent, each with two payloads, and two *)
(* results reach every conflict.                                           *)
(***************************************************************************)
EXTENDS JobStoreRefinement, TLC

CONSTANTS t1, t2, t3, t4, m1, m2, x1, x2, p1, p2, a1, a2

MCTokens == {t1, t2, t3, t4}
MCMessageIds == {m1, m2}
MCNames == {"placeholder", "answer_edit"}
MCPlaceholder == "placeholder"
MCRepeatable == {"answer_edit"}
MCPayloads == {p1, p2}
MCResults == {x1, x2}
MCAnswers == {a1, a2}

\* Only sets of interchangeable values are permuted.
Symmetry ==
  Permutations(MCTokens) \cup Permutations(MCMessageIds)
    \cup Permutations(MCResults) \cup Permutations(MCAnswers)

=============================================================================
