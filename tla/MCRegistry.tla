----------------------------- MODULE MCRegistry ------------------------------
(***************************************************************************)
(* Two users who pass two names around and are members of lists: a         *)
(* reserved one and two others that fit only one at a time beside it, so   *)
(* that the limit is met.  Two administrators overlap, on the lists or on  *)
(* a rule.                                                                 *)
(***************************************************************************)
EXTENDS Registry, TLC

CONSTANTS ignore, l1, l2, r1, v1, u1, u2, a1, a2, n1, n2

MCSlugs == {ignore, l1, l2}
MCRuleIds == {r1}
MCBodies == {v1}
MCUsers == {u1, u2}
MCAdmins == {a1, a2}
MCNames == {n1, n2}

\* What the properties of the run and the steps depend on: no history variable.
Stored == <<profile, alias, listIndex, ruleIndex, item, members, update, read>>

Symmetry == Permutations({l1, l2}) \cup Permutations(MCNames)
            \cup Permutations({u1, u2}) \cup Permutations({a1, a2})

=============================================================================
