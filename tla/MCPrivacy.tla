----------------------------- MODULE MCPrivacy ------------------------------
(***************************************************************************)
(* Two updates of two users, so that a job can quote another user, the     *)
(* first of them with two calls that may overlap or come one after the     *)
(* other, and one purge, of a user or of the chat, that may die and is     *)
(* repeated.                                                               *)
(***************************************************************************)
EXTENDS Privacy, TLC

CONSTANTS u1, u2, j1, j2, c1, c2, c3, p1

MCUsers == {u1, u2}
MCUpdates == {j1, j2}
MCAuthor == [j \in MCUpdates |-> IF j = j2 THEN u2 ELSE u1]
MCCalls == {c1, c2, c3}
MCUpdate == [c \in MCCalls |-> IF c = c3 THEN j2 ELSE j1]

MCOnePurge == {p1}
MCTargets == {[p \in MCOnePurge |-> i] : i \in {u1, Chat}}

MCCallSymmetry == Permutations({c1, c2})

=============================================================================
