----------------------------- MODULE MCEnqueue ------------------------------
(***************************************************************************)
(* Small instances for TLC: two calls that may handle the same update or   *)
(* different ones.  Four updates, among them two automatic ones that       *)
(* compete for the cooldown and a tone command; or a reply and the         *)
(* lobotomy that comes between its job and its trigger.                    *)
(***************************************************************************)
EXTENDS EnqueueRefinement, TLC

CONSTANTS c1, c2, u1, u2, u3, u4, i1, i2, i3

MCCalls == {c1, c2}
MCIds == {i1, i2, i3}

MCFour == {u1, u2, u3, u4}
MCKinds == (u1 :> "reply") @@ (u2 :> "auto") @@ (u3 :> "auto") @@ (u4 :> "tone")

MCTwo == {u1, u2}
MCLiveKinds == (u1 :> "reply") @@ (u2 :> "lobotomy")

Symmetry == Permutations(MCCalls) \cup Permutations(MCIds)

=============================================================================
