------------------------------ MODULE MCMemory ------------------------------
(***************************************************************************)
(* One author and his messages: a plain one, and either its edit or a      *)
(* picture that gets a job; an observation of the first was gathered under *)
(* the former key.  Two processes are enough for two writers, a writer and *)
(* a reset, and a writer and a deletion to meet.                           *)
(***************************************************************************)
EXTENDS Memory, TLC

CONSTANTS a, p1, p2

Plain == [user |-> a, msg |-> 1, ts |-> 1, text |-> "said",
          edited |-> FALSE, job |-> FALSE, image |-> FALSE]
Edit == [Plain EXCEPT !.ts = 2, !.text = "corrected", !.edited = TRUE]
Picture == [user |-> a, msg |-> 2, ts |-> 1, text |-> "seen",
            edited |-> FALSE, job |-> TRUE, image |-> TRUE]
MCUsers == {a}
TwoProcs == {p1, p2}

Everything == {Plain, Edit, Picture}
MCTraffic == {{Plain, Edit}, {Plain, Picture}}

\* What was gathered under the former key.
Former == [kind |-> "observation", msg |-> 1, ts |-> 1, text |-> "said",
           epoch |-> 0, born |-> 0, analysed |-> FALSE]
OneFormer == [u \in MCUsers |-> <<Former>>]

\* A deletion, a reset and a fault: any two of them, in all their orders.
TwoOfThree == purges = 0 \/ resets = 0 \/ faults = 0

Symmetry == Permutations(TwoProcs)

=============================================================================
