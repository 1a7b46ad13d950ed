------------------------------ MODULE MCReview ------------------------------
(* Review on small instances. *)
EXTENDS Review, TLC

ProcSymmetry == Permutations(Procs)

\* A branch of one commit, and one with a fix that an earlier revision left.
MCProposed == <<[work |-> {1}, fix |-> FALSE]>>
MCRevised == <<[work |-> {1}, fix |-> FALSE], [work |-> {2}, fix |-> TRUE]>>
=============================================================================
