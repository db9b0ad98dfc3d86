-------------------------- MODULE MCBackgroundQueue --------------------------
(* Instances of BackgroundQueue for TLC. *)
EXTENDS BackgroundQueue, TLC

\* Keys and calls are interchangeable in the safety runs.
Symmetry == Permutations(Keys) \cup Permutations(Calls)
=============================================================================
