--------------------------- MODULE MCSessionStore ----------------------------
(* Instances of SessionStore for TLC. *)
EXTENDS SessionStore, TLC

\* Callers are interchangeable in the safety run.
Symmetry == Permutations(Tasks) \cup Permutations(Keys)
=============================================================================
