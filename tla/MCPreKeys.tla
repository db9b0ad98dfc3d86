------------------------------- MODULE MCPreKeys -------------------------------
(* The instance of PreKeys for TLC. *)
EXTENDS PreKeys

\* Receipts are interchangeable.
Symmetry == Permutations(Receipts)

\* The bound on what goes wrong in one behaviour: one kind of lapse.
FewLapses == Cardinality(hist.lapses) <= 1
=============================================================================
