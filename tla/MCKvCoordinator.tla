--------------------------- MODULE MCKvCoordinator ---------------------------
(* KvCoordinator for TLC. *)
EXTENDS KvCoordinator, TLC

\* The sessions are interchangeable, and so are the models.
SessionSymmetry == Permutations(Sessions)
=============================================================================
