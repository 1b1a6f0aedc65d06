--------------------------- MODULE MCFileStorage ---------------------------
(* FileStorage for TLC: edits and requests are interchangeable.            *)
EXTENDS FileStorage, TLC

Symmetry == Permutations(Edits) \cup Permutations(Requests)
=============================================================================
