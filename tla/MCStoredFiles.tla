--------------------------- MODULE MCStoredFiles ---------------------------
(* Instances of StoredFiles for TLC. *)
EXTENDS StoredFiles, TLC

\* Requests and the files of one kind are interchangeable.
Symmetry == Permutations(Workers) \cup Permutations(Documents)
                \cup Permutations(Photos)
=============================================================================
