----------------------------- MODULE MCUploads ------------------------------
(* Small instances of Uploads for TLC. *)
EXTENDS Uploads, TLC

Symmetry == Permutations(Hidden) \cup Permutations(Names \ Hidden) \cup Permutations(Sessions) \cup Permutations(Handlers)
=============================================================================
