--------------------------- MODULE MCTieredStreams ---------------------------
(* Instances of TieredStreams for TLC. *)
EXTENDS TieredStreams, TLC

(* With Hidden = {} every set is symmetric. *)
Symmetry == Permutations(Paths) \cup Permutations(Data)
=============================================================================
