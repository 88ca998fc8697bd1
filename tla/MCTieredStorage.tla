--------------------------- MODULE MCTieredStorage ---------------------------
(* Instances of TieredStorage for TLC. *)
EXTENDS TieredStorage, TLC

TmpSymmetry == Permutations(Tmp)

(* With Hidden = {} and EvacDrives = {} every set below is symmetric. *)
Symmetry == Permutations(Paths) \cup Permutations(Drives) \cup Permutations(Data)
            \cup Permutations(Sweeps) \cup Permutations(Tasks) \cup TmpSymmetry
=============================================================================
