------------------------------ MODULE MCImages ------------------------------
(* A backend that is smoke tested and whose second commit does not come up,  *)
(* and a frontend that is not, but needs its env file.                      *)
EXTENDS Images, TLC

BrokenLater == {Image(1, 1)}

Symmetric == Permutations(Runs)
=============================================================================
