----------------------------- MODULE MCThumbnails -----------------------------
(* Thumbnails for TLC: paths are interchangeable. Which excuse a name has  *)
(* decides no step, and Fresh asks only whether it has one, so states that *)
(* differ in no more are one.                                              *)
EXTENDS Thumbnails, TLC

Symmetry == Permutations(Paths)
Seen == <<image, ids, caches, reader, writer, version, lastId,
          {n \in Paths : excuse[n] # "none"}>>
=============================================================================
