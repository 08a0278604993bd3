---------------------------- MODULE MCProjectStore ----------------------------
(* Instances of ProjectStore: documents and paths are interchangeable. *)
EXTENDS ProjectStore

Symmetry == Permutations(Docs) \cup Permutations(Paths)
=============================================================================
