--------------------------- MODULE MCSidecarStore ---------------------------
(* SidecarStore for TLC: savers and marks are interchangeable. *)
EXTENDS SidecarStore, TLC

Symmetry == Permutations(Savers) \cup Permutations(Marks)
=============================================================================
