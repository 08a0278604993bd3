-------------------------- MODULE MCAssetLifecycle --------------------------
(* AssetLifecycle for TLC: each window starts with a document of its own, and *)
(* one name is free; the windows are interchangeable.                         *)
EXTENDS AssetLifecycle, TLC

MCOpened == [w \in Windows |-> w]
Symmetry == Permutations(Windows)
=============================================================================
