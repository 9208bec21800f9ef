----------------------------- MODULE MCLRUCache -----------------------------
(***************************************************************************)
(* LRUCache with room for two of three keys.                               *)
(***************************************************************************)
EXTENDS LRUCache, TLC

\* Keys, and values, are interchangeable.
Symmetry == Permutations(Keys) \cup Permutations(Values)
=============================================================================
