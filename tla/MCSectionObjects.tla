--------------------------- MODULE MCSectionObjects ---------------------------
(* Symmetry for TLC: ids are only compared. *)
EXTENDS SectionObjects

MCSymmetry == Permutations(Npcs) \cup Permutations(Shots)
===============================================================================
