---------------------------- MODULE MCFavorites -----------------------------
(* Instances of Favorites for TLC. *)
EXTENDS Favorites, TLC

Symmetry == Permutations(Toggles) \cup Permutations(Tracks)
=============================================================================
