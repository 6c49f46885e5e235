----------------------------- MODULE MCPlaylists ----------------------------
(* Instances of Playlists for TLC. *)
EXTENDS Playlists, TLC

\* Requests and tracks are interchangeable; callers are not, one is the admin.
Symmetry == Permutations(Requests) \cup Permutations(Tracks)
=============================================================================
