---------------------------- MODULE MCTrackStore ----------------------------
(* Instances of TrackStore for TLC. *)
EXTENDS TrackStore, TLC

\* The requests of a safety run are interchangeable; callers are not, one of
\* them is the admin.
RequestSymmetry == Permutations(Requests)
=============================================================================
