---------------------------- MODULE PlaylistOrder ---------------------------
(***************************************************************************)
(* What a user expects of the playlists: each is a list of distinct tracks *)
(* in a total order.  Adding a track puts it at the end, also when it is   *)
(* in the list already; a track that is deleted from the library drops out *)
(* of every playlist and leaves the order of the others as it was.         *)
(***************************************************************************)
CONSTANTS
    Playlists,
    Tracks

VARIABLES
    members,    \* members[p]: the tracks of playlist p
    before      \* before[p][b]: the tracks somewhere before b in playlist p

vars == <<members, before>>

Init ==
    /\ members = [p \in Playlists |-> {}]
    /\ before = [p \in Playlists |-> [b \in Tracks |-> {}]]

\* Track t moves to the end of playlist p.
Append(p, t) ==
    /\ members' = [members EXCEPT ![p] = @ \cup {t}]
    /\ before' = [before EXCEPT ![p] =
           [b \in Tracks |-> IF b = t THEN members[p] \ {t} ELSE @[b] \ {t}]]

\* Track t drops out of every playlist.
Drop(t) ==
    /\ members' = [p \in Playlists |-> members[p] \ {t}]
    /\ before' = [p \in Playlists |->
           [b \in Tracks |-> IF b = t THEN {} ELSE before[p][b] \ {t}]]

Next == \E t \in Tracks : Drop(t) \/ \E p \in Playlists : Append(p, t)

Spec == Init /\ [][Next]_vars
=============================================================================
