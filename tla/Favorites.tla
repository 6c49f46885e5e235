------------------------------ MODULE Favorites -----------------------------
(***************************************************************************)
(* The liked songs of one user: the Postgres table "favorites" with its    *)
(* handlers (internal/api/handlers_favorites.go), and the copy of the list *)
(* that a browser tab caches, toggles optimistically and fetches again     *)
(* (web/src/hooks/useFavorites.ts on top of @tanstack/react-query).        *)
(*                                                                         *)
(* The tab is single-threaded, so each callback is one step; but toggles   *)
(* overlap, their requests reach the server in any order, and a fetch may  *)
(* read the table before, between or after them.                           *)
(***************************************************************************)
EXTENDS Lists, SequencesExt

CONSTANTS
    Toggles,    \* the clicks on a heart, each at most once
    Tracks,     \* the tracks uploaded so far; a deleted one never returns
    Faults,     \* which failures may happen, a subset of FaultKinds
    Nil         \* no data in the cache, no track, no toggle

\* "db":    a statement of a toggle fails without effect.
\* "net":   the tab gives a request up; the server may still carry it out.
\* "fetch": a fetch of the list fails, with its retry.
FaultKinds == {"db", "net", "fetch"}

ASSUME FaultsAssumption == Faults \subseteq FaultKinds
ASSUME NilAssumption    == Nil \notin Tracks \cup Toggles
ASSUME TracksAssumption == IsFiniteSet(Tracks)

VARIABLES
    tracks,     \* the rows of table tracks
    liked,      \* the user's favorites, newest first (ListFavoriteTracks)
    cache,      \* the cached list, Nil before the first one arrives
    shown,      \* the tracks whose heart is full in what was rendered last
    fetch,      \* the fetch in flight, and the list it brings
    pc,         \* pc[m]: where the server's handler of toggle m stands
    track,      \* track[m]: the track toggle m is for, Nil until clicked
    like,       \* like[m]: the request is a POST (TRUE) or a DELETE
    before,     \* before[m]: the cached list when m was clicked (ctx.previous)
    outcome,    \* outcome[m]: what the tab has been told of m
    last,       \* history: last[t]: the latest toggle of track t, or Nil
    muddled,    \* history: the tracks toggled again before the request of an
                \*   earlier toggle was done, or a new heart was rendered
    doubt       \* history: a fetch has failed, or a request runs on after the
                \*   tab gave it up, and no fetch has read the table since

clicks == <<track, like, last, muddled>>
server == <<tracks, liked, pc>>
vars   == <<server, clicks, cache, shown, fetch, before, outcome, doubt>>

Stages == {"idle", "check", "insert", "remove", "ok", "error", "dropped"}

\* The primary key (user_id, track_id) is part of the type of liked; the cache
\* has nothing of the kind.
TypeOK ==
    /\ tracks  \in SUBSET Tracks
    /\ liked   \in Seq(Tracks) /\ IsInjective(liked)
    /\ cache = Nil \/ cache \in Seq(Tracks)
    /\ shown   \in SUBSET Tracks
    /\ fetch   \in [stage : {"none", "asked", "read"}, list : Seq(Tracks)]
    /\ pc      \in [Toggles -> Stages]
    /\ track   \in [Toggles -> Tracks \cup {Nil}]
    /\ like    \in [Toggles -> BOOLEAN]
    /\ before  \in [Toggles -> Seq(Tracks)]
    /\ outcome \in [Toggles -> {"none", "waiting", "ok", "error"}]
    /\ last    \in [Tracks -> Toggles \cup {Nil}]
    /\ muddled \in SUBSET Tracks
    /\ doubt   \in BOOLEAN

Fetch(stage, list) == [stage |-> stage, list |-> list]

\* The page has just been opened: PlayerBar and the others mount and ask for a
\* list which some of the tracks are on.
Init ==
    /\ tracks  = Tracks
    /\ liked   \in SetToAllKPermutations(Tracks)
    /\ cache   = Nil
    /\ shown   = {}
    /\ fetch   = Fetch("asked", <<>>)
    /\ pc      = [m \in Toggles |-> "idle"]
    /\ track   = [m \in Toggles |-> Nil]
    /\ like    = [m \in Toggles |-> FALSE]
    /\ before  = [m \in Toggles |-> <<>>]
    /\ outcome = [m \in Toggles |-> "none"]
    /\ last    = [t \in Tracks |-> Nil]
    /\ muddled = {}
    /\ doubt   = FALSE

-----------------------------------------------------------------------------
(* The tab *)

\* ids, the tracks on the cached list.
Ids == IF cache = Nil THEN {} ELSE ToSet(cache)

\* The components that use the controller render the list they were told of.
Render ==
    /\ shown # Ids
    /\ shown' = Ids
    /\ UNCHANGED <<server, clicks, cache, fetch, before, outcome, doubt>>

\* Another component with useFavorites mounts: the data is stale at once
\* (staleTime 0), so it is fetched again, unless a fetch is on its way already.
Mount ==
    /\ fetch.stage = "none"
    /\ fetch' = Fetch("asked", <<>>)
    /\ UNCHANGED <<server, clicks, cache, shown, before, outcome, doubt>>

ReceiveList ==
    /\ fetch.stage = "read"
    /\ cache' = fetch.list
    /\ fetch' = Fetch("none", <<>>)
    /\ UNCHANGED <<server, clicks, shown, before, outcome, doubt>>

FetchFails ==
    /\ "fetch" \in Faults
    /\ fetch.stage # "none"
    /\ fetch' = Fetch("none", <<>>)
    /\ doubt' = TRUE
    /\ UNCHANGED <<server, clicks, cache, shown, before, outcome>>

applyFavoriteToggle(prev, t, isFavorite) ==
    IF isFavorite THEN Only(prev, Tracks \ {t}) ELSE <<t>> \o prev

\* Mutant of FirstStep: POST and DELETE mixed up.
FirstStepSwapped(isFavorite) == IF isFavorite THEN "check" ELSE "remove"

\* mutationFn: a DELETE for a favorite, a POST otherwise.
FirstStep(isFavorite) == IF isFavorite THEN "remove" ELSE "check"

\* A toggle is over when neither tab nor server have anything to do for it.
Over(m) ==
    /\ outcome[m] \in {"none", "ok", "error"}
    /\ pc[m] \in {"idle", "ok", "error", "dropped"}

\* toggle(track) of the controller, then onMutate and mutationFn; the awaits in
\* between leave no time for another event.  Cancelling drops the answer of a
\* fetch in flight; the request itself is not aborted.
Click(m, t) ==
    LET isFavorite == t \in shown
        previous   == IF cache = Nil THEN <<>> ELSE cache
    IN  /\ outcome[m] = "none"
        /\ fetch'   = Fetch("none", <<>>)
        /\ cache'   = applyFavoriteToggle(previous, t, isFavorite)
        /\ before'  = [before EXCEPT ![m] = previous]
        /\ track'   = [track EXCEPT ![m] = t]
        /\ like'    = [like EXCEPT ![m] = ~isFavorite]
        /\ outcome' = [outcome EXCEPT ![m] = "waiting"]
        /\ pc'      = [pc EXCEPT ![m] = FirstStep(isFavorite)]
        /\ last'    = [last EXCEPT ![t] = m]
        /\ muddled' = IF shown = Ids /\ \A o \in Toggles : track[o] = t => Over(o)
                      THEN muddled ELSE muddled \cup {t}
        /\ UNCHANGED <<tracks, liked, shown, doubt>>

\* The mutation ends, and its ctx with it.
End(m, result) ==
    /\ outcome' = [outcome EXCEPT ![m] = result]
    /\ before' = [before EXCEPT ![m] = <<>>]

\* Mutant of Failed: the rollback without the onSettled that follows it.
FailedUnsettled(m) ==
    /\ End(m, "error")
    /\ cache' = before[m]
    /\ UNCHANGED fetch

\* onError, the rollback to ctx.previous, then onSettled.
Failed(m) ==
    /\ End(m, "error")
    /\ cache' = before[m]
    /\ fetch' = Fetch("asked", <<>>)

\* onSettled: the list is fetched again, afresh if a fetch is in flight.
Settle(m) ==
    /\ outcome[m] = "waiting"
    /\ \/ /\ pc[m] = "ok"
          /\ End(m, "ok")
          /\ fetch' = Fetch("asked", <<>>)
          /\ UNCHANGED cache
       \/ /\ pc[m] = "error"
          /\ Failed(m)
    /\ UNCHANGED <<server, clicks, shown, doubt>>

\* The connection breaks, before or after the request got through.
GiveUp(m) ==
    /\ "net" \in Faults
    /\ outcome[m] = "waiting"
    /\ Failed(m)
    /\ \/ pc[m] \in {"check", "insert", "remove"} /\ doubt' = TRUE /\ UNCHANGED pc
       \/ /\ pc[m] \in {"check", "insert", "remove"}
          /\ pc' = [pc EXCEPT ![m] = "dropped"]
          /\ UNCHANGED doubt
       \/ pc[m] \in {"ok", "error"} /\ UNCHANGED <<pc, doubt>>
    /\ UNCHANGED <<tracks, liked, clicks, shown>>

-----------------------------------------------------------------------------
(* The server *)

\* The statements: INSERT ... ON CONFLICT DO NOTHING, DELETE, and the SELECT with
\* the latest favorite first.
Insert(t) == liked' = IF Contains(liked, t) THEN liked ELSE <<t>> \o liked

Delete(t) == liked' = Only(liked, Tracks \ {t})

Listed == liked

Step(m, stage) ==
    /\ pc' = [pc EXCEPT ![m] = stage]
    /\ UNCHANGED <<tracks, clicks, cache, shown, fetch, before, outcome, doubt>>

StatementFails(m) ==
    /\ "db" \in Faults
    /\ Step(m, "error")
    /\ UNCHANGED liked

\* handleAddFavorite: "Ensure the track exists before favouriting it."
CheckTrack(m) ==
    /\ pc[m] = "check"
    /\ \/ Step(m, IF track[m] \in tracks THEN "insert" ELSE "error") /\ UNCHANGED liked
       \/ StatementFails(m)

\* Mutants of AddFavorite: without the foreign key, without ON CONFLICT.
AddFavoriteUnchecked(m) ==
    /\ pc[m] = "insert"
    /\ Step(m, "ok")
    /\ Insert(track[m])

AddFavoriteAgain(m) ==
    /\ pc[m] = "insert"
    /\ track[m] \in tracks
    /\ Step(m, "ok")
    /\ liked' = <<track[m]>> \o liked

\* The foreign key fails the INSERT when the track has been deleted since the check.
AddFavorite(m) ==
    /\ pc[m] = "insert"
    /\ \/ /\ track[m] \in tracks
          /\ Step(m, "ok")
          /\ Insert(track[m])
       \/ track[m] \notin tracks /\ Step(m, "error") /\ UNCHANGED liked
       \/ StatementFails(m)

RemoveFavorite(m) ==
    /\ pc[m] = "remove"
    /\ \/ Step(m, "ok") /\ Delete(track[m])
       \/ StatementFails(m)

\* A request runs on after the tab gave it up.
RunsOn(m) == outcome[m] # "waiting" /\ ~Over(m)

\* A fetch ends the doubt, if nothing runs on that could still change the table.
ListFavorites ==
    /\ fetch.stage = "asked"
    /\ fetch' = Fetch("read", Listed)
    /\ doubt' = (doubt /\ \E m \in Toggles : RunsOn(m))
    /\ UNCHANGED <<server, clicks, cache, shown, before, outcome>>

\* Somebody deletes a track, here or elsewhere; the rows in favorites go with
\* it (ON DELETE CASCADE), and the cached list is not invalidated.
DeleteTrack(t) ==
    /\ t \in tracks
    /\ tracks' = tracks \ {t}
    /\ Delete(t)
    /\ UNCHANGED <<pc, clicks, cache, shown, fetch, before, outcome, doubt>>

-----------------------------------------------------------------------------
Handle(m) == CheckTrack(m) \/ AddFavorite(m) \/ RemoveFavorite(m)

Next ==
    \/ \E m \in Toggles, t \in Tracks : Click(m, t)
    \/ \E m \in Toggles : Settle(m) \/ GiveUp(m) \/ Handle(m)
    \/ \E t \in Tracks : DeleteTrack(t)
    \/ Render \/ Mount \/ ReceiveList \/ FetchFails \/ ListFavorites

Spec == Init /\ [][Next]_vars

-----------------------------------------------------------------------------
(* What the favorites promise. *)

\* Every favorite is a track of the library, although the check and the INSERT
\* of handleAddFavorite are two statements and the track may go in between.
FavoritesExist == ToSet(liked) \subseteq tracks

\* When everything has come to rest, the cached list is the server's, in its
\* order, but for tracks deleted since: no order of toggles, rollbacks to stale
\* snapshots, cancelled fetches and lost answers leaves a wrong heart behind.  It
\* takes a failed fetch, or a request that runs on after the tab gave it up and
\* reaches the table after the fetch of its rollback; the next fetch that reads
\* the table with no such request left mends the list.
CacheAgrees ==
    /\ ~doubt /\ cache # Nil /\ fetch.stage = "none"
    /\ \A m \in Toggles : Over(m)
    => Only(cache, tracks) = liked

\* The last toggle of a track decides, if it succeeded and the toggles of the
\* track were not muddled: the track is a favorite just when it asked for that.
LastToggleWins ==
    \A t \in tracks \ muddled :
        last[t] # Nil /\ outcome[last[t]] = "ok" =>
            Contains(liked, t) = like[last[t]]
=============================================================================
