-------------------------------- MODULE Shell --------------------------------
(***************************************************************************)
(* What the web client shows around the player: its pages (web/src/pages), *)
(* the frame with the sidebar and the top bar (App.tsx, design/), the      *)
(* dialogs and the menus of the rows (components/), and the cached lists   *)
(* under them (hooks/useTracks.ts, usePlaylists.ts, useLibrary.ts).        *)
(*                                                                         *)
(* One user on one tab changes the library by requests, and pages show it  *)
(* by other requests; these overlap in any order, while the user goes on.  *)
(* A step is a click, an answer, or the server carrying a request out.     *)
(***************************************************************************)
EXTENDS LibraryIndex

CONSTANTS
    Songs,          \* the tracks of this instance
    FirstSongs,     \* the library at first, the newest first
    Deletable,      \* those the user may remove: an admin all, others their own
    Matches,        \* those the search text finds
    Playlists,      \* the user's, some of which exist at first
    Paths,          \* the pages the user visits: a bound
    MaxRequests,    \* bound on the changes the user asks for
    MaxDeeds,       \* bound on those and the other pages he goes to, together
    Faults,         \* which failures may happen, a subset of {"db", "net"}
    Nil             \* no playlist, no data, no form

\* A page by its path; "search" stands for an empty search field and "results"
\* for one with a text, which is part of the page here.
AlbumPath(id)   == <<"album", id>>
PlaylistPath(p) == <<"playlist", p>>
Page(name)      == <<name, Nil>>

Kind(p) == p[1]

ASSUME SongsAssumption ==
    /\ Songs \subseteq Tracks /\ Deletable \subseteq Songs /\ Matches \subseteq Songs
    /\ FirstSongs \in Seq(Songs) /\ IsInjective(FirstSongs)
ASSUME PathsAssumption ==
    /\ {PlaylistPath(p) : p \in Playlists} \cup {Page("home")} \subseteq Paths
    /\ \A p \in Paths : Kind(p) = "playlist" => p \in {PlaylistPath(x) : x \in Playlists}
ASSUME NilAssumption ==
    Nil \notin Songs \cup Playlists \cup Seq(Songs) /\ Playlists \cap {"tracks", "found"} = {}
ASSUME FaultsAssumption == Faults \subseteq {"db", "net"}
ASSUME BoundsAssumption == MaxRequests \in Nat /\ MaxDeeds \in Nat

VARIABLES
    library,    \* the tracks on the server, the newest first
    lists,      \* lists[p]: the tracks of playlist p on the server, or Nil
    path,       \* the page
    query,      \* query[k]: the cached list k, and the fetch that is to renew it
    overlay,    \* the dialog or menu that is open
    req,        \* the requests for changes, in their order
    visits,     \* how often the user has gone to another page
    wanted      \* history: wanted[p], the track that p was created for

server == <<library, lists, wanted>>
client == <<path, query, overlay>>
vars   == <<server, client, req, visits>>

\* The cached lists: all tracks, those that the search finds, one playlist.
Keys == {"tracks", "found"} \cup Playlists

Lists == {s \in Seq(Songs) : IsInjective(s)}

\* behind is history: what the cache has or is about to get may be older than
\* the last change, and nothing is under way to renew it.
Query == [data : Lists \cup {Nil}, stage : {"idle", "sent", "served"},
          got : Lists \cup {Nil}, behind : BOOLEAN]

\* A row of a page, and the menu in it, is known to React by its key: track and
\* position on a collection page, the track among search results.
Row == [view : {"album", "playlist", "results"}, song : Songs, pos : Nat]

\* The forms that send a request: a dialog or a row's menu.
Dialog(d) == [view |-> d, song |-> Nil, pos |-> 0]
NoForm    == Dialog("none")
Form      == Row \cup {Dialog("upload"), Dialog("create"), NoForm}

IsRow(form) == form.view \in {"album", "playlist", "results"}

Overlay == [form : Form, mode : {"root", "newPlaylist", "confirmDelete"}]

Opened(form) == [form |-> form, mode |-> "root"]
NoOverlay    == Opened(NoForm)

\* form: NoForm when its form is not there any more.  createFor: the first half of
\* "create & add", addTo its second half.  lost: the client has given up on it.
\* seen: its form's isPending tells of it, and not of a later request.
Request == [op : {"upload", "create", "createFor", "addTo", "add", "delete"},
            song : Songs \cup {Nil}, list : Playlists \cup {Nil}, form : Form,
            stage : {"sent", "ok", "failed", "lost"}, seen : BOOLEAN]

\* Nothing is left of a request but the track it has uploaded, whose id is not
\* used again.
Over == [op : {"over"}, song : Songs \cup {Nil}, list : {Nil}, form : {NoForm},
         stage : {"over"}, seen : {FALSE}]

TypeOK ==
    /\ library \in Lists
    /\ lists   \in [Playlists -> Lists \cup {Nil}]
    /\ path    \in Paths
    /\ query   \in [Keys -> Query]
    /\ overlay \in Overlay
    /\ req     \in Seq(Request \cup Over) /\ Len(req) <= MaxRequests
    /\ visits  \in Nat /\ visits + Len(req) <= MaxDeeds
    /\ wanted  \in [Playlists -> Songs \cup {Nil}]

-----------------------------------------------------------------------------
(* The server, in short; TrackStore and Playlists have the whole of it. *)

Exists(p) == lists[p] # Nil

\* Mutant of Without: a track is not taken out of the list.
WithoutNone(list, s) == list

Without(list, s) == Only(list, Songs \ {s})

Found(tracks) == Only(tracks, Matches)

\* What a fetch of list k is answered.
Listing(k) ==
    IF k = "tracks" THEN library ELSE IF k = "found" THEN Found(library) ELSE lists[k]

-----------------------------------------------------------------------------
(* The pages *)

Shown(k) == IF query[k].data = Nil THEN <<>> ELSE query[k].data

AlbumCards(tracks) == {AlbumPath(al.id) : al \in buildAlbums(tracks)}

\* The sidebar may list any playlist there is; Session has its cached list.
PlaylistCards == {PlaylistPath(p) : p \in {x \in Playlists : Exists(x)}}

Sidebar == {Page("home"), Page("search"), Page("results"), Page("library"), Page("liked")}
           \cup PlaylistCards

isLoading(k) == query[k].data = Nil /\ query[k].stage # "idle"

\* "Your library is empty", also after the failure of the first fetch.
Home ==
    IF ~isLoading("tracks") /\ Shown("tracks") = <<>> THEN {}
    ELSE AlbumCards(Shown("tracks")) \cup PlaylistCards \cup {Page("library")}

Search == AlbumCards(Shown(IF Kind(path) = "results" THEN "found" ELSE "tracks"))

\* The cards of the artists lead to an album of theirs.
Library ==
    LET lib == useLibrary(Shown("tracks"))
    IN  {AlbumPath(al.id) : al \in lib.albums \cup UNION {ar.albums : ar \in lib.artists}}

Links ==
    Sidebar \cup
    CASE Kind(path) = "home" -> Home
      [] Kind(path) \in {"search", "results"} -> Search
      [] Kind(path) = "library" -> Library
      [] OTHER -> {}

\* What a page shows: the frame has all tracks in any case.
PageKey(p) ==
    IF Kind(p) = "playlist" THEN p[2] ELSE IF Kind(p) = "results" THEN "found" ELSE "tracks"

\* The rows of a page's track list; "the first six" is all of them here.
CollectionView(view, tracks) ==
    {[view |-> view, song |-> tracks[i], pos |-> i] : i \in DOMAIN tracks}

\* Mutant of SongRows: keys with the position.
SongRowsByPosition(tracks) ==
    {[view |-> "results", song |-> tracks[i], pos |-> i] : i \in DOMAIN tracks}

SongRows(tracks) == {[view |-> "results", song |-> t, pos |-> 0] : t \in Range(tracks)}

\* The rows of the liked songs are left to Favorites.
Rows ==
    CASE Kind(path) = "album" -> CollectionView("album", AlbumTracks(Shown("tracks"), path[2]))
      [] Kind(path) = "playlist" -> CollectionView("playlist", Shown(path[2]))
      [] Kind(path) = "results" -> SongRows(Shown("found"))
      [] OTHER -> {}

-----------------------------------------------------------------------------
(* The cache of @tanstack/react-query: a fetch is one request with its retry, *)
(* nothing aborts it, and a caller may join one that is on its way.           *)

Idle == [data |-> Nil, stage |-> "idle", got |-> Nil, behind |-> FALSE]

Ask(q) == [q EXCEPT !.stage = "sent", !.got = Nil, !.behind = FALSE]

\* The answer, if it has been made up, does not have the change.
Join(q) == [q EXCEPT !.behind = q.behind \/ q.stage = "served"]

\* Data are stale at once: each mount fetches, or joins.
Mounted(q, k) == IF q[k].stage = "idle" THEN [q EXCEPT ![k] = Ask(q[k])] ELSE q

Active == {"tracks", PageKey(path)}

\* Mutant of Invalidate: makes do with the fetch on its way.
InvalidateJoining(q, ks) ==
    [k \in Keys |->
        IF k \in ks \cap Active /\ q[k].stage = "idle" THEN Ask(q[k]) ELSE q[k]]

\* invalidateQueries: lists on display are fetched again, in place of a fetch on
\* its way if there are data already.
Invalidate(q, ks) ==
    [k \in Keys |->
        IF k \notin ks THEN q[k]
        ELSE IF k \in Active /\ (q[k].stage = "idle" \/ q[k].data # Nil) THEN Ask(q[k])
        ELSE Join(q[k])]

\* The client does not hear of a change, and invalidates nothing.
Unheard(q, ks) == [k \in Keys |->
    IF k \in ks /\ q[k].stage # "sent" THEN [q[k] EXCEPT !.behind = TRUE] ELSE q[k]]

\* Mutant of Invalidated: an upload renews the list of all tracks only.
InvalidatedExact(r) ==
    IF r.op \in {"upload", "delete"} THEN {"tracks"}
    ELSE IF r.op \in {"add", "addTo"} THEN {r.list} ELSE {}

\* What the hooks invalidate on a success; ["tracks"] is a prefix of both keys,
\* and ["playlists"] is not modelled here.
Invalidated(r) ==
    IF r.op \in {"upload", "delete"} THEN {"tracks", "found"}
    ELSE IF r.op \in {"add", "addTo"} THEN {r.list} ELSE {}

\* The token is in memory only, so the shell is always entered from a login,
\* which leads home.
Init ==
    /\ library = FirstSongs
    /\ lists   \in [Playlists -> {<<>>, Nil}]
    /\ path    = Page("home")
    /\ query   = [k \in Keys |-> IF k \in Active THEN Ask(Idle) ELSE Idle]
    /\ overlay = NoOverlay
    /\ req     = <<>>
    /\ visits  = 0
    /\ wanted  = [p \in Playlists |-> Nil]

-----------------------------------------------------------------------------
(* Rendering: what the state after a step has no row for is not there.  A *)
(* menu that is closed keeps its pending requests, a dialog does not.     *)

Formless(r) == [r EXCEPT !.form = NoForm, !.seen = FALSE]

Rendered(o, rs) ==
    LET rows == Rows'
        lives(f) == f \in rows \/ (~IsRow(f) /\ f = o.form)
    IN  /\ overlay' = IF lives(o.form) THEN o ELSE NoOverlay
        /\ req' = [i \in DOMAIN rs |->
               IF lives(rs[i].form) THEN rs[i] ELSE Formless(rs[i])]

MoreDeeds == visits + Len(req) < MaxDeeds

MoreRequests == MoreDeeds /\ Len(req) < MaxRequests

Modal == overlay.form.view \in {"upload", "create"}

Pending(r) == r.stage \in {"sent", "ok", "failed"}

\* isPending of one of the form's mutations: of the last time it was called.
Busy(form, ops) ==
    \E i \in DOMAIN req :
        req[i].form = form /\ req[i].op \in ops /\ req[i].seen /\ Pending(req[i])

\* The form adds a track once more.
AddsAgain(form) ==
    [i \in DOMAIN req |->
        IF req[i].form = form /\ req[i].op \in {"add", "addTo"}
        THEN [req[i] EXCEPT !.seen = FALSE] ELSE req[i]]

Sent(op, song, list, form) ==
    [op |-> op, song |-> song, list |-> list, form |-> form, stage |-> "sent", seen |-> TRUE]

Send(r) == MoreRequests /\ Rendered(overlay, Append(req, r))

-----------------------------------------------------------------------------
(* The user *)

\* From one album to another, the component stays; the liked songs are another
\* list.
Goto(p, o) ==
    /\ path' = p
    /\ query' = IF Kind(p) = "liked" \/ {Kind(p), Kind(path)} = {"album"} THEN query
                ELSE Mounted(query, PageKey(p))
    /\ MoreDeeds /\ visits' = visits + 1
    /\ Rendered(o, req)
    /\ UNCHANGED server

\* A card, an item of the sidebar or the search field; the click closes a menu,
\* and does not get past a dialog.
Follow(p) ==
    /\ p # path /\ ~Modal
    /\ Goto(p, NoOverlay)

\* Back and Forward: the history may hold pages of what is not there any more.
Back(p) ==
    /\ p # path
    /\ Kind(p) = "playlist" => Exists(p[2])
    /\ Goto(p, overlay)

Show(o) ==
    /\ UNCHANGED <<server, visits, path, query>>
    /\ Rendered(o, req)

OpenDialog(d) == ~Modal /\ Show(Opened(Dialog(d)))

\* The mouse on the backdrop, Close or Cancel; outside of a menu or Escape.
Close == overlay # NoOverlay /\ Show(NoOverlay)

\* Submitting an empty form does nothing.
SubmitUpload(s) ==
    /\ overlay.form.view = "upload" /\ ~Busy(overlay.form, {"upload"})
    /\ s \notin Range(FirstSongs) /\ \A i \in DOMAIN req : req[i].song # s
    /\ UNCHANGED <<server, visits, path, query>>
    /\ Send(Sent("upload", s, Nil, overlay.form))

SubmitCreate ==
    /\ overlay.form.view = "create" /\ ~Busy(overlay.form, {"create"})
    /\ UNCHANGED <<server, visits, path, query>>
    /\ Send(Sent("create", Nil, Nil, overlay.form))

OpenMenu(row) == ~Modal /\ overlay.form # row /\ Show(Opened(row))

\* Back and Cancel lead to the root of the menu again.
SetMode(m) ==
    /\ IsRow(overlay.form)
    /\ IF m = "root" THEN overlay.mode # "root" ELSE overlay.mode = "root"
    /\ m = "confirmDelete" => overlay.form.song \in Deletable
    /\ Show([overlay EXCEPT !.mode = m])

addToPlaylist(p) ==
    /\ IsRow(overlay.form) /\ overlay.mode = "root" /\ Exists(p)
    /\ UNCHANGED <<server, visits, path, query>>
    /\ MoreRequests
    /\ Rendered(NoOverlay, Append(AddsAgain(overlay.form),
           Sent("add", overlay.form.song, p, overlay.form)))

createAndAdd ==
    /\ IsRow(overlay.form) /\ overlay.mode = "newPlaylist"
    /\ ~Busy(overlay.form, {"createFor"}) /\ ~Busy(overlay.form, {"add", "addTo"})
    /\ UNCHANGED <<server, visits, path, query>>
    /\ Send(Sent("createFor", overlay.form.song, Nil, overlay.form))

confirmDelete ==
    /\ IsRow(overlay.form) /\ overlay.mode = "confirmDelete"
    /\ ~Busy(overlay.form, {"delete"})
    /\ UNCHANGED <<server, visits, path, query>>
    /\ MoreRequests
    /\ Rendered(NoOverlay, Append(req, Sent("delete", overlay.form.song, Nil, overlay.form)))

-----------------------------------------------------------------------------
(* The server carries a request out, or refuses it. *)

Ended(song) == [op |-> "over", song |-> song, list |-> Nil, form |-> NoForm, stage |-> "over",
                seen |-> FALSE]

Finished(i) ==
    [req EXCEPT ![i] = Ended(IF req[i].op = "upload" THEN req[i].song ELSE Nil)]

\* A request that the client has given up on has its effect all the same.
Done(i, r) ==
    IF req[i].stage = "lost"
    THEN req' = Finished(i) /\ query' = Unheard(query, Invalidated(r))
    ELSE req' = [req EXCEPT ![i] = [r EXCEPT !.stage = "ok"]] /\ UNCHANGED query

Serve(i) ==
    /\ req[i].stage \in {"sent", "lost"}
    /\ \/ /\ req[i].op = "upload"
          /\ library' = <<req[i].song>> \o library
          /\ Done(i, req[i]) /\ UNCHANGED <<lists, wanted>>
       \/ /\ req[i].op \in {"create", "createFor"}
          /\ \E p \in {x \in Playlists : ~Exists(x)} :
                 /\ lists' = [lists EXCEPT ![p] = <<>>]
                 /\ wanted' = [wanted EXCEPT ![p] =
                        IF req[i].stage = "sent" THEN req[i].song ELSE Nil]
                 /\ Done(i, [req[i] EXCEPT !.list = p])
          /\ UNCHANGED library
       \/ /\ req[i].op \in {"add", "addTo"}
          /\ req[i].song \in Range(library)
          /\ lists' = [lists EXCEPT ![req[i].list] = Append(Without(@, req[i].song), req[i].song)]
          /\ Done(i, req[i]) /\ UNCHANGED <<library, wanted>>
       \/ /\ req[i].op = "delete"
          /\ req[i].song \in Range(library)
          /\ library' = Without(library, req[i].song)
          /\ lists' = [p \in Playlists |->
                 IF Exists(p) THEN Without(lists[p], req[i].song) ELSE Nil]
          /\ Done(i, req[i]) /\ UNCHANGED wanted
    /\ UNCHANGED <<path, overlay, visits>>

\* 404 for a track that is gone; 500 for a fault.
Refuse(i) ==
    /\ req[i].stage \in {"sent", "lost"}
    /\ \/ "db" \in Faults
       \/ req[i].op \in {"add", "addTo", "delete"} /\ req[i].song \notin Range(library)
       \/ req[i].op \in {"create", "createFor"} /\ \A p \in Playlists : Exists(p)
    /\ req' = [req EXCEPT ![i] =
           IF req[i].stage = "lost" THEN Ended(Nil) ELSE [req[i] EXCEPT !.stage = "failed"]]
    /\ UNCHANGED <<server, client, visits>>

-----------------------------------------------------------------------------
(* The answers *)

\* The onClose of a dialog closes whichever dialog of its kind is open.
OnClose(form) == IF overlay.form = form THEN NoOverlay ELSE overlay

ReceiveUpload(i) ==
    /\ req[i].op = "upload"
    /\ path' = path
    /\ query' = Invalidate(query, Invalidated(req[i]))
    /\ Rendered(OnClose(Dialog("upload")), Finished(i))
    /\ UNCHANGED <<server, visits>>

\* The dialog navigates, wherever the user has gone since.
ReceiveCreate(i) ==
    /\ req[i].op = "create"
    /\ path' = PlaylistPath(req[i].list)
    /\ query' = IF path' = path THEN query ELSE Mounted(query, req[i].list)
    /\ Rendered(OnClose(Dialog("create")), Finished(i))
    /\ UNCHANGED <<server, visits>>

\* Mutant of ReceiveCreateFor: a menu that is gone adds nothing.
ReceiveCreateForMounted(i) ==
    /\ req[i].op = "createFor"
    /\ UNCHANGED <<server, visits, path, query>>
    /\ Rendered(overlay, IF req[i].form = NoForm THEN Finished(i)
           ELSE [req EXCEPT ![i] = Sent("addTo", req[i].song, req[i].list, req[i].form)])

\* createAndAdd goes on with the second request, its menu open or not.
ReceiveCreateFor(i) ==
    /\ req[i].op = "createFor"
    /\ UNCHANGED <<server, visits, path, query>>
    /\ Rendered(overlay,
           [AddsAgain(req[i].form) EXCEPT ![i] =
               Sent("addTo", req[i].song, req[i].list, req[i].form)])

\* The close() after the second request is that of its own menu, which the user
\* may have closed and opened again.
ReceiveAdd(i) ==
    /\ req[i].op \in {"add", "addTo"}
    /\ path' = path
    /\ query' = Invalidate(query, Invalidated(req[i]))
    /\ Rendered(IF req[i].op = "addTo" THEN OnClose(req[i].form) ELSE overlay,
                Finished(i))
    /\ UNCHANGED <<server, visits>>

ReceiveDelete(i) ==
    /\ req[i].op = "delete"
    /\ path' = path
    /\ query' = Invalidate(query, Invalidated(req[i]))
    /\ Rendered(overlay, Finished(i))
    /\ UNCHANGED <<server, visits>>

Receive(i) ==
    /\ req[i].stage = "ok"
    /\ \/ ReceiveUpload(i) \/ ReceiveCreate(i) \/ ReceiveCreateFor(i)
       \/ ReceiveAdd(i) \/ ReceiveDelete(i)

\* The playlists whose track will not come, for the failure of the request that
\* was to bring it.
Dropped(i) ==
    [p \in Playlists |-> IF p = req[i].list THEN Nil ELSE wanted[p]]

\* An error: the form stays open, and may be submitted again.
ReceiveFailure(i) ==
    /\ req[i].stage = "failed"
    /\ req' = [req EXCEPT ![i] = Ended(Nil)]
    /\ wanted' = Dropped(i)
    /\ UNCHANGED <<library, lists, client, visits>>

\* The connection breaks, before or after the request has had its effect.
GiveUp(i) ==
    /\ "net" \in Faults
    /\ req[i].stage \in {"sent", "ok"}
    /\ IF req[i].stage = "sent"
       THEN /\ req' = [req EXCEPT ![i] = [Formless(req[i]) EXCEPT !.stage = "lost"]]
            /\ UNCHANGED query
       ELSE req' = Finished(i) /\ query' = Unheard(query, Invalidated(req[i]))
    /\ wanted' = Dropped(i)
    /\ UNCHANGED <<library, lists, path, overlay, visits>>

ServeFetch(k) ==
    /\ query[k].stage = "sent"
    /\ query' = [query EXCEPT ![k].stage = "served", ![k].got = Listing(k)]
    /\ UNCHANGED <<server, visits, path, overlay, req>>

ReceiveFetch(k) ==
    /\ query[k].stage = "served"
    /\ path' = path
    /\ query' = [query EXCEPT ![k].stage = "idle", ![k].data = query[k].got, ![k].got = Nil]
    /\ Rendered(overlay, req)
    /\ UNCHANGED <<server, visits>>

\* The retry has failed as well: the page keeps what it has.
FetchFails(k) ==
    /\ Faults # {}
    /\ query[k].stage = "sent"
    /\ query' = [query EXCEPT ![k].stage = "idle", ![k].behind = TRUE]
    /\ UNCHANGED <<server, visits, path, overlay, req>>

-----------------------------------------------------------------------------
User ==
    \/ \E p \in Links \cap Paths : Follow(p)
    \/ \E p \in Paths : Back(p)
    \/ \E d \in {"upload", "create"} : OpenDialog(d)
    \/ Close \/ SubmitCreate \/ createAndAdd \/ confirmDelete
    \/ \E s \in Songs : SubmitUpload(s)
    \/ \E row \in Rows : OpenMenu(row)
    \/ \E m \in {"root", "newPlaylist", "confirmDelete"} : SetMode(m)
    \/ \E p \in Playlists : addToPlaylist(p)

Server == \/ \E i \in DOMAIN req : Serve(i) \/ Refuse(i)
          \/ \E k \in Keys : ServeFetch(k)

Network == \/ \E i \in DOMAIN req : Receive(i) \/ ReceiveFailure(i) \/ GiveUp(i)
           \/ \E k \in Keys : ReceiveFetch(k) \/ FetchFails(k)

Next == User \/ Server \/ Network

Spec == Init /\ [][Next]_vars

-----------------------------------------------------------------------------
(* What the shell promises. *)

\* However the library grows from here, every track is in one album, once, and
\* two tracks are in the same album just when artist and title agree but for
\* case and punctuation: the joined slugs of an id cannot be taken apart in two
\* ways.
AlbumsPartition == \A lib \in NotPartitioned : ~IsSuffix(library, lib.tracks)

\* Nor will the cards of the artists miss a track or show one twice; each name
\* has one card, with the albums under that very name.
ArtistsCountAll == \A lib \in NotCounted : ~IsSuffix(library, lib.tracks)

\* No fetch of list k is under way, none has failed or been overtaken, and no
\* change to it waits to be heard of.
Settled(k) ==
    /\ query[k].stage = "idle" /\ ~query[k].behind
    /\ \A i \in DOMAIN req : req[i].stage = "ok" => k \notin Invalidated(req[i])

\* The lists on display are then those of the server, in their order, however
\* fetches, changes and visits overlapped; but a playlist may still show tracks
\* that are deleted, for a deletion does not renew it.
PagesAgree ==
    \A k \in Active : Settled(k) =>
        IF k \in Playlists /\ Exists(k)
        THEN query[k].data # Nil /\ Only(Shown(k), Range(library)) = lists[k]
        ELSE query[k].data = Listing(k)

\* A card leads to a page that has the album, and on it at least the tracks
\* that the card stands for, also if the card comes from a search.
CardsOpen ==
    (\A k \in Active : Settled(k)) =>
        \A p \in Links : Kind(p) = "album" =>
            LET opened == Range(AlbumTracks(Shown("tracks"), p[2]))
            IN  opened # {} /\ (Kind(path) = "results" =>
                    Range(AlbumTracks(Shown("found"), p[2])) \subseteq opened)

\* A playlist made for a track gets that track, though the page, the row and its
\* menu may be gone by then, unless a request fails or the track is deleted.
CreatedForTrack ==
    \A p \in Playlists :
        wanted[p] \in Range(library) /\ (\A i \in DOMAIN req : req[i].list # p)
            => wanted[p] \in Range(lists[p])

\* Steps that are not the user's.
Answered ==
    \/ \E i \in DOMAIN req : req'[i].stage # req[i].stage
    \/ \E k \in Keys : query[k].stage = "served" /\ query'[k].stage # "served"

\* What an answer may close.  A dialog: that of the kind its request came from,
\* the answer being a success; it may be one that has been opened since.  A row's
\* menu: the second answer of createAndAdd the menu it came from; and any answer
\* a menu whose row has gone, since the answer to a create leads to another page,
\* since the track has left the results of the search, or, on collection pages,
\* since the track is not at that position any more.
OverlayStays ==
    [][Answered /\ overlay' # overlay =>
        \/ \E i \in DOMAIN req :
               /\ req[i].stage = "ok" /\ req'[i].stage = "over"
               /\ IF IsRow(overlay.form)
                  THEN req[i].op = "addTo" /\ req[i].form = overlay.form
                  ELSE req[i].op = overlay.form.view
        \/ /\ IsRow(overlay.form) /\ overlay.form \notin Rows'
           /\ path' # path => \E i \in DOMAIN req :
                  /\ req[i].stage = "ok" /\ req'[i].stage = "over"
                  /\ req[i].op = "create" /\ path' = PlaylistPath(req[i].list)
           /\ overlay.form.view = "results" /\ path' = path =>
                  overlay.form.song \notin Range(Shown("found"))']_vars
=============================================================================
