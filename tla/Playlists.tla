------------------------------ MODULE Playlists -----------------------------
(***************************************************************************)
(* The playlists of the OpenBeats API server: the Postgres tables          *)
(* "playlists" and "playlist_tracks", and the handlers that fill them      *)
(* (internal/api/handlers_playlists.go on top of internal/db).             *)
(*                                                                         *)
(* A handler is a sequence of single statements without a transaction.     *)
(* Adding a track takes four: load the playlist, check that the track      *)
(* exists, read the next free position, insert.  Other requests come in    *)
(* between, among them other adds and the deletion of the very track.      *)
(***************************************************************************)
EXTENDS Naturals, FiniteSets

CONSTANTS
    Requests,       \* the HTTP requests that may arrive, each at most once
    Users,          \* the authenticated callers (claims.UserID)
    Admins,         \* the callers whose token carries role "admin"
    Tracks,         \* the tracks uploaded so far; a deleted one never returns
    PlaylistIds,    \* the playlists that exist or may be created
    Faults,         \* which failures may happen, a subset of FaultKinds
    Nil             \* no playlist row, no call, no writer

\* "crash": the process dies.  "db": a statement fails without effect.
\* "lost":  an INSERT commits but its reply does not arrive.
FaultKinds == {"crash", "db", "lost"}

Call == [op : {"get", "add"}, user : Users, playlist : PlaylistIds, track : Tracks]

ASSUME AdminsAssumption == Admins \subseteq Users
ASSUME FaultsAssumption == Faults \subseteq FaultKinds
ASSUME NilAssumption    == Nil \notin Users \cup Requests \cup Call

VARIABLES
    tracks,     \* the rows of table tracks
    owner,      \* owner[p]: owner_id of playlist p, Nil while there is no row
    position,   \* position[p][t]: of the row (p, t), 0 while there is none
    pc,         \* pc[r]: where the handler of request r stands
    call,       \* call[r]: what request r asks for, Nil until it arrives
    next,       \* next[r]: the position handler r has read
    reply,      \* reply[r]: the HTTP status sent, 0 while there is none
    writer,     \* history: writer[p][t]: the request that wrote row (p, t) last
    earlier     \* history: earlier[r]: the adds acknowledged before r arrived

data == <<tracks, owner, position, writer>>
vars == <<tracks, owner, position, pc, call, next, reply, writer, earlier>>

Active == {"load", "list", "check_track", "read_position", "insert"}

Labels == Active \cup {"idle", "done", "killed"}

Codes == {0, 200, 201, 400, 403, 404, 500}

TypeOK ==
    /\ tracks   \in SUBSET Tracks
    /\ owner    \in [PlaylistIds -> Users \cup {Nil}]
    /\ position \in [PlaylistIds -> [Tracks -> Nat]]
    /\ pc       \in [Requests -> Labels]
    /\ call     \in [Requests -> Call \cup {Nil}]
    /\ next     \in [Requests -> Nat]
    /\ reply    \in [Requests -> Codes]
    /\ writer   \in [PlaylistIds -> [Tracks -> Requests \cup {Nil}]]
    /\ earlier  \in [Requests -> SUBSET Requests]

\* Some playlists have been created already and are still empty.
Init ==
    /\ tracks   = Tracks
    /\ owner    \in [PlaylistIds -> Users \cup {Nil}]
    /\ position = [p \in PlaylistIds |-> [t \in Tracks |-> 0]]
    /\ pc       = [r \in Requests |-> "idle"]
    /\ call     = [r \in Requests |-> Nil]
    /\ next     = [r \in Requests |-> 0]
    /\ reply    = [r \in Requests |-> 0]
    /\ writer   = [p \in PlaylistIds |-> [t \in Tracks |-> Nil]]
    /\ earlier  = [r \in Requests |-> {}]

-----------------------------------------------------------------------------
At(r, label) == pc[r] = label

Goto(r, label) ==
    /\ pc' = [pc EXCEPT ![r] = label]
    /\ UNCHANGED reply

Answer(r, code) ==
    /\ pc' = [pc EXCEPT ![r] = "done"]
    /\ reply' = [reply EXCEPT ![r] = code]

\* A statement of handler r fails and the handler gives up.
Fail(r) ==
    /\ "db" \in Faults
    /\ Answer(r, 500)

\* A request on /api/playlists/{id} arrives; both handlers load the playlist
\* first, whose {id} may be none.
Receive(r, c) ==
    /\ At(r, "idle")
    /\ call' = [call EXCEPT ![r] = c]
    /\ earlier' = [earlier EXCEPT ![r] = {a \in Requests : call[a] # Nil /\ reply[a] = 201}]
    /\ Goto(r, "load") \/ Answer(r, 400)
    /\ UNCHANGED <<tracks, owner, position, next, writer>>

\* The INSERT of CreatePlaylist.
CreateRow(p, u) == owner' = [owner EXCEPT ![p] = u]

\* handleCreatePlaylist: a single INSERT, under an id nobody has seen.
CreatePlaylist(r, u, p) ==
    /\ At(r, "idle")
    /\ owner[p] = Nil
    /\ \/ CreateRow(p, u) /\ Answer(r, 201)
       \/ Fail(r) /\ UNCHANGED owner
       \/ /\ "lost" \in Faults
          /\ CreateRow(p, u)
          /\ Answer(r, 500)
    /\ UNCHANGED <<tracks, position, call, next, writer, earlier>>

\* Mutant of MayUse: any authenticated caller may.
AnyoneMayUse(u, p) == u \in Users

\* loadOwnedPlaylist: the owner, or an admin.
MayUse(u, p) == u \in Admins \/ owner[p] = u

\* GetPlaylist finds the row.
Exists(p) == owner[p] # Nil

\* The body of an add is decoded once the playlist has been loaded; it may be bad.
LoadPlaylist(r) ==
    LET c == call[r]
    IN  /\ At(r, "load")
        /\ \/ ~Exists(c.playlist) /\ Answer(r, 404)
           \/ Exists(c.playlist) /\ ~MayUse(c.user, c.playlist) /\ Answer(r, 403)
           \/ /\ Exists(c.playlist) /\ MayUse(c.user, c.playlist)
              /\ \/ c.op = "get" /\ Goto(r, "list")
                 \/ c.op = "add" /\ (Goto(r, "check_track") \/ Answer(r, 400))
           \/ Fail(r)
        /\ UNCHANGED <<data, call, next, earlier>>

\* handleGetPlaylist: ListPlaylistTracks.
ListTracks(r) ==
    /\ At(r, "list")
    /\ Answer(r, 200) \/ Fail(r)
    /\ UNCHANGED <<data, call, next, earlier>>

-----------------------------------------------------------------------------
(* handleAddPlaylistTrack, after it has loaded the playlist *)

CheckTrack(r) ==
    /\ At(r, "check_track")
    /\ \/ call[r].track \in tracks /\ Goto(r, "read_position")
       \/ call[r].track \notin tracks /\ Answer(r, 404)
       \/ Fail(r)
    /\ UNCHANGED <<data, call, next, earlier>>

\* Mutant of NextPositions: one more than the number of rows.
CountedPositions(p) == {Cardinality({t \in Tracks : position[p][t] # 0}) + 1}

\* Mutant of NextPositions: MAX(position) + 1 without COALESCE is NULL at first.
UncoalescedPositions(p) ==
    IF \A t \in Tracks : position[p][t] = 0
    THEN {Nil}
    ELSE {n \in {position[p][t] + 1 : t \in Tracks} :
             \A t \in Tracks : position[p][t] < n}

\* NextPlaylistPosition, COALESCE(MAX(position), 0) + 1, as a set of one member.
NextPositions(p) ==
    {n \in {1} \cup {position[p][t] + 1 : t \in Tracks} :
        \A t \in Tracks : position[p][t] < n}

ReadPosition(r) ==
    /\ At(r, "read_position")
    /\ \/ /\ \E n \in NextPositions(call[r].playlist) :
                next' = [next EXCEPT ![r] = n]
          /\ Goto(r, "insert")
       \/ Fail(r) /\ UNCHANGED next
    /\ UNCHANGED <<data, call, earlier>>

\* Mutant of PutRow: ON CONFLICT DO NOTHING.
PutRowOnce(r) ==
    LET c == call[r]
    IN  position' = IF position[c.playlist][c.track] # 0 THEN position
                    ELSE [position EXCEPT ![c.playlist][c.track] = next[r]]

\* The upsert of AddPlaylistTrack: a new row, or a new position for the old one.
PutRow(r) == position' = [position EXCEPT ![call[r].playlist][call[r].track] = next[r]]

\* History: r is the last add of its track to have taken effect.
Wrote(r) == writer' = [writer EXCEPT ![call[r].playlist][call[r].track] = r]

WriteRow(r) == PutRow(r) /\ Wrote(r)

\* Mutant of InsertRow: the columns have no REFERENCES.
InsertRowUnchecked(r) ==
    /\ At(r, "insert")
    /\ WriteRow(r)
    /\ Answer(r, 201)
    /\ UNCHANGED <<tracks, owner, call, next, earlier>>

\* Mutant of InsertRow: the error of the statement is dropped.
InsertRowForgiving(r) ==
    /\ At(r, "insert")
    /\ \/ call[r].track \in tracks /\ WriteRow(r)
       \/ "db" \in Faults /\ UNCHANGED <<position, writer>>
    /\ Answer(r, 201)
    /\ UNCHANGED <<tracks, owner, call, next, earlier>>

\* AddPlaylistTrack.  If the track has been deleted since CheckTrack, its foreign
\* key fails the statement.
InsertRow(r) ==
    /\ At(r, "insert")
    /\ \/ call[r].track \in tracks /\ WriteRow(r) /\ Answer(r, 201)
       \/ /\ call[r].track \in tracks /\ "lost" \in Faults
          /\ WriteRow(r)
          /\ Answer(r, 500)
       \/ /\ call[r].track \notin tracks /\ Answer(r, 500)
          /\ UNCHANGED <<position, writer>>
       \/ Fail(r) /\ UNCHANGED <<position, writer>>
    /\ UNCHANGED <<tracks, owner, call, next, earlier>>

-----------------------------------------------------------------------------
\* Another handler deletes the row of track t (see TrackStore), and with it, by
\* ON DELETE CASCADE, its row in every playlist.
DeleteTrack(t) ==
    /\ t \in tracks
    /\ tracks' = tracks \ {t}
    /\ position' = [p \in PlaylistIds |-> [position[p] EXCEPT ![t] = 0]]
    /\ writer' = [p \in PlaylistIds |-> [writer[p] EXCEPT ![t] = Nil]]
    /\ UNCHANGED <<owner, pc, call, next, reply, earlier>>

\* The process dies and is started again.
Crash ==
    /\ "crash" \in Faults
    /\ \E r \in Requests : pc[r] \in Active
    /\ pc' = [r \in Requests |-> IF pc[r] \in Active THEN "killed" ELSE pc[r]]
    /\ UNCHANGED <<data, call, next, reply, earlier>>

\* One step of the handler of request r, its arrival included.
Handle(r) ==
    \/ \E c \in Call : Receive(r, c)
    \/ \E u \in Users, p \in PlaylistIds : CreatePlaylist(r, u, p)
    \/ LoadPlaylist(r)
    \/ ListTracks(r)
    \/ CheckTrack(r)
    \/ ReadPosition(r)
    \/ InsertRow(r)

Next ==
    \/ \E r \in Requests : Handle(r)
    \/ \E t \in Tracks : DeleteTrack(t)
    \/ Crash

Spec == Init /\ [][Next]_vars

\* Requests that have arrived and are adding to playlist p.
Adding(p) ==
    {r \in Requests :
        pc[r] \in Active /\ call[r].op = "add" /\ call[r].playlist = p}

\* No two adds to one playlist overlap: what happens while a single user waits
\* for each answer before adding the next track.
OneAddAtATime ==
    \A p \in PlaylistIds : \A r, s \in Adding(p) : r = s

SerialSpec == Init /\ [][Next /\ OneAddAtATime']_vars

-----------------------------------------------------------------------------
(* The inductive part: what a handler may rely on between its steps. *)

\* Whoever has come past LoadPlaylist was allowed to; the position a handler
\* has read is above every row whose add had been acknowledged when it arrived,
\* and the requests it counts as earlier have finished for good.
HandlerKnows(r) ==
    /\ pc[r] = "idle" => call[r] = Nil /\ reply[r] = 0
    /\ pc[r] \in Active => call[r] # Nil /\ reply[r] = 0
    /\ reply[r] = 201 => pc[r] = "done"
    /\ \A a \in earlier[r] : pc[a] = "done"
    /\ pc[r] \in {"check_track", "read_position", "insert"} =>
           /\ call[r].op = "add"
           /\ owner[call[r].playlist] # Nil
           /\ call[r].user \in Admins \cup {owner[call[r].playlist]}
    /\ pc[r] = "insert" =>
           /\ next[r] # 0
           /\ \A t \in Tracks :
                  writer[call[r].playlist][t] \in earlier[r] =>
                      position[call[r].playlist][t] < next[r]

\* A row knows the finished request that wrote it, and it asked for that row.
RowWritten(p, t) ==
    /\ position[p][t] # 0 <=> writer[p][t] # Nil
    /\ writer[p][t] # Nil =>
           /\ call[writer[p][t]] # Nil
           /\ call[writer[p][t]].playlist = p
           /\ call[writer[p][t]].track = t
           /\ pc[writer[p][t]] = "done"

HandlersKnow == \A r \in Requests : HandlerKnows(r)

RowsWritten == \A p \in PlaylistIds, t \in Tracks : RowWritten(p, t)

\* While adds do not overlap, the position read is above every row.
NextIsFree ==
    \A r \in Requests : pc[r] = "insert" =>
        \A t \in Tracks : position[call[r].playlist][t] < next[r]

-----------------------------------------------------------------------------
(* What the playlists promise. *)

\* Playlists hold only tracks of the library and rows of existing playlists.
\* The handler's own check of the track may be out of date when it inserts;
\* the foreign key and its cascade have to make up for that.
EntriesExist ==
    \A p \in PlaylistIds, t \in Tracks :
        position[p][t] # 0 => t \in tracks /\ owner[p] # Nil

\* Only the owner of a playlist or an admin ever puts a row into it.
OnlyOwnersWrite ==
    \A p \in PlaylistIds, t \in Tracks :
        writer[p][t] # Nil =>
            call[writer[p][t]].user \in Admins \cup {owner[p]}

\* An add that was acknowledged stays: the track is in the playlist until it is
\* deleted from the library, whatever other adds and failures follow.
AddedStays ==
    \A r \in Requests :
        call[r] # Nil /\ reply[r] = 201 /\ call[r].track \in tracks =>
            position[call[r].playlist][call[r].track] # 0

\* Adds that do not overlap keep their order: a row comes after every row whose
\* add had been acknowledged before its own add arrived, also when other adds
\* and deletions run in between.
AppendOrder ==
    \A p \in PlaylistIds : \A a, b \in Tracks :
        /\ writer[p][a] # Nil /\ writer[p][b] # Nil
        /\ writer[p][a] \in earlier[writer[p][b]]
        => position[p][a] < position[p][b]

\* docs/api.md:57 describes GET /api/playlists/{id} as "Playlist with ordered
\* tracks": no two rows share a position, so that ORDER BY position is an order.
\* Two adds that read the same maximum before either inserts break it.
PositionsDiffer ==
    \A p \in PlaylistIds : \A a, b \in Tracks :
        position[p][a] # 0 /\ position[p][a] = position[p][b] => a = b

\* The rows of a playlist as a list: its tracks, and for each those before it.
Members(p) == {t \in Tracks : position[p][t] # 0}

Before(p, b) ==
    {a \in Members(p) : b \in Members(p) /\ position[p][a] < position[p][b]}

Order == INSTANCE PlaylistOrder WITH
    Playlists <- PlaylistIds,
    members <- [p \in PlaylistIds |-> Members(p)],
    before <- [p \in PlaylistIds |-> [b \in Tracks |-> Before(p, b)]]

\* While adds do not overlap the tables implement the abstract playlists: every
\* add moves its track to the end of a total order, every deletion of a track
\* leaves the order of the others as it was.
ListInOrder == Order!Spec
=============================================================================
