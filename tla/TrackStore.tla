----------------------------- MODULE TrackStore -----------------------------
(***************************************************************************)
(* The track library of the OpenBeats API server: the Postgres table       *)
(* "tracks" and the audio and cover files on the volume, and the HTTP      *)
(* handlers that keep the two in step (internal/api/handlers_tracks.go on  *)
(* top of internal/storage and internal/db).                               *)
(*                                                                         *)
(* Every request runs in a goroutine of its own and there is no lock and   *)
(* no transaction: a handler is a sequence of database statements and file *)
(* operations, each one an action here, that interleave freely with those  *)
(* of other requests.  A step may also fail, in the ways Faults allows.    *)
(*                                                                         *)
(* Identities.  An upload draws a fresh UUID for its files and the INSERT  *)
(* draws a fresh UUID for the row, so both are identified with the request *)
(* that made them: track t is the one uploaded by request t.               *)
(***************************************************************************)
EXTENDS Naturals

CONSTANTS
    Requests,   \* the HTTP requests that may arrive; each arrives at most once
    Users,      \* the authenticated callers (claims.UserID)
    Admins,     \* the callers whose token carries role "admin"
    Faults,     \* which failures may happen, a subset of FaultKinds
    Nil         \* no row, no call

\* "crash": the process dies (kill, OOM, shutdown deadline) between two steps.
\* "io":    a file operation fails.
\* "db":    a statement fails and has no effect.
\* "lost":  a statement commits but its reply does not arrive, e.g. the client
\*          hangs up, r.Context() is cancelled and pgx drops the connection.
FaultKinds == {"crash", "io", "db", "lost"}

\* A row of tracks: uploaded_by and whether cover_path is not NULL.  The
\* file_path is not a column here: it is always the audio file of the same id.
Row == [owner : Users, cover : BOOLEAN]

Ops == {"upload", "get", "stream", "cover", "delete"}

Call == [op : Ops, user : Users, track : Requests]

ASSUME FaultsAssumption == Faults \subseteq FaultKinds
ASSUME AdminsAssumption == Admins \subseteq Users
ASSUME NilAssumption    == Nil \notin Row /\ Nil \notin Call

VARIABLES
    tracks,     \* tracks[t]: the row of track t, or Nil
    audio,      \* audio[t]: the audio file of t on the volume
    cover,      \* cover[t]: the cover file of t on the volume
    pc,         \* pc[r]: where the handler of request r stands
    call,       \* call[r]: what request r asks for, Nil until it arrives
    row,        \* row[r]: the row handler r has loaded, or is about to insert
    reply,      \* reply[r]: the HTTP status sent, 0 while there is none
    tainted     \* history: tracks whose files met a fault in mid-change

vars == <<tracks, audio, cover, pc, call, row, reply, tainted>>

FileStates == {"absent", "partial", "whole"}

\* The steps of an upload before its row exists, in the order they run.
UploadSteps == {"create_audio", "copy_audio", "save_cover", "insert"}

\* Storage.Delete of both files: the end of a delete, and the rollback of an
\* upload whose INSERT reported an error.
DeleteSteps == {"delete_audio", "delete_cover"}

Active == UploadSteps \cup DeleteSteps \cup {"load", "open", "delete_row"}

Labels == {"idle", "done", "killed"} \cup Active

\* A crash in one of these steps leaves files of the track behind.
FileWork == (UploadSteps \ {"create_audio"}) \cup DeleteSteps

Codes == {0, 200, 201, 204, 400, 403, 404, 500}

TypeOK ==
    /\ tracks  \in [Requests -> Row \cup {Nil}]
    /\ audio   \in [Requests -> FileStates]
    /\ cover   \in [Requests -> FileStates]
    /\ pc      \in [Requests -> Labels]
    /\ call    \in [Requests -> Call \cup {Nil}]
    /\ row     \in [Requests -> Row \cup {Nil}]
    /\ reply   \in [Requests -> Codes]
    /\ tainted \in SUBSET Requests

Init ==
    /\ tracks  = [t \in Requests |-> Nil]
    /\ audio   = [t \in Requests |-> "absent"]
    /\ cover   = [t \in Requests |-> "absent"]
    /\ pc      = [r \in Requests |-> "idle"]
    /\ call    = [r \in Requests |-> Nil]
    /\ row     = [r \in Requests |-> Nil]
    /\ reply   = [r \in Requests |-> 0]
    /\ tainted = {}

-----------------------------------------------------------------------------
(* Moves of one handler. *)

At(r, label) == pc[r] = label

Goto(r, label) ==
    /\ pc' = [pc EXCEPT ![r] = label]
    /\ UNCHANGED reply

Answer(r, code) ==
    /\ pc' = [pc EXCEPT ![r] = "done"]
    /\ reply' = [reply EXCEPT ![r] = code]

\* The statements CreateTrack, DeleteTrack and GetTrack.
InsertRow(r) == tracks' = [tracks EXCEPT ![r] = row[r]]

DeleteRow(t) == tracks' = [tracks EXCEPT ![t] = Nil]

Found(t) == tracks[t]

Taint(t) == tainted' = tainted \cup {t}

\* Mutant of MayDelete: every authenticated caller may delete.
AnyoneMayDelete(user, r) == user \in Users

\* The rule of handleDeleteTrack: the uploader or an admin.
MayDelete(user, r) == user \in Admins \/ r.owner = user

-----------------------------------------------------------------------------
(* Arrival of a request that passed RequireAuth. *)

\* POST /api/tracks with a well-formed form; tags are read from the body.
ReceiveUpload(r, u) ==
    /\ At(r, "idle")
    /\ call' = [call EXCEPT ![r] = [op |-> "upload", user |-> u, track |-> r]]
    /\ row' = [row EXCEPT ![r] = [owner |-> u, cover |-> FALSE]]
    /\ Goto(r, "create_audio")
    /\ UNCHANGED <<tracks, audio, cover, tainted>>

\* A request on /api/tracks/{id}: all four handlers start with loadTrack.
ReceiveOnTrack(r, u, op, t) ==
    /\ At(r, "idle")
    /\ call' = [call EXCEPT ![r] = [op |-> op, user |-> u, track |-> t]]
    /\ Goto(r, "load")
    /\ UNCHANGED <<tracks, audio, cover, row, tainted>>

\* The early answers: an unusable multipart form or an {id} that is no UUID is
\* a 400, a form file that cannot be rewound after reading its tags is a 500.
Refuse(r) ==
    /\ At(r, "idle")
    /\ Answer(r, 400) \/ ("io" \in Faults /\ Answer(r, 500))
    /\ UNCHANGED <<tracks, audio, cover, call, row, tainted>>

-----------------------------------------------------------------------------
(* handleUploadTrack *)

\* SaveReader: os.Create of the audio file.
CreateAudio(r) ==
    /\ At(r, "create_audio")
    /\ \/ /\ audio' = [audio EXCEPT ![r] = "partial"]
          /\ Goto(r, "copy_audio")
       \/ /\ "io" \in Faults
          /\ Answer(r, 500)
          /\ UNCHANGED audio
    /\ UNCHANGED <<tracks, cover, call, row, tainted>>

\* Mutant of CopyAudio: the error of io.Copy is dropped.
CopyAudioUnchecked(r) ==
    /\ At(r, "copy_audio")
    /\ \/ audio' = [audio EXCEPT ![r] = "whole"] /\ UNCHANGED tainted
       \/ "io" \in Faults /\ Taint(r) /\ UNCHANGED audio
    /\ Goto(r, "save_cover") \/ Goto(r, "insert")
    /\ UNCHANGED <<tracks, cover, call, row>>

\* SaveReader: io.Copy.  A failure leaves the partial file where it is.  The
\* tags decide whether there is a cover to save (info.Cover != nil).
CopyAudio(r) ==
    /\ At(r, "copy_audio")
    /\ \/ /\ audio' = [audio EXCEPT ![r] = "whole"]
          /\ Goto(r, "save_cover") \/ Goto(r, "insert")
          /\ UNCHANGED tainted
       \/ /\ "io" \in Faults
          /\ Answer(r, 500)
          /\ Taint(r)
          /\ UNCHANGED audio
    /\ UNCHANGED <<tracks, cover, call, row>>

SaveBytes(r, state) == cover' = [cover EXCEPT ![r] = state]

\* SaveBytes of the embedded cover.  An error is only logged: coverPath stays
\* nil, and what os.WriteFile left behind is forgotten.
SaveCover(r) ==
    /\ At(r, "save_cover")
    /\ Goto(r, "insert")
    /\ \/ /\ SaveBytes(r, "whole")
          /\ row' = [row EXCEPT ![r].cover = TRUE]
          /\ UNCHANGED tainted
       \/ /\ "io" \in Faults
          /\ \/ UNCHANGED <<cover, tainted>>
             \/ SaveBytes(r, "partial") /\ Taint(r)
          /\ UNCHANGED row
    /\ UNCHANGED <<tracks, audio, call>>

\* Mutant of CreateTrack: no rollback of the files when the INSERT fails.
CreateTrackNoRollback(r) ==
    /\ At(r, "insert")
    /\ \/ /\ InsertRow(r)
          /\ Answer(r, 201)
       \/ /\ "db" \in Faults
          /\ Answer(r, 500)
          /\ UNCHANGED tracks
    /\ UNCHANGED <<audio, cover, call, row, tainted>>

\* The INSERT.  Any error starts the rollback of the files, also the error of
\* a statement that did commit.
CreateTrack(r) ==
    /\ At(r, "insert")
    /\ \/ /\ InsertRow(r)
          /\ Answer(r, 201)
          /\ UNCHANGED tainted
       \/ /\ "db" \in Faults
          /\ Goto(r, "delete_audio")
          /\ UNCHANGED <<tracks, tainted>>
       \/ /\ "lost" \in Faults
          /\ InsertRow(r)
          /\ Goto(r, "delete_audio")
          /\ Taint(r)
    /\ UNCHANGED <<audio, cover, call, row>>

-----------------------------------------------------------------------------
(* handleGetTrack, handleStreamTrack, handleTrackCover, handleDeleteTrack *)

\* loadTrack, and the handler's decisions up to its next shared step.
LoadTrack(r) ==
    LET c == call[r]
        found == Found(c.track)
    IN  /\ At(r, "load")
        /\ \/ /\ found = Nil
              /\ Answer(r, 404)
              /\ UNCHANGED row
           \/ /\ "db" \in Faults
              /\ Answer(r, 500)
              /\ UNCHANGED row
           \/ /\ found # Nil
              /\ row' = [row EXCEPT ![r] = found]
              /\ \/ c.op = "get" /\ Answer(r, 200)
                 \/ c.op = "stream" /\ Goto(r, "open")
                 \/ c.op = "cover" /\ found.cover /\ Goto(r, "open")
                 \/ c.op = "cover" /\ ~found.cover /\ Answer(r, 404)
                 \/ /\ c.op = "delete"
                    /\ MayDelete(c.user, found)
                    /\ Goto(r, "delete_row")
                 \/ /\ c.op = "delete"
                    /\ ~MayDelete(c.user, found)
                    /\ Answer(r, 403)
        /\ UNCHANGED <<tracks, audio, cover, call, tainted>>

\* What Storage.Open finds for request r.
Opened(r) ==
    IF call[r].op = "stream" THEN audio[call[r].track] ELSE cover[call[r].track]

\* Storage.Open, Stat and http.ServeContent.  The descriptor keeps the content
\* readable if the file is unlinked later, so the file is read here.
OpenFile(r) ==
    LET file == Opened(r)
    IN  /\ At(r, "open")
        /\ \/ file # "absent" /\ Answer(r, 200)
           \/ (file = "absent" \/ "io" \in Faults) /\ Answer(r, 404)
           \/ file # "absent" /\ "io" \in Faults /\ Answer(r, 500)
        /\ UNCHANGED <<tracks, audio, cover, call, row, tainted>>

\* Mutants of DeleteTrack: the statement's error is ignored and the files are
\* removed all the same; the handler answers before removing the files.
DeleteTrackUnchecked(r) ==
    LET t == call[r].track
    IN  /\ At(r, "delete_row")
        /\ \/ DeleteRow(t)
           \/ "db" \in Faults /\ UNCHANGED tracks
        /\ Goto(r, "delete_audio")
        /\ UNCHANGED <<audio, cover, call, row, tainted>>

DeleteTrackOnly(r) ==
    LET t == call[r].track
    IN  /\ At(r, "delete_row")
        /\ DeleteRow(t)
        /\ Answer(r, 204)
        /\ UNCHANGED <<audio, cover, call, row, tainted>>

\* The DELETE statement; deleting a row that is already gone is no error.
DeleteTrack(r) ==
    LET t == call[r].track
    IN  /\ At(r, "delete_row")
        /\ \/ /\ DeleteRow(t)
              /\ Goto(r, "delete_audio")
              /\ UNCHANGED tainted
           \/ /\ "db" \in Faults
              /\ Answer(r, 500)
              /\ UNCHANGED <<tracks, tainted>>
           \/ /\ "lost" \in Faults
              /\ DeleteRow(t)
              /\ Answer(r, 500)
              /\ Taint(t)
        /\ UNCHANGED <<audio, cover, call, row>>

-----------------------------------------------------------------------------
(* Storage.Delete of the files, whose errors the handlers ignore *)

\* Mutant of FinalCode: a failed upload is reported as a conflict.
FinalCodeConflict(r) == IF call[r].op = "upload" THEN 409 ELSE 204

FinalCode(r) == IF call[r].op = "upload" THEN 500 ELSE 204

DeleteAudio(r) ==
    LET t == call[r].track
    IN  /\ At(r, "delete_audio")
        /\ \/ audio' = [audio EXCEPT ![t] = "absent"] /\ UNCHANGED tainted
           \/ "io" \in Faults /\ Taint(t) /\ UNCHANGED audio
        /\ IF row[r].cover THEN Goto(r, "delete_cover")
                           ELSE Answer(r, FinalCode(r))
        /\ UNCHANGED <<tracks, cover, call, row>>

DeleteCover(r) ==
    LET t == call[r].track
    IN  /\ At(r, "delete_cover")
        /\ \/ cover' = [cover EXCEPT ![t] = "absent"] /\ UNCHANGED tainted
           \/ "io" \in Faults /\ Taint(t) /\ UNCHANGED cover
        /\ Answer(r, FinalCode(r))
        /\ UNCHANGED <<tracks, audio, call, row>>

-----------------------------------------------------------------------------
\* The process dies and is started again: every handler that was running is
\* gone, nothing is cleaned up, the database and the volume stay as they are.
Crash ==
    /\ "crash" \in Faults
    /\ \E r \in Requests : pc[r] \in Active
    /\ pc' = [r \in Requests |-> IF pc[r] \in Active THEN "killed" ELSE pc[r]]
    /\ tainted' = tainted \cup
           {t \in Requests :
                \E r \in Requests : pc[r] \in FileWork /\ call[r].track = t}
    /\ UNCHANGED <<tracks, audio, cover, call, row, reply>>

\* One step of the handler of a request that has arrived.
Handle(r) ==
    \/ CreateAudio(r)
    \/ CopyAudio(r)
    \/ SaveCover(r)
    \/ CreateTrack(r)
    \/ LoadTrack(r)
    \/ OpenFile(r)
    \/ DeleteTrack(r)
    \/ DeleteAudio(r)
    \/ DeleteCover(r)

Receive(r) ==
    \/ \E u \in Users : ReceiveUpload(r, u)
    \/ \E u \in Users, op \in Ops \ {"upload"}, t \in Requests :
           ReceiveOnTrack(r, u, op, t)
    \/ Refuse(r)

Next ==
    \/ \E r \in Requests : Receive(r) \/ Handle(r)
    \/ Crash

Spec == Init /\ [][Next]_vars

\* The Go scheduler keeps running every handler; clients owe nothing.
FairSpec == Spec /\ \A r \in Requests : WF_vars(Handle(r))

-----------------------------------------------------------------------------
(* How the handlers keep out of each other's way: the inductive part. *)

\* The upload of t has got past its INSERT, so nobody will insert t again.
Settled(t) ==
    /\ call[t] # Nil /\ call[t].op = "upload"
    /\ pc[t] \in {"done", "killed"} \cup DeleteSteps

\* An upload works on its own track, which is not listed before the INSERT and
\* has its complete audio from the end of io.Copy on; the other handlers work
\* on a track whose upload is over; whoever removes files for a delete does so
\* after the row has gone, and so does a rollback unless a reply was lost.
HandlerAgrees(r) ==
    /\ pc[r] \in Active => call[r] # Nil
    /\ pc[r] \in Active \ {"load"} => row[r] # Nil
    /\ call[r] # Nil /\ call[r].op = "upload" => call[r].track = r
    /\ pc[r] \in UploadSteps => call[r].op = "upload"
    /\ pc[r] \in {"save_cover", "insert"} => audio[r] = "whole"
    /\ pc[r] \in {"load", "open", "delete_row"} => call[r].op # "upload"
    /\ pc[r] \in {"delete_row"} \cup DeleteSteps => Settled(call[r].track)
    /\ pc[r] \in DeleteSteps /\ (call[r].op # "upload" \/ "lost" \notin Faults) =>
           tracks[call[r].track] = Nil
    /\ reply[r] = 204 =>
           /\ pc[r] = "done" /\ call[r] # Nil /\ Settled(call[r].track)
           /\ tracks[call[r].track] = Nil

HandlersAgree ==
    /\ \A t \in Requests : tracks[t] # Nil => Settled(t)
    /\ \A r \in Requests : HandlerAgrees(r)

-----------------------------------------------------------------------------
(* What the library promises. *)

\* Every track the library lists can be played: its audio file is complete.
\* The upload handler inserts the row after the file and the delete handler
\* removes the row before it, so it holds under crashes and failures at every
\* step; it fails when the INSERT commits but reports an error ("lost").
RowsHaveAudio ==
    \A t \in Requests : tracks[t] # Nil => audio[t] = "whole"

\* The requests whose handlers are still at work on the files of t.
Working(t, labels) ==
    {r \in Requests : pc[r] \in labels /\ call[r].track = t}

\* The database and the volume agree, track by track: a listed track has its
\* audio, and a cover exactly when its row says so; a file of a track that is
\* not listed has a live handler that will list it or remove it.  The tracks
\* that met a fault in mid-change are excepted: nothing sweeps their orphans.
NoStrayFiles ==
    \A t \in Requests \ tainted :
        /\ tracks[t] # Nil =>
               /\ audio[t] = "whole"
               /\ tracks[t].cover = (cover[t] = "whole")
        /\ tracks[t] = Nil /\ audio[t] # "absent" =>
               Working(t, {"copy_audio", "save_cover", "insert", "delete_audio"}) # {}
        /\ tracks[t] = Nil /\ cover[t] # "absent" =>
               \E r \in Working(t, {"insert", "delete_audio", "delete_cover"}) :
                   row[r].cover

\* An upload that was acknowledged stays listed, unchanged, until a request
\* that may delete it has issued its DELETE; no failing upload, refused
\* request, crash or other caller can make it disappear.
UploadsStay ==
    \A t \in Requests :
        reply[t] = 201 =>
            \/ tracks[t] = row[t]
            \/ \E r \in Requests :
                   /\ call[r] # Nil /\ call[r].op = "delete" /\ call[r].track = t
                   /\ call[r].user \in Admins \cup {row[t].owner}
                   /\ pc[r] \notin {"load", "delete_row"}

\* Once a delete has been answered with 204 the track is gone for good: no
\* slower handler brings the row back.
DeletedStaysGone ==
    \A r \in Requests :
        reply[r] = 204 => tracks[call[r].track] = Nil

\* A delete that is answered with 204 has removed the track's files with its
\* row, as the API reference has it: "Delete track and its files".  Storage.Delete
\* may fail, and the handler drops its errors.
DeleteRemovesFiles ==
    \A r \in Requests :
        reply[r] = 204 =>
            audio[call[r].track] = "absent" /\ cover[call[r].track] = "absent"

\* A stream never serves part of an upload that is still being written or was
\* broken off, whatever else happens to the track in between.
StreamServesWholeFile ==
    [][\A r \in Requests :
           reply[r] = 0 /\ reply'[r] = 200 /\ call[r].op = "stream" =>
               audio[call[r].track] = "whole"]_vars

\* The files of an acknowledged track whose row has been deleted are removed
\* in the end, unless a fault broke that off.
RemovedEventuallyFreed ==
    \A t \in Requests :
        (reply[t] = 201 /\ tracks[t] = Nil) ~>
            \/ audio[t] = "absent" /\ cover[t] = "absent"
            \/ t \in tainted
=============================================================================
