--------------------------- MODULE PlaylistsProofs --------------------------
(* Theorems about Playlists, for every set of requests, callers, tracks,     *)
(* playlists and faults.                                                      *)
EXTENDS Playlists, TLAPS

\* The inductive invariant.  AppendOrder needs what HandlersKnow says of a
\* position already read, and that the writers of rows have finished, so that
\* no request appears twice in the history.
IInv ==
    /\ TypeOK
    /\ HandlersKnow
    /\ RowsWritten
    /\ EntriesExist
    /\ OnlyOwnersWrite
    /\ AddedStays
    /\ AppendOrder

LEMMA InitInv == Init => IInv
  BY NilAssumption
  DEF Init, IInv, TypeOK, HandlersKnow, HandlerKnows, RowsWritten, RowWritten,
      EntriesExist, OnlyOwnersWrite, AddedStays, AppendOrder, Active, Labels, Codes

\* The position read is a number above all that are in use.
LEMMA NextAboveAll ==
  ASSUME TypeOK, NEW p \in PlaylistIds, NEW n \in NextPositions(p)
  PROVE  n \in Nat \ {0} /\ \A t \in Tracks : position[p][t] < n
BY DEF NextPositions, TypeOK

-----------------------------------------------------------------------------
(* Steps of the handlers that leave the tables alone. *)

\* What only the handler q itself changes when it moves.
Moves(q) ==
    /\ \A r \in Requests \ {q} :
           /\ pc'[r] = pc[r] /\ call'[r] = call[r] /\ reply'[r] = reply[r]
           /\ next'[r] = next[r] /\ earlier'[r] = earlier[r]
    /\ pc[q] # "done" /\ pc[q] # "killed"

\* Every step of a handler has this shape.
LEMMA HandleMoves ==
  ASSUME TypeOK, NEW q \in Requests, Handle(q)
  PROVE  Moves(q)
BY DEF Handle, Receive, CreatePlaylist, CreateRow, LoadPlaylist, Exists, ListTracks,
   CheckTrack, ReadPosition, InsertRow, Moves, TypeOK, At, Goto, Answer, Fail, Active

\* A handler of an arrived request asks for something.
LEMMA CallIsCall ==
  ASSUME TypeOK, NEW r \in Requests, call[r] # Nil
  PROVE  /\ call[r] \in Call
         /\ call[r].playlist \in PlaylistIds /\ call[r].track \in Tracks
         /\ call[r].user \in Users
BY DEF TypeOK, Call

\* Going on and answering keep the types of pc and reply.
LEMMA TypeMove ==
  ASSUME TypeOK, NEW q \in Requests,
         \/ \E l \in Active : Goto(q, l)
         \/ \E code \in Codes : Answer(q, code)
         \/ Fail(q)
  PROVE  pc' \in [Requests -> Labels] /\ reply' \in [Requests -> Codes]
<1> USE DEF TypeOK, Labels, Codes
<1>1. ASSUME NEW l \in Active, Goto(q, l)
      PROVE  pc' \in [Requests -> Labels] /\ reply' \in [Requests -> Codes]
  BY <1>1 DEF Goto
<1>2. ASSUME NEW code \in Codes, Answer(q, code)
      PROVE  pc' \in [Requests -> Labels] /\ reply' \in [Requests -> Codes]
  BY <1>2 DEF Answer
<1> QED
  BY <1>1, <1>2 DEF Fail

\* Types are kept by the handlers.
LEMMA TypeHandle ==
  ASSUME TypeOK, HandlersKnow, NEW q \in Requests, Handle(q)
  PROVE  TypeOK'
<1>1. pc' \in [Requests -> Labels] /\ reply' \in [Requests -> Codes]
  <2>1. \/ \E l \in Active : Goto(q, l)
        \/ \E code \in Codes : Answer(q, code)
        \/ Fail(q)
    <3>1. CASE (\E c \in Call : Receive(q, c))
               \/ (\E u \in Users, p \in PlaylistIds : CreatePlaylist(q, u, p))
      BY <3>1 DEF Receive, CreatePlaylist, CreateRow, Active, Codes
    <3>2. CASE LoadPlaylist(q)
      <4>1. \/ Answer(q, 404) \/ Answer(q, 403) \/ Answer(q, 400) \/ Fail(q)
            \/ Goto(q, "list") \/ Goto(q, "check_track")
        BY <3>2 DEF LoadPlaylist, Exists
      <4> QED
        BY <4>1 DEF Active, Codes
    <3>3. CASE ListTracks(q) \/ CheckTrack(q) \/ ReadPosition(q) \/ InsertRow(q)
      BY <3>3 DEF ListTracks, CheckTrack, ReadPosition, InsertRow, Active, Codes
    <3> QED
      BY <3>1, <3>2, <3>3 DEF Handle
  <2> QED
    BY <2>1, TypeMove
<1>2. call' \in [Requests -> Call \cup {Nil}] /\ earlier' \in [Requests -> SUBSET Requests]
  <2>1. ASSUME NEW c \in Call, Receive(q, c)
        PROVE  /\ call' \in [Requests -> Call \cup {Nil}]
               /\ earlier' \in [Requests -> SUBSET Requests]
    BY <2>1 DEF Receive, TypeOK
  <2>2. CASE UNCHANGED <<call, earlier>>
    BY <2>2 DEF TypeOK
  <2> QED
    BY <2>1, <2>2 DEF Handle, CreatePlaylist, CreateRow, LoadPlaylist, Exists,
       ListTracks, CheckTrack, ReadPosition, InsertRow
<1>3. tracks' \in SUBSET Tracks /\ owner' \in [PlaylistIds -> Users \cup {Nil}]
  BY DEF Handle, Receive, CreatePlaylist, CreateRow, LoadPlaylist, Exists,
     ListTracks, CheckTrack, ReadPosition, InsertRow, data, TypeOK
<1>4. next' \in [Requests -> Nat]
  <2>1. CASE ReadPosition(q)
    <3>1. call[q].playlist \in PlaylistIds
      BY <2>1, CallIsCall DEF ReadPosition, HandlersKnow, HandlerKnows, At, Active
    <3> QED
      BY <2>1, <3>1, NextAboveAll DEF ReadPosition, TypeOK
  <2> QED
    BY <2>1 DEF Handle, Receive, CreatePlaylist, CreateRow, LoadPlaylist, Exists,
       ListTracks, CheckTrack, InsertRow, data, TypeOK
<1>5. /\ position' \in [PlaylistIds -> [Tracks -> Nat]]
      /\ writer' \in [PlaylistIds -> [Tracks -> Requests \cup {Nil}]]
  <2>1. CASE InsertRow(q)
    <3>1. call[q].playlist \in PlaylistIds /\ call[q].track \in Tracks
      BY <2>1, CallIsCall DEF InsertRow, HandlersKnow, HandlerKnows, At, Active
    <3>2. CASE WriteRow(q)
      BY <3>1, <3>2 DEF WriteRow, PutRow, Wrote, TypeOK
    <3> QED
      BY <2>1, <3>2 DEF InsertRow, TypeOK
  <2> QED
    BY <2>1 DEF Handle, Receive, CreatePlaylist, CreateRow, LoadPlaylist, Exists,
       ListTracks, CheckTrack, ReadPosition, data, TypeOK
<1> QED
  BY <1>1, <1>2, <1>3, <1>4, <1>5 DEF TypeOK

\* What q knows after a step of its own.
LEMMA SelfKnows ==
  ASSUME TypeOK, HandlersKnow, NEW q \in Requests, Handle(q)
  PROVE  HandlerKnows(q)'
<1> USE NilAssumption DEF TypeOK, At, Goto, Answer, Fail, Active, data
<1>0. HandlerKnows(q) /\ Moves(q) /\ \A r \in Requests : reply[r] = 201 => pc[r] = "done"
  <2>1. \A r \in Requests : reply[r] = 201 => pc[r] = "done"
    BY DEF HandlersKnow, HandlerKnows
  <2> QED
    BY <2>1, HandleMoves DEF HandlersKnow
<1>1. ASSUME NEW c \in Call, Receive(q, c)
      PROVE  HandlerKnows(q)'
  BY <1>0, <1>1 DEF Receive, HandlerKnows
<1>2. ASSUME NEW u \in Users, NEW p \in PlaylistIds, CreatePlaylist(q, u, p)
      PROVE  HandlerKnows(q)'
  BY <1>0, <1>2 DEF CreatePlaylist, CreateRow, HandlerKnows
<1>3. CASE LoadPlaylist(q)
  BY <1>0, <1>3, CallIsCall DEF LoadPlaylist, Exists, HandlerKnows, MayUse, Call
<1>4. CASE ListTracks(q)
  BY <1>0, <1>4 DEF ListTracks, HandlerKnows
<1>5. CASE CheckTrack(q)
  BY <1>0, <1>5 DEF CheckTrack, HandlerKnows
<1>6. CASE ReadPosition(q)
  BY <1>0, <1>6, NextAboveAll, CallIsCall DEF ReadPosition, HandlerKnows
<1>7. CASE InsertRow(q)
  BY <1>0, <1>7 DEF InsertRow, HandlerKnows
<1> QED
  BY <1>1, <1>2, <1>3, <1>4, <1>5, <1>6, <1>7 DEF Handle

\* What another handler r knows is not disturbed by a step of q: the requests
\* it counts as earlier have finished, so q is none of them.
LEMMA OthersKnow ==
  ASSUME TypeOK, HandlersKnow, NEW q \in Requests, Handle(q), NEW r \in Requests \ {q}
  PROVE  HandlerKnows(r)'
<1>1. /\ pc'[r] = pc[r] /\ call'[r] = call[r] /\ reply'[r] = reply[r]
      /\ next'[r] = next[r] /\ earlier'[r] = earlier[r]
  BY HandleMoves DEF Moves
<1>2. HandlerKnows(r)
  BY DEF HandlersKnow
<1>3. /\ \A a \in earlier[r] : pc'[a] = "done"
      /\ q \notin earlier[r]
  BY <1>2, HandleMoves DEF Moves, HandlerKnows, TypeOK
<1>4. \A p \in PlaylistIds : owner[p] # Nil => owner'[p] = owner[p]
  BY DEF Handle, Receive, CreatePlaylist, CreateRow, LoadPlaylist, Exists,
     ListTracks, CheckTrack, ReadPosition, InsertRow, data, TypeOK
<1>5. \A p \in PlaylistIds, t \in Tracks :
          writer'[p][t] = q \/ (writer'[p][t] = writer[p][t] /\ position'[p][t] = position[p][t])
  <2>1. CASE InsertRow(q)
    <3>1. call[q].playlist \in PlaylistIds /\ call[q].track \in Tracks
      BY <2>1, CallIsCall DEF InsertRow, HandlersKnow, HandlerKnows, At, Active
    <3>2. CASE WriteRow(q)
      BY <3>1, <3>2 DEF WriteRow, PutRow, Wrote, TypeOK
    <3> QED
      BY <2>1, <3>2 DEF InsertRow
  <2> QED
    BY <2>1 DEF Handle, Receive, CreatePlaylist, CreateRow, LoadPlaylist, Exists,
       ListTracks, CheckTrack, ReadPosition, data
<1>6. pc[r] \in Active => call[r].playlist \in PlaylistIds
  BY <1>2, CallIsCall DEF HandlerKnows
<1> QED
  BY <1>1, <1>2, <1>3, <1>4, <1>5, <1>6 DEF HandlerKnows, Active

-----------------------------------------------------------------------------
(* The rows. *)

\* A step of a handler either is an InsertRow that puts its row, or leaves the
\* rows alone and acknowledges no add.
LEMMA HandleRows ==
  ASSUME TypeOK, HandlersKnow, NEW q \in Requests, Handle(q)
  PROVE  /\ tracks' = tracks
         /\ \/ InsertRow(q) /\ WriteRow(q)
            \/ /\ position' = position /\ writer' = writer
               /\ reply'[q] = 201 => call'[q] = Nil
<1> USE DEF At, Goto, Answer, Fail
<1>1. HandlerKnows(q)
  BY DEF HandlersKnow
<1>2. CASE InsertRow(q)
  BY <1>2 DEF InsertRow, TypeOK
<1>3. ASSUME NEW c \in Call, Receive(q, c)
      PROVE  /\ tracks' = tracks /\ position' = position /\ writer' = writer
             /\ reply'[q] # 201
  BY <1>1, <1>3 DEF Receive, HandlerKnows, TypeOK
<1>4. ASSUME NEW u \in Users, NEW p \in PlaylistIds, CreatePlaylist(q, u, p)
      PROVE  /\ tracks' = tracks /\ position' = position /\ writer' = writer
             /\ call'[q] = Nil
  BY <1>1, <1>4 DEF CreatePlaylist, CreateRow, HandlerKnows
<1>5. CASE LoadPlaylist(q) \/ ListTracks(q) \/ CheckTrack(q) \/ ReadPosition(q)
  <2>1. tracks' = tracks /\ position' = position /\ writer' = writer
    BY <1>5 DEF LoadPlaylist, Exists, ListTracks, CheckTrack, ReadPosition, data
  <2>2. reply'[q] # 201
    BY <1>1, <1>5 DEF LoadPlaylist, Exists, ListTracks, CheckTrack, ReadPosition,
       HandlerKnows, Active, TypeOK
  <2> QED
    BY <2>1, <2>2
<1> QED
  BY <1>2, <1>3, <1>4, <1>5 DEF Handle

\* Existing rows keep their writer's claims, and a new row gets them: the step
\* that writes it is the last one of its request.
LEMMA WrittenHandle ==
  ASSUME TypeOK, HandlersKnow, RowsWritten, NEW q \in Requests, Handle(q)
  PROVE  RowsWritten'
<1> SUFFICES ASSUME NEW p \in PlaylistIds, NEW t \in Tracks
             PROVE  RowWritten(p, t)'
  BY DEF RowsWritten
<1>1. RowWritten(p, t) /\ Moves(q)
  BY HandleMoves DEF RowsWritten
<1>2. CASE InsertRow(q) /\ WriteRow(q)
  <2>1. /\ HandlerKnows(q) /\ call[q] # Nil /\ call' = call /\ pc'[q] = "done"
        /\ call[q].playlist \in PlaylistIds /\ call[q].track \in Tracks
        /\ next[q] # 0
    BY <1>2, CallIsCall
    DEF InsertRow, HandlersKnow, HandlerKnows, At, Answer, Fail, Active, TypeOK
  <2>2. CASE p = call[q].playlist /\ t = call[q].track
    <3>1. position'[p][t] = next[q] /\ writer'[p][t] = q
      BY <1>2, <2>1, <2>2 DEF WriteRow, PutRow, Wrote, TypeOK
    <3> QED
      BY <2>1, <2>2, <3>1, NilAssumption DEF RowWritten
  <2>3. CASE ~(p = call[q].playlist /\ t = call[q].track)
    <3>1. position'[p][t] = position[p][t] /\ writer'[p][t] = writer[p][t]
      BY <1>2, <2>1, <2>3 DEF WriteRow, PutRow, Wrote, TypeOK
    <3> QED
      BY <1>1, <2>1, <3>1 DEF RowWritten, Moves, TypeOK
  <2> QED
    BY <2>2, <2>3
<1>3. CASE position' = position /\ writer' = writer
  BY <1>1, <1>3 DEF RowWritten, Moves, TypeOK
<1> QED
  BY <1>2, <1>3, HandleRows

\* The foreign key keeps rows of deleted tracks out.
LEMMA EntriesHandle ==
  ASSUME TypeOK, HandlersKnow, EntriesExist, NEW q \in Requests, Handle(q)
  PROVE  EntriesExist'
<1> SUFFICES ASSUME NEW p \in PlaylistIds, NEW t \in Tracks, position'[p][t] # 0
             PROVE  t \in tracks' /\ owner'[p] # Nil
  BY DEF EntriesExist
<1>1. tracks' = tracks /\ \A x \in PlaylistIds : owner[x] # Nil => owner'[x] = owner[x]
  BY HandleRows
  DEF Handle, Receive, CreatePlaylist, CreateRow, LoadPlaylist, Exists, ListTracks,
      CheckTrack, ReadPosition, InsertRow, data, TypeOK
<1>2. CASE InsertRow(q) /\ WriteRow(q)
  <2>1. /\ HandlerKnows(q) /\ pc[q] = "insert" /\ call[q] # Nil
        /\ call[q].playlist \in PlaylistIds /\ call[q].track \in Tracks
    BY <1>2, CallIsCall DEF InsertRow, HandlersKnow, HandlerKnows, At, Active
  <2>2. CASE p = call[q].playlist /\ t = call[q].track
    <3>1. owner[p] # Nil
      BY <2>1, <2>2 DEF HandlerKnows
    <3>2. t \in tracks
      <4>1. CASE position[p][t] # 0
        BY <4>1 DEF EntriesExist
      <4>2. CASE position' # position
        BY <1>2, <2>2, <4>2 DEF InsertRow
      <4> QED
        BY <4>1, <4>2
    <3> QED
      BY <1>1, <3>1, <3>2
  <2>3. CASE ~(p = call[q].playlist /\ t = call[q].track)
    <3>1. position'[p][t] = position[p][t]
      BY <1>2, <2>1, <2>3 DEF WriteRow, PutRow, Wrote, TypeOK
    <3> QED
      BY <1>1, <3>1 DEF EntriesExist
  <2> QED
    BY <2>2, <2>3
<1>3. CASE position' = position
  BY <1>1, <1>3 DEF EntriesExist
<1> QED
  BY <1>2, <1>3, HandleRows

\* A row put by a request whose caller was let through is the owner's or an
\* admin's, and stays so.
LEMMA OwnersHandle ==
  ASSUME TypeOK, HandlersKnow, RowsWritten, OnlyOwnersWrite, EntriesExist,
         NEW q \in Requests, Handle(q)
  PROVE  OnlyOwnersWrite'
<1> SUFFICES ASSUME NEW p \in PlaylistIds, NEW t \in Tracks, writer'[p][t] # Nil
             PROVE  call'[writer'[p][t]].user \in Admins \cup {owner'[p]}
  BY DEF OnlyOwnersWrite
<1>1. \A x \in PlaylistIds : owner[x] # Nil => owner'[x] = owner[x]
  BY DEF Handle, Receive, CreatePlaylist, CreateRow, LoadPlaylist, Exists,
     ListTracks, CheckTrack, ReadPosition, InsertRow, data, TypeOK
<1>2. CASE writer'[p][t] = writer[p][t]
  <2>1. /\ pc[writer[p][t]] = "done" /\ writer[p][t] \in Requests
        /\ owner[p] # Nil
    BY <1>2 DEF RowsWritten, RowWritten, EntriesExist, TypeOK
  <2>2. call'[writer[p][t]] = call[writer[p][t]]
    BY <2>1, HandleMoves DEF Moves
  <2> QED
    BY <1>1, <1>2, <2>1, <2>2 DEF OnlyOwnersWrite
<1>3. CASE InsertRow(q) /\ WriteRow(q)
  <2>1. /\ HandlerKnows(q) /\ pc[q] = "insert" /\ call[q] # Nil /\ call' = call
        /\ call[q].playlist \in PlaylistIds /\ call[q].track \in Tracks
    BY <1>3, CallIsCall DEF InsertRow, HandlersKnow, HandlerKnows, At, Active
  <2>2. CASE p = call[q].playlist /\ t = call[q].track
    <3>1. writer'[p][t] = q
      BY <1>3, <2>1, <2>2 DEF WriteRow, PutRow, Wrote, TypeOK
    <3> QED
      BY <1>1, <2>1, <2>2, <3>1 DEF HandlerKnows
  <2>3. CASE ~(p = call[q].playlist /\ t = call[q].track)
    <3>1. writer'[p][t] = writer[p][t]
      BY <1>3, <2>1, <2>3 DEF WriteRow, PutRow, Wrote, TypeOK
    <3> QED
      BY <1>2, <3>1
  <2> QED
    BY <2>2, <2>3
<1> QED
  BY <1>2, <1>3, HandleRows

\* An acknowledged row is overwritten at most by a new position.
LEMMA AddedHandle ==
  ASSUME TypeOK, HandlersKnow, AddedStays, NEW q \in Requests, Handle(q)
  PROVE  AddedStays'
<1> SUFFICES ASSUME NEW r \in Requests, call'[r] # Nil, reply'[r] = 201,
                    call'[r].track \in tracks'
             PROVE  position'[call'[r].playlist][call'[r].track] # 0
  BY DEF AddedStays
<1>1. tracks' = tracks
  BY HandleRows
<1>2. \A p \in PlaylistIds, t \in Tracks : position[p][t] # 0 => position'[p][t] # 0
  <2>1. CASE InsertRow(q) /\ WriteRow(q)
    <3>1. /\ HandlerKnows(q) /\ pc[q] = "insert"
          /\ call[q].playlist \in PlaylistIds /\ call[q].track \in Tracks
      BY <2>1, CallIsCall DEF InsertRow, HandlersKnow, HandlerKnows, At, Active
    <3>2. next[q] # 0
      BY <3>1 DEF HandlerKnows
    <3> QED
      BY <2>1, <3>1, <3>2 DEF WriteRow, PutRow, Wrote, TypeOK
  <2> QED
    BY <2>1, HandleRows
<1>3. CASE r # q
  <2>1. call'[r] = call[r] /\ reply'[r] = reply[r]
    BY <1>3, HandleMoves DEF Moves
  <2>2. call[r].playlist \in PlaylistIds /\ call[r].track \in Tracks
    BY <2>1, CallIsCall
  <2> QED
    BY <1>1, <1>2, <2>1, <2>2 DEF AddedStays
<1>4. CASE r = q
  <2>1. InsertRow(q) /\ WriteRow(q)
    BY <1>4, HandleRows
  <2>2. /\ HandlerKnows(q) /\ pc[q] = "insert" /\ call' = call
        /\ call[q].playlist \in PlaylistIds /\ call[q].track \in Tracks
    BY <2>1, CallIsCall DEF InsertRow, HandlersKnow, HandlerKnows, At, Active
  <2>3. next[q] # 0
    BY <2>2 DEF HandlerKnows
  <2> QED
    BY <1>4, <2>1, <2>2, <2>3 DEF WriteRow, PutRow, Wrote, TypeOK
<1> QED
  BY <1>3, <1>4

\* The new row lies above every row its request counts as earlier, and no row
\* counts the new row's request as earlier.
LEMMA OrderHandle ==
  ASSUME TypeOK, HandlersKnow, RowsWritten, AppendOrder, NEW q \in Requests, Handle(q)
  PROVE  AppendOrder'
<1> SUFFICES ASSUME NEW p \in PlaylistIds, NEW a \in Tracks, NEW b \in Tracks,
                    writer'[p][a] # Nil, writer'[p][b] # Nil,
                    writer'[p][a] \in earlier'[writer'[p][b]]
             PROVE  position'[p][a] < position'[p][b]
  BY DEF AppendOrder
<1>1. /\ Moves(q) /\ pc[q] # "done"
      /\ \A r \in Requests : \A e \in earlier[r] : pc[e] = "done"
  BY HandleMoves DEF Moves, HandlersKnow, HandlerKnows
<1>2. \A t \in Tracks : writer[p][t] # Nil => pc[writer[p][t]] = "done" /\ writer[p][t] \in Requests
  BY DEF RowsWritten, RowWritten, TypeOK
<1>3. CASE position' = position /\ writer' = writer
  <2>1. earlier'[writer[p][b]] = earlier[writer[p][b]]
    BY <1>1, <1>2, <1>3 DEF Moves
  <2> QED
    BY <1>3, <2>1 DEF AppendOrder
<1>4. CASE InsertRow(q) /\ WriteRow(q)
  <2>1. /\ HandlerKnows(q) /\ pc[q] = "insert" /\ earlier' = earlier
        /\ call[q].playlist \in PlaylistIds /\ call[q].track \in Tracks
    BY <1>4, CallIsCall DEF InsertRow, HandlersKnow, HandlerKnows, At, Active
  <2>2. \A t \in Tracks :
            IF p = call[q].playlist /\ t = call[q].track
            THEN writer'[p][t] = q /\ position'[p][t] = next[q]
            ELSE writer'[p][t] = writer[p][t] /\ position'[p][t] = position[p][t]
    BY <1>4, <2>1 DEF WriteRow, PutRow, Wrote, TypeOK
  <2>3. writer'[p][b] \in Requests
    BY <1>2, <2>2
  <2>4. writer'[p][a] # q
    BY <1>1, <2>1, <2>3
  <2>5. writer'[p][a] = writer[p][a] /\ position'[p][a] = position[p][a]
    BY <2>2, <2>4
  <2>6. CASE p = call[q].playlist /\ b = call[q].track
    <3>1. writer[p][a] \in earlier[q] /\ position'[p][b] = next[q]
      BY <2>1, <2>2, <2>5, <2>6
    <3> QED
      BY <2>1, <2>5, <2>6, <3>1 DEF HandlerKnows
  <2>7. CASE ~(p = call[q].playlist /\ b = call[q].track)
    <3>1. writer'[p][b] = writer[p][b] /\ position'[p][b] = position[p][b]
      BY <2>2, <2>7
    <3> QED
      BY <2>1, <2>5, <3>1 DEF AppendOrder
  <2> QED
    BY <2>6, <2>7
<1> QED
  BY <1>3, <1>4, HandleRows

-----------------------------------------------------------------------------
(* The steps that are no handler's. *)

\* The cascade takes the rows of the track in the same statement.
LEMMA DeleteInv ==
  ASSUME IInv, NEW x \in Tracks, DeleteTrack(x)
  PROVE  IInv'
<1>1. /\ tracks' = tracks \ {x}
      /\ UNCHANGED <<owner, pc, call, next, reply, earlier>>
  BY DEF DeleteTrack
<1>2. \A p \in PlaylistIds, t \in Tracks :
          IF t = x THEN position'[p][t] = 0 /\ writer'[p][t] = Nil
                   ELSE position'[p][t] = position[p][t] /\ writer'[p][t] = writer[p][t]
  BY DEF DeleteTrack, IInv, TypeOK
<1>3. TypeOK'
  BY <1>1 DEF DeleteTrack, IInv, TypeOK
<1>4. HandlersKnow'
  <2> SUFFICES ASSUME NEW r \in Requests
               PROVE  HandlerKnows(r)'
    BY DEF HandlersKnow
  <2>1. HandlerKnows(r)
    BY DEF IInv, HandlersKnow
  <2>2. pc[r] = "insert" => call[r].playlist \in PlaylistIds
    BY <2>1, CallIsCall DEF IInv, HandlerKnows, Active
  <2>3. ASSUME pc[r] = "insert", NEW t \in Tracks,
               writer'[call[r].playlist][t] \in earlier[r]
        PROVE  position'[call[r].playlist][t] < next[r]
    <3>1. CASE t = x
      BY <1>2, <2>1, <2>2, <2>3, <3>1 DEF IInv, TypeOK, HandlerKnows
    <3>2. CASE t # x
      BY <1>2, <2>1, <2>2, <2>3, <3>2 DEF HandlerKnows
    <3> QED
      BY <3>1, <3>2
  <2> QED
    BY <1>1, <2>1, <2>3 DEF HandlerKnows
<1>5. RowsWritten'
  BY <1>1, <1>2 DEF IInv, RowsWritten, RowWritten
<1>6. EntriesExist'
  BY <1>1, <1>2 DEF IInv, EntriesExist
<1>7. OnlyOwnersWrite'
  BY <1>1, <1>2 DEF IInv, OnlyOwnersWrite
<1>8. AddedStays'
  <2> SUFFICES ASSUME NEW r \in Requests, call[r] # Nil, reply[r] = 201,
                      call[r].track \in tracks \ {x}
               PROVE  position'[call[r].playlist][call[r].track] # 0
    BY <1>1 DEF AddedStays
  <2> QED
    BY <1>2, CallIsCall DEF IInv, AddedStays
<1>9. AppendOrder'
  BY <1>1, <1>2, NilAssumption DEF IInv, AppendOrder
<1> QED
  BY <1>3, <1>4, <1>5, <1>6, <1>7, <1>8, <1>9 DEF IInv

\* A crash ends handlers and touches nothing else.
LEMMA CrashInv == IInv /\ Crash => IInv'
<1> SUFFICES ASSUME IInv, Crash
             PROVE  IInv'
  OBVIOUS
<1>1. UNCHANGED <<tracks, owner, position, writer, call, next, reply, earlier>>
  BY DEF Crash, data
<1>2. \A r \in Requests : pc'[r] = IF pc[r] \in Active THEN "killed" ELSE pc[r]
  BY DEF Crash
<1>3. TypeOK'
  BY <1>1 DEF IInv, TypeOK, Crash, Labels
<1>4. HandlersKnow'
  BY <1>1, <1>2 DEF IInv, HandlersKnow, HandlerKnows, Active, TypeOK
<1>5. RowsWritten'
  <2> SUFFICES ASSUME NEW p \in PlaylistIds, NEW t \in Tracks
               PROVE  RowWritten(p, t)'
    BY DEF RowsWritten
  <2>1. RowWritten(p, t) /\ writer[p][t] \in Requests \cup {Nil}
    BY DEF IInv, RowsWritten, TypeOK
  <2>2. writer[p][t] # Nil => pc'[writer[p][t]] = "done"
    BY <1>2, <2>1 DEF RowWritten, Active
  <2> QED
    BY <1>1, <2>1, <2>2 DEF RowWritten
<1>6. EntriesExist' /\ OnlyOwnersWrite' /\ AddedStays' /\ AppendOrder'
  BY <1>1 DEF IInv, EntriesExist, OnlyOwnersWrite, AddedStays, AppendOrder
<1> QED
  BY <1>3, <1>4, <1>5, <1>6 DEF IInv

\* Every step preserves the invariant.
LEMMA StepInv == IInv /\ [Next]_vars => IInv'
<1> SUFFICES ASSUME IInv, [Next]_vars
             PROVE  IInv'
  OBVIOUS
<1>1. ASSUME NEW q \in Requests, Handle(q)
      PROVE  IInv'
  <2>1. TypeOK' /\ HandlersKnow'
    BY <1>1, TypeHandle, SelfKnows, OthersKnow DEF IInv, HandlersKnow
  <2> QED
    BY <1>1, <2>1, WrittenHandle, EntriesHandle, OwnersHandle, AddedHandle, OrderHandle
    DEF IInv
<1>2. CASE UNCHANGED vars
  BY <1>2
  DEF vars, IInv, TypeOK, HandlersKnow, HandlerKnows, RowsWritten, RowWritten,
      EntriesExist, OnlyOwnersWrite, AddedStays, AppendOrder
<1> QED
  BY <1>1, <1>2, DeleteInv, CrashInv DEF Next

-----------------------------------------------------------------------------
(* Theorems. *)

\* The invariant is inductive.
THEOREM Invariance == Spec => []IInv
  BY InitInv, StepInv, PTL DEF Spec

\* Type correctness of the playlists.
THEOREM TypeCorrect == Spec => []TypeOK
<1>1. IInv => TypeOK
  BY DEF IInv
<1> QED
  BY Invariance, <1>1, PTL

\* The tables never hold a row of a missing track or playlist, although the
\* handlers check before they insert and not while they do.
THEOREM NoDanglingEntries == Spec => []EntriesExist
<1>1. IInv => EntriesExist
  BY DEF IInv
<1> QED
  BY Invariance, <1>1, PTL

\* Nobody but its owner and the admins writes to a playlist.
THEOREM WritesAreAuthorised == Spec => []OnlyOwnersWrite
<1>1. IInv => OnlyOwnersWrite
  BY DEF IInv
<1> QED
  BY Invariance, <1>1, PTL

\* Acknowledged adds are not lost.
THEOREM AddsAreDurable == Spec => []AddedStays
<1>1. IInv => AddedStays
  BY DEF IInv
<1> QED
  BY Invariance, <1>1, PTL

\* Adds that follow each other keep that order, among any number of others.
THEOREM AddsKeepOrder == Spec => []AppendOrder
<1>1. IInv => AppendOrder
  BY DEF IInv
<1> QED
  BY Invariance, <1>1, PTL

-----------------------------------------------------------------------------
(* One add at a time. *)

\* Without overlapping adds, the position read is above every row until it is
\* used: no other handler inserts into the playlist in between.
SerialInv ==
    /\ IInv
    /\ OneAddAtATime
    /\ NextIsFree
    /\ PositionsDiffer

LEMMA SerialInit == Init => SerialInv
<1> SUFFICES ASSUME Init
             PROVE  SerialInv
  OBVIOUS
<1>1. OneAddAtATime /\ NextIsFree /\ PositionsDiffer
  BY DEF Init, OneAddAtATime, Adding, NextIsFree, PositionsDiffer, Active
<1> QED
  BY <1>1, InitInv DEF SerialInv

\* While request q inserts, nobody else is adding to its playlist.
LEMMA InsertAlone ==
  ASSUME TypeOK, HandlersKnow, OneAddAtATime, NEW q \in Requests, InsertRow(q),
         NEW r \in Requests \ {q}, pc[r] = "insert"
  PROVE  call[r].playlist # call[q].playlist
<1>1. /\ pc[q] = "insert" /\ call[q].op = "add" /\ call[r].op = "add"
      /\ call[q].playlist \in PlaylistIds
  BY CallIsCall DEF InsertRow, At, HandlersKnow, HandlerKnows, Active
<1> QED
  BY <1>1 DEF OneAddAtATime, Adding, Active

LEMMA SerialHandle ==
  ASSUME SerialInv, IInv', NEW q \in Requests, Handle(q)
  PROVE  NextIsFree' /\ PositionsDiffer'
<1>1. TypeOK /\ HandlersKnow /\ HandlerKnows(q) /\ Moves(q)
  BY HandleMoves DEF SerialInv, IInv, HandlersKnow
<1>2. CASE InsertRow(q) /\ WriteRow(q)
  <2>1. /\ pc[q] = "insert" /\ pc'[q] = "done"
        /\ call[q].playlist \in PlaylistIds /\ call[q].track \in Tracks
        /\ next[q] # 0
    BY <1>1, <1>2, CallIsCall DEF InsertRow, HandlerKnows, At, Answer, Fail, Active,
       TypeOK
  <2>2. \A p \in PlaylistIds, t \in Tracks :
            position'[p][t] = IF p = call[q].playlist /\ t = call[q].track
                              THEN next[q] ELSE position[p][t]
    BY <1>1, <1>2, <2>1 DEF WriteRow, PutRow, Wrote, TypeOK
  <2>3. ASSUME NEW r \in Requests, pc'[r] = "insert", NEW t \in Tracks
        PROVE  position'[call'[r].playlist][t] < next'[r]
    <3>1. r # q
      BY <2>1, <2>3
    <3>2. pc[r] = "insert" /\ call'[r] = call[r] /\ next'[r] = next[r]
      BY <1>1, <2>3, <3>1 DEF Moves
    <3>3. call[r].playlist # call[q].playlist /\ call[r].playlist \in PlaylistIds
      BY <1>1, <1>2, <3>1, <3>2, InsertAlone, CallIsCall
      DEF SerialInv, HandlersKnow, HandlerKnows, Active
    <3> QED
      BY <2>2, <3>2, <3>3 DEF SerialInv, NextIsFree
  <2>4. \A t \in Tracks : position[call[q].playlist][t] < next[q]
    BY <2>1 DEF SerialInv, NextIsFree
  <2>5. PositionsDiffer'
    <3> SUFFICES ASSUME NEW p \in PlaylistIds, NEW a \in Tracks, NEW b \in Tracks,
                        position'[p][a] # 0, position'[p][a] = position'[p][b]
                 PROVE  a = b
      BY DEF PositionsDiffer
    <3>1. /\ position[p][a] \in Nat /\ position[p][b] \in Nat /\ next[q] \in Nat
          /\ p = call[q].playlist => position[p][a] < next[q] /\ position[p][b] < next[q]
      BY <1>1, <2>4 DEF TypeOK
    <3>2. position[p][a] # 0 /\ position[p][a] = position[p][b] => a = b
      BY DEF SerialInv, PositionsDiffer
    <3> QED
      BY <2>2, <3>1, <3>2
  <2> QED
    BY <2>3, <2>5 DEF NextIsFree
<1>3. CASE position' = position
  <2>1. PositionsDiffer'
    BY <1>3 DEF SerialInv, PositionsDiffer
  <2>2. ASSUME NEW r \in Requests \ {q}, pc'[r] = "insert", NEW t \in Tracks
        PROVE  position'[call'[r].playlist][t] < next'[r]
    BY <1>1, <1>3, <2>2 DEF SerialInv, NextIsFree, Moves
  <2>3. ASSUME pc'[q] = "insert", NEW t \in Tracks
        PROVE  position'[call'[q].playlist][t] < next'[q]
    <3>1. ReadPosition(q) /\ call' = call
      BY <1>1, <2>3
      DEF Handle, Receive, CreatePlaylist, CreateRow, LoadPlaylist, Exists,
          ListTracks, CheckTrack,
          ReadPosition, InsertRow, At, Goto, Answer, Fail, TypeOK
    <3>2. call[q].playlist \in PlaylistIds
      BY <1>1, <3>1, CallIsCall DEF ReadPosition, HandlerKnows, At, Active
    <3>3. next'[q] \in NextPositions(call[q].playlist)
      BY <1>1, <2>3, <3>1 DEF ReadPosition, At, Answer, Fail, TypeOK
    <3> QED
      BY <1>1, <1>3, <3>1, <3>2, <3>3, NextAboveAll
  <2> QED
    BY <2>1, <2>2, <2>3 DEF NextIsFree
<1> QED
  BY <1>1, <1>2, <1>3, HandleRows

LEMMA SerialStep == SerialInv /\ [Next /\ OneAddAtATime']_vars => SerialInv'
<1> SUFFICES ASSUME SerialInv, [Next /\ OneAddAtATime']_vars
             PROVE  SerialInv'
  OBVIOUS
<1>1. IInv'
  BY StepInv DEF SerialInv
<1>2. CASE UNCHANGED vars
  BY <1>1, <1>2
  DEF vars, SerialInv, OneAddAtATime, Adding, NextIsFree, PositionsDiffer
<1>3. CASE Next /\ OneAddAtATime'
  <2>1. ASSUME NEW q \in Requests, Handle(q)
        PROVE  NextIsFree' /\ PositionsDiffer'
    BY <1>1, <2>1, SerialHandle
  <2>2. ASSUME NEW x \in Tracks, DeleteTrack(x)
        PROVE  NextIsFree' /\ PositionsDiffer'
    <3>1. \A p \in PlaylistIds, t \in Tracks :
              position'[p][t] = IF t = x THEN 0 ELSE position[p][t]
      BY <2>2 DEF DeleteTrack, SerialInv, IInv, TypeOK
    <3>2. PositionsDiffer'
      BY <3>1 DEF SerialInv, PositionsDiffer
    <3>3. ASSUME NEW r \in Requests, pc[r] = "insert"
          PROVE  call[r].playlist \in PlaylistIds /\ next[r] \in Nat \ {0}
      BY <3>3, CallIsCall DEF SerialInv, IInv, TypeOK, HandlersKnow, HandlerKnows, Active
    <3>4. NextIsFree'
      <4> SUFFICES ASSUME NEW r \in Requests, pc[r] = "insert", NEW t \in Tracks
                   PROVE  position'[call[r].playlist][t] < next[r]
        BY <2>2 DEF DeleteTrack, NextIsFree
      <4>1. position[call[r].playlist][t] < next[r]
        BY DEF SerialInv, NextIsFree
      <4>2. call[r].playlist \in PlaylistIds /\ next[r] \in Nat \ {0}
        BY <3>3
      <4>3. position'[call[r].playlist][t] =
                IF t = x THEN 0 ELSE position[call[r].playlist][t]
        BY <3>1, <4>2
      <4> QED
        BY <4>1, <4>2, <4>3
    <3> QED
      BY <3>2, <3>4
  <2>3. ASSUME Crash
        PROVE  NextIsFree' /\ PositionsDiffer'
    <3>1. \A r \in Requests : pc'[r] = "insert" => pc[r] = "insert"
      BY <2>3 DEF Crash, SerialInv, IInv, TypeOK
    <3>2. position' = position /\ call' = call /\ next' = next
      BY <2>3 DEF Crash, data
    <3>3. PositionsDiffer /\ NextIsFree
      BY DEF SerialInv
    <3>4. PositionsDiffer'
      BY <3>2, <3>3 DEF PositionsDiffer
    <3>5. NextIsFree'
      BY <3>1, <3>2, <3>3 DEF NextIsFree
    <3> QED
      BY <3>4, <3>5
  <2> QED
    BY <1>1, <1>3, <2>1, <2>2, <2>3 DEF Next, SerialInv
<1> QED
  BY <1>2, <1>3

-----------------------------------------------------------------------------
(* Refinement of PlaylistOrder. *)

\* Before the first add every list is empty.
LEMMA OrderInit == Init => Order!Init
<1> SUFFICES ASSUME Init
             PROVE  Order!Init
  OBVIOUS
<1>1. \A p \in PlaylistIds : Members(p) = {}
  BY DEF Init, Members
<1>2. \A p \in PlaylistIds, b \in Tracks : Before(p, b) = {}
  BY <1>1 DEF Before
<1> QED
  BY <1>1, <1>2 DEF Order!Init

\* Inserting a row at the position read moves its track to the end.
LEMMA InsertAppends ==
  ASSUME SerialInv, NEW q \in Requests, InsertRow(q), WriteRow(q)
  PROVE  \E p \in PlaylistIds, t \in Tracks : Order!Append(p, t)
<1>1. PICK p \in PlaylistIds, t \in Tracks : p = call[q].playlist /\ t = call[q].track
  BY CallIsCall DEF InsertRow, At, SerialInv, IInv, HandlersKnow, HandlerKnows, Active
<1>2. pc[q] = "insert" /\ next[q] \in Nat \ {0}
  BY DEF InsertRow, At, SerialInv, IInv, HandlersKnow, HandlerKnows, TypeOK
<1>3. \A u \in Tracks : position[p][u] < next[q] /\ position[p][u] \in Nat
  BY <1>1, <1>2 DEF SerialInv, IInv, NextIsFree, TypeOK
<1>4. \A x \in PlaylistIds \ {p} : position'[x] = position[x]
  BY <1>1 DEF WriteRow, PutRow, Wrote, SerialInv, IInv, TypeOK
<1>5. \A u \in Tracks : position'[p][u] = IF u = t THEN next[q] ELSE position[p][u]
  BY <1>1 DEF WriteRow, PutRow, Wrote, SerialInv, IInv, TypeOK
<1>6. Members(p)' = Members(p) \cup {t}
  BY <1>2, <1>5 DEF Members
<1>7. ASSUME NEW b \in Tracks
      PROVE  Before(p, b)' = IF b = t THEN Members(p) \ {t} ELSE Before(p, b) \ {t}
  <2>1. \A a \in Tracks : a \in Members(p)' <=> (a \in Members(p) \/ a = t)
    BY <1>6
  <2>2. CASE b = t
    BY <1>2, <1>3, <1>5, <2>1, <2>2 DEF Before, Members
  <2>3. CASE b # t
    BY <1>2, <1>3, <1>5, <2>1, <2>3 DEF Before, Members
  <2> QED
    BY <2>2, <2>3
<1>8. ASSUME NEW x \in PlaylistIds \ {p}
      PROVE  Members(x)' = Members(x) /\ \A b \in Tracks : Before(x, b)' = Before(x, b)
  <2>1. \A t1 \in Tracks : position'[x][t1] = position[x][t1]
    BY <1>4
  <2>2. Members(x)' = Members(x)
    BY <2>1 DEF Members
  <2> QED
    BY <2>1, <2>2 DEF Before, Members
<1>9. Order!Append(p, t)
  <2> DEFINE lists == [x \in PlaylistIds |-> Members(x)]
             orders == [x \in PlaylistIds |-> [b \in Tracks |-> Before(x, b)]]
  <2>1. lists' = [lists EXCEPT ![p] = lists[p] \cup {t}]
    BY <1>6, <1>8
  <2>2. \A x \in PlaylistIds :
            orders'[x] = IF x = p
                         THEN [b \in Tracks |-> IF b = t THEN lists[p] \ {t}
                                                        ELSE orders[p][b] \ {t}]
                         ELSE orders[x]
    BY <1>7, <1>8
  <2>3. orders' = [orders EXCEPT ![p] =
            [b \in Tracks |-> IF b = t THEN lists[p] \ {t} ELSE @[b] \ {t}]]
    BY <2>2
  <2> QED
    BY <2>1, <2>3 DEF Order!Append
<1> QED
  BY <1>9

\* The cascade drops the track from every list.
LEMMA DeleteDrops ==
  ASSUME TypeOK, NEW x \in Tracks, DeleteTrack(x)
  PROVE  Order!Drop(x)
<1>1. \A p \in PlaylistIds, t \in Tracks :
          position'[p][t] = IF t = x THEN 0 ELSE position[p][t]
  BY DEF DeleteTrack, TypeOK
<1>2. \A p \in PlaylistIds : Members(p)' = Members(p) \ {x}
  BY <1>1 DEF Members
<1>3. \A p \in PlaylistIds, b \in Tracks :
          Before(p, b)' = IF b = x THEN {} ELSE Before(p, b) \ {x}
  BY <1>1, <1>2 DEF Before, Members
<1> QED
  BY <1>2, <1>3 DEF Order!Drop

\* Steps that leave the rows alone are stutters of the lists.
LEMMA OtherStutters ==
  ASSUME position' = position
  PROVE  UNCHANGED Order!vars
<1>1. \A p \in PlaylistIds : Members(p)' = Members(p)
  BY DEF Members
<1>2. \A p \in PlaylistIds, b \in Tracks : Before(p, b)' = Before(p, b)
  BY <1>1 DEF Before
<1> QED
  BY <1>1, <1>2 DEF Order!vars

\* While adds do not overlap, the tables behave as ordered lists.
THEOREM Refinement == SerialSpec => ListInOrder
<1>1. SerialInv /\ [Next /\ OneAddAtATime']_vars => [Order!Next]_(Order!vars)
  <2> SUFFICES ASSUME SerialInv, [Next /\ OneAddAtATime']_vars
               PROVE  [Order!Next]_(Order!vars)
    OBVIOUS
  <2>1. CASE UNCHANGED vars \/ Crash
    BY <2>1, OtherStutters DEF vars, Crash, data
  <2>2. ASSUME NEW q \in Requests, Handle(q)
        PROVE  [Order!Next]_(Order!vars)
    BY <2>2, HandleRows, InsertAppends, OtherStutters DEF SerialInv, IInv, Order!Next
  <2>3. ASSUME NEW x \in Tracks, DeleteTrack(x)
        PROVE  [Order!Next]_(Order!vars)
    BY <2>3, DeleteDrops DEF SerialInv, IInv, Order!Next
  <2> QED
    BY <2>1, <2>2, <2>3 DEF Next
<1> QED
  BY SerialInit, SerialStep, OrderInit, <1>1, PTL
  DEF SerialSpec, ListInOrder, Order!Spec
=============================================================================
