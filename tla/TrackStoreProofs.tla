-------------------------- MODULE TrackStoreProofs --------------------------
(* Theorems about TrackStore, for every set of requests, callers and faults. *)
EXTENDS TrackStore, TLAPS

\* The inductive invariant.  RowsHaveAudio alone is not inductive: a step of
\* DeleteAudio keeps it only because the row has gone before.
IInv ==
    /\ TypeOK
    /\ HandlersAgree
    /\ "lost" \notin Faults => RowsHaveAudio

\* Nothing is running and nothing is stored at the start.
LEMMA InitInv == Init => IInv
  BY NilAssumption
  DEF Init, IInv, TypeOK, HandlersAgree, HandlerAgrees, RowsHaveAudio, FileStates,
      Labels, Active, UploadSteps, DeleteSteps, Codes

\* Every step keeps the types; SaveCover needs that the handler holds a row.
LEMMA TypeStep == IInv /\ [Next]_vars => TypeOK'
<1> SUFFICES ASSUME IInv, [Next]_vars
             PROVE  TypeOK'
  OBVIOUS
<1> USE NilAssumption
    DEF TypeOK, Row, Call, Ops, FileStates, Labels, Active, UploadSteps,
        DeleteSteps, Codes, At, Goto, Answer, Taint
<1>1. TypeOK /\ \A r \in Requests : HandlerAgrees(r)
  BY DEF IInv, HandlersAgree
<1>2. CASE UNCHANGED vars
  BY <1>1, <1>2 DEF vars
<1>3. ASSUME NEW r \in Requests, NEW u \in Users, ReceiveUpload(r, u)
      PROVE  TypeOK'
  BY <1>1, <1>3 DEF ReceiveUpload
<1>4. ASSUME NEW r \in Requests, NEW u \in Users, NEW op \in Ops \ {"upload"},
             NEW t \in Requests, ReceiveOnTrack(r, u, op, t)
      PROVE  TypeOK'
  BY <1>1, <1>4 DEF ReceiveOnTrack
<1>5. ASSUME NEW r \in Requests, Refuse(r)
      PROVE  TypeOK'
  BY <1>1, <1>5 DEF Refuse
<1>6. ASSUME NEW r \in Requests, CreateAudio(r)
      PROVE  TypeOK'
  BY <1>1, <1>6 DEF CreateAudio
<1>7. ASSUME NEW r \in Requests, CopyAudio(r)
      PROVE  TypeOK'
  BY <1>1, <1>7 DEF CopyAudio
<1>8. ASSUME NEW r \in Requests, SaveCover(r)
      PROVE  TypeOK'
  <2>1. row[r] \in Row
    BY <1>1, <1>8 DEF SaveCover, SaveBytes, HandlerAgrees
  <2>2. [row[r] EXCEPT !.cover = TRUE] \in Row
    BY <2>1
  <2>3. row' \in [Requests -> Row \cup {Nil}]
    <3>1. CASE row' = [row EXCEPT ![r].cover = TRUE]
      BY <1>1, <2>2, <3>1
    <3> QED
      BY <1>1, <1>8, <3>1 DEF SaveCover, SaveBytes
  <2>4. cover' \in [Requests -> FileStates]
    BY <1>1, <1>8 DEF SaveCover, SaveBytes
  <2>5. tainted' \in SUBSET Requests
    BY <1>1, <1>8 DEF SaveCover, SaveBytes
  <2> QED
    BY <1>1, <1>8, <2>3, <2>4, <2>5 DEF SaveCover, SaveBytes
<1>9. ASSUME NEW r \in Requests, CreateTrack(r)
      PROVE  TypeOK'
  BY <1>1, <1>9 DEF CreateTrack, InsertRow
<1>10. ASSUME NEW r \in Requests, LoadTrack(r)
       PROVE  TypeOK'
  <2>1. call[r].track \in Requests
    BY <1>1, <1>10 DEF LoadTrack, Found, HandlerAgrees
  <2> QED
    BY <1>1, <1>10, <2>1 DEF LoadTrack, Found
<1>11. ASSUME NEW r \in Requests, OpenFile(r)
       PROVE  TypeOK'
  BY <1>1, <1>11 DEF OpenFile, Opened
<1>12. ASSUME NEW r \in Requests, DeleteTrack(r)
       PROVE  TypeOK'
  <2>1. call[r].track \in Requests
    BY <1>1, <1>12 DEF DeleteTrack, DeleteRow, HandlerAgrees
  <2>2. tracks' \in [Requests -> Row \cup {Nil}] /\ tainted' \in SUBSET Requests
    BY <1>1, <1>12, <2>1 DEF DeleteTrack, DeleteRow
  <2> QED
    BY <1>1, <1>12, <2>2 DEF DeleteTrack, DeleteRow
<1>13. ASSUME NEW r \in Requests, DeleteAudio(r)
       PROVE  TypeOK'
  <2>1. call[r].track \in Requests
    BY <1>1, <1>13 DEF DeleteAudio, HandlerAgrees
  <2> QED
    BY <1>1, <1>13, <2>1 DEF DeleteAudio, FinalCode
<1>14. ASSUME NEW r \in Requests, DeleteCover(r)
       PROVE  TypeOK'
  <2>1. call[r].track \in Requests
    BY <1>1, <1>14 DEF DeleteCover, HandlerAgrees
  <2> QED
    BY <1>1, <1>14, <2>1 DEF DeleteCover, FinalCode
<1>15. CASE Crash
  BY <1>1, <1>15 DEF Crash
<1> QED
  BY <1>2, <1>3, <1>4, <1>5, <1>6, <1>7, <1>8, <1>9, <1>10, <1>11, <1>12, <1>13,
     <1>14, <1>15
  DEF Next, Receive, Handle

-----------------------------------------------------------------------------
(* What one step of one handler can touch. *)

\* Only request q moves; rows appear only through q's own INSERT, and audio is
\* changed only by q's own upload or by the removal q has reached.
Frame(q) ==
    /\ \A r \in Requests \ {q} :
           pc'[r] = pc[r] /\ call'[r] = call[r] /\ row'[r] = row[r] /\ reply'[r] = reply[r]
    /\ \A t \in Requests :
           tracks'[t] \in {tracks[t], Nil} \/ (t = q /\ pc[q] = "insert")
    /\ \A t \in Requests :
           \/ audio'[t] = audio[t]
           \/ t = q /\ pc[q] \in {"create_audio", "copy_audio"}
           \/ t = call[q].track /\ pc[q] = "delete_audio"

\* Every action of a request stays inside its frame.
LEMMA StepFrame ==
  ASSUME TypeOK, NEW q \in Requests, Receive(q) \/ Handle(q)
  PROVE  Frame(q)
<1> USE DEF TypeOK, At, Goto, Answer, Frame
<1>1. CASE Receive(q)
  BY <1>1 DEF Receive, ReceiveUpload, ReceiveOnTrack, Refuse
<1>2. CASE CreateAudio(q)
  BY <1>2 DEF CreateAudio
<1>3. CASE CopyAudio(q)
  BY <1>3 DEF CopyAudio
<1>4. CASE SaveCover(q)
  BY <1>4 DEF SaveCover, SaveBytes
<1>5. CASE CreateTrack(q)
  BY <1>5 DEF CreateTrack, InsertRow
<1>6. CASE LoadTrack(q)
  BY <1>6 DEF LoadTrack, Found
<1>7. CASE OpenFile(q)
  BY <1>7 DEF OpenFile, Opened
<1>8. CASE DeleteTrack(q)
  BY <1>8 DEF DeleteTrack, DeleteRow
<1>9. CASE DeleteAudio(q)
  BY <1>9 DEF DeleteAudio
<1>10. CASE DeleteCover(q)
  BY <1>10 DEF DeleteCover
<1> QED
  BY <1>1, <1>2, <1>3, <1>4, <1>5, <1>6, <1>7, <1>8, <1>9, <1>10 DEF Handle

\* Once settled, always settled: no handler goes back to its INSERT.
LEMMA SettledStable ==
  ASSUME TypeOK, HandlersAgree, [Next]_vars, NEW t \in Requests, Settled(t)
  PROVE  Settled(t)'
<1> USE DEF TypeOK, At, Goto, Answer, Settled, DeleteSteps
<1>1. CASE UNCHANGED vars
  BY <1>1 DEF vars
<1>2. CASE Crash
  BY <1>2 DEF Crash, Active, UploadSteps
<1>3. ASSUME NEW q \in Requests, Receive(q) \/ Handle(q), q # t
      PROVE  Settled(t)'
  BY <1>3, StepFrame DEF Frame
<1>4. ASSUME Receive(t) \/ Handle(t)
      PROVE  Settled(t)'
  <2>1. DeleteAudio(t) \/ DeleteCover(t)
    BY <1>4 DEF Receive, ReceiveUpload, ReceiveOnTrack, Refuse, Handle, CreateAudio,
       CopyAudio, SaveCover, SaveBytes, CreateTrack, InsertRow, LoadTrack, Found,
          OpenFile, Opened, DeleteTrack, DeleteRow
  <2> QED
    BY <2>1 DEF DeleteAudio, DeleteCover
<1> QED
  BY <1>1, <1>2, <1>3, <1>4 DEF Next

\* A handler that does not move keeps its agreement whatever another one does:
\* nobody inserts the row it relies on being gone, nobody spoils its audio.
LEMMA OthersAgree ==
  ASSUME TypeOK, HandlersAgree, [Next]_vars,
         NEW q \in Requests, Receive(q) \/ Handle(q),
         NEW r \in Requests \ {q}
  PROVE  HandlerAgrees(r)'
<1>1. Frame(q) /\ HandlerAgrees(r) /\ HandlerAgrees(q)
  BY StepFrame DEF HandlersAgree
<1>2. pc'[r] = pc[r] /\ call'[r] = call[r] /\ row'[r] = row[r] /\ reply'[r] = reply[r]
  BY <1>1 DEF Frame
<1>3. \A t \in Requests : Settled(t) => Settled(t)'
  BY SettledStable
<1>4. \A t \in Requests : Settled(t) /\ tracks[t] = Nil => tracks'[t] = Nil
  BY <1>1 DEF Frame, Settled, DeleteSteps
<1>5. pc[r] \in {"save_cover", "insert"} /\ audio[r] = "whole" => audio'[r] = "whole"
  BY <1>1 DEF Frame, HandlerAgrees, Settled, DeleteSteps
<1>6. call[r] # Nil => call[r].track \in Requests
  BY DEF TypeOK, Call
<1> QED
  BY <1>1, <1>2, <1>3, <1>4, <1>5, <1>6
  DEF HandlerAgrees, Active, UploadSteps, DeleteSteps

\* The handler that moves agrees with the state it moves into.
LEMMA SelfAgrees ==
  ASSUME TypeOK, HandlersAgree, [Next]_vars, TypeOK',
         NEW q \in Requests, Receive(q) \/ Handle(q)
  PROVE  HandlerAgrees(q)'
<1> USE NilAssumption
    DEF TypeOK, At, Goto, Answer, Active, UploadSteps, DeleteSteps
<1>1. HandlerAgrees(q) /\ \A t \in Requests : tracks[t] # Nil => Settled(t)
  BY DEF HandlersAgree
<1>2. \A t \in Requests : Settled(t) => Settled(t)'
  BY SettledStable
<1>3. CASE Receive(q)
  <2>1. call'[q] \in Call \cup {Nil} /\ reply'[q] # 204
    BY <1>1, <1>3
    DEF Receive, ReceiveUpload, ReceiveOnTrack, Refuse, HandlerAgrees, Codes
  <2>2. CASE \E u \in Users : ReceiveUpload(q, u)
    <3>1. PICK u \in Users : ReceiveUpload(q, u)
      BY <2>2
    <3>2. [op |-> "upload", user |-> u, track |-> q] \in Call
      BY DEF Call, Ops
    <3>3. [owner |-> u, cover |-> FALSE] \in Row
      BY DEF Row
    <3>4. /\ call'[q] # Nil /\ call'[q].op = "upload" /\ call'[q].track = q
          /\ row'[q] # Nil /\ pc'[q] = "create_audio"
      BY <3>1, <3>2, <3>3 DEF ReceiveUpload
    <3> QED
      BY <2>1, <3>4 DEF HandlerAgrees
  <2>3. CASE \E u \in Users, op \in Ops \ {"upload"}, t \in Requests :
                 ReceiveOnTrack(q, u, op, t)
    BY <1>1, <2>1, <2>3 DEF ReceiveOnTrack, HandlerAgrees, Call, Ops
  <2>4. CASE Refuse(q)
    BY <1>1, <2>1, <2>4 DEF Refuse, HandlerAgrees
  <2> QED
    BY <1>3, <2>2, <2>3, <2>4 DEF Receive
<1>4. CASE CreateAudio(q)
  BY <1>1, <1>2, <1>4 DEF CreateAudio, HandlerAgrees
<1>5. CASE CopyAudio(q)
  <2>1. call' = call /\ row' = row /\ tracks' = tracks
    BY <1>5 DEF CopyAudio
  <2>2. \/ pc'[q] \in {"save_cover", "insert"} /\ audio'[q] = "whole"
        \/ pc'[q] = "done"
    BY <1>5 DEF CopyAudio
  <2>3. reply'[q] # 204
    BY <1>1, <1>5 DEF CopyAudio, HandlerAgrees
  <2> QED
    BY <1>1, <1>5, <2>1, <2>2, <2>3 DEF CopyAudio, HandlerAgrees
<1>6. CASE SaveCover(q)
  <2>1. /\ call' = call /\ tracks' = tracks /\ audio' = audio /\ reply' = reply
        /\ pc' = [pc EXCEPT ![q] = "insert"]
    BY <1>6 DEF SaveCover, SaveBytes
  <2>2. row[q] \in Row
    BY <1>1, <1>6 DEF SaveCover, SaveBytes, HandlerAgrees
  <2>3. [row[q] EXCEPT !.cover = TRUE] \in Row
    BY <2>2 DEF Row
  <2>4. row'[q] # Nil
    <3>1. CASE row' = [row EXCEPT ![q].cover = TRUE]
      BY <2>3, <3>1
    <3> QED
      BY <1>6, <2>2, <3>1 DEF SaveCover, SaveBytes
  <2> QED
    BY <1>1, <1>6, <2>1, <2>4 DEF SaveCover, SaveBytes, HandlerAgrees
<1>7. CASE CreateTrack(q)
  <2>1. call[q] # Nil /\ call[q].op = "upload" /\ call[q].track = q /\ call' = call
    BY <1>1, <1>7 DEF CreateTrack, InsertRow, HandlerAgrees
  <2>2. tracks[q] = Nil
    BY <1>1, <1>7 DEF CreateTrack, InsertRow, Settled
  <2>3. pc'[q] = "delete_audio" => Settled(q)'
    BY <2>1 DEF Settled
  <2>4. pc'[q] \in {"done", "delete_audio"} /\ reply'[q] # 204
    BY <1>1, <1>7 DEF CreateTrack, InsertRow, HandlerAgrees
  <2>5. "lost" \notin Faults /\ pc'[q] = "delete_audio" => tracks'[q] = Nil
    BY <1>7, <2>2 DEF CreateTrack, InsertRow
  <2>6. row[q] # Nil /\ row' = row
    BY <1>1, <1>7 DEF CreateTrack, InsertRow, HandlerAgrees
  <2> QED
    BY <2>1, <2>3, <2>4, <2>5, <2>6 DEF HandlerAgrees
<1>8. CASE LoadTrack(q)
  <2>1. call[q] # Nil /\ call[q].track \in Requests /\ call' = call
    BY <1>1, <1>8 DEF LoadTrack, Found, HandlerAgrees, Call
  <2>2. Settled(call[q].track) => Settled(call[q].track)'
    BY <1>2, <2>1
  <2> QED
    BY <1>1, <1>8, <2>1, <2>2 DEF LoadTrack, Found, HandlerAgrees
<1>9. CASE OpenFile(q)
  BY <1>1, <1>2, <1>9 DEF OpenFile, Opened, HandlerAgrees
<1>10. CASE DeleteTrack(q)
  <2>1. call[q] # Nil /\ call[q].track \in Requests /\ call' = call
    BY <1>1, <1>10 DEF DeleteTrack, DeleteRow, HandlerAgrees, Call
  <2>2. Settled(call[q].track) => Settled(call[q].track)'
    BY <1>2, <2>1
  <2> QED
    BY <1>1, <1>10, <2>1, <2>2 DEF DeleteTrack, DeleteRow, HandlerAgrees
<1>11. CASE DeleteAudio(q)
  <2>1. call[q] # Nil /\ call[q].track \in Requests /\ call' = call
    BY <1>1, <1>11 DEF DeleteAudio, HandlerAgrees, Call
  <2>2. Settled(call[q].track) => Settled(call[q].track)'
    BY <1>2, <2>1
  <2> QED
    BY <1>1, <1>11, <2>1, <2>2 DEF DeleteAudio, HandlerAgrees, FinalCode
<1>12. CASE DeleteCover(q)
  <2>1. call[q] # Nil /\ call[q].track \in Requests /\ call' = call
    BY <1>1, <1>12 DEF DeleteCover, HandlerAgrees, Call
  <2>2. Settled(call[q].track) => Settled(call[q].track)'
    BY <1>2, <2>1
  <2> QED
    BY <1>1, <1>12, <2>1, <2>2 DEF DeleteCover, HandlerAgrees, FinalCode
<1> QED
  BY <1>3, <1>4, <1>5, <1>6, <1>7, <1>8, <1>9, <1>10, <1>11, <1>12 DEF Handle

\* So all handlers agree again after every step.
LEMMA AgreeStep ==
  ASSUME TypeOK, HandlersAgree, [Next]_vars, TypeOK'
  PROVE  HandlersAgree'
<1>1. ASSUME NEW t \in Requests, tracks'[t] # Nil
      PROVE  Settled(t)'
  <2>1. CASE tracks[t] # Nil
    BY <2>1, SettledStable DEF HandlersAgree
  <2>2. CASE tracks[t] = Nil
    <3>1. CreateTrack(t) /\ tracks' = [tracks EXCEPT ![t] = row[t]]
      BY <1>1, <2>2
      DEF TypeOK, vars, Crash, Next, Receive, ReceiveUpload, ReceiveOnTrack, Refuse,
          Handle, CreateAudio, CopyAudio, SaveCover, SaveBytes, CreateTrack,
          InsertRow, LoadTrack, Found, OpenFile, Opened,
          DeleteTrack, DeleteRow, DeleteAudio, DeleteCover, At
    <3>2. call[t] # Nil /\ call[t].op = "upload" /\ call' = call
      BY <3>1 DEF HandlersAgree, HandlerAgrees, CreateTrack, InsertRow, At, Active,
         UploadSteps
    <3> QED
      BY <3>1, <3>2 DEF CreateTrack, InsertRow, Goto, Answer, Settled, TypeOK, DeleteSteps
  <2> QED
    BY <2>1, <2>2
<1>2. ASSUME NEW r \in Requests
      PROVE  HandlerAgrees(r)'
  <2>1. CASE UNCHANGED vars
    BY <2>1 DEF vars, HandlersAgree, HandlerAgrees, Settled
  <2>2. CASE Crash
    <3>1. HandlerAgrees(r)
      BY DEF HandlersAgree
    <3>2. \A t \in Requests : Settled(t) => Settled(t)'
      BY SettledStable
    <3> QED
      BY <2>2, <3>1, <3>2
      DEF Crash, TypeOK, Call, HandlerAgrees, Active, UploadSteps, DeleteSteps
  <2>3. ASSUME NEW q \in Requests, Receive(q) \/ Handle(q)
        PROVE  HandlerAgrees(r)'
    BY <2>3, OthersAgree, SelfAgrees
  <2> QED
    BY <2>1, <2>2, <2>3 DEF Next
<1> QED
  BY <1>1, <1>2 DEF HandlersAgree

-----------------------------------------------------------------------------
(* Theorems. *)

\* Files are removed only for tracks that are no longer listed, and rows are
\* inserted only over complete audio.
LEMMA AudioStep ==
  ASSUME IInv, [Next]_vars, TypeOK', "lost" \notin Faults
  PROVE  RowsHaveAudio'
<1> SUFFICES ASSUME NEW t \in Requests, tracks'[t] # Nil
             PROVE  audio'[t] = "whole"
  BY DEF RowsHaveAudio
<1>1. TypeOK /\ HandlersAgree /\ RowsHaveAudio
  BY DEF IInv
<1>2. CASE UNCHANGED vars \/ Crash
  BY <1>1, <1>2 DEF vars, Crash, RowsHaveAudio
<1>3. ASSUME NEW q \in Requests, Receive(q) \/ Handle(q)
      PROVE  audio'[t] = "whole"
  <2>1. Frame(q) /\ HandlerAgrees(q)
    BY <1>1, <1>3, StepFrame DEF HandlersAgree
  <2>2. CASE tracks[t] # Nil
    <3>1. Settled(t) /\ audio[t] = "whole"
      BY <1>1, <2>2 DEF HandlersAgree, RowsHaveAudio
    <3> QED
      BY <2>1, <2>2, <3>1 DEF Frame, HandlerAgrees, Settled, DeleteSteps
  <2>3. CASE tracks[t] = Nil
    BY <2>1, <2>3 DEF Frame, HandlerAgrees
  <2> QED
    BY <2>2, <2>3
<1> QED
  BY <1>2, <1>3 DEF Next

\* The invariant is inductive.
THEOREM Invariance == Spec => []IInv
<1>1. IInv /\ [Next]_vars => IInv'
  <2> SUFFICES ASSUME IInv, [Next]_vars
               PROVE  IInv'
    OBVIOUS
  <2>1. TypeOK'
    BY TypeStep
  <2>2. HandlersAgree'
    BY <2>1, AgreeStep DEF IInv
  <2>3. "lost" \notin Faults => RowsHaveAudio'
    BY <2>1, AudioStep
  <2> QED
    BY <2>1, <2>2, <2>3 DEF IInv
<1> QED
  BY InitInv, <1>1, PTL DEF Spec

\* Type correctness of the store under every combination of faults.
THEOREM TypeCorrect == Spec => []TypeOK
<1>1. IInv => TypeOK
  BY DEF IInv
<1> QED
  BY Invariance, <1>1, PTL

\* If no reply of the database is lost, every listed track can be played, for
\* any number of concurrent uploads, deletes, crashes and failing operations.
THEOREM ListedTracksPlay ==
  ASSUME "lost" \notin Faults
  PROVE  Spec => []RowsHaveAudio
<1>1. IInv => RowsHaveAudio
  BY DEF IInv
<1> QED
  BY Invariance, <1>1, PTL

\* A track whose delete was answered with 204 is never listed again, under
\* every combination of faults.
THEOREM DeletesHold == Spec => []DeletedStaysGone
<1>1. IInv => DeletedStaysGone
  BY DEF IInv, HandlersAgree, HandlerAgrees, DeletedStaysGone
<1> QED
  BY Invariance, <1>1, PTL

-----------------------------------------------------------------------------
(* The files that TrackStore keeps beside its table, and uploads that were *)
(* acknowledged, for every set of requests and faults.                      *)

Uploading(t) == call[t] # Nil /\ call[t].op = "upload"

\* What the upload of t has left on the volume so far, and in its row.
TrackHeld(t) ==
    /\ pc[t] = "idle" => call[t] = Nil /\ reply[t] = 0
    /\ ~Uploading(t) \/ pc[t] = "create_audio" => audio[t] = "absent" /\ cover[t] = "absent"
    /\ pc[t] \in UploadSteps \ {"insert"} => cover[t] = "absent" /\ ~row[t].cover
    /\ pc[t] = "insert" /\ t \notin tainted =>
           cover[t] # "partial" /\ (row[t].cover <=> cover[t] = "whole")
    /\ tracks[t] # Nil => tracks[t] = row[t] /\ audio[t] # "partial"
    /\ tracks[t] # Nil /\ t \notin tainted =>
           cover[t] # "partial" /\ Working(t, DeleteSteps) = {}
    /\ reply[t] = 201 => pc[t] = "done" /\ Uploading(t)

\* What a handler holds of a track it has loaded, or is about to roll back: the
\* row that the upload inserted.
HandlerHolds(r) ==
    /\ pc[r] \in {"open", "delete_row"} \cup DeleteSteps =>
           LET t == call[r].track
           IN  Settled(t) /\ row[r] = row[t] /\ audio[t] # "partial"
    /\ pc[r] = "delete_cover" => row[r].cover
    /\ pc[r] \in {"delete_row"} \cup DeleteSteps /\ call[r].op # "upload" =>
           call[r].op = "delete" /\ MayDelete(call[r].user, row[r])

FInv ==
    /\ \A r \in Requests : TrackHeld(r) /\ HandlerHolds(r)
    /\ NoStrayFiles
    /\ UploadsStay

LEMMA InitFiles == Init => FInv
  BY DEF Init, FInv, TrackHeld, HandlerHolds, Uploading, NoStrayFiles, UploadsStay,
     UploadSteps, DeleteSteps

-----------------------------------------------------------------------------
\* Only q's own steps change its handler and the cover they are about.
Moves(q) ==
    /\ Frame(q)
    /\ \A t \in Requests :
           \/ cover'[t] = cover[t]
           \/ t = q /\ pc[q] = "save_cover"
           \/ t = call[q].track /\ pc[q] = "delete_cover"
    /\ tainted \subseteq tainted'

LEMMA StepMoves ==
  ASSUME TypeOK, NEW q \in Requests, Receive(q) \/ Handle(q)
  PROVE  Moves(q)
<1> USE DEF TypeOK, At, Goto, Answer, Moves, Taint
<1>0. Frame(q)
  BY StepFrame
<1>1. CASE Receive(q)
  BY <1>0, <1>1 DEF Receive, ReceiveUpload, ReceiveOnTrack, Refuse
<1>2. CASE CreateAudio(q) \/ CopyAudio(q)
  BY <1>0, <1>2 DEF CreateAudio, CopyAudio
<1>3. CASE SaveCover(q)
  BY <1>0, <1>3 DEF SaveCover, SaveBytes
<1>4. CASE CreateTrack(q) \/ LoadTrack(q) \/ OpenFile(q) \/ DeleteTrack(q)
  BY <1>0, <1>4 DEF CreateTrack, LoadTrack, OpenFile, DeleteTrack
<1>5. CASE DeleteAudio(q) \/ DeleteCover(q)
  BY <1>0, <1>5 DEF DeleteAudio, DeleteCover
<1> QED
  BY <1>1, <1>2, <1>3, <1>4, <1>5 DEF Handle

\* A settled upload never changes its row or call again.
LEMMA SettledRow ==
  ASSUME TypeOK, HandlersAgree, NEW q \in Requests, Receive(q) \/ Handle(q),
         NEW t \in Requests, Settled(t)
  PROVE  row'[t] = row[t] /\ call'[t] = call[t]
<1> USE DEF TypeOK, At, Goto, Answer, Settled, DeleteSteps
<1>1. CASE q # t
  BY <1>1, StepFrame DEF Frame
<1>2. CASE q = t
  BY <1>2 DEF Receive, ReceiveUpload, ReceiveOnTrack, Refuse, Handle, CreateAudio,
     CopyAudio, SaveCover, SaveBytes, CreateTrack, InsertRow, LoadTrack, Found,
     OpenFile, DeleteTrack, DeleteAudio, DeleteCover
<1> QED
  BY <1>1, <1>2

\* Its audio is not written any more.
LEMMA SettledAudio ==
  ASSUME TypeOK, HandlersAgree, NEW q \in Requests, Receive(q) \/ Handle(q),
         NEW t \in Requests, Settled(t), audio[t] # "partial"
  PROVE  audio'[t] # "partial"
<1>1. Frame(q)
  BY StepFrame
<1>2. CASE DeleteAudio(q)
  BY <1>2 DEF DeleteAudio, TypeOK
<1>3. CASE ~DeleteAudio(q)
  BY <1>1, <1>3 DEF Frame, Settled, DeleteSteps, Receive, ReceiveUpload, ReceiveOnTrack,
     Refuse, Handle, CreateAudio, CopyAudio, SaveCover, CreateTrack, LoadTrack, OpenFile,
     DeleteTrack, DeleteCover, At
<1> QED
  BY <1>2, <1>3

\* A handler that does not move still holds what it held.
LEMMA OthersHold ==
  ASSUME TypeOK, HandlersAgree, FInv, [Next]_vars,
         NEW q \in Requests, Receive(q) \/ Handle(q), NEW r \in Requests \ {q}
  PROVE  HandlerHolds(r)'
<1>1. Frame(q) /\ HandlerHolds(r) /\ HandlerAgrees(r)
  BY StepFrame DEF FInv, HandlersAgree
<1>2. pc'[r] = pc[r] /\ call'[r] = call[r] /\ row'[r] = row[r]
  BY <1>1 DEF Frame
<1>3. CASE pc[r] \in {"open", "delete_row"} \cup DeleteSteps
  <2>0. PICK t \in Requests : t = call[r].track
    BY <1>1, <1>3 DEF HandlerAgrees, Active, DeleteSteps, TypeOK, Call
  <2>1. Settled(t) /\ row[r] = row[t] /\ audio[t] # "partial"
    BY <1>1, <1>3, <2>0 DEF HandlerHolds
  <2>2. Settled(t)' /\ row'[t] = row[t]
    BY <2>1, SettledStable, SettledRow
  <2>3. audio'[t] # "partial"
    BY <2>1, SettledAudio
  <2> QED
    BY <1>1, <1>2, <2>0, <2>1, <2>2, <2>3 DEF HandlerHolds, MayDelete
<1>4. CASE pc[r] \notin {"open", "delete_row"} \cup DeleteSteps
  BY <1>2, <1>4 DEF HandlerHolds, DeleteSteps
<1> QED
  BY <1>3, <1>4

\* The handler that moves holds the row that it has just found, or has had.
LEMMA SelfHolds ==
  ASSUME TypeOK, HandlersAgree, FInv, [Next]_vars,
         NEW q \in Requests, Receive(q) \/ Handle(q)
  PROVE  HandlerHolds(q)'
<1> USE NilAssumption
    DEF TypeOK, At, Goto, Answer, DeleteSteps, HandlerHolds, MayDelete
<1>0. HandlerHolds(q) /\ HandlerAgrees(q) /\ TrackHeld(q)
  BY DEF FInv, HandlersAgree
<1>1. CASE pc'[q] \notin {"open", "delete_row"} \cup DeleteSteps
  BY <1>1
<1>2. CASE CreateTrack(q) /\ pc'[q] = "delete_audio"
  <2>1. /\ call[q] # Nil /\ call[q].op = "upload" /\ call[q].track = q
        /\ audio[q] = "whole"
    BY <1>0, <1>2 DEF HandlerAgrees, Active, UploadSteps, CreateTrack
  <2>2. call' = call /\ row' = row /\ audio' = audio
    BY <1>2 DEF CreateTrack
  <2>3. Settled(q)'
    BY <1>2, <2>1, <2>2 DEF Settled
  <2> QED
    BY <1>2, <2>1, <2>2, <2>3
<1>3. CASE LoadTrack(q) /\ pc'[q] \in {"open", "delete_row"}
  <2>1. PICK t \in Requests : t = call[q].track
    BY <1>0, <1>3 DEF HandlerAgrees, LoadTrack, Active, Call
  <2>2. /\ tracks[t] # Nil /\ row'[q] = tracks[t]
        /\ pc'[q] = "delete_row" =>
               call[q].op = "delete" /\ MayDelete(call[q].user, tracks[t])
    BY <1>3, <2>1 DEF LoadTrack, Found
  <2>3. Settled(t) /\ tracks[t] = row[t] /\ audio[t] # "partial"
    BY <2>2 DEF HandlersAgree, FInv, TrackHeld
  <2>4. Settled(t)' /\ row'[t] = row[t]
    BY <2>3, SettledStable, SettledRow
  <2>5. audio' = audio /\ call' = call
    BY <1>3 DEF LoadTrack
  <2> QED
    BY <1>3, <2>1, <2>2, <2>3, <2>4, <2>5
<1>4. CASE (DeleteTrack(q) \/ DeleteAudio(q)) /\ pc'[q] \in DeleteSteps
  <2>1. PICK t \in Requests : t = call[q].track
    BY <1>0, <1>4 DEF HandlerAgrees, DeleteTrack, DeleteAudio, Active, Call
  <2>2. Settled(t) /\ row[q] = row[t] /\ audio[t] # "partial"
    BY <1>0, <1>4, <2>1 DEF DeleteTrack, DeleteAudio
  <2>3. Settled(t)' /\ row'[t] = row[t] /\ audio'[t] # "partial"
    BY <2>2, SettledStable, SettledRow, SettledAudio
  <2>4. call' = call /\ row' = row
    BY <1>4 DEF DeleteTrack, DeleteAudio
  <2> QED
    BY <1>0, <1>4, <2>1, <2>2, <2>3, <2>4 DEF DeleteTrack, DeleteAudio
<1> QED
  BY <1>1, <1>2, <1>3, <1>4
  DEF Receive, ReceiveUpload, ReceiveOnTrack, Refuse, Handle, CreateAudio, CopyAudio,
      SaveCover, OpenFile, CreateTrack, LoadTrack, DeleteTrack, DeleteAudio, DeleteCover

LEMMA HoldStep ==
  ASSUME TypeOK, HandlersAgree, FInv, [Next]_vars, NEW r \in Requests
  PROVE  HandlerHolds(r)'
<1>1. CASE UNCHANGED vars
  BY <1>1 DEF vars, FInv, HandlerHolds, Settled, MayDelete
<1>2. CASE Crash
  BY <1>2 DEF Crash, TypeOK, FInv, HandlerHolds, DeleteSteps, Active, UploadSteps
<1>3. ASSUME NEW q \in Requests, Receive(q) \/ Handle(q)
      PROVE  HandlerHolds(r)'
  BY <1>3, OthersHold, SelfHolds
<1> QED
  BY <1>1, <1>2, <1>3 DEF Next
-----------------------------------------------------------------------------
\* Whoever removes the files of a listed track is a rollback whose reply was
\* lost, and has tainted it.
LEMMA RemoversStep ==
  ASSUME TypeOK, HandlersAgree, FInv, [Next]_vars, TypeOK', HandlersAgree',
         NEW t \in Requests, tracks'[t] # Nil, t \notin tainted'
  PROVE  Working(t, DeleteSteps)' = {}
<1> USE DEF TypeOK, At, Goto, Answer, Taint
<1> SUFFICES ASSUME NEW r \in Requests, pc'[r] \in DeleteSteps, call'[r].track = t
             PROVE  FALSE
  BY DEF Working
<1>1. r = t /\ call'[t] # Nil /\ call'[t].op = "upload"
  BY DEF HandlersAgree, HandlerAgrees, Active, DeleteSteps
<1>2. CASE UNCHANGED vars
  BY <1>1, <1>2 DEF vars, FInv, TrackHeld, Working
<1>3. CASE Crash
  BY <1>3 DEF Crash, Active, DeleteSteps
<1>4. ASSUME NEW q \in Requests, Receive(q) \/ Handle(q)
      PROVE  FALSE
  <2>1. Moves(q)
    BY <1>4, StepMoves
  <2>2. CASE pc[t] \in DeleteSteps
    <3>1. tracks[t] # Nil
      BY <1>1, <2>1, <2>2 DEF Moves, Frame, DeleteSteps
    <3>2. call[t] # Nil /\ call[t].track = t /\ Settled(t)
      BY <1>1, <2>2, <3>1 DEF HandlersAgree, HandlerAgrees, Active, Settled
    <3>3. t \in Working(t, DeleteSteps)
      BY <2>2, <3>2 DEF Working
    <3> QED
      BY <2>1, <3>1, <3>3 DEF FInv, TrackHeld, Moves
  <2>3. CASE pc[t] \notin DeleteSteps
    <3>1. q = t
      BY <1>1, <2>1, <2>3 DEF Moves, Frame
    <3>2. (call[t] # Nil /\ call' = call) \/ pc[t] = "idle"
      BY <1>4, <3>1 DEF Receive, ReceiveUpload, ReceiveOnTrack, Refuse, Handle, CreateAudio,
         CopyAudio, SaveCover, CreateTrack, LoadTrack, OpenFile, DeleteTrack, DeleteAudio,
         DeleteCover, HandlersAgree, HandlerAgrees, Active, UploadSteps, DeleteSteps
    <3>3. CreateTrack(t)
      BY <1>1, <1>4, <2>3, <3>1, <3>2 DEF Receive, ReceiveUpload, ReceiveOnTrack, Refuse, Handle,
         CreateAudio, CopyAudio, SaveCover, LoadTrack, OpenFile, DeleteTrack, DeleteAudio,
         DeleteCover, HandlersAgree, HandlerAgrees, DeleteSteps
    <3>4. tracks[t] = Nil
      BY <3>3 DEF CreateTrack, HandlersAgree, Settled, DeleteSteps
    <3> QED
      BY <1>1, <3>3, <3>4 DEF CreateTrack, DeleteSteps
  <2> QED
    BY <2>2, <2>3
<1> QED
  BY <1>2, <1>3, <1>4 DEF Next

LEMMA HeldStep ==
  ASSUME TypeOK, HandlersAgree, FInv, [Next]_vars, TypeOK', HandlersAgree',
         NEW t \in Requests
  PROVE  TrackHeld(t)'
<1> USE NilAssumption DEF TypeOK, At, Goto, Answer, Taint
<1>0. tracks'[t] # Nil /\ t \notin tainted' => Working(t, DeleteSteps)' = {}
  BY RemoversStep
<1>1. TrackHeld(t) /\ HandlerAgrees(t)
  BY DEF FInv, HandlersAgree
<1>2. CASE UNCHANGED vars
  BY <1>2, <1>1 DEF vars, TrackHeld, Uploading, Working
<1>3. CASE Crash
  <2>1. pc'[t] = IF pc[t] \in Active THEN "killed" ELSE pc[t]
    BY <1>3 DEF Crash
  <2>2. UNCHANGED <<tracks, audio, cover, call, row, reply>> /\ tainted \subseteq tainted'
    BY <1>3 DEF Crash
  <2> QED
    BY <1>0, <1>1, <2>1, <2>2 DEF TrackHeld, Uploading, Active, UploadSteps, DeleteSteps
<1>4. ASSUME NEW q \in Requests, Receive(q) \/ Handle(q), q # t
      PROVE  TrackHeld(t)'
  <2>1. Moves(q) /\ HandlerAgrees(q) /\ HandlerHolds(q)
    BY <1>4, StepMoves DEF HandlersAgree, FInv
  <2>2. UNCHANGED <<pc[t], call[t], row[t], reply[t]>> /\ tracks'[t] \in {tracks[t], Nil}
    BY <1>4, <2>1 DEF Moves, Frame
  <2>3. CASE ~Settled(t)
    <3>1. audio'[t] = audio[t] /\ cover'[t] = cover[t] /\ tracks[t] = Nil
      BY <1>4, <2>1, <2>3
      DEF Moves, Frame, HandlerAgrees, HandlersAgree, DeleteSteps
    <3> QED
      BY <1>1, <2>1, <2>2, <3>1 DEF TrackHeld, Uploading, Moves
  <2>4. CASE Settled(t)
    <3>1. audio[t] # "partial" => audio'[t] # "partial"
      BY <1>4, <2>4, SettledAudio
    <3>2. cover'[t] \in {cover[t], "absent"}
      BY <1>4, <2>1 DEF Moves, Receive, ReceiveUpload, ReceiveOnTrack, Refuse,
         Handle, CreateAudio, CopyAudio, SaveCover, SaveBytes, CreateTrack, LoadTrack,
         OpenFile, DeleteTrack, DeleteAudio, DeleteCover
    <3> QED
      BY <1>0, <1>1, <2>1, <2>2, <2>4, <3>1, <3>2
      DEF TrackHeld, Uploading, Settled, Moves, UploadSteps, DeleteSteps
  <2> QED
    BY <2>3, <2>4
<1>5. ASSUME Receive(t)
      PROVE  TrackHeld(t)'
  <2>1. tracks[t] = Nil /\ UNCHANGED <<tracks, audio, cover, tainted>>
    BY <1>5 DEF Receive, ReceiveUpload, ReceiveOnTrack, Refuse, HandlersAgree, Settled,
       DeleteSteps
  <2>2. audio[t] = "absent" /\ cover[t] = "absent"
    BY <1>1, <1>5 DEF TrackHeld, Uploading, Receive, ReceiveUpload, ReceiveOnTrack, Refuse
  <2> QED
    BY <1>1, <1>5, <2>1, <2>2 DEF TrackHeld, Uploading, Receive, ReceiveUpload,
       ReceiveOnTrack, Refuse, UploadSteps
<1>6. ASSUME CreateAudio(t) \/ CopyAudio(t)
      PROVE  TrackHeld(t)'
  <2>1. /\ tracks[t] = Nil /\ Uploading(t) /\ reply[t] # 201
        /\ cover[t] = "absent" /\ ~row[t].cover
    BY <1>1, <1>6 DEF CreateAudio, CopyAudio, HandlerAgrees, HandlersAgree, Active,
       UploadSteps, DeleteSteps, Settled, TrackHeld, Uploading
  <2>2. /\ UNCHANGED <<tracks, cover, call, row>>
        /\ pc'[t] \in {"copy_audio", "save_cover", "insert", "done"}
        /\ reply'[t] \in {reply[t], 500}
    BY <1>6 DEF CreateAudio, CopyAudio
  <2> QED
    BY <2>1, <2>2 DEF TrackHeld, Uploading, UploadSteps
<1>7. CASE SaveCover(t)
  <2>1. /\ tracks[t] = Nil /\ row[t] \in Row /\ cover[t] = "absent" /\ ~row[t].cover
        /\ Uploading(t) /\ reply[t] # 201
    BY <1>1, <1>7 DEF SaveCover, HandlerAgrees, HandlersAgree, Active, UploadSteps,
       DeleteSteps, Settled, TrackHeld, Uploading
  <2>2. tracks' = tracks /\ call' = call /\ pc'[t] = "insert" /\ reply' = reply
    BY <1>7 DEF SaveCover
  <2>3. \/ cover'[t] = "whole" /\ row' = [row EXCEPT ![t].cover = TRUE]
        \/ row' = row /\ cover' = cover
        \/ row' = row /\ cover'[t] = "partial" /\ t \in tainted'
    BY <1>7 DEF SaveCover, SaveBytes
  <2>4. cover'[t] = "whole" => row'[t].cover
    BY <2>1, <2>3 DEF Row
  <2> QED
    BY <2>1, <2>2, <2>3, <2>4 DEF TrackHeld, Uploading, UploadSteps
<1>8. CASE CreateTrack(t)
  BY <1>0, <1>1, <1>8 DEF CreateTrack, InsertRow, TrackHeld, Uploading, UploadSteps,
     HandlerAgrees, HandlersAgree, Active
<1>9. ASSUME LoadTrack(t) \/ OpenFile(t) \/ DeleteTrack(t)
      PROVE  TrackHeld(t)'
  <2>1. ~Uploading(t) /\ tracks[t] = Nil
    BY <1>1, <1>9 DEF LoadTrack, OpenFile, DeleteTrack, HandlerAgrees, HandlersAgree, Uploading,
       Settled, Active
  <2> QED
    BY <1>1, <1>9, <2>1 DEF LoadTrack, Found, OpenFile, DeleteTrack, DeleteRow,
       TrackHeld, Uploading, UploadSteps
<1>10. ASSUME DeleteAudio(t) \/ DeleteCover(t)
       PROVE  TrackHeld(t)'
  <2>1. pc'[t] \in {"done", "delete_cover"} /\ call' = call /\ row' = row /\ tracks' = tracks
    BY <1>10 DEF DeleteAudio, DeleteCover
  <2> QED
    BY <1>0, <1>1, <1>10, <2>1 DEF DeleteAudio, DeleteCover, FinalCode, TrackHeld,
       Uploading, UploadSteps, HandlerAgrees
<1> QED
  BY <1>2, <1>3, <1>4, <1>5, <1>6, <1>7, <1>8, <1>9, <1>10 DEF Next, Handle
-----------------------------------------------------------------------------
(* The files of one track, listed or not. *)

AudioWork == {"copy_audio", "save_cover", "insert", "delete_audio"}
CoverWork == {"insert", "delete_audio", "delete_cover"}

ListedFiles(t) ==
    tracks[t] # Nil =>
        /\ audio[t] = "whole"
        /\ tracks[t].cover = (cover[t] = "whole")

OwnedAudio(t) ==
    tracks[t] = Nil /\ audio[t] # "absent" => Working(t, AudioWork) # {}

OwnedCover(t) ==
    tracks[t] = Nil /\ cover[t] # "absent" =>
        \E r \in Working(t, CoverWork) : row[r].cover

LEMMA NoStraySplit ==
  NoStrayFiles <=>
      \A t \in Requests \ tainted : ListedFiles(t) /\ OwnedAudio(t) /\ OwnedCover(t)
  BY DEF NoStrayFiles, ListedFiles, OwnedAudio, OwnedCover, AudioWork, CoverWork

\* A row appears over complete files, and nobody removes them while it is there.
LEMMA ListedStep ==
  ASSUME TypeOK, HandlersAgree, FInv, [Next]_vars, TypeOK',
         NEW t \in Requests, t \notin tainted'
  PROVE  ListedFiles(t)'
<1> SUFFICES ASSUME tracks'[t] # Nil
             PROVE  audio'[t] = "whole" /\ tracks'[t].cover = (cover'[t] = "whole")
  BY DEF ListedFiles
<1> USE DEF TypeOK
<1>1. CASE UNCHANGED vars \/ Crash
  <2>1. UNCHANGED <<tracks, audio, cover>> /\ t \notin tainted
    BY <1>1 DEF vars, Crash
  <2> QED
    BY <2>1, NoStraySplit DEF FInv, ListedFiles
<1>2. ASSUME NEW q \in Requests, Receive(q) \/ Handle(q)
      PROVE  audio'[t] = "whole" /\ tracks'[t].cover = (cover'[t] = "whole")
  <2>1. Moves(q) /\ HandlerAgrees(q) /\ TrackHeld(t) /\ t \notin tainted
    BY <1>2, StepMoves DEF HandlersAgree, FInv, Moves
  <2>2. CASE tracks[t] # Nil
    <3>1. Settled(t) /\ Working(t, DeleteSteps) = {} /\ ListedFiles(t)
      BY <2>1, <2>2, NoStraySplit DEF HandlersAgree, TrackHeld, FInv
    <3>2. tracks'[t] = tracks[t]
      BY <2>1, <3>1 DEF Moves, Frame, Settled, DeleteSteps
    <3>3. audio'[t] = audio[t] /\ cover'[t] = cover[t]
      BY <2>1, <3>1 DEF Moves, Frame, Settled, DeleteSteps, Working
    <3> QED
      BY <2>2, <3>1, <3>2, <3>3 DEF ListedFiles
  <2>3. CASE tracks[t] = Nil
    <3>1. q = t /\ pc[t] = "insert"
      BY <2>1, <2>3 DEF Moves, Frame
    <3>2. CreateTrack(t)
      BY <1>2, <3>1 DEF Receive, ReceiveUpload, ReceiveOnTrack, Refuse, Handle, CreateAudio,
         CopyAudio, SaveCover, LoadTrack, OpenFile, DeleteTrack, DeleteAudio, DeleteCover, At
    <3>3. tracks'[t] = row[t] /\ UNCHANGED <<audio, cover>>
      BY <2>3, <3>2 DEF CreateTrack, InsertRow
    <3>4. row[t] \in Row
      BY <2>1, <3>1 DEF HandlerAgrees, Active, UploadSteps
    <3>5. row[t].cover \in BOOLEAN
      BY <3>4 DEF Row
    <3>6. audio[t] = "whole" /\ (row[t].cover <=> cover[t] = "whole")
      BY <2>1, <3>1 DEF HandlerAgrees, TrackHeld
    <3> QED
      BY <3>3, <3>5, <3>6
  <2> QED
    BY <2>2, <2>3
<1> QED
  BY <1>1, <1>2 DEF Next

\* Whoever is at work on the audio of a track that is not listed stays at it
\* until it is listed or gone.
LEMMA OwnedAudioStep ==
  ASSUME TypeOK, HandlersAgree, FInv, [Next]_vars, TypeOK',
         NEW t \in Requests, t \notin tainted'
  PROVE  OwnedAudio(t)'
<1> SUFFICES ASSUME tracks'[t] = Nil, audio'[t] # "absent"
             PROVE  \E r \in Requests : pc'[r] \in AudioWork /\ call'[r].track = t
  BY DEF OwnedAudio, Working
<1> USE DEF TypeOK
<1>0. /\ t \notin tainted => OwnedAudio(t)
      /\ \A r \in Requests : HandlerAgrees(r) /\ HandlerHolds(r)
  BY NoStraySplit DEF FInv, HandlersAgree
<1>1. CASE UNCHANGED vars
  BY <1>0, <1>1 DEF vars, OwnedAudio, Working
<1>2. CASE Crash
  <2>1. /\ UNCHANGED <<tracks, audio>> /\ t \notin tainted
        /\ ~\E r \in Requests : pc[r] \in FileWork /\ call[r].track = t
    BY <1>2 DEF Crash
  <2> QED
    BY <1>0, <2>1
    DEF OwnedAudio, Working, AudioWork, FileWork, UploadSteps, DeleteSteps
<1>3. ASSUME NEW q \in Requests, Receive(q) \/ Handle(q)
      PROVE  \E r \in Requests : pc'[r] \in AudioWork /\ call'[r].track = t
  <2>1. Moves(q) /\ t \notin tainted
    BY <1>3, StepMoves DEF Moves
  <2>2. ASSUME NEW r \in Requests \ {q}, pc[r] \in AudioWork, call[r].track = t
        PROVE  pc'[r] \in AudioWork /\ call'[r].track = t
    BY <2>1, <2>2 DEF Moves, Frame
  <2>3. CASE tracks[t] # Nil
    <3>1. Settled(t)
      BY <2>3 DEF HandlersAgree
    <3>2. DeleteTrack(q) /\ call[q].track = t
      BY <1>3, <2>1, <2>3, <3>1 DEF Receive, ReceiveUpload, ReceiveOnTrack, Refuse, Handle,
         CreateAudio, CopyAudio, SaveCover, CreateTrack, InsertRow, LoadTrack, OpenFile,
         DeleteTrack, DeleteRow, DeleteAudio, DeleteCover, At, Settled, DeleteSteps
    <3> QED
      BY <2>3, <3>2 DEF DeleteTrack, Goto, Taint, AudioWork
  <2>4. CASE tracks[t] = Nil /\ audio[t] = "absent"
    <3>1. q = t /\ pc[t] \in {"create_audio", "copy_audio"}
      <4>1. ~DeleteAudio(q)
        BY <2>4 DEF DeleteAudio
      <4>2. audio' # audio
        BY <2>4
      <4>3. CreateAudio(q) \/ CopyAudio(q)
        BY <1>3, <4>1, <4>2 DEF Receive, ReceiveUpload, ReceiveOnTrack, Refuse, Handle,
           SaveCover, CreateTrack, LoadTrack, OpenFile, DeleteTrack, DeleteCover
      <4> QED
        BY <2>4, <4>3 DEF CreateAudio, CopyAudio, At
    <3>2. CreateAudio(t) \/ CopyAudio(t)
      BY <1>3, <3>1 DEF Receive, ReceiveUpload, ReceiveOnTrack, Refuse, Handle, SaveCover,
         CreateTrack, LoadTrack, OpenFile, DeleteTrack, DeleteAudio, DeleteCover, At
    <3>3. call[t].track = t
      BY <1>0, <3>1 DEF HandlerAgrees, Active, UploadSteps
    <3> QED
      BY <2>4, <3>2, <3>3 DEF CreateAudio, CopyAudio, Goto, AudioWork
  <2>5. CASE tracks[t] = Nil /\ audio[t] # "absent"
    <3>1. PICK r \in Requests : pc[r] \in AudioWork /\ call[r].track = t
      BY <1>0, <2>1, <2>5 DEF OwnedAudio, Working
    <3>2. CASE r = q
      <4>1. CASE CopyAudio(q) \/ SaveCover(q)
        BY <1>0, <2>1, <3>1, <3>2, <4>1 DEF CopyAudio, SaveCover, Goto, At, Taint, AudioWork,
           HandlerAgrees, Active, UploadSteps
      <4>2. CASE CreateTrack(q)
        <5>1. call[q].track = q /\ row[q] # Nil
          BY <1>0, <4>2 DEF CreateTrack, At, HandlerAgrees, Active, UploadSteps
        <5> QED
          BY <3>1, <3>2, <4>2, <5>1 DEF CreateTrack, InsertRow, Goto, AudioWork
      <4>3. CASE DeleteAudio(q)
        BY <2>1, <3>1, <3>2, <4>3 DEF DeleteAudio, Taint
      <4> QED
        BY <1>3, <3>1, <3>2, <4>1, <4>2, <4>3 DEF Receive, ReceiveUpload, ReceiveOnTrack,
           Refuse, Handle, CreateAudio, LoadTrack, OpenFile, DeleteTrack, DeleteCover, At,
           AudioWork
    <3> QED
      BY <2>2, <3>1, <3>2
  <2> QED
    BY <2>3, <2>4, <2>5
<1> QED
  BY <1>1, <1>2, <1>3 DEF Next
\* The same for the cover; a handler at work on it knows that there is one.
LEMMA OwnedCoverStep ==
  ASSUME TypeOK, HandlersAgree, FInv, [Next]_vars, TypeOK',
         NEW t \in Requests, t \notin tainted'
  PROVE  OwnedCover(t)'
<1> SUFFICES ASSUME tracks'[t] = Nil, cover'[t] # "absent"
             PROVE  \E r \in Requests :
                        pc'[r] \in CoverWork /\ call'[r].track = t /\ row'[r].cover
  BY DEF OwnedCover, Working
<1> USE DEF TypeOK
<1>0. /\ t \notin tainted => OwnedCover(t)
      /\ \A r \in Requests : HandlerAgrees(r) /\ HandlerHolds(r)
  BY NoStraySplit DEF FInv, HandlersAgree
<1>1. CASE UNCHANGED vars
  BY <1>0, <1>1 DEF vars, OwnedCover, Working
<1>2. CASE Crash
  <2>1. /\ UNCHANGED <<tracks, cover>> /\ t \notin tainted
        /\ ~\E r \in Requests : pc[r] \in FileWork /\ call[r].track = t
    BY <1>2 DEF Crash
  <2> QED
    BY <1>0, <2>1
    DEF OwnedCover, Working, CoverWork, FileWork, UploadSteps, DeleteSteps
<1>3. ASSUME NEW q \in Requests, Receive(q) \/ Handle(q)
      PROVE  \E r \in Requests :
                 pc'[r] \in CoverWork /\ call'[r].track = t /\ row'[r].cover
  <2>1. Moves(q) /\ t \notin tainted
    BY <1>3, StepMoves DEF Moves
  <2>2. ASSUME NEW r \in Requests \ {q}, pc[r] \in CoverWork, call[r].track = t, row[r].cover
        PROVE  pc'[r] \in CoverWork /\ call'[r].track = t /\ row'[r].cover
    BY <2>1, <2>2 DEF Moves, Frame
  <2>3. CASE tracks[t] # Nil
    <3>1. Settled(t) /\ TrackHeld(t) /\ ListedFiles(t)
      BY <2>1, <2>3, NoStraySplit DEF HandlersAgree, FInv
    <3>2. DeleteTrack(q) /\ call[q].track = t
      BY <1>3, <2>1, <2>3, <3>1 DEF Receive, ReceiveUpload, ReceiveOnTrack, Refuse, Handle,
         CreateAudio, CopyAudio, SaveCover, CreateTrack, InsertRow, LoadTrack, OpenFile,
         DeleteTrack, DeleteRow, DeleteAudio, DeleteCover, At, Settled, DeleteSteps
    <3>3. cover[t] = "whole" /\ tracks[t] = row[t] /\ row[q] = row[t]
      BY <1>0, <2>1, <2>3, <3>1, <3>2
      DEF TrackHeld, FileStates, DeleteTrack, At, HandlerHolds
    <3> QED
      BY <2>3, <3>1, <3>2, <3>3 DEF ListedFiles, DeleteTrack, Goto, Taint, CoverWork
  <2>4. CASE tracks[t] = Nil /\ cover[t] = "absent"
    <3>1. SaveCover(q) /\ q = t
      <4>1. ~DeleteCover(q)
        BY <2>4 DEF DeleteCover
      <4>2. cover' # cover
        BY <2>4
      <4>3. SaveCover(q)
        BY <1>3, <4>1, <4>2 DEF Receive, ReceiveUpload, ReceiveOnTrack, Refuse, Handle,
           CreateAudio, CopyAudio, CreateTrack, LoadTrack, OpenFile, DeleteTrack, DeleteAudio
      <4> QED
        BY <2>4, <4>3 DEF SaveCover, SaveBytes
    <3>2. call[t].track = t /\ row[t] \in Row
      BY <1>0, <3>1 DEF SaveCover, At, HandlerAgrees, Active, UploadSteps
    <3>3. row' = [row EXCEPT ![t].cover = TRUE]
      BY <2>1, <2>4, <3>1 DEF SaveCover, SaveBytes, Taint
    <3> QED
      BY <3>1, <3>2, <3>3 DEF SaveCover, Goto, CoverWork, Row
  <2>5. CASE tracks[t] = Nil /\ cover[t] # "absent"
    <3>1. PICK r \in Requests : pc[r] \in CoverWork /\ call[r].track = t /\ row[r].cover
      BY <1>0, <2>1, <2>5 DEF OwnedCover, Working
    <3>2. CASE r = q
      <4>1. CASE DeleteAudio(q)
        BY <3>1, <3>2, <4>1 DEF DeleteAudio, Goto, CoverWork
      <4>2. CASE CreateTrack(q)
        <5>1. call[q].track = q /\ row[q] # Nil
          BY <1>0, <4>2 DEF CreateTrack, At, HandlerAgrees, Active, UploadSteps
        <5> QED
          BY <3>1, <3>2, <4>2, <5>1 DEF CreateTrack, InsertRow, Goto, CoverWork
      <4>3. CASE DeleteCover(q)
        BY <2>1, <3>1, <3>2, <4>3 DEF DeleteCover, Taint
      <4> QED
        BY <1>3, <3>1, <3>2, <4>1, <4>2, <4>3 DEF Receive, ReceiveUpload, ReceiveOnTrack,
           Refuse, Handle, CreateAudio, CopyAudio, SaveCover, LoadTrack, OpenFile,
           DeleteTrack, At, CoverWork
    <3> QED
      BY <2>2, <3>1, <3>2
  <2> QED
    BY <2>3, <2>4, <2>5
<1> QED
  BY <1>1, <1>2, <1>3 DEF Next

-----------------------------------------------------------------------------
\* Only a DELETE takes the row of an acknowledged upload, and its handler has
\* seen that it may.
LEMMA StayStep ==
  ASSUME TypeOK, HandlersAgree, FInv, [Next]_vars, TypeOK'
  PROVE  UploadsStay'
<1> DEFINE Deleted(t) ==
             \E r \in Requests :
                 /\ call[r] # Nil /\ call[r].op = "delete" /\ call[r].track = t
                 /\ call[r].user \in Admins \cup {row[t].owner}
                 /\ pc[r] \notin {"load", "delete_row"}
<1> SUFFICES ASSUME NEW t \in Requests, reply'[t] = 201
             PROVE  (tracks[t] = row[t] \/ Deleted(t))'
  BY DEF UploadsStay
<1> USE DEF TypeOK
<1>0. TrackHeld(t) /\ HandlerAgrees(t) /\ (reply[t] = 201 => tracks[t] = row[t] \/ Deleted(t))
  BY DEF FInv, HandlersAgree, UploadsStay
<1>1. CASE UNCHANGED vars
  BY <1>0, <1>1 DEF vars
<1>2. CASE Crash
  <2>1. UNCHANGED <<tracks, call, row, reply>>
        /\ \A r \in Requests : pc'[r] = IF pc[r] \in Active THEN "killed" ELSE pc[r]
    BY <1>2 DEF Crash
  <2> QED
    BY <1>0, <2>1
<1>3. ASSUME NEW q \in Requests, Receive(q) \/ Handle(q)
      PROVE  (tracks[t] = row[t] \/ Deleted(t))'
  <2>1. Moves(q)
    BY <1>3, StepMoves
  <2>2. CASE reply[t] # 201
    <3>1. CreateTrack(t)
      BY <1>3, <2>1, <2>2 DEF Moves, Frame, Receive, ReceiveUpload, ReceiveOnTrack, Refuse,
         Handle, CreateAudio, CopyAudio, SaveCover, LoadTrack, OpenFile, DeleteTrack,
         DeleteAudio, DeleteCover, FinalCode, Goto, Answer
    <3> QED
      BY <1>0, <2>2, <3>1 DEF CreateTrack, InsertRow, Goto
  <2>3. CASE reply[t] = 201
    <3>1. Settled(t) /\ row'[t] = row[t]
      BY <1>0, <1>3, <2>3, SettledRow DEF TrackHeld, Uploading, Settled
    <3>2. CASE Deleted(t)
      <4>1. PICK r \in Requests :
                /\ call[r] # Nil /\ call[r].op = "delete" /\ call[r].track = t
                /\ call[r].user \in Admins \cup {row[t].owner}
                /\ pc[r] \notin {"load", "delete_row"}
        BY <3>2
      <4>2. pc[r] # "idle"
        BY <4>1 DEF FInv, TrackHeld
      <4>3. call'[r] = call[r] /\ pc'[r] \notin {"load", "delete_row"}
        BY <1>3, <2>1, <4>1, <4>2 DEF Moves, Frame, Receive, ReceiveUpload, ReceiveOnTrack, Refuse,
           Handle, CreateAudio, CopyAudio, SaveCover, CreateTrack, LoadTrack, OpenFile,
           DeleteTrack, DeleteAudio, DeleteCover, Goto, Answer, At
      <4> QED
        BY <3>1, <4>1, <4>3
    <3>3. CASE tracks[t] = row[t] /\ tracks'[t] # tracks[t]
      <4>1. DeleteTrack(q) /\ call[q].track = t
        BY <1>3, <2>1, <3>1, <3>3 DEF Receive, ReceiveUpload, ReceiveOnTrack, Refuse, Handle,
           CreateAudio, CopyAudio, SaveCover, CreateTrack, InsertRow, LoadTrack, OpenFile,
           DeleteTrack, DeleteRow, DeleteAudio, DeleteCover, At, Settled, DeleteSteps
      <4>2. /\ call[q] # Nil /\ call[q].op = "delete" /\ MayDelete(call[q].user, row[q])
            /\ row[q] = row[t]
        BY <4>1 DEF DeleteTrack, At, FInv, HandlersAgree, HandlerHolds, HandlerAgrees, Active
      <4>3. call' = call /\ pc'[q] \in {"delete_audio", "done"}
        BY <3>3, <4>1 DEF DeleteTrack, Goto, Answer
      <4> QED
        BY <3>1, <4>1, <4>2, <4>3 DEF MayDelete
    <3> QED
      BY <1>0, <2>3, <3>1, <3>2, <3>3
  <2> QED
    BY <2>2, <2>3
<1> QED
  BY <1>1, <1>2, <1>3 DEF Next

-----------------------------------------------------------------------------
(* Theorems. *)

\* The invariant is inductive.
LEMMA FilesInvariance == Spec => []FInv
<1>1. TypeOK /\ HandlersAgree /\ FInv /\ [Next]_vars /\ TypeOK' /\ HandlersAgree' => FInv'
  <2> SUFFICES ASSUME TypeOK, HandlersAgree, FInv, [Next]_vars, TypeOK', HandlersAgree'
               PROVE  FInv'
    OBVIOUS
  <2>1. NoStrayFiles'
    BY NoStraySplit, ListedStep, OwnedAudioStep, OwnedCoverStep
    DEF NoStrayFiles, ListedFiles, OwnedAudio, OwnedCover, AudioWork, CoverWork
  <2> QED
    BY <2>1, HeldStep, HoldStep, StayStep DEF FInv
<1>2. IInv => TypeOK /\ HandlersAgree
  BY DEF IInv
<1> QED
  BY InitFiles, Invariance, <1>1, <1>2, PTL DEF Spec

\* Under every combination of faults and for any number of requests: a listed
\* track has the files its row names, and other files have a handler that will
\* list or remove them, but for tracks whose files met a fault in mid-change.
THEOREM FilesMatchRows == Spec => []NoStrayFiles
<1>1. FInv => NoStrayFiles
  BY DEF FInv
<1> QED
  BY FilesInvariance, <1>1, PTL

\* An acknowledged upload is listed until somebody who may delete it has issued
\* the DELETE, whatever fails and whatever else is under way.
THEOREM UploadsAreDurable == Spec => []UploadsStay
<1>1. FInv => UploadsStay
  BY DEF FInv
<1> QED
  BY FilesInvariance, <1>1, PTL

\* A stream that is answered with 200 serves complete audio: an opened track has
\* been listed, and its audio can only have gone since.
THEOREM StreamsAreWhole == Spec => StreamServesWholeFile
<1>1. TypeOK /\ HandlersAgree /\ FInv /\ [Next]_vars =>
          [\A r \in Requests :
               reply[r] = 0 /\ reply'[r] = 200 /\ call[r].op = "stream" =>
                   audio[call[r].track] = "whole"]_vars
  <2> SUFFICES ASSUME TypeOK, HandlersAgree, FInv, Next, NEW r \in Requests,
                      reply[r] = 0, reply'[r] = 200, call[r].op = "stream"
               PROVE  audio[call[r].track] = "whole"
    BY DEF vars
  <2>1. OpenFile(r)
    BY DEF TypeOK, Next, Crash, Receive, ReceiveUpload, ReceiveOnTrack, Refuse, Handle,
       CreateAudio, CopyAudio, SaveCover, CreateTrack, LoadTrack, OpenFile, DeleteTrack,
       DeleteAudio, DeleteCover, FinalCode, Goto, Answer
  <2>2. Settled(call[r].track) /\ audio[call[r].track] # "partial"
    BY <2>1 DEF FInv, HandlerHolds, OpenFile, At
  <2>3. audio[call[r].track] # "absent"
    BY <2>1 DEF OpenFile, Opened, Answer, TypeOK
  <2>4. call[r].track \in Requests
    BY <2>1 DEF OpenFile, At, TypeOK, HandlersAgree, HandlerAgrees, Active, Call
  <2> QED
    BY <2>2, <2>3, <2>4 DEF TypeOK, FileStates
<1>2. IInv => TypeOK /\ HandlersAgree
  BY DEF IInv
<1> QED
  BY FilesInvariance, Invariance, <1>1, <1>2, PTL DEF Spec, StreamServesWholeFile

-----------------------------------------------------------------------------
(* What a delete removes as long as the volume does what it is told. *)

\* There is no cover that the row does not tell of, the audio goes before the
\* cover, and what was removed stays so.
Removed(r) ==
    /\ cover[r] # "absent" => row[r] # Nil /\ row[r].cover
    /\ pc[r] = "delete_cover" => audio[call[r].track] = "absent"
    /\ reply[r] = 204 =>
           audio[call[r].track] = "absent" /\ cover[call[r].track] = "absent"

DInv == \A r \in Requests : Removed(r)

\* The files of a settled upload do not come back.
LEMMA RemovedStays ==
  ASSUME TypeOK, HandlersAgree, NEW q \in Requests, Receive(q) \/ Handle(q),
         NEW t \in Requests, Settled(t)
  PROVE  /\ audio[t] = "absent" => audio'[t] = "absent"
         /\ cover[t] = "absent" => cover'[t] = "absent"
<1> USE DEF TypeOK, At, Settled, DeleteSteps
<1>1. Moves(q)
  BY StepMoves
<1>2. CASE DeleteAudio(q)
  BY <1>2 DEF DeleteAudio
<1>3. CASE DeleteCover(q)
  BY <1>3 DEF DeleteCover
<1>4. CASE ~DeleteAudio(q) /\ ~DeleteCover(q)
  BY <1>1, <1>4 DEF Moves, Frame, Receive, ReceiveUpload, ReceiveOnTrack, Refuse,
     Handle, CreateAudio, CopyAudio, SaveCover, CreateTrack, LoadTrack, OpenFile,
     DeleteTrack
<1> QED
  BY <1>2, <1>3, <1>4

LEMMA OthersRemoved ==
  ASSUME TypeOK, HandlersAgree, FInv, DInv,
         NEW q \in Requests, Receive(q) \/ Handle(q), NEW r \in Requests \ {q}
  PROVE  Removed(r)'
<1>1. Moves(q) /\ Removed(r) /\ HandlerAgrees(r) /\ HandlerAgrees(q)
  BY StepMoves DEF DInv, HandlersAgree
<1>2. pc'[r] = pc[r] /\ call'[r] = call[r] /\ row'[r] = row[r] /\ reply'[r] = reply[r]
  BY <1>1 DEF Moves, Frame
<1>3. cover'[r] # "absent" => cover[r] # "absent"
  <2>1. CASE DeleteCover(q)
    BY <2>1 DEF DeleteCover, TypeOK
  <2>2. CASE ~DeleteCover(q)
    BY <1>1, <2>2 DEF Moves, Receive, ReceiveUpload, ReceiveOnTrack, Refuse, Handle,
       CreateAudio, CopyAudio, SaveCover, CreateTrack, LoadTrack, OpenFile, DeleteTrack,
       DeleteAudio, At
  <2> QED
    BY <2>1, <2>2
<1>4. CASE pc[r] = "delete_cover" \/ reply[r] = 204
  <2>1. PICK t \in Requests : t = call[r].track /\ Settled(t)
    BY <1>1, <1>4 DEF HandlerAgrees, Active, DeleteSteps, TypeOK, Call
  <2>2. /\ audio[t] = "absent" => audio'[t] = "absent"
        /\ cover[t] = "absent" => cover'[t] = "absent"
    BY <2>1, RemovedStays
  <2> QED
    BY <1>1, <1>2, <1>3, <2>1, <2>2 DEF Removed
<1>5. CASE pc[r] # "delete_cover" /\ reply[r] # 204
  BY <1>1, <1>2, <1>3, <1>5 DEF Removed
<1> QED
  BY <1>4, <1>5

LEMMA SelfRemoved ==
  ASSUME "io" \notin Faults, TypeOK, HandlersAgree, FInv, DInv,
         NEW q \in Requests, Receive(q) \/ Handle(q)
  PROVE  Removed(q)'
<1> USE NilAssumption DEF TypeOK, At, Goto, Answer
<1>1. Removed(q) /\ HandlerAgrees(q) /\ HandlerHolds(q) /\ TrackHeld(q)
  BY DEF DInv, HandlersAgree, FInv
<1>2. ~Uploading(q) \/ pc[q] \in UploadSteps \ {"insert"} => cover[q] = "absent"
  BY <1>1 DEF TrackHeld, UploadSteps
<1>3. pc[q] \in Active \cup {"idle"} => reply[q] # 204
  BY <1>1 DEF HandlerAgrees, Active, UploadSteps, DeleteSteps
<1>4. CASE Receive(q)
  <2>1. pc[q] = "idle" /\ ~Uploading(q)
    BY <1>1, <1>4 DEF Receive, ReceiveUpload, ReceiveOnTrack, Refuse, TrackHeld, Uploading
  <2> QED
    BY <1>2, <1>3, <1>4, <2>1 DEF Receive, ReceiveUpload, ReceiveOnTrack, Refuse, Removed
<1>5. CASE CreateAudio(q) \/ CopyAudio(q)
  BY <1>2, <1>3, <1>5 DEF CreateAudio, CopyAudio, Removed, Active, UploadSteps
<1>6. CASE SaveCover(q)
  <2>1. row[q] \in Row /\ cover[q] = "absent" /\ reply[q] # 204
    BY <1>1, <1>2, <1>3, <1>6 DEF SaveCover, HandlerAgrees, Active, UploadSteps
  <2>2. /\ cover' = [cover EXCEPT ![q] = "whole"] /\ pc'[q] = "insert" /\ reply' = reply
        /\ row' = [row EXCEPT ![q].cover = TRUE]
    BY <1>6 DEF SaveCover, SaveBytes
  <2>3. row'[q] # Nil /\ row'[q].cover
    <3>1. row'[q] = [row[q] EXCEPT !.cover = TRUE]
      BY <2>2
    <3>2. row'[q] \in Row /\ row'[q].cover = TRUE
      BY <2>1, <3>1 DEF Row
    <3> QED
      BY <3>2
  <2> QED
    BY <2>1, <2>2, <2>3 DEF Removed
<1>7. CASE CreateTrack(q)
  BY <1>1, <1>3, <1>7 DEF CreateTrack, Removed, Active, UploadSteps
<1>8. CASE LoadTrack(q) \/ OpenFile(q) \/ DeleteTrack(q)
  <2>1. ~Uploading(q)
    BY <1>1, <1>8 DEF LoadTrack, OpenFile, DeleteTrack, HandlerAgrees, Uploading
  <2> QED
    BY <1>2, <1>3, <1>8, <2>1 DEF LoadTrack, OpenFile, DeleteTrack, Removed, Active
<1>9. CASE DeleteAudio(q)
  <2>1. PICK t \in Requests : t = call[q].track
    BY <1>1, <1>9 DEF DeleteAudio, HandlerAgrees, Active, DeleteSteps, Call
  <2>2. row[q] = row[t] /\ Removed(t)
    BY <1>1, <1>9, <2>1 DEF DeleteAudio, HandlerHolds, DeleteSteps, DInv
  <2>3. audio'[t] = "absent" /\ UNCHANGED <<cover, call, row>>
    BY <1>9, <2>1 DEF DeleteAudio
  <2>4. ~row[q].cover => cover[t] = "absent"
    BY <2>2 DEF Removed
  <2>5. IF row[q].cover THEN Goto(q, "delete_cover") ELSE Answer(q, FinalCode(q))
    BY <1>9 DEF DeleteAudio
  <2>6. CASE row[q].cover
    BY <1>1, <1>3, <1>9, <2>1, <2>3, <2>5, <2>6 DEF Removed, DeleteAudio, Active, DeleteSteps
  <2>7. CASE ~row[q].cover
    BY <1>1, <2>1, <2>3, <2>4, <2>5, <2>7 DEF Removed
  <2> QED
    BY <2>6, <2>7
<1>10. CASE DeleteCover(q)
  <2>1. PICK t \in Requests : t = call[q].track
    BY <1>1, <1>10 DEF DeleteCover, HandlerAgrees, Active, DeleteSteps, Call
  <2>2. cover' = [cover EXCEPT ![t] = "absent"] /\ UNCHANGED <<audio, call, row>>
        /\ pc'[q] = "done" /\ audio[t] = "absent"
    BY <1>1, <1>10, <2>1 DEF DeleteCover, Removed
  <2> QED
    BY <1>1, <2>1, <2>2 DEF Removed
<1> QED
  BY <1>4, <1>5, <1>6, <1>7, <1>8, <1>9, <1>10 DEF Handle

\* It takes a removal that fails for a delete to be answered with 204 and leave
\* files: crashes, failing statements, lost replies and other requests on the
\* same track, whatever their number, do not.
THEOREM DeletesAreComplete ==
  ASSUME "io" \notin Faults
  PROVE  Spec => []DeleteRemovesFiles
<1>1. Init => DInv
  <2> SUFFICES ASSUME Init, NEW r \in Requests PROVE Removed(r)
    BY DEF DInv
  <2>1. cover[r] = "absent" /\ pc[r] = "idle" /\ reply[r] = 0
    BY DEF Init
  <2> QED
    BY <2>1 DEF Removed
<1>2. TypeOK /\ HandlersAgree /\ FInv /\ DInv /\ [Next]_vars => DInv'
  <2> SUFFICES ASSUME TypeOK, HandlersAgree, FInv, DInv, [Next]_vars, NEW r \in Requests
               PROVE  Removed(r)'
    BY DEF DInv
  <2>1. CASE UNCHANGED vars
    BY <2>1 DEF vars, DInv, Removed
  <2>2. CASE Crash
    BY <2>2 DEF Crash, TypeOK, DInv, Removed
  <2>3. ASSUME NEW q \in Requests, Receive(q) \/ Handle(q)
        PROVE  Removed(r)'
    BY <2>3, OthersRemoved, SelfRemoved
  <2> QED
    BY <2>1, <2>2, <2>3 DEF Next
<1>3. DInv => DeleteRemovesFiles
  BY DEF DInv, Removed, DeleteRemovesFiles
<1>4. IInv => TypeOK /\ HandlersAgree
  BY DEF IInv
<1> QED
  BY Invariance, FilesInvariance, <1>1, <1>2, <1>3, <1>4, PTL DEF Spec
=============================================================================
