---------------------------- MODULE PlayerProofs ----------------------------
(***************************************************************************)
(* The player's types, and that it plays what it shows, for any library,   *)
(* any queues and any number of clicks.                                    *)
(***************************************************************************)
EXTENDS Player, TLAPS

Sources == Tracks \cup {Nil}

El == Element(Sources, Volumes)

Labels == {"play", "pause", "pause_reject", "end", "ended"}

-----------------------------------------------------------------------------
(* The methods of the element: they return an element, and none but Load     *)
(* changes its source.                                                       *)

LEMMA FreshElement ==
  ASSUME NEW k \in {"none", "audio", "video"}
  PROVE  Fresh(k, Nil, 10) \in El /\ Fresh(k, Nil, 10).kind = k /\ Fresh(k, Nil, 10).src = Nil
  BY VolumesAssumption DEF Fresh, El, Element, Sources

LEMMA FieldElement ==
  ASSUME NEW e \in El, NEW b \in BOOLEAN, NEW w \in Volumes
  PROVE  /\ /\ [e EXCEPT !.rejected = b] \in El
            /\ [e EXCEPT !.rejected = b].kind = e.kind
            /\ [e EXCEPT !.rejected = b].src = e.src
         /\ /\ [e EXCEPT !.far = b] \in El
            /\ [e EXCEPT !.far = b].kind = e.kind
            /\ [e EXCEPT !.far = b].src = e.src
         /\ /\ [e EXCEPT !.volume = w] \in El
            /\ [e EXCEPT !.volume = w].kind = e.kind
            /\ [e EXCEPT !.volume = w].src = e.src
  BY DEF El, Element

LEMMA Queued ==
  ASSUME NEW e \in El, NEW label \in Labels
  PROVE  Append(e.tasks, label) \in Seq(Labels)
  BY DEF El, Element, Labels

LEMMA RejectsBoolean == ASSUME NEW e \in El PROVE Rejects(e) \in BOOLEAN
  BY DEF Rejects, El, Element, Contains

LEMMA LoadElement ==
  ASSUME NEW e \in El, NEW t \in Sources
  PROVE  Load(e, t) \in El /\ Load(e, t).kind = e.kind /\ Load(e, t).src = t
<1>1. PICK b \in BOOLEAN : b = Rejects(e)
  BY RejectsBoolean
<1>2. Load(e, t) = [e EXCEPT !.src = t, !.state = "loading", !.paused = TRUE,
                             !.over = FALSE, !.far = FALSE, !.pending = FALSE,
                             !.rejected = b, !.tasks = <<>>]
  BY <1>1 DEF Load
<1>3. Load(e, t) \in El
  <2>1. <<>> \in Seq(Labels)
    OBVIOUS
  <2>2. PICK s \in Seq(Labels) : s = <<>>
    BY <2>1
  <2>3. Load(e, t) = [e EXCEPT !.src = t, !.state = "loading", !.paused = TRUE,
                               !.over = FALSE, !.far = FALSE, !.pending = FALSE,
                               !.rejected = b, !.tasks = s]
    BY <1>2, <2>2
  <2> QED
    BY <2>3 DEF El, Element, Labels
<1>4. Load(e, t).kind = e.kind /\ Load(e, t).src = t
  BY <1>2 DEF El, Element
<1> QED
  BY <1>3, <1>4

LEMMA PlayElement ==
  ASSUME NEW e \in El
  PROVE  Play(e) \in El /\ Play(e).kind = e.kind /\ Play(e).src = e.src
<1>1. CASE e.state = "broken"
  BY <1>1, FieldElement, VolumesAssumption DEF Play
<1>2. CASE e.state # "broken"
  <2>1. PICK s \in Seq(Labels), f \in BOOLEAN, p \in BOOLEAN :
            /\ s = IF e.paused THEN Append(e.tasks, "play") ELSE e.tasks
            /\ f = (e.far /\ ~e.over)
            /\ p = (e.state # "ready")
    BY Queued DEF El, Element, Labels
  <2>2. Play(e) = [e EXCEPT !.paused = FALSE, !.over = FALSE, !.far = f,
                            !.pending = p, !.tasks = s]
    BY <1>2, <2>1 DEF Play
  <2> QED
    BY <2>2 DEF El, Element, Labels
<1> QED
  BY <1>1, <1>2

LEMMA PauseElement ==
  ASSUME NEW e \in El
  PROVE  Pause(e) \in El /\ Pause(e).kind = e.kind /\ Pause(e).src = e.src
<1>1. CASE e.paused
  BY <1>1 DEF Pause
<1>2. CASE ~e.paused
  <2>1. PICK s \in Seq(Labels) :
            s = Append(e.tasks, IF e.pending THEN "pause_reject" ELSE "pause")
    BY Queued DEF Labels
  <2>2. Pause(e) = [e EXCEPT !.paused = TRUE, !.pending = FALSE, !.tasks = s]
    BY <1>2, <2>1 DEF Pause
  <2> QED
    BY <2>2 DEF El, Element, Labels
<1> QED
  BY <1>1, <1>2

LEMMA SeekElement ==
  ASSUME NEW e \in El, NEW b \in BOOLEAN
  PROVE  Seek(e, b) \in El /\ Seek(e, b).kind = e.kind /\ Seek(e, b).src = e.src
  BY DEF Seek, El, Element

LEMMA SourceElement ==
  ASSUME NEW e \in El
  PROVE  /\ Loaded(e) \in El /\ Loaded(e).kind = e.kind /\ Loaded(e).src = e.src
         /\ LoadFails(e) \in El /\ LoadFails(e).kind = e.kind /\ LoadFails(e).src = e.src
<1>1. PICK b \in BOOLEAN : b = (e.rejected \/ e.pending)
  OBVIOUS
<1>2. LoadFails(e) = [e EXCEPT !.state = "broken", !.pending = FALSE, !.rejected = b]
  BY <1>1 DEF LoadFails
<1> QED
  BY <1>2 DEF Loaded, El, Element

LEMMA ReachEndElement ==
  ASSUME NEW e \in El
  PROVE  ReachEnd(e) \in El /\ ReachEnd(e).kind = e.kind /\ ReachEnd(e).src = e.src
<1>1. PICK s \in Seq(Labels) : s = Append(e.tasks, "end")
  BY Queued DEF Labels
<1>2. ReachEnd(e) = [e EXCEPT !.over = TRUE, !.far = TRUE, !.tasks = s]
  BY <1>1 DEF ReachEnd
<1>3. ReachEnd(e) \in El
  BY <1>2 DEF El, Element, Labels
<1>4. ReachEnd(e).kind = e.kind /\ ReachEnd(e).src = e.src
  BY <1>2 DEF El, Element, Labels
<1> QED
  BY <1>3, <1>4

LEMMA TaskElement ==
  ASSUME NEW e \in El, e.tasks # <<>>
  PROVE  /\ TaskDone(e) \in El /\ TaskDone(e).kind = e.kind /\ TaskDone(e).src = e.src
         /\ AtEnd(e) \in El /\ AtEnd(e).kind = e.kind /\ AtEnd(e).src = e.src
<1>1. PICK s \in Seq(Labels), z \in Seq(Labels) :
          s = Tail(e.tasks) /\ z = <<"ended">> \o Tail(e.tasks)
  <2>1. e.tasks \in Seq(Labels) \ {<<>>} /\ <<"ended">> \in Seq(Labels)
    BY DEF El, Element, Labels
  <2>2. Tail(e.tasks) \in Seq(Labels)
    BY <2>1
  <2>3. <<"ended">> \o Tail(e.tasks) \in Seq(Labels)
    BY <2>1, <2>2
  <2> QED
    BY <2>2, <2>3
<1>2. PICK b \in BOOLEAN, c \in BOOLEAN, d \in BOOLEAN, p \in BOOLEAN :
          /\ b = (e.rejected \/ NextTask(e) = "pause_reject")
          /\ c = (e.rejected \/ (e.pending /\ e.over))
          /\ d = (e.pending /\ ~e.over)
          /\ p = (e.paused \/ e.over)
  OBVIOUS
<1>3. TaskDone(e) = [e EXCEPT !.tasks = s, !.rejected = b]
  BY <1>1, <1>2 DEF TaskDone
<1>4. AtEnd(e) = [e EXCEPT !.paused = p, !.rejected = c, !.pending = d, !.tasks = z]
  BY <1>1, <1>2 DEF AtEnd
<1> QED
  BY <1>3, <1>4 DEF El, Element, Labels

-----------------------------------------------------------------------------
(* The inductive invariant: the element has the source and the tag of the    *)
(* track that was rendered last, and there is a track at the index.          *)

SourceRendered == el.kind = Kind(rendered.track) /\ el.src = rendered.track

IInv == TypeOK /\ IndexInQueue /\ SourceRendered

LEMMA InitInv == Init => IInv
<1> SUFFICES ASSUME Init PROVE IInv
  OBVIOUS
<1>1. el \in El /\ el.kind = "none" /\ el.src = Nil
  BY FreshElement DEF Init
<1>2. Current = Nil /\ Kind(Nil) = "none"
  BY DEF Init, Current, Kind
<1>3. rendered = [track |-> Nil, isPlaying |-> FALSE, volume |-> 8, seekTo |-> Nil]
  BY <1>2 DEF Init, Deps
<1>4. rendered \in [track : Sources, isPlaying : BOOLEAN,
                    volume : Volumes, seekTo : {Nil, TRUE, FALSE}]
  BY <1>3, VolumesAssumption DEF Sources
<1>5. TypeOK
  <2>1. index \in Nat /\ volume \in Volumes /\ prevVolume \in Volumes \ {0}
    BY VolumesAssumption DEF Init
  <2>2. {isPlaying, far, shuffle, repeat, hasty} \subseteq BOOLEAN
    BY DEF Init
  <2>3. clicks \in 0..MaxClicks
    BY ClicksAssumption DEF Init
  <2> QED
    BY <1>1, <1>4, <2>1, <2>2, <2>3 DEF Init, TypeOK, El, Sources
<1> QED
  BY <1>1, <1>2, <1>3, <1>5 DEF Init, IInv, IndexInQueue, SourceRendered

LEMMA CurrentKnown ==
  ASSUME IInv
  PROVE  /\ queue \in Seq(Tracks)
         /\ Current \in Sources
         /\ queue # <<>> => Current \in Tracks
         /\ Current # Nil => queue # <<>>
<1>1. queue \in Seq(Tracks)
  <2>1. CASE queue = <<>>
    BY <2>1
  <2>3. CASE queue \in Queues
    BY <2>3, QueuesAssumption, Zenon
  <2>2. CASE \E t \in Tracks : queue = <<t>>
    BY <2>2
  <2> QED
    BY <2>1, <2>2, <2>3 DEF IInv, TypeOK
<1> QED
  BY <1>1 DEF IInv, IndexInQueue, Current, Sources

LEMMA KindKnown ==
  ASSUME NEW t \in Sources
  PROVE  Kind(t) \in {"none", "audio", "video"} /\ (Kind(t) = "none" <=> t = Nil)
  BY DEF Kind

-----------------------------------------------------------------------------
(* Rendering *)

LEMMA RenderStep == ASSUME IInv, Render PROVE IInv'
<1>1. el \in El /\ Current \in Sources /\ rendered.track \in Sources
      /\ volume \in Volumes /\ isPlaying \in BOOLEAN
  BY CurrentKnown DEF IInv, TypeOK, El, Sources
<1>2. PICK e1 : e1 = Commit
  OBVIOUS
<1>3. /\ e1 \in El /\ e1.kind = Kind(Current)
      /\ Current = rendered.track \/ Current = Nil => e1.src = Current
  <2>1. CASE Kind(Current) = el.kind
    BY <1>1, <1>2, <2>1, KindKnown DEF Commit, IInv, SourceRendered
  <2>2. CASE Kind(Current) # el.kind
    <3>1. Rejects(el) \in BOOLEAN /\ Kind(Current) \in {"none", "audio", "video"}
      BY <1>1, RejectsBoolean, KindKnown
    <3>2. e1 \in El /\ e1.kind = Kind(Current) /\ e1.src = Nil
      <4>1. PICK b \in BOOLEAN : b = Rejects(el)
        BY <3>1
      <4>2. PICK f : f = Fresh(Kind(Current), Nil, 10)
        OBVIOUS
      <4>3. e1 = [f EXCEPT !.rejected = b]
        BY <1>2, <2>2, <4>1, <4>2 DEF Commit
      <4>4. f \in El /\ f.kind = Kind(Current) /\ f.src = Nil
        BY <3>1, <4>2, FreshElement
      <4> QED
        BY <4>3, <4>4, FieldElement, VolumesAssumption
    <3> QED
      BY <2>2, <3>2 DEF IInv, SourceRendered
  <2> QED
    BY <2>1, <2>2
<1>4. PICK e2 : e2 = SourceEffect(e1)
  OBVIOUS
<1>5. e2 \in El /\ e2.kind = Kind(Current) /\ e2.src = Current
  <2>1. CASE Changed("track") /\ Current # Nil
    <3>1. Load(e1, Current) \in El /\ Load(e1, Current).kind = Kind(Current)
          /\ Load(e1, Current).src = Current
      BY <1>1, <1>3, LoadElement
    <3> QED
      BY <1>4, <2>1, <3>1, PlayElement DEF SourceEffect
  <2>2. CASE ~(Changed("track") /\ Current # Nil)
    BY <1>3, <1>4, <2>2 DEF SourceEffect, Changed, Deps
  <2> QED
    BY <2>1, <2>2
<1>6. PICK e3 : e3 = PlayEffect(e2)
  OBVIOUS
<1>7. e3 \in El /\ e3.kind = Kind(Current) /\ e3.src = Current
  BY <1>5, <1>6, PlayElement, PauseElement DEF PlayEffect
<1>8. PICK e4 : e4 = VolumeEffect(e3)
  OBVIOUS
<1>9. e4 \in El /\ e4.kind = Kind(Current) /\ e4.src = Current
  BY <1>1, <1>7, <1>8, FieldElement DEF VolumeEffect
<1>10. el' = SeekEffect(e4)
  BY <1>2, <1>4, <1>6, <1>8 DEF Render
<1>11. el' \in El /\ el'.kind = Kind(Current) /\ el'.src = Current
  <2>1. seekTo # Nil => seekTo \in BOOLEAN
    BY DEF IInv, TypeOK
  <2> QED
    BY <1>9, <1>10, <2>1, SeekElement DEF SeekEffect
<1>12. Current' = Current /\ rendered' = Deps /\ Kind(Current)' = Kind(Current)
  BY DEF Render, songs, Current, Kind
<1>13. rendered' \in [track : Sources, isPlaying : BOOLEAN,
                      volume : Volumes, seekTo : {Nil, TRUE, FALSE}]
       /\ rendered'.track = Current
  BY <1>1, <1>12 DEF Deps, IInv, TypeOK
<1> QED
  BY <1>11, <1>12, <1>13
     DEF Render, IInv, TypeOK, IndexInQueue, SourceRendered, Kind, songs, volumes, modes,
         user, El, Sources

LEMMA RejectedStep == ASSUME IInv, PlayRejected PROVE IInv'
<1>1. el' \in El /\ el'.kind = el.kind /\ el'.src = el.src
  BY FieldElement, VolumesAssumption DEF PlayRejected, IInv, TypeOK, El, Sources
<1> QED
  BY <1>1 DEF PlayRejected, IInv, TypeOK, IndexInQueue, SourceRendered, Kind, songs,
              volumes, modes, user, El, Sources

-----------------------------------------------------------------------------
(* The user                                                                  *)

\* What a click leaves as it is, and what it counts.
LEMMA UserKeeps ==
  ASSUME IInv, User
  PROVE  /\ clicks' \in 0..MaxClicks /\ hasty' \in BOOLEAN
         /\ np' \in {"closed", "queue", "lyrics", "related"}
  BY ClicksAssumption DEF User, IInv, TypeOK

Legal(q) == q = <<>> \/ q \in Queues \/ \E t \in Tracks : q = <<t>>

\* A button changes queue, index, modes and the like, and commands no element.
LEMMA ButtonStep ==
  ASSUME IInv, User, Legal(queue'), index' \in Nat,
         queue' # <<>> => index' \in DOMAIN queue',
         {isPlaying, far, shuffle, repeat}' \subseteq BOOLEAN,
         volume' \in Volumes, prevVolume' \in Volumes \ {0},
         seekTo' \in {Nil, TRUE, FALSE},
         el' = el, rendered' = rendered
  PROVE  IInv'
  BY UserKeeps DEF Legal, IInv, TypeOK, IndexInQueue, SourceRendered, Kind

LEMMA Playable ==
  ASSUME NEW q, q \in Queues \/ \E t \in Tracks : q = <<t>>
  PROVE  /\ Legal(q) /\ q # <<>> /\ 1 \in DOMAIN q
         /\ \A i \in DOMAIN q : i \in Nat
<1>1. CASE q \in Queues
  <2>1. q \in Seq(Tracks) \ {<<>>}
    BY <1>1, QueuesAssumption, Zenon
  <2> QED
    BY <1>1, <2>1 DEF Legal
<1>2. CASE \E t \in Tracks : q = <<t>>
  BY <1>2 DEF Legal
<1> QED
  BY <1>1, <1>2

LEMMA PlayQueueStep ==
  ASSUME IInv, NEW q, q \in Queues \/ \E t \in Tracks : q = <<t>>,
         NEW i \in DOMAIN q, PlayQueue(q, i)
  PROVE  IInv'
  BY Playable, ButtonStep DEF PlayQueue, PlayIndex, volumes, modes, IInv, TypeOK

LEMMA playShuffledStep ==
  ASSUME IInv, NEW q \in Queues, playShuffled(q)
  PROVE  IInv'
  BY Playable, ButtonStep DEF playShuffled, PlayIndex, volumes, IInv, TypeOK

LEMMA SongsKept ==
  ASSUME IInv, UNCHANGED queue
  PROVE  Legal(queue') /\ \A i \in DOMAIN queue : i \in Nat
<1>1. Legal(queue')
  BY DEF Legal, IInv, TypeOK
<1>2. queue \in Seq(Tracks)
  BY CurrentKnown
<1>3. DOMAIN queue = 1..Len(queue) /\ Len(queue) \in Nat
  BY <1>2
<1> QED
  BY <1>1, <1>3

LEMMA JumpToStep == ASSUME IInv, NEW i \in DOMAIN queue, JumpTo(i) PROVE IInv'
  BY SongsKept, ButtonStep DEF JumpTo, PlayIndex, volumes, modes, IInv, TypeOK

LEMMA ToggleStep == ASSUME IInv, Toggle PROVE IInv'
  BY SongsKept, ButtonStep DEF Toggle, songs, volumes, modes, IInv, TypeOK, IndexInQueue

LEMMA NextTrackStep == ASSUME IInv, NextTrack PROVE IInv'
  BY SongsKept, ButtonStep DEF NextTrack, PlayIndex, volumes, modes, IInv, TypeOK

LEMMA PrevStep == ASSUME IInv, Prev PROVE IInv'
<1>1. CASE ~far /\ index > 1
  <2>1. index - 1 \in DOMAIN queue /\ index - 1 \in Nat
    <3>1. queue \in Seq(Tracks) /\ index \in DOMAIN queue
      BY CurrentKnown DEF Prev, IInv, IndexInQueue
    <3>2. DOMAIN queue = 1..Len(queue) /\ Len(queue) \in Nat
      BY <3>1
    <3> QED
      BY <1>1, <3>1, <3>2
  <2> QED
    BY <1>1, <2>1, SongsKept, ButtonStep
       DEF Prev, PlayIndex, volumes, modes, IInv, TypeOK
<1>2. CASE ~(~far /\ index > 1)
  BY <1>2, SongsKept, ButtonStep
     DEF Prev, Restart, volumes, modes, IInv, TypeOK, IndexInQueue
<1> QED
  BY <1>1, <1>2

LEMMA SeekBarStep == ASSUME IInv, NEW beyond \in BOOLEAN, SeekBar(beyond) PROVE IInv'
  BY SongsKept, ButtonStep DEF SeekBar, songs, volumes, modes, IInv, TypeOK, IndexInQueue

LEMMA VolumeStep ==
  ASSUME IInv, ToggleMute \/ \E v \in Volumes : SetVolume(v)
  PROVE  IInv'
<1>1. CASE ToggleMute
  <2>1. volume' \in Volumes
    BY <1>1, VolumesAssumption DEF ToggleMute, IInv, TypeOK
  <2> QED
    BY <1>1, <2>1, SongsKept, ButtonStep
       DEF ToggleMute, songs, modes, IInv, TypeOK, IndexInQueue
<1>2. ASSUME NEW v \in Volumes, SetVolume(v) PROVE IInv'
  <2>1. prevVolume' \in Volumes \ {0}
    BY <1>2, VolumesAssumption DEF SetVolume, IInv, TypeOK
  <2> QED
    BY <1>2, <2>1, SongsKept, ButtonStep
       DEF SetVolume, songs, modes, IInv, TypeOK, IndexInQueue
<1> QED
  BY <1>1, <1>2

LEMMA ToggleModeStep == ASSUME IInv, ToggleMode PROVE IInv'
  BY SongsKept, ButtonStep DEF ToggleMode, songs, volumes, IInv, TypeOK, IndexInQueue

LEMMA MediaKeyStep == ASSUME IInv, MediaKey PROVE IInv'
<1>1. el' \in El /\ el'.kind = el.kind /\ el'.src = el.src
  BY PlayElement, PauseElement DEF MediaKey, IInv, TypeOK, El, Sources
<1> QED
  BY <1>1, UserKeeps DEF MediaKey, IInv, TypeOK, IndexInQueue, SourceRendered, Kind, store,
                         songs, volumes, modes, El, Sources

LEMMA ViewStep == ASSUME IInv, OpenNowPlaying \/ SetTab PROVE IInv'
  BY DEF OpenNowPlaying, SetTab, IInv, TypeOK, IndexInQueue, SourceRendered, Kind, store,
         songs, volumes, modes

-----------------------------------------------------------------------------
(* The element                                                               *)

\* Whatever the element's own steps do to it, its source stays.
LEMMA ElementStep ==
  ASSUME IInv, el' \in El, el'.kind = el.kind, el'.src = el.src,
         Legal(queue'), index' \in Nat, queue' # <<>> => index' \in DOMAIN queue',
         isPlaying' \in BOOLEAN, far' \in BOOLEAN, seekTo' \in {Nil, TRUE, FALSE},
         UNCHANGED <<volumes, modes, rendered, user>>
  PROVE  IInv'
  BY DEF Legal, IInv, TypeOK, IndexInQueue, SourceRendered, Kind, volumes, modes, user,
         El, Sources

LEMMA TaskKnown ==
  ASSUME IInv, NEW label, Event(label)
  PROVE  /\ TaskDone(el) \in El /\ TaskDone(el).kind = el.kind /\ TaskDone(el).src = el.src
         /\ AtEnd(el) \in El /\ AtEnd(el).kind = el.kind /\ AtEnd(el).src = el.src
         /\ el \in El /\ el.over \in BOOLEAN /\ el.far \in BOOLEAN
<1>1. el \in El /\ el.tasks # <<>>
  BY DEF Event, IInv, TypeOK, El, Sources
<1>2. el.over \in BOOLEAN /\ el.far \in BOOLEAN
  BY <1>1 DEF El, Element
<1> QED
  BY <1>1, <1>2, TaskElement

LEMMA HandleStep == ASSUME IInv, HandlePlay \/ HandlePause \/ HandleEnd PROVE IInv'
<1>1. UNCHANGED <<queue, index, seekTo, volumes, modes, rendered, user>>
  BY DEF HandlePlay, HandlePause, HandleEnd, songs
<1>2. Legal(queue') /\ index' \in Nat /\ (queue' # <<>> => index' \in DOMAIN queue')
  BY <1>1, SongsKept DEF IInv, TypeOK, IndexInQueue
<1>3. /\ el' \in El /\ el'.kind = el.kind /\ el'.src = el.src
      /\ isPlaying' \in BOOLEAN /\ far' \in BOOLEAN
  BY TaskKnown DEF HandlePlay, HandlePause, HandleEnd, IInv, TypeOK
<1> QED
  BY <1>1, <1>2, <1>3, ElementStep DEF IInv, TypeOK

LEMMA handleEndedStep == ASSUME IInv, handleEnded PROVE IInv'
<1>1. el' \in El /\ el'.kind = el.kind /\ el'.src = el.src
  BY TaskKnown DEF handleEnded
<1>2. Legal(queue') /\ \A i \in DOMAIN queue : i \in Nat
  BY SongsKept DEF handleEnded
<1>3. /\ index' = index \/ index' \in DOMAIN queue
      /\ isPlaying' \in BOOLEAN /\ far' \in BOOLEAN /\ seekTo' \in {Nil, TRUE, FALSE}
  BY DEF handleEnded, Restart, GoOn, PlayIndex, IInv, TypeOK
<1> QED
  BY <1>1, <1>2, <1>3, ElementStep DEF handleEnded, IInv, TypeOK, IndexInQueue

LEMMA TimeStep == ASSUME IInv, Arrive \/ TimeUpdate \/ Finish PROVE IInv'
<1>1. UNCHANGED <<queue, index, isPlaying, seekTo, volumes, modes, rendered, user>>
  BY DEF Arrive, TimeUpdate, Finish, store, songs
<1>2. Legal(queue') /\ index' \in Nat /\ (queue' # <<>> => index' \in DOMAIN queue')
  BY <1>1, SongsKept DEF IInv, TypeOK, IndexInQueue
<1>3. el \in El
  BY DEF IInv, TypeOK, El, Sources
<1>4. el' \in El /\ el'.kind = el.kind /\ el'.src = el.src
  <2>1. /\ [el EXCEPT !.far = TRUE] \in El /\ [el EXCEPT !.far = TRUE].kind = el.kind
        /\ [el EXCEPT !.far = TRUE].src = el.src
    BY <1>3 DEF El, Element
  <2> QED
    BY <1>3, <2>1, SourceElement, ReachEndElement DEF Arrive, TimeUpdate, Finish
<1>5. el'.far \in BOOLEAN
  BY <1>4 DEF El, Element
<1>6. far' \in BOOLEAN
  BY <1>5 DEF Arrive, TimeUpdate, Finish, store, IInv, TypeOK
<1> QED
  BY <1>1, <1>2, <1>4, <1>6, ElementStep DEF IInv, TypeOK

-----------------------------------------------------------------------------
LEMMA ClickStep == ASSUME IInv, Click PROVE IInv'
<1>1. ASSUME NEW q \in Queues, CollectionView(q) PROVE IInv'
  BY <1>1, ToggleStep, PlayQueueStep, playShuffledStep, Playable
     DEF CollectionView, playCollection
<1>2. CASE PlayerBar
  BY <1>2, ToggleModeStep, PrevStep, ToggleStep, NextTrackStep, VolumeStep, SeekBarStep
     DEF PlayerBar
<1>3. CASE NowPlaying
  <2>1. ASSUME NEW t \in related(Current), PlayTrack(t) PROVE IInv'
    <3>1. 1 \in DOMAIN <<t>>
      OBVIOUS
    <3> QED
      BY <2>1, <3>1, PlayQueueStep DEF PlayTrack, related
  <2> QED
    BY <1>3, <2>1, ToggleModeStep, PrevStep, ToggleStep, NextTrackStep, SeekBarStep,
       JumpToStep DEF NowPlaying
<1> QED
  BY <1>1, <1>2, <1>3, MediaKeyStep DEF Click

LEMMA StepInv == IInv /\ [Next]_vars => IInv'
<1> SUFFICES ASSUME IInv, [Next]_vars PROVE IInv'
  OBVIOUS
<1>1. CASE UNCHANGED vars
  BY <1>1 DEF vars, store, songs, volumes, modes, user, IInv, TypeOK, IndexInQueue,
              SourceRendered, Kind
<1>2. CASE Next
  BY <1>2, ClickStep, ViewStep, RenderStep, RejectedStep, HandleStep, handleEndedStep,
     TimeStep DEF Next, React, HandleTask
<1> QED
  BY <1>1, <1>2

LEMMA AlwaysInv == Spec => []IInv
  BY InitInv, StepInv, PTL DEF Spec

\* Type correctness of the store, the element and what the effects have seen.
THEOREM TypeCorrect == Spec => []TypeOK
<1>1. IInv => TypeOK
  BY DEF IInv
<1> QED
  BY AlwaysInv, <1>1, PTL

\* Buttons, modes and the ends of tracks keep the index in the queue, for queues
\* of any length and any number of clicks.
THEOREM IndexStaysInQueue == Spec => []IndexInQueue
<1>1. IInv => IndexInQueue
  BY DEF IInv
<1> QED
  BY AlwaysInv, <1>1, PTL

\* What the bar shows is what the element has, in the right tag, for any library
\* of songs and videos and whatever the element does in between.
THEOREM ShownIsLoaded == Spec => []PlaysWhatIsShown
<1>1. IInv => PlaysWhatIsShown
  BY DEF IInv, SourceRendered, PlaysWhatIsShown, Deps
<1> QED
  BY AlwaysInv, <1>1, PTL

-----------------------------------------------------------------------------
(* The button.  The last event in the element's queue tells whether it is    *)
(* paused; an end comes first in the queue, as the element was at rest then. *)
(* Once that event has been handled the store agrees with the element, and   *)
(* when none is to come that tells, it agrees by now.                        *)

LastTask(e) == e.tasks[Len(e.tasks)]

Orderly(e) ==
    /\ \A i \in 2..Len(e.tasks) : e.tasks[i] \notin {"end", "ended"}
    /\ e.tasks # <<>> =>
           /\ LastTask(e) = "play" => ~e.paused /\ ~e.over
           /\ LastTask(e) \in {"pause", "pause_reject"} => e.paused

\* No event to come sets isPlaying to what the element does.
Quiet(e) == e.tasks # <<>> => LastTask(e) \in {"end", "ended"}

Agrees(e) == (e.rejected => ~isPlaying) /\ Quiet(e) => isPlaying = ~e.paused

Agreed == rendered.isPlaying = isPlaying => Agrees(el)

\* Until the first track is played nothing happens at all.
Unstarted == queue = <<>> => el = Fresh("none", Nil, 10) /\ ~isPlaying

BInv == Orderly(el) /\ Agreed /\ Unstarted

LEMMA FreshQuiet ==
  ASSUME NEW k, NEW b
  PROVE  /\ Orderly([Fresh(k, Nil, 10) EXCEPT !.rejected = b])
         /\ Orderly(Fresh(k, Nil, 10))
  BY DEF Fresh, Orderly

LEMMA InitButton == Init => BInv
<1> SUFFICES ASSUME Init PROVE BInv
  OBVIOUS
<1>1. el.tasks = <<>> /\ el.paused = TRUE
  BY DEF Init, Fresh
<1> QED
  BY <1>1, FreshQuiet DEF Init, BInv, Agreed, Agrees, Unstarted

\* The same element as far as playing goes.
Alike(e, f) ==
    /\ f.paused = e.paused /\ f.tasks = e.tasks /\ f.rejected = e.rejected
    /\ f.over = e.over \/ ~f.over

LEMMA AlikeKeeps ==
  ASSUME NEW e, NEW f, Alike(e, f), e.over \in BOOLEAN
  PROVE  (Orderly(e) => Orderly(f)) /\ (Agrees(e) => Agrees(f))
  BY DEF Alike, Orderly, Agrees, Quiet, LastTask

LEMMA LoadOrderly ==
  ASSUME NEW e \in El, NEW t \in Sources
  PROVE  /\ Orderly(Load(e, t)) /\ Load(e, t).paused = TRUE
         /\ Load(e, t).state = "loading" /\ Load(e, t).tasks = <<>>
<1>1. Load(e, t).tasks = <<>> /\ Load(e, t).paused = TRUE /\ Load(e, t).state = "loading"
  BY DEF Load, El, Element
<1> QED
  BY <1>1 DEF Orderly

LEMMA AppendOrderly ==
  ASSUME NEW s \in Seq(Labels), NEW label \in {"play", "pause", "pause_reject"}, NEW z,
         z = Append(s, label),
         \A i \in 2..Len(s) : s[i] \notin {"end", "ended"}
  PROVE  /\ z # <<>> /\ z[Len(z)] = label
         /\ \A i \in 2..Len(z) : z[i] \notin {"end", "ended"}
<1>1. Len(z) = Len(s) + 1 /\ Len(s) \in Nat /\ z[Len(z)] = label
      /\ \A i \in 1..Len(s) : z[i] = s[i]
  OBVIOUS
<1>2. z # <<>>
  OBVIOUS
<1>3. ASSUME NEW i \in 2..Len(z) PROVE z[i] \notin {"end", "ended"}
  <2>1. i \in 2..Len(s) \/ i = Len(z)
    BY <1>1
  <2> QED
    BY <1>1, <2>1
<1> QED
  BY <1>1, <1>2, <1>3

LEMMA PlayOrderly ==
  ASSUME NEW e \in El, Orderly(e)
  PROVE  /\ Orderly(Play(e))
         /\ e.state = "broken" => Play(e).rejected = TRUE
         /\ e.state # "broken" => Play(e).paused = FALSE
<1>1. CASE e.state = "broken"
  <2>1. Play(e) = [e EXCEPT !.rejected = TRUE]
    BY <1>1 DEF Play
  <2>2. /\ Play(e).rejected = TRUE /\ Play(e).paused = e.paused
        /\ Play(e).tasks = e.tasks /\ Play(e).over = e.over
    BY <2>1 DEF El, Element
  <2> QED
    BY <1>1, <2>2 DEF Orderly, LastTask
<1>2. CASE e.state # "broken" /\ e.paused
  <2>1. PICK s \in Seq(Labels) : s = Append(e.tasks, "play")
    BY Queued DEF Labels
  <2>2. Play(e).paused = FALSE /\ Play(e).over = FALSE /\ Play(e).tasks = s
    BY <1>2, <2>1 DEF Play, El, Element
  <2>3. e.tasks \in Seq(Labels)
    BY DEF El, Element, Labels
  <2> QED
    BY <1>2, <2>1, <2>2, <2>3, AppendOrderly DEF Orderly, LastTask
<1>3. CASE e.state # "broken" /\ ~e.paused
  <2>1. Play(e).paused = FALSE /\ Play(e).over = FALSE /\ Play(e).tasks = e.tasks
    BY <1>3 DEF Play, El, Element
  <2> QED
    BY <1>3, <2>1 DEF Orderly, LastTask
<1> QED
  BY <1>1, <1>2, <1>3

LEMMA PauseOrderly ==
  ASSUME NEW e \in El, Orderly(e)
  PROVE  Orderly(Pause(e)) /\ Pause(e).paused = TRUE /\ Pause(e).rejected = e.rejected
<1>1. CASE e.paused
  BY <1>1 DEF Pause, El, Element
<1>2. CASE ~e.paused
  <2>1. PICK label \in {"pause", "pause_reject"} :
            label = IF e.pending THEN "pause_reject" ELSE "pause"
    OBVIOUS
  <2>2. PICK s \in Seq(Labels) : s = Append(e.tasks, label)
    BY Queued DEF Labels
  <2>3. Pause(e) = [e EXCEPT !.paused = TRUE, !.pending = FALSE, !.tasks = s]
    BY <1>2, <2>1, <2>2 DEF Pause
  <2>4. Pause(e).paused = TRUE /\ Pause(e).tasks = s /\ Pause(e).rejected = e.rejected
    BY <2>3 DEF El, Element
  <2>5. e.tasks \in Seq(Labels)
    BY DEF El, Element, Labels
  <2> QED
    BY <2>2, <2>4, <2>5, AppendOrderly DEF Orderly, LastTask
<1> QED
  BY <1>1, <1>2

LEMMA FieldAlike ==
  ASSUME NEW e \in El, NEW b \in BOOLEAN, NEW w \in Volumes
  PROVE  /\ Alike(e, Seek(e, b)) /\ Alike(e, [e EXCEPT !.volume = w])
         /\ Alike(e, [e EXCEPT !.far = b]) /\ e.over \in BOOLEAN
         /\ Alike(e, Loaded(e))
  BY DEF Alike, Seek, Loaded, El, Element

-----------------------------------------------------------------------------
LEMMA RenderButton == ASSUME IInv, BInv, Render PROVE BInv'
<1>1. /\ el \in El /\ Current \in Sources /\ volume \in Volumes
      /\ isPlaying \in BOOLEAN /\ el.over \in BOOLEAN
  BY CurrentKnown DEF IInv, TypeOK, El, Element, Sources
<1>2. queue' = queue /\ isPlaying' = isPlaying /\ rendered' = Deps
  BY DEF Render, songs
<1>3. PICK e1 : e1 = Commit
  OBVIOUS
<1>4. PICK e2 : e2 = SourceEffect(e1)
  OBVIOUS
<1>5. PICK e3 : e3 = PlayEffect(e2)
  OBVIOUS
<1>6. PICK e4 : e4 = VolumeEffect(e3)
  OBVIOUS
<1>7. el' = SeekEffect(e4)
  BY <1>3, <1>4, <1>5, <1>6 DEF Render
<1>8. CASE Current = Nil
  <2>1. queue = <<>>
    BY <1>8, CurrentKnown, NilAssumption
  <2>2. el.kind = "none" /\ Kind(Current) = "none" /\ el = Fresh("none", Nil, 10)
    BY <1>8, <2>1 DEF BInv, Unstarted, Fresh, Kind
  <2>3. e1 = el /\ e2 = el /\ e3 = el
    BY <1>3, <1>4, <1>5, <1>8, <2>2 DEF Commit, SourceEffect, PlayEffect
  <2>4. el' = el
    BY <1>6, <1>7, <2>2, <2>3 DEF VolumeEffect, SeekEffect
  <2>5. el.tasks = <<>> /\ el.paused = TRUE
    BY <2>2 DEF Fresh
  <2> QED
    BY <1>1, <1>2, <2>1, <2>4, <2>5 DEF BInv, Orderly, Agreed, Agrees, Unstarted
<1>9. CASE Current # Nil
  <2>1. e1 \in El /\ Orderly(e1) /\ (~Changed("track") => e1 = el)
    <3>1. CASE Kind(Current) = el.kind
      BY <1>1, <1>3, <3>1 DEF Commit, BInv
    <3>2. CASE Kind(Current) # el.kind
      <4>1. PICK b \in BOOLEAN : b = Rejects(el)
        BY <1>1, RejectsBoolean
      <4>2. e1 = [Fresh(Kind(Current), Nil, 10) EXCEPT !.rejected = b]
        BY <1>3, <3>2, <4>1 DEF Commit
      <4>3. PICK f : f = Fresh(Kind(Current), Nil, 10)
        OBVIOUS
      <4>4. f \in El
        BY <1>1, <4>3, FreshElement, KindKnown
      <4>5. e1 \in El /\ Orderly(e1)
        BY <4>2, <4>3, <4>4, FieldElement, FreshQuiet, VolumesAssumption
      <4> QED
        BY <3>2, <4>5 DEF Changed, Deps, IInv, SourceRendered
    <3> QED
      BY <3>1, <3>2
  <2>2. PICK l : l = Load(e1, Current)
    OBVIOUS
  <2>3. l \in El /\ Orderly(l) /\ l.paused = TRUE /\ l.state = "loading"
    BY <1>1, <2>1, <2>2, LoadElement, LoadOrderly
  <2>4. /\ e2 \in El /\ Orderly(e2)
        /\ ~Changed("track") => e2 = el
        /\ Changed("track") => e2.paused = ~isPlaying
    <3>1. CASE Changed("track") /\ isPlaying
      BY <1>4, <1>9, <2>2, <2>3, <3>1, PlayElement, PlayOrderly DEF SourceEffect
    <3>2. CASE Changed("track") /\ ~isPlaying
      BY <1>4, <1>9, <2>2, <2>3, <3>2 DEF SourceEffect
    <3>3. CASE ~Changed("track")
      BY <1>4, <2>1, <3>3 DEF SourceEffect
    <3> QED
      BY <3>1, <3>2, <3>3
  <2>5. e3 \in El /\ Orderly(e3) /\ Agrees(e3)
    <3>1. CASE Changed("isPlaying") /\ isPlaying
      BY <1>5, <1>9, <2>4, <3>1, PlayElement, PlayOrderly DEF PlayEffect, Agrees
    <3>2. CASE Changed("isPlaying") /\ ~isPlaying
      BY <1>1, <1>5, <1>9, <2>4, <3>2, PauseElement, PauseOrderly DEF PlayEffect, Agrees
    <3>3. CASE ~Changed("isPlaying")
      <4>1. e3 = e2 /\ rendered.isPlaying = isPlaying
        BY <1>5, <3>3 DEF PlayEffect, Changed, Deps
      <4> QED
        BY <1>1, <2>4, <4>1 DEF BInv, Agreed, Agrees
    <3> QED
      BY <3>1, <3>2, <3>3
  <2>6. e4 \in El /\ Orderly(e4) /\ Agrees(e4)
    BY <1>1, <1>6, <2>5, FieldElement, FieldAlike, AlikeKeeps DEF VolumeEffect
  <2>7. seekTo # Nil => seekTo \in BOOLEAN
    BY DEF IInv, TypeOK
  <2>8. Orderly(el') /\ Agrees(el')
    BY <1>1, <1>7, <2>6, <2>7, FieldAlike, AlikeKeeps DEF SeekEffect
  <2>9. queue # <<>>
    BY <1>9 DEF Current
  <2> QED
    BY <1>2, <2>8, <2>9 DEF BInv, Orderly, LastTask, Agreed, Agrees, Quiet, Unstarted
<1> QED
  BY <1>8, <1>9

LEMMA RejectedButton == ASSUME IInv, BInv, PlayRejected PROVE BInv'
<1>1. /\ el'.tasks = el.tasks /\ el'.paused = el.paused /\ el'.over = el.over
      /\ isPlaying' = FALSE /\ rendered' = rendered /\ queue' = queue
      /\ rendered.isPlaying = isPlaying /\ el.rejected
  BY DEF PlayRejected, Deps, songs, IInv, TypeOK, Element
<1>2. queue # <<>>
  BY <1>1 DEF BInv, Unstarted, Fresh
<1> QED
  BY <1>1, <1>2 DEF BInv, Orderly, LastTask, Agreed, Agrees, Quiet, Unstarted

\* A button that leaves the element alone.
LEMMA ButtonButton ==
  ASSUME IInv, BInv, Ready, el' = el, rendered' = rendered,
         queue' # <<>> \/ (queue' = queue /\ ~isPlaying')
  PROVE  BInv'
  BY DEF Ready, Deps, BInv, Orderly, LastTask, Agreed, Agrees, Quiet, Unstarted

LEMMA MediaKeyButton == ASSUME IInv, BInv, MediaKey PROVE BInv'
<1>1. /\ el \in El /\ el.kind # "none" /\ isPlaying' = isPlaying /\ queue' = queue
      /\ rendered' = rendered /\ rendered.isPlaying = isPlaying /\ ~el.rejected
      /\ el.rejected \in BOOLEAN
  BY DEF MediaKey, User, Ready, Deps, store, songs, IInv, TypeOK, El, Element, Sources
<1>2. queue # <<>>
  BY <1>1 DEF BInv, Unstarted, Fresh
<1>3. Orderly(el')
  BY <1>1, PlayOrderly, PauseOrderly DEF MediaKey, BInv
<1>4. (el'.rejected => ~isPlaying) /\ Quiet(el') => isPlaying = ~el'.paused
  <2>1. CASE el.paused /\ el.state = "broken"
    <3>1. el' = [el EXCEPT !.rejected = TRUE]
      BY <2>1 DEF MediaKey, Play
    <3>2. el'.paused = el.paused /\ el'.tasks = el.tasks
      BY <1>1, <3>1 DEF El, Element
    <3> QED
      BY <1>1, <3>2 DEF BInv, Agreed, Agrees, Quiet, LastTask
  <2>2. PICK label \in {"play", "pause", "pause_reject"} :
            label = IF el.paused THEN "play"
                    ELSE IF el.pending THEN "pause_reject" ELSE "pause"
    OBVIOUS
  <2>3. PICK z \in Seq(Labels) : z = Append(el.tasks, label)
    BY <1>1, Queued DEF Labels
  <2>4. CASE ~(el.paused /\ el.state = "broken")
    <3>1. el'.tasks = z
      BY <1>1, <2>2, <2>3, <2>4 DEF MediaKey, Play, Pause, El, Element
    <3>2. el.tasks \in Seq(Labels)
      BY <1>1 DEF El, Element, Labels
    <3>3. ~Quiet(el')
      BY <1>1, <2>3, <3>1, <3>2, AppendOrderly DEF Quiet, LastTask, BInv, Orderly
    <3> QED
      BY <3>3
  <2> QED
    BY <2>1, <2>4
<1> QED
  BY <1>1, <1>2, <1>3, <1>4 DEF BInv, Orderly, LastTask, Agreed, Agrees, Quiet, Unstarted

LEMMA ClickButton == ASSUME IInv, BInv, Click PROVE BInv'
<1>1. ASSUME NEW q \in Queues, CollectionView(q) PROVE BInv'
  <2>1. ASSUME NEW i \in DOMAIN q, PlayQueue(q, i) PROVE BInv'
    BY <1>1, <2>1, Playable, ButtonButton DEF PlayQueue, User
  <2>2. CASE playShuffled(q)
    BY <2>2, Playable, ButtonButton DEF playShuffled, User
  <2>3. CASE Toggle
    BY <2>3, CurrentKnown, ButtonButton DEF Toggle, User, songs
  <2> QED
    BY <1>1, <2>1, <2>2, <2>3, Playable DEF CollectionView, playCollection
<1>2. CASE ToggleMode \/ Prev \/ Toggle \/ ToggleMute
           \/ (\E beyond \in BOOLEAN : SeekBar(beyond))
           \/ (\E v \in Volumes : SetVolume(v))
  BY <1>2, CurrentKnown, ButtonButton
     DEF ToggleMode, Prev, Toggle, ToggleMute, SeekBar, SetVolume, User, songs
<1>3. CASE NextTrack \/ \E i \in DOMAIN queue : JumpTo(i)
  <2>1. queue # <<>> /\ queue' = queue /\ el' = el /\ rendered' = rendered /\ Ready
    BY <1>3 DEF NextTrack, JumpTo, User
  <2> QED
    BY <2>1, ButtonButton
<1>4. ASSUME NEW t \in related(Current), PlayTrack(t) PROVE BInv'
  BY <1>4, ButtonButton DEF PlayTrack, PlayQueue, User
<1> QED
  BY <1>1, <1>2, <1>3, <1>4, MediaKeyButton DEF Click, PlayerBar, NowPlaying

\* Handling an event leaves the later ones in order.
LEMMA TaskOrderly ==
  ASSUME NEW e \in El, Orderly(e), e.tasks # <<>>
  PROVE  /\ Orderly(TaskDone(e)) /\ Orderly(AtEnd(e))
         /\ TaskDone(e).paused = e.paused
         /\ TaskDone(e).tasks # <<>> => ~Quiet(TaskDone(e))
         /\ TaskDone(e).tasks = <<>> => Len(e.tasks) = 1 /\ LastTask(e) = NextTask(e)
         /\ Quiet(AtEnd(e)) => Len(e.tasks) = 1 /\ LastTask(e) = NextTask(e)
<1>1. PICK s \in Seq(Labels) \ {<<>>} : s = e.tasks
  BY DEF El, Element, Labels
<1>2. PICK z \in Seq(Labels) : z = Tail(s)
  <2>1. Tail(s) \in Seq(Labels)
    OBVIOUS
  <2> QED
    BY <2>1
<1>3. /\ Len(z) = Len(s) - 1 /\ Len(s) \in Nat \ {0}
      /\ \A i \in 1..Len(z) : z[i] = s[i + 1]
  BY <1>1, <1>2
<1>4. PICK y \in Seq(Labels) : y = <<"ended">> \o z
  <2>1. <<"ended">> \in Seq(Labels)
    BY DEF Labels
  <2>2. <<"ended">> \o z \in Seq(Labels)
    BY <2>1
  <2> QED
    BY <2>2
<1>5. /\ Len(y) = Len(s) /\ y[1] = "ended"
      /\ \A i \in 2..Len(y) : y[i] = s[i]
  BY <1>1, <1>2, <1>3, <1>4
<1>6. \A i \in 2..Len(s) : s[i] \notin {"end", "ended"}
  BY <1>1 DEF Orderly
<1>7. TaskDone(e).tasks = z /\ TaskDone(e).paused = e.paused /\ TaskDone(e).over = e.over
  BY <1>1, <1>2 DEF TaskDone, El, Element
<1>8. AtEnd(e).tasks = y /\ AtEnd(e).paused = (e.paused \/ e.over) /\ AtEnd(e).over = e.over
  BY <1>1, <1>2, <1>4 DEF AtEnd, El, Element
<1>9. e.paused \in BOOLEAN /\ e.over \in BOOLEAN
  BY DEF El, Element
<1>10. \A i \in 1..Len(z) : z[i] \notin {"end", "ended"}
  BY <1>3, <1>6
<1>11. z # <<>> => z[Len(z)] = s[Len(s)] /\ Len(s) > 1
  BY <1>3
<1>12. Len(s) > 1 => y[Len(y)] = s[Len(s)] /\ s[Len(s)] \notin {"end", "ended"}
  BY <1>5, <1>6
<1>13. Len(s) = 1 => y[Len(y)] = "ended" /\ s[Len(s)] = Head(s)
  BY <1>1, <1>5
<1>14. z = <<>> => Len(s) = 1
  BY <1>3
<1>15. y # <<>>
  BY <1>3, <1>5
<1>16. Orderly(TaskDone(e))
  BY <1>1, <1>7, <1>10, <1>11 DEF Orderly, LastTask
<1>17. Orderly(AtEnd(e))
  BY <1>1, <1>3, <1>5, <1>6, <1>8, <1>9, <1>12, <1>13 DEF Orderly, LastTask
<1>18. TaskDone(e).tasks # <<>> => ~Quiet(TaskDone(e))
  BY <1>3, <1>7, <1>10 DEF Quiet, LastTask
<1>19. Quiet(AtEnd(e)) => Len(e.tasks) = 1
  <2>1. AtEnd(e).tasks = y
    BY <1>8
  <2>2. Quiet(AtEnd(e)) => y[Len(y)] \in {"end", "ended"}
    BY <1>15, <2>1 DEF Quiet, LastTask
  <2>3. ~(Len(s) > 1) => Len(s) = 1
    BY <1>3
  <2>4. Len(s) > 1 => ~Quiet(AtEnd(e))
    BY <1>12, <2>2, Zenon
  <2> QED
    BY <1>1, <2>3, <2>4, Zenon
<1> QED
  BY <1>1, <1>7, <1>13, <1>14, <1>16, <1>17, <1>18, <1>19 DEF LastTask, NextTask

LEMMA EventKnown ==
  ASSUME IInv, BInv, NEW label, Event(label)
  PROVE  /\ el \in El /\ Orderly(el) /\ el.tasks # <<>> /\ NextTask(el) = label
         /\ Agrees(el) /\ ~el.rejected /\ rendered.isPlaying = isPlaying
         /\ isPlaying \in BOOLEAN /\ el.paused \in BOOLEAN /\ el.over \in BOOLEAN
         /\ queue # <<>>
<1>1. /\ el \in El /\ Orderly(el) /\ el.tasks # <<>> /\ NextTask(el) = label
      /\ ~el.rejected /\ rendered.isPlaying = isPlaying /\ isPlaying \in BOOLEAN
  BY DEF Event, Ready, Deps, BInv, IInv, TypeOK, El, Sources
<1>2. Agrees(el)
  BY <1>1 DEF BInv, Agreed
<1>3. queue # <<>>
  BY <1>1 DEF BInv, Unstarted, Fresh
<1> QED
  BY <1>1, <1>2, <1>3 DEF El, Element

\* The last event has set isPlaying to what the element does.
LEMMA HandleButton == ASSUME IInv, BInv, HandlePlay \/ HandlePause PROVE BInv'
<1>1. PICK label \in {"play", "pause", "pause_reject"} :
          /\ Event(label) /\ isPlaying' = (label = "play")
  BY DEF HandlePlay, HandlePause
<1>2. el' = TaskDone(el) /\ queue' = queue /\ rendered' = rendered
  BY DEF HandlePlay, HandlePause, songs
<1>3. Orderly(el') /\ el'.paused = el.paused /\ queue # <<>>
  BY <1>1, <1>2, EventKnown, TaskOrderly
<1>4. CASE el'.tasks # <<>>
  <2>1. ~Quiet(el')
    BY <1>1, <1>2, <1>4, EventKnown, TaskOrderly
  <2> QED
    BY <1>2, <1>3, <2>1 DEF BInv, Orderly, LastTask, Agreed, Agrees, Quiet, Unstarted
<1>5. CASE el'.tasks = <<>>
  <2>1. LastTask(el) = label
    BY <1>1, <1>2, <1>5, EventKnown, TaskOrderly
  <2>2. label = "play" <=> ~el.paused
    BY <1>1, <2>1, EventKnown DEF Orderly
  <2>3. isPlaying' = ~el'.paused
    BY <1>1, <1>3, <2>2, EventKnown
  <2> QED
    BY <1>2, <1>3, <2>3 DEF BInv, Orderly, LastTask, Agreed, Agrees, Quiet, Unstarted
<1> QED
  BY <1>4, <1>5

LEMMA HandleEndButton == ASSUME IInv, BInv, HandleEnd PROVE BInv'
<1>1. /\ Event("end") /\ el' = AtEnd(el) /\ queue' = queue /\ rendered' = rendered
      /\ isPlaying' = IF el.over THEN FALSE ELSE isPlaying
  BY DEF HandleEnd, songs
<1>2. Orderly(el') /\ queue # <<>>
  BY <1>1, EventKnown, TaskOrderly
<1>3. el'.paused = (el.paused \/ el.over)
  BY <1>1, EventKnown DEF AtEnd, El, Element
<1>4. Quiet(el') => isPlaying = ~el.paused
  <2>1. Quiet(el') => LastTask(el) = "end"
    BY <1>1, EventKnown, TaskOrderly
  <2> QED
    BY <1>1, <2>1, EventKnown DEF Agrees, Quiet
<1>5. Quiet(el') => isPlaying' = ~el'.paused
  BY <1>1, <1>3, <1>4, EventKnown
<1> QED
  BY <1>1, <1>2, <1>5 DEF BInv, Orderly, LastTask, Agreed, Agrees, Quiet, Unstarted

LEMMA handleEndedButton == ASSUME IInv, BInv, handleEnded PROVE BInv'
<1>1. Event("ended") /\ el' = TaskDone(el) /\ queue' = queue /\ rendered' = rendered
  BY DEF handleEnded
<1>2. Orderly(el') /\ el'.paused = el.paused /\ queue # <<>>
  BY <1>1, EventKnown, TaskOrderly
<1>3. CASE el'.tasks # <<>>
  <2>1. ~Quiet(el')
    BY <1>1, <1>3, EventKnown, TaskOrderly
  <2> QED
    BY <1>1, <1>2, <2>1 DEF BInv, Orderly, LastTask, Agreed, Agrees, Quiet, Unstarted
<1>4. CASE el'.tasks = <<>>
  <2>1. LastTask(el) = "ended"
    BY <1>1, <1>4, EventKnown, TaskOrderly
  <2>2. isPlaying = ~el'.paused /\ rendered.isPlaying = isPlaying
    BY <1>1, <1>2, <2>1, EventKnown DEF Agrees, Quiet
  <2> QED
    BY <1>1, <1>2, <2>2 DEF BInv, Orderly, LastTask, Agreed, Agrees, Quiet, Unstarted
<1> QED
  BY <1>3, <1>4

LEMMA TimeButton == ASSUME IInv, BInv, Arrive \/ TimeUpdate \/ Finish PROVE BInv'
<1>1. UNCHANGED <<queue, isPlaying, rendered>>
  BY DEF Arrive, TimeUpdate, Finish, store, songs
<1>2. /\ el \in El /\ el.over \in BOOLEAN /\ el.paused \in BOOLEAN /\ ~el.rejected
      /\ isPlaying \in BOOLEAN /\ Orderly(el) /\ Agrees(el)
  BY DEF Arrive, TimeUpdate, Finish, AtRest, Ready, Deps, BInv, Agreed, IInv, TypeOK, El,
         Element, Sources
<1>3. queue # <<>>
  BY DEF Arrive, TimeUpdate, Finish, BInv, Unstarted, Fresh
<1>4. CASE Alike(el, el')
  BY <1>1, <1>2, <1>3, <1>4, AlikeKeeps
     DEF BInv, Orderly, LastTask, Agreed, Agrees, Quiet, Unstarted
<1>5. CASE el' = LoadFails(el)
  <2>1. el'.tasks = el.tasks /\ el'.paused = el.paused /\ el'.over = el.over
    BY <1>2, <1>5 DEF LoadFails, El, Element
  <2> QED
    BY <1>1, <1>2, <1>3, <2>1
       DEF BInv, Orderly, LastTask, Agreed, Agrees, Quiet, Unstarted
<1>6. CASE Finish
  <2>1. el.tasks = <<>> /\ el' = ReachEnd(el)
    BY <1>6 DEF Finish, AtRest
  <2>2. PICK z \in Seq(Labels) : z = Append(el.tasks, "end")
    BY <1>2, Queued DEF Labels
  <2>3. el'.tasks = z /\ el'.paused = el.paused
    BY <1>2, <2>1, <2>2 DEF ReachEnd, El, Element
  <2>4. Len(z) = 1 /\ z[1] = "end"
    BY <2>1, <2>2
  <2>5. Orderly(el')
    BY <2>3, <2>4 DEF Orderly, LastTask
  <2>6. isPlaying = ~el'.paused
    BY <1>2, <2>1, <2>3 DEF Agrees, Quiet
  <2> QED
    BY <1>1, <1>3, <2>5, <2>6
       DEF BInv, Orderly, LastTask, Agreed, Agrees, Quiet, Unstarted
<1>7. Alike(el, el') \/ el' = LoadFails(el) \/ Finish
  <2>1. Alike(el, el) /\ Alike(el, Loaded(el)) /\ Alike(el, [el EXCEPT !.far = TRUE])
    BY <1>2, FieldAlike, VolumesAssumption DEF Alike
  <2> QED
    BY <2>1 DEF Arrive, TimeUpdate
<1> QED
  BY <1>4, <1>5, <1>6, <1>7

LEMMA StepButton == IInv /\ BInv /\ [Next]_vars => BInv'
<1> SUFFICES ASSUME IInv, BInv, [Next]_vars PROVE BInv'
  OBVIOUS
<1>1. CASE UNCHANGED vars \/ OpenNowPlaying \/ SetTab
  <2>1. UNCHANGED <<queue, isPlaying, rendered, el>>
    BY <1>1 DEF vars, store, songs, OpenNowPlaying, SetTab
  <2> QED
    BY <2>1 DEF BInv, Orderly, LastTask, Agreed, Agrees, Quiet, Unstarted
<1>2. CASE Next /\ ~(OpenNowPlaying \/ SetTab)
  BY <1>2, ClickButton, RenderButton, RejectedButton, HandleButton, HandleEndButton,
     handleEndedButton, TimeButton DEF Next, React, HandleTask
<1> QED
  BY <1>1, <1>2

\* At rest the button says "pause" just when the element plays: whatever clicks,
\* media keys, events still queued and rejected promises have done to isPlaying,
\* with any number of them and queues of any length.
THEOREM ButtonIsRight == Spec => []ButtonAgrees
<1>1. BInv => ButtonAgrees
  BY DEF BInv, Agreed, Agrees, Quiet, ButtonAgrees, AtRest, Ready, Deps
<1> QED
  BY AlwaysInv, InitButton, StepButton, <1>1, PTL DEF Spec
=============================================================================
