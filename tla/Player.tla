------------------------------- MODULE Player -------------------------------
(***************************************************************************)
(* The player of the web client: the store with the queue and the buttons' *)
(* actions (web/src/store/player.ts), and the player bar whose effects     *)
(* carry the store's state over to a media element and whose handlers      *)
(* carry the element's events back (web/src/design/PlayerBar.tsx).  The    *)
(* full-screen view (design/NowPlaying.tsx), which covers all the rest,    *)
(* and the pages of albums and playlists (pages/Collection.tsx) have       *)
(* buttons for the same store.                                             *)
(*                                                                         *)
(* Everything runs in one thread, task by task: a click, or an event of    *)
(* the element.  A change of the store is rendered, with the effects, and  *)
(* a rejected promise handled, before the next task; but the events that   *)
(* the effects cause come after other clicks.                              *)
(***************************************************************************)
EXTENDS Naturals, MediaElement

CONSTANTS
    Tracks,     \* the tracks of the library
    Videos,     \* those with a mime type video/...
    Artist,     \* Artist[t]: the artist of track t, or Nil
    Queues,     \* the track lists a page may start, none of them empty
    Volumes,    \* the volumes in tenths: 0 (mute), 8 (the store's default), ...
    MaxClicks,  \* bound on what the user does
    Nil         \* no track, no pending seek

ASSUME VideosAssumption  == Videos \subseteq Tracks
ASSUME ArtistAssumption  == DOMAIN Artist = Tracks
ASSUME QueuesAssumption  == Queues \subseteq Seq(Tracks) \ {<<>>}
ASSUME VolumesAssumption == Volumes \subseteq 0..10 /\ {0, 8, 10} \subseteq Volumes
ASSUME ClicksAssumption  == MaxClicks \in Nat
ASSUME NilAssumption     == Nil \notin Tracks \cup BOOLEAN

VARIABLES
    queue, index,           \* the tracks to play, the current one (from 1)
    isPlaying,
    far,                    \* progress > 3
    volume, prevVolume,
    shuffle, repeat,
    seekTo,                 \* Nil, or whether the target is beyond 3 s
    el,                     \* the media element
    rendered,               \* what the effects have seen last
    np,                     \* the tab of the full-screen view, or "closed"
    clicks,                 \* how often the user has acted
    hasty                   \* history: the user has acted while an event of the
                            \*   element was queued or its play() pending

songs    == <<queue, index>>
modes    == <<shuffle, repeat>>
volumes  == <<volume, prevVolume>>
user     == <<np, clicks, hasty>>
store    == <<songs, isPlaying, far, volumes, modes, seekTo>>
vars     == <<store, el, rendered, user>>

Current == IF queue = <<>> THEN Nil ELSE queue[index]

Kind(t) == IF t = Nil THEN "none" ELSE IF t \in Videos THEN "video" ELSE "audio"

\* The dependencies of the player bar's effects.
Deps == [track |-> Current, isPlaying |-> isPlaying, volume |-> volume, seekTo |-> seekTo]

TypeOK ==
    /\ queue = <<>> \/ queue \in Queues \/ \E t \in Tracks : queue = <<t>>
    /\ index \in Nat
    /\ {isPlaying, far, shuffle, repeat, hasty} \subseteq BOOLEAN
    /\ np \in {"closed", "queue", "lyrics", "related"}
    /\ volume \in Volumes /\ prevVolume \in Volumes \ {0}
    /\ seekTo \in {Nil, TRUE, FALSE}
    /\ el \in Element(Tracks \cup {Nil}, Volumes)
    /\ rendered \in [track : Tracks \cup {Nil}, isPlaying : BOOLEAN,
                     volume : Volumes, seekTo : {Nil, TRUE, FALSE}]
    /\ clicks \in 0..MaxClicks

Init ==
    /\ queue = <<>> /\ index = 1
    /\ isPlaying = FALSE /\ far = FALSE
    /\ volume = 8 /\ prevVolume = 8
    /\ shuffle = FALSE /\ repeat = FALSE
    /\ seekTo = Nil
    /\ el = Fresh("none", Nil, 10)
    /\ rendered = Deps
    /\ np = "closed"
    /\ clicks = 0 /\ hasty = FALSE

-----------------------------------------------------------------------------
(* Rendering *)

\* The commit replaces the element when its tag changes; events of a removed
\* element reach nobody, but its promises are rejected.
Commit ==
    IF Kind(Current) = el.kind THEN el
    ELSE [Fresh(Kind(Current), Nil, 10) EXCEPT !.rejected = Rejects(el)]

Changed(dep) == rendered[dep] # Deps[dep]

\* Mutant of SourceEffect: an effect of the first rendering only.
SourceEffectOnce(e) ==
    IF e.src = Nil /\ Current # Nil
    THEN IF isPlaying THEN Play(Load(e, Current)) ELSE Load(e, Current)
    ELSE e

\* "Load a new source whenever the current track changes."
SourceEffect(e) ==
    IF Changed("track") /\ Current # Nil
    THEN IF isPlaying THEN Play(Load(e, Current)) ELSE Load(e, Current)
    ELSE e

\* Mutants of PlayEffect: never pauses; the wrong way round.
PlayEffectOnly(e) ==
    IF Changed("isPlaying") /\ Current # Nil /\ isPlaying THEN Play(e) ELSE e

PlayEffectSwapped(e) ==
    IF Changed("isPlaying") /\ Current # Nil
    THEN IF isPlaying THEN Pause(e) ELSE Play(e)
    ELSE e

\* "React to play/pause toggles."
PlayEffect(e) ==
    IF Changed("isPlaying") /\ Current # Nil
    THEN IF isPlaying THEN Play(e) ELSE Pause(e)
    ELSE e

VolumeEffect(e) ==
    IF Changed("volume") /\ e.kind # "none" THEN [e EXCEPT !.volume = volume] ELSE e

\* "Apply a pending seek request from the store."
SeekEffect(e) ==
    IF Changed("seekTo") /\ seekTo # Nil /\ e.kind # "none" THEN Seek(e, seekTo) ELSE e

\* Render, commit and the effects in their order; clearSeek comes at the end
\* and makes for another rendering.
Render ==
    /\ rendered # Deps
    /\ el' = SeekEffect(VolumeEffect(PlayEffect(SourceEffect(Commit))))
    /\ rendered' = Deps
    /\ seekTo' = Nil
    /\ UNCHANGED <<songs, isPlaying, far, volumes, modes, user>>

\* .catch(() => setPlaying(false))
PlayRejected ==
    /\ rendered = Deps
    /\ el.rejected
    /\ el' = [el EXCEPT !.rejected = FALSE]
    /\ isPlaying' = FALSE
    /\ UNCHANGED <<songs, far, volumes, modes, seekTo, rendered, user>>

\* Another task may run: all is rendered and no rejection is left.
Ready == rendered = Deps /\ ~el.rejected

\* Nothing is to come from the element of its own accord, but time.
AtRest == Ready /\ el.tasks = <<>>

-----------------------------------------------------------------------------
(* The buttons *)

User ==
    /\ Ready
    /\ clicks < MaxClicks
    /\ clicks' = clicks + 1
    /\ hasty' = (hasty \/ ~AtRest \/ el.pending)
    /\ UNCHANGED np

\* set({ index, isPlaying: true, progress: 0 })
PlayIndex(i) ==
    /\ index' = i
    /\ isPlaying' = TRUE
    /\ far' = FALSE
    /\ UNCHANGED seekTo

Restart ==
    /\ seekTo' = FALSE
    /\ far' = FALSE
    /\ UNCHANGED <<index, isPlaying>>

\* playQueue of a row, or of the card of an album.
PlayQueue(q, i) ==
    /\ User
    /\ queue' = q
    /\ PlayIndex(i)
    /\ UNCHANGED <<volumes, modes, el, rendered>>

\* setShuffle, and playQueue from any track.
playShuffled(q) ==
    /\ User
    /\ queue' = q
    /\ \E i \in DOMAIN q : PlayIndex(i)
    /\ shuffle' = TRUE
    /\ UNCHANGED <<volumes, repeat, el, rendered>>

\* The tracks "more from" the artist.
related(t) == {u \in Tracks \ {t} : Artist[u] # Nil /\ Artist[u] = Artist[t]}

\* playTrack: a queue of one.
PlayTrack(t) == PlayQueue(<<t>>, 1)

\* The rows "next up".
JumpTo(i) ==
    /\ User
    /\ i \in DOMAIN queue /\ i > index
    /\ PlayIndex(i)
    /\ UNCHANGED <<queue, volumes, modes, el, rendered>>

Toggle ==
    /\ User
    /\ Current # Nil
    /\ isPlaying' = ~isPlaying
    /\ UNCHANGED <<songs, far, volumes, modes, seekTo, el, rendered>>

\* Where next goes: the position behind the last one stands for "nowhere".
pickNext ==
    IF Len(queue) <= 1 THEN {index}
    ELSE IF shuffle THEN DOMAIN queue \ {index}
    ELSE {index + 1}

\* next of a single track is the track itself, which is not loaded again.
NextTrack ==
    /\ User
    /\ \E i \in pickNext \cap DOMAIN queue : PlayIndex(i)
    /\ UNCHANGED <<queue, volumes, modes, el, rendered>>

\* Mutant of Prev: forgets that there may be no earlier track.
PrevAlways ==
    /\ User
    /\ Current # Nil
    /\ PlayIndex(index - 1)
    /\ UNCHANGED <<queue, volumes, modes, el, rendered>>

Prev ==
    /\ User
    /\ Current # Nil
    /\ IF ~far /\ index > 1 THEN PlayIndex(index - 1) ELSE Restart
    /\ UNCHANGED <<queue, volumes, modes, el, rendered>>

SeekBar(beyond) ==
    /\ User
    /\ Current # Nil
    /\ seekTo' = beyond /\ far' = beyond
    /\ UNCHANGED <<songs, isPlaying, volumes, modes, el, rendered>>

\* Mutant of SetVolume: remembers a volume of 0 as well.
SetVolumeKeeping(v) ==
    /\ User
    /\ Current # Nil
    /\ volume' = v /\ prevVolume' = v
    /\ UNCHANGED <<songs, isPlaying, far, modes, seekTo, el, rendered>>

SetVolume(v) ==
    /\ User
    /\ Current # Nil
    /\ volume' = v
    /\ prevVolume' = IF v > 0 THEN v ELSE prevVolume
    /\ UNCHANGED <<songs, isPlaying, far, modes, seekTo, el, rendered>>

ToggleMute ==
    /\ User
    /\ Current # Nil
    /\ volume' = IF volume > 0 THEN 0 ELSE prevVolume
    /\ UNCHANGED <<songs, isPlaying, far, prevVolume, modes, seekTo, el, rendered>>

ToggleMode ==
    /\ User
    /\ Current # Nil
    /\ \/ shuffle' = ~shuffle /\ UNCHANGED repeat
       \/ repeat' = ~repeat /\ UNCHANGED shuffle
    /\ UNCHANGED <<songs, isPlaying, far, volumes, seekTo, el, rendered>>

\* The big button of a page: "Play" goes on with what is paused if that is one
\* of the page's tracks, wherever it was started from.
playCollection(q) == IF Contains(q, Current) THEN Toggle ELSE PlayQueue(q, 1)

\* The view starts with the queue each time it is opened.
OpenNowPlaying ==
    /\ Ready /\ Current # Nil /\ np = "closed"
    /\ np' = "queue"
    /\ UNCHANGED <<store, el, rendered, clicks, hasty>>

\* Close, and the tabs.
SetTab ==
    /\ Ready /\ np # "closed"
    /\ np' \in {"closed", "queue", "lyrics", "related"} \ {np}
    /\ UNCHANGED <<store, el, rendered, clicks, hasty>>

\* A media key, or the browser's own controls, act on the element directly.
MediaKey ==
    /\ User
    /\ el.kind # "none"
    /\ el' = IF el.paused THEN Play(el) ELSE Pause(el)
    /\ UNCHANGED <<store, rendered>>

-----------------------------------------------------------------------------
(* The element *)

Event(label) == Ready /\ el.tasks # <<>> /\ NextTask(el) = label

\* onPlay and onPause; the latter comes with a timeupdate.
HandlePlay ==
    /\ Event("play")
    /\ el' = TaskDone(el)
    /\ isPlaying' = TRUE
    /\ UNCHANGED <<songs, far, volumes, modes, seekTo, rendered, user>>

HandlePause ==
    /\ Event("pause") \/ Event("pause_reject")
    /\ el' = TaskDone(el)
    /\ isPlaying' = FALSE
    /\ far' = el.far
    /\ UNCHANGED <<songs, volumes, modes, seekTo, rendered, user>>

HandleEnd ==
    /\ Event("end")
    /\ el' = AtEnd(el)
    /\ isPlaying' = IF el.over THEN FALSE ELSE isPlaying
    /\ far' = el.far
    /\ UNCHANGED <<songs, volumes, modes, seekTo, rendered, user>>

GoOn ==
    LET nexts == (pickNext \cap DOMAIN queue) \ {index}
    IN  IF nexts # {} THEN \E i \in nexts : PlayIndex(i)
        ELSE isPlaying' = FALSE /\ far' = FALSE /\ UNCHANGED <<index, seekTo>>

\* Mutant of handleEnded: repeats without setting isPlaying.
handleEndedPaused ==
    /\ Event("ended")
    /\ el' = TaskDone(el)
    /\ IF repeat THEN Restart ELSE GoOn
    /\ UNCHANGED <<queue, volumes, modes, rendered, user>>

\* onEnded: "honours repeat/shuffle".
handleEnded ==
    /\ Event("ended")
    /\ el' = TaskDone(el)
    /\ IF repeat
       THEN isPlaying' = TRUE /\ seekTo' = FALSE /\ far' = FALSE /\ UNCHANGED index
       ELSE GoOn
    /\ UNCHANGED <<queue, volumes, modes, rendered, user>>

\* Time passes: the source arrives or turns out unusable, playback goes on
\* (timeupdate) and comes to the end, which takes longer than an event.
Arrive ==
    /\ Ready /\ el.state = "loading"
    /\ el' = Loaded(el) \/ el' = LoadFails(el)
    /\ UNCHANGED <<store, rendered, user>>

TimeUpdate ==
    /\ Ready /\ el.state = "ready"
    /\ el' = el \/ (~el.paused /\ el' = [el EXCEPT !.far = TRUE])
    /\ far' = el'.far
    /\ UNCHANGED <<songs, isPlaying, volumes, modes, seekTo, rendered, user>>

Finish ==
    /\ AtRest /\ el.state = "ready" /\ ~el.paused /\ ~el.over
    /\ el' = ReachEnd(el)
    /\ UNCHANGED <<store, rendered, user>>

-----------------------------------------------------------------------------
CollectionView(q) ==
    /\ np = "closed"
    /\ playCollection(q) \/ playShuffled(q) \/ \E i \in DOMAIN q : PlayQueue(q, i)

PlayerBar ==
    /\ np = "closed"
    /\ \/ ToggleMode \/ Prev \/ Toggle \/ NextTrack \/ ToggleMute
       \/ \E beyond \in BOOLEAN : SeekBar(beyond)
       \/ \E v \in Volumes : SetVolume(v)

NowPlaying ==
    /\ np # "closed"
    /\ \/ ToggleMode \/ Prev \/ Toggle \/ NextTrack
       \/ \E beyond \in BOOLEAN : SeekBar(beyond)
       \/ np = "queue" /\ \E i \in DOMAIN queue : JumpTo(i)
       \/ np = "related" /\ \E t \in related(Current) : PlayTrack(t)

Click == (\E q \in Queues : CollectionView(q)) \/ PlayerBar \/ NowPlaying \/ MediaKey

React == Render \/ PlayRejected

HandleTask == HandlePlay \/ HandlePause \/ HandleEnd \/ handleEnded

Next == Click \/ OpenNowPlaying \/ SetTab \/ React \/ HandleTask \/ Arrive \/ TimeUpdate \/ Finish

Spec == Init /\ [][Next]_vars

\* The browser runs the tasks it has queued.
FairSpec == Spec /\ WF_vars(React) /\ WF_vars(HandleTask)

-----------------------------------------------------------------------------
(* What the player promises. *)

\* The current track is one of the queue, whatever the buttons, the modes and
\* the ends of tracks do to the index.
IndexInQueue == queue # <<>> => index \in DOMAIN queue

\* The element has the source of the track the bar shows, in the right tag,
\* whenever all is rendered, also after switching between audio and video.
PlaysWhatIsShown ==
    rendered = Deps => el.kind = Kind(Current) /\ el.src = Current

\* At rest the button is right: it says "pause" just when the element plays,
\* although clicks, events and rejected promises set isPlaying in any order.
ButtonAgrees == AtRest /\ Current # Nil => isPlaying = ~el.paused

\* Store and element stop commanding one another: each click has its effect
\* and the events of that effect cause no further commands.  It takes a click
\* in the moment between a command and its event, or while play() is pending.
ComesToRest == []<>(hasty \/ AtRest)

HasNext == repeat \/ (pickNext \cap DOMAIN queue) \ {index} # {}

\* When a track ends and there is something to go on with, the player does: the
\* pause that the browser signals before the end does not stick.
PlaysOn ==
    (~hasty /\ el.over /\ ~el.paused /\ HasNext) ~> (hasty \/ (~el.over /\ isPlaying))

\* docs/superpowers/specs/2026-05-30-mp4-support-design.md:41 says of rendering
\* a <video> instead of an <audio> "All existing playback logic (play/pause,
\* volume, seek, src) remains unchanged": the volume the user has set (any but
\* the store's initial 8) applies to the element that plays, of either kind.
VolumeKept == AtRest /\ Current # Nil /\ volume # 8 => el.volume = volume
=============================================================================
