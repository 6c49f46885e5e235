---------------------------- MODULE MediaElement ----------------------------
(***************************************************************************)
(* What the player uses of an HTML media element (<audio> or <video>): an  *)
(* external component, after the HTML standard.  An element is a record;   *)
(* the methods are functions from an element to an element.                *)
(*                                                                         *)
(* Calls take effect at once, events are fired by tasks that the browser   *)
(* runs later, in order.  Promises of play() are one flag here, since the  *)
(* player handles each rejection alike and never waits for a success.      *)
(***************************************************************************)
EXTENDS Sequences, SequencesExt

\* kind:     the tag, "none" while nothing is rendered.
\* src:      the source, undefined (NoSource) in a fresh element.
\* state:    of the source: not there, being fetched, playable, unusable.
\* paused:   the attribute.
\* over:     the end has been reached and not been left since.
\* far:      the playback position is more than 3 s from the start.
\* volume:   the attribute.
\* pending:  a promise of play() is neither resolved nor going to be.
\* rejected: a promise has been rejected, its handler has yet to run.
\* tasks:    the events to come: "play", "pause", "pause_reject" (which also
\*           rejects a promise), "end" and, after its pause, "ended".
Element(Sources, Volumes) ==
    [kind : {"none", "audio", "video"}, src : Sources,
     state : {"empty", "loading", "ready", "broken"},
     paused : BOOLEAN, over : BOOLEAN, far : BOOLEAN, volume : Volumes,
     pending : BOOLEAN, rejected : BOOLEAN,
     tasks : Seq({"play", "pause", "pause_reject", "end", "ended"})]

\* A fresh element: paused, without a source, at full volume.
Fresh(kind, noSource, fullVolume) ==
    [kind |-> kind, src |-> noSource, state |-> "empty", paused |-> TRUE,
     over |-> FALSE, far |-> FALSE, volume |-> fullVolume,
     pending |-> FALSE, rejected |-> FALSE, tasks |-> <<>>]

\* Whether loading another source, or removing the element, rejects a promise.
Rejects(el) == el.rejected \/ el.pending \/ Contains(el.tasks, "pause_reject")

\* src = id; load(): playing stops, the events to come are dropped, and the
\* promises rejected at once.
Load(el, id) ==
    [el EXCEPT !.src = id, !.state = "loading", !.paused = TRUE, !.over = FALSE,
               !.far = FALSE, !.pending = FALSE, !.rejected = Rejects(el),
               !.tasks = <<>>]

Play(el) ==
    IF el.state = "broken" THEN [el EXCEPT !.rejected = TRUE]
    ELSE [el EXCEPT
            !.paused = FALSE, !.over = FALSE,
            !.far = el.far /\ ~el.over,
            !.pending = el.state # "ready",
            !.tasks = IF el.paused THEN Append(el.tasks, "play") ELSE el.tasks]

Pause(el) ==
    IF el.paused THEN el
    ELSE [el EXCEPT
            !.paused = TRUE, !.pending = FALSE,
            !.tasks = Append(el.tasks, IF el.pending THEN "pause_reject" ELSE "pause")]

Seek(el, far) == [el EXCEPT !.far = far, !.over = FALSE]

\* Enough of the source has arrived.
Loaded(el) == [el EXCEPT !.state = "ready", !.pending = FALSE]

\* The source cannot be fetched or played (404, 401, unsupported).
LoadFails(el) ==
    [el EXCEPT !.state = "broken", !.pending = FALSE,
               !.rejected = el.rejected \/ el.pending]

ReachEnd(el) == [el EXCEPT !.over = TRUE, !.far = TRUE, !.tasks = Append(el.tasks, "end")]

NextTask(el) == Head(el.tasks)

TaskDone(el) ==
    [el EXCEPT !.tasks = Tail(el.tasks),
               !.rejected = el.rejected \/ NextTask(el) = "pause_reject"]

\* The task at the end pauses the element, unless it is paused or has been
\* moved away from the end, and fires "ended" in any case.
AtEnd(el) ==
    [el EXCEPT !.paused = el.paused \/ el.over,
               !.rejected = el.rejected \/ (el.pending /\ el.over),
               !.pending = el.pending /\ ~el.over,
               !.tasks = <<"ended">> \o Tail(el.tasks)]
=============================================================================
