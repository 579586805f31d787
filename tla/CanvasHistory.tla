---------------------------- MODULE CanvasHistory ----------------------------
(***************************************************************************)
(* The undo history of the canvas.  The slice of canvasSlice is wrapped in *)
(* redux-undo, with a filter that throttles quick edits of one kind and    *)
(* lets restored states, and what other slices change, pass by the         *)
(* history.  A reload keeps the present and drops the history; how the     *)
(* present is saved is left out.                                           *)
(*                                                                         *)
(* A state of the canvas is what is drawn (ed, one number per edit) and by *)
(* which type of action, the strokes it shows, the canvas they were made   *)
(* on, and how many restored states came before it.  What redux-undo does  *)
(* is modelled from how it is configured and marked external.              *)
(***************************************************************************)
EXTENDS Integers, Sequences, FiniteSets, SequencesExt

CONSTANTS
    EditTypes,    \* types of actions that edit the canvas
    Strokes,      \* those of doNotGroupMatcher
    Limit,        \* limit of the history
    MaxEdits      \* bound: edits in a behaviour

ASSUME CanvasHistoryAssumption ==
    /\ Strokes \subseteq EditTypes /\ EditTypes \subseteq STRING
    /\ Limit \in Nat \ {0, 1} /\ MaxEdits \in Nat

VARIABLES
    history,         \* past, present, future, and the last state that passed the filter
    throttle,        \* ignoreRapid, prevActionType, and the timers that run
    snapshot,        \* a saved state of the canvas
    edits            \* how many were made

vars == <<history, throttle, snapshot, edits>>

Absent == [ed |-> -1]
getInitialCanvasState == [ed |-> 0, by |-> "none", strokes |-> {}, canvas |-> 0, epoch |-> 0]

-----------------------------------------------------------------------------
(* redux-undo.                                                             *)

newHistory(past, present, future) ==
    [past |-> past, present |-> present, future |-> future, latest |-> present]

insert(h, res) ==
    newHistory(Append(IF Limit <= Len(h.past) + 1 THEN Tail(h.past) ELSE h.past, h.latest), res, <<>>)

filtered(h, res) == [h EXCEPT !.present = res]

undo(h) == newHistory(Front(h.past), Last(h.past), <<h.latest>> \o h.future)

redo(h) == newHistory(Append(h.past, h.latest), Head(h.future), Tail(h.future))

clearHistory(h) == newHistory(<<>>, h.present, <<>>)

-----------------------------------------------------------------------------
(* The filter.                                                             *)

\* Mutated form.  Strokes are throttled, too.
resetsThrottleStrokes(type) == type # throttle.prevActionType

resetsThrottle(type) == type # throttle.prevActionType \/ type \in Strokes

\* Mutated form.  No timer is started.
throttledNoTimer(type) ==
    IF resetsThrottle(type)
    THEN [throttle EXCEPT !.ignoreRapid = FALSE, !.prevActionType = type]
    ELSE [throttle EXCEPT !.ignoreRapid = TRUE]

throttled(type) ==
    IF resetsThrottle(type)
    THEN [throttle EXCEPT !.ignoreRapid = FALSE, !.prevActionType = type]
    ELSE IF throttle.ignoreRapid THEN throttle
    ELSE [throttle EXCEPT !.ignoreRapid = TRUE, !.timers = @ + 1]

actionsThrottlingFilter(type) == resetsThrottle(type) \/ ~throttle.ignoreRapid

\* An action whose type starts with the name of the slice, as those of the slices
\* canvasSettings, canvasText and canvasSession do.  If the state is the one that
\* passed last, redux-undo does not ask the filter.
Dispatched(type, res) ==
    IF res = history.latest THEN UNCHANGED <<history, throttle>>
    ELSE /\ throttle' = throttled(type)
         /\ history' = IF actionsThrottlingFilter(type) THEN insert(history, res) ELSE filtered(history, res)

-----------------------------------------------------------------------------
(* What the user does.                                                     *)

EditCanvas ==
    /\ edits < MaxEdits
    /\ \E type \in EditTypes :
        Dispatched(type, [history.present EXCEPT
                            !.ed = edits + 1, !.by = type,
                            !.strokes = IF type \in Strokes THEN @ \cup {edits + 1} ELSE @])
    /\ edits' = edits + 1 /\ UNCHANGED snapshot

\* A setting, or an edit of what is gone: the canvas stays as it is.
ChangeSetting ==
    /\ \E type \in {"canvasSettings"} \cup EditTypes : Dispatched(type, history.present)
    /\ UNCHANGED <<snapshot, edits>>

canvasUndo ==
    /\ history.past # <<>>
    /\ history' = undo(history)
    /\ UNCHANGED <<throttle, snapshot, edits>>

canvasRedo ==
    /\ history.future # <<>>
    /\ history' = redo(history)
    /\ UNCHANGED <<throttle, snapshot, edits>>

canvasClearHistory ==
    /\ history' = clearHistory(history)
    /\ UNCHANGED <<throttle, snapshot, edits>>

SaveSnapshot ==
    /\ snapshot = Absent
    /\ snapshot' = history.present
    /\ UNCHANGED <<history, throttle, edits>>

\* canvasSnapshotRestored and canvasProjectRecalled do not pass the filter.
RestoreSnapshot ==
    /\ snapshot # Absent
    /\ history' = filtered(history, [snapshot EXCEPT !.by = "restored",
                                                     !.canvas = history.present.canvas,
                                                     !.epoch = history.present.epoch + 1])
    /\ edits < MaxEdits /\ edits' = edits + 1
    /\ UNCHANGED <<throttle, snapshot>>

\* An action of another slice changes the canvas: the base of its model, or the size of
\* its bounding box.  The filter refuses it before it looks at the throttle.
ParamsChanged ==
    /\ edits < MaxEdits
    /\ history' = filtered(history, [history.present EXCEPT !.ed = edits + 1, !.by = "params"])
    /\ edits' = edits + 1 /\ UNCHANGED <<throttle, snapshot>>

NewCanvas == [history.present EXCEPT !.ed = edits + 1, !.by = "entityAdded", !.strokes = {}, !.canvas = @ + 1]

\* canvasReset, actions of other types that add the image, and canvasClearHistory.
newCanvasFromImage ==
    /\ edits < MaxEdits
    /\ history' = clearHistory([history EXCEPT !.present = NewCanvas])
    /\ throttle' = [throttle EXCEPT !.ignoreRapid = FALSE, !.prevActionType = "entityAdded"]
    /\ edits' = edits + 1 /\ UNCHANGED snapshot

ThrottleTimeout ==
    /\ throttle.timers > 0
    /\ throttle' = [throttle EXCEPT !.ignoreRapid = FALSE, !.timers = @ - 1]
    /\ UNCHANGED <<history, snapshot, edits>>

-----------------------------------------------------------------------------

\* The page is loaded again, with the canvas as it was saved last: as it is now, or
\* as it was before the last steps.
Reload ==
    /\ history' \in {newHistory(<<>>, s, <<>>) : s \in {history.present, history.latest} \cup ToSet(history.past)}
    /\ throttle' = [ignoreRapid |-> FALSE, prevActionType |-> "none", timers |-> 0]
    /\ UNCHANGED <<snapshot, edits>>

-----------------------------------------------------------------------------

Init ==
    /\ history = newHistory(<<>>, getInitialCanvasState, <<>>)
    /\ throttle = [ignoreRapid |-> FALSE, prevActionType |-> "none", timers |-> 0]
    /\ snapshot = Absent
    /\ edits = 0

Next ==
    \/ EditCanvas \/ ChangeSetting \/ canvasUndo \/ canvasRedo \/ canvasClearHistory
    \/ SaveSnapshot \/ RestoreSnapshot \/ ParamsChanged \/ newCanvasFromImage \/ ThrottleTimeout \/ Reload

Spec == Init /\ [][Next]_vars

-----------------------------------------------------------------------------
(* Properties.                                                             *)

Reachable == ToSet(history.past) \cup ToSet(history.future) \cup {history.latest, history.present}

TypeOK ==
    /\ \A s \in Reachable : s.ed \in 0 .. MaxEdits /\ s.strokes \subseteq 1 .. MaxEdits
    /\ Len(history.past) + Len(history.future) < Limit
    /\ throttle.ignoreRapid \in BOOLEAN /\ throttle.timers \in 0 .. MaxEdits

\* However quickly one draws, whatever settings change and states are restored in
\* between, an undo takes back no more than one stroke: the filter throttles
\* everything but strokes.
OneStrokeEach ==
    LET line == Append(history.past, history.latest) \o history.future
    IN  \A n \in 1 .. Len(line) - 1 :
            line[n].epoch = line[n + 1].epoch => Cardinality(line[n + 1].strokes \ line[n].strokes) <= 1

\* Undo and redo stay on a canvas: what came before a new canvas is gone.
CanvasesApart == \A s \in Reachable : s.canvas = history.present.canvas

\* While edits are throttled a timer runs that will let them pass again, and an
\* action of the canvas that is skipped is of the type that passed last: one of
\* another kind is always a step of its own, however quickly it follows.  What is
\* restored, and what another slice changes, never is.
ThrottleSound ==
    /\ throttle.ignoreRapid => throttle.timers > 0
    /\ history.present.ed # history.latest.ed =>
            history.present.by \in {throttle.prevActionType, "restored", "params"}

\* The types, and what an undo may reach: states of this canvas, and whatever was
\* not throttled.
HistoryInv == TypeOK /\ CanvasesApart /\ ThrottleSound

===============================================================================
