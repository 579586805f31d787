------------------------------ MODULE LayerFilter ------------------------------
(***************************************************************************)
(* The filter of a canvas layer (CanvasEntityFilterer): it rasterizes the  *)
(* layer, runs a filter graph (RunGraph), previews the image, and applies  *)
(* it.  processImmediate is one async function that waits four times: for  *)
(* the rasterized image, for the graph, for the image's record, for the    *)
(* preview to load.  `phase` says where each call waits; between two       *)
(* waits it runs alone.                                                    *)
(*                                                                         *)
(* A run is named by its number; the image, the controller and the layer's *)
(* content are named by the run they came from, 0 for none.  Konva's       *)
(* tree is `place`: where the group of a run's image module hangs.  A      *)
(* config is a value that is valid; the rectangles are left out.           *)
(***************************************************************************)
EXTENDS RunGraph

CONSTANTS
    Configs,   \* filter configurations
    NoConfig,  \* the empty hash
    MaxStarts, \* bound: how often a filter is started
    MaxEdits   \* bound: how often its settings are changed, or it is reset

ASSUME LayerFilterAssumption == NoConfig \notin Configs /\ MaxStarts \in Nat /\ MaxEdits \in Nat

VARIABLES
    ui,        \* isFiltering, isProcessing, simple, and the setting autoProcess
    config, initial,
    timer,     \* the debounced process() is due
    phase,     \* run -> where its processImmediate waits
    used,      \* run -> the config it was started with
    image,     \* $imageState, and imageModule, which is made from it and goes with it
    old,       \* run -> the imageModule its own took the place of
    place,     \* run -> where its module's group is
    hash,      \* $lastProcessedHash
    controller,\* abortController
    hidden,    \* the layer's own objects are hidden
    content,   \* the run whose image replaced the layer's objects
    starts, edits,
    escaped    \* history: runs that were under way when the filter was reset, beyond its reach

filterVars == <<ui, config, initial, timer, phase, used, image, old, place, hash,
                controller, hidden, content, starts, edits, escaped>>
vars == <<runVars, filterVars>>

UnderWay == {"rasterizing", "graph", "fetching", "rendering"}

TypeOK ==
    /\ RunTypeOK
    /\ ui \in [filtering : BOOLEAN, processing : BOOLEAN, simple : BOOLEAN, auto : BOOLEAN]
    /\ config \in Configs /\ initial \in Configs
    /\ timer \in BOOLEAN /\ hidden \in BOOLEAN
    /\ phase \in [Runs -> {"none", "over"} \cup UnderWay]
    /\ used \in [Runs -> Configs \cup {NoConfig}]
    /\ image \in Runs \cup {0} /\ old \in [Runs -> Runs \cup {0}]
    /\ place \in [Runs -> {"none", "loose", "preview", "layer", "destroyed"}]
    /\ hash \in Configs \cup {NoConfig}
    /\ controller \in Runs \cup {0} /\ content \in Runs \cup {0}
    /\ starts \in 0..MaxStarts /\ edits \in 0..MaxEdits
    /\ escaped \subseteq Runs

Init ==
    /\ RunInit
    /\ ui \in [filtering : {FALSE}, processing : {FALSE}, simple : {FALSE}, auto : BOOLEAN]
    /\ config \in Configs /\ initial = config
    /\ timer = FALSE /\ hidden = FALSE
    /\ phase = [r \in Runs |-> "none"]
    /\ used = [r \in Runs |-> NoConfig]
    /\ old = [r \in Runs |-> 0]
    /\ image = 0 /\ controller = 0 /\ content = 0
    /\ place = [r \in Runs |-> "none"]
    /\ hash = NoConfig
    /\ starts = 0 /\ edits = 0
    /\ escaped = {}

-----------------------------------------------------------------------------
(* processImmediate, up to its first wait. *)

IsNext(r) == phase[r] = "none" /\ \A q \in Runs : q < r => phase[q] # "none"

\* Calls that do nothing: not filtering, or the config is the one on show.
Skips(filtering, c, h) == ~filtering \/ c = h

ProcessImmediate(filtering, c, h) ==
    IF Skips(filtering, c, h) THEN UNCHANGED <<phase, used>>
    ELSE \E r \in Runs :
            /\ IsNext(r)
            /\ phase' = [phase EXCEPT ![r] = "rasterizing"]
            /\ used' = [used EXCEPT ![r] = c]

-----------------------------------------------------------------------------
(* The user. *)

EditsOnce == edits < MaxEdits /\ edits' = edits + 1

\* The run whose graph the abort controller still stops.
Reached(r) == r = controller /\ stage[r] = "waiting"

\* Mutant: whatever group the module has is destroyed.
DestroysAdopted(places) == IF image # 0 THEN [places EXCEPT ![image] = "destroyed"] ELSE places

PlacesAfterReset(places) ==
    IF image # 0 /\ places[image] = "preview" THEN [places EXCEPT ![image] = "destroyed"]
    ELSE places

\* Mutant: the processing run goes on.
ResetWithoutAbort(places) ==
    /\ UNCHANGED runVars
    /\ controller' = 0 /\ image' = 0
    /\ place' = PlacesAfterReset(places)
    /\ hash' = NoConfig
    /\ escaped' = escaped \cup {r \in Runs : phase[r] \in UnderWay /\ ~Reached(r)}

\* Mutant: the hash is kept.
ResetKeepsHash(places) ==
    /\ IF controller # 0 THEN Abort(controller) ELSE UNCHANGED runVars
    /\ controller' = 0 /\ image' = 0
    /\ place' = PlacesAfterReset(places)
    /\ UNCHANGED <<hash, escaped>>

\* resetEphemeralState, but for the config: the processing run is aborted through its
\* controller, its preview destroyed unless the layer adopted it (places: where the groups
\* hang by now), and all that a run leaves behind is cleared.
ResetEphemeralState(places) ==
    /\ IF controller # 0 THEN Abort(controller) ELSE UNCHANGED runVars
    /\ controller' = 0 /\ image' = 0
    /\ place' = PlacesAfterReset(places)
    /\ hash' = NoConfig
    /\ escaped' = escaped \cup {r \in Runs : phase[r] \in UnderWay /\ ~Reached(r)
                                              /\ stage[r] \notin {"canceling"}}

\* The promise of a run aborted before its item has an id rejects at once.
PhaseAfterReset ==
    IF controller # 0 /\ stage[controller] = "waiting" /\ AfterAbort(controller) = "blind"
    THEN [phase EXCEPT ![controller] = "over"] ELSE phase

\* start: with the default config, or with the one a model asks for (simple).
Start(c, simple) ==
    /\ ~ui.filtering
    /\ starts < MaxStarts
    /\ ResetEphemeralState(place)
    /\ ui' = [ui EXCEPT !.filtering = TRUE, !.processing = FALSE, !.simple = simple]
    /\ config' = c /\ initial' = c
    /\ starts' = starts + 1
    /\ IF ui.auto
       THEN \E r \in Runs :
                /\ IsNext(r)
                /\ phase' = [PhaseAfterReset EXCEPT ![r] = "rasterizing"]
                /\ used' = [used EXCEPT ![r] = c]
       ELSE phase' = PhaseAfterReset /\ UNCHANGED used
    /\ UNCHANGED <<timer, old, hidden, content, edits>>

\* The listener of $filterConfig.
ChangeConfig(c) ==
    /\ EditsOnce
    /\ ui.filtering /\ ~ui.simple
    /\ c # config
    /\ config' = c
    /\ timer' = (timer \/ ui.auto)
    /\ UNCHANGED <<runVars, ui, initial, phase, used, image, old, place, hash, controller,
                   hidden, content, starts, escaped>>

\* onChangeModel of a control layer, for a model with a default filter: in simple mode the
\* filter follows the model, and process() is called whatever the setting says.
ChangeModel(c) ==
    /\ EditsOnce
    /\ ui.filtering /\ ui.simple
    /\ c # config
    /\ config' = c
    /\ timer' = TRUE
    /\ UNCHANGED <<runVars, ui, initial, phase, used, image, old, place, hash, controller,
                   hidden, content, starts, escaped>>

Advanced ==
    /\ EditsOnce
    /\ ui.filtering /\ ui.simple
    /\ ui' = [ui EXCEPT !.simple = FALSE]
    /\ UNCHANGED <<runVars, config, initial, timer, phase, used, image, old, place, hash,
                   controller, hidden, content, starts, escaped>>

ToggleAutoProcess ==
    /\ EditsOnce
    /\ ui.filtering => ~ui.simple
    /\ ui' = [ui EXCEPT !.auto = ~@]
    /\ timer' = (timer \/ (ui.filtering /\ ~ui.auto))
    /\ UNCHANGED <<runVars, config, initial, phase, used, image, old, place, hash,
                   controller, hidden, content, starts, escaped>>

\* The process button, and the debounced call.
ClickProcess ==
    /\ ui.filtering /\ ~ui.simple /\ ~ui.processing
    /\ ~(ui.auto /\ image # 0)
    /\ ~Skips(ui.filtering, config, hash)
    /\ ProcessImmediate(ui.filtering, config, hash)
    /\ UNCHANGED <<runVars, ui, config, initial, timer, image, old, place, hash,
                   controller, hidden, content, starts, edits, escaped>>

Debounced ==
    /\ timer
    /\ timer' = FALSE
    /\ ProcessImmediate(ui.filtering, config, hash)
    /\ UNCHANGED <<runVars, ui, config, initial, image, old, place, hash, controller,
                   hidden, content, starts, edits, escaped>>

\* reset sets the config anew, and the listener hears of it.
Reset ==
    /\ EditsOnce
    /\ ui.filtering /\ ~ui.simple /\ ~ui.processing
    /\ ResetEphemeralState(place)
    /\ phase' = PhaseAfterReset
    /\ config' = initial
    /\ timer' = (timer \/ ui.auto)
    /\ UNCHANGED <<ui, initial, used, old, hidden, content, starts>>

\* The listeners are gone before the config is reset, and the objects shown again.
Teardown(places) ==
    /\ ResetEphemeralState(places)
    /\ phase' = PhaseAfterReset
    /\ config' = initial
    /\ ui' = [ui EXCEPT !.filtering = FALSE, !.processing = FALSE]
    /\ hidden' = FALSE
    /\ UNCHANGED <<initial, timer, used, old, starts, edits>>

Cancel ==
    /\ ui.filtering
    /\ Teardown(place)
    /\ UNCHANGED content

\* The layer adopts the preview, its objects are replaced by the image, and what it held of
\* an earlier filter is destroyed with them.
Adopt ==
    [r \in Runs |-> IF r = image THEN "layer"
                    ELSE IF place[r] = "layer" THEN "destroyed" ELSE place[r]]

Apply ==
    /\ ui.filtering /\ ~ui.processing
    /\ image # 0
    /\ content' = image
    /\ Teardown(Adopt)

-----------------------------------------------------------------------------
(* processImmediate, after each wait. *)

RasterizeFails(r) ==
    /\ phase[r] = "rasterizing"
    /\ phase' = [phase EXCEPT ![r] = "over"]
    /\ ui' = [ui EXCEPT !.processing = FALSE]
    /\ UNCHANGED <<runVars, config, initial, timer, used, image, old, place, hash,
                   controller, hidden, content, starts, edits, escaped>>

Rasterized(r) ==
    /\ phase[r] = "rasterizing"
    /\ Call(r)
    /\ phase' = [phase EXCEPT ![r] = "graph"]
    /\ ui' = [ui EXCEPT !.processing = TRUE]
    /\ controller' = r
    /\ UNCHANGED <<config, initial, timer, used, image, old, place, hash, hidden, content,
                   starts, edits, escaped>>

\* The promise rejected: the run is over, and whatever run is under way loses its
\* controller and the flag.
FilterFails(r) ==
    /\ phase' = [phase EXCEPT ![r] = "over"]
    /\ ui' = [ui EXCEPT !.processing = FALSE]
    /\ controller' = 0
    /\ UNCHANGED <<config, initial, timer, used, image, old, place, hash, hidden, content,
                   starts, edits, escaped>>

FilterGoesOn(r) ==
    /\ phase' = [phase EXCEPT ![r] = "fetching"]
    /\ UNCHANGED <<ui, config, initial, timer, used, image, old, place, hash, controller,
                   hidden, content, starts, edits, escaped>>

\* An answer that settles a promise continues its run, in the same turn.
Continue(r) ==
    IF phase[r] # "graph" \/ stage'[r] \notin Settled THEN UNCHANGED filterVars
    ELSE IF stage'[r] = "output" THEN FilterGoesOn(r) ELSE FilterFails(r)

Answer(r) ==
    /\ \/ EnqueueAnswered(r) \/ EnqueueFails(r)
       \/ ReadAnswered(r) \/ ReadFails(r)
       \/ CancelAnswered(r) \/ CancelFails(r)
    /\ Continue(r)

FetchFails(r) ==
    /\ phase[r] = "fetching"
    /\ FilterFails(r)
    /\ UNCHANGED runVars

\* The image's record is there: it is the preview from now on, though not yet drawn.
Fetched(r) ==
    /\ phase[r] = "fetching"
    /\ phase' = [phase EXCEPT ![r] = "rendering"]
    /\ image' = r
    /\ old' = [old EXCEPT ![r] = image]
    /\ place' = [place EXCEPT ![r] = "loose"]
    /\ UNCHANGED <<runVars, ui, config, initial, timer, used, hash, controller, hidden,
                   content, starts, edits, escaped>>

\* The preview is loaded.  this.imageModule is read again: it may be another run's by now;
\* when it is gone the function throws, and nothing catches it.
Rendered(r) ==
    /\ phase[r] = "rendering"
    /\ phase' = [phase EXCEPT ![r] = "over"]
    /\ IF image = 0 THEN UNCHANGED <<ui, place, hash, controller, hidden>>
       ELSE /\ place' = [q \in Runs |-> IF q = image THEN "preview"
                                         ELSE IF q = old[r] THEN "destroyed" ELSE place[q]]
            /\ hidden' = TRUE
            /\ hash' = used[r]
            /\ ui' = [ui EXCEPT !.processing = FALSE]
            /\ controller' = 0
    /\ UNCHANGED <<runVars, config, initial, timer, used, image, old, content, starts,
                   edits, escaped>>

-----------------------------------------------------------------------------
User ==
    \/ \E c \in Configs : \/ \E simple \in BOOLEAN : Start(c, simple)
                          \/ ChangeConfig(c)
                          \/ ChangeModel(c)
    \/ Advanced \/ ToggleAutoProcess \/ ClickProcess \/ Reset \/ Cancel \/ Apply

RunStep(r) ==
    \/ RasterizeFails(r) \/ Rasterized(r)
    \/ Answer(r)
    \/ FetchFails(r) \/ Fetched(r) \/ Rendered(r)

Server == ServerStep /\ UNCHANGED filterVars
Hear == Deliver /\ UNCHANGED filterVars

Next == User \/ Debounced \/ (\E r \in Runs : RunStep(r)) \/ Hear \/ Server

Spec == Init /\ [][Next]_vars

-----------------------------------------------------------------------------
(* Properties. *)

\* A run that was aborted while its promise was pending never becomes the preview, though its
\* graph ends well while the cancellation is on its way (isSettling, run-graph.ts).
StoppedStaysAway == image \notin stopped

\* "Already processed config" is only ever said of a preview that is there: a config is never
\* skipped with nothing on show (resetEphemeralState against the two waits after the graph).
HashNeedsImage == hash # NoConfig => image # 0

\* What the layer adopted when a filter was applied is not destroyed by the reset that follows,
\* by a filter started later, or by a run that ends late.
AppliedStays == content # 0 => place[content] = "layer"

\* The layer's own objects are hidden outside a filter only if a run was under way, out of the
\* abort controller's reach, when the filter was reset.
HiddenWithReason == hidden /\ ~ui.filtering => escaped # {}

\* When the filter is over, a job of it is in the queue only if its run was out of reach, its
\* id was not known yet, its cancellation failed or is on its way, or its request failed
\* after it was served.
NothingLeftBehind ==
    ~ui.filtering =>
        \A r \in Runs :
            item[r] = "live" => r \in escaped \/ stage[r] \in {"canceling", "blind", "error"}

\* A promise that waits for an item that ended will hear of it, though the item ended before its
\* id was known: only what was never told (a broken connection, a cleared queue) leaves a run
\* waiting for ever ("race condition for fast-running graphs", run-graph.ts).
EndIsHeard ==
    \A r \in Runs :
        stage[r] = "waiting" /\ item[r] \in Ended \cup {"cleared"} => r \in ToSet(events) \cup missed

\* The types, and what is left on the canvas: a preview for every config that is
\* not run again, and the layer's own objects, hidden for a reason.
FilterInv == TypeOK /\ HashNeedsImage /\ HiddenWithReason

===============================================================================
