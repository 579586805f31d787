---------------------------- MODULE CanvasEntities ----------------------------
(***************************************************************************)
(* The entities of the canvas, which canvasSlice keeps: four lists, one    *)
(* per type, with what is selected and what is hidden; the models that    *)
(* control layers and regional reference images refer to; and what changes *)
(* them from outside: the selection of a main model, the removal of        *)
(* installed ones, merges that end later than they began, and canvases     *)
(* saved earlier, which come back as a snapshot, a project or the metadata *)
(* of an image.                                                            *)
(*                                                                         *)
(* An action is a dispatch.  Of an entity's fields those are kept that     *)
(* another part of the canvas depends on: not its name, colour, place,     *)
(* prompts or filters.  The ids, random in the code, are numbers in turn.  *)
(***************************************************************************)
EXTENDS Integers, Sequences, FiniteSets, SequencesExt

CONSTANTS
    ControlModels, \* the installed control models in order: [type, base]
    RefModels,     \* the installed models for reference images: [type, base]
    Bases,         \* bases of main models that may be selected
    MaxEntities,   \* bound: entities on the canvas
    MaxChanges     \* bound: changes in a behaviour

Types == {"raster_layer", "control_layer", "inpaint_mask", "regional_guidance"}

ControlModel == [type : {"controlnet", "t2i_adapter", "control_lora"}, base : STRING]
RefModel == [type : {"ip_adapter", "flux_redux"}, base : STRING]

ASSUME CanvasEntitiesAssumption ==
    /\ ControlModels \in Seq(ControlModel) \ {<<>>} /\ RefModels \in Seq(RefModel) \ {<<>>}
    /\ Bases \subseteq STRING \ {""} /\ MaxEntities \in Nat \ {0} /\ MaxChanges \in Nat

VARIABLES
    canvas,    \* lists, hidden, selected; how it came about (via), and what was
               \* selected when its lists were last taken from under it (orphan)
    base,      \* the base of the selected main model, "" if there is none
    installed, \* positions of the RefModels that are still installed
    merging,   \* the merge that is being composited
    saved,     \* a canvas that was saved
    nextId,
    changes    \* how many changes were made

vars == <<canvas, base, installed, merging, saved, nextId, changes>>

None == [type |-> "none"]

-----------------------------------------------------------------------------
(* Selectors.                                                              *)

Ids(list) == {list[n].id : n \in DOMAIN list}

Position(list, id) == IF id \in Ids(list) THEN CHOOSE n \in DOMAIN list : list[n].id = id ELSE 0

Without(list, ids) ==
    FlattenSeq([n \in DOMAIN list |-> IF list[n].id \in ids THEN <<>> ELSE <<list[n]>>])

getEntityIdentifier(type, id) == [type |-> type, id |-> id]

Exists(c, ident) == ident # None /\ ident.id \in Ids(c.lists[ident.type])

Entities(c) == {i \in [type : Types, id : 1 .. nextId] : Exists(c, i)}

\* As the list shows them.
selectAllEntities(c) ==
    LET shown(t) == [n \in DOMAIN c.lists[t] |-> getEntityIdentifier(t, Reverse(c.lists[t])[n].id)]
    IN  shown("inpaint_mask") \o shown("regional_guidance") \o shown("control_layer") \o shown("raster_layer")

isVisibleEntity(e) == e.enabled /\ e.drawn

\* What is drawn right under an entity.
Below(c, i) == LET n == Position(c.lists[i.type], i.id) IN IF n > 1 THEN c.lists[i.type][n - 1].id ELSE 0

-----------------------------------------------------------------------------
(* New entities.                                                           *)

NoAdapter == [type |-> "none", model |-> None]
initialControlNet == [type |-> "controlnet", model |-> None]
initialIPAdapter == [type |-> "ip_adapter", model |-> None, clip |-> "ViT-H"]

\* The adapters a layer may be given when it is made from an image: with a model
\* of the base if there is one, or else of any base; a control net if there is one,
\* but which of them depends on the engine, as they are not sorted by an order.
DefaultAdapters ==
    LET fitting == {n \in DOMAIN ControlModels : base \in {"", ControlModels[n].base}}
        models == IF fitting # {} THEN fitting ELSE DOMAIN ControlModels
        nets == {n \in models : ControlModels[n].type = "controlnet"}
        adapter(m) == [type |-> IF m.type = "t2i_adapter" THEN "t2i_adapter" ELSE "controlnet", model |-> m]
    IN  {adapter(ControlModels[n]) : n \in IF nets # {} THEN nets ELSE {Min(models)}}

\* The first installed IP adapter of the base.
DefaultRefImageConfig ==
    LET fits == {n \in installed : RefModels[n].type = "ip_adapter" /\ RefModels[n].base = base}
    IN  IF fits = {} THEN initialIPAdapter
        ELSE [initialIPAdapter EXCEPT !.model = RefModels[Min(fits)],
                                      !.clip = IF base = "flux" THEN "ViT-L" ELSE @]

NewEntity(t, id) ==
    [id |-> id, enabled |-> TRUE, drawn |-> FALSE,
     adapter |-> IF t = "control_layer" THEN initialControlNet ELSE NoAdapter,
     refs |-> <<>>]

-----------------------------------------------------------------------------
(* The canvas that each reducer returns.                                   *)

resetInpaintMasksHiddenIfEmpty(c) ==
    IF c.lists["inpaint_mask"] = <<>> THEN [c EXCEPT !.hidden["inpaint_mask"] = FALSE] ELSE c

\* rasterLayerAdded, controlLayerAdded, inpaintMaskAdded, rgAdded.  An id to add
\* after that is gone puts the entity first.
Added(c, t, e, addAfter, delete, disable, isSelected) ==
    LET list == c.lists[t]
        at == IF addAfter = None THEN Len(list) + 1 ELSE Position(list, addAfter.id) + 1
        grown == InsertAt(list, at, e)
        disabled == [n \in DOMAIN grown |->
                        IF grown[n].id \in disable THEN [grown[n] EXCEPT !.enabled = FALSE] ELSE grown[n]]
        d == [c EXCEPT !.lists[t] = Without(disabled, delete)]
        f == IF t = "inpaint_mask" THEN resetInpaintMasksHiddenIfEmpty(d) ELSE d
    IN  IF isSelected \/ delete # {} \/ disable # {}
        THEN [f EXCEPT !.selected = getEntityIdentifier(t, e.id)] ELSE f

\* Mutated form.  The source goes, the selection stays.
ConvertedUnselected(c, i, t, e, replace) ==
    LET d == IF replace THEN [c EXCEPT !.lists[i.type] = Without(@, {i.id})] ELSE c
        f == IF i.type = "inpaint_mask" /\ replace THEN resetInpaintMasksHiddenIfEmpty(d) ELSE d
    IN  [f EXCEPT !.lists[t] = Append(@, e)]

\* rasterLayerConvertedToControlLayer and its like.
Converted(c, i, t, e, replace) ==
    LET d == IF replace THEN [c EXCEPT !.lists[i.type] = Without(@, {i.id})] ELSE c
        f == IF i.type = "inpaint_mask" /\ replace THEN resetInpaintMasksHiddenIfEmpty(d) ELSE d
    IN  [f EXCEPT !.lists[t] = Append(@, e), !.selected = getEntityIdentifier(t, e.id)]

Conversions ==
    {<<"raster_layer", "control_layer">>, <<"raster_layer", "inpaint_mask">>,
     <<"raster_layer", "regional_guidance">>, <<"control_layer", "raster_layer">>,
     <<"control_layer", "inpaint_mask">>, <<"control_layer", "regional_guidance">>,
     <<"regional_guidance", "inpaint_mask">>, <<"inpaint_mask", "regional_guidance">>}

\* entityDeleted: what comes next in the list is selected.
Deleted(c, i) ==
    LET all == selectAllEntities(c)
        n == CHOOSE k \in DOMAIN all : all[k] = i
        next == IF Len(all) > 1 THEN all[(n % Len(all)) + 1] ELSE None
        d == [c EXCEPT !.lists[i.type] = Without(@, {i.id})]
    IN  [resetInpaintMasksHiddenIfEmpty(d) EXCEPT !.selected = next]

Updated(c, i, new) == [c EXCEPT !.lists[i.type][Position(c.lists[i.type], i.id)] = new]

Entity(c, i) == c.lists[i.type][Position(c.lists[i.type], i.id)]

\* moveOneToEnd, moveToEnd, moveOneToStart, moveToStart.
Moved(list, n, to) == InsertAt(RemoveAt(list, n), to, list[n])

-----------------------------------------------------------------------------
(* The models.                                                             *)

\* controlLayerModelChanged.  An adapter for z-image stays one unless it is
\* given a control net.
AdapterFor(adapter, model) ==
    LET type == CASE model = None -> adapter.type
                  [] model # None /\ model.type = "controlnet" ->
                        IF model.base = "z-image" THEN "z_image_control" ELSE "controlnet"
                  [] OTHER -> IF adapter.type = "z_image_control" THEN adapter.type ELSE model.type
    IN  [type |-> type, model |-> model]

\* Mutated form.  An IP adapter takes any model.
RefForAny(config, model) ==
    CASE model = None -> [config EXCEPT !.model = None]
      [] model # None /\ config.type = "flux_redux" /\ model.type = "ip_adapter" ->
            [initialIPAdapter EXCEPT !.model = model]
      [] model # None /\ config.type = "flux_redux" /\ model.type = "flux_redux" -> config
      [] OTHER -> [config EXCEPT !.model = model,
                                 !.clip = IF model.base = "flux" THEN "ViT-L"
                                          ELSE IF @ = "ViT-L" THEN "ViT-H" ELSE @]

\* rgRefImageModelChanged.  A FLUX Redux config does not take another FLUX Redux
\* model, and an IP adapter that takes its place comes with the first encoder.
RefFor(config, model) ==
    CASE model = None -> [config EXCEPT !.model = None]
      [] model # None /\ config.type = "ip_adapter" /\ model.type = "flux_redux" ->
            [config EXCEPT !.type = "flux_redux", !.model = model, !.clip = "none"]
      [] model # None /\ config.type = "flux_redux" /\ model.type = "ip_adapter" ->
            [initialIPAdapter EXCEPT !.model = model]
      [] model # None /\ config.type = "flux_redux" /\ model.type = "flux_redux" -> config
      [] OTHER -> [config EXCEPT !.model = model,
                                 !.clip = IF model.base = "flux" THEN "ViT-L"
                                          ELSE IF @ = "ViT-L" THEN "ViT-H" ELSE @]

RefsRefitted(refs, models, model) ==
    [k \in DOMAIN refs |->
        [refs[k] EXCEPT !.config = IF @.model \in models THEN RefFor(@, model) ELSE @]]

\* The regional reference images that have one of the models are given another.
Refitted(c, models, model) ==
    LET regions == c.lists["regional_guidance"]
    IN  [c EXCEPT !.lists["regional_guidance"] =
            [n \in DOMAIN regions |->
                [regions[n] EXCEPT !.refs = RefsRefitted(regions[n].refs, models, model)]]]

-----------------------------------------------------------------------------
(* The user's actions.  Most controls are off while the canvas is busy     *)
(* with a merge.                                                           *)

Room == Cardinality(Entities(canvas)) < MaxEntities
Idle == merging = None

Becomes(c) == canvas' = c /\ UNCHANGED <<base, installed, merging, saved>>

Fresh(n) == nextId' = nextId + n

\* From the menus: after the selected entity, if it is of the type.
AddEntity ==
    /\ Idle /\ Room
    /\ \E t \in Types :
        LET after == IF canvas.selected # None /\ canvas.selected.type = t THEN canvas.selected ELSE None
        IN  Becomes(Added(canvas, t, NewEntity(t, nextId), after, {}, {}, TRUE))
    /\ Fresh(1)

\* From an image, or the new region that comes with a reference image.
AddFromImage ==
    /\ Idle /\ Room
    /\ \E adapter \in DefaultAdapters :
        Becomes(Added(canvas, "control_layer",
                      [NewEntity("control_layer", nextId) EXCEPT !.drawn = TRUE, !.adapter = adapter],
                      None, {}, {}, TRUE))
    /\ Fresh(1)

AddRegionWithRefImage ==
    /\ Idle /\ Room
    /\ Becomes(Added(canvas, "regional_guidance",
                     [NewEntity("regional_guidance", nextId) EXCEPT
                        !.refs = <<[id |-> nextId + 1, config |-> DefaultRefImageConfig]>>],
                     None, {}, {}, TRUE))
    /\ Fresh(2)

\* Converted, or copied to another type.
ConvertEntity ==
    /\ Idle
    /\ \E i \in Entities(canvas), t \in Types, replace \in BOOLEAN :
       \E adapter \in IF t = "control_layer" THEN DefaultAdapters ELSE {NoAdapter} :
        LET new == [NewEntity(t, nextId) EXCEPT !.drawn = Entity(canvas, i).drawn, !.adapter = adapter]
        IN  /\ <<i.type, t>> \in Conversions
            /\ replace \/ Room
            /\ Becomes(Converted(canvas, i, t, new, replace))
    /\ Fresh(1)

\* Mutated form.  The reference images keep their ids.
entityDuplicatedSameRefs ==
    /\ Idle /\ Room
    /\ \E i \in Entities(canvas) :
        /\ Becomes(Added(canvas, i.type, [Entity(canvas, i) EXCEPT !.id = nextId], i, {}, {}, TRUE))
        /\ Fresh(1)

entityDuplicated ==
    /\ Idle /\ Room
    /\ \E i \in Entities(canvas) :
        LET e == Entity(canvas, i)
            new == [e EXCEPT !.id = nextId,
                             !.refs = [k \in DOMAIN e.refs |-> [e.refs[k] EXCEPT !.id = nextId + k]]]
        IN  /\ Becomes(Added(canvas, i.type, new, i, {}, {}, TRUE))
            /\ Fresh(1 + Len(e.refs))

entityDeleted == Idle /\ \E i \in Entities(canvas) : Becomes(Deleted(canvas, i)) /\ Fresh(0)

\* Brush, eraser, shape, lasso, gradient; or the entity is rasterized.
EntityDrawn ==
    /\ Idle
    /\ \E i \in Entities(canvas) : Becomes(Updated(canvas, i, [Entity(canvas, i) EXCEPT !.drawn = TRUE]))
    /\ Fresh(0)

entityReset ==
    /\ Idle
    /\ \E i \in Entities(canvas) :
        Becomes(Updated(canvas, i, [Entity(canvas, i) EXCEPT !.drawn = FALSE, !.enabled = TRUE]))
    /\ Fresh(0)

entityIsEnabledToggled ==
    /\ Idle
    /\ \E i \in Entities(canvas) : Becomes(Updated(canvas, i, [Entity(canvas, i) EXCEPT !.enabled = ~@]))
    /\ Fresh(0)

entitySelected ==
    /\ \E i \in Entities(canvas) : i # canvas.selected /\ Becomes([canvas EXCEPT !.selected = i])
    /\ Fresh(0)

\* entityArranged..., and entitiesReordered by dragging one in the list.
MoveEntity ==
    /\ \E i \in Entities(canvas) :
        \E to \in DOMAIN canvas.lists[i.type] \ {Position(canvas.lists[i.type], i.id)} :
            Becomes([canvas EXCEPT !.lists[i.type] = Moved(@, Position(@, i.id), to)])
    /\ Fresh(0)

allEntitiesOfTypeIsHiddenToggled ==
    /\ \E t \in Types :
        LET c == [canvas EXCEPT !.hidden[t] = ~@]
        IN  Becomes(IF t = "inpaint_mask" THEN resetInpaintMasksHiddenIfEmpty(c) ELSE c)
    /\ Fresh(0)

\* Hides the three other types if any of them shows something.
allNonRasterLayersIsHiddenToggled ==
    LET others == Types \ {"raster_layer"}
        hide == \E t \in others : canvas.lists[t] # <<>> /\ ~canvas.hidden[t]
        c == [canvas EXCEPT !.hidden = [t \in Types |-> IF t \in others THEN hide ELSE @[t]]]
    IN  Becomes(resetInpaintMasksHiddenIfEmpty(c)) /\ Fresh(0)

controlLayerModelChanged ==
    /\ Idle
    /\ \E i \in Entities(canvas), n \in DOMAIN ControlModels :
        /\ i.type = "control_layer"
        /\ Becomes(Updated(canvas, i, [Entity(canvas, i) EXCEPT !.adapter = AdapterFor(@, ControlModels[n])]))
    /\ Fresh(0)

rgRefImageAdded ==
    /\ \E i \in Entities(canvas) :
        /\ i.type = "regional_guidance" /\ Len(Entity(canvas, i).refs) < 2
        /\ Becomes(Updated(canvas, i, [Entity(canvas, i) EXCEPT
                        !.refs = Append(@, [id |-> nextId, config |-> DefaultRefImageConfig])]))
    /\ Fresh(1)

rgRefImageDeleted ==
    /\ \E i \in Entities(canvas) : \E r \in Ids(Entity(canvas, i).refs) :
        Becomes(Updated(canvas, i, [Entity(canvas, i) EXCEPT !.refs = Without(@, {r})]))
    /\ Fresh(0)

rgRefImageModelChanged ==
    /\ \E i \in Entities(canvas), n \in installed : \E k \in DOMAIN Entity(canvas, i).refs :
        Becomes(Updated(canvas, i, [Entity(canvas, i) EXCEPT !.refs[k].config = RefFor(@, RefModels[n])]))
    /\ Fresh(0)

-----------------------------------------------------------------------------
(* Merges.  The layers are composited and uploaded before the dispatch.    *)

\* Down onto the entity below; all that is visible, which stays; or a boolean
\* operation of two raster layers, which are disabled.
mergeByEntityIdentifiers ==
    /\ Idle /\ Room
    /\ \/ \E i \in Entities(canvas) :
            /\ Below(canvas, i) # 0
            /\ \E disable \in BOOLEAN :
                LET pair == {Below(canvas, i), i.id}
                IN  /\ disable => i.type = "raster_layer"
                    /\ merging' = [type |-> i.type, top |-> i.id,
                                   delete |-> IF disable THEN {} ELSE pair,
                                   disable |-> IF disable THEN pair ELSE {}]
       \/ \E t \in Types :
            LET seen == SelectSeq(canvas.lists[t], isVisibleEntity)
            IN  /\ Len(seen) > 1
                /\ merging' = [type |-> t, top |-> Last(seen).id, delete |-> {}, disable |-> {}]
    /\ UNCHANGED <<canvas, base, installed, saved>> /\ Fresh(0)

MergeEnds ==
    /\ ~Idle
    /\ merging' = None
    /\ canvas' = Added(canvas, merging.type, [NewEntity(merging.type, nextId) EXCEPT !.drawn = TRUE],
                       getEntityIdentifier(merging.type, merging.top), merging.delete, merging.disable, TRUE)
    /\ UNCHANGED <<base, installed, saved>> /\ Fresh(1)

MergeFails ==
    /\ ~Idle
    /\ merging' = None
    /\ UNCHANGED <<canvas, base, installed, saved>> /\ Fresh(0)

-----------------------------------------------------------------------------
(* Saved canvases.                                                         *)

Save ==
    /\ saved = None
    /\ saved' = [canvas EXCEPT !.via = "edits"]
    /\ UNCHANGED <<canvas, base, installed, merging>> /\ Fresh(0)

canvasMetadataRecalled ==
    /\ saved # None /\ \E t \in Types : saved.lists[t] # <<>>
    /\ Becomes(resetInpaintMasksHiddenIfEmpty([canvas EXCEPT !.lists = saved.lists, !.via = "edits",
                                                             !.orphan = canvas.selected]))
    /\ Fresh(0)

canvasProjectRecalled ==
    /\ saved # None
    /\ Becomes([canvas EXCEPT !.lists = saved.lists, !.selected = saved.selected,
                              !.via = "project", !.orphan = saved.orphan])
    /\ Fresh(0)

canvasSnapshotRestored == saved # None /\ canvas # saved /\ Becomes(saved) /\ Fresh(0)

EmptyCanvas ==
    [lists |-> [t \in Types |-> <<>>], hidden |-> [t \in Types |-> FALSE],
     selected |-> None, via |-> "edits", orphan |-> None]

\* The lists and what is hidden are those of a new canvas; the selection stays.
Emptied == [EmptyCanvas EXCEPT !.selected = canvas.selected, !.orphan = canvas.selected]

\* A client of the server recalls parameters: all entities are deleted, and the
\* control layers it names are added as their models have been looked up, at any time.
allEntitiesDeleted == Becomes(Emptied) /\ Fresh(0)

controlLayerRecalled ==
    /\ Room
    /\ \E n \in DOMAIN ControlModels, drawn \in BOOLEAN :
        LET adapter == [type |-> "controlnet", model |-> ControlModels[n]]
            new == [NewEntity("control_layer", nextId) EXCEPT !.drawn = drawn, !.adapter = adapter]
        IN  Becomes(Added(canvas, "control_layer", new, None, {}, {}, TRUE))
    /\ Fresh(1)

\* The menu's reset leaves a mask to paint on.
resetCanvasLayers ==
    /\ Becomes(Added(Emptied, "inpaint_mask", NewEntity("inpaint_mask", nextId), None, {}, {}, TRUE))
    /\ Fresh(1)

\* canvasReset, a layer with the image or a region that refers to it, and perhaps
\* a mask to paint on.  A merge goes on.
newCanvasFromImage ==
    /\ \E t \in Types, withRef, withMask \in BOOLEAN :
        LET e == IF withRef
                 THEN [NewEntity(t, nextId) EXCEPT !.refs = <<[id |-> nextId + 1, config |-> DefaultRefImageConfig]>>]
                 ELSE [NewEntity(t, nextId) EXCEPT !.drawn = TRUE]
            c == Added(EmptyCanvas, t, e, None, {}, {}, TRUE)
        IN  /\ withRef => t = "regional_guidance"
            /\ Becomes(IF withMask
                       THEN Added(c, "inpaint_mask", NewEntity("inpaint_mask", nextId + 2), None, {}, {}, TRUE)
                       ELSE c)
    /\ Fresh(3)

-----------------------------------------------------------------------------
(* Models come and go.                                                     *)

\* The listener of modelSelected gives reference images of another base, or of
\* no model, the first model that is installed, whatever its base.
modelSelected ==
    /\ \E b \in Bases \ {base} :
        LET first == IF installed = {} THEN None ELSE RefModels[Min(installed)]
            others == {m \in {RefModels[n] : n \in DOMAIN RefModels} : m.base # b}
        IN  base' = b /\ canvas' = Refitted(canvas, others \cup ({None} \ {first}), first)
    /\ UNCHANGED <<installed, merging, saved>> /\ Fresh(0)

\* modelsLoaded: what refers to a model that is gone, refers to none.
modelsLoaded ==
    /\ \E n \in installed :
        installed' = installed \ {n} /\ canvas' = Refitted(canvas, {RefModels[n]}, None)
    /\ UNCHANGED <<base, merging, saved>> /\ Fresh(0)

-----------------------------------------------------------------------------

Init ==
    /\ canvas = EmptyCanvas
    /\ base = ""
    /\ installed = DOMAIN RefModels
    /\ merging = None
    /\ saved = None
    /\ nextId = 1
    /\ changes = 0

Edit ==
    \/ AddEntity \/ AddFromImage \/ AddRegionWithRefImage \/ ConvertEntity \/ entityDuplicated
    \/ entityDeleted \/ EntityDrawn \/ entityReset \/ entityIsEnabledToggled \/ entitySelected
    \/ MoveEntity \/ allEntitiesOfTypeIsHiddenToggled
    \/ allNonRasterLayersIsHiddenToggled \/ controlLayerModelChanged \/ rgRefImageAdded
    \/ rgRefImageDeleted \/ rgRefImageModelChanged

Next ==
    /\ changes < MaxChanges /\ changes' = changes + 1
    /\ \/ Edit
       \/ mergeByEntityIdentifiers \/ MergeEnds \/ MergeFails
       \/ Save \/ canvasMetadataRecalled \/ canvasProjectRecalled \/ canvasSnapshotRestored
       \/ newCanvasFromImage \/ allEntitiesDeleted \/ controlLayerRecalled \/ resetCanvasLayers
       \/ modelSelected \/ modelsLoaded

Spec == Init /\ [][Next]_vars

-----------------------------------------------------------------------------
(* Properties.                                                             *)

AdapterType(a) ==
    a = NoAdapter \/ a.type \in {"controlnet", "t2i_adapter", "control_lora", "z_image_control"}

TypeOK ==
    /\ \A t \in Types : \A n \in DOMAIN canvas.lists[t] :
        LET e == canvas.lists[t][n]
        IN  /\ e.id \in 1 .. nextId - 1 /\ {e.enabled, e.drawn} \subseteq BOOLEAN
            /\ AdapterType(e.adapter) /\ (t = "control_layer" <=> e.adapter # NoAdapter)
            /\ e.refs # <<>> => t = "regional_guidance"
    /\ canvas.hidden \in [Types -> BOOLEAN]
    /\ installed \subseteq DOMAIN RefModels

\* The ids of an entity: its own, and those of its reference images.
IdsOf(e) == {e.id} \cup Ids(e.refs)

\* Whatever is copied, converted, merged or brought back, no two entities or
\* reference images of the canvas share an id: reducers and renderers find them
\* by it.
UniqueIds ==
    /\ \A t, u \in Types : \A m \in DOMAIN canvas.lists[t], n \in DOMAIN canvas.lists[u] :
          <<t, m>> # <<u, n>> => IdsOf(canvas.lists[t][m]) \cap IdsOf(canvas.lists[u][n]) = {}
    /\ \A t \in Types : \A n \in DOMAIN canvas.lists[t] :
          LET e == canvas.lists[t][n]
          IN  /\ e.id \notin Ids(e.refs)
              /\ \A j, k \in DOMAIN e.refs : e.refs[j].id = e.refs[k].id => j = k

\* What is selected is on the canvas, or it is still what was selected when the
\* lists were taken away, by allEntitiesDeleted or for those of an image's metadata,
\* which leave the selection alone.  Tools, hotkeys and menus act on it.
SelectionExists ==
    canvas.selected = None \/ Exists(canvas, canvas.selected) \/ canvas.selected = canvas.orphan

\* Masks are not hidden when there are none, or a new one could not be seen and
\* no list would offer to show it; a project, which brings no flags, may do that.
MasksShownIfEmpty ==
    canvas.lists["inpaint_mask"] = <<>> /\ canvas.via # "project" => ~canvas.hidden["inpaint_mask"]

\* The config of a region's reference image is of the kind of its model, and has
\* an image encoder exactly if it is an IP adapter: the graph is built by the one
\* and filled from the other.  Main models, installed models and saved canvases
\* change the model behind the user's back.
RefsWellFormed ==
    \A n \in DOMAIN canvas.lists["regional_guidance"] :
        \A k \in DOMAIN canvas.lists["regional_guidance"][n].refs :
            LET config == canvas.lists["regional_guidance"][n].refs[k].config
            IN  /\ config.model # None => config.model.type = config.type
                /\ config.clip = "none" <=> config.type = "flux_redux"

\* The types, and what the layer panel rests on: the selection is there, unless the
\* lists were taken from under it and nothing was selected since, and no empty list
\* of masks is hidden.
EntitiesInv == TypeOK /\ SelectionExists /\ MasksShownIfEmpty

===============================================================================
