------------------------------ MODULE BoundingBox ------------------------------
(***************************************************************************)
(* The size of what is generated: the canvas's bounding box (canvasSlice)  *)
(* and the dimensions of the generate tab (paramsSlice), which the same    *)
(* controls change, the selected model, which sets the grid and the area   *)
(* they should have, and the bbox tool, which drags the canvas's box.      *)
(*                                                                         *)
(* A dispatch is synchronous, so each action is one dispatch, or all that  *)
(* one handler dispatches.  Lengths are in units of 8 pixels, of which all *)
(* sizes that the controls, the grids and the models produce are           *)
(* multiples.  A ratio is a pair of numbers without a common divisor, for  *)
(* the quotient the code holds as a double.  The place of the box is left  *)
(* out.                                                                    *)
(*                                                                         *)
(* Rounding can make a side zero.  getScaledBoundingBoxDimensions, which   *)
(* grows a size until its area will do, does not return then, and the page *)
(* hangs; in other modes the ratio becomes zero, infinite or not a number. *)
(* The state is `broken` from there, and nothing after it is looked into.  *)
(***************************************************************************)
EXTENDS Integers, Sequences, FiniteSets, FiniteSetsExt

CONSTANTS
    Bases,     \* bases of main models that may be selected
    Ids,       \* aspect ratio ids on offer, besides "Free"
    Presets,   \* what an external model offers, in order: id, width, height
    Sizes,     \* bound: what the user sets a side to
    Drags,     \* bound: what a side is dragged to
    Layers,    \* bound: sides of the layers' visible rect
    Images,    \* bound: <<width, height>> of images whose size is used
    MaxSide,   \* bound: no side grows beyond it
    MaxChanges \* bound: changes in a behaviour

AspectRatioMap ==
    [i \in {"8:1", "4:1", "21:9", "16:9", "3:2", "5:4", "4:3", "1:1",
            "3:4", "4:5", "2:3", "9:16", "1:4", "9:21", "1:8"} |->
        CASE i = "8:1" -> [ratio |-> <<8, 1>>, inverseID |-> "1:8"]
          [] i = "4:1" -> [ratio |-> <<4, 1>>, inverseID |-> "1:4"]
          [] i = "21:9" -> [ratio |-> <<7, 3>>, inverseID |-> "9:21"]
          [] i = "16:9" -> [ratio |-> <<16, 9>>, inverseID |-> "9:16"]
          [] i = "3:2" -> [ratio |-> <<3, 2>>, inverseID |-> "2:3"]
          [] i = "5:4" -> [ratio |-> <<5, 4>>, inverseID |-> "4:5"]
          [] i = "4:3" -> [ratio |-> <<4, 3>>, inverseID |-> "4:3"]
          [] i = "1:1" -> [ratio |-> <<1, 1>>, inverseID |-> "1:1"]
          [] i = "3:4" -> [ratio |-> <<3, 4>>, inverseID |-> "4:3"]
          [] i = "4:5" -> [ratio |-> <<4, 5>>, inverseID |-> "5:4"]
          [] i = "2:3" -> [ratio |-> <<2, 3>>, inverseID |-> "3:2"]
          [] i = "9:16" -> [ratio |-> <<9, 16>>, inverseID |-> "16:9"]
          [] i = "1:4" -> [ratio |-> <<1, 4>>, inverseID |-> "4:1"]
          [] i = "9:21" -> [ratio |-> <<3, 7>>, inverseID |-> "21:9"]
          [] i = "1:8" -> [ratio |-> <<1, 8>>, inverseID |-> "8:1"]]

MainBases == {"sd-1", "sd-2", "sd-3", "sdxl", "flux", "flux2", "cogview4",
              "qwen-image", "z-image", "anima"}

ASSUME BoundingBoxAssumption ==
    /\ Bases \subseteq MainBases /\ "sd-1" \in Bases
    /\ Ids \subseteq DOMAIN AspectRatioMap
    /\ Presets \in Seq([id : Ids, w : Nat \ {0}, h : Nat \ {0}])
    /\ Sizes \subseteq Nat \ 0 .. 7
    /\ Drags \subseteq Nat \ {0} /\ Layers \subseteq Nat
    /\ MaxSide \in Nat /\ MaxChanges \in Nat
    /\ Images \subseteq (Nat \ {0}) \X (Nat \ {0})

VARIABLES
    bbox,      \* of canvasSlice: rect, aspectRatio, scaledSize, scaleMethod, modelBase
    dims,      \* of paramsSlice: dimensions
    model,     \* of paramsSlice: the base of the selected model, "none" or "external"
    staging,   \* the staging area holds images
    buffer,    \* $aspectRatioBuffer of the bbox tool
    dragging,  \* an anchor of the bbox is being dragged
    broken,
    tab,       \* the tab whose controls are used; bound: a behaviour stays on it
    changes    \* how many changes were made

vars == <<bbox, dims, model, staging, buffer, dragging, broken, tab, changes>>

-----------------------------------------------------------------------------
(* Arithmetic.                                                             *)

GCD[a \in Nat, b \in Nat] == IF b = 0 THEN a ELSE GCD[b, a % b]

\* The quotient of two sides, as a ratio.
Quotient(w, h) == LET g == GCD[w, h] IN IF g = 0 THEN <<0, 0>> ELSE <<w \div g, h \div g>>

Inverted(r) == <<r[2], r[1]>>

roundDownToMultiple(n, g) == (n \div g) * g

\* Math.round rounds a half up: n/d, to a multiple of g.
roundToMultiple(n, d, g) == ((2 * n + d * g) \div (2 * d * g)) * g

ISqrt[n \in Nat] ==
    IF n = 0 THEN 0
    ELSE LET r == 2 * ISqrt[n \div 4] IN IF (r + 1) * (r + 1) <= n THEN r + 1 ELSE r

\* The root of n/d, to a multiple k * g of g: the largest with (2k - 1) * g / 2
\* not above the root.
RootToMultiple(n, d, g) == ((ISqrt[(4 * n) \div (g * g * d)] + 1) \div 2) * g

-----------------------------------------------------------------------------
(* What a model wants: optimalDimension.ts.                                *)

getOptimalDimension(base) == IF base \in {"sd-1", "sd-2"} THEN 64 ELSE 128

getGridSize(base) ==
    CASE base = "cogview4" -> 4
      [] base \in {"flux", "flux2", "sd-3", "qwen-image", "z-image"} -> 2
      [] OTHER -> 1

SDXLTrainingDimensions ==
    {<<64, 256>>, <<64, 248>>, <<64, 240>>, <<64, 232>>, <<72, 224>>, <<72, 216>>, <<72, 208>>,
     <<80, 200>>, <<80, 192>>, <<88, 184>>, <<88, 176>>, <<88, 168>>, <<96, 168>>, <<96, 160>>,
     <<104, 152>>, <<104, 144>>, <<112, 144>>, <<112, 136>>, <<120, 136>>, <<120, 128>>,
     <<128, 128>>}

isInSDXLTrainingDimensions(w, h) == {<<w, h>>, <<h, w>>} \cap SDXLTrainingDimensions # {}

TargetArea(base) == getOptimalDimension(base) * getOptimalDimension(base)

\* Within 20% of the area.
getIsSizeOptimal(x, base) ==
    /\ 5 * x.w * x.h >= 4 * TargetArea(base)
    /\ 5 * x.w * x.h <= 6 * TargetArea(base)

-----------------------------------------------------------------------------
(* getScaledBoundingBoxDimensions.ts                                       *)

\* A size of the ratio with the area.
calculateNewSize(ratio, area, base) ==
    [w |-> RootToMultiple(area * ratio[1], ratio[2], getGridSize(base)),
     h |-> RootToMultiple(area * ratio[2], ratio[1], getGridSize(base))]

\* A size on the grid, of a size.
Gridded(x, base) ==
    [w |-> roundToMultiple(x.w, 1, getGridSize(base)), h |-> roundToMultiple(x.h, 1, getGridSize(base))]

\* The loop would not end: a side is zero whatever the other becomes.
Hangs(x, base) ==
    LET y == Gridded(x, base)
    IN  /\ ~(base = "sdxl" /\ isInSDXLTrainingDimensions(x.w, x.h))
        /\ (y.w = 0) # (y.h = 0)

\* Scaled up, if it must be: the longer side grows by the grid from the optimal
\* dimension, and the shorter follows, until the area will do.
getScaledBoundingBoxDimensions(x, base) ==
    LET y == Gridded(x, base)
        g == getGridSize(base)
        with[m \in Nat] ==
            IF y.w > y.h THEN [w |-> m, h |-> roundToMultiple(m * y.h, y.w, g)]
                         ELSE [w |-> roundToMultiple(m * y.w, y.h, g), h |-> m]
        enough(m) == with[m].w * with[m].h >= TargetArea(base)
        opt == getOptimalDimension(base)
        grown == CHOOSE n \in 0 .. TargetArea(base) :
                    enough(opt + n * g) /\ (n > 0 => ~enough(opt + (n - 1) * g))
    IN  IF base = "sdxl" /\ isInSDXLTrainingDimensions(x.w, x.h) THEN [w |-> x.w, h |-> x.h]
        ELSE IF y.w * y.h >= TargetArea(base) THEN y
        ELSE IF y.w = y.h THEN [w |-> opt, h |-> opt]
        ELSE with[opt + grown * g]

-----------------------------------------------------------------------------
(* The changes of a size, which the two slices share: x is the size, its   *)
(* ratio, the ratio's id and lock.                                         *)

Sized(x, size) == [x EXCEPT !.w = size.w, !.h = size.h]

\* The ratio is what the sides make it.
Freed(x) == [x EXCEPT !.ratio = Quotient(x.w, x.h), !.id = "Free"]

Clamped(n, base) == Max({roundDownToMultiple(n, getGridSize(base)), 8})

\* Mutated form.  A side that is set on its own leaves the ratio.
SetSideOnly(x, y, update) == IF update THEN [Freed(y) EXCEPT !.locked = FALSE] ELSE y

\* From x to y one side was set, and the other followed if the ratio is locked.
SetSide(x, y, update) ==
    IF update \/ ~x.locked THEN [Freed(y) EXCEPT !.locked = FALSE] ELSE y

widthChanged(x, base, width, recalled) ==
    LET w == IF recalled THEN Clamped(width, base) ELSE width
        h == IF x.locked THEN roundToMultiple(w * x.ratio[2], x.ratio[1], getGridSize(base)) ELSE x.h
    IN  SetSide(x, Sized(x, [w |-> w, h |-> h]), recalled)

heightChanged(x, base, height, recalled) ==
    LET h == IF recalled THEN Clamped(height, base) ELSE height
        w == IF x.locked THEN roundToMultiple(h * x.ratio[1], x.ratio[2], getGridSize(base)) ELSE x.w
    IN  SetSide(x, Sized(x, [w |-> w, h |-> h]), recalled)

sizeRecalled(x, base, image) ==
    [Freed(Sized(x, [w |-> Clamped(image[1], base), h |-> Clamped(image[2], base)]))
        EXCEPT !.locked = TRUE]

Reshaped(x, base, ratio, area) == Sized([x EXCEPT !.ratio = ratio], calculateNewSize(ratio, area, base))

aspectRatioIdChanged(x, base, id) ==
    IF id = "Free" THEN [x EXCEPT !.id = id, !.locked = FALSE]
    ELSE [Reshaped(x, base, AspectRatioMap[id].ratio, x.w * x.h) EXCEPT !.id = id, !.locked = TRUE]

dimensionsSwapped(x, base) ==
    IF x.id = "Free" THEN [Sized(x, [w |-> x.h, h |-> x.w]) EXCEPT !.ratio = Inverted(@)]
    ELSE [Reshaped(x, base, Inverted(x.ratio), x.w * x.h)
             EXCEPT !.id = AspectRatioMap[x.id].inverseID]

Default(x, size) == [Sized(x, size) EXCEPT !.ratio = <<1, 1>>, !.id = "1:1", !.locked = FALSE]

sizeOptimized(x, base) ==
    IF x.locked THEN Reshaped(x, base, x.ratio, TargetArea(base))
    ELSE Default(x, [w |-> getOptimalDimension(base), h |-> getOptimalDimension(base)])

syncedToOptimalDimension(x, base) ==
    IF getIsSizeOptimal(x, base) THEN x ELSE Reshaped(x, base, x.ratio, TargetArea(base))

\* resolutionPresetSelected, and aspectRatioIdChanged with a fixed size.
presetSelected(x, p) ==
    [Freed(Sized(x, p)) EXCEPT !.id = p.id, !.locked = TRUE]

-----------------------------------------------------------------------------
(* canvasSlice                                                             *)

\* Mutated form.  A size scaled by hand is left as it is.
SyncAutoOnly(b) ==
    IF b.method = "auto" THEN [b EXCEPT !.scaled = getScaledBoundingBoxDimensions(b, b.base)] ELSE b

\* syncScaledSize, where it returns.
syncScaledSize(b) ==
    CASE b.method = "auto" -> [b EXCEPT !.scaled = getScaledBoundingBoxDimensions(b, b.base)]
      [] b.method = "manual" /\ b.locked ->
            [b EXCEPT !.scaled = calculateNewSize(b.ratio, b.scaled.w * b.scaled.h, b.base)]
      [] OTHER -> b

Proper(x) == x.w > 0 /\ x.h > 0

\* The bound on sizes.
Small(x) == x.w <= MaxSide /\ x.h <= MaxSide

\* The reducer ends with the sync: b becomes the state, if it can be synced.
Synced(b) ==
    /\ Small(b)
    /\ IF ~Proper(b) \/ (b.method = "auto" /\ Hangs(b, b.base))
       THEN broken' = TRUE /\ UNCHANGED <<bbox, dims, model, staging, buffer, dragging>>
       ELSE bbox' = syncScaledSize(b) /\ UNCHANGED broken

\* bboxChangedFromCanvas does not sync if the ratio is the same.
bboxChangedFromCanvas(w, h) ==
    LET b == Sized(bbox, [w |-> w, h |-> h])
    IN  IF Quotient(w, h) = bbox.ratio \/ (w = bbox.w /\ h = bbox.h)
        THEN Small(b) /\ bbox' = b /\ UNCHANGED broken
        ELSE Synced(Freed(b))

InitialBbox ==
    [w |-> 64, h |-> 64, ratio |-> <<1, 1>>, id |-> "1:1", locked |-> FALSE,
     scaled |-> [w |-> 64, h |-> 64], method |-> "auto", base |-> "sd-1"]

resetState(b) ==
    LET new == [InitialBbox EXCEPT !.base = b.base]
    IN  syncScaledSize(Reshaped(new, b.base, new.ratio, TargetArea(b.base)))

-----------------------------------------------------------------------------
(* The canvas tab's controls.  They are off while images are staged, and   *)
(* while the model has fixed sizes.                                        *)

hasFixedDimensionSizes == model = "external" /\ Presets # <<>>

Responsive == ~broken /\ ~dragging

isBboxSizeLocked == staging \/ hasFixedDimensionSizes

CanvasOnly == UNCHANGED <<dims, model, staging, buffer, dragging>>

Control(b) == Responsive /\ ~isBboxSizeLocked /\ Synced(b) /\ CanvasOnly

bboxWidthChanged == \E n \in Sizes : Control(widthChanged(bbox, bbox.base, n, FALSE))
bboxHeightChanged == \E n \in Sizes : Control(heightChanged(bbox, bbox.base, n, FALSE))
bboxAspectRatioLockToggled == Control([bbox EXCEPT !.locked = ~@])
bboxAspectRatioIdChanged ==
    \E id \in Ids \cup {"Free"} : Control(aspectRatioIdChanged(bbox, bbox.base, id))
bboxDimensionsSwapped == Control(dimensionsSwapped(bbox, bbox.base))
bboxSizeOptimized == Control(sizeOptimized(bbox, bbox.base))
bboxScaleMethodChanged ==
    \E m \in {"none", "auto", "manual"} : Control([bbox EXCEPT !.method = m])

\* In the manual mode, a scaled side is set; the other follows if it must.
bboxScaledWidthChanged ==
    /\ Responsive /\ ~isBboxSizeLocked /\ bbox.method = "manual"
    /\ \E n \in Sizes :
        LET g == getGridSize(bbox.base)
            w == roundToMultiple(n, 1, g)
            h == IF bbox.locked THEN roundToMultiple(w * bbox.ratio[2], bbox.ratio[1], g)
                 ELSE bbox.scaled.h
        IN  bbox' = [bbox EXCEPT !.scaled = [w |-> w, h |-> h]]
    /\ CanvasOnly /\ UNCHANGED broken

bboxScaledHeightChanged ==
    /\ Responsive /\ ~isBboxSizeLocked /\ bbox.method = "manual"
    /\ \E n \in Sizes :
        LET g == getGridSize(bbox.base)
            h == roundToMultiple(n, 1, g)
            w == IF bbox.locked THEN roundToMultiple(h * bbox.ratio[1], bbox.ratio[2], g)
                 ELSE bbox.scaled.w
        IN  bbox' = [bbox EXCEPT !.scaled = [w |-> w, h |-> h]]
    /\ CanvasOnly /\ UNCHANGED broken

\* Recalled from an image's metadata, a side at a time, or the whole size of a
\* reference image, which is then made optimal.
RecallBboxWidth ==
    /\ Responsive /\ ~staging
    /\ \E n \in Sizes : Synced(widthChanged(bbox, bbox.base, n, TRUE))
    /\ CanvasOnly
RecallBboxHeight ==
    /\ Responsive /\ ~staging
    /\ \E n \in Sizes : Synced(heightChanged(bbox, bbox.base, n, TRUE))
    /\ CanvasOnly
RecallBboxSizeAndOptimize ==
    /\ Responsive /\ ~staging
    /\ \E i \in Images : Synced(sizeOptimized(sizeRecalled(bbox, bbox.base, i), bbox.base))
    /\ CanvasOnly

\* A new canvas from an image: the canvas is reset, and the box takes its shape.
newCanvasFromImage ==
    /\ Responsive /\ ~staging
    /\ \E i \in Images :
        LET b == resetState(bbox)
            c == Sized(b, calculateNewSize(Quotient(i[1], i[2]), TargetArea(bbox.base), bbox.base))
        IN  IF Quotient(c.w, c.h) = b.ratio THEN bbox' = c /\ UNCHANGED broken ELSE Synced(Freed(c))
    /\ CanvasOnly

-----------------------------------------------------------------------------
(* The bbox tool: CanvasBboxToolModule.                                    *)

RootToMultipleMin(n, d, g) == Max({RootToMultiple(n, d, g), g})

\* An anchor is dragged, to w by h on the grid.  The ratio to maintain is the
\* buffer's.
onTransform ==
    /\ ~broken
    /\ ~isBboxSizeLocked
    /\ \E ctrl, alt, shift \in BOOLEAN, w, h \in Drags :
        LET unit == IF ctrl THEN getGridSize(bbox.base) ELSE 8
            grid == IF alt THEN 2 * unit ELSE unit
            maintain == ~alt /\ (bbox.locked # shift)
            fitted == IF maintain
                      THEN [w |-> RootToMultipleMin(w * h * buffer[1], buffer[2], grid),
                            h |-> RootToMultipleMin(w * h * buffer[2], buffer[1], grid)]
                      ELSE [w |-> w, h |-> h]
        IN  /\ w % grid = 0 /\ h % grid = 0
            /\ bboxChangedFromCanvas(fitted.w, fitted.h)
            /\ ~broken' =>
                 /\ buffer' = IF maintain THEN buffer ELSE Quotient(fitted.w, fitted.h)
                 /\ dragging' = TRUE
    /\ UNCHANGED <<dims, model, staging>>

onTransformEnd ==
    /\ ~broken /\ dragging
    /\ dragging' = FALSE
    /\ buffer' = Quotient(bbox.w, bbox.h)
    /\ UNCHANGED <<bbox, dims, model, staging, broken>>

\* fitToLayers, and fitBBoxToMasks: the visible rect, its sides rounded down.
fitToLayers ==
    /\ Responsive /\ ~staging
    /\ \E w, h \in Layers :
        LET g == getGridSize(bbox.base)
        IN  /\ w > 0 /\ h > 0
            /\ bboxChangedFromCanvas(roundDownToMultiple(w, g), roundDownToMultiple(h, g))
    /\ CanvasOnly

-----------------------------------------------------------------------------
(* The generate tab's controls.  An aspect ratio with a fixed size is      *)
(* passed on to the canvas.                                                *)

Dimensions(x) ==
    /\ Responsive /\ Small(x)
    /\ IF Proper(x) THEN dims' = x /\ UNCHANGED broken ELSE broken' = TRUE /\ UNCHANGED dims
    /\ UNCHANGED <<bbox, model, staging, buffer, dragging>>

setWidth == ~hasFixedDimensionSizes /\ \E n \in Sizes : Dimensions(widthChanged(dims, model, n, FALSE))
setHeight == ~hasFixedDimensionSizes /\ \E n \in Sizes : Dimensions(heightChanged(dims, model, n, FALSE))
aspectRatioLockToggled == ~hasFixedDimensionSizes /\ Dimensions([dims EXCEPT !.locked = ~@])
setAspectRatioId ==
    /\ ~hasFixedDimensionSizes
    /\ \E id \in Ids \cup {"Free"} : Dimensions(aspectRatioIdChanged(dims, model, id))
swapDimensions == ~hasFixedDimensionSizes /\ Dimensions(dimensionsSwapped(dims, model))
optimizeSize == ~hasFixedDimensionSizes /\ Dimensions(sizeOptimized(dims, model))
RecallWidth == \E n \in Sizes : Dimensions(widthChanged(dims, model, n, TRUE))
RecallHeight == \E n \in Sizes : Dimensions(heightChanged(dims, model, n, TRUE))
RecallSizeAndOptimize ==
    \E i \in Images : Dimensions(sizeOptimized(sizeRecalled(dims, model, i), model))

\* A preset of an external model, from either tab: both slices take it.
resolutionPresetSelected ==
    /\ Responsive /\ hasFixedDimensionSizes
    /\ \E n \in DOMAIN Presets :
        /\ Synced(presetSelected(bbox, Presets[n]))
        /\ dims' = presetSelected(dims, Presets[n])
    /\ UNCHANGED <<model, staging, buffer, dragging>>

-----------------------------------------------------------------------------
(* The model.                                                              *)

\* Mutated form.  The base changes, the scaled size waits for the next change.
RebasedOnly(b, m) == IF m \in MainBases THEN [b EXCEPT !.base = m] ELSE b

\* modelChanged in canvasSlice.
Rebased(b, m) ==
    IF m \in MainBases /\ b.base # m THEN syncScaledSize([b EXCEPT !.base = m]) ELSE b

\* The listener of modelSelected.  Whether to sync is judged by the state before
\* the change; an external model brings its first preset.
modelSelected ==
    /\ Responsive
    /\ \E m \in Bases \cup {"external"} :
        LET differs == bbox.base # model
            b == Rebased(bbox, m)
            c == IF differs /\ ~staging /\ ~getIsSizeOptimal(b, b.base)
                 THEN syncScaledSize(syncedToOptimalDimension(b, b.base)) ELSE b
            x == IF differs THEN syncedToOptimalDimension(dims, m) ELSE dims
            preset == m = "external" /\ Presets # <<>>
        IN  /\ m # model
            /\ m \in MainBases /\ bbox.base # m /\ bbox.method = "auto" => ~Hangs(bbox, m)
            /\ Small(c) /\ Small(x)
            /\ model' = m
            /\ bbox' = IF preset THEN syncScaledSize(presetSelected(c, Presets[1])) ELSE c
            /\ dims' = IF preset THEN presetSelected(x, Presets[1]) ELSE x
    /\ UNCHANGED <<staging, buffer, dragging, broken>>

\* A small box hangs the page when a coarser grid rounds a side of it to zero.
modelSelectedBreaks ==
    /\ Responsive
    /\ \E m \in Bases : bbox.base # m /\ bbox.method = "auto" /\ Hangs(bbox, m)
    /\ broken' = TRUE
    /\ UNCHANGED <<bbox, dims, model, staging, buffer, dragging>>

\* The first image arrives in the staging area, or the last is gone.
StagingChanges ==
    /\ ~broken
    /\ staging' = ~staging
    /\ UNCHANGED <<bbox, dims, model, buffer, dragging, broken>>

canvasReset ==
    /\ Responsive
    /\ bbox' = resetState(bbox)
    /\ CanvasOnly /\ UNCHANGED broken

-----------------------------------------------------------------------------

InitialDimensions == [w |-> 64, h |-> 64, ratio |-> <<1, 1>>, id |-> "1:1", locked |-> FALSE]

Init ==
    /\ bbox = InitialBbox
    /\ dims = InitialDimensions
    /\ model = "none"
    /\ staging = FALSE
    /\ buffer = <<1, 1>>
    /\ dragging = FALSE
    /\ broken = FALSE
    /\ tab \in {"canvas", "generate"}
    /\ changes = 0

Canvas ==
    \/ bboxWidthChanged \/ bboxHeightChanged \/ bboxAspectRatioLockToggled
    \/ bboxAspectRatioIdChanged \/ bboxDimensionsSwapped \/ bboxSizeOptimized
    \/ bboxScaleMethodChanged \/ bboxScaledWidthChanged \/ bboxScaledHeightChanged
    \/ RecallBboxWidth \/ RecallBboxHeight \/ RecallBboxSizeAndOptimize
    \/ newCanvasFromImage \/ onTransform \/ onTransformEnd \/ fitToLayers \/ canvasReset

Generate ==
    \/ setWidth \/ setHeight \/ aspectRatioLockToggled \/ setAspectRatioId \/ swapDimensions
    \/ optimizeSize \/ RecallWidth \/ RecallHeight \/ RecallSizeAndOptimize

Model == resolutionPresetSelected \/ modelSelected \/ modelSelectedBreaks \/ StagingChanges

Next ==
    /\ \/ tab = "canvas" /\ Canvas
       \/ tab = "generate" /\ Generate
       \/ Model
    /\ changes < MaxChanges /\ changes' = changes + 1
    /\ UNCHANGED tab

Spec == Init /\ [][Next]_vars

-----------------------------------------------------------------------------
(* Properties.                                                             *)

SizeType(x) ==
    /\ x.w \in Nat /\ x.h \in Nat
    /\ x.id \in Ids \cup {"Free"}
    /\ x.locked \in BOOLEAN

TypeOK ==
    /\ SizeType(bbox) /\ SizeType(dims)
    /\ bbox.method \in {"none", "auto", "manual"} /\ bbox.base \in Bases
    /\ model \in Bases \cup {"none", "external"}
    /\ buffer \in (Nat \ {0}) \X (Nat \ {0})
    /\ {staging, dragging, broken} \subseteq BOOLEAN

Dist(a, b) == IF a > b THEN a - b ELSE b - a

\* The coarsest grid a size may have been rounded to.
Coarsest == Max({getGridSize(b) : b \in Bases})

\* The sides agree with the stored ratio: each is within half a grid of what
\* the ratio makes of the other, whichever control, tool or model set them.
Follows(x) ==
    2 * Dist(x.w * x.ratio[2], x.h * x.ratio[1]) <= Coarsest * (x.ratio[1] + x.ratio[2])

ShapeFollowsRatio == Follows(bbox) /\ Follows(dims)

\* The id on show names the stored ratio, unless a preset brought both (and they
\* may have been swapped since).
Labelled(x) ==
    \/ x.id = "Free" \/ x.ratio = AspectRatioMap[x.id].ratio
    \/ \E n \in DOMAIN Presets :
          Quotient(Presets[n].w, Presets[n].h) \in {x.ratio, Inverted(x.ratio)}

LabelTrue == Labelled(bbox) /\ Labelled(dims)

\* What is generated for an automatically scaled box is of the area that the
\* model wants at least, on the model's grid, and lies the way the box does.
AutoScaledFits ==
    bbox.method = "auto" =>
        LET s == bbox.scaled
            g == getGridSize(bbox.base)
        IN  \/ bbox.base = "sdxl" /\ isInSDXLTrainingDimensions(s.w, s.h)
            \/ /\ s.w * s.h >= TargetArea(bbox.base)
               /\ s.w % g = 0 /\ s.h % g = 0
               /\ bbox.w > bbox.h => s.w >= s.h
               /\ bbox.w < bbox.h => s.w <= s.h

\* A box that is scaled by hand keeps the ratio it is locked to.
ManualFollowsLock ==
    bbox.method = "manual" /\ bbox.locked =>
        2 * Dist(bbox.scaled.w * bbox.ratio[2], bbox.scaled.h * bbox.ratio[1])
            <= Coarsest * (bbox.ratio[1] + bbox.ratio[2])

\* The types; and the two sizes that are derived from others, the label of the
\* ratio and the scaled size of a locked box, agree with them.
BoxInv == TypeOK /\ LabelTrue /\ ManualFollowsLock

===============================================================================
