---------------------------- MODULE LayerFilterProofs ----------------------------
(***************************************************************************)
(* Safety of the layer filter composed with the graph runs it starts, for  *)
(* every number of runs, configs, starts, edits and losses.                *)
(***************************************************************************)
EXTENDS LayerFilter, TLAPS

-------------------------------------------------------------------------------
(***************************************************************************)
(* The strengthening.                                                      *)
(***************************************************************************)

\* The request, the row of the queue and the events on the socket agree.
RequestsMatch ==
    \A r \in Runs :
        /\ stage[r] = "unused" <=> request[r] = "unsent"
        /\ request[r] \in {"unsent", "sent"} => item[r] = "none"
        /\ request[r] \in {"served", "answered"} => item[r] # "none"
        /\ stage[r] = "canceling" => request[r] = "answered"

Over(r) == item[r] \in Ended \cup {"cleared"}

\* An event tells of an item that ended, and so does a promise that heard one.
EventsTrue ==
    /\ \A r \in ToSet(events) : r \in Runs => Over(r)
    /\ \A r \in Runs : stage[r] \in {"reading", "output", "aborted"} => Over(r)

\* A run that was aborted never yields an output.
StoppedEnds == \A r \in Runs : r \in stopped => stage[r] \in {"canceling", "error", "aborted", "blind"}

RunInv == RunTypeOK /\ RequestsMatch /\ EventsTrue /\ StoppedEnds /\ EndIsHeard

\* processImmediate waits for the graph exactly while its promise is pending.
PhasesMatch ==
    \A r \in Runs :
        /\ phase[r] = "graph" <=> stage[r] \in {"waiting", "reading", "canceling"}
        /\ phase[r] \in {"none", "rasterizing"} => stage[r] = "unused"
        /\ phase[r] \in {"fetching", "rendering"} => stage[r] = "output"

\* Outside a filter, what is under way was out of reach, or is being canceled.
EscapeesKnown ==
    ~ui.filtering => /\ \A r \in Runs : phase[r] \in UnderWay => r \in escaped \/ stage[r] = "canceling"
                     /\ image # 0 => escaped # {}

\* A run's image was made before: the run is past its waits for it.
Made(r) == stage[r] = "output" /\ phase[r] \in {"rendering", "over"}

\* The preview, what it replaces, and what the layer holds are three images.
ImagesApart ==
    /\ image # 0 => Made(image) /\ image # content
    /\ content # 0 => Made(content)
    /\ \A r \in Runs : old[r] # 0 => Made(old[r]) /\ old[r] # image /\ old[r] # content

IInv ==
    /\ TypeOK
    /\ RunInv
    /\ PhasesMatch
    /\ EscapeesKnown
    /\ ImagesApart
    /\ HashNeedsImage
    /\ HiddenWithReason
    /\ AppliedStays

-------------------------------------------------------------------------------
(***************************************************************************)
(* The events on the socket.                                               *)
(***************************************************************************)

\* Sending an event adds it to those on the socket.
LEMMA ToSetAppend ==
    ASSUME NEW S, NEW s \in Seq(S), NEW x \in S
    PROVE  Append(s, x) \in Seq(S) /\ ToSet(Append(s, x)) = ToSet(s) \cup {x}
<1>1. DOMAIN Append(s, x) = DOMAIN s \cup {Len(s) + 1}
  OBVIOUS
<1>2. \A i \in DOMAIN s : Append(s, x)[i] = s[i]
  OBVIOUS
<1>3. Append(s, x)[Len(s) + 1] = x
  OBVIOUS
<1>4. QED BY <1>1, <1>2, <1>3 DEF ToSet

\* Taking the first event leaves the others.
LEMMA ToSetTail ==
    ASSUME NEW S, NEW s \in Seq(S), s # <<>>
    PROVE  /\ Head(s) \in S /\ Tail(s) \in Seq(S)
           /\ ToSet(Tail(s)) \subseteq ToSet(s)
           /\ ToSet(s) \subseteq ToSet(Tail(s)) \cup {Head(s)}
<1>1. \A i \in DOMAIN Tail(s) : i + 1 \in DOMAIN s /\ Tail(s)[i] = s[i + 1]
  OBVIOUS
<1>2. \A i \in DOMAIN s : i # 1 => i - 1 \in DOMAIN Tail(s) /\ Tail(s)[i - 1] = s[i]
  OBVIOUS
<1>3. Head(s) = s[1] /\ Head(s) \in S /\ Tail(s) \in Seq(S)
  OBVIOUS
<1>4. ToSet(Tail(s)) \subseteq ToSet(s)
  BY <1>1 DEF ToSet
<1>5. ToSet(s) \subseteq ToSet(Tail(s)) \cup {Head(s)}
  BY <1>2, <1>3 DEF ToSet
<1>6. QED BY <1>3, <1>4, <1>5

-------------------------------------------------------------------------------
(***************************************************************************)
(* What runGraph and the server do to the runs.                            *)
(***************************************************************************)

RunAction ==
    \/ \E r \in Runs :
        \/ Call(r) \/ Abort(r)
        \/ EnqueueAnswered(r) \/ EnqueueFails(r)
        \/ ReadAnswered(r) \/ ReadFails(r)
        \/ CancelAnswered(r) \/ CancelFails(r)
    \/ Deliver
    \/ ServerStep
    \/ UNCHANGED runVars

LEMMA RunInitially == RunInit => RunInv
<1> SUFFICES ASSUME RunInit PROVE RunInv
  OBVIOUS
<1>1. ToSet(events) = {} /\ events \in Seq(Runs)
  BY DEF RunInit, ToSet
<1>2. 0 \in 0 .. MaxDrops
  BY RunGraphAssumption
<1>3. RunTypeOK
  BY <1>1, <1>2 DEF RunInit, RunTypeOK, Stage
<1>4. QED BY <1>1, <1>3 DEF RunInit, RunInv, RequestsMatch, EventsTrue, StoppedEnds, EndIsHeard

LEMMA RunKeeps ==
    ASSUME RunInv, RunAction
    PROVE  RunInv'
<1> USE DEF RunInv, RunTypeOK, RequestsMatch, EventsTrue, StoppedEnds, EndIsHeard, Over, Stage, Ended
<1>1. CASE UNCHANGED runVars
  BY <1>1 DEF runVars
<1>2. ASSUME NEW r \in Runs, Call(r) PROVE RunInv'
  BY <1>2 DEF Call
<1>3. ASSUME NEW r \in Runs, Abort(r) PROVE RunInv'
  BY <1>3 DEF Abort, AfterAbort
<1>4. ASSUME NEW r \in Runs, EnqueueAnswered(r) PROVE RunInv'
  BY <1>4 DEF EnqueueAnswered
<1>5. ASSUME NEW r \in Runs, EnqueueFails(r) PROVE RunInv'
  BY <1>5 DEF EnqueueFails
<1>6. ASSUME NEW r \in Runs, ReadAnswered(r) \/ ReadFails(r) PROVE RunInv'
  BY <1>6 DEF ReadAnswered, ReadFails
<1>7. ASSUME NEW r \in Runs, CancelAnswered(r) PROVE RunInv'
  <2>1. CASE item[r] = "live"
    <3>1. events' = Append(events, r)
      BY <1>7, <2>1 DEF CancelAnswered, Emit
    <3>2. events' \in Seq(Runs) /\ ToSet(events') = ToSet(events) \cup {r}
      BY <3>1, ToSetAppend
    <3>3. /\ stage' = [stage EXCEPT ![r] = "aborted"]
          /\ item' = [item EXCEPT ![r] = "canceled"]
          /\ stage[r] = "canceling"
          /\ UNCHANGED <<request, missed, stopped, drops>>
      BY <1>7, <2>1 DEF CancelAnswered
    <3>4. QED BY <3>2, <3>3
  <2>2. CASE item[r] # "live"
    BY <1>7, <2>2 DEF CancelAnswered
  <2>3. QED BY <2>1, <2>2
<1>8. ASSUME NEW r \in Runs, CancelFails(r) PROVE RunInv'
  BY <1>8 DEF CancelFails
<1>9. CASE Deliver
  <2>1. /\ Head(events) \in Runs /\ events' \in Seq(Runs)
        /\ ToSet(events') \subseteq ToSet(events)
        /\ ToSet(events) \subseteq ToSet(events') \cup {Head(events)}
    BY <1>9, ToSetTail DEF Deliver
  <2>2. Head(events) \in ToSet(events)
    BY <1>9 DEF Deliver, ToSet
  <2>3. /\ stage' = [q \in Runs |-> IF Head(events) = q /\ stage[q] = "waiting"
                                     THEN "reading" ELSE stage[q]]
        /\ UNCHANGED <<request, item, missed, stopped, drops>>
    BY <1>9 DEF Deliver, Hears
  <2>4. QED BY <2>1, <2>2, <2>3
<1>10. ASSUME NEW r \in Runs, EnqueueServed(r) PROVE RunInv'
  BY <1>10 DEF EnqueueServed
<1>11. ASSUME NEW r \in Runs, NEW how \in Ended, ItemEnds(r, how) PROVE RunInv'
  BY <1>11, ToSetAppend DEF ItemEnds, Emit
<1>12. CASE QueueCleared
  <2>1. drops' \in 0 .. MaxDrops
    BY <1>12, RunGraphAssumption DEF QueueCleared
  <2>2. /\ item' = [q \in Runs |-> IF item[q] = "none" THEN "none" ELSE "cleared"]
        /\ missed' = missed \cup {q \in Runs : item[q] = "live"}
        /\ UNCHANGED <<stage, request, events, stopped>>
    BY <1>12 DEF QueueCleared
  <2>3. RunTypeOK'
    BY <2>1, <2>2
  <2>4. RequestsMatch' /\ StoppedEnds'
    BY <2>2
  <2>5. EventsTrue'
    BY <2>2
  <2>6. EndIsHeard'
    BY <2>2
  <2>7. QED BY <2>3, <2>4, <2>5, <2>6
<1>13. CASE SocketDrops
  <2>1. drops' \in 0 .. MaxDrops
    BY <1>13, RunGraphAssumption DEF SocketDrops
  <2>2. /\ events' \in Seq(Runs) /\ ToSet(events') = {}
        /\ missed' = missed \cup ToSet(events)
        /\ UNCHANGED <<stage, request, item, stopped>>
    BY <1>13 DEF SocketDrops, ToSet
  <2>3. ToSet(events) \subseteq Runs
    BY DEF ToSet
  <2>4. QED BY <2>1, <2>2, <2>3
<1>14. QED BY <1>1, <1>2, <1>3, <1>4, <1>5, <1>6, <1>7, <1>8, <1>9, <1>10, <1>11, <1>12, <1>13
          DEF RunAction, ServerStep

-------------------------------------------------------------------------------
(***************************************************************************)
(* The initial states, and the run's part of a step.                       *)
(***************************************************************************)

LEMMA SafetyInit == Init => IInv
<1> SUFFICES ASSUME Init PROVE IInv
  OBVIOUS
<1>1. RunInv
  BY RunInitially DEF Init
<1>2. TypeOK
  <2>1. ui \in [filtering : BOOLEAN, processing : BOOLEAN, simple : BOOLEAN, auto : BOOLEAN]
    BY DEF Init
  <2>2. starts \in 0 .. MaxStarts /\ edits \in 0 .. MaxEdits
    BY LayerFilterAssumption DEF Init
  <2>3. QED BY <1>1, <2>1, <2>2 DEF Init, RunInv, TypeOK
<1>3. \A r \in Runs : stage[r] = "unused" /\ phase[r] = "none" /\ old[r] = 0
  BY DEF Init, RunInit
<1>4. image = 0 /\ content = 0 /\ hash = NoConfig /\ hidden = FALSE
  BY DEF Init
<1>5. QED BY <1>1, <1>2, <1>3, <1>4
          DEF IInv, PhasesMatch, EscapeesKnown, UnderWay, ImagesApart, HashNeedsImage,
              HiddenWithReason, AppliedStays

\* What a reset does to the runs is an abort, or nothing.
LEMMA ResetIsRunAction ==
    ASSUME TypeOK, NEW places, ResetEphemeralState(places)
    PROVE  RunAction
<1>1. CASE controller = 0
  BY <1>1 DEF ResetEphemeralState, RunAction
<1>2. CASE controller # 0
  <2>1. controller \in Runs /\ Abort(controller)
    BY <1>2 DEF ResetEphemeralState, TypeOK
  <2>2. QED BY <2>1 DEF RunAction
<1>3. QED BY <1>1, <1>2

LEMMA StepIsRunAction ==
    ASSUME TypeOK, [Next]_vars
    PROVE  RunAction
<1>1. CASE UNCHANGED vars
  BY <1>1 DEF vars, RunAction
<1>2. CASE User
  <2>1. ASSUME NEW c \in Configs, NEW simple \in BOOLEAN, Start(c, simple) PROVE RunAction
    BY <2>1, ResetIsRunAction DEF Start
  <2>2. ASSUME NEW c \in Configs, ChangeConfig(c) \/ ChangeModel(c) PROVE RunAction
    BY <2>2 DEF ChangeConfig, ChangeModel, RunAction, runVars
  <2>3. CASE Advanced \/ ToggleAutoProcess \/ ClickProcess
    BY <2>3 DEF Advanced, ToggleAutoProcess, ClickProcess, RunAction, runVars
  <2>4. CASE Reset
    BY <2>4, ResetIsRunAction DEF Reset
  <2>5. CASE Cancel
    BY <2>5, ResetIsRunAction DEF Cancel, Teardown
  <2>6. CASE Apply
    BY <2>6, ResetIsRunAction DEF Apply, Teardown
  <2>7. QED BY <1>2, <2>1, <2>2, <2>3, <2>4, <2>5, <2>6 DEF User
<1>3. CASE Debounced
  BY <1>3 DEF Debounced, RunAction, runVars
<1>4. ASSUME NEW r \in Runs, RunStep(r) PROVE RunAction
  <2>1. CASE RasterizeFails(r) \/ FetchFails(r) \/ Fetched(r) \/ Rendered(r)
    BY <2>1 DEF RasterizeFails, FetchFails, Fetched, Rendered, RunAction, runVars
  <2>2. CASE Rasterized(r)
    BY <2>2 DEF Rasterized, RunAction
  <2>3. CASE Answer(r)
    BY <2>3 DEF Answer, RunAction
  <2>4. QED BY <1>4, <2>1, <2>2, <2>3 DEF RunStep
<1>5. CASE Hear
  BY <1>5 DEF Hear, RunAction
<1>6. CASE Server
  BY <1>6 DEF Server, RunAction
<1>7. QED BY <1>1, <1>2, <1>3, <1>4, <1>5, <1>6 DEF Next

-------------------------------------------------------------------------------
(***************************************************************************)
(* A reset.                                                                *)
(***************************************************************************)

\* What is true of the runs after resetEphemeralState, P being where their
\* processImmediate waits then: promises and waits agree again, what is under
\* way is out of reach or being canceled, and the layer keeps what it holds.
LEMMA ResetEffect ==
    ASSUME IInv, NEW places \in [Runs -> {"none", "loose", "preview", "layer", "destroyed"}],
           ResetEphemeralState(places),
           NEW P, P = PhaseAfterReset
    PROVE  /\ P \in [Runs -> {"none", "over"} \cup UnderWay]
           /\ \A r \in Runs : P[r] # phase[r] => phase[r] = "graph" /\ P[r] = "over"
           /\ \A r \in Runs : stage'[r] # stage[r] => stage[r] = "waiting"
           /\ \A r \in Runs :
                 /\ P[r] = "graph" <=> stage'[r] \in {"waiting", "reading", "canceling"}
                 /\ P[r] \in {"none", "rasterizing"} => stage'[r] = "unused"
                 /\ P[r] \in {"fetching", "rendering"} => stage'[r] = "output"
                 /\ P[r] \in UnderWay => r \in escaped' \/ stage'[r] = "canceling"
           /\ image' = 0 /\ controller' = 0 /\ hash' = NoConfig
           /\ escaped' \subseteq Runs /\ escaped \subseteq escaped'
           /\ place' \in [Runs -> {"none", "loose", "preview", "layer", "destroyed"}]
           /\ \A r \in Runs : places[r] = "layer" => place'[r] = "layer"
<1>1. /\ image' = 0 /\ controller' = 0 /\ hash' = NoConfig
      /\ escaped' \subseteq Runs /\ escaped \subseteq escaped'
  BY DEF ResetEphemeralState, IInv, TypeOK
<1>2. /\ place' \in [Runs -> {"none", "loose", "preview", "layer", "destroyed"}]
      /\ \A r \in Runs : places[r] = "layer" => place'[r] = "layer"
  <2>1. image \in Runs \cup {0}
    BY DEF IInv, TypeOK
  <2>2. place' = IF image # 0 /\ places[image] = "preview"
                THEN [places EXCEPT ![image] = "destroyed"] ELSE places
    BY DEF ResetEphemeralState, PlacesAfterReset
  <2>3. QED BY <2>1, <2>2
<1>3. /\ stage \in [Runs -> Stage] /\ phase \in [Runs -> {"none", "over"} \cup UnderWay]
      /\ controller \in Runs \cup {0}
      /\ \A r \in Runs : Reached(r) <=> r = controller /\ stage[r] = "waiting"
  BY DEF IInv, TypeOK, RunTypeOK, Reached
<1>4. \A r \in Runs : /\ phase[r] = "graph" <=> stage[r] \in {"waiting", "reading", "canceling"}
                      /\ phase[r] \in {"none", "rasterizing"} => stage[r] = "unused"
                      /\ phase[r] \in {"fetching", "rendering"} => stage[r] = "output"
  BY DEF IInv, PhasesMatch
<1>5. \A r \in Runs : phase[r] \in UnderWay => r \in escaped' \/ Reached(r) \/ stage[r] = "canceling"
  BY DEF ResetEphemeralState
<1>6. CASE controller # 0 /\ stage[controller] = "waiting"
  <2>1. controller \in Runs
    BY <1>3, <1>6
  <2>2. stage' = [stage EXCEPT ![controller] = AfterAbort(controller)]
    BY <1>6 DEF ResetEphemeralState, Abort
  <2>3. AfterAbort(controller) \in {"canceling", "blind"}
    BY DEF AfterAbort
  <2>4. P = IF AfterAbort(controller) = "blind" THEN [phase EXCEPT ![controller] = "over"] ELSE phase
    BY <1>6 DEF PhaseAfterReset
  <2>5. phase[controller] = "graph"
    BY <1>4, <1>6, <2>1
  <2>6. P \in [Runs -> {"none", "over"} \cup UnderWay]
    BY <1>3, <2>1, <2>4
  <2>7. \A r \in Runs : P[r] # phase[r] => phase[r] = "graph" /\ P[r] = "over"
    BY <1>3, <2>1, <2>4, <2>5
  <2>8. \A r \in Runs : stage'[r] # stage[r] => stage[r] = "waiting"
    BY <1>3, <1>6, <2>1, <2>2
  <2>9. ASSUME NEW r \in Runs
        PROVE  /\ P[r] = "graph" <=> stage'[r] \in {"waiting", "reading", "canceling"}
               /\ P[r] \in {"none", "rasterizing"} => stage'[r] = "unused"
               /\ P[r] \in {"fetching", "rendering"} => stage'[r] = "output"
               /\ P[r] \in UnderWay => r \in escaped' \/ stage'[r] = "canceling"
    <3>1. CASE r = controller
      BY <1>3, <2>1, <2>2, <2>3, <2>4, <2>5, <3>1 DEF UnderWay
    <3>2. CASE r # controller
      <4>1. stage'[r] = stage[r] /\ P[r] = phase[r]
        BY <1>3, <2>2, <2>4, <3>2
      <4>2. QED BY <1>3, <1>4, <1>5, <3>2, <4>1
    <3>3. QED BY <3>1, <3>2
  <2>10. QED BY <1>1, <1>2, <2>6, <2>7, <2>8, <2>9
<1>7. CASE ~(controller # 0 /\ stage[controller] = "waiting")
  <2>1. stage' = stage
    BY <1>7 DEF ResetEphemeralState, Abort, runVars
  <2>2. P = phase
    BY <1>7 DEF PhaseAfterReset
  <2>3. \A r \in Runs : ~Reached(r)
    BY <1>3, <1>7, RunGraphAssumption
  <2>4. QED BY <1>1, <1>2, <1>3, <1>4, <1>5, <2>1, <2>2, <2>3
<1>8. QED BY <1>6, <1>7

-------------------------------------------------------------------------------
(***************************************************************************)
(* The user.                                                               *)
(***************************************************************************)

\* What of IInv is not of the runs alone.
FilterPart ==
    /\ TypeOK
    /\ PhasesMatch
    /\ EscapeesKnown
    /\ ImagesApart
    /\ HashNeedsImage
    /\ HiddenWithReason
    /\ AppliedStays

\* start runs the filter at once if it is automatic.
LEMMA StartKeeps ==
    ASSUME IInv, RunTypeOK', NEW c \in Configs, NEW simple \in BOOLEAN, Start(c, simple)
    PROVE  FilterPart'
<1> DEFINE P == PhaseAfterReset
<1>1. ResetEphemeralState(place) /\ place \in [Runs -> {"none", "loose", "preview", "layer", "destroyed"}]
  BY DEF Start, IInv, TypeOK
<1>2. /\ P \in [Runs -> {"none", "over"} \cup UnderWay]
      /\ \A r \in Runs : P[r] # phase[r] => phase[r] = "graph" /\ P[r] = "over"
      /\ \A r \in Runs : stage'[r] # stage[r] => stage[r] = "waiting"
      /\ \A r \in Runs :
            /\ P[r] = "graph" <=> stage'[r] \in {"waiting", "reading", "canceling"}
            /\ P[r] \in {"none", "rasterizing"} => stage'[r] = "unused"
            /\ P[r] \in {"fetching", "rendering"} => stage'[r] = "output"
      /\ image' = 0 /\ controller' = 0 /\ hash' = NoConfig
      /\ escaped' \subseteq Runs
      /\ place' \in [Runs -> {"none", "loose", "preview", "layer", "destroyed"}]
      /\ \A r \in Runs : place[r] = "layer" => place'[r] = "layer"
  BY <1>1, ResetEffect
<1> HIDE DEF P
<1>3. \/ phase' = P /\ used' = used
      \/ \E r \in Runs : /\ phase[r] = "none"
                         /\ phase' = [P EXCEPT ![r] = "rasterizing"]
                         /\ used' = [used EXCEPT ![r] = c]
  BY DEF Start, P, IsNext
<1>4. /\ ui' \in [filtering : BOOLEAN, processing : BOOLEAN, simple : BOOLEAN, auto : BOOLEAN]
      /\ ui'.filtering = TRUE
  BY DEF Start, IInv, TypeOK
<1>5. starts' \in 0 .. MaxStarts
  BY LayerFilterAssumption DEF Start, IInv, TypeOK
<1>6. /\ config' \in Configs /\ initial' \in Configs
      /\ UNCHANGED <<timer, old, hidden, content, edits>>
  BY DEF Start
<1>7. phase' \in [Runs -> {"none", "over"} \cup UnderWay] /\ used' \in [Runs -> Configs \cup {NoConfig}]
  BY <1>2, <1>3 DEF IInv, TypeOK, UnderWay
<1>8. TypeOK'
  BY <1>2, <1>4, <1>5, <1>6, <1>7 DEF IInv, TypeOK
<1>9. PhasesMatch'
  BY <1>2, <1>3 DEF PhasesMatch
<1>10. EscapeesKnown' /\ HashNeedsImage' /\ HiddenWithReason'
  BY <1>2, <1>4 DEF EscapeesKnown, HashNeedsImage, HiddenWithReason
<1>11. \A r \in Runs : Made(r) => Made(r)'
  BY <1>2, <1>3 DEF Made
<1>12. ImagesApart' /\ AppliedStays'
  BY <1>2, <1>6, <1>11, RunGraphAssumption DEF IInv, TypeOK, ImagesApart, AppliedStays
<1>13. QED BY <1>8, <1>9, <1>10, <1>12 DEF FilterPart

\* reset leaves the filter open.
LEMMA ResetKeeps ==
    ASSUME IInv, RunTypeOK', Reset
    PROVE  FilterPart'
<1>1. ResetEphemeralState(place) /\ place \in [Runs -> {"none", "loose", "preview", "layer", "destroyed"}]
  BY DEF Reset, IInv, TypeOK
<1>2. /\ phase' \in [Runs -> {"none", "over"} \cup UnderWay]
      /\ \A r \in Runs : phase'[r] # phase[r] => phase[r] = "graph" /\ phase'[r] = "over"
      /\ \A r \in Runs : stage'[r] # stage[r] => stage[r] = "waiting"
      /\ \A r \in Runs :
            /\ phase'[r] = "graph" <=> stage'[r] \in {"waiting", "reading", "canceling"}
            /\ phase'[r] \in {"none", "rasterizing"} => stage'[r] = "unused"
            /\ phase'[r] \in {"fetching", "rendering"} => stage'[r] = "output"
            /\ phase'[r] \in UnderWay => r \in escaped' \/ stage'[r] = "canceling"
      /\ image' = 0 /\ controller' = 0 /\ hash' = NoConfig
      /\ escaped' \subseteq Runs /\ escaped \subseteq escaped'
      /\ place' \in [Runs -> {"none", "loose", "preview", "layer", "destroyed"}]
      /\ \A r \in Runs : place[r] = "layer" => place'[r] = "layer"
  BY <1>1, ResetEffect DEF Reset
<1>3. /\ edits' \in 0 .. MaxEdits
      /\ config' \in Configs
      /\ timer' \in BOOLEAN
      /\ UNCHANGED <<ui, initial, used, old, hidden, content, starts>>
  BY LayerFilterAssumption DEF Reset, EditsOnce, IInv, TypeOK
<1>4. TypeOK'
  BY <1>2, <1>3 DEF IInv, TypeOK
<1>5. PhasesMatch'
  BY <1>2 DEF PhasesMatch
<1>6. EscapeesKnown' /\ HashNeedsImage' /\ HiddenWithReason'
  BY <1>2, <1>3 DEF EscapeesKnown, HashNeedsImage, HiddenWithReason, IInv
<1>7. \A r \in Runs : Made(r) => Made(r)'
  BY <1>2 DEF Made
<1>8. ImagesApart' /\ AppliedStays'
  <2>1. ImagesApart'
    BY <1>2, <1>3, <1>7 DEF IInv, TypeOK, ImagesApart
  <2>2. content # 0 => content \in Runs /\ place[content] = "layer"
    BY DEF IInv, TypeOK, AppliedStays
  <2>3. AppliedStays'
    BY <1>2, <1>3, <2>2 DEF AppliedStays
  <2>4. QED BY <2>1, <2>3
<1>9. QED BY <1>4, <1>5, <1>6, <1>8 DEF FilterPart

\* What teardown does, for cancel and apply; places is where the images hang.
LEMMA TeardownKeeps ==
    ASSUME IInv, RunTypeOK', NEW places \in [Runs -> {"none", "loose", "preview", "layer", "destroyed"}],
           Teardown(places),
           content' \in Runs \cup {0},
           content' # 0 => /\ places[content'] = "layer" /\ Made(content')
                          /\ \A r \in Runs : old[r] # content'
    PROVE  FilterPart'
<1>1. ResetEphemeralState(places)
  BY DEF Teardown
<1>2. /\ phase' \in [Runs -> {"none", "over"} \cup UnderWay]
      /\ \A r \in Runs : phase'[r] # phase[r] => phase[r] = "graph" /\ phase'[r] = "over"
      /\ \A r \in Runs : stage'[r] # stage[r] => stage[r] = "waiting"
      /\ \A r \in Runs :
            /\ phase'[r] = "graph" <=> stage'[r] \in {"waiting", "reading", "canceling"}
            /\ phase'[r] \in {"none", "rasterizing"} => stage'[r] = "unused"
            /\ phase'[r] \in {"fetching", "rendering"} => stage'[r] = "output"
            /\ phase'[r] \in UnderWay => r \in escaped' \/ stage'[r] = "canceling"
      /\ image' = 0 /\ controller' = 0 /\ hash' = NoConfig
      /\ escaped' \subseteq Runs
      /\ place' \in [Runs -> {"none", "loose", "preview", "layer", "destroyed"}]
      /\ \A r \in Runs : places[r] = "layer" => place'[r] = "layer"
  BY <1>1, ResetEffect DEF Teardown
<1>3. /\ config' \in Configs
      /\ hidden' = FALSE
      /\ UNCHANGED <<initial, timer, used, old, starts, edits>>
  BY DEF Teardown, IInv, TypeOK
<1>4. ui' \in [filtering : BOOLEAN, processing : BOOLEAN, simple : BOOLEAN, auto : BOOLEAN]
  BY DEF Teardown, IInv, TypeOK
<1>5. TypeOK'
  BY <1>2, <1>3, <1>4 DEF IInv, TypeOK
<1>6. PhasesMatch'
  BY <1>2 DEF PhasesMatch
<1>7. EscapeesKnown' /\ HashNeedsImage' /\ HiddenWithReason'
  BY <1>2, <1>3 DEF EscapeesKnown, HashNeedsImage, HiddenWithReason
<1>8. \A r \in Runs : Made(r) => Made(r)'
  BY <1>2 DEF Made
<1>9. ImagesApart' /\ AppliedStays'
  <2> DEFINE MadeNow(r) == stage'[r] = "output" /\ phase'[r] \in {"rendering", "over"}
  <2>1. \A r \in Runs : Made(r) => MadeNow(r)
    BY <1>8 DEF Made
  <2>2. content' # 0 => content' \in Runs /\ place'[content'] = "layer" /\ MadeNow(content')
    BY <1>2, <2>1, RunGraphAssumption
  <2>3. \A r \in Runs : old[r] # 0 => MadeNow(old[r]) /\ old[r] # content'
    BY <2>1 DEF IInv, TypeOK, ImagesApart
  <2>4. ImagesApart'
    BY <1>2, <1>3, <2>2, <2>3 DEF ImagesApart, Made
  <2>5. AppliedStays'
    BY <2>2 DEF AppliedStays
  <2>6. QED BY <2>4, <2>5
<1>10. QED BY <1>5, <1>6, <1>7, <1>9 DEF FilterPart

LEMMA CancelKeeps ==
    ASSUME IInv, RunTypeOK', Cancel
    PROVE  FilterPart'
<1>1. Teardown(place) /\ content' = content
  BY DEF Cancel
<1>2. place \in [Runs -> {"none", "loose", "preview", "layer", "destroyed"}] /\ content \in Runs \cup {0}
  BY DEF IInv, TypeOK
<1>3. content # 0 => /\ place[content] = "layer" /\ Made(content)
                    /\ \A r \in Runs : old[r] # content
  BY <1>2 DEF IInv, ImagesApart, AppliedStays
<1>4. QED BY <1>1, <1>2, <1>3, TeardownKeeps

\* The image that is adopted is not one that a later end of a run destroys.
LEMMA ApplyKeeps ==
    ASSUME IInv, RunTypeOK', Apply
    PROVE  FilterPart'
<1>1. Teardown(Adopt) /\ content' = image /\ image \in Runs
  BY DEF Apply, IInv, TypeOK
<1>2. Adopt \in [Runs -> {"none", "loose", "preview", "layer", "destroyed"}] /\ Adopt[image] = "layer"
  BY <1>1 DEF Adopt, IInv, TypeOK
<1>3. Made(image) /\ \A r \in Runs : old[r] # image
  BY <1>1, RunGraphAssumption DEF IInv, ImagesApart
<1>4. QED BY <1>1, <1>2, <1>3, TeardownKeeps

\* Where nothing is said of runs and images, only the types may suffer.
LEMMA SameRuns ==
    ASSUME IInv, TypeOK',
           UNCHANGED <<stage, phase, image, old, place, hash, hidden, content, escaped>>,
           ui'.filtering = ui.filtering
    PROVE  FilterPart'
<1>1. PhasesMatch'
  BY DEF IInv, PhasesMatch
<1>2. EscapeesKnown' /\ HiddenWithReason' /\ HashNeedsImage' /\ AppliedStays'
  BY DEF IInv, EscapeesKnown, HiddenWithReason, HashNeedsImage, AppliedStays
<1>3. ImagesApart'
  BY DEF IInv, ImagesApart, Made
<1>4. QED BY <1>1, <1>2, <1>3 DEF FilterPart

\* The settings of the filter.
LEMMA SettingsKeep ==
    ASSUME IInv, RunTypeOK',
           \/ \E c \in Configs : ChangeConfig(c) \/ ChangeModel(c)
           \/ Advanced
           \/ ToggleAutoProcess
    PROVE  FilterPart'
<1>1. edits' \in 0 .. MaxEdits
  BY LayerFilterAssumption
     DEF ChangeConfig, ChangeModel, Advanced, ToggleAutoProcess, EditsOnce, IInv, TypeOK
<1>2. config' \in Configs /\ timer' \in BOOLEAN
  BY DEF ChangeConfig, ChangeModel, Advanced, ToggleAutoProcess, IInv, TypeOK
<1>3. /\ ui' \in [filtering : BOOLEAN, processing : BOOLEAN, simple : BOOLEAN, auto : BOOLEAN]
      /\ ui'.filtering = ui.filtering
  BY DEF ChangeConfig, ChangeModel, Advanced, ToggleAutoProcess, IInv, TypeOK
<1>4. UNCHANGED <<runVars, initial, phase, used, image, old, place, hash, controller, hidden,
                  content, starts, escaped>>
  BY DEF ChangeConfig, ChangeModel, Advanced, ToggleAutoProcess
<1>5. TypeOK'
  BY <1>1, <1>2, <1>3, <1>4 DEF IInv, TypeOK
<1>6. QED BY <1>3, <1>4, <1>5, SameRuns DEF runVars

\* A call of processImmediate is under way only while the filter is open.
LEMMA ProcessKeeps ==
    ASSUME IInv, RunTypeOK', ClickProcess \/ Debounced
    PROVE  FilterPart'
<1>1. /\ ProcessImmediate(ui.filtering, config, hash)
      /\ UNCHANGED <<runVars, ui, config, initial, image, old, place, hash, controller, hidden,
                     content, starts, edits, escaped>>
      /\ timer' \in BOOLEAN
  BY DEF ClickProcess, Debounced, IInv, TypeOK
<1>2. CASE UNCHANGED <<phase, used>>
  <2>1. TypeOK'
    BY <1>1, <1>2 DEF IInv, TypeOK
  <2>2. QED BY <1>1, <1>2, <2>1, SameRuns DEF runVars
<1>3. CASE ~UNCHANGED <<phase, used>>
  <2>1. PICK r \in Runs : /\ phase[r] = "none"
                         /\ phase' = [phase EXCEPT ![r] = "rasterizing"]
                         /\ used' = [used EXCEPT ![r] = config]
    BY <1>1, <1>3 DEF ProcessImmediate, IsNext
  <2>2. ui.filtering
    BY <1>1, <1>3 DEF ProcessImmediate, Skips
  <2>3. TypeOK'
    BY <1>1, <2>1 DEF IInv, TypeOK, UnderWay
  <2>4. PhasesMatch'
    BY <1>1, <2>1 DEF IInv, TypeOK, PhasesMatch, runVars
  <2>5. EscapeesKnown' /\ HiddenWithReason' /\ HashNeedsImage' /\ AppliedStays'
    BY <1>1, <2>2 DEF IInv, EscapeesKnown, HiddenWithReason, HashNeedsImage, AppliedStays
  <2>6. ImagesApart'
    BY <1>1, <2>1 DEF IInv, TypeOK, ImagesApart, Made, runVars
  <2>7. QED BY <2>3, <2>4, <2>5, <2>6 DEF FilterPart
<1>4. QED BY <1>2, <1>3

-------------------------------------------------------------------------------
(***************************************************************************)
(* The waits of processImmediate, and what is not the filter's.            *)
(***************************************************************************)

\* A promise or an item moves, and no run's wait ends.
LEMMA OthersKeep ==
    ASSUME IInv, RunTypeOK', UNCHANGED filterVars,
           \A r \in Runs : stage'[r] # stage[r] => stage[r] = "waiting" /\ stage'[r] = "reading"
    PROVE  FilterPart'
<1>1. TypeOK'
  BY DEF IInv, TypeOK, filterVars
<1>2. PhasesMatch'
  BY DEF IInv, PhasesMatch, filterVars
<1>3. EscapeesKnown' /\ HiddenWithReason' /\ HashNeedsImage' /\ AppliedStays'
  BY DEF IInv, EscapeesKnown, HiddenWithReason, HashNeedsImage, AppliedStays, filterVars
<1>4. \A r \in Runs : Made(r) => Made(r)'
  BY DEF Made, filterVars
<1>5. ImagesApart'
  BY <1>4, RunGraphAssumption DEF IInv, TypeOK, ImagesApart, filterVars
<1>6. QED BY <1>1, <1>2, <1>3, <1>5 DEF FilterPart

LEMMA HearKeeps ==
    ASSUME IInv, RunTypeOK', Hear \/ Server
    PROVE  FilterPart'
<1>1. CASE Hear
  BY <1>1, OthersKeep DEF Hear, Deliver, Hears, IInv, TypeOK, RunTypeOK
<1>2. CASE Server
  <2>1. stage' = stage /\ UNCHANGED filterVars
    BY <1>2 DEF Server, ServerStep, EnqueueServed, ItemEnds, QueueCleared, SocketDrops
  <2>2. QED BY <2>1, OthersKeep
<1>3. QED BY <1>1, <1>2

LEMMA RasterizeKeeps ==
    ASSUME IInv, RunTypeOK', NEW r \in Runs, RasterizeFails(r) \/ Rasterized(r)
    PROVE  FilterPart'
<1>1. /\ phase[r] = "rasterizing"
      /\ \/ phase' = [phase EXCEPT ![r] = "over"] /\ stage' = stage /\ controller' = controller
         \/ /\ phase' = [phase EXCEPT ![r] = "graph"]
            /\ stage' = [stage EXCEPT ![r] = "waiting"]
            /\ controller' = r
      /\ UNCHANGED <<config, initial, timer, used, image, old, place, hash, hidden, content,
                     starts, edits, escaped>>
  BY DEF RasterizeFails, Rasterized, Call, runVars
<1>2. /\ ui' \in [filtering : BOOLEAN, processing : BOOLEAN, simple : BOOLEAN, auto : BOOLEAN]
      /\ ui'.filtering = ui.filtering
  BY DEF RasterizeFails, Rasterized, IInv, TypeOK
<1>3. stage[r] = "unused"
  BY <1>1 DEF IInv, PhasesMatch
<1>4. TypeOK'
  BY <1>1, <1>2 DEF IInv, TypeOK, UnderWay
<1>5. PhasesMatch'
  BY <1>1, <1>3 DEF IInv, TypeOK, RunTypeOK, PhasesMatch
<1>6. EscapeesKnown'
  BY <1>1, <1>2, <1>3 DEF IInv, TypeOK, RunTypeOK, EscapeesKnown, UnderWay
<1>7. HiddenWithReason' /\ HashNeedsImage' /\ AppliedStays'
  BY <1>1, <1>2 DEF IInv, HiddenWithReason, HashNeedsImage, AppliedStays
<1>8. \A q \in Runs : Made(q) => Made(q)'
  BY <1>1, <1>3 DEF Made, IInv, TypeOK, RunTypeOK
<1>9. ImagesApart'
  BY <1>1, <1>8, RunGraphAssumption DEF IInv, TypeOK, ImagesApart
<1>10. QED BY <1>4, <1>5, <1>6, <1>7, <1>9 DEF FilterPart

\* The promise of a run moves; if it settles, its run goes on or is over.
LEMMA AnswerKeeps ==
    ASSUME IInv, RunTypeOK', NEW r \in Runs, Answer(r)
    PROVE  FilterPart'
<1>1. \/ stage' = stage
      \/ \E x \in {"error", "aborted", "output"} :
            /\ stage[r] \in {"waiting", "reading", "canceling"}
            /\ stage' = [stage EXCEPT ![r] = x]
            /\ x = "output" => stage[r] = "reading"
  <2>1. CASE EnqueueAnswered(r)
    BY <2>1 DEF EnqueueAnswered
  <2>2. CASE EnqueueFails(r)
    BY <2>2 DEF EnqueueFails
  <2>3. CASE ReadAnswered(r)
    BY <2>3 DEF ReadAnswered
  <2>4. CASE CancelAnswered(r)
    BY <2>4 DEF CancelAnswered
  <2>5. CASE ReadFails(r) \/ CancelFails(r)
    BY <2>5 DEF ReadFails, CancelFails
  <2>6. QED BY <2>1, <2>2, <2>3, <2>4, <2>5 DEF Answer
<1>2. Continue(r)
  BY DEF Answer
<1>3. CASE stage' = stage
  <2>1. UNCHANGED filterVars
    BY <1>2, <1>3 DEF Continue, Settled, IInv, PhasesMatch
  <2>2. QED BY <1>3, <2>1, OthersKeep
<1>4. CASE stage' # stage
  <2>1. PICK x \in {"error", "aborted", "output"} :
            /\ stage[r] \in {"waiting", "reading", "canceling"}
            /\ stage' = [stage EXCEPT ![r] = x]
            /\ x = "output" => stage[r] = "reading"
    BY <1>1, <1>4
  <2>2. stage \in [Runs -> Stage] /\ phase[r] = "graph"
    BY <2>1 DEF IInv, PhasesMatch, TypeOK, RunTypeOK
  <2>3. /\ stage[r] \in {"waiting", "reading", "canceling"}
        /\ stage'[r] = x
        /\ stage'[r] \in {"error", "aborted"} \/ (stage[r] = "reading" /\ stage'[r] = "output")
        /\ phase[r] = "graph"
    BY <2>1, <2>2
  <2>4. /\ \/ stage'[r] = "output" /\ phase' = [phase EXCEPT ![r] = "fetching"] /\ UNCHANGED <<ui, controller>>
           \/ /\ stage'[r] # "output"
              /\ phase' = [phase EXCEPT ![r] = "over"]
              /\ ui' = [ui EXCEPT !.processing = FALSE]
              /\ controller' = 0
        /\ UNCHANGED <<config, initial, timer, used, image, old, place, hash, hidden, content,
                       starts, edits, escaped>>
    BY <1>2, <2>3 DEF Continue, Settled, FilterGoesOn, FilterFails
  <2>5. /\ ui' \in [filtering : BOOLEAN, processing : BOOLEAN, simple : BOOLEAN, auto : BOOLEAN]
        /\ ui'.filtering = ui.filtering
    BY <2>4 DEF IInv, TypeOK
  <2>6. TypeOK'
    BY <2>4, <2>5 DEF IInv, TypeOK, UnderWay
  <2>7. \A q \in Runs : q # r => stage'[q] = stage[q] /\ phase'[q] = phase[q]
    BY <2>1, <2>4 DEF IInv, TypeOK, RunTypeOK
  <2>8. \/ stage'[r] = "output" /\ phase'[r] = "fetching"
        \/ stage'[r] \in {"error", "aborted"} /\ phase'[r] = "over"
    BY <2>3, <2>4 DEF IInv, TypeOK
  <2>9. PhasesMatch'
    BY <2>7, <2>8 DEF IInv, PhasesMatch
  <2>10. EscapeesKnown'
    <3>1. ~ui.filtering /\ stage'[r] = "output" => r \in escaped
      BY <2>3 DEF IInv, EscapeesKnown, UnderWay
    <3>2. QED BY <2>4, <2>5, <2>7, <2>8, <3>1 DEF IInv, EscapeesKnown, UnderWay
  <2>11. HiddenWithReason' /\ HashNeedsImage' /\ AppliedStays'
    BY <2>4, <2>5 DEF IInv, HiddenWithReason, HashNeedsImage, AppliedStays
  <2>12. \A q \in Runs : Made(q) => Made(q)'
    BY <2>3, <2>7 DEF Made
  <2>13. ImagesApart'
    BY <2>4, <2>12, RunGraphAssumption DEF IInv, TypeOK, ImagesApart
  <2>14. QED BY <2>6, <2>9, <2>10, <2>11, <2>13 DEF FilterPart
<1>5. QED BY <1>3, <1>4

LEMMA FetchKeeps ==
    ASSUME IInv, RunTypeOK', NEW r \in Runs, FetchFails(r) \/ Fetched(r)
    PROVE  FilterPart'
<1>1. stage' = stage /\ phase[r] = "fetching" /\ stage[r] = "output"
  BY DEF FetchFails, Fetched, runVars, IInv, PhasesMatch
<1>2. CASE FetchFails(r)
  <2>1. /\ phase' = [phase EXCEPT ![r] = "over"]
        /\ controller' = 0
        /\ UNCHANGED <<config, initial, timer, used, image, old, place, hash, hidden, content,
                       starts, edits, escaped>>
    BY <1>2 DEF FetchFails, FilterFails
  <2>2. /\ ui' \in [filtering : BOOLEAN, processing : BOOLEAN, simple : BOOLEAN, auto : BOOLEAN]
        /\ ui'.filtering = ui.filtering
    BY <1>2 DEF FetchFails, FilterFails, IInv, TypeOK
  <2>3. TypeOK'
    BY <2>1, <2>2 DEF IInv, TypeOK, UnderWay
  <2>4. PhasesMatch'
    BY <1>1, <2>1 DEF IInv, TypeOK, PhasesMatch
  <2>5. EscapeesKnown'
    BY <1>1, <2>1, <2>2 DEF IInv, TypeOK, EscapeesKnown, UnderWay
  <2>6. HiddenWithReason' /\ HashNeedsImage' /\ AppliedStays'
    BY <2>1, <2>2 DEF IInv, HiddenWithReason, HashNeedsImage, AppliedStays
  <2>7. \A q \in Runs : Made(q) => Made(q)'
    BY <1>1, <2>1 DEF Made, IInv, TypeOK
  <2>8. ImagesApart'
    BY <2>1, <2>7, RunGraphAssumption DEF IInv, TypeOK, ImagesApart
  <2>9. QED BY <2>3, <2>4, <2>5, <2>6, <2>8 DEF FilterPart
<1>3. CASE Fetched(r)
  <2>1. /\ phase' = [phase EXCEPT ![r] = "rendering"]
        /\ image' = r
        /\ old' = [old EXCEPT ![r] = image]
        /\ place' = [place EXCEPT ![r] = "loose"]
        /\ UNCHANGED <<ui, config, initial, timer, used, hash, controller, hidden, content,
                       starts, edits, escaped>>
    BY <1>3 DEF Fetched
  <2>2. TypeOK'
    BY <2>1 DEF IInv, TypeOK, UnderWay
  <2>3. PhasesMatch'
    BY <1>1, <2>1 DEF IInv, TypeOK, PhasesMatch
  <2>4. ~ui.filtering => r \in escaped
    BY <1>1 DEF IInv, EscapeesKnown, UnderWay
  <2>5. EscapeesKnown'
    BY <1>1, <2>1, <2>4 DEF IInv, TypeOK, EscapeesKnown, UnderWay
  <2>6. HiddenWithReason' /\ HashNeedsImage'
    BY <2>1, RunGraphAssumption DEF IInv, HiddenWithReason, HashNeedsImage
  <2>7. \A q \in Runs : Made(q) => Made(q)' /\ q # r
    BY <1>1, <2>1 DEF Made, IInv, TypeOK
  <2>8. Made(r)'
    BY <1>1, <2>1 DEF Made, IInv, TypeOK
  <2>9. AppliedStays'
    BY <2>1, <2>7 DEF IInv, TypeOK, AppliedStays, ImagesApart
  <2>10. ImagesApart'
    BY <2>1, <2>7, <2>8, RunGraphAssumption DEF IInv, TypeOK, ImagesApart
  <2>11. QED BY <2>2, <2>3, <2>5, <2>6, <2>9, <2>10 DEF FilterPart
<1>4. QED BY <1>2, <1>3

LEMMA RenderKeeps ==
    ASSUME IInv, RunTypeOK', NEW r \in Runs, Rendered(r)
    PROVE  FilterPart'
<1>1. /\ stage' = stage /\ phase[r] = "rendering" /\ stage[r] = "output"
      /\ phase' = [phase EXCEPT ![r] = "over"]
      /\ UNCHANGED <<config, initial, timer, used, image, old, content, starts, edits, escaped>>
  BY DEF Rendered, runVars, IInv, PhasesMatch
<1>2. PhasesMatch'
  BY <1>1 DEF IInv, TypeOK, PhasesMatch
<1>3. \A q \in Runs : Made(q) => Made(q)'
  BY <1>1 DEF Made, IInv, TypeOK
<1>4. ImagesApart'
  BY <1>1, <1>3, RunGraphAssumption DEF IInv, TypeOK, ImagesApart
<1>5. ui'.filtering = ui.filtering
  BY DEF Rendered, IInv, TypeOK
<1>6. EscapeesKnown'
  BY <1>1, <1>5 DEF IInv, TypeOK, EscapeesKnown, UnderWay
<1>7. CASE image = 0
  <2>1. UNCHANGED <<ui, place, hash, controller, hidden>>
    BY <1>7 DEF Rendered
  <2>2. TypeOK'
    BY <1>1, <2>1 DEF IInv, TypeOK, UnderWay
  <2>3. HiddenWithReason' /\ HashNeedsImage' /\ AppliedStays'
    BY <1>1, <2>1 DEF IInv, HiddenWithReason, HashNeedsImage, AppliedStays
  <2>4. QED BY <1>2, <1>4, <1>6, <2>2, <2>3 DEF FilterPart
<1>8. CASE image # 0
  <2>1. /\ place' = [q \in Runs |-> IF q = image THEN "preview"
                                   ELSE IF q = old[r] THEN "destroyed" ELSE place[q]]
        /\ hash' = used[r] /\ hidden' = TRUE /\ controller' = 0
    BY <1>8 DEF Rendered
  <2>2. ui' \in [filtering : BOOLEAN, processing : BOOLEAN, simple : BOOLEAN, auto : BOOLEAN]
    BY DEF Rendered, IInv, TypeOK
  <2>3. TypeOK'
    BY <1>1, <2>1, <2>2 DEF IInv, TypeOK, UnderWay
  <2>4. HiddenWithReason'
    BY <1>1, <1>5, <1>8 DEF IInv, EscapeesKnown, HiddenWithReason
  <2>5. HashNeedsImage'
    BY <1>1, <1>8 DEF HashNeedsImage
  <2>6. AppliedStays'
    BY <1>1, <1>8, <2>1 DEF IInv, TypeOK, ImagesApart, AppliedStays
  <2>7. QED BY <1>2, <1>4, <1>6, <2>3, <2>4, <2>5, <2>6 DEF FilterPart
<1>9. QED BY <1>7, <1>8

-------------------------------------------------------------------------------
(***************************************************************************)
(* The theorems.                                                           *)
(***************************************************************************)

LEMMA SafetyStep == IInv /\ [Next]_vars => IInv'
<1> SUFFICES ASSUME IInv, [Next]_vars PROVE IInv'
  OBVIOUS
<1>1. RunInv'
  BY StepIsRunAction, RunKeeps DEF IInv
<1>2. RunTypeOK'
  BY <1>1 DEF RunInv
<1>3. FilterPart'
  <2>1. CASE UNCHANGED vars
    BY <1>2, <2>1, OthersKeep DEF vars, runVars
  <2>2. CASE User
    BY <1>2, <2>2, StartKeeps, ResetKeeps, CancelKeeps, ApplyKeeps, SettingsKeep, ProcessKeeps DEF User
  <2>3. CASE Debounced
    BY <1>2, <2>3, ProcessKeeps
  <2>4. ASSUME NEW r \in Runs, RunStep(r) PROVE FilterPart'
    BY <1>2, <2>4, RasterizeKeeps, AnswerKeeps, FetchKeeps, RenderKeeps DEF RunStep
  <2>5. CASE Hear \/ Server
    BY <1>2, <2>5, HearKeeps
  <2>6. QED BY <2>1, <2>2, <2>3, <2>4, <2>5 DEF Next
<1>4. QED BY <1>1, <1>3 DEF IInv, FilterPart

\* The strengthening is an invariant.
THEOREM Safety == Spec => []IInv
BY SafetyInit, SafetyStep, PTL DEF Spec

\* The state is of its type, "already processed" is only said of a preview that is there,
\* and the layer's own objects are hidden outside a filter only if a run was out of reach.
THEOREM FilterSound == Spec => []FilterInv
<1>1. IInv => FilterInv
  BY DEF IInv, FilterInv
<1>2. QED BY <1>1, Safety, PTL

\* A run that was aborted never becomes the preview.
THEOREM StoppedStays == Spec => []StoppedStaysAway
<1>1. IInv => StoppedStaysAway
  <2> SUFFICES ASSUME IInv, image \in stopped PROVE FALSE
    BY DEF StoppedStaysAway
  <2>1. image \in Runs /\ image # 0
    BY RunGraphAssumption DEF IInv, TypeOK, RunTypeOK
  <2>2. stage[image] = "output"
    BY <2>1 DEF IInv, ImagesApart, Made
  <2>3. QED BY <2>1, <2>2 DEF IInv, RunInv, StoppedEnds
<1>2. QED BY <1>1, Safety, PTL

\* A promise that waits for an item that ended hears of it, unless it was never told.
THEOREM EndsAreHeard == Spec => []EndIsHeard
<1>1. IInv => EndIsHeard
  BY DEF IInv, RunInv
<1>2. QED BY <1>1, Safety, PTL

\* What a layer adopted is not destroyed by whatever ends later.
THEOREM AppliedForGood == Spec => []AppliedStays
<1>1. IInv => AppliedStays
  BY DEF IInv
<1>2. QED BY <1>1, Safety, PTL

\* When the filter is over, a job of it is left in the queue only if it could not be reached.
THEOREM NoJobLeft == Spec => []NothingLeftBehind
<1>1. IInv => NothingLeftBehind
  <2> SUFFICES ASSUME IInv, ~ui.filtering, NEW r \in Runs, item[r] = "live",
                      stage[r] \notin {"canceling", "blind", "error"}
               PROVE  r \in escaped
    BY DEF NothingLeftBehind
  <2>1. stage[r] # "unused"
    BY DEF IInv, RunInv, RequestsMatch
  <2>2. stage[r] \notin {"reading", "output", "aborted"}
    BY DEF IInv, RunInv, EventsTrue, Over, Ended
  <2>3. stage[r] = "waiting"
    BY <2>1, <2>2 DEF IInv, TypeOK, RunTypeOK, Stage
  <2>4. phase[r] \in UnderWay
    BY <2>3 DEF IInv, PhasesMatch, UnderWay
  <2>5. QED BY <2>3, <2>4 DEF IInv, EscapeesKnown
<1>2. QED BY <1>1, Safety, PTL
===================================================================================
