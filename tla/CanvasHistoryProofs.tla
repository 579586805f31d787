-------------------------- MODULE CanvasHistoryProofs --------------------------
(***************************************************************************)
(* Safety of the canvas's undo history, for every limit, every set of      *)
(* action types and every number of edits.                                 *)
(***************************************************************************)
EXTENDS CanvasHistory, FiniteSetTheorems, SequenceTheorems, TLAPS

\* What a state is drawn by, or its canvas was made by.
Kinds == EditTypes \cup {"none", "canvasSettings", "restored", "params", "entityAdded"}

State == [ed : 0 .. MaxEdits, by : Kinds, strokes : SUBSET (1 .. MaxEdits),
          canvas : Nat, epoch : Nat]

\* Histories of states in S.
Histories(S) == [past : Seq(S), present : S, future : Seq(S), latest : S]

\* The states of one canvas.
On(c) == {s \in State : s.canvas = c}

\* An undo from t to s takes back at most one stroke, if no restored state lies between.
Near(s, t) == s.epoch = t.epoch => Cardinality(t.strokes \ s.strokes) <= 1

\* The steps of a sequence of states, and those of the whole history: its past,
\* the state that passed the filter last, and its future.
Steps(q) == \A n \in 1 .. Len(q) - 1 : Near(q[n], q[n + 1])
Stepwise(h) ==
    /\ Steps(h.past) /\ Steps(h.future)
    /\ h.past # <<>> => Near(h.past[Len(h.past)], h.latest)
    /\ h.future # <<>> => Near(h.latest, h.future[1])

\* What the filter let pass by: the present is at most some edits further than the
\* state that passed last, none of them a stroke, or a restored state.
Ahead(h) ==
    /\ h.latest.epoch <= h.present.epoch
    /\ h.latest.epoch = h.present.epoch => h.latest.strokes = h.present.strokes

\* Every timer was started by an edit of its own.
TimersBound ==
    /\ throttle \in [ignoreRapid : BOOLEAN, prevActionType : Kinds, timers : Nat]
    /\ edits \in 0 .. MaxEdits
    /\ throttle.timers <= edits
    /\ history.present # history.latest => throttle.timers < edits

Shaped(h, S) == h \in Histories(S) /\ Len(h.past) + Len(h.future) < Limit /\ Stepwise(h)

IInv ==
    /\ Shaped(history, On(history.present.canvas)) /\ history.present.canvas \in Nat
    /\ Ahead(history)
    /\ snapshot = Absent \/ snapshot \in State
    /\ TimersBound
    /\ ThrottleSound

-------------------------------------------------------------------------------
LEMMA AtMostOne ==
    ASSUME NEW S, NEW e, S \subseteq {e}
    PROVE  Cardinality(S) <= 1
<1>1. IsFiniteSet({e}) /\ Cardinality({e}) = 1
  BY FS_Singleton
<1>2. QED BY <1>1, FS_Subset

(***************************************************************************)
(* redux-undo's operations keep a history's shape, its length, and the     *)
(* steps it is made of.                                                    *)
(***************************************************************************)

LEMMA InsertShaped ==
    ASSUME NEW S, NEW h, Shaped(h, S), NEW res \in S, Near(h.latest, res)
    PROVE  Shaped(insert(h, res), S)
<1> DEFINE kept == IF Limit <= Len(h.past) + 1 THEN Tail(h.past) ELSE h.past
           past == Append(kept, h.latest)
<1> USE CanvasHistoryAssumption
<1>1. h.past \in Seq(S) /\ h.latest \in S /\ Len(h.past) < Limit /\ Len(h.past) \in Nat
  BY LenProperties DEF Shaped, Histories
<1>2. /\ kept \in Seq(S) /\ Len(kept) < Limit - 1
      /\ \E k \in {0, 1} : /\ Len(kept) = Len(h.past) - k
                           /\ \A n \in 1 .. Len(kept) : kept[n] = h.past[n + k]
  <2>1. CASE Limit <= Len(h.past) + 1
    <3>1. h.past # <<>>
      BY <1>1, <2>1 DEF CanvasHistoryAssumption
    <3>2. QED BY <1>1, <2>1, <3>1, HeadTailProperties DEF CanvasHistoryAssumption
  <2>2. CASE ~(Limit <= Len(h.past) + 1)
    BY <1>1, <2>2 DEF CanvasHistoryAssumption
  <2>3. QED BY <2>1, <2>2
<1>3. insert(h, res) = [past |-> past, present |-> res, future |-> <<>>, latest |-> res]
  BY DEF insert, newHistory
<1>4. /\ past \in Seq(S) /\ Len(past) = Len(kept) + 1
      /\ past[Len(past)] = h.latest /\ \A n \in 1 .. Len(kept) : past[n] = kept[n]
  BY <1>1, <1>2, AppendProperties
<1>0. Len(kept) \in Nat
  BY <1>2, LenProperties
<1> HIDE DEF kept, past
<1>5. Steps(past)
  <2>1. SUFFICES ASSUME NEW n \in 1 .. Len(kept) PROVE Near(past[n], past[n + 1])
    BY <1>0, <1>4 DEF Steps
  <2>2. PICK k \in {0, 1} : /\ Len(kept) = Len(h.past) - k
                            /\ \A m \in 1 .. Len(kept) : kept[m] = h.past[m + k]
    BY <1>2
  <2>3. past[n] = h.past[n + k]
    BY <1>4, <2>2
  <2>4. CASE n = Len(kept)
    <3>1. past[n + 1] = h.latest /\ n + k = Len(h.past) /\ h.past # <<>>
      BY <1>0, <1>1, <1>4, <2>2, <2>4
    <3>2. QED BY <2>3, <3>1 DEF Shaped, Stepwise
  <2>5. CASE n # Len(kept)
    <3>1. n + 1 \in 1 .. Len(kept) /\ n + k \in 1 .. Len(h.past) - 1
      BY <1>0, <1>1, <2>2, <2>5
    <3>2. past[n + 1] = h.past[n + k + 1]
      BY <1>0, <1>4, <2>2, <3>1
    <3>3. QED BY <2>3, <3>1, <3>2 DEF Shaped, Stepwise, Steps
  <2>6. QED BY <2>4, <2>5
<1>6. <<>> \in Seq(S) /\ Len(<<>>) = 0 /\ Steps(<<>>)
  BY DEF Steps
<1>7. QED
  BY <1>0, <1>2, <1>3, <1>4, <1>5, <1>6 DEF Shaped, Histories, Stepwise, CanvasHistoryAssumption

\* A state that takes the place of the present, and does not pass.
LEMMA FilteredShaped ==
    ASSUME NEW S, NEW h, Shaped(h, S), NEW res \in S
    PROVE  Shaped(filtered(h, res), S)
BY DEF filtered, Shaped, Histories, Stepwise

LEMMA ClearShaped ==
    ASSUME NEW S, NEW res \in S
    PROVE  Shaped(newHistory(<<>>, res, <<>>), S)
BY CanvasHistoryAssumption DEF newHistory, Shaped, Histories, Stepwise, Steps, CanvasHistoryAssumption

LEMMA UndoShaped ==
    ASSUME NEW S, NEW h, Shaped(h, S), h.past # <<>>
    PROVE  Shaped(undo(h), S) /\ h.past[Len(h.past)] \in S
<1> DEFINE last == h.past[Len(h.past)]
           past == Front(h.past)
           future == <<h.latest>> \o h.future
<1>1. /\ h.past \in Seq(S) /\ h.future \in Seq(S) /\ h.latest \in S
      /\ Len(h.past) \in Nat /\ Len(h.past) # 0 /\ Len(h.future) \in Nat
  BY LenProperties, EmptySeq DEF Shaped, Histories
<1>2. last \in S
  BY <1>1, ElementOfSeq
<1>3. /\ past \in Seq(S) /\ Len(past) = Len(h.past) - 1
      /\ \A n \in 1 .. Len(past) : past[n] = h.past[n]
  BY <1>1, SubSeqProperties DEF Front
<1>4. <<h.latest>> \in Seq(S) /\ Len(<<h.latest>>) = 1 /\ <<h.latest>>[1] = h.latest
  BY <1>1
<1>5. /\ future \in Seq(S) /\ Len(future) = Len(h.future) + 1 /\ future[1] = h.latest
      /\ \A n \in 1 .. Len(h.future) : future[n + 1] = h.future[n]
  BY <1>1, <1>4, ConcatProperties
<1>6. undo(h) = [past |-> past, present |-> last, future |-> future, latest |-> last]
  BY DEF undo, newHistory, Last
<1> HIDE DEF past, future
<1>0. /\ Len(past) \in Nat /\ Len(h.past) = Len(past) + 1
      /\ Len(past) + Len(future) = Len(h.past) + Len(h.future)
  <2> DEFINE a == Len(h.past)
             b == Len(h.future)
             c == Len(past)
             d == Len(future)
  <2>1. a \in Nat /\ b \in Nat /\ a # 0 /\ c = a - 1 /\ d = b + 1
    BY <1>1, <1>3, <1>5
  <2> HIDE DEF a, b, c, d
  <2>2. c \in Nat /\ a = c + 1 /\ c + d = a + b
    BY ONLY <2>1
  <2>3. QED BY ONLY <2>2 DEF a, b, c, d
<1>7. Steps(past) /\ (past # <<>> => Near(past[Len(past)], last))
  <2>1. ASSUME NEW n \in 1 .. Len(past) - 1 PROVE Near(past[n], past[n + 1])
    <3>1. n \in 1 .. Len(past) /\ n + 1 \in 1 .. Len(past) /\ n \in 1 .. Len(h.past) - 1
      BY <1>0, <2>1
    <3>2. QED BY <1>3, <3>1 DEF Shaped, Stepwise, Steps
  <2>2. ASSUME past # <<>> PROVE Near(past[Len(past)], last)
    <3>1. Len(past) # 0
      BY <1>3, <2>2, EmptySeq
    <3>2. /\ Len(past) \in 1 .. Len(past) /\ Len(past) \in 1 .. Len(h.past) - 1
          /\ Len(past) + 1 = Len(h.past)
      BY <1>0, <3>1
    <3>3. QED BY <1>3, <3>2 DEF Shaped, Stepwise, Steps
  <2>3. QED BY <2>1, <2>2 DEF Steps
<1>8. Near(last, future[1])
  BY <1>5 DEF Shaped, Stepwise
<1>9. Steps(future)
  <2>1. SUFFICES ASSUME NEW n \in 1 .. Len(h.future) PROVE Near(future[n], future[n + 1])
    BY <1>1, <1>5 DEF Steps
  <2>2. CASE n = 1
    BY <1>5, <2>1, <2>2 DEF Shaped, Stepwise
  <2>3. CASE n # 1
    <3>1. n - 1 \in 1 .. Len(h.future) - 1 /\ future[n] = h.future[n - 1] /\ future[n + 1] = h.future[n]
      <4>1. n - 1 \in 1 .. Len(h.future) /\ (n - 1) + 1 = n
        BY <1>1, <2>3
      <4>2. QED BY <1>1, <1>5, <2>1, <2>3, <4>1
    <3>2. QED BY <3>1 DEF Shaped, Stepwise, Steps
  <2>4. QED BY <2>2, <2>3
<1>10. undo(h) \in Histories(S)
  BY <1>2, <1>3, <1>5, <1>6 DEF Histories
<1>11. Len(undo(h).past) + Len(undo(h).future) < Limit
  <2>1. undo(h).past = past /\ undo(h).future = future
    BY <1>6
  <2>2. Len(h.past) + Len(h.future) < Limit
    BY DEF Shaped
  <2>3. Len(past) + Len(future) < Limit
    BY ONLY <1>0, <2>2, Zenon
  <2>4. QED BY ONLY <2>1, <2>3, Zenon
<1>12. Stepwise(undo(h))
  BY <1>6, <1>7, <1>8, <1>9 DEF Stepwise
<1>13. QED BY <1>2, <1>10, <1>11, <1>12 DEF Shaped

LEMMA RedoShaped ==
    ASSUME NEW S, NEW h, Shaped(h, S), h.future # <<>>
    PROVE  Shaped(redo(h), S) /\ Head(h.future) \in S
<1> DEFINE past == Append(h.past, h.latest)
           next == Head(h.future)
           future == Tail(h.future)
<1>1. /\ h.past \in Seq(S) /\ h.future \in Seq(S) /\ h.latest \in S
      /\ Len(h.past) \in Nat /\ Len(h.future) \in Nat /\ Len(h.future) # 0
  BY LenProperties, EmptySeq DEF Shaped, Histories
<1>2. /\ next \in S /\ next = h.future[1]
      /\ future \in Seq(S) /\ Len(future) = Len(h.future) - 1
      /\ \A n \in 1 .. Len(future) : future[n] = h.future[n + 1]
  BY <1>1, HeadTailProperties
<1>3. /\ past \in Seq(S) /\ Len(past) = Len(h.past) + 1 /\ past[Len(past)] = h.latest
      /\ \A n \in 1 .. Len(h.past) : past[n] = h.past[n]
  BY <1>1, AppendProperties
<1>4. redo(h) = [past |-> past, present |-> next, future |-> future, latest |-> next]
  BY DEF redo, newHistory
<1> HIDE DEF past, next, future
<1>0. Len(past) + Len(future) = Len(h.past) + Len(h.future)
  <2> DEFINE a == Len(h.past)
             b == Len(h.future)
             c == Len(past)
             d == Len(future)
  <2>1. a \in Nat /\ b \in Nat /\ b # 0 /\ c = a + 1 /\ d = b - 1
    BY <1>1, <1>2, <1>3
  <2> HIDE DEF a, b, c, d
  <2>2. c + d = a + b
    BY ONLY <2>1
  <2>3. QED BY ONLY <2>2 DEF a, b, c, d
<1>5. Steps(past)
  <2>1. SUFFICES ASSUME NEW n \in 1 .. Len(h.past) PROVE Near(past[n], past[n + 1])
    BY <1>1, <1>3 DEF Steps
  <2>2. CASE n = Len(h.past)
    BY <1>1, <1>3, <2>1, <2>2, EmptySeq DEF Shaped, Stepwise
  <2>3. CASE n # Len(h.past)
    BY <1>1, <1>3, <2>1, <2>3 DEF Shaped, Stepwise, Steps
  <2>4. QED BY <2>2, <2>3
<1>6. Near(past[Len(past)], next)
  BY <1>2, <1>3 DEF Shaped, Stepwise
<1>7. Steps(future) /\ (future # <<>> => Near(next, future[1]))
  <2>1. Steps(future)
    <3>1. SUFFICES ASSUME NEW n \in 1 .. Len(future) - 1 PROVE Near(future[n], future[n + 1])
      BY DEF Steps
    <3>2. n + 1 \in 1 .. Len(h.future) - 1 /\ n \in 1 .. Len(future) /\ n + 1 \in 1 .. Len(future)
      BY <1>1, <1>2, <3>1
    <3>3. QED BY <1>2, <3>2 DEF Shaped, Stepwise, Steps
  <2>2. ASSUME future # <<>> PROVE Near(next, future[1])
    <3>1. 1 \in 1 .. Len(future) /\ 1 \in 1 .. Len(h.future) - 1
      BY <1>1, <1>2, <2>2, EmptySeq
    <3>2. QED BY <1>2, <3>1 DEF Shaped, Stepwise, Steps
  <2>3. QED BY <2>1, <2>2
<1>8. redo(h) \in Histories(S)
  BY <1>2, <1>3, <1>4 DEF Histories
<1>9. Len(redo(h).past) + Len(redo(h).future) < Limit
  <2>1. redo(h).past = past /\ redo(h).future = future
    BY <1>4
  <2>2. Len(h.past) + Len(h.future) < Limit
    BY DEF Shaped
  <2>3. Len(past) + Len(future) < Limit
    BY ONLY <1>0, <2>2, Zenon
  <2>4. QED BY ONLY <2>1, <2>3, Zenon
<1>10. Stepwise(redo(h))
  BY <1>4, <1>5, <1>6, <1>7 DEF Stepwise
<1>11. QED BY <1>2, <1>8, <1>9, <1>10 DEF Shaped, next

-------------------------------------------------------------------------------
(***************************************************************************)
(* The steps.                                                              *)
(***************************************************************************)
LEMMA StateFields ==
    ASSUME NEW c, NEW s \in On(c)
    PROVE  /\ s \in State /\ s.canvas = c /\ s.ed \in 0 .. MaxEdits /\ s.epoch \in Nat
           /\ s.strokes \subseteq 1 .. MaxEdits
BY DEF On, State

\* A history of one canvas stays one when it goes on with a state of that canvas.
LEMMA SameCanvas ==
    ASSUME NEW c \in Nat, NEW h, Shaped(h, On(c))
    PROVE  Shaped(h, On(h.present.canvas)) /\ h.present.canvas \in Nat
<1>1. h.present.canvas = c
  BY StateFields DEF Shaped, Histories
<1>2. QED BY <1>1

\* When the present is the state that passed last, nothing is left to be said of it.
LEMMA Settled ==
    ASSUME NEW c \in Nat, Shaped(history', On(c)), history'.present = history'.latest,
           snapshot' = Absent \/ snapshot' \in State,
           throttle' \in [ignoreRapid : BOOLEAN, prevActionType : Kinds, timers : Nat],
           edits' \in 0 .. MaxEdits, throttle'.timers <= edits',
           throttle'.ignoreRapid => throttle'.timers > 0
    PROVE  IInv'
<1>1. Shaped(history', On(history'.present.canvas)) /\ history'.present.canvas \in Nat
  BY SameCanvas
<1>2. history'.present.epoch \in Nat
  BY StateFields DEF Shaped, Histories
<1>3. Ahead(history)'
  BY <1>2 DEF Ahead
<1>4. TimersBound' /\ ThrottleSound'
  BY DEF TimersBound, ThrottleSound
<1>5. QED BY <1>1, <1>3, <1>4 DEF IInv

THEOREM InitInv == Init => IInv
<1> SUFFICES ASSUME Init PROVE IInv
  OBVIOUS
<1>0. 0 \in 0 .. MaxEdits /\ {} \in SUBSET (1 .. MaxEdits) /\ "none" \in Kinds
  <2>1. MaxEdits \in Nat
    BY CanvasHistoryAssumption DEF CanvasHistoryAssumption
  <2>2. 0 \in 0 .. MaxEdits
    BY ONLY <2>1
  <2>3. QED BY <2>2 DEF Kinds
<1>1. getInitialCanvasState \in On(0)
  BY <1>0 DEF getInitialCanvasState, On, State
<1>2. Shaped(history, On(0))
  BY <1>1, ClearShaped DEF Init
<1>3. Shaped(history, On(history.present.canvas)) /\ history.present.canvas \in Nat
  BY <1>2, SameCanvas
<1>4. Ahead(history) /\ ThrottleSound
  BY DEF Init, newHistory, Ahead, ThrottleSound, getInitialCanvasState
<1>5. TimersBound
  BY <1>0 DEF Init, newHistory, TimersBound
<1>6. QED BY <1>3, <1>4, <1>5 DEF IInv, Init

\* The throttle only ever starts one timer, and then the action passes.
LEMMA ThrottledOf ==
    ASSUME IInv, NEW type \in Kinds
    PROVE  /\ throttled(type) \in [ignoreRapid : BOOLEAN, prevActionType : Kinds, timers : Nat]
           /\ throttled(type).timers \in {throttle.timers, throttle.timers + 1}
           /\ throttled(type).timers # throttle.timers => actionsThrottlingFilter(type)
           /\ throttled(type).ignoreRapid => throttled(type).timers > 0
           /\ throttled(type).prevActionType = type
           /\ ~actionsThrottlingFilter(type) => type = throttle.prevActionType /\ type \notin Strokes
<1>1. throttle \in [ignoreRapid : BOOLEAN, prevActionType : Kinds, timers : Nat]
  BY DEF IInv, TimersBound
<1>2. throttle.ignoreRapid => throttle.timers > 0
  BY DEF IInv, ThrottleSound
<1>3. CASE resetsThrottle(type)
  BY <1>1, <1>2, <1>3 DEF throttled, actionsThrottlingFilter
<1>4. CASE ~resetsThrottle(type) /\ throttle.ignoreRapid
  BY <1>1, <1>2, <1>4 DEF throttled, actionsThrottlingFilter, resetsThrottle
<1>5. CASE ~resetsThrottle(type) /\ ~throttle.ignoreRapid
  <2>1. throttled(type) = [throttle EXCEPT !.ignoreRapid = TRUE, !.timers = @ + 1]
    BY <1>5 DEF throttled
  <2>2. type = throttle.prevActionType /\ actionsThrottlingFilter(type)
    BY <1>5 DEF actionsThrottlingFilter, resetsThrottle
  <2>0. throttle.timers \in Nat /\ throttle.timers + 1 \in Nat
    BY ONLY <1>1
  <2>3. /\ throttled(type).timers = throttle.timers + 1
        /\ throttled(type).prevActionType = throttle.prevActionType
        /\ throttled(type) \in [ignoreRapid : BOOLEAN, prevActionType : Kinds, timers : Nat]
    BY ONLY <1>1, <2>0, <2>1
  <2>4. QED BY <2>0, <2>2, <2>3
<1>6. QED BY <1>3, <1>4, <1>5

\* An action that is dispatched, with the state it leads to.
LEMMA DispatchedInv ==
    ASSUME IInv, NEW type \in Kinds, NEW res \in On(history.present.canvas),
           Dispatched(type, res), snapshot' = snapshot,
           edits' \in 0 .. MaxEdits, edits' >= edits,
           edits' > edits \/ res = history.present,
           res.by = type \/ res = history.present,
           res.epoch = history.present.epoch,
           Near(history.latest, res),
           type \notin Strokes => res.strokes = history.present.strokes
    PROVE  IInv'
<1> DEFINE c == history.present.canvas
<1>1. /\ Shaped(history, On(c)) /\ c \in Nat /\ Ahead(history) /\ TimersBound /\ ThrottleSound
      /\ history.latest \in On(c) /\ history.present \in On(c)
  BY DEF IInv, Shaped, Histories
<1>2. /\ throttle.timers \in Nat /\ throttle.timers <= edits /\ edits \in Nat /\ edits' \in Nat
      /\ history.present # history.latest => throttle.timers < edits
  BY <1>1, CanvasHistoryAssumption DEF TimersBound, CanvasHistoryAssumption
<1>3. CASE res = history.latest
  <2>1. history' = history /\ throttle' = throttle
    BY <1>3 DEF Dispatched
  <2>2. TimersBound'
    BY <1>1, <1>2, <2>1 DEF TimersBound
  <2>3. QED BY <1>1, <2>1, <2>2 DEF IInv, Ahead, ThrottleSound
<1>4. CASE res # history.latest /\ actionsThrottlingFilter(type)
  <2>1. history' = insert(history, res) /\ throttle' = throttled(type)
    BY <1>4 DEF Dispatched
  <2>2. Shaped(history', On(c))
    BY <1>1, <2>1, InsertShaped
  <2>3. history'.present = history'.latest
    BY <2>1 DEF insert, newHistory
  <2>4. throttle'.timers <= edits'
    BY <1>2, <1>4, <2>1, ThrottledOf
  <2>5. QED BY <1>1, <2>1, <2>2, <2>3, <2>4, ThrottledOf, Settled DEF IInv
<1>5. CASE res # history.latest /\ ~actionsThrottlingFilter(type)
  <2>1. history' = filtered(history, res) /\ throttle' = throttled(type)
    BY <1>5 DEF Dispatched
  <2>2. Shaped(history', On(c))
    BY <1>1, <2>1, FilteredShaped
  <2>3. /\ history'.present = res /\ history'.latest = history.latest
        /\ type = throttle.prevActionType /\ res.strokes = history.present.strokes
    BY <1>1, <1>5, <2>1, ThrottledOf DEF filtered, Shaped, Histories
  <2>4. Ahead(history)'
    BY <1>1, <2>3 DEF Ahead
  <2>5. TimersBound'
    <3>1. throttle'.timers = throttle.timers
      BY <1>5, <2>1, ThrottledOf
    <3>2. throttle'.timers < edits'
      BY <1>2, <1>5, <3>1
    <3>3. QED BY <1>2, <2>1, <3>1, <3>2, ThrottledOf DEF TimersBound
  <2>6. ThrottleSound'
    BY <1>1, <2>1, <2>3, ThrottledOf DEF ThrottleSound
  <2>7. QED BY <1>1, <2>2, <2>4, <2>5, <2>6, SameCanvas DEF IInv
<1>6. QED BY <1>3, <1>4, <1>5

LEMMA MakesEdit == edits < MaxEdits /\ edits \in 0 .. MaxEdits =>
                   edits + 1 \in 1 .. MaxEdits /\ edits + 1 \in 0 .. MaxEdits /\ edits + 1 > edits
BY CanvasHistoryAssumption DEF CanvasHistoryAssumption

LEMMA EditCanvasInv == IInv /\ EditCanvas => IInv'
<1> SUFFICES ASSUME IInv, EditCanvas PROVE IInv'
  OBVIOUS
<1>1. PICK type \in EditTypes :
        Dispatched(type, [history.present EXCEPT
                            !.ed = edits + 1, !.by = type,
                            !.strokes = IF type \in Strokes THEN @ \cup {edits + 1} ELSE @])
  BY DEF EditCanvas
<1> DEFINE c == history.present.canvas
           drawn == IF type \in Strokes THEN history.present.strokes \cup {edits + 1}
                                        ELSE history.present.strokes
           res == [history.present EXCEPT !.ed = edits + 1, !.by = type, !.strokes = drawn]
<1>2. /\ edits' = edits + 1 /\ edits \in 0 .. MaxEdits /\ edits < MaxEdits /\ snapshot' = snapshot
      /\ history.present \in On(c) /\ Ahead(history)
  BY DEF EditCanvas, IInv, TimersBound, Shaped, Histories
<1>3. edits + 1 \in 1 .. MaxEdits /\ edits + 1 \in 0 .. MaxEdits /\ edits + 1 > edits
  BY <1>2, MakesEdit
<1>4. /\ history.present \in State /\ drawn \in SUBSET (1 .. MaxEdits) /\ type \in Kinds
      /\ drawn \ history.present.strokes \subseteq {edits + 1}
  BY <1>2, <1>3, StateFields DEF Kinds
<1>5. /\ res \in On(c) /\ res.epoch = history.present.epoch /\ res.by = type /\ res.strokes = drawn
  BY <1>2, <1>3, <1>4 DEF On, State
<1>6. Near(history.latest, res)
  <2>1. history.latest.epoch = res.epoch => res.strokes \ history.latest.strokes \subseteq {edits + 1}
    BY <1>2, <1>4, <1>5 DEF Ahead
  <2>2. QED BY <2>1, AtMostOne DEF Near
<1>7. Dispatched(type, res)
  BY <1>1
<1> HIDE DEF res, drawn
<1>8. QED
  BY <1>2, <1>3, <1>4, <1>5, <1>6, <1>7, DispatchedInv, type \notin Strokes => drawn = history.present.strokes
     DEF drawn

LEMMA ChangeSettingInv == IInv /\ ChangeSetting => IInv'
<1> SUFFICES ASSUME IInv, ChangeSetting PROVE IInv'
  OBVIOUS
<1>1. PICK type \in {"canvasSettings"} \cup EditTypes : Dispatched(type, history.present)
  BY DEF ChangeSetting
<1>2. /\ edits' = edits /\ edits \in 0 .. MaxEdits /\ edits \in Int /\ snapshot' = snapshot
      /\ history.present \in On(history.present.canvas) /\ Ahead(history) /\ type \in Kinds
  BY DEF ChangeSetting, IInv, TimersBound, Shaped, Histories, Kinds
<1>3. Near(history.latest, history.present)
  <2>1. history.latest.epoch = history.present.epoch
            => history.present.strokes \ history.latest.strokes \subseteq {edits}
    BY <1>2 DEF Ahead
  <2>2. QED BY <2>1, AtMostOne DEF Near
<1>4. QED BY <1>1, <1>2, <1>3, DispatchedInv

\* What IInv says of all that the other actions leave alone.
LEMMA Rest ==
    ASSUME IInv
    PROVE  /\ history.present.canvas \in Nat /\ Shaped(history, On(history.present.canvas))
           /\ throttle \in [ignoreRapid : BOOLEAN, prevActionType : Kinds, timers : Nat]
           /\ edits \in 0 .. MaxEdits /\ throttle.timers <= edits
           /\ throttle.ignoreRapid => throttle.timers > 0
           /\ snapshot = Absent \/ snapshot \in State
           /\ \A s \in {history.present, history.latest} : s \in On(history.present.canvas)
BY DEF IInv, TimersBound, ThrottleSound, Shaped, Histories

LEMMA UndoInv == IInv /\ (canvasUndo \/ canvasRedo \/ canvasClearHistory) => IInv'
<1> SUFFICES ASSUME IInv, canvasUndo \/ canvasRedo \/ canvasClearHistory PROVE IInv'
  OBVIOUS
<1> USE Rest
<1>1. Shaped(history', On(history.present.canvas)) /\ history'.present = history'.latest
  <2>1. CASE canvasUndo
    BY <2>1, UndoShaped DEF canvasUndo, undo, newHistory
  <2>2. CASE canvasRedo
    BY <2>2, RedoShaped DEF canvasRedo, redo, newHistory
  <2>3. CASE canvasClearHistory
    BY <2>3, ClearShaped DEF canvasClearHistory, clearHistory, newHistory
  <2>4. QED BY <2>1, <2>2, <2>3
<1>2. throttle' = throttle /\ snapshot' = snapshot /\ edits' = edits
  BY DEF canvasUndo, canvasRedo, canvasClearHistory
<1>3. QED BY <1>1, <1>2, Settled

LEMMA SaveSnapshotInv == IInv /\ SaveSnapshot => IInv'
<1> SUFFICES ASSUME IInv, SaveSnapshot PROVE IInv'
  OBVIOUS
<1>1. snapshot' \in State
  BY Rest, StateFields DEF SaveSnapshot
<1>2. QED BY <1>1 DEF SaveSnapshot, IInv, Ahead, TimersBound, ThrottleSound

LEMMA RestoreSnapshotInv == IInv /\ RestoreSnapshot => IInv'
<1> SUFFICES ASSUME IInv, RestoreSnapshot PROVE IInv'
  OBVIOUS
<1> DEFINE c == history.present.canvas
           res == [snapshot EXCEPT !.by = "restored", !.canvas = c, !.epoch = history.present.epoch + 1]
<1>1. /\ history' = filtered(history, res) /\ throttle' = throttle /\ snapshot' = snapshot
      /\ edits' = edits + 1 /\ edits < MaxEdits /\ snapshot \in State
  BY Rest DEF RestoreSnapshot
<1>2. edits + 1 \in 1 .. MaxEdits /\ edits + 1 \in 0 .. MaxEdits /\ edits + 1 > edits
  BY <1>1, Rest, MakesEdit
<1>3. history.present.epoch \in Nat /\ history.latest.epoch \in Nat /\ c \in Nat
  BY Rest, StateFields
<1>4. /\ res \in On(c) /\ res.epoch = history.present.epoch + 1 /\ res.by = "restored"
  <2>1. history.present.epoch + 1 \in Nat /\ "restored" \in Kinds
    BY <1>3 DEF Kinds
  <2>2. res \in State
    BY <1>1, <1>3, <2>1 DEF State
  <2>3. res.canvas = c /\ res.epoch = history.present.epoch + 1 /\ res.by = "restored"
    BY <1>1 DEF State
  <2>4. QED BY <2>2, <2>3 DEF On
<1> HIDE DEF res
<1>5. Shaped(history', On(c))
  BY <1>1, <1>4, Rest, FilteredShaped
<1>6. history'.present = res /\ history'.latest = history.latest
  BY <1>1, Rest DEF filtered, Shaped, Histories
<1>7. Ahead(history)'
  BY <1>3, <1>4, <1>6 DEF IInv, Ahead
<1>8. TimersBound'
  <2>1. throttle.timers < edits'
    BY <1>1, Rest
  <2>2. QED BY <1>1, <1>2, <2>1, Rest DEF TimersBound
<1>9. ThrottleSound'
  BY <1>1, <1>4, <1>6, Rest DEF ThrottleSound
<1>10. QED BY <1>1, <1>3, <1>5, <1>7, <1>8, <1>9, SameCanvas DEF IInv

LEMMA ParamsChangedInv == IInv /\ ParamsChanged => IInv'
<1> SUFFICES ASSUME IInv, ParamsChanged PROVE IInv'
  OBVIOUS
<1> DEFINE c == history.present.canvas
           res == [history.present EXCEPT !.ed = edits + 1, !.by = "params"]
<1>1. /\ history' = filtered(history, res) /\ throttle' = throttle /\ snapshot' = snapshot
      /\ edits' = edits + 1 /\ edits < MaxEdits
  BY DEF ParamsChanged
<1>2. edits + 1 \in 1 .. MaxEdits /\ edits + 1 \in 0 .. MaxEdits /\ edits + 1 > edits
  BY <1>1, Rest, MakesEdit
<1>3. res \in On(c) /\ res.epoch = history.present.epoch /\ res.strokes = history.present.strokes
      /\ res.by = "params" /\ c \in Nat
  <2>1. history.present \in State /\ "params" \in Kinds /\ c \in Nat
    BY Rest, StateFields DEF Kinds
  <2>2. res \in State /\ res.canvas = c
    BY <1>2, <2>1 DEF State
  <2>3. res.epoch = history.present.epoch /\ res.strokes = history.present.strokes /\ res.by = "params"
    BY <2>1 DEF State
  <2>4. QED BY <2>1, <2>2, <2>3 DEF On
<1> HIDE DEF res
<1>4. Shaped(history', On(c))
  BY <1>1, <1>3, Rest, FilteredShaped
<1>5. history'.present = res /\ history'.latest = history.latest
  BY <1>1, Rest DEF filtered, Shaped, Histories
<1>6. Ahead(history)'
  BY <1>3, <1>5 DEF IInv, Ahead
<1>7. TimersBound'
  <2>1. throttle.timers < edits'
    BY <1>1, Rest
  <2>2. QED BY <1>1, <1>2, <2>1, Rest DEF TimersBound
<1>8. ThrottleSound'
  BY <1>1, <1>3, <1>5, Rest DEF ThrottleSound
<1>9. QED BY <1>1, <1>3, <1>4, <1>6, <1>7, <1>8, Rest, SameCanvas DEF IInv

LEMMA NewCanvasInv == IInv /\ newCanvasFromImage => IInv'
<1> SUFFICES ASSUME IInv, newCanvasFromImage PROVE IInv'
  OBVIOUS
<1> DEFINE c == history.present.canvas
<1>1. /\ history' = newHistory(<<>>, NewCanvas, <<>>)
      /\ throttle' = [throttle EXCEPT !.ignoreRapid = FALSE, !.prevActionType = "entityAdded"]
      /\ snapshot' = snapshot /\ edits' = edits + 1 /\ edits < MaxEdits
  BY Rest DEF newCanvasFromImage, clearHistory, Shaped, Histories
<1>2. edits + 1 \in 1 .. MaxEdits /\ edits + 1 \in 0 .. MaxEdits /\ edits + 1 > edits
  BY <1>1, Rest, MakesEdit
<1>3. c + 1 \in Nat /\ history.present \in State /\ "entityAdded" \in Kinds
  BY Rest, StateFields DEF Kinds
<1>4. NewCanvas \in On(c + 1)
  <2>1. NewCanvas \in State /\ NewCanvas.canvas = c + 1
    BY <1>2, <1>3 DEF NewCanvas, State
  <2>2. QED BY <2>1 DEF On
<1>5. Shaped(history', On(c + 1)) /\ history'.present = history'.latest
  BY <1>1, <1>4, ClearShaped DEF newHistory
<1>6. /\ throttle' \in [ignoreRapid : BOOLEAN, prevActionType : Kinds, timers : Nat]
      /\ throttle'.timers = throttle.timers /\ ~throttle'.ignoreRapid
  BY <1>1, <1>3, Rest
<1>7. throttle'.timers <= edits'
  BY <1>1, <1>6, Rest
<1>8. QED BY <1>1, <1>2, <1>3, <1>5, <1>6, <1>7, Rest, Settled

LEMMA ThrottleTimeoutInv == IInv /\ ThrottleTimeout => IInv'
<1> SUFFICES ASSUME IInv, ThrottleTimeout PROVE IInv'
  OBVIOUS
<1>1. /\ throttle' = [throttle EXCEPT !.ignoreRapid = FALSE, !.timers = @ - 1] /\ throttle.timers > 0
      /\ UNCHANGED <<history, snapshot, edits>>
  BY DEF ThrottleTimeout
<1>2. throttle.timers \in Nat /\ throttle.timers - 1 \in Nat /\ edits \in Nat
  BY <1>1, Rest
<1>3. /\ throttle' \in [ignoreRapid : BOOLEAN, prevActionType : Kinds, timers : Nat]
      /\ throttle'.timers = throttle.timers - 1 /\ ~throttle'.ignoreRapid
      /\ throttle'.prevActionType = throttle.prevActionType
  BY <1>1, <1>2, Rest
<1>4. throttle'.timers <= edits /\ (throttle.timers < edits => throttle'.timers < edits)
  BY <1>2, <1>3, Rest
<1>5. TimersBound' /\ ThrottleSound'
  BY <1>1, <1>3, <1>4 DEF IInv, TimersBound, ThrottleSound
<1>6. QED BY <1>1, <1>5 DEF IInv, Ahead

LEMMA ReloadInv == IInv /\ Reload => IInv'
<1> SUFFICES ASSUME IInv, Reload PROVE IInv'
  OBVIOUS
<1> DEFINE c == history.present.canvas
<1>1. PICK s \in {history.present, history.latest} \cup ToSet(history.past) :
        history' = newHistory(<<>>, s, <<>>)
  BY DEF Reload
<1>2. s \in On(c)
  <2>1. history.past \in Seq(On(c))
    BY Rest DEF Shaped, Histories
  <2>2. QED BY <2>1, Rest DEF ToSet
<1>3. Shaped(history', On(c)) /\ history'.present = history'.latest
  BY <1>1, <1>2, ClearShaped DEF newHistory
<1>4. /\ throttle' = [ignoreRapid |-> FALSE, prevActionType |-> "none", timers |-> 0]
      /\ snapshot' = snapshot /\ edits' = edits
  BY DEF Reload
<1>5. /\ throttle' \in [ignoreRapid : BOOLEAN, prevActionType : Kinds, timers : Nat]
      /\ throttle'.timers = 0 /\ ~throttle'.ignoreRapid /\ 0 <= edits
  BY <1>4, Rest DEF Kinds
<1>6. QED BY <1>3, <1>4, <1>5, Rest, Settled

THEOREM NextInv == IInv /\ [Next]_vars => IInv'
<1> SUFFICES ASSUME IInv, [Next]_vars PROVE IInv'
  OBVIOUS
<1>1. CASE UNCHANGED vars
  BY <1>1 DEF vars, IInv, Ahead, TimersBound, ThrottleSound
<1>2. CASE Next
  BY <1>2, EditCanvasInv, ChangeSettingInv, UndoInv, SaveSnapshotInv, RestoreSnapshotInv, ParamsChangedInv,
     NewCanvasInv, ThrottleTimeoutInv, ReloadInv DEF Next
<1>3. QED BY <1>1, <1>2

-------------------------------------------------------------------------------
(***************************************************************************)
(* What the invariant says of the properties.                              *)
(***************************************************************************)
LEMMA InvImpliesHistoryInv == IInv => HistoryInv
<1> SUFFICES ASSUME IInv PROVE HistoryInv
  OBVIOUS
<1> DEFINE c == history.present.canvas
<1>1. ASSUME NEW s \in Reachable PROVE s \in On(c)
  <2>1. history.past \in Seq(On(c)) /\ history.future \in Seq(On(c))
    BY Rest DEF Shaped, Histories
  <2>2. QED BY <1>1, <2>1, Rest DEF Reachable, ToSet
<1>2. CanvasesApart
  BY <1>1, StateFields DEF CanvasesApart
<1>3. throttle.timers \in 0 .. MaxEdits /\ throttle.ignoreRapid \in BOOLEAN
  BY Rest, CanvasHistoryAssumption DEF CanvasHistoryAssumption
<1>4. TypeOK
  BY <1>1, <1>3, StateFields DEF TypeOK, IInv, Shaped
<1>5. QED BY <1>2, <1>4 DEF HistoryInv, IInv

LEMMA Joined ==
    ASSUME NEW S, NEW p \in Seq(S), NEW q \in Seq(S), NEW k \in Nat, NEW f \in Nat,
           Len(p) = k + 1, Len(q) = f
    PROVE  /\ Len(p \o q) = k + 1 + f
           /\ \A n \in 1 .. k + 1 : (p \o q)[n] = p[n]
           /\ \A n \in 1 .. f : (p \o q)[k + 1 + n] = q[n]
<1> DEFINE r == p \o q
<1>1. /\ Len(r) = k + 1 + f
      /\ \A n \in 1 .. Len(p) + Len(q) : r[n] = IF n <= Len(p) THEN p[n] ELSE q[n - Len(p)]
  BY ConcatProperties
<1> HIDE DEF r
<1>2. \A n \in 1 .. k + 1 + f : r[n] = IF n <= k + 1 THEN p[n] ELSE q[n - (k + 1)]
  BY <1>1
<1>3. ASSUME NEW n \in 1 .. k + 1 PROVE r[n] = p[n]
  <2>1. n \in 1 .. k + 1 + f /\ n <= k + 1
    OBVIOUS
  <2>2. QED BY <1>2, <2>1
<1>4. ASSUME NEW n \in 1 .. f PROVE r[k + 1 + n] = q[n]
  <2>1. k + 1 + n \in 1 .. k + 1 + f /\ ~(k + 1 + n <= k + 1) /\ (k + 1 + n) - (k + 1) = n
    OBVIOUS
  <2>2. QED BY <1>2, <2>1
<1>5. QED BY <1>1, <1>3, <1>4 DEF r

\* The steps of a history are those of its line.
LEMMA InvImpliesOneStroke == IInv => OneStrokeEach
<1> SUFFICES ASSUME IInv PROVE OneStrokeEach
  OBVIOUS
<1> DEFINE S == On(history.present.canvas)
           past == Append(history.past, history.latest)
           line == past \o history.future
<1>1. history.past \in Seq(S) /\ history.future \in Seq(S) /\ history.latest \in S /\ Stepwise(history)
  BY Rest DEF Shaped, Histories
<1>8. PICK k \in Nat : k = Len(history.past)
  BY <1>1, LenProperties
<1>9. PICK f \in Nat : f = Len(history.future)
  BY <1>1, LenProperties
<1>2. /\ past \in Seq(S) /\ Len(past) = k + 1 /\ past[k + 1] = history.latest
      /\ \A n \in 1 .. k : past[n] = history.past[n]
  BY <1>1, <1>8, AppendProperties
<1>3. /\ Len(line) = k + 1 + f
      /\ \A n \in 1 .. k + 1 : line[n] = past[n]
      /\ \A n \in 1 .. f : line[k + 1 + n] = history.future[n]
  <2> DEFINE future == history.future
  <2>1. past \in Seq(S) /\ future \in Seq(S) /\ Len(past) = k + 1 /\ Len(future) = f /\ line = past \o future
    BY <1>1, <1>2, <1>9
  <2> HIDE DEF S, past, line, future
  <2>2. /\ Len(line) = k + 1 + f
        /\ \A n \in 1 .. k + 1 : line[n] = past[n]
        /\ \A n \in 1 .. f : line[k + 1 + n] = future[n]
    BY <2>1, Joined
  <2>3. QED BY <2>2 DEF future
<1>0. Steps(history.past) /\ Steps(history.future)
  BY <1>1 DEF Stepwise
<1> HIDE DEF past, line
<1>4. ASSUME NEW n \in 1 .. Len(line) - 1 PROVE Near(line[n], line[n + 1])
  <2>1. CASE n < k
    <3>1. /\ n \in 1 .. k - 1 /\ n \in 1 .. k /\ n + 1 \in 1 .. k
          /\ n \in 1 .. k + 1 /\ n + 1 \in 1 .. k + 1
      BY <1>4, <2>1
    <3>2. QED BY <1>0, <1>2, <1>3, <1>8, <3>1 DEF Steps
  <2>2. CASE n = k
    <3>1. n \in 1 .. k /\ n \in 1 .. k + 1 /\ n + 1 \in 1 .. k + 1 /\ history.past # <<>>
      BY <1>1, <1>4, <1>8, <2>2, EmptySeq
    <3>2. QED BY <1>1, <1>2, <1>3, <1>8, <2>2, <3>1 DEF Stepwise
  <2>3. CASE n = k + 1
    <3>1. n \in 1 .. k + 1 /\ 1 \in 1 .. f
      BY <1>3, <1>4, <2>3
    <3>0. history.future # <<>>
      BY <1>1, <1>9, <3>1, EmptySeq
    <3>2. QED BY <1>1, <1>2, <1>3, <2>3, <3>0, <3>1 DEF Stepwise
  <2>4. CASE n > k + 1
    <3> DEFINE m == n - (k + 1)
    <3>1. n \in 1 .. k + f
      BY <1>3, <1>4
    <3>2. /\ m \in 1 .. f - 1 /\ m \in 1 .. f /\ m + 1 \in 1 .. f
          /\ n = k + 1 + m /\ n + 1 = k + 1 + (m + 1)
      BY <2>4, <3>1
    <3> HIDE DEF m
    <3>3. line[n] = history.future[m] /\ line[n + 1] = history.future[m + 1]
      BY <1>3, <3>2
    <3>4. QED BY <1>0, <1>9, <3>2, <3>3 DEF Steps
  <2>5. QED BY <1>4, <2>1, <2>2, <2>3, <2>4
<1>5. QED BY <1>4 DEF Near, OneStrokeEach, line, past

\* The history of the canvas keeps to its canvas and its limit; while edits are
\* throttled a timer runs, and the canvas's own actions are skipped only if they are
\* of the type that passed last.
THEOREM HistorySound == Spec => []HistoryInv
<1>1. Spec => []IInv
  BY InitInv, NextInv, PTL DEF Spec
<1>2. QED BY <1>1, InvImpliesHistoryInv, PTL

\* However many strokes are drawn, and however quickly, no undo or redo of the
\* history takes more than one of them.
THEOREM OneStroke == Spec => []OneStrokeEach
<1>1. Spec => []IInv
  BY InitInv, NextInv, PTL DEF Spec
<1>2. QED BY <1>1, InvImpliesOneStroke, PTL
===============================================================================
