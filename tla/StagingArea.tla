------------------------------ MODULE StagingArea ------------------------------
(***************************************************************************)
(* The canvas's staging area, in the browser: StagingAreaApi, the query    *)
(* cache it reads (listAllQueueItems), the socket handlers that patch and  *)
(* invalidate that cache, and the slice that holds the session.            *)
(*                                                                         *)
(* JavaScript runs one handler at a time, so an action is what happens     *)
(* until the next await: a socket message with all its listeners, an       *)
(* answer to a request, a click.  A change of the store calls              *)
(* onItemsChangedEvent before dispatch() returns; that is a function here, *)
(* from the state of the api to its state, and whatever changes the store  *)
(* applies it, more than once if it dispatches more than once.             *)
(* onItemsChangedEvent awaits the images of completed items: `calls` holds *)
(* the calls that are waiting, and any of them may go on at any time.      *)
(*                                                                         *)
(* The server is as the browser sees it: items with a status and its       *)
(* sequence number, a socket that keeps the order of its messages, and     *)
(* answers that are as old as the moment the request was served.           *)
(***************************************************************************)
EXTENDS Integers, Sequences, FiniteSets, FiniteSetsExt, SequencesExt

CONSTANTS
    Items,        \* queue items; their ids are numbers, in the order of the list
    Outputs,      \* item -> how many images its canvas_output nodes make
    Ends,         \* the ways an item may end
    Modes,        \* the auto-switch modes the user may choose
    MaxSessions,  \* bound: canvas sessions
    MaxWire,      \* bound: messages on the socket
    MaxCalls,     \* bound: calls waiting for images when a message or an answer is handled
    Sequenced,    \* the server sends status_sequence
    ImagesFail    \* a request for an image may fail

ASSUME StagingAssumption ==
    /\ Items \subseteq Nat \ {0}
    /\ IsFiniteSet(Items)
    /\ Outputs \in [Items -> Nat \ {0}]
    /\ Ends \subseteq {"completed", "failed", "canceled"}
    /\ Modes \subseteq {"off", "switch_on_start", "switch_on_finish"}
    /\ MaxSessions \in Nat \ {0}
    /\ MaxWire \in Nat /\ MaxCalls \in Nat
    /\ Sequenced \in BOOLEAN
    /\ ImagesFail \in BOOLEAN

VARIABLES
    srv,       \* the rows of the queue: destination, status, sequence, results
    wire,      \* messages on the socket
    finished,  \* finishedQueueItemIds of setEventListeners
    query,     \* the cache entry of listAllQueueItems for the session, and its request
    app,       \* the store: session, discarded items, auto-switch mode
    area,      \* the StagingAreaApi
    missed     \* history: images whose request failed

vars == <<srv, wire, finished, query, app, area, missed>>

None == 0
Undefined == -1

Terminal == {"completed", "failed", "canceled"}
Status == {"pending", "in_progress"} \cup Terminal
Rank(s) == CASE s = "pending" -> 0 [] s = "in_progress" -> 1 [] OTHER -> 2

Ids(list) == {x.id : x \in Range(list)}
ItemIn(list, i) == list[CHOOSE n \in DOMAIN list : list[n].id = i]
IndexIn(list, i) == IF i \in Ids(list) THEN CHOOSE n \in DOMAIN list : list[n].id = i ELSE 0

-----------------------------------------------------------------------------
(* StagingAreaApi: which snapshot of an item to believe.                   *)

\* Mutated form.  Nothing is too old.
AcceptAny(a, x) == TRUE

\* An equal sequence number lets a status of at least the rank seen win.
shouldAcceptQueueItem(a, x) ==
    \/ x.seq # Undefined /\ x.seq > a.seqs[x.id]
    \/ /\ x.seq # Undefined => x.seq = a.seqs[x.id]
       /\ Rank(x.status) >= a.ranks[x.id]

recordSeenItemOrdering(a, x) ==
    [a EXCEPT !.seqs[x.id] = Max({@, x.seq}), !.ranks[x.id] = Max({@, Rank(x.status)})]

\* The items of a list are recorded, those that are not on it forgotten, the ones
\* among them that are still on show.
RecordAndPrune(a, list) ==
    LET seen(i) == recordSeenItemOrdering(a, ItemIn(list, i))
    IN  [a EXCEPT
           !.forgotten = @ \cup (Ids(a.items) \ Ids(list)),
           !.seqs = [i \in Items |-> IF i \in Ids(list) THEN seen(i).seqs[i] ELSE Undefined],
           !.ranks = [i \in Items |-> IF i \in Ids(list) THEN seen(i).ranks[i] ELSE Undefined]]

\* A stale item is replaced by the one shown, or left out.
Normalized(a, list) ==
    LET shown(x) == IF x.id \in Ids(a.items) THEN <<ItemIn(a.items, x.id)>> ELSE <<>>
    IN  FlattenSeq([n \in DOMAIN list |->
            IF shouldAcceptQueueItem(a, list[n]) THEN <<list[n]>> ELSE shown(list[n])])

-----------------------------------------------------------------------------
(* StagingAreaApi: selection.                                              *)

Selecting(a, i, n) == [a EXCEPT !.selected = i, !.image = n]

\* One entry per image, or one for an item that has none yet.
Entries(a) ==
    FlattenSeq([n \in DOMAIN a.items |->
        [k \in 1 .. Max({1, a.dtos[a.items[n].id]}) |-> <<a.items[n].id, k - 1>>]])

\* $selectedItem: of these entries the one that is selected, else the item's first,
\* else none.
SelectedAmong(e, a) ==
    LET own == {n \in DOMAIN e : e[n][1] = a.selected}
        exact == {n \in own : e[n][2] = a.image}
    IN  IF own = {} THEN 0 ELSE IF exact # {} THEN Min(exact) ELSE Min(own)

SelectedIndex(a) == SelectedAmong(Entries(a), a)

\* The selected item vanished: take what took its place in the old list, or its
\* predecessor, if there is either; if the old list did not have it, the first.
Reselect(a, c) ==
    LET k == IndexIn(c.old, a.selected)
        places == {n \in {k, k - 1} : n \in DOMAIN c.list}
    IN  IF a.selected = None \/ a.selected \in Ids(c.list) THEN a
        ELSE IF k # 0 THEN IF places = {} THEN [a EXCEPT !.lost = TRUE]
                           ELSE Selecting(a, c.list[Max(places)].id, 0)
        ELSE Selecting(a, IF c.list = <<>> THEN None ELSE c.list[1].id, 0)

-----------------------------------------------------------------------------
(* StagingAreaApi: onItemsChangedEvent.                                    *)

AwaitsImages(a, x) ==
    x.status = "completed" /\ x.results /\ a.dtos[x.id] # Outputs[x.id]

\* What the loop does with items that it need not await.
Passing(a, xs, mode) ==
    LET begun == {x \in xs : x.status = "in_progress" /\ x.id = a.lastStarted}
        ended == {x.id : x \in {y \in xs : y.status \in {"canceled", "failed"}}}
        b == [a EXCEPT !.dtos = [i \in Items |-> IF i \in ended THEN 0 ELSE @[i]]]
    IN  IF begun # {} /\ mode = "switch_on_start"
        THEN [Selecting(b, a.lastStarted, 0) EXCEPT !.lastStarted = None] ELSE b

\* After the loop: unless a newer call has begun, its list is shown.
Finishing(a, c) == IF c.stale THEN a ELSE [Reselect(a, c) EXCEPT !.items = c.list, !.forgotten = {}]

\* The loop of a call, from index n to the next await or to the end.
Looping(a, c, n, mode) ==
    LET awaits == {m \in n .. Len(c.list) : AwaitsImages(a, c.list[m])}
        upto == IF awaits = {} THEN Len(c.list) ELSE Min(awaits) - 1
        b == Passing(a, {c.list[m] : m \in n .. upto}, mode)
    IN  IF awaits = {} THEN Finishing(b, c)
        ELSE [b EXCEPT !.calls = @ \cup {[c EXCEPT !.at = upto + 1]}]

\* Mutated form.  The generation is not counted up.
OvertakingNone(a) == a

\* generation = ++_itemsEventGeneration: every waiting call is stale from here.
\* (A stale call has no more use for the old list.)
Overtaking(a) == [a EXCEPT !.calls = {[c EXCEPT !.stale = TRUE, !.old = <<>>] : c \in @}]

onItemsChangedEvent(a, list, mode) ==
    LET next == Normalized(a, list)
        b == Overtaking(RecordAndPrune(a, next))
        c == IF next = <<>> THEN Selecting(b, None, 0)
             ELSE IF b.selected = None THEN Selecting(b, next[1].id, 0) ELSE b
        d == [c EXCEPT !.dtos = [i \in Items |-> IF i \in Ids(next) THEN @[i] ELSE 0]]
    IN  Looping(d, [list |-> next, old |-> a.items, at |-> 0, stale |-> FALSE], 1, mode)

\* The images of the awaited item arrive, k of them: none, and the loop goes on
\* without a look at the generation; some, and a stale call ends.
Arriving(a, c, k, mode) ==
    LET i == c.list[c.at].id
        b == [a EXCEPT !.calls = @ \ {c}]
    IN  IF k > 0 /\ c.stale THEN b
        ELSE Looping([b EXCEPT !.dtos[i] = Max({@, k})], c, c.at + 1, mode)

-----------------------------------------------------------------------------
(* StagingAreaApi: events, and the end of a session.                       *)

onQueueItemStatusChangedEvent(a, e, mode) ==
    LET b == recordSeenItemOrdering(a, e)
        c == IF e.status = "completed" THEN [b EXCEPT !.lastCompleted = e.id] ELSE b
    IN  IF e.status = "in_progress" /\ mode = "switch_on_start"
        THEN [c EXCEPT !.lastStarted = e.id] ELSE c

\* A call that waits is not ended by the end of its session, only overtaken.
\* forgotten and lost are history: what is on show although a later list, which
\* waits for images, was without it; and that the selection fell off the end of
\* a list that was shorter by more than one.
EmptyArea ==
    [items |-> <<>>, dtos |-> [i \in Items |-> 0], selected |-> None, image |-> 0,
     lastStarted |-> None, lastCompleted |-> None,
     seqs |-> [i \in Items |-> Undefined], ranks |-> [i \in Items |-> Undefined], calls |-> {},
     forgotten |-> {}, lost |-> FALSE]

\* Mutated form.  The generation is not counted up.
CleanupKeeps(a) == [EmptyArea EXCEPT !.calls = a.calls]

cleanup(a) == [EmptyArea EXCEPT !.calls = Overtaking(a).calls]

-----------------------------------------------------------------------------
(* The cache, and the store's subscription.                                *)

\* buildSelectCanvasQueueItems
CanvasQueueItems(q, discarded) ==
    FlattenSeq([n \in DOMAIN q.data |->
        IF q.data[n].status \notin {"canceled", "failed"} /\ q.data[n].id \notin discarded
        THEN <<q.data[n]>> ELSE <<>>])

Notified(a, q, discarded) == onItemsChangedEvent(a, CanvasQueueItems(q, discarded), app.mode)

\* invalidateTags: a request that is in flight is not sent again.
Invalidated(q) == IF q.fetch = "idle" THEN [q EXCEPT !.fetch = "sent"] ELSE q

\* The new query of a session is sent as soon as it is subscribed to.
NewQuery == [data |-> <<>>, fetch |-> "sent", answer |-> <<>>]

\* A dispatched change of the cache from q to r; the subscription sees a change
\* of the request's state too.
Dispatched(a, q, r) == IF q = r THEN a ELSE Notified(a, r, app.discarded)

\* updateQueryData('listAllQueueItems'): status and sequence, not the session.
Patched(q, e) ==
    [q EXCEPT !.data = [n \in DOMAIN @ |->
        IF @[n].id = e.id THEN [@[n] EXCEPT !.status = e.status, !.seq = e.seq] ELSE @[n]]]

-----------------------------------------------------------------------------
(* The server.                                                             *)

Message(kind, i, status, seq, dest) ==
    [kind |-> kind, id |-> i, status |-> status, dest |-> dest,
     seq |-> IF Sequenced THEN seq ELSE Undefined]

HasRoom == Len(wire) < MaxWire

BatchEnqueued == Message("batch_enqueued", None, "pending", 0, None)
QueueCleared == [BatchEnqueued EXCEPT !.kind = "queue_cleared"]

\* Invoke: the next item is enqueued with the session as its destination.
EnqueueBatch ==
    /\ HasRoom
    /\ \E i \in Items :
        /\ srv[i].status = "none" /\ \A j \in Items : j < i => srv[j].status # "none"
        /\ srv' = [srv EXCEPT ![i] = [dest |-> app.session, status |-> "pending", seq |-> 0,
                                      results |-> FALSE]]
        /\ wire' = Append(wire, BatchEnqueued)
    /\ UNCHANGED <<finished, query, app, area, missed>>

\* The canvas_output node of a running item is done: its session has results.
Produce ==
    /\ \E i \in Items : srv[i].status = "in_progress" /\ srv' = [srv EXCEPT ![i].results = TRUE]
    /\ UNCHANGED <<wire, finished, query, app, area, missed>>

Follows(s, t) ==
    \/ s = "pending" /\ t \in {"in_progress"} \cup (Ends \cap {"canceled"})
    \/ s = "in_progress" /\ t \in Ends

QueueItemStatusChanged ==
    /\ HasRoom
    /\ \E i \in Items, t \in Status :
        /\ Follows(srv[i].status, t)
        /\ t = "completed" => srv[i].results
        /\ srv' = [srv EXCEPT ![i].status = t, ![i].seq = @ + 1]
        /\ wire' = Append(wire, Message("queue_item_status_changed", i, t, srv'[i].seq, srv[i].dest))
    /\ UNCHANGED <<finished, query, app, area, missed>>

\* The queue is cleared: the rows are gone, and clients are told to look.
ClearQueue ==
    /\ HasRoom
    /\ \E i \in Items : srv[i].status \in Status
    /\ srv' = [i \in Items |->
                  IF srv[i].status \notin Status THEN srv[i]
                  ELSE [dest |-> srv[i].dest, status |-> "gone", seq |-> 0, results |-> FALSE]]
    /\ wire' = Append(wire, QueueCleared)
    /\ UNCHANGED <<finished, query, app, area, missed>>

\* The request is served: the answer holds the rows as they are now.
ServeListAll ==
    /\ query.fetch = "sent"
    /\ LET own == {i \in Items : srv[i].status \in Status /\ srv[i].dest = app.session}
       IN  \E rows \in [1 .. Cardinality(own) -> own] :
             /\ \A m, n \in DOMAIN rows : m < n => rows[m] < rows[n]
             /\ query' = [query EXCEPT !.fetch = "served",
                                       !.answer = [n \in DOMAIN rows |->
                                          [id |-> rows[n], status |-> srv[rows[n]].status,
                                           seq |-> IF Sequenced THEN srv[rows[n]].seq ELSE Undefined,
                                           results |-> srv[rows[n]].results]]]
    /\ UNCHANGED <<srv, wire, finished, app, area, missed>>

-----------------------------------------------------------------------------
(* The browser: requests and messages.                                     *)

NotCrowded == Cardinality(area.calls) < MaxCalls

\* The answer replaces the cached list, whatever was patched in the meantime.
FetchFulfilled ==
    /\ NotCrowded
    /\ query.fetch = "served"
    /\ query' = [data |-> query.answer, fetch |-> "idle", answer |-> <<>>]
    /\ area' = Dispatched(area, query, query')
    /\ UNCHANGED <<srv, wire, finished, app, missed>>

FetchRejected ==
    /\ NotCrowded
    /\ query.fetch # "idle"
    /\ query' = [query EXCEPT !.fetch = "idle", !.answer = <<>>]
    /\ area' = Dispatched(area, query, query')
    /\ UNCHANGED <<srv, wire, finished, app, missed>>

\* A status message: the app's listener patches the cache and invalidates it,
\* unless the item was finished before; then the api's listener runs.
OnQueueItemStatusChanged ==
    /\ NotCrowded
    /\ wire # <<>> /\ Head(wire).kind = "queue_item_status_changed"
    /\ wire' = Tail(wire)
    /\ LET e == Head(wire)
           patched == IF e.dest = app.session THEN Patched(query, e) ELSE query
           a == Dispatched(area, query, patched)
           b == Dispatched(a, patched, Invalidated(patched))
           c == IF e.id \in finished THEN area ELSE b
       IN  /\ query' = IF e.id \in finished THEN query ELSE Invalidated(patched)
           /\ finished' = IF e.status \in Terminal THEN finished \cup {e.id} ELSE finished
           /\ area' = IF e.dest = app.session THEN onQueueItemStatusChangedEvent(c, e, app.mode) ELSE c
    /\ UNCHANGED <<srv, app, missed>>

\* queue_cleared, batch_enqueued and the like only invalidate.
OnInvalidated ==
    /\ NotCrowded
    /\ wire # <<>> /\ Head(wire).kind \in {"batch_enqueued", "queue_cleared"}
    /\ wire' = Tail(wire)
    /\ query' = Invalidated(query)
    /\ area' = Dispatched(area, query, query')
    /\ UNCHANGED <<srv, finished, app, missed>>

\* getImageDTO for the outputs of an item: all of them, or some requests fail.
ImagesArrive ==
    /\ \E c \in area.calls :
        LET i == c.list[c.at].id
        IN  \E k \in 0 .. Outputs[i] :
              /\ ImagesFail \/ k = Outputs[i]
              /\ area' = Arriving(area, c, k, app.mode)
              /\ missed' = IF k = Outputs[i] THEN missed ELSE missed \cup {i}
    /\ UNCHANGED <<srv, wire, finished, query, app>>

\* Mutated form.  Whatever loads is selected.
onAnyImageLoaded ==
    /\ \E i \in Ids(area.items) :
        /\ area.dtos[i] > 0
        /\ app.mode = "switch_on_finish"
        /\ area' = [Selecting(area, i, 0) EXCEPT !.lastCompleted = None]
    /\ UNCHANGED <<srv, wire, finished, query, app, missed>>

\* The img element of an entry has loaded.
onImageLoaded ==
    /\ \E i \in Ids(area.items) :
        /\ area.dtos[i] > 0
        /\ area.lastCompleted = i /\ app.mode = "switch_on_finish"
        /\ area' = [Selecting(area, i, 0) EXCEPT !.lastCompleted = None]
    /\ UNCHANGED <<srv, wire, finished, query, app, missed>>

-----------------------------------------------------------------------------
(* The browser: the user.                                                  *)

ChangeSelection(a) ==
    /\ area' = a
    /\ UNCHANGED <<srv, wire, finished, query, app, missed>>

Step(e, n) == ChangeSelection(Selecting(area, e[n][1], e[n][2]))

select == LET e == Entries(area) IN \E n \in DOMAIN e : Step(e, n)
selectNext == LET e == Entries(area)
                  k == SelectedAmong(e, area)
              IN  k # 0 /\ Len(e) > 1 /\ Step(e, (k % Len(e)) + 1)
selectPrev == LET e == Entries(area)
                  k == SelectedAmong(e, area)
              IN  k # 0 /\ Len(e) > 1 /\ Step(e, ((k + Len(e) - 2) % Len(e)) + 1)
selectFirst == LET e == Entries(area) IN e # <<>> /\ Step(e, 1)
selectLast == LET e == Entries(area) IN e # <<>> /\ Step(e, Len(e))

setAutoSwitch ==
    /\ \E m \in Modes \ {app.mode} : app' = [app EXCEPT !.mode = m]
    /\ UNCHANGED <<srv, wire, finished, query, area, missed>>

\* canvasSessionReset: the store forgets what was discarded, the subscription
\* of the old session sees that; then the provider is rendered for the new
\* session, which ends the old one and sends a new query.
ResetSession(a) ==
    /\ app.session < MaxSessions
    /\ app' = [app EXCEPT !.session = @ + 1, !.discarded = {}]
    /\ query' = NewQuery
    /\ area' = cleanup(Notified(a, query, {}))
    /\ UNCHANGED <<srv, wire, finished, missed>>

\* Of an item: it is gone from the list at once; its row is canceled later, by a
\* request (QueueItemStatusChanged).  The last item takes the session with it.
discardSelected ==
    /\ SelectedIndex(area) # 0
    /\ LET i == area.selected
           k == IndexIn(area.items, i)
           next == area.items[Min({k + 1, Len(area.items)})].id
           discarded == app.discarded \cup {i}
           b == Selecting(area, next, 0)
           a == IF i \in app.discarded THEN b ELSE Notified(b, query, discarded)
       IN  IF CanvasQueueItems(query, discarded) = <<>>
           THEN ResetSession(a)
           ELSE /\ app' = [app EXCEPT !.discarded = discarded]
                /\ area' = a
                /\ UNCHANGED <<srv, wire, finished, query, missed>>

discardAll == ResetSession(Selecting(area, None, 0))

\* The image goes to a raster layer, which the canvas has; the session ends.
acceptSelected ==
    /\ SelectedIndex(area) # 0
    /\ area.dtos[area.selected] > 0
    /\ ResetSession(area)

-----------------------------------------------------------------------------

Init ==
    /\ srv = [i \in Items |-> [dest |-> 0, status |-> "none", seq |-> 0, results |-> FALSE]]
    /\ wire = <<>>
    /\ finished = {}
    /\ query = NewQuery
    /\ app \in [session : {1}, discarded : {{}}, mode : Modes]
    /\ area = EmptyArea
    /\ missed = {}

Server == EnqueueBatch \/ Produce \/ QueueItemStatusChanged \/ ClearQueue
Network == \/ ServeListAll \/ FetchFulfilled \/ FetchRejected
           \/ OnQueueItemStatusChanged \/ OnInvalidated \/ ImagesArrive
User == \/ onImageLoaded
        \/ select \/ selectNext \/ selectPrev \/ selectFirst \/ selectLast
        \/ setAutoSwitch \/ discardSelected \/ discardAll \/ acceptSelected

Next == Server \/ Network \/ User

Spec == Init /\ [][Next]_vars

-----------------------------------------------------------------------------
(* Properties.                                                             *)

ListType == Seq([id : Items, status : Status, seq : Int, results : BOOLEAN])

TypeOK ==
    /\ srv \in [Items -> [dest : 0 .. MaxSessions, status : Status \cup {"none", "gone"},
                          seq : Nat, results : BOOLEAN]]
    /\ Len(wire) <= MaxWire
    /\ finished \subseteq Items
    /\ query.fetch \in {"idle", "sent", "served"}
    /\ query.data \in ListType /\ query.answer \in ListType
    /\ app \in [session : 1 .. MaxSessions, discarded : SUBSET Items, mode : Modes]
    /\ area.items \in ListType
    /\ \A i \in Items : area.dtos[i] \in 0 .. Outputs[i]
    /\ {area.selected, area.lastStarted, area.lastCompleted} \subseteq Items \cup {None}
    /\ \A c \in area.calls : c.at \in DOMAIN c.list
    /\ missed \subseteq Items

\* Only the newest call of onItemsChangedEvent is not stale.
Waiting == {c \in area.calls : ~c.stale}

\* While an item is on show, what is shown of it never gets older, whatever
\* the order in which answers, patches and images arrive (unless the api forgot
\* what it had seen of it, since a list that is not shown yet was without it).
NeverOlder ==
    [][app'.session = app.session =>
         \A i \in (Ids(area.items) \cap Ids(area'.items)) \ area.forgotten :
            LET x == ItemIn(area.items, i)
                y == ItemIn(area'.items, i)
            IN  y.seq >= x.seq /\ Rank(y.status) >= Rank(x.status)]_vars

\* What was discarded does not come back, whichever calls were waiting.
DiscardedStaysAway ==
    [][app'.session = app.session =>
         \A i \in app.discarded : i \in Ids(area'.items) => i \in Ids(area.items)]_vars

\* Nothing of an earlier session is on show.
OwnSession == \A i \in Ids(area.items) : srv[i].dest = app.session

\* When no call is waiting, the images of all completed items on show are
\* there, but for those whose request failed.
ImagesShown ==
    Waiting = {} =>
        \A x \in Range(area.items) :
            x.status = "completed" /\ x.results =>
                area.dtos[x.id] = Outputs[x.id] \/ x.id \in missed

\* When no call is waiting and something is on show, an entry is selected.  (Not
\* so once an image could not be had: then an overtaken call goes on, and may
\* select an item that is no longer there; nor when the selection was lost.)
SomethingSelected == missed = {} /\ ~area.lost /\ Waiting = {} /\ area.items # <<>> => SelectedIndex(area) # 0

\* A call that goes on after its await does not move the selection off an item
\* that is on the list it shows, whatever the user selected in the meantime,
\* but to an item that auto-switch follows; nor does an image that loads.
SelectionKept ==
    [][ImagesArrive \/ onImageLoaded =>
          \/ area'.selected = area.selected
          \/ area.selected \notin Ids(area'.items)
          \/ app.mode = "switch_on_start" /\ area'.selected = area.lastStarted
          \/ app.mode = "switch_on_finish" /\ area'.selected = area.lastCompleted]_vars

\* The types, and what is on show at any time: items of this session only, with
\* their images, and one of them selected.
StagingInv == TypeOK /\ OwnSession /\ ImagesShown /\ SomethingSelected

===============================================================================
