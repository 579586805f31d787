# A TLA+ model of InvokeAI

InvokeAI takes batches of node graphs over HTTP, keeps them in a queue in SQLite, and runs them one
after the other on one thread while the event loop goes on serving requests. Its browser client
draws those graphs, sends them, hears of their progress over a socket, and keeps a canvas on which
results are staged, edited and undone. Models it runs are downloaded and installed in the background,
by threads that must survive pauses, errors and restarts. This directory models all three: in the
server, the queue, the processor, the execution of a graph, downloads and installs; in the client, the
six parts that keep state of their own and have rules about it. TLC checks all of it. TLAPS proves the
safety properties of the queue and the processor, of downloads and installs, of the client's staging
area, canvas entities, layer filter and canvas history, and two of the graph execution, for instances
of any size.
Paths below are relative to the repository's `invokeai/` package; those of the client to
`frontend/web/src/`, where it says so.

## The system: components, state, operations

| component | state | operations | interacts with | hard parts | what makes it correct |
|---|---|---|---|---|---|
| Session queue (`app/services/session_queue/`, `app/api/routers/session_queue.py`) | the table `session_queue`: status, priority, batch, origin, user, session, retried_from_item_id | enqueue, dequeue, set status (cancel, complete, fail), bulk cancel and delete, clear, prune, retry, startup recovery | called by HTTP handlers on the event loop and by the processor's thread; emits events | an operation is several transactions; two threads; `enqueue_batch` awaits in its middle; crash | finished is final, nothing in progress that nobody runs, order, isolation of users, size bound |
| Session processor and runner (`app/services/session_processor/`) | `_queue_item`, the cancel, stop, resume and poll events, the session in memory | the loop of `_process`, `run`, `run_node`, error handling; pause, resume, stop | calls the queue; is told of cancellations by events handled on the other thread | a cancellation between dequeue and run; errors while handling errors; shutdown | one session at a time, at most once each, every item settles, stop works |
| Event service (`app/services/events/`) | a FIFO fed with `call_soon_threadsafe` | dispatch, `_dispatch_from_queue` | queue, processor, sockets, downloads, installs | events arrive late, about what is no longer so | order |
| SQLite database (`app/services/shared/sqlite/`) | a connection and a re-entrant lock | `transaction()` | every record store | a nested transaction commits the outer one | atomicity |
| Graph execution state (`app/services/shared/graph.py`) | source graph, execution graph, prepared and executed nodes, ready queues | `next`, `complete`, `set_node_error`, iteration, collection, If branches | the session runner | lazy branches, run-time expansion, rehydration | a node runs once, after its inputs; unselected branches do not run |
| Invocation cache (`app/services/invocation_cache/`) | an LRU dictionary behind a lock | get, save, delete by name, enable, disable | invocations; images and tensors being deleted | an entry saved after what it names was deleted | a hit names only what exists |
| Object serializer (`app/services/object_serializer/`) | files and a forward cache | save, load, delete | invocations | eviction of a name that was deleted | the cache agrees with the store |
| Download queue (`app/services/download/`) | a priority queue of jobs, multi-file jobs with their pending and active parts, worker threads, partial files | download, cancel, pause, stop; started, progress, complete, error and cancelled callbacks | model install; events | an end races a pause, a cancellation or the submission of the next part; partial files; a lock that `stop` holds | the parts of a job are fetched one at a time, a file that is complete is whole, `stop` returns |
| Model install (`app/services/model_install/`) | jobs over download jobs, the cache that callbacks look in, the marker file, an install thread, temporary directories | import, pause, resume, restart failed or one file, cancel, restore, stop | download queue, model records | callbacks on other threads, late callbacks of an earlier download, a process that ends in the middle | what is registered is whole, what was downloaded is kept, a waiting install is served, an ended one leaves nothing |
| Model cache (`backend/model_manager/load/model_cache/`) | models in RAM and VRAM, locks per entry | put, get, lock, unlock, make room, drop | invocations | memory limits, eviction of what is in use | a locked model stays |
| Record stores (images, boards, models, workflows, users, ...) | SQL tables, files | create, read, update, delete | HTTP handlers | file and row disagree after a failure | |
| Staging area (client, `features/controlLayers/components/StagingArea/`) | items on show, their images, the selection; the cached query of the queue | socket patches, invalidations, list answers, images; select, discard, accept | the queue, by HTTP and socket; the canvas | answers, patches and images arrive in any order; `onItemsChangedEvent` awaits in its middle | what is shown never gets older, nothing discarded or of another session comes back |
| Bounding box and dimensions (client, `canvasSlice`, `paramsSlice`) | sides, ratio, label, lock, scaled size, model base | every control, recall, drag, preset and model change | the models; the staging area locks it | rounding to a grid that changes with the model | sides, ratio, label and scaled size agree |
| Canvas entities (client, `canvasSlice`) | four lists of layers, selection, hidden types, models of layers and reference images | add, convert, merge, duplicate, order, delete, recall | models that come and go; merges that end late | ids kept over an await; recalled canvases | ids are unique and refer to something |
| Canvas history (client, `canvasUndoableConfig`) | past, present, future; the throttle | edits, undo, redo, snapshots, new canvas, reload | every action of the store passes its filter | a timer in module state | an undo takes back one step, of this canvas |
| Graph runs and layer filter (client, `run-graph.ts`, `CanvasEntityFilterer.ts`) | a promise per run; preview, hash, abort controller | run, abort, hear; start, process, reset, apply, cancel | the queue; the layer | overlapping runs over shared fields | aborted runs stay away, every end is heard, nothing is left behind |
| Workflow editor (client, `features/nodes/`) | nodes, connectors, edges | connect, reconnect, insert and delete connectors and nodes, update | `buildNodesGraph` makes the server's graph of it | checks made edge by edge, with sources not known yet | what is sent is a graph the server accepts; connectors do not matter |
| Rest of the client | gallery, metadata, tools and rendering of the canvas, graph builders | | the server | | |

Reading operations (lists, counts, `get_next`, `is_full`) change nothing.

## The modules

* `SessionQueue.tla`: the table and every operation that changes it, one action per SQL transaction.
* `SessionProcessor.tla`: extends it with the processor's thread, the session runner, the event
  handlers and a restart of the process. This is the system that is checked; the properties of both are here.
* `WorkerContract.tla`: the abstract specification, a worker that takes each job at most once and
  lets go of it. `SessionProcessor` instantiates it with a refinement mapping (`Worker`).
* `MCSessionProcessor.tla` and the `.cfg` files: small instances.
* `GraphExecution.tla`: a session, from inside: how `GraphExecutionState` expands its graph, orders
  its nodes and chooses the branches of an If. `SessionProcessor` sees a session as a counter of
  nodes; the two modules share no variable.
* `MCGraphExecution.tla`: the graphs for TLC, most of them from `tests/test_graph_execution_state.py`.
* `SessionProcessorProofs.tla`: the theorems about the queue and the processor: types, who is in
  progress, the other properties of the two, and the contract.
  `GraphExecutionProofs.tla`: what is run once, and recorded.
* `DownloadQueue.tla`: the workers of the download service, multi-file jobs, partial files and `stop`.
* `ModelInstall.tla`: extends it with the install service: its requests, the callbacks of the download
  service, the install thread, a shutdown, and a restart with what the marker file restores.
  `MCModelInstall.tla`: small instances of it. `DownloadQueueProofs.tla` and `ModelInstallProofs.tla`,
  which extends it: the theorems about the two.
* The client, each with an `MC` module and a `.cfg` of its name: `StagingArea.tla`,
  `BoundingBox.tla`, `CanvasEntities.tla`, `CanvasHistory.tla`, `NodeEditor.tla`, and
  `RunGraph.tla` with `LayerFilter.tla`, which extends it. `StagingAreaProofs.tla`,
  `CanvasEntitiesProofs.tla`, `LayerFilterProofs.tla` and `CanvasHistoryProofs.tla` have the theorems about
  these four.

A definition commented "mutated form" or "mutant" is a wrong version of the definition it stands next
to. No specification uses one; each exists to show that a property fails when the code has that bug.

### State of the queue and the processor

| variable | code |
|---|---|
| `row`, `nextId` | the table `session_queue` and its AUTOINCREMENT key; of the session column, how many nodes ran (`done`) and whether one has an error (`err`); of the batch, id, queue, destination and user |
| `call[t]` | the activation record of thread `t` inside `_set_queue_item_status`: `check`, `write`, `read` (or `reread`, for a finished item), `emit`, then `done` with the returned item, or `raised` |
| `loop` | the handler the event loop is inside, and what it keeps across two transactions |
| `req` | the `enqueue_batch` coroutines, between their awaits |
| `events` | the FIFO of `FastAPIEventService`, with the two kinds of event the processor's handlers act on |
| `serving` | HTTP requests are accepted |
| `pc`, `held`, `sess` | where `_process` or the runner is; `self._queue_item`, as the snapshot `dequeue` returned; its session object, in memory |
| `cancelEvent`, `stopEvent`, `resumeEvent` | the `threading.Event`s |
| `restarts`, `starts`, `chosenAt` | a bound; history: how often each item was given to the runner, and the `nextId` of the moment at which `dequeue` chose the item it is about to return |

### Atomicity

One action is one transaction, which holds the database's lock, together with what its thread does
up to the next point at which the other thread can be told apart. All routes are `async def`, so two
requests interleave only where one awaits (`enqueue_batch`, with `EnqueueSize`, `EnqueuePriority`
and `EnqueueInsert`); an HTTP handler that makes several transactions interleaves with the
processor's thread between them (`CancelQueueItem`, status steps, `CancelReturn`; `ClearQueue`,
status steps, `ClearReturn`; and so on). The handlers of events read `self._queue_item`, then set
the cancel event: `HandleEvent`, `HandleCanceled`, `HandleSet`.

`Restart` ends the process at any point, without the thread's `finally`, and starts a new one:
memory is lost, the table is not, and `start` cancels what was in progress, then clears or prunes the
default queue. The same action stands for a shutdown followed by a start.

### What is abstracted, and what is left out

* A session is a counter of nodes; the order of nodes in a graph belongs to the graph execution
  state. `NextNode` allows each outcome of `session.next()`: a node, none, `NodeInputError`, or any
  other exception; `RunNode` those of `run_node`: done, an exception before or after
  `session.complete`, or `CanceledException` if the cancel event is set.
* `poll_now_event` shortens a wait that has a timeout, so it does not appear; nor do the events
  whose handlers only set it.
* `status_sequence` orders events for browsers; nothing in the backend reads it.
* `max_queue_history` keeps some `MaxHistory` of the finished rows; which ones depends on timestamps
  and is left open.
* Statistics, profiler, callbacks, logging, and failures of SQLite itself. The ownership test of a
  route is the conjunct `Mine(u)`; a request that it refuses changes nothing and is not an action.
* `delete_by_destination` is one action: its inner status call commits the outer transaction, but
  the lock is held to its end and no crash between the two commits is modelled.

### The graph execution state

| variable | code |
|---|---|
| `graph`, `topo` | the source graph and the order `nx.topological_sort` yields, which depends on the hashing of strings and so on the process |
| `execs`, `edges`, `indegree` | `execution_graph`, `prepared_source_mapping` (an exec node knows its source) and `indegree` |
| `executed`, `history`, `results`, `errors` | the fields of those names; `history` counts a source node in `executed_history` |
| `resolved`, `path`, `ready`, `active` | `_resolved_if_exec_branches`, `_iteration_path_cache`, the `_ready_queues`, `_active_class`: lost when the session is saved |
| `pc`, `cur` | where in `next()` the runner's thread is, and `next_node` |

`Take` is a `next()` that finds a ready node; `PrepareSome`, `PrepareNone` and `Pick` are the loop of
`_prepare_until_node_ready`; `Hydrate` is `_prepare_inputs`; `Complete` and `SetNodeError` are the
runner's answers; `Reload` saves the session and loads it. `Settle` is what `PrepareSome` and
`Complete` have in common: the Ifs whose condition is now known are resolved, their other inputs cut,
their other branch skipped, and what has become ready is queued.

An exec node is a record of its source, the iterator nodes it was created for, and its index, in the
place of a uuid. The second is for the properties: the matching of copies with copies (`Matches`)
searches the execution graph, as the code does. Where the code takes the first element of a set, any
may be taken. An output is a number: the length of a collection, the truth of a condition. Values
are not followed through the nodes, and neither is `ready_order`, which nothing sets. Within one
iteration path the order of a ready queue is open.

### Downloads and installs

| variable | code |
|---|---|
| `job`, `multi` | `DownloadJob`s and `MultiFileDownloadJob`s: status, `_cancelled`, `_paused`, `resume_required`; of the second `download_parts`, `_mfd_pending`, `_mfd_active`. Part `<<m, f>>` is file `f` of the multi-file job `m` |
| `queue`, `work` | the priority queue; of each worker where in `_download_next_item` and `_do_download` it is, the chunk to come, its open file and that file's buffer |
| `disk` | of each file of the temporary directory, the `.downloading` file and the finished one, as the sequence of their chunks |
| `service` | `_stop_event`, and whether `stop()` still holds the lock |
| `install` | the `ModelInstallJob`: `status`, `_multifile_job` (`multi`), the one that `download_parts` came from (`shown`); for the properties, whether somebody canceled (`asked`), whether the list of files could not be fetched (`stuck`), and how the behaviour departed from the plain case (`did`) |
| `cache`, `marker` | `_download_cache`; the status in the marker file |
| `installer`, `models` | the install thread and its queue; what was registered |
| `call`, `restoring` | a request between two of its effects, which worker threads can come between; the restore thread before it enqueues |

An action of a worker (`Worker`) is what its thread does between two points at which others can tell:
a request, a chunk, the renaming, and each locked section with the callbacks that run in it, so that
`Complete` is `_signal_job_complete` with `_mfd_complete` and, after the last part,
`_download_complete_callback`. `Raise` and `Parent` are the two halves of a cancellation or a pause,
between which the lock is released. `SubmitNext` is the submission of the next part, after it is.
`Restart` stands for a killed process, or a shutdown, and the start of the next: threads and jobs are
lost, disk and marker are not. A file is `Size` chunks; the last chunk written may be in the buffer.

What is abstracted: one install of one remote source at a time; any queued part may be taken, whatever
its priority; two workers that write one file keep only the order of chunks; registration fails at any
point, and probing only if nothing is there; moving the files of a model is one step, and so is the
install thread's look at the status (`model_install_default.py:863`) with the writing of `RUNNING` and the
marker (`886`), between which it measures the files; a chunk is what comes between two reports of progress
(`download_default.py:567`), not what the socket yields; a worker whose directory was removed goes on in a
new file, where opening it would raise (`download_default.py:561`); requests wait for the restore thread; the install
service's own `stop()` is one step, taken when its thread is idle. Left out: single-file jobs,
downloads whose file name the server gives, local and external sources, pruning, the YAML migration.
The server does not check which jobs may be restarted; the model takes what the client offers
(`ModelInstallQueueItem.tsx`), paused and failed ones.

Most properties of this part fail in some schedules (see "Known departures"), each for a reason of its
own. The plain case, described at the head of `ModelInstall.tla`, is a user who resumes when the
workers have let go, pauses while files are downloading and cancels while the download will notice it
(`WillNotice`: a worker of it comes to look at a flag again before it would finish a file, or is at an
end already), and a process that ends neither between a file's last byte and its renaming nor between
the deletion of the marker and the end of the installation. `Does` says
in which ways a behaviour may depart from it; it does so in at most one (`install.did`), and users only
if the process does not restart. That one behaviour does not combine two departures is a bound. A restart
of files that comes while workers or the install thread still have something of the job is an `actsEarly`,
like a resume that does; `restartsFailed` and `restartsFile` are those that wait (`LetGo`). Each property
names the departures after which it still holds, and so both what users can rely on is checked and that
nothing else breaks it.

### The client

JavaScript runs one handler at a time: an action is what a handler does until its next `await`, with
every listener of the store and every callback that runs before it returns. The server is in these
modules only as the browser sees it: an item is enqueued, goes through its statuses once each and is
cleared. A status that the server overwrites by a race (`session_queue_sqlite.py:307`; the module
`SessionQueue` has it) is not shown to them.

| module | variables | correspondence |
|---|---|---|
| `StagingArea` | `area` | the stores of `StagingAreaApi`; `calls` are the activations of `onItemsChangedEvent` that wait for an image, `stale` those with an old `generation` |
| | `query`, `app`, `finished` | the cache entry of `listAllQueueItems` and its request; session, discarded items and auto-switch mode of the slices; `finishedQueueItemIds` of `setEventListeners` |
| | `srv`, `wire` | the server's rows, the socket |
| `BoundingBox` | `bbox`, `dims`, `model`, `staging` | `canvas.bbox`, `params.dimensions`, the selected model's base, whether images are staged |
| | `buffer`, `dragging` | `$aspectRatioBuffer` and a drag of `CanvasBboxToolModule` |
| `CanvasEntities` | `canvas`, `base`, `installed` | lists, selection and hidden types of `canvasSlice`; the main model; the installed models |
| | `merging`, `saved` | a `mergeByEntityIdentifiers` in flight; a snapshot, project or image with a canvas in it |
| `CanvasHistory` | `history`, `throttle`, `snapshot` | redux-undo's `past`, `present`, `future`, `_latestUnfiltered`; `ignoreRapid`, `prevActionType` and the timers |
| `RunGraph` | `stage`, `request`, `item`, `events` | where the promise of a run is (`settle`, `isSettling`), its `enqueue_batch`, the row, the socket |
| `LayerFilter` | `ui`, `config`, `hash`, `image`, `controller`, `timer` | `$isFiltering` and the like, `$filterConfig`, `$lastProcessedHash`, `$imageState`, `abortController`, the debounced `process` |
| | `phase`, `old`, `place`, `hidden`, `content` | where each `processImmediate` waits; its `oldImageModule`; where image modules hang; what the layer shows |
| `NodeEditor` | `nodes`, `edges` | the workflow's nodes and edges; `flow` is the graph `buildNodesGraph` makes of them, without connectors |

Left out of them: names, colours, places and all drawing (`CanvasEntities` keeps whether a layer is
drawn at all); of the editor, collapsed edges, copy and paste, undo, the form builder and the loading of
workflows; of the layer filter, `destroy()`, which ends it with its layer
(`CanvasEntityFilterer.ts:535`). Lengths in `BoundingBox` are in units of 8 pixels, ratios are
fractions, where the code has doubles. A state in which a side was rounded to zero is `broken`, and not
looked into further: `getScaledBoundingBoxDimensions` does not return from it.

## The runs

`AnyUser` stands for `user_id=None` (an administrator, or single-user mode). Bounds are constants:
`MaxItems` rows ever inserted, `MaxSessions` per request, `MaxEvents` (no request is accepted while
that many events wait), `MaxRestarts`, `Nodes` per session. Two items are what it takes for a
cancellation meant for one to hit the other, for a second to be dequeued while the event of the
first is still queued, and for the processor's stale previous item. Two nodes are what "stops after
one node" needs. `ProcessorCore` is about the processor's thread and whatever can hit it: one user,
any end of a session, a crash anywhere, and a next start that clears the queue or, with no history to
keep, prunes what is finished.
`Isolation` is about the requests: every operation a user who is not an administrator may call, on
the other's items, and needs no restart and no second node for that. Its items are prepended and
retried, and so two that wait differ in priority. Two of the same priority are in `ProcessorCore`, where
`IInv` has what `NoOvertaking` follows from (`ChosenIsNext`); several queues are the theorem's, `OrderKept`.
`Isolation` leaves out the deletion of one item, for size: it makes the test that a cancellation makes, of
the same row, and the theorem `OthersLeftAlone` has it.

| run | operations | shows |
|---|---|---|
| `ProcessorCore` | enqueue, delete (which cancels first), pause, resume, shutdown, one crash; two items, two nodes | `IInv`, the inductive invariant of the proofs; `InProgressIsHeld`: a row in progress is the one the processor is at work on; `AtMostOnce`; `ErroredNeverCompleted`; `CanceledRunsOneNode`: a cancellation that is in the dequeued snapshot ends the session after one node even if its event is lost; `EveryItemSettles`; `StopEndsProcessor`; `ImplementsContract`, the refinement of `WorkerContract` with its fairness |
| `Isolation` | prepend, cancel, clear, prune, retry and the bulk operations, on a table with another user's items | `OthersUntouched`: none of the other user's rows is canceled or deleted, but by a restart; `NoOvertaking`: what is handed to the runner passes over nothing that was there to be chosen and goes before it, by priority, then age; `SavedProgressKept`: a saved session is never replaced by an older one, although an error after a raising dequeue saves the previous item's again |
| `ModelInstall` | two files of two chunks, two download jobs, two workers, one restart, all departures but `actsEarly`, errors anywhere | `TypeOK`, with the bound on the chunk that is asked for. `InstalledWhole`: a model that is registered has all chunks of all files, once and in order. `DownloadsKept`: what was downloaded goes only with the end of the install or its cancellation, in the plain case, in which the process may end and start again. `InstallInv`: `OneAtATime`; `WaitingIsServed`: while the service is up, an install that waits for a download has one under way that will tell it how it ended; `CrashRecoverable`: an install that did not end has the marker to go on, until the install thread deletes it to move the files; `NothingLeft`: once all is quiet, an ended install left neither files nor a marker to go on from |

Two files are what it takes for an end to race the submission of the next part, two chunks for a
partial file, two download jobs for a late callback of the first to meet the second (a resume), two
workers for both to be at it at once. Two files of two chunks make the last chunk, the last but one,
the last file and the one before it different cases. The workers are interchangeable, and so symmetric.
`actsEarly` is kept out of the run for size; of the properties only `InstallInv` and the types claim
something after it, and the theorems `InstallCorrect` and `TypesHold` have it.

`GraphExecution` checks a session, on eight graphs (`Regular`): an iterator between a collection and
a collector beside a chain; an iterator under an iterator; the product of two, iterated over again;
an If with chains in its branches, feeding an If with a condition of its own (true, or false); an If
per item, one of whose branches has a consumer outside; an If in a branch of an If; an If that
chooses what is iterated over. Collections have up to two items, conditions are either, any node may
fail, and, except in the product and the nested Ifs, the session is saved and loaded once at any
point, with another topological order. All orders are tried, but for the two largest graphs. Two
items distinguish one iteration from another and give orders to get wrong; the graphs have each pair
of iterator, collector and If in a role to each other, other than those in which the code fails.

| property | says |
|---|---|
| `GraphInv` | the types; `indegree` counts the inputs still to come, through completions, cuts and skips (`IndegreeExact`); a source node is recorded once, exactly when all its copies are executed or skipped (`HistoryExact`); no KeyError and no RuntimeError, no underflow, no input without a result (`NeverRaises`) |
| `RunsOnce` | no node is run twice or after it was skipped, loaded sessions included, and no result changes |
| `UnselectedNeverRuns` | what only the unselected branch of an iteration needs does not run in that iteration |
| `IterationsExact` | inputs come from the node's own iterations (`OwnIteration`), and there is a copy for each combination of them (`EveryCombination`) |
| `ItemsInOrder` | items are run in order |
| `EndIsComplete` | `next()` returns None only when `is_complete()`: the session recorded as completed is |

The client's runs:

| run | instance | properties |
|---|---|---|
| `StagingArea` | two items, the first with two images; two sessions; one message on the socket and one waiting call when something arrives; completed or canceled items; both switching modes | `NeverOlder`: what is shown of an item never goes back, in status or sequence. `DiscardedStaysAway`. `SelectionKept`: what goes on after an await does not take the selection from the user, but where auto-switch says so. `StagingInv`: types, items of this session only (`OwnSession`), one selected (`SomethingSelected`), and when nothing waits, completed items have all their images (`ImagesShown`) |
| `BoundingBox` | two model families and an external model, three ratios, sides of 64 and 832 pixels, drags, layers and an image of other sizes; five changes | `ShapeFollowsRatio`: sides agree with the stored ratio within the rounding of the coarsest grid. `AutoScaledFits`: the scaled size has the area, grid and orientation wanted. `BoxInv`: types, `LabelTrue`, `ManualFollowsLock` |
| `CanvasEntities` | up to three entities, one control model, two reference models, two bases; five changes, a merge, a saved canvas and resets of the layers among them | `UniqueIds`, over entities and reference images. `RefsWellFormed`: a reference image's config is of the kind of its model. `EntitiesInv`: types, `SelectionExists`: what is selected is there, unless the lists were last taken from under it; `MasksShownIfEmpty` |
| `CanvasHistory` | a stroke and another kind of edit, parameters of other slices, six edits, a limit of three states | `OneStrokeEach`: an undo takes back one stroke at most. `HistoryInv`: types; `CanvasesApart`; `ThrottleSound`: an action of the canvas is skipped only if the one that passed last was of its type, while a timer runs |
| `LayerFilter` | two processing runs, two starts, one change of settings, two configs, one lost message or cleared queue | `StoppedStaysAway`, `EndIsHeard` (of `runGraph`). `AppliedStays`: what a layer adopted is not destroyed. `NothingLeftBehind`: a job outlives its filter only if the reset could not reach it. `FilterInv`: types, `HashNeedsImage`, `HiddenWithReason` |
| `NodeEditor` | a source of integers and of their list, a float computation, a collect and an if node, two connectors; four edges; two things deleted at once | `EditorInv`: what is sent has no cycle, one source per input, and fitting types. `ConnectorsAreTransparent`: inserting a connector changes nothing in it, deleting one only what its ends were |

Two items, two images and two sessions are what it takes for an answer about one to arrive while the
other is on show. With one waiting call at most when something arrives (`MaxCalls`), calls overtake each
other within a step that dispatches twice, and when the user discards something or a session begins, but
no message or answer that arrives overtakes a call; two are too many states for a run, and the theorems
about `StagingArea` hold for any number. One control model is enough, for of a layer's adapter only the
type is checked. Five changes reach a conversion or a merge that began before a recall and ends after
it, and a lock set under one grid and used under another. Three states fill the history and two kinds of
edits tell throttled from not. Two runs are what it takes to share a controller. Two connectors make a
chain and, with four edges, a wire that is drawn from its target back, a fork, and a cycle through
connectors. `ImagesFail` is off in the run of the staging area, for size.

Two runs show a statement of the code the code does not keep (`PROJECT.json`, "findings", has the
quotations). `ProcessorSurvives`: an item is deleted while `dequeue` is inside its status call, or
while it runs and then fails; handling the error raises NotFound, and the thread ends until the
application is started again. It is also why `EveryItemSettles` excuses a dead thread. `StopReturns`:
`stop()` of the download service joins its workers with the lock held that they need to tell of the
end of a part, under the fairness of all threads; the shutdown hangs.

Deadlock is checked in `Isolation`. The other runs contain a pause, a dead thread, a shutdown, a
session that ends, or a user who does nothing more once a bound is reached, after which the bounded
model really stops. Every run has one `enqueue_batch` in flight at a time; that two may exceed
`max_queue_size` together is plain from the code and has no run.

### Known departures

While the modules were written TLC showed these, too; the properties above say what remains true
beside them, and no run is spent on each.

* Queue: `_set_queue_item_status` tests the status in one transaction and writes it in another, so a
  finished status may be overwritten by the other thread (`ErroredNeverCompleted` is what holds). A
  cancellation that is handled between `dequeue` and `cancel_event.clear()` never reaches the runner
  (`CanceledRunsOneNode`). Clearing a queue in which nothing runs may stop another user's item that
  starts before the event arrives. A cancellation that was compared with the previous item stops the next
  one, which nobody canceled, when the processor moves on between the comparison and the setting of
  `cancel_event` (`session_processor_default.py:399`); the item is then recorded as completed.
* Graph: nodes of an If's branch that iterates wait for an If of their own iteration, which there is
  none of, and `next()` returns None. An If in an unselected branch, one of whose inputs is used
  elsewhere, makes `complete()` raise KeyError. An iterator over an empty collection is the first node
  to expand for ever, so that nothing after it is expanded.
* Downloads: a cancellation during the last chunk, when nothing looks at the flags any more, is not
  noticed, and completes a truncated file (`cancelsLate`; `download_default.py:701`). A process killed between the last byte and the renaming
  asks for what is beyond the end, is answered 416, and reports a file complete that is not there
  (`killsInRename`; `download_default.py:432`).
* Installs: a pause before the first answer is overwritten by the started callback and ends as a
  cancellation (`pausesWaiting`). One after the downloads is overtaken by the install thread, whose
  `finally` removes the files of a job shown as paused (`pausesDone`). A resume before the worker noticed the
  pause meets the late callback of the old download, which cancels the job and removes its directory;
  what is installed in the end may be incomplete (`actsEarly`), although `pause_job` promises
  "preserving partial downloads" (`model_install_base.py:210`); a restart of files has the same race.
  Restarting the failed files, or one file, even when all has come to rest, installs these only (`restartsFailed`, `restartsFile`; `model_install_default.py:551`). A
  paused job that was restored has no `_multifile_job`, and is canceled by the next shutdown (`stops`;
  `model_install_default.py:364`). A failed fetch of the list of files leaves the job waiting
  (`stuck`); one at a start removes what was downloaded (`RestoreFails`). The marker is deleted before the
  model is hashed and moved (`model_install_default.py:918`, `923`): a process killed in between leaves
  nothing to go on from, and the next one removes all that was downloaded (`killsInInstall`). A pause that races an error
  leaves a marker behind.
* Staging area: `_pruneSeenItemOrdering` (`state.ts:153`) forgets what was seen of an item as soon as a
  list without it arrives, while the old list, with it, is on show until the images of the new one have
  come. An older answer that arrives meanwhile may show the item with an older status, which the
  comment there (`state.ts:104`) says is not done; `area.forgotten` remembers such items, and
  `NeverOlder` excepts them (three items and three waiting calls show it). When the selected item and
  the one before it vanish from the end of the list at once, neither place that is tried
  (`state.ts:577`) holds an item, and the selection dangles (`area.lost`, which `SomethingSelected` excuses).
* Canvas history: the filter takes every action whose type starts with `canvas`, those of other
  slices too, as an edit. A restored snapshot is not a step of its own and goes with the next undo.
  The filter refuses the actions of other slices (`canvasSlice.ts:2019`), three of which change the canvas
  (`1820`-`1868`: `modelChanged`, `aspectRatioIdChanged`, `resolutionPresetSelected`): what they change is
  never a step of its own, however slowly one edits; it goes with the next step, and undo brings back, say,
  an older `bbox.modelBase`. `ThrottleSound` excepts them (`ParamsChanged`).
* Canvas entities: the recall of an image's metadata and the deletion of all layers (`canvasSlice.ts:1744`)
  take the lists from under the selection, which is left dangling (`orphan`), and a recalled project leaves
  hidden masks; `SelectionExists` and `MasksShownIfEmpty` excuse just these. The default control model is sorted for with a
  comparison that ignores its second argument (`addLayerHooks.ts:69`), so which of several control nets
  comes first is the engine's choice, and any in the model (`DefaultAdapters`).
* Layer filter: overlapping runs overwrite each other's `abortController`; one that is out of reach
  when the filter is canceled hides the layer's objects afterwards (`CanvasEntityFilterer.ts:340`). A
  cleared queue or a lost event leaves `runGraph` waiting for ever.
* Workflow editor: deleting a chain of connectors, or one together with its neighbour, may leave
  dangling edges, which occupy an input until the next change of a node. A cycle of connectors only
  may be drawn; it sends nothing. What an if node yields is not checked again when its inputs change,
  which `FlowFits` excuses.

### Fairness

`Fairness` is `WF_vars(Processor)`: the processor's thread, a daemon thread of its own, keeps taking
steps. In particular a node ends, by itself or by an exception. Nothing is assumed of the event
loop, the requests, the delivery of events, pauses, shutdowns or crashes. `EveryItemSettles` holds
without fairness for the event loop because the processor dequeues on its own clock (the poll has a
timeout).

`StopReturns` assumes of `ModelInstall` that each worker, the install thread and the restore thread
go on, that a request that began comes to its end, and that `stop()` does what it can. A worker waits
for the network without a timeout (`requests.get`), so this assumes that the network answers or fails;
the counterexample does not need the opposite.

### Graphs in which sessions fail

`Regular` leaves out the three kinds of graph above, and three more for which TLC reports the like
when they are added: a node that reads an item and also what was collected from all of them (a path
through the collector makes every copy match: `OwnIteration` fails, and no sentence of the
documentation says which copy is right); an If in a skipped branch, saved and loaded (`Reload` raises
in the lookup that raises in `complete()`, which is why the nested Ifs are not reloaded); and an If
below an iterator whose unselected input was the only path to it (cut before what follows the If is
expanded, which then matches nothing).

## The proofs

Eight modules hold them. Each result is `Spec => []Inv` or `Spec => [][A]_vars` for every value of the
constants that the module's named assumptions allow; those say no more than that counts are natural
numbers, sets that the code iterates over are finite, and users and batches are well-formed. A property
is not inductive in general; the strengthening is named below, and TLC was run on it before it was proved.
`PROJECT.json`, "theorems", has the list.

### The queue and the processor

For any number of items, sessions, nodes, users, queues, requests and restarts, from
`QueueAssumption` and `ProcessorAssumption`:

* `TypeCorrect`: `Spec => []TypeOK`. `TypeOK` is inductive because its parts say what each pc
  implies: a call that is going on names a row id, one that is done carries a batch.
* `CoreSafety`: `Spec => []CoreInv`, and from it `SingleSession` (`InProgressIsHeld`) and
  `StartedAtMostOnce` (`AtMostOnce`).
* `Safety`: `Spec => []IInv`, and from it `ErrorsHeeded` (`ErroredNeverCompleted`),
  `CancellationHeeded` (`CanceledRunsOneNode`) and the action properties `OrderKept` (`NoOvertaking`),
  `OthersLeftAlone` (`OthersUntouched`) and `ProgressKept` (`SavedProgressKept`).
* `ContractKept`: `Spec => Worker!Contract`, the safety of `WorkerContract`: each step is a take, a
  release or a stutter of the single worker. Its fairness is TLC's (`ImplementsContract`).

`InProgressIsHeld` is not inductive: that the end of a call leaves no row in progress behind depends
on what the call wrote, possibly long before, and on nobody having written "in_progress" since.
`CoreInv` adds `NeverStarted` (ids are not used twice; a pending row was never started), `CallsMatch`
(the processor is inside a status call exactly where the code makes one, for its item and that
status; the event loop's calls only cancel) and `CallsTake` (after the write, a dequeued row is not
pending and a settled one is not in progress; a call that raised found no row).

The other properties need to know what the processor remembers. `IInv` adds to `CoreInv`: `SessionAhead`
(the session in memory is never behind the saved one, also while the item is no longer the processor's),
`ErrorsSettle` (a session with an error is on its way to `failed`), `SnapshotHeeded` (a snapshot that
says canceled is about to end the session), `ChosenIsNext` (from the transaction in which a dequeue
chooses to the one in which it marks, what is pending and goes before the chosen item was inserted
since; rows keep their priority and are not pending again, so no step of the others changes that), and
`OwnRequests` (what the rest of a request will write is its caller's).

The argument has two halves. Whatever the event loop does, all its operations have one effect on
the processor's business, `LoopEffect`: rows are removed, canceled, or inserted as pending under
fresh ids (`EventLoopEffect`, one step per operation), and this effect disturbs no part of the invariant
(`EventLoopKeeps`, `EventLoopKeepsRest`). The processor's steps either go on without a call
(`QuietKeeps`), place one (`PlacingKeeps`), are one of its transactions (`StatusCallKeeps`,
`StatusCallKeepsRest`) or end it (`ProcessorKeeps`, `ProcessorKeepsRest`).

### Downloads and installs

For any number of workers, download jobs, files, chunks and restarts, and any set of departures `Does`,
`actsEarly` included, from `DownloadAssumption` and `InstallAssumption`:

* `WorkerKeeps`: each step of a worker keeps `QueueInv`, whatever the callbacks that it makes answer.
  `QueueInv` says of each multi-file job that one part of it at a time is queued or with a worker
  (`OneTurn`), in a state that its status and flags fit (`QueuedOK`, `HeldOK`, a line for each place of
  the worker's program), and that there is one while the job is not over and the service is up
  (`GoesOn`). `OneAtATime` is a consequence, drawn in a lemma.
* `ServiceHolds`: `Spec => []ServiceInv`, and from it `InstallCorrect` (`InstallInv`). `ServiceInv` is
  `QueueInv` with what the install service knows of its downloads: the callbacks of what is under way are
  heard and will tell an install that waits (`Listens`); only the latest download is under way (`Sole`,
  unless somebody acted early); the install thread has the job when there is nothing to fetch (`Phases`,
  unless, besides, somebody paused too late); the marker is there until it is deleted for the files to be
  moved (`CrashRecoverable`).
* `TypesHold`: `Spec => []TypeOK`. That a worker is never further than just past the last chunk takes
  that no other one writes its file: `Bounded`, the lengths of files and the places of a lone worker.
* `ModelsWhole`: `Spec => []InstalledWhole`. `Content` says what a file holds at each place of a worker
  that has it in hand (its chunks from the first without a gap, all of them only when it is to be
  renamed), that completed parts are whole until the job is canceled, and that a canceled job still looks
  at its flags before a file is finished; `Kept` that the install thread is queued only when all files
  are whole, and that what it has is removed only with the cancellation of the install.
* `FilesKept`: `Spec => DownloadsKept`. A pause and a cancellation come through the same flags and the
  same callbacks, so that a pause does not become a cancellation on the way takes `Unasked`: as long as
  nobody canceled, a part that is stopped is paused, and its install is paused or the server refused to
  resume it, when the multi-file job's callback comes to look.

Requests mostly set flags, remove files or move the install on (`AsksOnly`); these leave the download
service as it was (`SameService`, `OnlyAskedKeeps`). A worker's step is either heard by nobody
(`UnheardKeeps`) or ends the multi-file job with a callback (`EndsHeard`, `EndedKeeps`), after which
nothing is under way. For the files a step of a worker is a change of the numbers that describe its place
(`Now`, `FetchEffects`, `ChunkEffects`, `EndEffects`: the chunk to come, the length of the partial file,
what is in the buffer), so that `Content` is arithmetic (`HandsOn`).

### The execution of a graph

For every graph, topological order and way in which copies match copies, of which nothing is assumed
but the names of their nodes: `NodesRunOnce` (`RunsOnce`) and `HistoryIsExact` (the part `HistoryExact`
of `GraphInv`). The operators that search the graph (`Upstream`, `Exclusive`, `Picks`) may return
anything. What the invariant adds to `HistoryExact` is why a node that was taken is not skipped before it
runs: the Ifs whose branches it is in were expanded before it was queued (`Governed`), and no If is
expanded twice.

### The canvas history

For every limit, set of edit types and number of edits: `HistorySound` (`HistoryInv`) and `OneStroke`
(`OneStrokeEach`). The invariant says that neighbours in the history, with the state that passed the
filter last between past and future, differ by one stroke at most unless a state was restored between
them (`Stepwise`), that the present has no stroke more than that state (`Ahead`), and that every timer was
started by an edit of its own (`TimersBound`). The lemmas `InsertShaped`, `UndoShaped` and `RedoShaped`
say of redux-undo's three operations that they leave this so.

### The staging area

For any number of items, images, sessions, messages and waiting calls, with sequence numbers and
without, from `StagingAssumption`, all four properties of the run: `StagingAreaCorrect` (`StagingInv`) and
the action properties `ShownNeverOlder` (`NeverOlder`), `DiscardedStays` (`DiscardedStaysAway`) and
`SelectionIsKept` (`SelectionKept`).

That what is shown never gets older is decided when a list arrives, by what the api remembers to have
seen, but becomes true only when the list's images have come, any number of steps later. So the invariant
(`AreaOK`) speaks of the newest waiting call: its list is of this session and without what was
discarded, the api remembers each item on it, none is older than the one on show, unless that was
forgotten, and the images of the items it is past are there (`NewestOK`). There is one such call at most,
the others are stale and change nothing but images. With none, the images of all that is shown are there
and the selection is among it (`RestOK`). What the server has sent and answered needs to be known only so
far: sequence numbers fit the status they came with (`Dated`), and an item on a list is of the session
that was asked for. A step is one of the server's, or a change of the store; every change of the store is
applied to the api by the same function, whose parts (normalizing a list, recording what was seen,
passing over items, finishing) have a lemma each, and `Stepped` collects what each action does to
what is shown, so that the action properties are read off it.

### The canvas entities

For any number of entities, models, bases and changes, from `CanvasEntitiesAssumption` (there is a model
to choose of each sort), all three properties of the run: `EntitiesSound` (`EntitiesInv`), `IdsUnique`
(`UniqueIds`) and `RefsFit` (`RefsWellFormed`).

The invariant is one predicate, `CanvasOK`, of the canvas and of what was saved: types, ids below the
next one, no two alike (`Apart`), a config for each reference image that fits its model (`ConfigOK`),
and the selection and hidden masks that the canvas's origin allows, or a selection that was orphaned. It
is needed of the saved one too, which comes back when the ids have moved on (`CanvasGrows`) and models
were refitted only in the canvas; that a project or a snapshot selects something that is there takes,
besides, that nothing was recalled before it was saved. Of a merge that is on its way, whose layers may
be gone when it ends, it is enough that the ids it deletes are old: the new entity is not among them,
and can be selected (`AddsNew`).

There is a lemma for each way a list changes (`Inserted`, `Filtered`, `Disabled`, `Mapped`, `MovedIs`), over
one that says when a list may stand in place of another (`OneChanged`), and lemmas for the sequences of the
community modules that the model uses (`FlattenSeqIs`, `InsertAtIs`, `RemoveAtIs`). Each reducer's
lemma then says that the canvas it yields is sound (`Yields`), and each action's that the invariant is kept.

### The layer filter

For any number of runs, filter settings, starts, edits and lost events, from `RunGraphAssumption`
and `LayerFilterAssumption`, all five properties of the run `LayerFilter`: `FilterSound`
(`FilterInv`), `StoppedStays` (`StoppedStaysAway`), `EndsAreHeard` (`EndIsHeard`), `AppliedForGood`
(`AppliedStays`) and `NoJobLeft` (`NothingLeftBehind`), each `Spec => []...`.

They follow from one strengthening, `IInv`. That an aborted run never becomes the preview, say,
cannot be seen from the preview alone: it takes that a preview's run is past its waits with an
output (`ImagesApart`), and that an aborted run ends otherwise (`StoppedEnds`). `IInv` relates the
three views of a run: what `runGraph` waits for, the request and the row behind it, and the events
that tell of it (`RequestsMatch`, `EventsTrue`); `processImmediate`'s own waits and the promise's
(`PhasesMatch`); and the filter and what escaped it (`EscapeesKnown`).

The argument has two halves again. Whatever the filter does, it does one of `RunGraph`'s steps to
the runs, or none (`StepIsRunAction`), and these keep `RunInv` (`RunKeeps`). For the filter's part
there is a lemma per group of actions; starting, resetting, canceling and applying all reset first,
and `ResetEffect` says once what is true then: whatever is still under way escaped, or is being canceled.

### What is not proved

Only model-checked: the liveness properties `EveryItemSettles` and `StopEndsProcessor` and the fairness of
the refinement, which are out of the prover's reach; of `GraphExecution`, `IndegreeExact` and
`NeverRaises` of `GraphInv`, and `UnselectedNeverRuns`, `IterationsExact`, `ItemsInOrder` and
`EndIsComplete`, most of which do not hold for every graph and need the eight to be characterised first;
the three invariants of `BoundingBox`, whose arithmetic is not linear (products of sides and ratios,
divided and rounded, and square roots by recursion) and beyond the installed solver; and the two
properties of `NodeEditor`, whose module follows connectors and cycles with recursive operators.

## Plan

Done: the session queue and processor, `GraphExecution`, `DownloadQueue` with `ModelInstall`, and the
six client modules. In this order:

1. To prove: `EditorInv`, when the recursive operators of `NodeEditor` are closures that can be reasoned
   about, and `IndegreeExact` for a class of graphs.
2. To state: an abstract dataflow contract that `GraphExecution` implements (a node runs once, after
   its inputs, and not in a branch that was not selected), and that every session ends.
3. `InvocationCache`, with the deletion of an image between a node's invocation and its saving, and
   `ForwardCache`, the object serializer's; `ModelCache`.

## Not modelled

Not planned: record stores (single transactions), the migrator (runs before everything else), file
and network I/O, the invocations' numerical work, the frontend's rendering.
