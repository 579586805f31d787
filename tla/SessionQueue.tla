----------------------------- MODULE SessionQueue -----------------------------
(***************************************************************************)
(* The session queue: the SQLite table session_queue and the operations of *)
(* SqliteSessionQueue on it, one action per SQL transaction.               *)
(*                                                                         *)
(* Two threads use the service: "proc", the session processor's thread,    *)
(* and "loop", the asyncio event loop, which runs every HTTP handler (they *)
(* are all `async def`, so two of them interleave only where one awaits)   *)
(* and every event handler.  A transaction holds the database's re-entrant *)
(* lock; between two transactions of one call the other thread may run.    *)
(* SetStatus* below are the transactions of _set_queue_item_status, shared *)
(* by both threads; call[t] is the activation record of thread t's call.   *)
(***************************************************************************)
EXTENDS Integers, Sequences, FiniteSets

CONSTANTS
    MaxItems,       \* bound: rows ever inserted (item_id is AUTOINCREMENT)
    MaxEvents,      \* bound: no HTTP request is served while the bus is longer
    MaxSessions,    \* bound: sessions requested by one enqueue, items retried by one call
    MaxQueueSize,   \* config.max_queue_size
    ClearOnStartup, \* the values of config.clear_queue_on_startup, which may change between starts
    MaxHistory,     \* config.max_queue_history; MaxItems or more stands for None
    Users, AnyUser, \* AnyUser is `user_id=None`: an admin, or single-user mode
    Callers,        \* the users whose requests are served, AnyUser perhaps among them
    Queues, DefaultQueue,
    Batches,        \* records [id, queue, dest, user]: what the rows of a batch share
    NoBatch,        \* the batch of a row that does not exist
    Requests,       \* enqueue_batch coroutines that may be in flight together
    ApiOps          \* the HTTP operations the environment uses

ASSUME QueueAssumption ==
    /\ {MaxItems, MaxEvents, MaxSessions, MaxQueueSize} \subseteq Nat \ {0}
    /\ MaxHistory \in Nat
    /\ ClearOnStartup \subseteq BOOLEAN
    /\ DefaultQueue \in Queues
    /\ AnyUser \notin Users
    /\ Callers \subseteq Users \cup {AnyUser}
    /\ NoBatch \notin Batches
    /\ \A b \in Batches : b.queue \in Queues /\ b.user \in Users

VARIABLES
    row,     \* the table: item_id -> row
    nextId,  \* the next AUTOINCREMENT value
    call,    \* per thread, the _set_queue_item_status call it is inside
    loop,    \* what the event loop thread is in the middle of
    req,     \* the enqueue_batch coroutines
    events,  \* FastAPIEventService's queue, oldest first
    serving  \* HTTP requests are accepted (until the application shuts down)

queueVars == <<row, nextId, call, loop, req, events, serving>>

Ids == 1 .. MaxItems
Threads == {"proc", "loop"}

Finished == {"completed", "failed", "canceled"}
Status == {"pending", "in_progress"} \cup Finished

NoRow == [status |-> "absent", prio |-> 0, batch |-> NoBatch,
          root |-> 0, done |-> 0, err |-> FALSE]
NewRow(b, p, root) == [NoRow EXCEPT !.status = "pending", !.prio = p,
                                    !.batch = b, !.root = root]

Rows == {i \in Ids : row[i].status # "absent"}
RowsOf(q) == {i \in Rows : row[i].batch.queue = q}
WithStatus(S) == {i \in Rows : row[i].status \in S}
Pending(q) == RowsOf(q) \cap WithStatus({"pending"})

\* The optional `AND user_id = ?` of the bulk statements, and the ownership test
\* of the routes that name an item.
Mine(u) == {i \in Rows : u = AnyUser \/ row[i].batch.user = u}

\* UPDATE ... SET status = st.  Its status_sequence + 1 only orders the events a
\* browser receives, and is left out.
Update(S, st) == [i \in Ids |-> IF i \in S THEN [row[i] EXCEPT !.status = st] ELSE row[i]]
Delete(S) == [i \in Ids |-> IF i \in S THEN NoRow ELSE row[i]]

\* One INSERT per element of the sequence `new`, with consecutive item ids.
Insert(new) ==
    /\ nextId + Len(new) <= MaxItems + 1
    /\ row' = [i \in Ids |-> IF i \in nextId .. nextId + Len(new) - 1
                             THEN new[i - nextId + 1] ELSE row[i]]
    /\ nextId' = nextId + Len(new)

\* The events the processor's handlers act on.  A status event other than
\* "canceled" (and a batch-enqueued event) only ends the processor's poll early.
CanceledEvent(i) == [type |-> "canceled", item |-> i]
ClearedEvent(q) == [type |-> "cleared", queue |-> q]

-------------------------------------------------------------------------------
(***************************************************************************)
(* _set_queue_item_status.  The status is read in one transaction and      *)
(* written in another, and the event is built from a third one's snapshot. *)
(***************************************************************************)
NoCall == [pc |-> "idle", item |-> 0, to |-> "absent",      \* the arguments, and
           status |-> "absent", batch |-> NoBatch]              \* the item returned
SetStatus(i, st) == [NoCall EXCEPT !.pc = "check", !.item = i, !.to = st]

SetStatusCheck(t) ==
    /\ call[t].pc = "check"
    /\ LET st == row[call[t].item].status IN
       call' = [call EXCEPT ![t].pc = CASE st = "absent"   -> "raised"
                                        [] st \in Finished -> "reread"
                                        [] OTHER           -> "write"]
    /\ UNCHANGED <<row, nextId, loop, req, events, serving>>

\* UPDATE ... WHERE item_id = ?: no row is touched when it was deleted meanwhile.
SetStatusWrite(t) ==
    /\ call[t].pc = "write"
    /\ row' = Update({call[t].item} \cap Rows, call[t].to)
    /\ call' = [call EXCEPT ![t].pc = "read"]
    /\ UNCHANGED <<nextId, loop, req, events, serving>>

\* self.get_queue_item(item_id): the returned object, or SessionQueueItemNotFoundError.
SetStatusRead(t) ==
    /\ call[t].pc \in {"read", "reread"}
    /\ LET r == row[call[t].item]
           p == IF call[t].pc = "read" THEN "emit" ELSE "done"
       IN call' = IF r.status = "absent" THEN [call EXCEPT ![t].pc = "raised"]
                  ELSE [call EXCEPT ![t] = [call[t] EXCEPT !.pc = p, !.status = r.status,
                                                           !.batch = r.batch]]
    /\ UNCHANGED <<row, nextId, loop, req, events, serving>>

SetStatusEmit(t) ==
    /\ call[t].pc = "emit"
    /\ events' = IF call[t].status = "canceled"
                  THEN Append(events, CanceledEvent(call[t].item)) ELSE events
    /\ call' = [call EXCEPT ![t].pc = "done"]
    /\ UNCHANGED <<row, nextId, loop, req, serving>>

SetStatusStep(t) ==
    SetStatusCheck(t) \/ SetStatusWrite(t) \/ SetStatusRead(t) \/ SetStatusEmit(t)

Returned(t) == call[t].pc = "done"
Raised(t) == call[t].pc = "raised"

-------------------------------------------------------------------------------
(***************************************************************************)
(* The event loop thread.  loop.pc names the handler it is inside; a new   *)
(* request is served, or an event handled, only when it is "idle".         *)
(***************************************************************************)
IdleLoop == [pc |-> "idle", item |-> 0, user |-> AnyUser, queue |-> DefaultQueue]
Handling(p) == loop' = [IdleLoop EXCEPT !.pc = p]

Serves(op) ==
    /\ serving
    /\ loop.pc = "idle"
    /\ op \in ApiOps
    /\ Len(events) < MaxEvents

\* cancel_queue_item: one _set_queue_item_status call.
CancelQueueItem(i, u) ==
    /\ Serves("cancel")
    /\ i \in Mine(u)
    /\ call' = [call EXCEPT !["loop"] = SetStatus(i, "canceled")]
    /\ Handling("cancel")
    /\ UNCHANGED <<row, nextId, req, events, serving>>

\* delete_queue_item cancels first, so that a running item is told to stop.
DeleteQueueItem(i, u) ==
    /\ Serves("delete")
    /\ i \in Mine(u)
    /\ call' = [call EXCEPT !["loop"] = SetStatus(i, "canceled")]
    /\ loop' = [IdleLoop EXCEPT !.pc = "delete", !.item = i]
    /\ UNCHANGED <<row, nextId, req, events, serving>>

\* The end of the cancel operations.  Only this thread deletes rows, so its own
\* status calls never raise.
CancelReturn ==
    /\ loop.pc = "cancel"
    /\ Returned("loop")
    /\ call' = [call EXCEPT !["loop"] = NoCall]
    /\ Handling("idle")
    /\ UNCHANGED <<row, nextId, req, events, serving>>

\* The second half of delete_queue_item.
DeleteReturn ==
    /\ loop.pc = "delete"
    /\ Returned("loop")
    /\ row' = Delete({loop.item})
    /\ call' = [call EXCEPT !["loop"] = NoCall]
    /\ Handling("idle")
    /\ UNCHANGED <<nextId, req, events, serving>>

\* get_current: an in_progress row of the queue, if there is one (LIMIT 1).
Current(q) == RowsOf(q) \cap WithStatus({"in_progress"})

(***************************************************************************)
(* cancel_by_batch_ids and cancel_by_destination (nothing calls            *)
(* cancel_by_queue_id, which does the same): one transaction reads the     *)
(* current item and cancels the matching pending rows without an event;    *)
(* the current item, if it matches, is canceled by a status call after the *)
(* transaction ended.                                                      *)
(***************************************************************************)
CancelMatching(q, u, Match) ==
    /\ row' = Update(Pending(q) \cap Match \cap Mine(u), "canceled")
    /\ LET cur == Current(q) \cap Match \cap Mine(u) IN
       \/ /\ cur = {}
          /\ UNCHANGED <<call, loop>>
       \/ \E c \in cur :
            /\ call' = [call EXCEPT !["loop"] = SetStatus(c, "canceled")]
            /\ Handling("cancel")
    /\ UNCHANGED <<nextId, req, events, serving>>

CancelByBatchIds(q, u, B) ==
    /\ Serves("cancel_by_batch_ids")
    /\ CancelMatching(q, u, {i \in Rows : row[i].batch.id \in B})

CancelByDestination(q, u, d) ==
    /\ Serves("cancel_by_destination")
    /\ CancelMatching(q, u, {i \in Rows : row[i].batch.dest = d})

CancelAllExceptCurrent(q, u) ==
    /\ Serves("cancel_all_except_current")
    /\ row' = Update(Pending(q) \cap Mine(u), "canceled")
    /\ UNCHANGED <<nextId, call, loop, req, events, serving>>

DeleteAllExceptCurrent(q, u) ==
    /\ Serves("delete_all_except_current")
    /\ row' = Delete(Pending(q) \cap Mine(u))
    /\ UNCHANGED <<nextId, call, loop, req, events, serving>>

(***************************************************************************)
(* delete_by_destination does all of it, the current item's cancellation   *)
(* and its event included, inside one transaction (the lock is re-entrant).*)
(***************************************************************************)
DeleteByDestination(q, u, d) ==
    /\ Serves("delete_by_destination")
    /\ LET hit == {i \in RowsOf(q) : row[i].batch.dest = d} \cap Mine(u)
           cur == Current(q) \cap hit
       IN /\ row' = Delete(hit)
          /\ \/ cur = {} /\ UNCHANGED events
             \/ \E c \in cur :
                  events' = Append(events, CanceledEvent(c))
    /\ UNCHANGED <<nextId, call, loop, req, serving>>

Prune(q, u) ==
    /\ Serves("prune")
    /\ row' = Delete(RowsOf(q) \cap WithStatus(Finished) \cap Mine(u))
    /\ UNCHANGED <<nextId, call, loop, req, events, serving>>

(***************************************************************************)
(* The clear route reads the current item, refuses (403) when it is        *)
(* someone else's, cancels it, and then clears in a later transaction.     *)
(***************************************************************************)
\* Mutated form: without the 403.
ClearQueueOfAnyone(q, u) ==
    /\ Serves("clear")
    /\ \/ Current(q) = {} /\ UNCHANGED call
       \/ \E c \in Current(q) : call' = [call EXCEPT !["loop"] = SetStatus(c, "canceled")]
    /\ loop' = [IdleLoop EXCEPT !.pc = "clear", !.user = u, !.queue = q]
    /\ UNCHANGED <<row, nextId, req, events, serving>>

ClearQueue(q, u) ==
    /\ Serves("clear")
    /\ \/ Current(q) = {} /\ UNCHANGED call
       \/ \E c \in Current(q) \cap Mine(u) :
            call' = [call EXCEPT !["loop"] = SetStatus(c, "canceled")]
    /\ loop' = [IdleLoop EXCEPT !.pc = "clear", !.user = u, !.queue = q]
    /\ UNCHANGED <<row, nextId, req, events, serving>>

ClearReturn ==
    /\ loop.pc = "clear"
    /\ call["loop"].pc \in {"idle", "done"}
    /\ row' = Delete(RowsOf(loop.queue) \cap Mine(loop.user))
    /\ events' = Append(events, ClearedEvent(loop.queue))
    /\ call' = [call EXCEPT !["loop"] = NoCall]
    /\ Handling("idle")
    /\ UNCHANGED <<nextId, req, serving>>

(***************************************************************************)
(* retry_items_by_id, in one transaction.  `from` is the caller's list     *)
(* without the rows that are neither failed nor canceled (they are         *)
(* skipped); a list that names a missing row raises and changes nothing.   *)
(* The new row points to the first of its line, not to the row retried.    *)
(***************************************************************************)
RootOf(i) == IF row[i].root # 0 THEN row[i].root ELSE i

RetryItemsById(from, u) ==
    /\ Serves("retry")
    /\ \A k \in DOMAIN from : from[k] \in Mine(u) /\ row[from[k]].status \in {"failed", "canceled"}
    /\ Insert([k \in DOMAIN from |->
                 NewRow(row[from[k]].batch, row[from[k]].prio, RootOf(from[k]))])
    /\ UNCHANGED <<call, loop, req, events, serving>>

(***************************************************************************)
(* enqueue_batch.  The room left, and for a prepended batch the priority,  *)
(* are read before the coroutine awaits; other requests run meanwhile; the *)
(* rows are inserted afterwards.  Its event only shortens the processor's  *)
(* poll, which is a timeout anyway, and is left out of `events`.           *)
(***************************************************************************)
NoReq == [pc |-> "idle", batch |-> NoBatch, n |-> 0, room |-> 0, prio |-> 0]

EnqueueSize(r, b, n, prepend) ==
    /\ Serves(IF prepend THEN "prepend" ELSE "enqueue")
    /\ req[r].pc = "idle"
    /\ req' = [req EXCEPT ![r] =
                 [pc |-> IF prepend THEN "prepend" ELSE "await", batch |-> b, n |-> n,
                  room |-> MaxQueueSize - Cardinality(Pending(b.queue)), prio |-> 0]]
    /\ IF prepend THEN Handling("enqueue") ELSE UNCHANGED loop
    /\ UNCHANGED <<row, nextId, call, events, serving>>

\* _get_highest_priority: `MAX(priority) or 0` over the queue's pending rows, plus 1.
EnqueuePriority(r) ==
    /\ req[r].pc = "prepend"
    /\ LET P == Pending(req[r].batch.queue) IN
       \E p \in {0} \cup {row[i].prio : i \in P} :
          /\ \A i \in P : row[i].prio <= p
          /\ req' = [req EXCEPT ![r].pc = "await", ![r].prio = p + 1]
    /\ Handling("idle")
    /\ UNCHANGED <<row, nextId, call, events, serving>>

\* create_session_nfv_tuples yields while count < maximum: nothing when maximum <= 0.
SessionsToCreate(n, maximum) == IF maximum < 0 THEN 0 ELSE IF n < maximum THEN n ELSE maximum

EnqueueInsert(r) ==
    /\ loop.pc = "idle"
    /\ serving
    /\ req[r].pc = "await"
    /\ Insert([k \in 1 .. SessionsToCreate(req[r].n, req[r].room) |->
                 NewRow(req[r].batch, req[r].prio, 0)])
    /\ req' = [req EXCEPT ![r] = NoReq]
    /\ UNCHANGED <<call, loop, events, serving>>

-------------------------------------------------------------------------------
(***************************************************************************)
(* start(): whatever a killed process left in_progress becomes canceled,   *)
(* then the default queue is cleared, or pruned to its most recent         *)
(* MaxHistory finished rows (which those are is left open).  Everything    *)
(* outside the table is lost with the process.                             *)
(***************************************************************************)
\* Mutated forms: what was in progress stays so; it is enqueued again.
InterruptedLeft == row
InterruptedRequeued == Update(WithStatus({"in_progress"}), "pending")

\* _set_in_progress_to_canceled, of every queue.
Interrupted == Update(WithStatus({"in_progress"}), "canceled")

StartQueue ==
    LET left == Interrupted
        default == RowsOf(DefaultQueue)
        over == {i \in default : left[i].status \in Finished}
    IN \/ /\ TRUE \in ClearOnStartup
          /\ row' = [i \in Ids |-> IF i \in default THEN NoRow ELSE left[i]]
          /\ events' = <<ClearedEvent(DefaultQueue)>>
       \/ /\ FALSE \in ClearOnStartup
          /\ \E keep \in SUBSET over :
               /\ Cardinality(keep) = IF Cardinality(over) < MaxHistory
                                      THEN Cardinality(over) ELSE MaxHistory
               /\ row' = [i \in Ids |-> IF i \in over \ keep THEN NoRow ELSE left[i]]
          /\ events' = <<>>

RestartQueue ==
    /\ StartQueue
    /\ call' = [t \in Threads |-> NoCall]
    /\ loop' = IdleLoop
    /\ req' = [r \in Requests |-> NoReq]
    /\ serving' = TRUE
    /\ UNCHANGED nextId

QueueInit ==
    /\ row = [i \in Ids |-> NoRow]
    /\ nextId = 1
    /\ call = [t \in Threads |-> NoCall]
    /\ loop = IdleLoop
    /\ req = [r \in Requests |-> NoReq]
    /\ events = <<>>
    /\ serving = TRUE

\* A request that starts: every HTTP operation of the queue that changes state.
Request ==
    \/ \E i \in Ids, u \in Callers : CancelQueueItem(i, u) \/ DeleteQueueItem(i, u)
    \/ \E q \in Queues, u \in Callers :
         \/ \E b \in Batches : CancelByBatchIds(q, u, {b.id})
         \/ \E b \in Batches : CancelByDestination(q, u, b.dest)
         \/ \E b \in Batches : DeleteByDestination(q, u, b.dest)
         \/ CancelAllExceptCurrent(q, u)
         \/ DeleteAllExceptCurrent(q, u)
         \/ Prune(q, u)
         \/ ClearQueue(q, u)
    \/ \E n \in 1 .. MaxSessions : \E from \in [1 .. n -> Ids], u \in Callers :
         RetryItemsById(from, u)
    \/ \E r \in Requests, b \in Batches, n \in 1 .. MaxSessions, prepend \in BOOLEAN :
         EnqueueSize(r, b, n, prepend)

\* The rest of a request that started.
Continue ==
    \/ SetStatusStep("loop")
    \/ CancelReturn \/ DeleteReturn \/ ClearReturn
    \/ \E r \in Requests : EnqueuePriority(r) \/ EnqueueInsert(r)

Row == [status : Status \cup {"absent"}, prio : Nat,
        batch : Batches \cup {NoBatch}, root : Nat, done : Nat, err : BOOLEAN]
CallPc == {"idle", "check", "write", "read", "reread", "emit", "done", "raised"}
Call == [pc : CallPc, item : Ids \cup {0}, to : Status \cup {"absent"},
         status : Status \cup {"absent"}, batch : Batches \cup {NoBatch}]
Event == [type : {"canceled"}, item : Ids] \cup [type : {"cleared"}, queue : Queues]
LoopPc == {"idle", "cancel", "delete", "clear", "enqueue", "canceled", "set"}

RowOK ==
    /\ row \in [Ids -> Row]
    /\ \A i \in Ids : row[i].status # "absent" => row[i].batch \in Batches
CallOK ==
    /\ call \in [Threads -> Call]
    /\ \A t \in Threads :
         /\ call[t].pc # "idle" => call[t].item \in Ids /\ call[t].to \in Status
         /\ call[t].pc \in {"emit", "done"} => call[t].batch \in Batches
LoopOK ==
    loop \in [pc : LoopPc, item : Ids \cup {0}, user : Users \cup {AnyUser}, queue : Queues]
ReqOK ==
    /\ req \in [Requests -> [pc : {"idle", "prepend", "await"}, batch : Batches \cup {NoBatch},
                             n : Nat, room : Int, prio : Nat]]
    /\ \A r \in Requests : req[r].pc # "idle" => req[r].batch \in Batches

\* Type invariant of the queue.
QueueTypeOK ==
    /\ RowOK /\ CallOK /\ LoopOK /\ ReqOK
    /\ nextId \in 1 .. MaxItems + 1
    /\ events \in Seq(Event)
    /\ serving \in BOOLEAN
================================================================================
