-------------------------- MODULE SessionProcessorProofs --------------------------
(***************************************************************************)
(* Safety of the session processor composed with the session queue, for    *)
(* every number of items, nodes, users, queues, requests and restarts: the *)
(* operations of the queue, the core of the inductive invariant, and what  *)
(* the processor does with an item.                                        *)
(***************************************************************************)
EXTENDS SessionProcessor, FiniteSetTheorems, SequenceTheorems, TLAPS

-------------------------------------------------------------------------------
(***************************************************************************)
(* The operations of the session queue preserve its type invariant.  Each  *)
(* lemma is for the helper or the group of actions its name says; the      *)
(* processor's proofs cite QueueStepType.                                  *)
(***************************************************************************)

\* A bulk UPDATE of rows that exist keeps the table well-formed.
LEMMA UpdateType ==
    ASSUME RowOK, NEW S, S \subseteq Rows, NEW st \in Status
    PROVE  /\ Update(S, st) \in [Ids -> Row]
           /\ \A i \in Ids : Update(S, st)[i].status # "absent" => Update(S, st)[i].batch \in Batches
BY DEF RowOK, Update, Rows, Row, Status, Finished

\* So does a DELETE, which leaves no row.
LEMMA DeleteType ==
    ASSUME RowOK, NEW S
    PROVE  /\ Delete(S) \in [Ids -> Row]
           /\ \A i \in Ids : Delete(S)[i].status # "absent" => Delete(S)[i].batch \in Batches
BY DEF RowOK, Delete, NoRow, Row, Status, Finished

\* A row made from a batch is one that may be inserted.
Fresh == {r \in Row : r.batch \in Batches /\ r.status = "pending" /\ r.done = 0 /\ ~r.err}

LEMMA NewRowType ==
    ASSUME NEW b \in Batches, NEW p \in Nat, NEW root \in Nat
    PROVE  NewRow(b, p, root) \in Fresh
BY DEF Fresh, NewRow, NoRow, Row, Status, Finished

\* A function on 1 .. n is a sequence of length n.
LEMMA FunctionIsSeq ==
    ASSUME NEW S, NEW n \in Nat, NEW f \in [1 .. n -> S]
    PROVE  f \in Seq(S) /\ Len(f) = n /\ \A k \in 1 .. n : f[k] \in S
BY SeqDef, LenProperties

\* The INSERTs keep the table and the next id well-formed.
LEMMA InsertType ==
    ASSUME RowOK, nextId \in 1 .. MaxItems + 1,
           NEW n \in Nat, NEW new \in [1 .. n -> Fresh], Insert(new)
    PROVE  RowOK' /\ nextId' \in 1 .. MaxItems + 1
<1>1. Len(new) = n /\ \A k \in 1 .. n : new[k] \in Row /\ new[k].batch \in Batches
  BY FunctionIsSeq DEF Fresh
<1>2. nextId' \in 1 .. MaxItems + 1
  BY <1>1, QueueAssumption DEF Insert
<1>3. ASSUME NEW i \in Ids
      PROVE  row'[i] \in Row /\ (row'[i].status # "absent" => row'[i].batch \in Batches)
  <2>1. row'[i] = IF i \in nextId .. nextId + n - 1 THEN new[i - nextId + 1] ELSE row[i]
    BY <1>1 DEF Insert
  <2>2. CASE i \in nextId .. nextId + n - 1
    BY <1>1, <2>1, <2>2, i - nextId + 1 \in 1 .. n DEF Ids
  <2>3. CASE i \notin nextId .. nextId + n - 1
    BY <2>1, <2>3 DEF RowOK
  <2>4. QED BY <2>2, <2>3
<1>4. row' \in [Ids -> Row]
  BY <1>3, <1>1 DEF Insert
<1>5. QED BY <1>2, <1>3, <1>4 DEF RowOK

\* The four transactions of a status call, on either thread.
LEMMA SetStatusStepType ==
    ASSUME QueueTypeOK, NEW t \in Threads, SetStatusStep(t)
    PROVE  QueueTypeOK'
<1> USE DEF QueueTypeOK
<1>1. CASE SetStatusCheck(t)
  <2>1. CallOK'
    BY <1>1 DEF SetStatusCheck, CallOK, Call, CallPc
  <2>2. QED BY <1>1, <2>1 DEF SetStatusCheck, RowOK, LoopOK, ReqOK
<1>2. CASE SetStatusWrite(t)
  <2>1. CallOK'
    BY <1>2 DEF SetStatusWrite, CallOK, Call, CallPc
  <2>2. RowOK'
    <3>1. call[t].to \in Status
      BY <1>2 DEF SetStatusWrite, CallOK
    <3>2. QED BY <1>2, <3>1, UpdateType DEF SetStatusWrite, RowOK
  <2>3. QED BY <1>2, <2>1, <2>2 DEF SetStatusWrite, LoopOK, ReqOK
<1>3. CASE SetStatusRead(t)
  <2>1. call[t].item \in Ids
    BY <1>3 DEF SetStatusRead, CallOK
  <2>2. CallOK'
    <3>1. CASE row[call[t].item].status = "absent"
      BY <1>3, <2>1, <3>1 DEF SetStatusRead, CallOK, Call, CallPc
    <3>2. CASE row[call[t].item].status # "absent"
      <4> DEFINE r == row[call[t].item]
                 c == [call[t] EXCEPT !.pc = IF call[t].pc = "read" THEN "emit" ELSE "done",
                                      !.status = r.status, !.batch = r.batch]
      <4>1. r.batch \in Batches /\ r.status \in Status
        BY <2>1, <3>2 DEF RowOK, Row
      <4>2. c \in Call /\ c.item \in Ids /\ c.to \in Status /\ c.batch \in Batches
        BY <1>3, <2>1, <4>1 DEF SetStatusRead, CallOK, Call, CallPc
      <4>3. call' = [call EXCEPT ![t] = c]
        BY <1>3, <3>2 DEF SetStatusRead
      <4>4. QED BY <4>2, <4>3 DEF CallOK
    <3>3. QED BY <3>1, <3>2
  <2>3. QED BY <1>3, <2>2 DEF SetStatusRead, RowOK, LoopOK, ReqOK
<1>4. CASE SetStatusEmit(t)
  <2>1. CallOK'
    BY <1>4 DEF SetStatusEmit, CallOK, Call, CallPc
  <2>2. CanceledEvent(call[t].item) \in Event
    BY <1>4 DEF SetStatusEmit, CallOK, CanceledEvent, Event
  <2>3. events' \in Seq(Event)
    BY <1>4, <2>2, AppendProperties DEF SetStatusEmit
  <2>4. QED BY <1>4, <2>1, <2>3 DEF SetStatusEmit, RowOK, LoopOK, ReqOK
<1>5. QED BY <1>1, <1>2, <1>3, <1>4 DEF SetStatusStep

\* Placing a call for a row that exists, and hanging up, keep the calls well-formed.
LEMMA PlaceType ==
    ASSUME CallOK, NEW t \in Threads, NEW i \in Ids, NEW st \in Status,
           call' = [call EXCEPT ![t] = SetStatus(i, st)]
    PROVE  CallOK'
BY DEF CallOK, Call, CallPc, SetStatus, NoCall

LEMMA HangUpType ==
    ASSUME CallOK, NEW t \in Threads, call' = [call EXCEPT ![t] = NoCall]
    PROVE  CallOK'
BY DEF CallOK, Call, CallPc, NoCall

LEMMA HandlingType ==
    ASSUME QueueAssumption, NEW p \in LoopPc, Handling(p)
    PROVE  LoopOK'
BY DEF QueueAssumption, Handling, IdleLoop, LoopOK

\* The operations that cancel or delete a named item.
LEMMA ItemRequestType ==
    ASSUME QueueTypeOK, NEW i \in Ids, NEW u \in Callers,
           CancelQueueItem(i, u) \/ DeleteQueueItem(i, u)
    PROVE  QueueTypeOK'
<1> USE QueueAssumption DEF QueueTypeOK
<1>1. call' = [call EXCEPT !["loop"] = SetStatus(i, "canceled")]
  BY DEF CancelQueueItem, DeleteQueueItem
<1>2. CallOK'
  BY <1>1, PlaceType DEF Threads, Status, Finished
<1>3. LoopOK'
  BY DEF CancelQueueItem, DeleteQueueItem, QueueAssumption, Handling, IdleLoop, LoopOK, LoopPc
<1>4. QED
  BY <1>2, <1>3 DEF CancelQueueItem, DeleteQueueItem, RowOK, ReqOK

\* cancel_by_batch_ids and cancel_by_destination.
LEMMA CancelMatchingType ==
    ASSUME QueueTypeOK, NEW q, NEW u, NEW Match, CancelMatching(q, u, Match)
    PROVE  QueueTypeOK'
<1> USE QueueAssumption DEF QueueTypeOK
<1>1. RowOK'
  BY UpdateType DEF CancelMatching, Pending, RowsOf, Status, Finished, RowOK
<1>2. CallOK' /\ LoopOK'
  <2>1. CASE UNCHANGED <<call, loop>>
    BY <2>1 DEF CallOK, LoopOK
  <2>2. CASE \E c \in Current(q) \cap Match \cap Mine(u) :
               /\ call' = [call EXCEPT !["loop"] = SetStatus(c, "canceled")]
               /\ Handling("cancel")
    BY <2>2, PlaceType, HandlingType DEF Mine, Rows, Threads, Status, Finished, LoopPc
  <2>3. QED BY <2>1, <2>2 DEF CancelMatching
<1>3. QED BY <1>1, <1>2 DEF CancelMatching, ReqOK

\* The operations that only update or delete rows, in one transaction.
LEMMA BulkType ==
    ASSUME QueueTypeOK, NEW q \in Queues, NEW u \in Callers, NEW d,
           \/ DeleteByDestination(q, u, d) \/ CancelAllExceptCurrent(q, u)
           \/ DeleteAllExceptCurrent(q, u) \/ Prune(q, u)
    PROVE  QueueTypeOK'
<1> USE DEF QueueTypeOK
<1>1. CASE DeleteByDestination(q, u, d)
  <2>1. RowOK'
    BY <1>1, DeleteType DEF DeleteByDestination, RowOK
  <2>2. \A c \in Rows : Append(events, CanceledEvent(c)) \in Seq(Event)
    BY AppendProperties DEF Rows, CanceledEvent, Event
  <2>3. events' \in Seq(Event)
    BY <1>1, <2>2 DEF DeleteByDestination, Current, RowsOf
  <2>4. QED BY <1>1, <2>1, <2>3 DEF DeleteByDestination, CallOK, LoopOK, ReqOK
<1>2. CASE CancelAllExceptCurrent(q, u)
  <2>1. RowOK'
    BY <1>2, UpdateType DEF CancelAllExceptCurrent, Pending, RowsOf, Status, Finished, RowOK
  <2>2. QED BY <1>2, <2>1 DEF CancelAllExceptCurrent, CallOK, LoopOK, ReqOK
<1>3. CASE DeleteAllExceptCurrent(q, u)
  BY <1>3, DeleteType DEF DeleteAllExceptCurrent, RowOK, CallOK, LoopOK, ReqOK
<1>4. CASE Prune(q, u)
  BY <1>4, DeleteType DEF Prune, RowOK, CallOK, LoopOK, ReqOK
<1>5. QED BY <1>1, <1>2, <1>3, <1>4

\* The clear route's two halves, and the ends of the cancel and delete operations.
LEMMA ClearType ==
    ASSUME QueueTypeOK, NEW q \in Queues, NEW u \in Callers, ClearQueue(q, u)
    PROVE  QueueTypeOK'
<1> USE QueueAssumption DEF QueueTypeOK
<1>1. CallOK'
  <2>1. CASE UNCHANGED call
    BY <2>1 DEF CallOK
  <2>2. CASE \E c \in Current(q) \cap Mine(u) :
               call' = [call EXCEPT !["loop"] = SetStatus(c, "canceled")]
    BY <2>2, PlaceType DEF Mine, Rows, Threads, Status, Finished
  <2>3. QED BY <2>1, <2>2 DEF ClearQueue
<1>2. LoopOK'
  BY DEF ClearQueue, QueueAssumption, IdleLoop, LoopOK, LoopPc
<1>3. QED BY <1>1, <1>2 DEF ClearQueue, RowOK, ReqOK

LEMMA ReturnType ==
    ASSUME QueueTypeOK, CancelReturn \/ DeleteReturn \/ ClearReturn
    PROVE  QueueTypeOK'
<1> USE QueueAssumption DEF QueueTypeOK
<1>1. CallOK'
  BY HangUpType DEF CancelReturn, DeleteReturn, ClearReturn, Threads
<1>2. LoopOK'
  BY HandlingType DEF CancelReturn, DeleteReturn, ClearReturn, LoopPc
<1>3. RowOK' /\ events' \in Seq(Event)
  <2>1. CASE CancelReturn
    BY <2>1 DEF CancelReturn, RowOK
  <2>2. CASE DeleteReturn
    BY <2>2, DeleteType DEF DeleteReturn, RowOK
  <2>3. CASE ClearReturn
    <3>1. ClearedEvent(loop.queue) \in Event
      BY DEF ClearedEvent, Event, LoopOK
    <3>2. QED BY <2>3, <3>1, DeleteType, AppendProperties DEF ClearReturn, RowOK
  <2>4. QED BY <2>1, <2>2, <2>3
<1>4. QED BY <1>1, <1>2, <1>3 DEF CancelReturn, DeleteReturn, ClearReturn, ReqOK

\* The rows a retry and an enqueue insert are fresh rows of existing batches.
LEMMA RetryInserts ==
    ASSUME QueueTypeOK, NEW n \in 1 .. MaxSessions, NEW from \in [1 .. n -> Ids],
           NEW u \in Callers, RetryItemsById(from, u)
    PROVE  \E m \in Nat : \E new \in [1 .. m -> Fresh] : Insert(new)
<1> DEFINE b(k) == row[from[k]].batch
           p(k) == row[from[k]].prio
           root(k) == RootOf(from[k])
           new == [k \in 1 .. n |-> NewRow(b(k), p(k), root(k))]
<1>1. n \in Nat
  BY QueueAssumption
<1>2. ASSUME NEW k \in 1 .. n
      PROVE  b(k) \in Batches /\ p(k) \in Nat /\ root(k) \in Nat
  <2>1. from[k] \in Ids /\ row[from[k]].status # "absent"
    BY DEF RetryItemsById, Mine, Rows
  <2>2. row[from[k]] \in Row /\ row[from[k]].batch \in Batches /\ from[k] \in Nat
    BY <2>1 DEF QueueTypeOK, RowOK, Ids
  <2>3. QED BY <2>2 DEF Row, RootOf
<1>3. Insert(new)
  BY DEF RetryItemsById
<1> HIDE DEF b, p, root
<1>4. \A k \in 1 .. n : NewRow(b(k), p(k), root(k)) \in Fresh
  BY <1>2, NewRowType
<1>5. new \in [1 .. n -> Fresh]
  BY <1>4
<1>6. QED BY <1>1, <1>3, <1>5

LEMMA EnqueueInserts ==
    ASSUME QueueTypeOK, NEW r \in Requests, EnqueueInsert(r)
    PROVE  \E m \in Nat : \E new \in [1 .. m -> Fresh] : Insert(new)
<1> DEFINE m == SessionsToCreate(req[r].n, req[r].room)
           new == [k \in 1 .. m |-> NewRow(req[r].batch, req[r].prio, 0)]
<1>1. m \in Nat
  BY DEF SessionsToCreate, QueueTypeOK, ReqOK
<1>2. req[r].batch \in Batches /\ req[r].prio \in Nat /\ 0 \in Nat
  BY DEF EnqueueInsert, QueueTypeOK, ReqOK
<1>3. NewRow(req[r].batch, req[r].prio, 0) \in Fresh
  BY <1>2, NewRowType
<1>4. Insert(new)
  BY DEF EnqueueInsert
<1> HIDE DEF m
<1>5. new \in [1 .. m -> Fresh]
  BY <1>3
<1>6. QED BY <1>1, <1>4, <1>5

\* A retry, in its one transaction.
LEMMA RetryType ==
    ASSUME QueueTypeOK, NEW n \in 1 .. MaxSessions, NEW from \in [1 .. n -> Ids],
           NEW u \in Callers, RetryItemsById(from, u)
    PROVE  QueueTypeOK'
<1>1. RowOK' /\ nextId' \in 1 .. MaxItems + 1
  BY RetryInserts, InsertType DEF QueueTypeOK
<1>2. QED BY <1>1 DEF RetryItemsById, QueueTypeOK, CallOK, LoopOK, ReqOK

\* The three steps of enqueue_batch.
LEMMA EnqueueType ==
    ASSUME QueueTypeOK, NEW r \in Requests,
           \/ \E b \in Batches, n \in 1 .. MaxSessions, prepend \in BOOLEAN :
                 EnqueueSize(r, b, n, prepend)
           \/ EnqueuePriority(r)
           \/ EnqueueInsert(r)
    PROVE  QueueTypeOK'
<1> USE QueueAssumption DEF QueueTypeOK
<1>1. CASE \E b \in Batches, n \in 1 .. MaxSessions, prepend \in BOOLEAN :
             EnqueueSize(r, b, n, prepend)
  <2> PICK b \in Batches, n \in 1 .. MaxSessions, prepend \in BOOLEAN :
        EnqueueSize(r, b, n, prepend)
    BY <1>1
  <2>1. Cardinality(Pending(b.queue)) \in Nat
    <3>1. IsFiniteSet(Ids) /\ Pending(b.queue) \subseteq Ids
      BY FS_Interval DEF Ids, Pending, RowsOf, Rows
    <3>2. QED BY <3>1, FS_Subset, FS_CardinalityType
  <2>2. ReqOK'
    BY <2>1 DEF EnqueueSize, ReqOK
  <2>3. LoopOK'
    BY HandlingType DEF EnqueueSize, LoopOK, LoopPc
  <2>4. QED BY <2>2, <2>3 DEF EnqueueSize, RowOK, CallOK
<1>2. CASE EnqueuePriority(r)
  <2>1. \A i \in Pending(req[r].batch.queue) : row[i].prio \in Nat
    BY DEF Pending, RowsOf, Rows, RowOK, Row
  <2>2. ReqOK'
    <3>1. PICK p \in Nat : req' = [req EXCEPT ![r].pc = "await", ![r].prio = p + 1]
      BY <1>2, <2>1 DEF EnqueuePriority
    <3>2. p + 1 \in Nat
      OBVIOUS
    <3>3. req' = [req EXCEPT ![r] = [req[r] EXCEPT !.pc = "await", !.prio = p + 1]]
      BY <3>1 DEF ReqOK
    <3>4. QED BY <1>2, <3>2, <3>3, ZenonT(40) DEF EnqueuePriority, ReqOK
  <2>3. QED BY <1>2, <2>2, HandlingType DEF EnqueuePriority, RowOK, CallOK, LoopPc
<1>3. CASE EnqueueInsert(r)
  <2>1. RowOK' /\ nextId' \in 1 .. MaxItems + 1
    BY <1>3, EnqueueInserts, InsertType
  <2>2. ReqOK'
    BY <1>3 DEF EnqueueInsert, ReqOK, NoReq
  <2>3. QED BY <1>3, <2>1, <2>2 DEF EnqueueInsert, CallOK, LoopOK
<1>4. QED BY <1>1, <1>2, <1>3

\* Every step of a request, its first or a later one.
LEMMA QueueStepType ==
    ASSUME QueueTypeOK, Request \/ Continue
    PROVE  QueueTypeOK'
<1>1. CASE Request
  <2>1. CASE \E i \in Ids, u \in Callers : CancelQueueItem(i, u) \/ DeleteQueueItem(i, u)
    BY <2>1, ItemRequestType
  <2>2. CASE \E q \in Queues, u \in Callers, b \in Batches :
               CancelByBatchIds(q, u, {b.id}) \/ CancelByDestination(q, u, b.dest)
    BY <2>2, CancelMatchingType DEF CancelByBatchIds, CancelByDestination
  <2>3. CASE \E q \in Queues, u \in Callers : ClearQueue(q, u)
    BY <2>3, ClearType
  <2>4. CASE \E q \in Queues, u \in Callers :
               \/ \E b \in Batches : DeleteByDestination(q, u, b.dest)
               \/ CancelAllExceptCurrent(q, u) \/ DeleteAllExceptCurrent(q, u) \/ Prune(q, u)
    BY <2>4, BulkType
  <2>5. CASE \E n \in 1 .. MaxSessions : \E from \in [1 .. n -> Ids], u \in Callers :
               RetryItemsById(from, u)
    BY <2>5, RetryType
  <2>6. CASE \E r \in Requests, b \in Batches, n \in 1 .. MaxSessions, prepend \in BOOLEAN :
               EnqueueSize(r, b, n, prepend)
    BY <2>6, EnqueueType
  <2>7. QED BY <1>1, <2>1, <2>2, <2>3, <2>4, <2>5, <2>6 DEF Request
<1>2. CASE Continue
  BY <1>2, SetStatusStepType, ReturnType, EnqueueType DEF Continue, Threads
<1>3. QED BY <1>1, <1>2

\* The queue after a restart.
LEMMA RestartType ==
    ASSUME QueueTypeOK, RestartQueue
    PROVE  QueueTypeOK'
<1> USE QueueAssumption DEF QueueTypeOK
<1>1. /\ Interrupted \in [Ids -> Row]
      /\ \A i \in Ids : Interrupted[i].status # "absent" => Interrupted[i].batch \in Batches
  BY UpdateType DEF Interrupted, WithStatus, Status, Finished
<1>2. NoRow \in Row /\ NoRow.status = "absent"
  BY DEF NoRow, Row, Status, Finished
<1>3. RowOK'
  BY <1>1, <1>2 DEF RestartQueue, StartQueue, RowOK
<1>4. events' \in Seq(Event)
  <2>1. ClearedEvent(DefaultQueue) \in Event
    BY DEF ClearedEvent, Event
  <2>2. events' = <<ClearedEvent(DefaultQueue)>> \/ events' = <<>>
    BY DEF RestartQueue, StartQueue
  <2>3. <<ClearedEvent(DefaultQueue)>> \in Seq(Event) /\ <<>> \in Seq(Event)
    BY <2>1
  <2>4. QED BY <2>2, <2>3
<1>5. CallOK' /\ LoopOK' /\ ReqOK'
  BY DEF RestartQueue, CallOK, Call, CallPc, NoCall, LoopOK, LoopPc, IdleLoop, ReqOK, NoReq
<1>6. QED BY <1>3, <1>4, <1>5 DEF RestartQueue

\* The queue as it is created.
LEMMA QueueInitType == QueueInit => QueueTypeOK
BY QueueAssumption DEF QueueInit, QueueTypeOK, RowOK, Row, NoRow, Status, CallOK, Call, CallPc,
     NoCall, LoopOK, LoopPc, IdleLoop, ReqOK, NoReq, Ids

-------------------------------------------------------------------------------
(***************************************************************************)
(* Type correctness.                                                       *)
(***************************************************************************)

\* set_queue_item_session keeps the table well-formed.
LEMMA SaveSessionType ==
    ASSUME RowOK, NEW i \in Rows, NEW s \in [done : Nat, err : BOOLEAN], SaveSession(i, s)
    PROVE  RowOK'
<1>1. [row[i] EXCEPT !.done = s.done, !.err = s.err] \in Row
  <2>1. s.done \in Nat /\ s.err \in BOOLEAN
    OBVIOUS
  <2>2. row[i] \in Row
    BY DEF RowOK, Rows
  <2>3. \A x \in Nat, y \in BOOLEAN : [row[i] EXCEPT !.done = x, !.err = y] \in Row
    BY <2>2 DEF Row
  <2>4. QED BY <2>1, <2>3
<1>2. QED BY <1>1 DEF SaveSession, RowOK, Rows

\* Where the processor places a call, the row it names exists.
LEMMA PlaceCallType ==
    ASSUME CallOK, NEW p, NEW i \in Ids, PlaceCall(p, i)
    PROVE  CallOK'
<1>1. Target(p) \in Status
  BY DEF Target, Status, Finished
<1>2. QED BY <1>1, PlaceType DEF PlaceCall, Threads

\* The three threading.Events hold Booleans.
LEMMA EventsType ==
    ASSUME EventsOK, [Next]_vars
    PROVE  EventsOK'
<1> USE DEF EventsOK
<1>1. CASE UNCHANGED procVars
  BY <1>1, Zenon DEF procVars
<1>2. CASE Processor
  <2>1. CASE ProcStart \/ LoopTop \/ NonFatal \/ NonFatalReturn \/ ClearCancel
    BY <2>1, Zenon DEF ProcStart, LoopTop, NonFatal, NonFatalReturn, ClearCancel, Die
  <2>2. CASE AwaitResume \/ Dequeue \/ DequeueReturn \/ NextNode \/ RunNode \/ NodeError
             \/ FailReturn \/ AfterRun \/ CompleteReturn
    BY <2>2, Zenon DEF AwaitResume, Dequeue, DequeueReturn, NextNode, RunNode, NodeError,
         FailReturn, AfterRun, CompleteReturn
  <2>3. QED BY <1>1, <1>2, <2>1, <2>2 DEF Processor
<1>3. CASE Handler
  BY <1>3, Zenon DEF Handler, HandleEvent, HandleCanceled, HandleSet, procVars
<1>4. CASE Resume \/ Pause \/ Stop
  BY <1>4, Zenon DEF Resume, Pause, Stop
<1>5. CASE Restart
  BY <1>5, Zenon DEF Restart
<1>6. QED BY <1>1, <1>2, <1>3, <1>4, <1>5 DEF Next, EventLoop, vars

\* What leaves the queue alone leaves it well-formed.
LEMMA QueueUnchanged ==
    ASSUME QueueTypeOK, UNCHANGED queueVars
    PROVE  QueueTypeOK'
BY DEF queueVars, QueueTypeOK, RowOK, CallOK, LoopOK, ReqOK

\* A step of the processor's thread that saves a session, or none, and places a call
\* for the same item, or none.
LEMMA SettleType ==
    ASSUME TypeOK,
           \/ UNCHANGED <<row, call>>
           \/ /\ ~HeldGone /\ SaveSession(held.item, sess)
              /\ UNCHANGED call \/ \E p \in Calling : PlaceCall(p, held.item)
    PROVE  RowOK' /\ CallOK'
<1>1. RowOK /\ CallOK
  BY DEF TypeOK, QueueTypeOK
<1>2. CASE UNCHANGED <<row, call>>
  BY <1>1, <1>2 DEF RowOK, CallOK
<1>3. CASE /\ ~HeldGone /\ SaveSession(held.item, sess)
           /\ UNCHANGED call \/ \E p \in Calling : PlaceCall(p, held.item)
  <2>1. held.item \in Rows /\ held.item \in Ids /\ sess \in [done : Nat, err : BOOLEAN]
    BY <1>3, ProcessorAssumption DEF TypeOK, SessOK, HeldGone, Rows
  <2>2. RowOK'
    BY <1>1, <1>3, <2>1, SaveSessionType
  <2>3. CallOK'
    <3>1. CASE UNCHANGED call
      BY <1>1, <3>1 DEF CallOK
    <3>2. CASE \E p \in Calling : PlaceCall(p, held.item)
      BY <1>1, <2>1, <3>2, PlaceCallType
    <3>3. QED BY <1>3, <3>1, <3>2
  <2>4. QED BY <2>2, <2>3
<1>4. QED BY <1>2, <1>3

\* A step of the event loop: requests, handlers, pause, resume and stop.
LEMMA EventLoopType ==
    ASSUME TypeOK, EventLoop
    PROVE  TypeOK'
<1> USE QueueAssumption
<1>1. EventsOK'
  BY EventsType DEF TypeOK, Next
<1>2. UNCHANGED <<pc, held, sess, restarts, starts, chosenAt>>
  BY DEF EventLoop, Handler, HandleEvent, HandleCanceled, HandleSet, Resume, Pause, Stop, procVars
<1>3. QueueTypeOK'
  <2>1. CASE Request \/ Continue
    BY <2>1, QueueStepType DEF TypeOK
  <2>2. CASE Handler
    <3>1. \E p \in LoopPc : Handling(p)
      <4>1. CASE HandleEvent
        <5>1. Head(events) \in Event
          BY <4>1, HeadTailProperties DEF HandleEvent, TypeOK, QueueTypeOK
        <5>2. AfterTest[Head(events).type] \in LoopPc /\ "idle" \in LoopPc
          BY <5>1 DEF Event, AfterTest, LoopPc
        <5>3. QED BY <4>1, <5>2 DEF HandleEvent
      <4>2. CASE HandleCanceled \/ HandleSet
        BY <4>2 DEF HandleCanceled, HandleSet, LoopPc
      <4>3. QED BY <2>2, <4>1, <4>2 DEF Handler
    <3>2. LoopOK'
      BY <3>1, HandlingType
    <3>3. events' \in Seq(Event)
      <4>1. CASE HandleEvent
        BY <4>1, HeadTailProperties DEF HandleEvent, TypeOK, QueueTypeOK
      <4>2. CASE HandleCanceled \/ HandleSet
        BY <4>2 DEF HandleCanceled, HandleSet, TypeOK, QueueTypeOK
      <4>3. QED BY <2>2, <4>1, <4>2 DEF Handler
    <3>4. QED BY <2>2, <3>2, <3>3 DEF Handler, HandleEvent, HandleCanceled, HandleSet, TypeOK,
                  QueueTypeOK, RowOK, CallOK, ReqOK
  <2>3. CASE Resume \/ Pause
    BY <2>3, QueueUnchanged DEF Resume, Pause, TypeOK
  <2>4. CASE Stop
    BY <2>4 DEF Stop, TypeOK, QueueTypeOK, RowOK, CallOK, LoopOK, ReqOK
  <2>5. QED BY <2>1, <2>2, <2>3, <2>4 DEF EventLoop
<1>4. QED BY <1>1, <1>2, <1>3 DEF TypeOK, HeldOK, SessOK

\* A step of the processor's thread.
LEMMA ProcessorType ==
    ASSUME TypeOK, Processor
    PROVE  TypeOK'
<1> USE QueueAssumption, ProcessorAssumption
<1>1. EventsOK'
  BY EventsType DEF TypeOK, Next
<1>2. CASE SetStatusStep("proc") /\ UNCHANGED procVars
  BY <1>1, <1>2, SetStatusStepType DEF Threads, procVars, TypeOK, HeldOK, SessOK
<1>3. CASE ProcStart \/ LoopTop \/ AwaitResume \/ ClearCancel
  <2>1. QueueTypeOK'
    BY <1>3, QueueUnchanged DEF ProcStart, LoopTop, AwaitResume, ClearCancel, TypeOK
  <2>2. /\ pc' \in ProcPc /\ pc' # "node" /\ held' \in {held, NoHeld}
        /\ UNCHANGED <<sess, restarts, starts, chosenAt>>
    BY <1>3 DEF ProcStart, LoopTop, Die, AwaitResume, ClearCancel, ProcPc, Running, Executing
  <2>3. QED BY <1>1, <2>1, <2>2 DEF TypeOK, HeldOK, SessOK, NoHeld
<1>4. CASE Dequeue
  <2>1. CallOK'
    <3>1. CASE UNCHANGED call
      BY <3>1 DEF TypeOK, QueueTypeOK, CallOK
    <3>2. CASE \E i \in NextUp : PlaceCall("dequeuing", i)
      BY <3>2, PlaceCallType DEF NextUp, WithStatus, Rows, TypeOK, QueueTypeOK
    <3>3. QED BY <1>4, <3>1, <3>2 DEF Dequeue
  <2>2. pc' \in ProcPc /\ pc' # "node" /\ held' \in {held, NoHeld}
    BY <1>4 DEF Dequeue, PlaceCall, ProcPc
  <2>3. QED BY <1>1, <1>4, <2>1, <2>2, SMTT(30) DEF Dequeue, NoHeld, TypeOK, QueueTypeOK, RowOK, LoopOK,
                ReqOK, HeldOK, SessOK
<1>5. CASE DequeueReturn
  <2>1. CallOK'
    BY <1>5, HangUpType DEF DequeueReturn, HangUp, TypeOK, QueueTypeOK, Threads
  <2>2. call["proc"] \in Call /\ (Returned("proc") => call["proc"].item \in Ids
                                                      /\ call["proc"].batch \in Batches)
    BY DEF TypeOK, QueueTypeOK, CallOK, Threads, Returned
  <2>3. HeldOK'
    BY <1>5, <2>2 DEF DequeueReturn, TypeOK, HeldOK, Call
  <2>4. SessOK' /\ pc' \in ProcPc /\ starts' \in [Ids -> Nat]
    <3>1. /\ pc' \in {"clear", "nonfatal"} /\ sess' \in {sess, NoSession}
          /\ starts' = starts \/ \E i : starts' = [starts EXCEPT ![i] = @ + 1]
      BY <1>5 DEF DequeueReturn
    <3>2. NoSession \in [done : 0 .. Nodes, err : BOOLEAN]
      BY DEF NoSession
    <3>3. SessOK'
      BY <3>1, <3>2 DEF TypeOK, SessOK
    <3>4. starts' \in [Ids -> Nat]
      BY <3>1 DEF TypeOK
    <3>5. QED BY <3>1, <3>3, <3>4 DEF ProcPc, Running, Executing
  <2>5. QED BY <1>1, <1>5, <2>1, <2>3, <2>4 DEF DequeueReturn, TypeOK, QueueTypeOK, RowOK, LoopOK,
                ReqOK
<1>6. CASE NextNode \/ RunNode
  <2>1. QueueTypeOK'
    BY <1>6, QueueUnchanged DEF NextNode, RunNode, TypeOK
  <2>2. pc' \in ProcPc /\ UNCHANGED <<held, restarts, starts, chosenAt>>
    BY <1>6 DEF NextNode, RunNode, TypeOK, ProcPc, Running, Executing
  <2>3. SessOK'
    <3>1. CASE NextNode
      <4>1. /\ sess' = sess \/ sess' = [sess EXCEPT !.err = TRUE]
            /\ pc' = "node" => sess' = sess /\ sess.done # Nodes
        BY <3>1, Zenon DEF NextNode, IsComplete
      <4>2. [sess EXCEPT !.err = TRUE] \in [done : 0 .. Nodes, err : BOOLEAN]
        BY DEF TypeOK, SessOK
      <4>3. sess' \in [done : 0 .. Nodes, err : BOOLEAN]
        BY <4>1, <4>2 DEF TypeOK, SessOK
      <4>4. pc' = "node" => sess'.done < Nodes
        <5>1. sess.done \in 0 .. Nodes
          BY DEF TypeOK, SessOK
        <5>2. QED BY <4>1, <5>1
      <4>5. QED BY <4>3, <4>4 DEF SessOK
    <3>2. CASE RunNode
      <4>1. pc' # "node" /\ sess.done < Nodes /\ sess.done \in Nat
        BY <3>2 DEF RunNode, TypeOK, SessOK
      <4>2. \/ sess' = sess \/ sess' = [sess EXCEPT !.done = sess.done + 1]
            \/ \E d \in {0, 1} : sess' = [done |-> sess.done + d, err |-> TRUE]
        BY <3>2 DEF RunNode
      <4>3. [sess EXCEPT !.done = sess.done + 1] \in [done : 0 .. Nodes, err : BOOLEAN]
        BY <4>1 DEF TypeOK, SessOK
      <4>4. \A d \in {0, 1} : [done |-> sess.done + d, err |-> TRUE]
                              \in [done : 0 .. Nodes, err : BOOLEAN]
        BY <4>1
      <4>5. sess' \in [done : 0 .. Nodes, err : BOOLEAN]
        BY <4>2, <4>3, <4>4 DEF TypeOK, SessOK
      <4>6. QED BY <4>1, <4>5 DEF SessOK
    <3>3. QED BY <1>6, <3>1, <3>2
  <2>4. QED BY <1>1, <2>1, <2>2, <2>3 DEF TypeOK, HeldOK
<1>7. CASE NodeError \/ AfterRun
  <2>1. RowOK' /\ CallOK'
    BY <1>7, SettleType DEF NodeError, AfterRun, Calling
  <2>2. pc' \in ProcPc /\ pc' # "node"
    BY <1>7 DEF NodeError, AfterRun, PlaceCall, ProcPc, Running, Executing
  <2>3. QED BY <1>1, <1>7, <2>1, <2>2 DEF NodeError, AfterRun, TypeOK, QueueTypeOK, LoopOK, ReqOK,
                HeldOK, SessOK
<1>8. CASE NonFatal
  <2>1. RowOK' /\ CallOK'
    BY <1>8, SettleType DEF NonFatal, Calling
  <2>2. pc' \in ProcPc /\ pc' # "node" /\ held' \in {held, NoHeld}
    BY <1>8 DEF NonFatal, Die, PlaceCall, ProcPc, Running, Executing
  <2>3. QED BY <1>1, <1>8, <2>1, <2>2 DEF NonFatal, NoHeld, TypeOK, QueueTypeOK, LoopOK, ReqOK,
                HeldOK, SessOK
<1>9. CASE FailReturn \/ CompleteReturn \/ NonFatalReturn
  <2>1. CallOK'
    BY <1>9, HangUpType DEF FailReturn, CompleteReturn, NonFatalReturn, HangUp, TypeOK,
       QueueTypeOK, Threads
  <2>2. pc' \in ProcPc /\ pc' # "node" /\ held' \in {held, NoHeld}
    BY <1>9 DEF FailReturn, CompleteReturn, NonFatalReturn, Die, ProcPc, Running, Executing
  <2>3. UNCHANGED <<row, nextId, loop, req, events, serving, sess, restarts, starts, chosenAt>>
    BY <1>9 DEF FailReturn, CompleteReturn, NonFatalReturn
  <2>4. QED BY <1>1, <2>1, <2>2, <2>3 DEF NoHeld, TypeOK, QueueTypeOK, RowOK, LoopOK, ReqOK,
                HeldOK, SessOK
<1>10. QED
  BY <1>2, <1>3, <1>4, <1>5, <1>6, <1>7, <1>8, <1>9 DEF Processor

\* The invariant's base case and its step.
LEMMA TypeInit == Init => TypeOK
<1> SUFFICES ASSUME Init PROVE TypeOK
  OBVIOUS
<1>1. QueueTypeOK
  BY QueueInitType DEF Init
<1>2. HeldOK /\ SessOK
  BY ProcessorAssumption DEF Init, HeldOK, SessOK, NoHeld, NoSession
<1>3. EventsOK
  BY Zenon DEF Init, EventsOK
<1>4. QED BY <1>1, <1>2, <1>3, ProcessorAssumption, QueueAssumption DEF Init, TypeOK, ProcPc

LEMMA TypeStep == TypeOK /\ [Next]_vars => TypeOK'
<1> SUFFICES ASSUME TypeOK, [Next]_vars PROVE TypeOK'
  OBVIOUS
<1>1. EventsOK'
  BY EventsType DEF TypeOK
<1>2. CASE Restart
  <2>1. QueueTypeOK'
    BY <1>2, RestartType DEF Restart, TypeOK
  <2>2. QED BY <1>1, <1>2, <2>1, ProcessorAssumption, QueueAssumption DEF Restart, TypeOK, HeldOK, SessOK, NoHeld,
                NoSession, ProcPc
<1>3. CASE UNCHANGED vars
  BY <1>1, <1>3, QueueUnchanged DEF vars, procVars, TypeOK, HeldOK, SessOK
<1>4. QED BY <1>2, <1>3, EventLoopType, ProcessorType DEF Next

\* Every state the queue and the processor reach is well-formed: no operation, no
\* restart and no interleaving of the two threads makes an ill-typed row or call.
THEOREM TypeCorrect == Spec => []TypeOK
BY TypeInit, TypeStep, PTL DEF Spec

-------------------------------------------------------------------------------
(***************************************************************************)
(* The core of the inductive invariant.  What a step of the event loop can *)
(* do to the processor's business is only this: it removes rows, changes   *)
(* their status to canceled, or inserts pending ones under fresh ids.      *)
(***************************************************************************)
KeepsButStatus(i) ==
    /\ row'[i].prio = row[i].prio /\ row'[i].batch = row[i].batch
    /\ row'[i].done = row[i].done /\ row'[i].err = row[i].err

Fate(i) ==
    \/ row'[i] = row[i]
    \/ row'[i] = NoRow
    \/ row[i].status # "absent" /\ row'[i].status = "canceled" /\ KeepsButStatus(i)
    \/ /\ i \in nextId .. nextId' - 1
       /\ row'[i].status = "pending" /\ row'[i].done = 0 /\ ~row'[i].err

LoopEffect ==
    /\ \A i \in Ids : Fate(i)
    /\ nextId' \in Int /\ nextId <= nextId'
    /\ call'["proc"] = call["proc"]
    /\ call'["loop"].pc # "idle" => call'["loop"].to = "canceled"
    /\ UNCHANGED <<pc, held, sess, starts, chosenAt>>

\* A bulk cancellation, a deletion and an insertion of new rows have that effect.
LEMMA CancelFate ==
    ASSUME RowOK, NEW S, S \subseteq Rows, row' = Update(S, "canceled"), NEW i \in Ids
    PROVE  Fate(i)
BY DEF Fate, KeepsButStatus, RowOK, Row, Update, Rows

LEMMA DeleteFate ==
    ASSUME RowOK, NEW S, row' = Delete(S), NEW i \in Ids
    PROVE  Fate(i)
BY DEF Fate, RowOK, Delete

LEMMA InsertFate ==
    ASSUME RowOK, nextId \in 1 .. MaxItems + 1, NEW n \in Nat,
           NEW new \in [1 .. n -> Fresh], Insert(new)
    PROVE  /\ \A i \in Ids : Fate(i)
           /\ nextId' \in Int /\ nextId <= nextId'
<1>1. Len(new) = n /\ \A k \in 1 .. n : new[k].status = "pending" /\ new[k].done = 0 /\ ~new[k].err
  BY FunctionIsSeq DEF Fresh
<1>2. nextId' = nextId + n
  BY <1>1 DEF Insert
<1>3. ASSUME NEW i \in Ids PROVE Fate(i)
  <2>1. row'[i] = IF i \in nextId .. nextId + n - 1 THEN new[i - nextId + 1] ELSE row[i]
    BY <1>1 DEF Insert
  <2>2. CASE i \in nextId .. nextId + n - 1
    <3>1. row'[i].status = "pending" /\ row'[i].done = 0 /\ ~row'[i].err
      BY <1>1, <2>1, <2>2, i - nextId + 1 \in 1 .. n DEF Ids
    <3>2. i \in nextId .. nextId' - 1
      BY <1>2, <2>2
    <3>3. QED BY <3>1, <3>2 DEF Fate
  <2>3. CASE i \notin nextId .. nextId + n - 1
    BY <2>1, <2>3 DEF Fate
  <2>4. QED BY <2>2, <2>3
<1>4. QED BY <1>2, <1>3

\* The first step of a request.
LEMMA RequestEffect ==
    ASSUME TypeOK, CallsMatch, Request, UNCHANGED procVars
    PROVE  LoopEffect
<1>1. RowOK /\ CallOK /\ nextId \in 1 .. MaxItems + 1
  BY DEF TypeOK, QueueTypeOK
<1>2. UNCHANGED <<pc, held, sess, starts, chosenAt>> /\ nextId \in Int /\ nextId <= nextId
  BY <1>1 DEF procVars
<1>3. ASSUME NEW i, call' = [call EXCEPT !["loop"] = SetStatus(i, "canceled")]
      PROVE  call'["proc"] = call["proc"] /\ call'["loop"].to = "canceled"
  BY <1>1, <1>3 DEF CallOK, Threads, SetStatus, NoCall
<1>4. ASSUME UNCHANGED call
      PROVE  call'["proc"] = call["proc"] /\ (call'["loop"].pc # "idle" => call'["loop"].to = "canceled")
  BY <1>4 DEF CallsMatch
<1>5. ASSUME UNCHANGED row PROVE \A i \in Ids : Fate(i)
  BY <1>5 DEF Fate
<1>6. CASE \E i \in Ids, u \in Callers : CancelQueueItem(i, u) \/ DeleteQueueItem(i, u)
  BY <1>2, <1>3, <1>5, <1>6 DEF CancelQueueItem, DeleteQueueItem, LoopEffect
<1>7. ASSUME NEW q, NEW u, NEW Match, CancelMatching(q, u, Match)
      PROVE  LoopEffect
  <2>1. \A i \in Ids : Fate(i)
    BY <1>1, <1>7, CancelFate DEF CancelMatching, Pending, RowsOf
  <2>2. UNCHANGED call \/ \E c : call' = [call EXCEPT !["loop"] = SetStatus(c, "canceled")]
    BY <1>7 DEF CancelMatching
  <2>3. QED BY <1>2, <1>3, <1>4, <1>7, <2>1, <2>2 DEF CancelMatching, LoopEffect
<1>8. CASE \E q \in Queues, u \in Callers : \E b \in Batches :
             \/ CancelByBatchIds(q, u, {b.id}) \/ CancelByDestination(q, u, b.dest)
  BY <1>7, <1>8 DEF CancelByBatchIds, CancelByDestination
<1>9. CASE \E q \in Queues, u \in Callers : \E b \in Batches : DeleteByDestination(q, u, b.dest)
  BY <1>1, <1>2, <1>4, <1>9, DeleteFate DEF DeleteByDestination, LoopEffect
<1>10. CASE \E q \in Queues, u \in Callers : CancelAllExceptCurrent(q, u)
  BY <1>1, <1>2, <1>4, <1>10, CancelFate DEF CancelAllExceptCurrent, Pending, RowsOf, LoopEffect
<1>11. CASE \E q \in Queues, u \in Callers : DeleteAllExceptCurrent(q, u) \/ Prune(q, u)
  BY <1>1, <1>2, <1>4, <1>11, DeleteFate DEF DeleteAllExceptCurrent, Prune, LoopEffect
<1>12. CASE \E q \in Queues, u \in Callers : ClearQueue(q, u)
  <2>1. UNCHANGED call \/ \E c : call' = [call EXCEPT !["loop"] = SetStatus(c, "canceled")]
    BY <1>12 DEF ClearQueue
  <2>2. QED BY <1>2, <1>3, <1>4, <1>5, <1>12, <2>1 DEF ClearQueue, LoopEffect
<1>13. CASE \E n \in 1 .. MaxSessions : \E from \in [1 .. n -> Ids], u \in Callers :
              RetryItemsById(from, u)
  <2>1. PICK n \in 1 .. MaxSessions : \E from \in [1 .. n -> Ids], u \in Callers :
          RetryItemsById(from, u)
    BY <1>13
  <2>2. (\A i \in Ids : Fate(i)) /\ nextId' \in Int /\ nextId <= nextId'
    BY <1>1, <2>1, RetryInserts, InsertFate DEF TypeOK
  <2>3. QED BY <1>2, <1>4, <2>1, <2>2 DEF RetryItemsById, LoopEffect
<1>14. CASE \E r \in Requests, b \in Batches, n \in 1 .. MaxSessions, prepend \in BOOLEAN :
              EnqueueSize(r, b, n, prepend)
  BY <1>2, <1>4, <1>5, <1>14 DEF EnqueueSize, LoopEffect
<1>15. QED
  BY <1>6, <1>8, <1>9, <1>10, <1>11, <1>12, <1>13, <1>14 DEF Request

\* A transaction of a status call changes neither its arguments nor the other call,
\* and its pc as _set_queue_item_status goes on.
LEMMA SetStatusCall ==
    ASSUME QueueTypeOK, NEW t \in Threads, SetStatusStep(t)
    PROVE  /\ call'[t].item = call[t].item /\ call'[t].to = call[t].to
           /\ call[t].pc # "idle" /\ call'[t].pc # "idle"
           /\ \A o \in Threads \ {t} : call'[o] = call[o]
<1>1. call \in [Threads -> Call]
  BY DEF QueueTypeOK, CallOK
<1>2. CASE SetStatusCheck(t)
  BY <1>1, <1>2 DEF SetStatusCheck, Call
<1>3. CASE SetStatusWrite(t)
  BY <1>1, <1>3 DEF SetStatusWrite, Call
<1>4. CASE SetStatusRead(t)
  <2>1. CASE row[call[t].item].status = "absent"
    BY <1>1, <1>4, <2>1 DEF SetStatusRead, Call
  <2>2. CASE row[call[t].item].status # "absent"
    BY <1>1, <1>4, <2>2 DEF SetStatusRead, Call
  <2>3. QED BY <2>1, <2>2
<1>5. CASE SetStatusEmit(t)
  BY <1>1, <1>5 DEF SetStatusEmit, Call
<1>6. QED BY <1>2, <1>3, <1>4, <1>5 DEF SetStatusStep

\* A later step of a request.  The event loop's calls only write "canceled".
LEMMA ContinueEffect ==
    ASSUME TypeOK, CallsMatch, Continue, UNCHANGED procVars
    PROVE  LoopEffect
<1>1. RowOK /\ CallOK /\ nextId \in 1 .. MaxItems + 1
  BY DEF TypeOK, QueueTypeOK
<1>2. UNCHANGED <<pc, held, sess, starts, chosenAt>> /\ nextId \in Int /\ nextId <= nextId
  BY <1>1 DEF procVars
<1>3. ASSUME UNCHANGED row PROVE \A i \in Ids : Fate(i)
  BY <1>3 DEF Fate
<1>4. CASE SetStatusStep("loop")
  <2>1. call["loop"].pc # "idle" /\ call["loop"].to = "canceled"
    BY <1>4 DEF SetStatusStep, SetStatusCheck, SetStatusWrite, SetStatusRead, SetStatusEmit,
         CallsMatch
  <2>2. call'["proc"] = call["proc"] /\ call'["loop"].to = call["loop"].to
    BY <1>4, SetStatusCall DEF TypeOK, QueueTypeOK, Threads
  <2>3. \A i \in Ids : Fate(i)
    <3>1. CASE SetStatusWrite("loop")
      BY <1>1, <2>1, <3>1, CancelFate DEF SetStatusWrite
    <3>2. CASE UNCHANGED row
      BY <1>3, <3>2
    <3>3. QED BY <1>4, <3>1, <3>2 DEF SetStatusStep, SetStatusCheck, SetStatusRead, SetStatusEmit
  <2>4. UNCHANGED nextId
    BY <1>4 DEF SetStatusStep, SetStatusCheck, SetStatusWrite, SetStatusRead, SetStatusEmit
  <2>5. QED BY <1>2, <2>1, <2>2, <2>3, <2>4 DEF LoopEffect
<1>5. CASE CancelReturn \/ DeleteReturn \/ ClearReturn
  <2>1. call' = [call EXCEPT !["loop"] = NoCall] /\ UNCHANGED nextId
    BY <1>5 DEF CancelReturn, DeleteReturn, ClearReturn
  <2>2. call'["proc"] = call["proc"] /\ call'["loop"].pc = "idle"
    BY <1>1, <2>1 DEF CallOK, Threads, NoCall
  <2>3. UNCHANGED row \/ \E S : row' = Delete(S)
    BY <1>5 DEF CancelReturn, DeleteReturn, ClearReturn
  <2>4. \A i \in Ids : Fate(i)
    BY <1>1, <1>3, <2>3, DeleteFate
  <2>5. QED BY <1>2, <2>1, <2>2, <2>4 DEF LoopEffect
<1>6. CASE \E r \in Requests : EnqueuePriority(r)
  BY <1>2, <1>3, <1>6 DEF EnqueuePriority, LoopEffect, CallsMatch
<1>7. CASE \E r \in Requests : EnqueueInsert(r)
  <2>1. (\A i \in Ids : Fate(i)) /\ nextId' \in Int /\ nextId <= nextId'
    BY <1>1, <1>7, EnqueueInserts, InsertFate DEF TypeOK
  <2>2. QED BY <1>2, <1>7, <2>1 DEF EnqueueInsert, LoopEffect, CallsMatch
<1>8. QED BY <1>4, <1>5, <1>6, <1>7 DEF Continue

LEMMA EventLoopEffect ==
    ASSUME TypeOK, CallsMatch, EventLoop
    PROVE  LoopEffect
<1>1. CASE (Request \/ Continue) /\ UNCHANGED procVars
  BY <1>1, RequestEffect, ContinueEffect
<1>2. CASE Handler \/ Resume \/ Pause \/ Stop
  <2>1. UNCHANGED <<row, nextId, call, pc, held, sess, starts, chosenAt>>
    BY <1>2 DEF Handler, HandleEvent, HandleCanceled, HandleSet, Resume, Pause, Stop, procVars,
         queueVars
  <2>2. nextId \in Int
    BY DEF TypeOK, QueueTypeOK
  <2>3. QED BY <2>1, <2>2 DEF LoopEffect, Fate, CallsMatch
<1>3. QED BY <1>1, <1>2 DEF EventLoop

\* So no step of the event loop disturbs the invariant.
LEMMA EventLoopKeeps ==
    ASSUME CoreInv, EventLoop
    PROVE  NeverStarted' /\ CallsMatch' /\ CallsTake' /\ InProgressIsHeld' /\ AtMostOnce'
<1>1. LoopEffect
  BY EventLoopEffect DEF CoreInv
<1>0. ASSUME NEW i \in Ids
      PROVE  \/ row'[i].status = row[i].status
             \/ row'[i].status = "absent"
             \/ row[i].status # "absent" /\ row'[i].status = "canceled"
             \/ i \in nextId .. nextId' - 1 /\ row'[i].status = "pending"
  BY <1>1 DEF LoopEffect, Fate, NoRow
<1>2. nextId \in Int /\ Ids \subseteq Int
  BY DEF CoreInv, TypeOK, QueueTypeOK, Ids
<1>3. NeverStarted'
  BY <1>0, <1>1, <1>2 DEF LoopEffect, CoreInv, NeverStarted
<1>4. pc \in Calling => call["proc"].item \in Ids
  BY DEF CoreInv, CallsMatch, TypeOK, QueueTypeOK, CallOK, Threads
<1>5. CallsMatch'
  BY <1>1, <1>2, <1>4 DEF LoopEffect, CoreInv, CallsMatch, Target
<1>6. CallsTake'
  <2> DEFINE i == call["proc"].item
  <2>1. SUFFICES ASSUME pc \in Calling PROVE CallsTake'
    BY <1>1 DEF LoopEffect, CallsTake
  <2>2. i \in Ids /\ i < nextId /\ Fate(i)
    BY <1>1, <1>4, <2>1 DEF LoopEffect, CoreInv, CallsMatch
  <2>3. row'[i].status \in {row[i].status, "canceled", "absent"}
        /\ (row[i].status = "absent" => row'[i].status = "absent")
    BY <1>2, <2>2 DEF Fate, NoRow
  <2>4. QED BY <1>1, <2>3 DEF LoopEffect, CoreInv, CallsTake
<1>7. InProgressIsHeld'
  BY <1>0, <1>1 DEF LoopEffect, CoreInv, InProgressIsHeld, AtWorkOn
<1>8. AtMostOnce'
  BY <1>1 DEF LoopEffect, CoreInv, AtMostOnce
<1>9. QED BY <1>3, <1>5, <1>6, <1>7, <1>8

\* A transaction of the processor's own status call.
LEMMA StatusCallKeeps ==
    ASSUME CoreInv, SetStatusStep("proc"), UNCHANGED procVars
    PROVE  NeverStarted' /\ CallsMatch' /\ CallsTake' /\ InProgressIsHeld' /\ AtMostOnce'
<1> DEFINE i == call["proc"].item
           to == call["proc"].to
           Before == call["proc"].pc
           After == call'["proc"].pc
<1>1. /\ call'["proc"].item = i /\ call'["proc"].to = to
      /\ Before # "idle" /\ After # "idle"
      /\ call'["loop"] = call["loop"]
  BY SetStatusCall DEF CoreInv, TypeOK, Threads
<1>2. /\ pc \in Calling /\ i \in Ids /\ i < nextId /\ to = Target(pc)
      /\ call \in [Threads -> Call] /\ row \in [Ids -> Row] /\ Ids \subseteq Int /\ nextId \in Int
  BY <1>1 DEF CoreInv, CallsMatch, TypeOK, QueueTypeOK, CallOK, RowOK, Threads, Ids
<1>3. UNCHANGED <<pc, held, starts, nextId>>
  BY DEF procVars, SetStatusStep, SetStatusCheck, SetStatusWrite, SetStatusRead, SetStatusEmit
<1>4. \A j \in Ids : \/ row'[j].status = row[j].status
                     \/ j = i /\ Before = "write" /\ row[i].status # "absent" /\ row'[i].status = to
  <2>1. CASE SetStatusWrite("proc")
    BY <1>2, <2>1 DEF SetStatusWrite, Update, Rows, Row
  <2>2. CASE UNCHANGED row
    BY <2>2
  <2>3. QED BY <2>1, <2>2 DEF SetStatusStep, SetStatusCheck, SetStatusRead, SetStatusEmit
<1>5. to \in {"in_progress", "completed", "failed"} /\ (to = "in_progress" <=> pc = "dequeuing")
  BY <1>2 DEF Target, Calling
<1>6. NeverStarted'
  BY <1>2, <1>3, <1>4, <1>5 DEF CoreInv, NeverStarted
<1>7. CallsMatch'
  BY <1>1, <1>2, <1>3 DEF CoreInv, CallsMatch, Target
<1>8. CallsTake'
  <2>1. pc = "dequeuing" => starts[i] = 0
    BY <1>2 DEF CoreInv, CallsTake
  <2>2. /\ After \in {"read", "reread", "emit", "done"} =>
              row'[i].status # IF pc = "dequeuing" THEN "pending" ELSE "in_progress"
        /\ After = "raised" => row'[i].status = "absent"
    <3>1. CASE SetStatusCheck("proc")
      BY <1>2, <3>1 DEF SetStatusCheck, Call, Finished
    <3>2. CASE SetStatusWrite("proc")
      <4>1. After = "read"
        BY <1>2, <3>2 DEF SetStatusWrite, Call, Threads
      <4>2. row'[i].status = to \/ row'[i].status = "absent"
        BY <1>2, <3>2 DEF SetStatusWrite, Update, Rows, Row
      <4>3. QED BY <1>5, <4>1, <4>2
    <3>3. CASE SetStatusRead("proc")
      <4>1. UNCHANGED row /\ Before \in {"read", "reread"}
        BY <3>3 DEF SetStatusRead
      <4>2. CASE row[i].status = "absent"
        BY <1>2, <3>3, <4>1, <4>2 DEF SetStatusRead, Call
      <4>3. CASE row[i].status # "absent"
        <5>1. After \in {"emit", "done"}
          BY <1>2, <3>3, <4>3 DEF SetStatusRead, Call, Threads
        <5>2. QED BY <1>2, <4>1, <5>1 DEF CoreInv, CallsTake
      <4>4. QED BY <4>2, <4>3
    <3>4. CASE SetStatusEmit("proc")
      <4>1. UNCHANGED row /\ Before = "emit" /\ After = "done"
        BY <1>2, <3>4 DEF SetStatusEmit, Call, Threads
      <4>2. QED BY <1>2, <4>1 DEF CoreInv, CallsTake
    <3>5. QED BY <3>1, <3>2, <3>3, <3>4 DEF SetStatusStep
  <2>3. QED BY <1>1, <1>3, <2>1, <2>2 DEF CallsTake
<1>9. InProgressIsHeld'
  BY <1>1, <1>2, <1>3, <1>4, <1>5 DEF CoreInv, InProgressIsHeld, AtWorkOn
<1>10. AtMostOnce'
  BY <1>3 DEF CoreInv, AtMostOnce
<1>11. QED BY <1>6, <1>7, <1>8, <1>9, <1>10

\* Where the processor neither makes nor ends a call, and goes on with its item or
\* lets go of one that is not in progress.
LEMMA QuietKeeps ==
    ASSUME CoreInv, pc \notin Calling, pc' \notin Calling, UNCHANGED <<call, nextId, starts>>,
           \A i \in Ids : row'[i].status = row[i].status,
           \A i \in Ids : row[i].status = "in_progress" =>
                             pc' \in Running /\ held'.item = i
    PROVE  NeverStarted' /\ CallsMatch' /\ CallsTake' /\ InProgressIsHeld' /\ AtMostOnce'
<1>1. NeverStarted' /\ AtMostOnce'
  BY DEF CoreInv, NeverStarted, AtMostOnce
<1>2. CallsMatch' /\ CallsTake'
  BY DEF CoreInv, CallsMatch, CallsTake
<1>3. InProgressIsHeld'
  BY DEF InProgressIsHeld, AtWorkOn
<1>4. QED BY <1>1, <1>2, <1>3

\* Where the processor places a call: to begin a pending item, or to settle its own.
LEMMA PlacingKeeps ==
    ASSUME CoreInv, NEW p \in Calling, NEW i \in Rows, pc \notin Calling, PlaceCall(p, i),
           UNCHANGED <<nextId, starts>>,
           \A j \in Ids : row'[j].status = row[j].status,
           IF p = "dequeuing" THEN row[i].status = "pending" /\ pc \notin Running
           ELSE UNCHANGED held /\ i = held.item
    PROVE  NeverStarted' /\ CallsMatch' /\ CallsTake' /\ InProgressIsHeld' /\ AtMostOnce'
<1>1. /\ call'["proc"].pc = "check" /\ call'["proc"].item = i /\ call'["proc"].to = Target(p)
      /\ call'["loop"] = call["loop"] /\ pc' = p
  BY DEF PlaceCall, SetStatus, NoCall, CoreInv, TypeOK, QueueTypeOK, CallOK, Threads
<1>2. i \in Ids /\ row[i].status # "absent" /\ i < nextId
  BY DEF Rows, CoreInv, NeverStarted, TypeOK, QueueTypeOK, Ids
<1>3. NeverStarted' /\ AtMostOnce'
  BY DEF CoreInv, NeverStarted, AtMostOnce
<1>4. CallsMatch'
  BY <1>1, <1>2 DEF CoreInv, CallsMatch, Target
<1>5. CallsTake'
  BY <1>1, <1>2 DEF CoreInv, NeverStarted, CallsTake
<1>6. InProgressIsHeld'
  BY <1>1, <1>2 DEF CoreInv, InProgressIsHeld, AtWorkOn, Calling, Running, Executing
<1>7. QED BY <1>3, <1>4, <1>5, <1>6

\* Saving a session changes no status.
LEMMA SaveKeepsStatus ==
    ASSUME RowOK, NEW i \in Rows, NEW s, SaveSession(i, s)
    PROVE  \A j \in Ids : row'[j].status = row[j].status
BY DEF RowOK, Row, Rows, SaveSession

\* One step of the processor's thread, action by action.
LEMMA ProcessorKeeps ==
    ASSUME CoreInv, Processor
    PROVE  NeverStarted' /\ CallsMatch' /\ CallsTake' /\ InProgressIsHeld' /\ AtMostOnce'
<1> USE DEF Calling, Running, Executing
<1>1. /\ RowOK /\ Ids \subseteq Int \ {0} /\ nextId \in Int
      /\ call \in [Threads -> Call] /\ starts \in [Ids -> Nat]
      /\ pc \in Calling => call["proc"].item \in Ids /\ call["proc"].item < nextId
  BY DEF CoreInv, TypeOK, QueueTypeOK, CallOK, CallsMatch, Threads, Ids
<1>2. ASSUME ~HeldGone, SaveSession(held.item, sess)
      PROVE  held.item \in Rows /\ \A j \in Ids : row'[j].status = row[j].status
  BY <1>1, <1>2, SaveKeepsStatus DEF HeldGone
<1>3. CASE SetStatusStep("proc") /\ UNCHANGED procVars
  BY <1>3, StatusCallKeeps
<1>4. CASE ProcStart \/ LoopTop \/ AwaitResume \/ ClearCancel \/ NextNode \/ RunNode
  <2>1. /\ UNCHANGED <<row, call, nextId, starts>> /\ pc \notin Calling /\ pc' \notin Calling
        /\ pc \in Running => pc' \in Running /\ UNCHANGED held
    BY <1>4 DEF ProcStart, LoopTop, Die, AwaitResume, ClearCancel, NextNode, RunNode, queueVars
  <2>2. QED BY <2>1, QuietKeeps DEF CoreInv, InProgressIsHeld, AtWorkOn
<1>5. CASE Dequeue
  <2>1. CASE pc' = "top" /\ UNCHANGED call
    BY <1>5, <2>1, QuietKeeps DEF Dequeue, CoreInv, InProgressIsHeld, AtWorkOn
  <2>2. CASE \E i \in NextUp : PlaceCall("dequeuing", i)
    BY <1>5, <2>2, PlacingKeeps DEF Dequeue, NextUp, WithStatus
  <2>3. QED BY <1>5, <2>1, <2>2 DEF Dequeue
<1>6. CASE DequeueReturn
  <2> DEFINE i == call["proc"].item
  <2>1. /\ call'["proc"].pc = "idle" /\ call'["loop"] = call["loop"] /\ UNCHANGED <<row, nextId>>
        /\ pc' \notin Calling
    BY <1>1, <1>6 DEF DequeueReturn, HangUp, NoCall, Threads
  <2>2. i \in Ids /\ i < nextId /\ starts[i] = 0
    BY <1>1, <1>6 DEF DequeueReturn, CoreInv, CallsTake
  <2>3. CASE Returned("proc")
    <3>1. row[i].status # "pending"
      BY <1>6, <2>3 DEF DequeueReturn, Returned, CoreInv, CallsTake
    <3>2. pc' = "clear" /\ held'.item = i /\ starts' = [starts EXCEPT ![i] = @ + 1]
      BY <1>6, <2>3 DEF DequeueReturn, Returned, Raised
    <3>3. NeverStarted' /\ AtMostOnce'
      BY <1>1, <2>1, <2>2, <3>1, <3>2 DEF CoreInv, NeverStarted, AtMostOnce
    <3>4. CallsMatch' /\ CallsTake'
      BY <2>1 DEF CoreInv, CallsMatch, CallsTake
    <3>5. InProgressIsHeld'
      BY <1>6, <2>1, <3>2 DEF DequeueReturn, CoreInv, InProgressIsHeld, AtWorkOn
    <3>6. QED BY <3>3, <3>4, <3>5
  <2>4. CASE Raised("proc")
    <3>1. row[i].status = "absent"
      BY <1>6, <2>4 DEF DequeueReturn, Raised, CoreInv, CallsTake
    <3>2. UNCHANGED <<starts, held>>
      BY <1>6, <2>4 DEF DequeueReturn, Returned, Raised
    <3>3. QED BY <1>6, <2>1, <3>1, <3>2
              DEF DequeueReturn, CoreInv, NeverStarted, CallsMatch, CallsTake, InProgressIsHeld,
                  AtWorkOn, AtMostOnce
  <2>5. QED BY <1>6, <2>3, <2>4 DEF DequeueReturn
<1>7. CASE NodeError
  <2>1. CASE HeldGone
    BY <1>1, <1>7, <2>1, QuietKeeps DEF NodeError, HeldGone, Rows, CoreInv, InProgressIsHeld, AtWorkOn
  <2>2. CASE ~HeldGone
    BY <1>2, <1>7, <2>2, PlacingKeeps DEF NodeError
  <2>3. QED BY <2>1, <2>2
<1>8. CASE AfterRun
  <2>1. CASE HeldGone
    <3>1. UNCHANGED <<row, call, nextId, starts>> /\ pc = "after" /\ pc' = "top"
      BY <1>8, <2>1 DEF AfterRun
    <3>2. \A j \in Ids : row[j].status # "in_progress"
      BY <2>1, <3>1 DEF HeldGone, Rows, CoreInv, InProgressIsHeld, AtWorkOn
    <3>3. QED BY <3>1, <3>2, QuietKeeps
  <2>2. CASE ~HeldGone /\ row[held.item].status \in LeftAlone
    <3>1. /\ UNCHANGED <<call, nextId, starts>> /\ pc = "after" /\ pc' = "top"
          /\ \A j \in Ids : row'[j].status = row[j].status
      BY <1>2, <1>8, <2>2 DEF AfterRun
    <3>2. \A j \in Ids : row[j].status # "in_progress"
      BY <2>2, <3>1 DEF LeftAlone, CoreInv, InProgressIsHeld, AtWorkOn
    <3>3. QED BY <3>1, <3>2, QuietKeeps
  <2>3. CASE ~HeldGone /\ row[held.item].status \notin LeftAlone
    BY <1>2, <1>8, <2>3, PlacingKeeps DEF AfterRun
  <2>4. QED BY <2>1, <2>2, <2>3
<1>9. CASE NonFatal
  <2>1. CASE HeldGone
    <3>1. UNCHANGED <<row, call, nextId, starts>> /\ pc = "nonfatal" /\ pc' \in {"top", "dead"}
      BY <1>9, <2>1 DEF NonFatal, Die
    <3>2. \A j \in Ids : row[j].status # "in_progress"
      BY <2>1, <3>1 DEF HeldGone, Rows, CoreInv, InProgressIsHeld, AtWorkOn
    <3>3. QED BY <3>1, <3>2, QuietKeeps
  <2>2. CASE ~HeldGone
    <3>1. held # NoHeld
      BY <1>1, <2>2 DEF HeldGone, Rows, NoHeld
    <3>2. QED BY <1>2, <1>9, <2>2, <3>1, PlacingKeeps DEF NonFatal
  <2>3. QED BY <2>1, <2>2
<1>10. CASE FailReturn \/ CompleteReturn \/ NonFatalReturn
  <2>1. /\ call'["proc"].pc = "idle" /\ call'["loop"] = call["loop"]
        /\ UNCHANGED <<row, nextId, starts>>
        /\ pc \in Calling \ {"dequeuing"} /\ pc' \notin Calling
        /\ Returned("proc") \/ Raised("proc")
    BY <1>1, <1>10 DEF FailReturn, CompleteReturn, NonFatalReturn, Die, HangUp, NoCall, Threads
  <2>2. row[held.item].status # "in_progress"
    BY <2>1 DEF Returned, Raised, CoreInv, CallsMatch, CallsTake
  <2>3. \A j \in Ids : row[j].status # "in_progress"
    BY <2>1, <2>2 DEF CoreInv, InProgressIsHeld, AtWorkOn
  <2>4. QED BY <2>1, <2>3 DEF CoreInv, NeverStarted, CallsMatch, CallsTake, InProgressIsHeld, AtMostOnce
<1>11. QED
  BY <1>3, <1>4, <1>5, <1>6, <1>7, <1>8, <1>9, <1>10 DEF Processor

\* A restart leaves nothing in progress, and revives nothing.
LEMMA RestartKeeps ==
    ASSUME CoreInv, Restart
    PROVE  NeverStarted' /\ CallsMatch' /\ CallsTake' /\ InProgressIsHeld' /\ AtMostOnce'
<1>1. \A i \in Ids : /\ row'[i].status # "in_progress"
                     /\ row'[i].status = "pending" => row[i].status = "pending"
                     /\ row[i].status = "absent" => row'[i].status = "absent"
  <2>1. \A i \in Ids : row'[i] \in {Interrupted[i], NoRow}
    BY DEF Restart, RestartQueue, StartQueue
  <2>2. \A i \in Ids : Interrupted[i].status = IF row[i].status = "in_progress" THEN "canceled"
                                               ELSE row[i].status
    BY DEF Interrupted, Update, WithStatus, Rows, CoreInv, TypeOK, QueueTypeOK, RowOK, Row
  <2>3. QED BY <2>1, <2>2 DEF NoRow
<1>2. /\ UNCHANGED <<nextId, starts>> /\ pc' = "init"
      /\ \A t \in Threads : call'[t].pc = "idle"
  BY DEF Restart, RestartQueue, NoCall
<1>3. QED BY <1>1, <1>2 DEF CoreInv, NeverStarted, CallsMatch, CallsTake, InProgressIsHeld, AtMostOnce,
              Calling, Threads

LEMMA SafetyInit == Init => CoreInv
<1> SUFFICES ASSUME Init PROVE CoreInv
  OBVIOUS
<1>1. TypeOK
  BY TypeInit
<1>2. /\ \A i \in Ids : row[i].status = "absent" /\ starts[i] = 0
      /\ \A t \in Threads : call[t].pc = "idle"
      /\ pc = "init"
  BY DEF Init, QueueInit, NoRow, NoCall
<1>3. QED BY <1>1, <1>2 DEF CoreInv, NeverStarted, CallsMatch, CallsTake, InProgressIsHeld, AtMostOnce,
              Calling, Threads

LEMMA SafetyStep == CoreInv /\ [Next]_vars => CoreInv'
<1> SUFFICES ASSUME CoreInv, [Next]_vars PROVE CoreInv'
  OBVIOUS
<1>1. TypeOK'
  BY TypeStep DEF CoreInv
<1>2. NeverStarted' /\ CallsMatch' /\ CallsTake' /\ InProgressIsHeld' /\ AtMostOnce'
  <2>1. CASE UNCHANGED vars
    BY <2>1 DEF vars, queueVars, procVars, CoreInv, NeverStarted, CallsMatch, CallsTake, Target,
         InProgressIsHeld, AtWorkOn, AtMostOnce
  <2>2. QED BY <2>1, EventLoopKeeps, ProcessorKeeps, RestartKeeps DEF Next
<1>3. QED BY <1>1, <1>2 DEF CoreInv

\* The core is an invariant by itself.
THEOREM CoreSafety == Spec => []CoreInv
BY SafetyInit, SafetyStep, PTL DEF Spec

\* One session at a time, and no row in progress that nobody runs: of all the rows,
\* only the one the processor is at work on says in_progress.
THEOREM SingleSession == Spec => []InProgressIsHeld
<1>1. CoreInv => InProgressIsHeld
  BY DEF CoreInv
<1>2. QED BY <1>1, CoreSafety, PTL

\* No item is handed to the runner twice, across cancellations, retries, deletions,
\* pauses and restarts.
THEOREM StartedAtMostOnce == Spec => []AtMostOnce
<1>1. CoreInv => AtMostOnce
  BY DEF CoreInv
<1>2. QED BY <1>1, CoreSafety, PTL

-------------------------------------------------------------------------------
(***************************************************************************)
(* What the processor does with an item, proved from the core of the       *)
(* inductive invariant: errors and cancellations are heeded, the order of  *)
(* the queue is kept, progress is not lost, other users' items are left    *)
(* alone, and the whole is a single worker.                                *)
(***************************************************************************)

\* The shapes that the steps below rely on.
LEMMA Shapes ==
    ASSUME CoreInv
    PROVE  /\ row \in [Ids -> Row] /\ starts \in [Ids -> Nat]
           /\ call \in [Threads -> Call] /\ call["proc"] \in Call
           /\ held.item \in Ids \cup {0}
           /\ sess \in [done : Nat, err : BOOLEAN]
           /\ nextId \in Int /\ Ids \subseteq Int \ {0}
           /\ pc \in Calling => call["proc"].item \in Ids
BY ProcessorAssumption
   DEF CoreInv, TypeOK, QueueTypeOK, RowOK, CallOK, CallsMatch, HeldOK, SessOK, Threads, Ids

\* What a step of the event loop leaves of a row that was already there.
LEMMA OldRowFate ==
    ASSUME CoreInv, LoopEffect, NEW i \in Ids, i < nextId
    PROVE  \/ row'[i] = row[i]
           \/ row'[i] = NoRow
           \/ row[i].status # "absent" /\ row'[i].status = "canceled" /\ KeepsButStatus(i)
BY Shapes DEF LoopEffect, Fate

LEMMA StartedIsOld ==
    ASSUME CoreInv, NEW i \in Ids, starts[i] > 0
    PROVE  i < nextId
BY Shapes DEF CoreInv, NeverStarted

\* No step of the event loop disturbs any of it.
LEMMA EventLoopKeepsRest ==
    ASSUME IInv, EventLoop
    PROVE  /\ ErroredNeverCompleted' /\ CanceledRunsOneNode'
           /\ SessionAhead' /\ ErrorsSettle' /\ SnapshotHeeded'
<1>1. LoopEffect /\ CoreInv
  BY EventLoopEffect DEF IInv, CoreInv
<1>2. UNCHANGED <<pc, held, sess, starts>> /\ call'["proc"] = call["proc"]
  BY <1>1 DEF LoopEffect
<1>3. ASSUME NEW i \in Ids
      PROVE  /\ row'[i].status = "completed" => row'[i] = row[i]
             /\ starts[i] = 0 => (row[i].done = 0 /\ ~row[i].err => row'[i].done = 0 /\ ~row'[i].err)
  BY <1>1 DEF LoopEffect, Fate, KeepsButStatus, NoRow
<1>4. ErroredNeverCompleted'
  BY <1>3 DEF IInv, ErroredNeverCompleted
<1>5. CanceledRunsOneNode' /\ SnapshotHeeded'
  BY <1>2 DEF IInv, CanceledRunsOneNode, SnapshotHeeded
<1>6. ASSUME held.item # 0
      PROVE  /\ held.item \in Ids
             /\ \/ row'[held.item] = row[held.item]
                \/ row'[held.item] = NoRow
                \/ /\ row[held.item].status # "absent" /\ row'[held.item].status = "canceled"
                   /\ KeepsButStatus(held.item)
  <2>1. held.item \in Ids /\ starts[held.item] > 0
    BY <1>1, <1>6, Shapes DEF IInv, SessionAhead
  <2>2. QED BY <1>1, <2>1, StartedIsOld, OldRowFate
<1>7. SessionAhead'
  <2>1. \A i \in Ids : starts[i] = 0 => row'[i].done = 0 /\ ~row'[i].err
    BY <1>3 DEF IInv, SessionAhead
  <2>2. ASSUME held.item \in Rows'
        PROVE  row'[held.item].done <= sess.done /\ (row'[held.item].err => sess.err)
    <3>1. held.item # 0 /\ row'[held.item].status # "absent"
      BY <1>1, <2>2, Shapes DEF Rows
    <3>2. row'[held.item].done = row[held.item].done /\ row'[held.item].err = row[held.item].err
          /\ held.item \in Rows
      BY <1>6, <3>1 DEF KeepsButStatus, NoRow, Rows
    <3>3. QED BY <3>2 DEF IInv, SessionAhead
  <2>3. QED BY <1>2, <2>1, <2>2 DEF IInv, SessionAhead
<1>8. ErrorsSettle'
  <2>1. \A i \in Ids : row'[i].status = "completed" => starts[i] > 0
    BY <1>3 DEF IInv, ErrorsSettle
  <2>2. held.item # 0 => \/ row'[held.item].status = row[held.item].status
                         \/ row'[held.item].status \in {"absent", "canceled"}
    BY <1>6 DEF NoRow
  <2>3. pc \in {"failing", "after"} => held.item # 0
    BY DEF IInv, SessionAhead, Executing
  <2>4. QED BY <1>2, <2>1, <2>2, <2>3 DEF IInv, ErrorsSettle, Settled
<1>9. QED BY <1>4, <1>5, <1>7, <1>8

\* Where the processor writes no row and keeps its session, and its item while it
\* answers for one.
LEMMA MovingKeepsRest ==
    ASSUME IInv, UNCHANGED <<row, sess, starts>>,
           held' = held \/ (held' = NoHeld /\ pc' \notin Executing),
           pc' \notin {"dequeuing", "failing", "completing", "nodeError"},
           pc' \in {"clear", "next", "node"} => pc \in {"clear", "next", "node"},
           pc' = "after" => pc \in Executing /\ (sess.err => row[held.item].status \in Settled)
    PROVE  /\ ErroredNeverCompleted' /\ CanceledRunsOneNode'
           /\ SessionAhead' /\ ErrorsSettle' /\ SnapshotHeeded'
<1>1. ErroredNeverCompleted'
  BY DEF IInv, ErroredNeverCompleted
<1>2. CanceledRunsOneNode' /\ SnapshotHeeded'
  BY DEF IInv, CanceledRunsOneNode, SnapshotHeeded, Executing
<1>3. SessionAhead'
  BY DEF IInv, SessionAhead, Executing, NoHeld, Rows, Ids
<1>4. ErrorsSettle'
  BY DEF IInv, ErrorsSettle, Executing, NoHeld
<1>5. QED BY <1>1, <1>2, <1>3, <1>4

\* Where it saves the session of its item, and goes on to settle it or leaves it.
LEMMA SavingKeepsRest ==
    ASSUME IInv, ~HeldGone, SaveSession(held.item, sess), UNCHANGED <<held, sess, starts>>,
           pc' \in {"top", "failing", "completing", "nonfatalFailing"},
           pc' \in Executing => pc \in Executing,
           pc' = "completing" => ~sess.err,
           pc' = "failing" => sess.err /\ call'["proc"].pc = "check"
    PROVE  /\ ErroredNeverCompleted' /\ CanceledRunsOneNode'
           /\ SessionAhead' /\ ErrorsSettle' /\ SnapshotHeeded'
<1> DEFINE h == held.item
<1>1. h \in Ids /\ h # 0 /\ h \in Rows /\ CoreInv
  BY Shapes DEF HeldGone, Rows, IInv
<1>2. /\ \A i \in Ids : row'[i].status = row[i].status
      /\ \A i \in Ids \ {h} : row'[i] = row[i]
      /\ row'[h].done = sess.done /\ row'[h].err = sess.err
  BY <1>1, Shapes DEF SaveSession, Row
<1>3. ErroredNeverCompleted'
  BY <1>1, <1>2 DEF IInv, ErroredNeverCompleted, ErrorsSettle
<1>4. CanceledRunsOneNode' /\ SnapshotHeeded'
  BY DEF IInv, CanceledRunsOneNode, SnapshotHeeded
<1>5. SessionAhead'
  <2>1. starts[h] > 0
    BY <1>1 DEF IInv, SessionAhead
  <2>2. \A i \in Ids : starts[i] = 0 => row'[i].done = 0 /\ ~row'[i].err
    BY <1>1, <1>2, <2>1, Shapes DEF IInv, SessionAhead
  <2>3. QED BY <1>1, <1>2, <2>1, <2>2, Shapes DEF SessionAhead
<1>6. ErrorsSettle'
  BY <1>1, <1>2 DEF IInv, ErrorsSettle
<1>7. QED BY <1>3, <1>4, <1>5, <1>6

\* A transaction of the processor's own status call.
LEMMA StatusCallKeepsRest ==
    ASSUME IInv, SetStatusStep("proc"), UNCHANGED procVars
    PROVE  /\ ErroredNeverCompleted' /\ CanceledRunsOneNode'
           /\ SessionAhead' /\ ErrorsSettle' /\ SnapshotHeeded'
<1> DEFINE i == call["proc"].item
           to == call["proc"].to
           Before == call["proc"].pc
           After == call'["proc"].pc
<1>1. CoreInv /\ UNCHANGED <<pc, held, sess, starts>>
  BY DEF IInv, procVars
<1>2. /\ call'["proc"].item = i /\ Before # "idle" /\ After # "idle"
  BY <1>1, SetStatusCall DEF CoreInv, TypeOK, Threads
<1>3. /\ pc \in Calling /\ i \in Ids /\ to = Target(pc)
      /\ pc # "dequeuing" => i = held.item /\ held.item # 0
  BY <1>1, <1>2, Shapes DEF CoreInv, CallsMatch
<1>4. /\ \A j \in Ids : \/ row'[j] = row[j]
                        \/ /\ j = i /\ row[i].status # "absent" /\ row'[i].status = to
                           /\ KeepsButStatus(i)
      /\ SetStatusWrite("proc") \/ UNCHANGED row
  <2>1. CASE SetStatusWrite("proc")
    BY <1>1, <1>3, <2>1, Shapes DEF SetStatusWrite, Update, Rows, Row, KeepsButStatus
  <2>2. CASE UNCHANGED row
    BY <2>2
  <2>3. QED BY <2>1, <2>2 DEF SetStatusStep, SetStatusCheck, SetStatusRead, SetStatusEmit
<1>5. /\ to \in {"in_progress", "completed", "failed"}
      /\ to = "completed" <=> pc = "completing"
  BY <1>3 DEF Target, Calling
<1>6. /\ \A j \in Ids : /\ row'[j].done = row[j].done /\ row'[j].err = row[j].err
                        /\ row'[j].status = "absent" <=> row[j].status = "absent"
                        /\ row'[j].status = "completed" =>
                              row[j].status = "completed" \/ (j = held.item /\ pc = "completing")
      /\ Rows' = Rows
  BY <1>3, <1>4, <1>5 DEF KeepsButStatus, Rows
<1>7. pc = "completing" => held.item # 0 /\ ~sess.err
  BY <1>3 DEF IInv, ErrorsSettle
<1>8. ErroredNeverCompleted'
  BY <1>6, <1>7 DEF IInv, ErroredNeverCompleted, SessionAhead, Rows
<1>9. CanceledRunsOneNode' /\ SnapshotHeeded'
  BY <1>1 DEF IInv, CanceledRunsOneNode, SnapshotHeeded
<1>10. SessionAhead'
  BY <1>1, <1>6 DEF IInv, SessionAhead, Rows
<1>11. ErrorsSettle'
  <2>1. ASSUME pc = "failing", After \in {"read", "reread", "emit", "done"}
        PROVE  row'[i].status \in Settled
    <3>1. sess.err /\ row[i].status # "completed" /\ to = "failed"
      BY <1>3, <2>1 DEF IInv, ErrorsSettle, Target
    <3>2. CASE SetStatusCheck("proc")
      BY <1>1, <2>1, <3>1, <3>2, Shapes DEF SetStatusCheck, Threads, Call, Finished, Settled
    <3>3. CASE SetStatusWrite("proc")
      BY <1>1, <1>3, <3>1, <3>3, Shapes DEF SetStatusWrite, Update, Rows, Row, Settled
    <3>4. CASE SetStatusRead("proc") \/ SetStatusEmit("proc")
      BY <1>3, <2>1, <3>4 DEF SetStatusRead, SetStatusEmit, IInv, ErrorsSettle
    <3>5. QED BY <3>2, <3>3, <3>4 DEF SetStatusStep
  <2>2. ASSUME pc = "after" PROVE FALSE
    BY <1>3, <2>2 DEF Calling
  <2>3. \A j \in Ids : row'[j].status = "completed" => starts[j] > 0
    BY <1>6, <1>7 DEF IInv, ErrorsSettle, SessionAhead
  <2>4. held.item # 0 /\ (sess.err \/ pc \in {"clear", "next", "node"})
           => row'[held.item].status # "completed"
    BY <1>1, <1>6, <1>7, Shapes DEF IInv, ErrorsSettle
  <2>5. QED BY <1>1, <1>2, <1>3, <2>1, <2>2, <2>3, <2>4 DEF IInv, ErrorsSettle
<1>12. QED BY <1>8, <1>9, <1>10, <1>11

\* One step of the processor's thread, action by action.
LEMMA ProcessorKeepsRest ==
    ASSUME IInv, Processor
    PROVE  /\ ErroredNeverCompleted' /\ CanceledRunsOneNode'
           /\ SessionAhead' /\ ErrorsSettle' /\ SnapshotHeeded'
<1> USE DEF Executing
<1>1. /\ CoreInv /\ sess \in [done : Nat, err : BOOLEAN] /\ starts \in [Ids -> Nat]
      /\ call \in [Threads -> Call] /\ Ids \subseteq Int \ {0}
  BY Shapes DEF IInv
<1>2. CASE SetStatusStep("proc") /\ UNCHANGED procVars
  BY <1>2, StatusCallKeepsRest
<1>3. CASE ProcStart \/ LoopTop \/ AwaitResume \/ ClearCancel
  <2>1. /\ UNCHANGED <<row, sess, starts>> /\ held' \in {held, NoHeld}
        /\ \/ pc' \in {"top", "resume", "dequeue", "dead"}
           \/ pc = "clear" /\ pc' = "next" /\ UNCHANGED held
    BY <1>3 DEF ProcStart, LoopTop, Die, AwaitResume, ClearCancel, queueVars
  <2>2. QED BY <2>1, MovingKeepsRest
<1>4. CASE Dequeue
  <2>1. CASE pc' = "top" /\ held' = NoHeld
    BY <1>4, <2>1, MovingKeepsRest DEF Dequeue
  <2>2. ASSUME NEW i \in NextUp, PlaceCall("dequeuing", i), UNCHANGED held
        PROVE  /\ ErroredNeverCompleted' /\ CanceledRunsOneNode'
               /\ SessionAhead' /\ ErrorsSettle' /\ SnapshotHeeded'
    <3>1. pc' = "dequeuing" /\ call'["proc"].item = i /\ UNCHANGED <<row, sess, starts, held>>
      BY <1>1, <1>4, <2>2 DEF Dequeue, PlaceCall, SetStatus, NoCall, Threads
    <3>2. QED BY <3>1 DEF IInv, ErroredNeverCompleted, CanceledRunsOneNode, SessionAhead, ErrorsSettle,
                SnapshotHeeded, Rows
  <2>3. QED BY <1>4, <2>1, <2>2 DEF Dequeue
<1>5. CASE DequeueReturn
  <2> DEFINE i == call["proc"].item
  <2>1. CASE Raised("proc")
    <3>1. pc' = "nonfatal" /\ UNCHANGED <<row, held, sess, starts>>
      BY <1>5, <2>1 DEF DequeueReturn, Raised, Returned
    <3>2. QED BY <3>1, MovingKeepsRest
  <2>2. CASE Returned("proc")
    <3>1. /\ pc = "dequeuing" /\ pc' = "clear" /\ held'.item = i /\ sess' = NoSession
          /\ starts' = [starts EXCEPT ![i] = @ + 1] /\ UNCHANGED row
      BY <1>5, <2>2 DEF DequeueReturn, Raised, Returned
    <3>2. i \in Ids /\ starts[i] = 0
      BY <1>1, <3>1, Shapes DEF CoreInv, CallsTake, Calling
    <3>3. /\ starts'[i] = 1 /\ \A j \in Ids : j # i => starts'[j] = starts[j]
          /\ i # 0 /\ sess'.done = 0 /\ sess'.err = FALSE
      BY <1>1, <3>1, <3>2 DEF NoSession
    <3>4. row[i].done = 0 /\ ~row[i].err /\ row[i].status # "completed"
      BY <3>2 DEF IInv, SessionAhead, ErrorsSettle
    <3>5. ErroredNeverCompleted' /\ CanceledRunsOneNode' /\ SnapshotHeeded'
      BY <3>1, <3>3 DEF IInv, ErroredNeverCompleted, CanceledRunsOneNode, SnapshotHeeded
    <3>6. SessionAhead'
      <4>1. \A j \in Ids : starts'[j] = 0 => row[j].done = 0 /\ ~row[j].err
        BY <3>3 DEF IInv, SessionAhead
      <4>2. QED BY <3>1, <3>2, <3>3, <3>4, <4>1 DEF SessionAhead, Rows
    <3>7. ErrorsSettle'
      <4>1. \A j \in Ids : row[j].status = "completed" => starts'[j] > 0
        BY <3>3 DEF IInv, ErrorsSettle
      <4>2. QED BY <3>1, <3>3, <3>4, <4>1 DEF ErrorsSettle
    <3>8. QED BY <3>5, <3>6, <3>7
  <2>3. QED BY <1>5, <2>1, <2>2 DEF DequeueReturn
<1>6. CASE NextNode
  <2>1. CASE pc' = "nodeError"
    <3>1. pc = "next" /\ UNCHANGED <<row, call, held, starts>> /\ sess' = [sess EXCEPT !.err = TRUE]
      BY <1>6, <2>1 DEF NextNode, queueVars
    <3>2. sess'.done = sess.done /\ sess'.err = TRUE
      BY <1>1, <3>1
    <3>3. SessionAhead'
      BY <2>1, <3>1, <3>2 DEF IInv, SessionAhead, Rows
    <3>4. ErrorsSettle'
      BY <2>1, <3>1, <3>2 DEF IInv, ErrorsSettle
    <3>5. QED BY <2>1, <3>1, <3>2, <3>3, <3>4
               DEF IInv, ErroredNeverCompleted, CanceledRunsOneNode, SnapshotHeeded
  <2>2. CASE pc' # "nodeError"
    <3>1. /\ pc = "next" /\ UNCHANGED <<row, held, sess, starts>>
          /\ pc' \in {"after", "node", "nonfatal"}
      BY <1>6, <2>2 DEF NextNode, queueVars
    <3>2. ~sess.err
      BY <3>1 DEF IInv, ErrorsSettle
    <3>3. QED BY <3>1, <3>2, MovingKeepsRest
  <2>3. QED BY <2>1, <2>2
<1>7. CASE RunNode
  <2>1. /\ pc = "node" /\ UNCHANGED <<row, call, held, starts>> /\ ~sess.err
        /\ held.item # 0 /\ row[held.item].status # "completed"
    BY <1>7 DEF RunNode, queueVars, IInv, SessionAhead, ErrorsSettle
  <2>2. held.status \in Finished => sess.done = 0
    BY <2>1 DEF IInv, SnapshotHeeded
  <2>3. CASE pc' = "after" /\ UNCHANGED sess
    BY <2>1, <2>3, MovingKeepsRest
  <2>4. CASE /\ sess' = [sess EXCEPT !.done = @ + 1]
             /\ pc' = IF RunEnds(sess.done + 1) THEN "after" ELSE "next"
    <3>1. sess'.done = sess.done + 1 /\ sess'.err = sess.err
      BY <1>1, <2>4
    <3>2. pc' \in {"after", "next"} /\ (held.status \in Finished => pc' = "after")
      BY <2>4 DEF RunEnds
    <3>3. CanceledRunsOneNode' /\ SnapshotHeeded'
      BY <1>1, <2>1, <2>2, <3>1, <3>2 DEF CanceledRunsOneNode, SnapshotHeeded
    <3>4. SessionAhead'
      <4>1. held.item \in Rows => row[held.item].done \in Nat
        BY <1>1, Shapes DEF Rows, Row
      <4>2. QED BY <1>1, <2>1, <3>1, <3>2, <4>1 DEF IInv, SessionAhead, Rows
    <3>5. ErrorsSettle'
      BY <2>1, <3>1, <3>2 DEF IInv, ErrorsSettle
    <3>6. QED BY <2>1, <3>2, <3>3, <3>4, <3>5
               DEF IInv, ErroredNeverCompleted
  <2>5. ASSUME NEW d \in {0, 1}, sess' = [done |-> sess.done + d, err |-> TRUE],
               pc' = "nodeError"
        PROVE  /\ ErroredNeverCompleted' /\ CanceledRunsOneNode'
               /\ SessionAhead' /\ ErrorsSettle' /\ SnapshotHeeded'
    <3>1. sess'.done = sess.done + d /\ sess'.err = TRUE
      BY <2>5
    <3>2. CanceledRunsOneNode' /\ SnapshotHeeded'
      BY <1>1, <2>1, <2>2, <2>5, <3>1 DEF CanceledRunsOneNode, SnapshotHeeded
    <3>3. SessionAhead'
      <4>1. held.item \in Rows => row[held.item].done \in Nat
        BY <1>1, Shapes DEF Rows, Row
      <4>2. QED BY <1>1, <2>1, <2>5, <3>1, <4>1 DEF IInv, SessionAhead, Rows
    <3>4. ErrorsSettle'
      BY <2>1, <2>5, <3>1 DEF IInv, ErrorsSettle
    <3>5. QED BY <2>1, <2>5, <3>2, <3>3, <3>4
               DEF IInv, ErroredNeverCompleted
  <2>6. QED BY <1>7, <2>3, <2>4, <2>5 DEF RunNode
<1>8. CASE NodeError
  <2>1. CASE HeldGone
    BY <1>8, <2>1, MovingKeepsRest DEF NodeError
  <2>2. CASE ~HeldGone
    <3>1. /\ pc = "nodeError" /\ pc' = "failing" /\ SaveSession(held.item, sess)
          /\ UNCHANGED <<held, sess, starts>> /\ call'["proc"].pc = "check"
      BY <1>1, <1>8, <2>2 DEF NodeError, PlaceCall, SetStatus, NoCall, Threads
    <3>2. sess.err
      BY <3>1 DEF IInv, ErrorsSettle
    <3>3. QED BY <2>2, <3>1, <3>2, SavingKeepsRest
  <2>3. QED BY <2>1, <2>2
<1>9. CASE AfterRun
  <2>1. CASE HeldGone
    BY <1>9, <2>1, MovingKeepsRest DEF AfterRun
  <2>2. CASE ~HeldGone
    <3>1. /\ pc = "after" /\ pc' \in {"top", "completing"} /\ SaveSession(held.item, sess)
          /\ UNCHANGED <<held, sess, starts>>
          /\ pc' = "completing" => row[held.item].status \notin LeftAlone
      BY <1>9, <2>2 DEF AfterRun, PlaceCall
    <3>2. pc' = "completing" => ~sess.err
      BY <2>2, <3>1 DEF IInv, ErrorsSettle, Settled, LeftAlone, SessionAhead, HeldGone, Rows,
         CoreInv, TypeOK, HeldOK
    <3>3. QED BY <2>2, <3>1, <3>2, SavingKeepsRest
  <2>3. QED BY <2>1, <2>2
<1>10. CASE NonFatal
  <2>1. CASE HeldGone
    <3>1. /\ pc' \in {"top", "dead"} /\ held' \in {held, NoHeld} /\ UNCHANGED <<row, sess, starts>>
      BY <1>10, <2>1 DEF NonFatal, Die
    <3>2. QED BY <3>1, MovingKeepsRest
  <2>2. CASE ~HeldGone
    <3>1. held # NoHeld
      BY <1>1, <2>2 DEF HeldGone, Rows, NoHeld
    <3>2. /\ pc' = "nonfatalFailing" /\ SaveSession(held.item, sess)
          /\ UNCHANGED <<held, sess, starts>>
      BY <1>10, <2>2, <3>1 DEF NonFatal, PlaceCall
    <3>3. QED BY <2>2, <3>2, SavingKeepsRest
  <2>3. QED BY <2>1, <2>2
<1>11. CASE FailReturn
  <2>1. /\ pc = "failing" /\ pc' \in {"after", "nonfatal"} /\ UNCHANGED <<row, held, sess, starts>>
        /\ pc' = "after" => call["proc"].pc = "done"
    BY <1>11 DEF FailReturn, Returned
  <2>2. QED BY <2>1, MovingKeepsRest DEF IInv, ErrorsSettle
<1>12. CASE CompleteReturn \/ NonFatalReturn
  <2>1. /\ pc' \in {"top", "dead"} /\ held' \in {held, NoHeld} /\ UNCHANGED <<row, sess, starts>>
    BY <1>12 DEF CompleteReturn, NonFatalReturn, Die
  <2>2. QED BY <2>1, MovingKeepsRest
<1>13. QED
  BY <1>2, <1>3, <1>4, <1>5, <1>6, <1>7, <1>8, <1>9, <1>10, <1>11, <1>12 DEF Processor

\* A restart: the rows lose at most their status, and nobody holds an item.
LEMMA RestartKeepsRest ==
    ASSUME IInv, Restart
    PROVE  /\ ErroredNeverCompleted' /\ CanceledRunsOneNode'
           /\ SessionAhead' /\ ErrorsSettle' /\ SnapshotHeeded'
<1>1. row \in [Ids -> Row] /\ Ids \subseteq Int \ {0}
  BY Shapes DEF IInv
<1>2. ASSUME NEW i \in Ids
      PROVE  \/ row'[i] = NoRow
             \/ row'[i] = row[i]
             \/ row[i].status = "in_progress" /\ row'[i].status = "canceled" /\ KeepsButStatus(i)
  <2>1. row'[i] \in {Interrupted[i], NoRow}
    BY DEF Restart, RestartQueue, StartQueue
  <2>2. QED BY <1>1, <2>1 DEF Interrupted, Update, WithStatus, Rows, Row, KeepsButStatus
<1>3. UNCHANGED starts /\ pc' = "init" /\ held'.item = 0
  BY DEF Restart, NoHeld
<1>4. ErroredNeverCompleted'
  BY <1>2 DEF IInv, ErroredNeverCompleted, NoRow
<1>5. SessionAhead'
  BY <1>1, <1>2, <1>3 DEF IInv, SessionAhead, Rows, NoRow, KeepsButStatus, Executing
<1>6. ErrorsSettle'
  BY <1>2, <1>3 DEF IInv, ErrorsSettle, NoRow
<1>7. CanceledRunsOneNode' /\ SnapshotHeeded'
  BY <1>3 DEF CanceledRunsOneNode, SnapshotHeeded, Executing
<1>8. QED BY <1>4, <1>5, <1>6, <1>7

\* Items that are pending and go before the one dequeue has chosen have come since;
\* a step that makes no old item pending, and keeps the priorities, leaves it so.
LEMMA StaysNext ==
    ASSUME ChosenIsNext, UNCHANGED <<pc, chosenAt>>, nextId \in Int, nextId' \in Int,
           chosenAt \in Int, Ids \subseteq Int, nextId <= nextId', call'["proc"].item = call["proc"].item,
           NEW j, j = call["proc"].item, j \in Rows' => (j \in Rows /\ row'[j].prio = row[j].prio),
           \A i \in Ids : row'[i].status = "pending"
               => i >= nextId \/ (row[i].status = "pending" /\ row'[i].prio = row[i].prio)
    PROVE  ChosenIsNext'
<1>1. chosenAt' <= nextId'
  BY DEF ChosenIsNext
<1>2. ASSUME pc = "dequeuing", j \in Rows', NEW i \in Ids, row'[i].status = "pending",
             Precedes(i, j)'
      PROVE  i >= chosenAt
  <2>1. CASE i >= nextId
    BY <1>2, <2>1 DEF ChosenIsNext
  <2>2. CASE row[i].status = "pending" /\ row'[i].prio = row[i].prio
    <3>1. i \in WithStatus({"pending"}) /\ Precedes(i, j)
      BY <1>2, <2>2 DEF WithStatus, Rows, Precedes
    <3>2. QED BY <1>2, <3>1 DEF ChosenIsNext, NoneGoesBefore
  <2>3. QED BY <1>2, <2>1, <2>2
<1>3. pc = "dequeuing" /\ j \in Rows' => NoneGoesBefore(j)'
  BY <1>2 DEF NoneGoesBefore, WithStatus, Rows
<1>4. QED BY <1>1, <1>3 DEF ChosenIsNext

\* No step of either thread makes an item that was there go before the chosen one.
LEMMA ChosenStaysNext ==
    ASSUME IInv, [Next]_vars
    PROVE  ChosenIsNext'
<1>1. /\ CoreInv /\ row \in [Ids -> Row] /\ nextId \in Int /\ Ids \subseteq Int
      /\ chosenAt \in Nat /\ ChosenIsNext
  BY Shapes DEF IInv, CoreInv, TypeOK
<1>2. CASE EventLoop
  <2>1. LoopEffect
    BY <1>1, <1>2, EventLoopEffect DEF CoreInv
  <2>2. nextId' \in Int /\ nextId <= nextId' /\ call'["proc"] = call["proc"]
        /\ UNCHANGED <<pc, chosenAt>>
    BY <2>1 DEF LoopEffect
  <2>3. ASSUME NEW i \in Ids, row'[i].status = "pending"
        PROVE  i >= nextId \/ (row[i].status = "pending" /\ row'[i].prio = row[i].prio)
    BY <1>1, <2>1, <2>3, OldRowFate DEF NoRow
  <2>4. CASE pc = "dequeuing"
    <3>1. call["proc"].item \in Ids /\ call["proc"].item < nextId
      BY <1>1, <2>4, Shapes DEF CoreInv, CallsMatch, Calling
    <3>2. call["proc"].item \in Rows' => /\ call["proc"].item \in Rows
                                         /\ row'[call["proc"].item].prio = row[call["proc"].item].prio
      BY <1>1, <2>1, <3>1, OldRowFate DEF Rows, NoRow, KeepsButStatus
    <3>3. UNCHANGED pc /\ UNCHANGED chosenAt /\ call'["proc"].item = call["proc"].item /\ chosenAt \in Int
      BY <1>1, <2>2
    <3>4. QED BY <1>1, <2>2, <2>3, <3>2, <3>3, StaysNext
  <2>5. CASE pc # "dequeuing"
    BY <1>1, <2>2, <2>5 DEF ChosenIsNext
  <2>6. QED BY <2>4, <2>5
<1>3. CASE SetStatusStep("proc") /\ UNCHANGED procVars
  <2>1. UNCHANGED <<nextId, pc, chosenAt>>
    BY <1>3 DEF SetStatusStep, SetStatusCheck, SetStatusWrite, SetStatusRead, SetStatusEmit, procVars
  <2>2. call'["proc"].item = call["proc"].item /\ call["proc"].pc # "idle"
    BY <1>1, <1>3, SetStatusCall DEF CoreInv, TypeOK, Threads
  <2>3. call["proc"].to \in {"in_progress", "completed", "failed"}
    BY <1>1, <2>2 DEF CoreInv, CallsMatch, Target, Calling
  <2>4. \A i \in Ids : /\ row'[i].prio = row[i].prio
                       /\ row'[i].status = "absent" => row[i].status = "absent"
                       /\ row'[i].status = "pending" => row[i].status = "pending"
                       /\ row[i].status = "absent" => row'[i].status = "absent"
    <3>1. CASE SetStatusWrite("proc")
      BY <1>1, <2>3, <3>1 DEF SetStatusWrite, Update, Rows, Row
    <3>2. CASE UNCHANGED row
      BY <3>2
    <3>3. QED BY <1>3, <3>1, <3>2 DEF SetStatusStep, SetStatusCheck, SetStatusRead, SetStatusEmit
  <2>5. call["proc"].item \in Rows' => /\ call["proc"].item \in Rows
                                       /\ row'[call["proc"].item].prio = row[call["proc"].item].prio
    BY <2>4 DEF Rows
  <2>6. QED BY <1>1, <2>1, <2>2, <2>4, <2>5, StaysNext
<1>4. CASE Dequeue
  <2>1. CASE UNCHANGED chosenAt /\ pc' = "top" /\ nextId' = nextId
    BY <1>1, <2>1 DEF ChosenIsNext
  <2>2. ASSUME NEW i \in NextUp, PlaceCall("dequeuing", i), chosenAt' = nextId
        PROVE  ChosenIsNext'
    <3>1. pc' = "dequeuing" /\ call'["proc"].item = i /\ UNCHANGED <<row, nextId>>
      BY <1>1, <1>4, <2>2, Shapes DEF Dequeue, PlaceCall, SetStatus, NoCall, Threads
    <3>2. i \in Rows /\ row[i].prio \in Nat /\ i \in Int
      BY <1>1, <2>2 DEF NextUp, WithStatus, Rows, Row
    <3>3. \A k \in WithStatus({"pending"}) : ~Precedes(k, i)
      <4>1. ASSUME NEW k \in WithStatus({"pending"})
            PROVE  k \in Int /\ row[k].prio \in Nat
        BY <1>1, <4>1 DEF WithStatus, Rows, Row
      <4>2. \A k \in WithStatus({"pending"}) :
               row[k].prio < row[i].prio \/ (row[k].prio = row[i].prio /\ i <= k)
        BY <2>2 DEF NextUp
      <4>3. QED BY <3>2, <4>1, <4>2 DEF Precedes
    <3>4. NoneGoesBefore(i)'
      BY <3>1, <3>3 DEF NoneGoesBefore, Precedes, WithStatus, Rows
    <3>5. nextId # 0
      BY <1>1 DEF CoreInv, TypeOK, QueueTypeOK
    <3>6. QED BY <1>1, <2>2, <3>1, <3>4, <3>5 DEF ChosenIsNext
  <2>3. QED BY <1>4, <2>1, <2>2 DEF Dequeue
<1>5. CASE DequeueReturn \/ Restart
  <2>1. chosenAt' = 0 /\ pc' # "dequeuing" /\ nextId' \in Nat
    BY <1>1, <1>5, TypeStep
       DEF DequeueReturn, Restart, CoreInv, TypeOK, QueueTypeOK, Raised, Returned
  <2>2. QED BY <2>1 DEF ChosenIsNext
<1>6. CASE UNCHANGED vars
  BY <1>1, <1>6 DEF vars, queueVars, procVars, ChosenIsNext, NoneGoesBefore, Precedes, WithStatus, Rows
<1>7. CASE \/ ProcStart \/ LoopTop \/ AwaitResume \/ ClearCancel \/ NextNode \/ RunNode \/ NodeError
           \/ FailReturn \/ AfterRun \/ CompleteReturn \/ NonFatal \/ NonFatalReturn
  <2>1. pc' # "dequeuing" /\ UNCHANGED <<nextId, chosenAt>>
    BY <1>7 DEF ProcStart, LoopTop, AwaitResume, ClearCancel, NextNode, RunNode, NodeError, FailReturn,
       AfterRun, CompleteReturn, NonFatal, NonFatalReturn, Die, PlaceCall, queueVars
  <2>2. QED BY <1>1, <2>1 DEF ChosenIsNext
<1>8. QED BY <1>2, <1>3, <1>4, <1>5, <1>6, <1>7 DEF Next, Processor

-------------------------------------------------------------------------------
(***************************************************************************)
(* Whose rows a request may write.                                         *)
(***************************************************************************)

\* A row its user may act on is not another user's.
LEMMA MineIsOwn ==
    ASSUME NEW u \in Callers, NEW i \in Mine(u)
    PROVE  i \in Rows /\ i \notin Others
BY DEF Mine, Others

\* An item that is not another user's does not become one.
LEMMA StaysOwn ==
    ASSUME CoreInv, LoopEffect, NEW i, i < nextId, i \notin Others
    PROVE  i \notin Others'
<1>1. SUFFICES ASSUME i \in Others' PROVE FALSE
  OBVIOUS
<1>2. i \in Ids /\ row'[i].status # "absent"
  BY <1>1 DEF Others, Rows
<1>3. row[i].status # "absent" /\ row'[i].batch = row[i].batch
  BY <1>2, OldRowFate DEF NoRow, KeepsButStatus
<1>4. QED BY <1>1, <1>2, <1>3 DEF Others, Rows

\* The rows that are there are not those an INSERT adds.
LEMMA InsertLeaves ==
    ASSUME nextId \in Int, NEW n \in Nat, NEW new \in [1 .. n -> Fresh], Insert(new),
           NEW i \in Ids, i < nextId
    PROVE  row'[i] = row[i]
<1>1. Len(new) = n
  BY FunctionIsSeq
<1>2. i \notin nextId .. nextId + n - 1
  OBVIOUS
<1>3. QED BY <1>1, <1>2 DEF Insert

\* The first step of a request writes rows of its user only, and remembers them.
LEMMA RequestIsOwn ==
    ASSUME IInv, Request, UNCHANGED procVars
    PROVE  OwnRequests' /\ \A i \in Others : row'[i] = row[i]
<1>1. CoreInv /\ LoopEffect /\ call \in [Threads -> Call] /\ row \in [Ids -> Row]
  BY EventLoopEffect, Shapes DEF IInv, CoreInv, EventLoop
<1>2. \A i \in Rows : i \in Ids /\ i < nextId
  BY <1>1, Shapes DEF CoreInv, NeverStarted, Rows
<1>3. Others \subseteq Rows
  BY DEF Others
<1>4. ASSUME NEW S, \A i \in Others : i \notin S,
             row' = Delete(S) \/ \E st : row' = Update(S, st)
      PROVE  \A i \in Others : row'[i] = row[i]
  BY <1>3, <1>4 DEF Delete, Update, Rows
<1>5. ASSUME NEW u \in Callers, NEW i \in Mine(u),
             call' = [call EXCEPT !["loop"] = SetStatus(i, "canceled")]
      PROVE  call'["loop"].item < nextId' /\ call'["loop"].item \notin Others'
  <2>1. call'["loop"].item = i
    BY <1>1, <1>5 DEF SetStatus, NoCall, Threads
  <2>2. i \in Ids /\ i < nextId /\ i \notin Others
    BY <1>2, <1>5, MineIsOwn
  <2>3. QED BY <1>1, <2>1, <2>2, StaysOwn, Shapes DEF LoopEffect
<1>6. ASSUME UNCHANGED call, call["loop"].pc # "idle"
      PROVE  call'["loop"].item < nextId' /\ call'["loop"].item \notin Others'
  <2>1. call["loop"].item \in Ids /\ call["loop"].item < nextId /\ call["loop"].item \notin Others
    BY <1>1, <1>6 DEF IInv, OwnRequests, CoreInv, TypeOK, QueueTypeOK, CallOK, Threads
  <2>2. QED BY <1>1, <1>6, <2>1, StaysOwn, Shapes DEF LoopEffect
<1>7. loop.pc = "idle"
  BY DEF Request, CancelQueueItem, DeleteQueueItem, CancelByBatchIds, CancelByDestination,
     DeleteByDestination, CancelAllExceptCurrent, DeleteAllExceptCurrent, Prune, ClearQueue,
     RetryItemsById, EnqueueSize, Serves
<1>8. CASE \E i \in Ids, u \in Callers : CancelQueueItem(i, u)
  BY <1>5, <1>8 DEF CancelQueueItem, Handling, IdleLoop, OwnRequests
<1>9. CASE \E i \in Ids, u \in Callers : DeleteQueueItem(i, u)
  <2>1. PICK i \in Ids, u \in Callers : DeleteQueueItem(i, u)
    BY <1>9
  <2>2. /\ i \in Mine(u) /\ call' = [call EXCEPT !["loop"] = SetStatus(i, "canceled")]
        /\ loop'.item = i /\ loop'.pc = "delete" /\ UNCHANGED <<row, nextId>>
    BY <2>1 DEF DeleteQueueItem, IdleLoop
  <2>3. i < nextId /\ i \notin Others'
    BY <1>1, <1>2, <2>2, MineIsOwn, StaysOwn
  <2>4. QED BY <1>5, <2>2, <2>3 DEF OwnRequests
<1>10. ASSUME NEW q, NEW u \in Callers, NEW Match, CancelMatching(q, u, Match)
       PROVE  OwnRequests' /\ \A i \in Others : row'[i] = row[i]
  <2>1. \A i \in Others : row'[i] = row[i]
    BY <1>4, <1>10, MineIsOwn DEF CancelMatching
  <2>2. CASE UNCHANGED <<call, loop>>
    BY <1>6, <1>7, <2>1, <2>2 DEF OwnRequests
  <2>3. CASE \E c \in Current(q) \cap Match \cap Mine(u) :
               /\ call' = [call EXCEPT !["loop"] = SetStatus(c, "canceled")]
               /\ Handling("cancel")
    BY <1>5, <2>1, <2>3 DEF Handling, IdleLoop, OwnRequests
  <2>4. QED BY <1>10, <2>2, <2>3 DEF CancelMatching
<1>11. CASE \E q \in Queues, u \in Callers : \E b \in Batches :
             CancelByBatchIds(q, u, {b.id}) \/ CancelByDestination(q, u, b.dest)
  BY <1>10, <1>11 DEF CancelByBatchIds, CancelByDestination
<1>12. CASE \E q \in Queues, u \in Callers :
              \/ \E b \in Batches : DeleteByDestination(q, u, b.dest)
              \/ CancelAllExceptCurrent(q, u) \/ DeleteAllExceptCurrent(q, u) \/ Prune(q, u)
  <2>1. PICK q \in Queues, u \in Callers :
              \/ \E b \in Batches : DeleteByDestination(q, u, b.dest)
              \/ CancelAllExceptCurrent(q, u) \/ DeleteAllExceptCurrent(q, u) \/ Prune(q, u)
    BY <1>12
  <2>2. UNCHANGED <<call, loop>>
        /\ \E S : /\ S \subseteq Mine(u)
                  /\ row' = Delete(S) \/ \E st : row' = Update(S, st)
    <3>1. CASE \E b \in Batches : DeleteByDestination(q, u, b.dest)
      BY <3>1 DEF DeleteByDestination
    <3>2. CASE CancelAllExceptCurrent(q, u)
      BY <3>2 DEF CancelAllExceptCurrent
    <3>3. CASE DeleteAllExceptCurrent(q, u)
      BY <3>3 DEF DeleteAllExceptCurrent
    <3>4. CASE Prune(q, u)
      BY <3>4 DEF Prune
    <3>5. QED BY <2>1, <3>1, <3>2, <3>3, <3>4
  <2>3. \A i \in Others : row'[i] = row[i]
    BY <1>4, <2>2, MineIsOwn
  <2>4. QED BY <1>6, <1>7, <2>2, <2>3 DEF OwnRequests
<1>13. CASE \E q \in Queues, u \in Callers : ClearQueue(q, u)
  <2>1. PICK q \in Queues, u \in Callers : ClearQueue(q, u)
    BY <1>13
  <2>2. loop'.pc = "clear" /\ loop'.user = u /\ UNCHANGED row
    BY <2>1 DEF ClearQueue, IdleLoop
  <2>3. UNCHANGED call \/ \E c \in Mine(u) : call' = [call EXCEPT !["loop"] = SetStatus(c, "canceled")]
    BY <2>1 DEF ClearQueue
  <2>4. QED BY <1>5, <1>6, <2>2, <2>3 DEF OwnRequests
<1>14. CASE \E n \in 1 .. MaxSessions : \E from \in [1 .. n -> Ids], u \in Callers :
              RetryItemsById(from, u)
  <2>1. UNCHANGED <<call, loop>>
    BY <1>14 DEF RetryItemsById
  <2>2. \A i \in Others : row'[i] = row[i]
    <3>1. PICK n \in Nat : \E new \in [1 .. n -> Fresh] : Insert(new)
      BY <1>1, <1>14, RetryInserts DEF CoreInv, TypeOK
    <3>2. PICK new \in [1 .. n -> Fresh] : Insert(new)
      BY <3>1
    <3>3. nextId \in Int /\ \A i \in Others : i \in Ids /\ i < nextId
      BY <1>1, <1>2, <1>3, Shapes
    <3>4. QED BY <3>2, <3>3, InsertLeaves
  <2>3. QED BY <1>6, <1>7, <2>1, <2>2 DEF OwnRequests
<1>15. CASE \E r \in Requests, b \in Batches, n \in 1 .. MaxSessions, prepend \in BOOLEAN :
              EnqueueSize(r, b, n, prepend)
  <2>1. UNCHANGED <<row, call>> /\ (UNCHANGED loop \/ Handling("enqueue"))
    BY <1>15 DEF EnqueueSize
  <2>2. QED BY <1>6, <1>7, <2>1 DEF OwnRequests, Handling, IdleLoop
<1>16. QED
  BY <1>8, <1>9, <1>11, <1>12, <1>13, <1>14, <1>15 DEF Request

\* So does the rest of a request, whatever ran since its first step, and so do the
\* handlers, pause, resume and stop.
LEMMA EventLoopIsOwn ==
    ASSUME IInv, EventLoop
    PROVE  OwnRequests' /\ \A i \in Others : row'[i] = row[i]
<1>1. CoreInv /\ LoopEffect /\ call \in [Threads -> Call] /\ row \in [Ids -> Row]
  BY EventLoopEffect, Shapes DEF IInv, CoreInv
<1>2. \A i \in Others : i \in Rows /\ i \in Ids /\ i < nextId
  BY <1>1, Shapes DEF CoreInv, NeverStarted, Rows, Others
<1>3. nextId \in Int /\ nextId' \in Int /\ nextId <= nextId'
  BY <1>1, Shapes DEF LoopEffect
<1>4. ASSUME call["loop"].pc # "idle"
      PROVE  /\ call["loop"].item \in Ids /\ call["loop"].item < nextId
             /\ call["loop"].item < nextId' /\ call["loop"].item \notin Others
             /\ call["loop"].item \notin Others'
  <2>1. call["loop"].item \in Ids /\ call["loop"].item < nextId /\ call["loop"].item \notin Others
    BY <1>1, <1>4 DEF IInv, OwnRequests, CoreInv, TypeOK, QueueTypeOK, CallOK, Threads
  <2>2. QED BY <1>1, <1>3, <2>1, StaysOwn, Shapes
<1>5. ASSUME loop.pc = "delete"
      PROVE  /\ loop.item < nextId' /\ loop.item \notin Others /\ loop.item \notin Others'
  <2>1. loop.item < nextId /\ loop.item \notin Others /\ loop.item \in Int
    BY <1>1, <1>5 DEF IInv, OwnRequests, CoreInv, TypeOK, QueueTypeOK, LoopOK, Ids
  <2>2. QED BY <1>1, <1>3, <2>1, StaysOwn
<1>6. CASE Request /\ UNCHANGED procVars
  BY <1>6, RequestIsOwn
<1>7. CASE SetStatusStep("loop")
  <2>1. call["loop"].pc # "idle" /\ call'["loop"].item = call["loop"].item
    BY <1>1, <1>7, SetStatusCall DEF CoreInv, TypeOK, Threads
  <2>2. UNCHANGED loop
    BY <1>7 DEF SetStatusStep, SetStatusCheck, SetStatusWrite, SetStatusRead, SetStatusEmit
  <2>3. OwnRequests'
    BY <1>4, <1>5, <2>1, <2>2 DEF IInv, OwnRequests
  <2>4. \A i \in Others : row'[i] = row[i]
    <3>1. CASE SetStatusWrite("loop")
      BY <1>2, <1>4, <2>1, <3>1 DEF SetStatusWrite, Update
    <3>2. CASE UNCHANGED row
      BY <3>2
    <3>3. QED BY <1>7, <3>1, <3>2 DEF SetStatusStep, SetStatusCheck, SetStatusRead, SetStatusEmit
  <2>5. QED BY <2>3, <2>4
<1>8. CASE CancelReturn \/ DeleteReturn \/ ClearReturn
  <2>1. call'["loop"].pc = "idle" /\ loop'.pc = "idle"
    BY <1>1, <1>8 DEF CancelReturn, DeleteReturn, ClearReturn, NoCall, Handling, IdleLoop, Threads
  <2>2. \A i \in Others : row'[i] = row[i]
    <3>1. CASE CancelReturn
      BY <3>1 DEF CancelReturn
    <3>2. CASE DeleteReturn
      BY <1>2, <1>5, <3>2 DEF DeleteReturn, Delete
    <3>3. CASE ClearReturn
      <4>1. loop.user \in Callers
        BY <3>3 DEF ClearReturn, IInv, OwnRequests
      <4>2. QED BY <1>2, <3>3, <4>1, MineIsOwn DEF ClearReturn, Delete
    <3>4. QED BY <1>8, <3>1, <3>2, <3>3
  <2>3. QED BY <2>1, <2>2 DEF OwnRequests
<1>9. CASE \E r \in Requests : EnqueuePriority(r) \/ EnqueueInsert(r)
  <2>1. UNCHANGED call /\ (UNCHANGED loop \/ Handling("idle"))
    BY <1>9 DEF EnqueuePriority, EnqueueInsert
  <2>2. OwnRequests'
    BY <1>4, <1>5, <2>1 DEF IInv, OwnRequests, Handling, IdleLoop
  <2>3. \A i \in Others : row'[i] = row[i]
    <3>1. CASE \E r \in Requests : EnqueuePriority(r)
      BY <3>1 DEF EnqueuePriority
    <3>2. CASE \E r \in Requests : EnqueueInsert(r)
      <4>1. PICK n \in Nat : \E new \in [1 .. n -> Fresh] : Insert(new)
        BY <1>1, <3>2, EnqueueInserts DEF CoreInv, TypeOK
      <4>2. PICK new \in [1 .. n -> Fresh] : Insert(new)
        BY <4>1
      <4>3. QED BY <1>2, <1>3, <4>2, InsertLeaves
    <3>3. QED BY <1>9, <3>1, <3>2
  <2>4. QED BY <2>2, <2>3
<1>10. CASE Handler \/ Resume \/ Pause \/ Stop
  <2>1. UNCHANGED <<row, call>>
    BY <1>10 DEF Handler, HandleEvent, HandleCanceled, HandleSet, Resume, Pause, Stop, procVars,
       queueVars
  <2>2. UNCHANGED loop \/ loop'.pc \in {"idle", "canceled", "set"}
    <3>1. CASE HandleEvent
      <4>1. Head(events) \in Event
        BY <1>1, <3>1, HeadTailProperties DEF HandleEvent, CoreInv, TypeOK, QueueTypeOK
      <4>2. AfterTest[Head(events).type] \in {"set", "canceled"}
        BY <4>1 DEF Event, AfterTest
      <4>3. QED BY <3>1, <4>2 DEF HandleEvent, Handling, IdleLoop
    <3>2. CASE HandleCanceled \/ HandleSet
      BY <3>2 DEF HandleCanceled, HandleSet, Handling, IdleLoop
    <3>3. CASE Resume \/ Pause \/ Stop
      BY <3>3 DEF Resume, Pause, Stop, queueVars
    <3>4. QED BY <1>10, <3>1, <3>2, <3>3 DEF Handler
  <2>3. QED BY <1>4, <1>5, <2>1, <2>2 DEF IInv, OwnRequests
<1>11. QED
  BY <1>6, <1>7, <1>8, <1>9, <1>10 DEF EventLoop, Continue

\* The processor's steps and a restart leave the event loop's business as it is, or end it.
LEMMA OthersIsOwn ==
    ASSUME IInv, Processor \/ Restart
    PROVE  OwnRequests'
<1>1. CoreInv /\ call \in [Threads -> Call] /\ row \in [Ids -> Row]
  BY Shapes DEF IInv
<1>2. CASE Restart
  BY <1>2 DEF Restart, RestartQueue, NoCall, IdleLoop, OwnRequests, Threads
<1>3. CASE Processor
  <2>1. UNCHANGED <<loop, nextId>> /\ call'["loop"] = call["loop"]
    <3>1. CASE SetStatusStep("proc")
      BY <1>1, <3>1, SetStatusCall DEF CoreInv, TypeOK, Threads, SetStatusStep, SetStatusCheck,
         SetStatusWrite, SetStatusRead, SetStatusEmit
    <3>2. CASE ~SetStatusStep("proc")
      <4>1. UNCHANGED <<loop, nextId>> /\ (UNCHANGED call \/ \E c : call' = [call EXCEPT !["proc"] = c])
        BY <1>3, <3>2 DEF Processor, ProcStart, LoopTop, AwaitResume, Dequeue, DequeueReturn,
           ClearCancel, NextNode, RunNode, NodeError, FailReturn, AfterRun, CompleteReturn,
           NonFatal, NonFatalReturn, PlaceCall, HangUp, queueVars
      <4>2. QED BY <1>1, <4>1 DEF Threads
    <3>3. QED BY <3>1, <3>2
  <2>2. \A i \in Rows' : i \in Rows /\ row'[i].batch = row[i].batch
    <3>1. ASSUME NEW i \in Rows, NEW s, SaveSession(i, s)
          PROVE  \A j \in Rows' : j \in Rows /\ row'[j].batch = row[j].batch
      BY <1>1, <3>1 DEF SaveSession, Row, Rows
    <3>2. CASE SetStatusWrite("proc")
      BY <1>1, <3>2 DEF SetStatusWrite, Update, Row, Rows
    <3>3. CASE ~HeldGone /\ SaveSession(held.item, sess)
      BY <3>1, <3>3 DEF HeldGone
    <3>4. CASE UNCHANGED row
      BY <3>4 DEF Rows
    <3>5. held = NoHeld => HeldGone
      BY <1>1, Shapes DEF NoHeld, HeldGone, Rows
    <3>6. QED
      BY <1>3, <3>2, <3>3, <3>4, <3>5
         DEF Processor, SetStatusStep, SetStatusCheck, SetStatusRead, SetStatusEmit, ProcStart,
             LoopTop, AwaitResume, Dequeue, DequeueReturn, ClearCancel, NextNode, RunNode,
             NodeError, FailReturn, AfterRun, CompleteReturn, NonFatal, NonFatalReturn, queueVars
  <2>3. Others' \subseteq Others
    BY <2>2 DEF Others
  <2>4. QED BY <2>1, <2>3 DEF IInv, OwnRequests
<1>4. QED BY <1>2, <1>3

-------------------------------------------------------------------------------
(***************************************************************************)
(* The inductive invariant, and what follows from it.                      *)
(***************************************************************************)
LEMMA InvariantInit == Init => IInv
<1> SUFFICES ASSUME Init PROVE IInv
  OBVIOUS
<1>1. CoreInv
  BY SafetyInit
<1>2. /\ \A i \in Ids : /\ row[i].status = "absent" /\ row[i].done = 0 /\ row[i].err = FALSE
                        /\ starts[i] = 0
      /\ Rows = {} /\ pc = "init" /\ held.item = 0
      /\ call["loop"].pc = "idle" /\ loop.pc = "idle" /\ chosenAt = 0 /\ nextId = 1
  BY DEF Init, QueueInit, NoRow, NoCall, NoHeld, IdleLoop, Rows, Threads
<1>3. ErroredNeverCompleted /\ CanceledRunsOneNode
  BY <1>2 DEF ErroredNeverCompleted, CanceledRunsOneNode, Executing
<1>4. SessionAhead /\ ErrorsSettle /\ SnapshotHeeded /\ ChosenIsNext /\ OwnRequests
  BY <1>2 DEF SessionAhead, ErrorsSettle, SnapshotHeeded, ChosenIsNext, OwnRequests, Executing
<1>5. QED BY <1>1, <1>3, <1>4 DEF IInv

LEMMA InvariantStep == IInv /\ [Next]_vars => IInv'
<1> SUFFICES ASSUME IInv, [Next]_vars PROVE IInv'
  OBVIOUS
<1>1. CoreInv'
  BY SafetyStep DEF IInv
<1>2. ChosenIsNext'
  BY ChosenStaysNext
<1>3. CASE Next
  <2>1. /\ ErroredNeverCompleted' /\ CanceledRunsOneNode'
        /\ SessionAhead' /\ ErrorsSettle' /\ SnapshotHeeded'
    BY <1>3, EventLoopKeepsRest, ProcessorKeepsRest, RestartKeepsRest DEF Next
  <2>2. OwnRequests'
    BY <1>3, EventLoopIsOwn, OthersIsOwn DEF Next
  <2>3. QED BY <1>1, <1>2, <2>1, <2>2 DEF IInv
<1>4. CASE UNCHANGED vars
  <2>1. UNCHANGED <<row, nextId, call, loop, pc, held, sess, starts>>
    BY <1>4 DEF vars, queueVars, procVars
  <2>2. ErroredNeverCompleted' /\ CanceledRunsOneNode'
    BY <2>1 DEF IInv, ErroredNeverCompleted, CanceledRunsOneNode
  <2>3. SessionAhead' /\ ErrorsSettle' /\ SnapshotHeeded' /\ OwnRequests'
    BY <2>1 DEF IInv, SessionAhead, ErrorsSettle, SnapshotHeeded, OwnRequests, Others, Rows
  <2>4. QED BY <1>1, <1>2, <2>2, <2>3 DEF IInv
<1>5. QED BY <1>3, <1>4

\* All that the inductive invariant says holds in every state, for every number of
\* items, nodes, users, queues, requests and restarts.
THEOREM Safety == Spec => []IInv
BY InvariantInit, InvariantStep, PTL DEF Spec

\* A session with a node error never ends as completed (_on_node_error and
\* _on_after_run_session, in four transactions).
THEOREM ErrorsHeeded == Spec => []ErroredNeverCompleted
<1>1. IInv => ErroredNeverCompleted
  BY DEF IInv
<1>2. QED BY <1>1, Safety, PTL

\* An item canceled before dequeue returned it runs one node at most (run).
THEOREM CancellationHeeded == Spec => []CanceledRunsOneNode
<1>1. IInv => CanceledRunsOneNode
  BY DEF IInv
<1>2. QED BY <1>1, Safety, PTL

\* Items are taken by priority and then by age, across queues: when an item is handed
\* to the runner, whatever is pending and goes before it was inserted after dequeue
\* had chosen (dequeue selects in one transaction and marks the item in others).
THEOREM OrderKept == Spec => NoOvertaking
<1>1. ASSUME IInv, [Next]_vars
      PROVE  [\A j \in Rows : starts'[j] > starts[j] => chosenAt # 0 /\ NoneGoesBefore(j)]_vars
  <2>1. CoreInv /\ starts \in [Ids -> Nat] /\ ChosenIsNext
    BY <1>1, Shapes DEF IInv
  <2>2. SUFFICES ASSUME NEW j \in Rows, starts'[j] > starts[j]
                 PROVE  chosenAt # 0 /\ NoneGoesBefore(j)
    OBVIOUS
  <2>3. starts' # starts /\ j \in Ids
    BY <2>1, <2>2 DEF Rows
  <2>4. CASE EventLoop
    BY <2>1, <2>3, <2>4, EventLoopEffect DEF LoopEffect, CoreInv
  <2>5. CASE Processor /\ ~DequeueReturn
    BY <2>3, <2>5
       DEF Processor, procVars, ProcStart, LoopTop, AwaitResume, Dequeue, ClearCancel, NextNode,
           RunNode, NodeError, FailReturn, AfterRun, CompleteReturn, NonFatal, NonFatalReturn
  <2>6. CASE DequeueReturn
    <3>1. pc = "dequeuing" /\ starts' = [starts EXCEPT ![call["proc"].item] = @ + 1]
      BY <2>3, <2>6 DEF DequeueReturn
    <3>2. j = call["proc"].item
      BY <2>1, <2>2, <2>3, <3>1
    <3>3. QED BY <2>1, <2>2, <3>1, <3>2 DEF ChosenIsNext
  <2>7. QED BY <1>1, <2>3, <2>4, <2>5, <2>6 DEF Next, Restart, vars, procVars
<1>2. QED BY <1>1, Safety, PTL DEF Spec, NoOvertaking

\* A request of one user neither cancels nor deletes an item of another, however its
\* transactions interleave with the processor's and with other requests'.
THEOREM OthersLeftAlone == Spec => OthersUntouched
<1>1. ASSUME IInv, [Next]_vars
      PROVE  [restarts' = restarts => \A i \in Others :
                row'[i].status \notin {"absent", "canceled"} \ {row[i].status}]_row
  <2>1. CoreInv /\ row \in [Ids -> Row] /\ restarts \in Nat
    BY <1>1, Shapes, ProcessorAssumption DEF IInv, CoreInv, TypeOK
  <2>2. SUFFICES ASSUME row' # row, restarts' = restarts, NEW i \in Others
                 PROVE  row'[i].status \notin {"absent", "canceled"} \ {row[i].status}
    OBVIOUS
  <2>3. i \in Rows /\ i \in Ids
    BY DEF Others, Rows
  <2>4. CASE EventLoop
    BY <1>1, <2>4, EventLoopIsOwn
  <2>5. CASE Processor
    <3>1. CASE SetStatusWrite("proc")
      <4>1. call["proc"].to \in {"in_progress", "completed", "failed"}
        BY <2>1, <3>1 DEF SetStatusWrite, CoreInv, CallsMatch, Target, Calling
      <4>2. QED BY <2>1, <2>3, <3>1, <4>1 DEF SetStatusWrite, Update, Row
    <3>2. CASE ~HeldGone /\ SaveSession(held.item, sess)
      BY <2>1, <2>3, <3>2, SaveKeepsStatus DEF HeldGone, CoreInv, TypeOK, QueueTypeOK
    <3>3. held = NoHeld => HeldGone
      BY <2>1, Shapes DEF NoHeld, HeldGone, Rows
    <3>4. QED
      BY <2>2, <2>5, <3>1, <3>2, <3>3
         DEF Processor, SetStatusStep, SetStatusCheck, SetStatusRead, SetStatusEmit, ProcStart,
             LoopTop, AwaitResume, Dequeue, DequeueReturn, ClearCancel, NextNode, RunNode,
             NodeError, FailReturn, AfterRun, CompleteReturn, NonFatal, NonFatalReturn, queueVars
  <2>6. ~Restart
    BY <2>1, <2>2 DEF Restart
  <2>7. QED BY <1>1, <2>2, <2>4, <2>5, <2>6 DEF Next, vars, queueVars
<1>2. QED BY <1>1, Safety, PTL DEF Spec, OthersUntouched

\* The session saved with an item never goes back, the one saved after a dequeue that
\* raised included (_on_non_fatal_processor_error).
THEOREM ProgressKept == Spec => SavedProgressKept
<1>1. ASSUME IInv, [Next]_vars
      PROVE  [\A i \in Rows : row'[i].status # "absent"
                => row'[i].done >= row[i].done /\ (row[i].err => row'[i].err)]_row
  <2>1. CoreInv /\ row \in [Ids -> Row]
    BY <1>1, Shapes DEF IInv
  <2>2. SUFFICES ASSUME row' # row, NEW i \in Rows, row'[i].status # "absent"
                 PROVE  row'[i].done >= row[i].done /\ (row[i].err => row'[i].err)
    OBVIOUS
  <2>3. i \in Ids /\ row[i] \in Row /\ i < nextId
    BY <2>1, Shapes DEF Rows, CoreInv, NeverStarted
  <2>4. CASE row'[i] = row[i] \/ KeepsButStatus(i)
    BY <2>3, <2>4 DEF Row, KeepsButStatus
  <2>5. CASE EventLoop
    <3>1. LoopEffect
      BY <2>1, <2>5, EventLoopEffect DEF CoreInv
    <3>2. QED BY <2>1, <2>2, <2>3, <2>4, <3>1, OldRowFate DEF NoRow
  <2>6. CASE Processor
    <3>1. CASE SetStatusWrite("proc")
      BY <2>1, <2>3, <2>4, <3>1 DEF SetStatusWrite, Update, Row, KeepsButStatus
    <3>2. CASE ~HeldGone /\ SaveSession(held.item, sess)
      <4>1. CASE i = held.item
        <5>1. row'[i].done = sess.done /\ row'[i].err = sess.err
          BY <2>1, <2>3, <3>2, <4>1 DEF SaveSession, Row
        <5>2. row[i].done <= sess.done /\ (row[i].err => sess.err)
          BY <1>1, <4>1 DEF IInv, SessionAhead
        <5>3. sess.done \in Nat /\ row[i].done \in Nat
          BY <2>1, <2>3, Shapes DEF Row
        <5>4. QED BY <5>1, <5>2, <5>3
      <4>2. CASE i # held.item
        BY <2>1, <2>3, <2>4, <3>2, <4>2 DEF SaveSession
      <4>3. QED BY <4>1, <4>2
    <3>3. held = NoHeld => HeldGone
      BY <2>1, Shapes DEF NoHeld, HeldGone, Rows
    <3>4. QED
      BY <2>2, <2>6, <3>1, <3>2, <3>3
         DEF Processor, SetStatusStep, SetStatusCheck, SetStatusRead, SetStatusEmit, ProcStart,
             LoopTop, AwaitResume, Dequeue, DequeueReturn, ClearCancel, NextNode, RunNode,
             NodeError, FailReturn, AfterRun, CompleteReturn, NonFatal, NonFatalReturn, queueVars
  <2>7. CASE Restart
    <3>1. row'[i] \in {Interrupted[i], NoRow}
      BY <2>3, <2>7 DEF Restart, RestartQueue, StartQueue
    <3>2. row'[i] = Interrupted[i]
      BY <2>2, <3>1 DEF NoRow
    <3>3. row'[i] = row[i] \/ KeepsButStatus(i)
      BY <2>1, <2>3, <3>2 DEF Interrupted, Update, Row, KeepsButStatus
    <3>4. QED BY <2>4, <3>3
  <2>8. QED BY <1>1, <2>2, <2>5, <2>6, <2>7 DEF Next, vars, queueVars
<1>2. QED BY <1>1, Safety, PTL DEF Spec, SavedProgressKept

-------------------------------------------------------------------------------
(***************************************************************************)
(* The queue and its processor are a single worker.  A dequeue that        *)
(* returned is the contract's Take; the end of the item, or of the         *)
(* process, is its Release; every other step is a stutter.                 *)
(***************************************************************************)
LEMMA WorkerInit == Init => Worker!ContractInit
BY DEF Init, Executing, Worker!ContractInit

\* A step that hands out no item.
LEMMA WorkerGoesOn ==
    ASSUME IInv, UNCHANGED starts, pc' \in Executing => pc \in Executing /\ held' = held
    PROVE  [Worker!ContractNext]_(Worker!contractVars)
<1>1. CASE pc' \in Executing
  BY <1>1 DEF Worker!contractVars
<1>2. CASE pc \notin Executing
  BY <1>2 DEF Worker!contractVars
<1>3. CASE pc \in Executing /\ pc' \notin Executing
  <2>1. held.item # 0
    BY <1>3 DEF IInv, SessionAhead
  <2>2. Worker!Release
    BY <1>3, <2>1 DEF Worker!Release
  <2>3. QED BY <2>2 DEF Worker!ContractNext
<1>4. QED BY <1>1, <1>2, <1>3

LEMMA WorkerStep == IInv /\ [Next]_vars => [Worker!ContractNext]_(Worker!contractVars)
<1> SUFFICES ASSUME IInv, [Next]_vars PROVE [Worker!ContractNext]_(Worker!contractVars)
  OBVIOUS
<1>1. CoreInv /\ starts \in [Ids -> Nat]
  BY Shapes DEF IInv
<1>2. CASE DequeueReturn /\ Returned("proc")
  <2>1. PICK i \in Ids : i = call["proc"].item /\ starts[i] = 0
    BY <1>1, <1>2, Shapes DEF DequeueReturn, CoreInv, CallsTake, Calling
  <2>2. /\ pc = "dequeuing" /\ pc' = "clear" /\ held'.item = i
        /\ starts' = [starts EXCEPT ![i] = @ + 1]
    BY <1>2, <2>1 DEF DequeueReturn, Raised, Returned
  <2>3. starts'[i] = 1 /\ \A j \in Ids : j # i => starts'[j] = starts[j]
    BY <1>1, <2>1, <2>2
  <2>4. {j \in Ids : starts'[j] > 0} = {j \in Ids : starts[j] > 0} \cup {i}
    BY <2>1, <2>3
  <2>5. i \notin {j \in Ids : starts[j] > 0}
    BY <2>1
  <2>6. pc \notin Executing /\ pc' \in Executing
    BY <2>2 DEF Executing
  <2>7. Worker!Take(i)
    BY <2>2, <2>4, <2>5, <2>6 DEF Worker!Take
  <2>8. QED BY <2>1, <2>7 DEF Worker!ContractNext
<1>3. CASE DequeueReturn /\ ~Returned("proc")
  <2>1. pc' = "nonfatal" /\ UNCHANGED starts
    BY <1>3 DEF DequeueReturn
  <2>2. QED BY <2>1, WorkerGoesOn DEF Executing
<1>4. CASE EventLoop
  BY <1>4, EventLoopEffect, WorkerGoesOn DEF LoopEffect, IInv, CoreInv
<1>5. CASE Restart \/ UNCHANGED vars
  BY <1>5, WorkerGoesOn DEF Restart, Executing, vars, procVars
<1>6. CASE Processor /\ ~DequeueReturn
  <2>1. UNCHANGED starts
    BY <1>6 DEF Processor, procVars, ProcStart, LoopTop, AwaitResume, Dequeue, ClearCancel,
       NextNode, RunNode, NodeError, FailReturn, AfterRun, CompleteReturn, NonFatal, NonFatalReturn
  <2>2. CASE SetStatusStep("proc") /\ UNCHANGED procVars
    BY <2>1, <2>2, WorkerGoesOn DEF procVars
  <2>3. CASE ProcStart \/ LoopTop \/ AwaitResume \/ Dequeue \/ CompleteReturn \/ NonFatal
             \/ NonFatalReturn
    <3>1. pc' \notin Executing
      BY <2>3 DEF ProcStart, LoopTop, Die, AwaitResume, Dequeue, CompleteReturn, NonFatal,
         NonFatalReturn, PlaceCall, Executing
    <3>2. QED BY <2>1, <3>1, WorkerGoesOn
  <2>4. CASE ClearCancel \/ NextNode \/ RunNode \/ NodeError \/ FailReturn \/ AfterRun
    <3>1. pc \in Executing /\ held' = held
      BY <2>4 DEF ClearCancel, NextNode, RunNode, NodeError, FailReturn, AfterRun, Executing
    <3>2. QED BY <2>1, <3>1, WorkerGoesOn
  <2>5. QED BY <1>6, <2>2, <2>3, <2>4 DEF Processor
<1>7. QED BY <1>2, <1>3, <1>4, <1>5, <1>6 DEF Next

\* The queue and the processor keep the single worker's contract: one job at a time,
\* none of them twice.  (That every job is let go of is liveness, which TLC checks.)
THEOREM ContractKept == Spec => Worker!Contract
BY WorkerInit, WorkerStep, Safety, PTL DEF Spec, Worker!Contract
===================================================================================
