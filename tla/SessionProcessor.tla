---------------------------- MODULE SessionProcessor ----------------------------
(***************************************************************************)
(* The session processor: the one thread that dequeues an item, runs the   *)
(* nodes of its graph one by one and settles it (DefaultSessionProcessor   *)
(* and DefaultSessionRunner), the event handlers by which a cancellation   *)
(* reaches it, and its pause, resume and stop.  Composed with the queue:   *)
(* the thread's calls into the queue are the "proc" calls of SessionQueue. *)
(*                                                                         *)
(* A session is what the queue and the processor tell apart of it: how     *)
(* many of its Nodes ran, and whether one of them has an error.            *)
(* poll_now_event.wait(polling_interval), after an empty dequeue or an      *)
(* error, is a wait with a timeout and changes nothing: it is left out.    *)
(***************************************************************************)
EXTENDS SessionQueue

CONSTANTS
    Nodes,          \* invocations in a session
    MaxRestarts     \* bound: crashes or shutdowns followed by a new process

ASSUME ProcessorAssumption == Nodes \in Nat /\ MaxRestarts \in Nat

VARIABLES
    pc,          \* where the processor's thread is
    held,        \* self._queue_item: the snapshot dequeue returned
    sess,        \* held's session object, in memory
    cancelEvent, stopEvent, resumeEvent,
    restarts,    \* how often the process was started again
    starts,      \* history: how often each item was handed to the session runner
    chosenAt     \* history: nextId when dequeue chose the item it is about to return, or 0

procVars == <<pc, held, sess, cancelEvent, stopEvent, resumeEvent, restarts, starts, chosenAt>>
vars == <<queueVars, procVars>>

NoHeld == [item |-> 0, status |-> "absent", batch |-> NoBatch]
NoSession == [done |-> 0, err |-> FALSE]

\* Where the processor answers for held: from the dequeue's return to the item's end.
Executing == {"clear", "next", "node", "nodeError", "failing", "after", "completing"}
Running == Executing \cup {"nonfatal", "nonfatalFailing"}
\* Where it is inside a _set_queue_item_status call, and what the call is to write.
Calling == {"dequeuing", "failing", "completing", "nonfatalFailing"}
TargetSwapped(p) == IF p = "dequeuing" THEN "in_progress" ELSE "completed"  \* mutated form

Target(p) == CASE p = "dequeuing"  -> "in_progress"
               [] p = "completing" -> "completed"
               [] OTHER            -> "failed"

PlaceCall(p, i) ==
    /\ pc' = p
    /\ call' = [call EXCEPT !["proc"] = SetStatus(i, Target(p))]
HangUp == call' = [call EXCEPT !["proc"] = NoCall]

\* set_queue_item_session: the session is written if the row is still there.
SaveSession(i, s) ==
    row' = [row EXCEPT ![i] = [row[i] EXCEPT !.done = s.done, !.err = s.err]]
\* GraphExecutionState.is_complete, without an error, and next() giving None.
IsComplete(done) == done = Nodes

HeldGone == held.item \notin Rows

-------------------------------------------------------------------------------
\* The first lines of _process.
ProcStart ==
    /\ pc = "init"
    /\ pc' = "top"
    /\ stopEvent' = FALSE /\ resumeEvent' = TRUE /\ cancelEvent' = FALSE
    /\ UNCHANGED <<queueVars, held, sess, restarts, starts, chosenAt>>

\* The end of the thread, by stop() or by a fatal error: the `finally` block.
Die ==
    /\ pc' = "dead"
    /\ held' = NoHeld
    /\ stopEvent' = FALSE

\* `while not stop_event.is_set()`
LoopTop ==
    /\ pc = "top"
    /\ \/ /\ ~stopEvent
          /\ pc' = "resume"
          /\ UNCHANGED <<held, stopEvent>>
       \/ stopEvent /\ Die
    /\ UNCHANGED <<queueVars, sess, cancelEvent, resumeEvent, restarts, starts, chosenAt>>

AwaitResume ==
    /\ pc = "resume"
    /\ resumeEvent
    /\ pc' = "dequeue"
    /\ UNCHANGED <<queueVars, held, sess, cancelEvent, stopEvent, resumeEvent, restarts, starts, chosenAt>>

\* dequeue's SELECT: the highest priority first, then the oldest, whatever the queue.
\* Mutated forms: the oldest first; whatever its status.
OldestFirst == {i \in WithStatus({"pending"}) : \A j \in WithStatus({"pending"}) : i <= j}
AnyStatus == {i \in Rows : \A j \in Rows :
                row[j].prio < row[i].prio \/ (row[j].prio = row[i].prio /\ i <= j)}

NextUp == {i \in WithStatus({"pending"}) :
             \A j \in WithStatus({"pending"}) :
                row[j].prio < row[i].prio \/ (row[j].prio = row[i].prio /\ i <= j)}

Dequeue ==
    /\ pc = "dequeue"
    /\ \/ /\ WithStatus({"pending"}) = {}
          /\ held' = NoHeld
          /\ pc' = "top"
          /\ UNCHANGED <<call, chosenAt>>
       \/ \E i \in NextUp :
            /\ PlaceCall("dequeuing", i)
            /\ chosenAt' = nextId
            /\ UNCHANGED held
    /\ UNCHANGED <<row, nextId, loop, req, events, serving,
                   sess, cancelEvent, stopEvent, resumeEvent, restarts, starts>>

\* self._queue_item = dequeue(): the call returned an item, or raised (NotFound).
DequeueReturn ==
    /\ pc = "dequeuing"
    /\ LET i == call["proc"].item IN
       \/ /\ Returned("proc")
          /\ pc' = "clear"
          /\ held' = [item |-> i, status |-> call["proc"].status, batch |-> call["proc"].batch]
          /\ sess' = NoSession
          /\ starts' = [starts EXCEPT ![i] = @ + 1]
       \/ /\ Raised("proc")
          /\ pc' = "nonfatal"
          /\ UNCHANGED <<held, sess, starts>>
    /\ HangUp
    /\ chosenAt' = 0
    /\ UNCHANGED <<row, nextId, loop, req, events, serving,
                   cancelEvent, stopEvent, resumeEvent, restarts>>

ClearCancel ==
    /\ pc = "clear"
    /\ pc' = "next"
    /\ cancelEvent' = FALSE
    /\ UNCHANGED <<queueVars, held, sess, stopEvent, resumeEvent, restarts, starts, chosenAt>>

\* run: session.next() gives a node, gives none, finds a node whose inputs do
\* not validate (NodeInputError), or raises anything else.
NextNode ==
    /\ pc = "next"
    /\ \/ /\ IsComplete(sess.done) \/ cancelEvent
          /\ pc' = "after"
          /\ UNCHANGED sess
       \/ /\ ~IsComplete(sess.done) /\ ~cancelEvent
          /\ pc' = "node"
          /\ UNCHANGED sess
       \/ /\ ~IsComplete(sess.done)
          /\ pc' = "nodeError"
          /\ sess' = [sess EXCEPT !.err = TRUE]
       \/ /\ ~IsComplete(sess.done)
          /\ pc' = "nonfatal"
          /\ UNCHANGED sess
    /\ UNCHANGED <<queueVars, held, cancelEvent, stopEvent, resumeEvent, restarts, starts, chosenAt>>

\* run_node and the test after it: the node completes, raises (before or after
\* session.complete), or stops with a CanceledException.
RunEndsUnlessStatus(done) == IsComplete(done) \/ cancelEvent  \* mutated form

RunEnds(done) == IsComplete(done) \/ cancelEvent \/ held.status \in Finished

RunNode ==
    /\ pc = "node"
    /\ \/ /\ sess' = [sess EXCEPT !.done = @ + 1]
          /\ pc' = IF RunEnds(sess.done + 1) THEN "after" ELSE "next"
       \/ \E d \in {0, 1} :
            /\ sess' = [done |-> sess.done + d, err |-> TRUE]
            /\ pc' = "nodeError"
       \/ /\ cancelEvent
          /\ pc' = "after"
          /\ UNCHANGED sess
    /\ UNCHANGED <<queueVars, held, cancelEvent, stopEvent, resumeEvent, restarts, starts, chosenAt>>

\* _on_node_error, up to its fail_queue_item call; NotFound leaves the runner.
NodeError ==
    /\ pc = "nodeError"
    /\ \/ /\ HeldGone
          /\ pc' = "nonfatal"
          /\ UNCHANGED <<row, call>>
       \/ /\ ~HeldGone
          /\ SaveSession(held.item, sess)
          /\ PlaceCall("failing", held.item)
    /\ UNCHANGED <<nextId, loop, req, events, serving,
                   held, sess, cancelEvent, stopEvent, resumeEvent, restarts, starts, chosenAt>>

FailReturn ==
    /\ pc = "failing"
    /\ \/ Returned("proc") /\ pc' = "after"
       \/ Raised("proc") /\ pc' = "nonfatal"
    /\ HangUp
    /\ UNCHANGED <<row, nextId, loop, req, events, serving,
                   held, sess, cancelEvent, stopEvent, resumeEvent, restarts, starts, chosenAt>>

\* Mutated form: an item in progress is left as it is.
LeftAlsoInProgress == {"canceled", "failed", "in_progress"}
LeftAlone == {"canceled", "failed"}

\* Mutated form: saves the session as it was dequeued.
AfterRunSavesSnapshot ==
    /\ pc = "after"
    /\ \/ HeldGone /\ pc' = "top" /\ UNCHANGED <<row, call>>
       \/ /\ ~HeldGone
          /\ SaveSession(held.item, NoSession)
          /\ IF row[held.item].status \in LeftAlone
             THEN pc' = "top" /\ UNCHANGED call
             ELSE PlaceCall("completing", held.item)
    /\ UNCHANGED <<nextId, loop, req, events, serving,
                   held, sess, cancelEvent, stopEvent, resumeEvent, restarts, starts, chosenAt>>

\* _on_after_run_session, which ignores an item that was removed meanwhile.
AfterRun ==
    /\ pc = "after"
    /\ \/ /\ HeldGone
          /\ pc' = "top"
          /\ UNCHANGED <<row, call>>
       \/ /\ ~HeldGone
          /\ SaveSession(held.item, sess)
          /\ IF row[held.item].status \in LeftAlone
             THEN pc' = "top" /\ UNCHANGED call
             ELSE PlaceCall("completing", held.item)
    /\ UNCHANGED <<nextId, loop, req, events, serving,
                   held, sess, cancelEvent, stopEvent, resumeEvent, restarts, starts, chosenAt>>

CompleteReturn ==
    /\ pc = "completing"
    /\ Returned("proc") \/ Raised("proc")
    /\ pc' = "top"
    /\ HangUp
    /\ UNCHANGED <<row, nextId, loop, req, events, serving,
                   held, sess, cancelEvent, stopEvent, resumeEvent, restarts, starts, chosenAt>>

\* _on_non_fatal_processor_error: an exception of its own is a fatal error.  After
\* a dequeue that raised, self._queue_item is still the previous item.
NonFatal ==
    /\ pc = "nonfatal"
    /\ \/ /\ held = NoHeld
          /\ pc' = "top"
          /\ UNCHANGED <<row, call, held, stopEvent>>
       \/ /\ held # NoHeld /\ HeldGone
          /\ Die
          /\ UNCHANGED <<row, call>>
       \/ /\ ~HeldGone
          /\ SaveSession(held.item, sess)
          /\ PlaceCall("nonfatalFailing", held.item)
          /\ UNCHANGED <<held, stopEvent>>
    /\ UNCHANGED <<nextId, loop, req, events, serving,
                   sess, cancelEvent, resumeEvent, restarts, starts, chosenAt>>

NonFatalReturn ==
    /\ pc = "nonfatalFailing"
    /\ \/ Returned("proc") /\ pc' = "top" /\ UNCHANGED <<held, stopEvent>>
       \/ Raised("proc") /\ Die
    /\ HangUp
    /\ UNCHANGED <<row, nextId, loop, req, events, serving,
                   sess, cancelEvent, resumeEvent, restarts, starts, chosenAt>>

Processor ==
    \/ SetStatusStep("proc") /\ UNCHANGED procVars
    \/ ProcStart \/ LoopTop \/ AwaitResume \/ Dequeue \/ DequeueReturn \/ ClearCancel
    \/ NextNode \/ RunNode \/ NodeError \/ FailReturn \/ AfterRun \/ CompleteReturn
    \/ NonFatal \/ NonFatalReturn

-------------------------------------------------------------------------------
(***************************************************************************)
(* The event handlers, on the event loop's thread.  They read              *)
(* self._queue_item once to compare the item, once more to see that there  *)
(* is one, and then set the event; the processor may run in between.       *)
(***************************************************************************)
Concerns(e) ==
    IF e.type = "cleared" THEN held # NoHeld /\ held.batch.queue = e.queue
    ELSE held.item \in {0, e.item}

AfterTest == [cleared |-> "set", canceled |-> "canceled"]

HandleEvent ==
    /\ loop.pc = "idle"
    /\ events # <<>>
    /\ LET e == Head(events) IN
       Handling(IF Concerns(e) THEN AfterTest[e.type] ELSE "idle")
    /\ events' = Tail(events)
    /\ UNCHANGED <<row, nextId, call, req, serving, procVars>>

HandleCanceled ==
    /\ loop.pc = "canceled"
    /\ Handling(IF held # NoHeld THEN "set" ELSE "idle")
    /\ UNCHANGED <<row, nextId, call, req, events, serving, procVars>>

HandleSet ==
    /\ loop.pc = "set"
    /\ cancelEvent' = TRUE
    /\ Handling("idle")
    /\ UNCHANGED <<row, nextId, call, req, events, serving,
                   pc, held, sess, stopEvent, resumeEvent, restarts, starts, chosenAt>>

Handler == HandleEvent \/ HandleCanceled \/ HandleSet

\* resume() and pause(); before the thread's first lines they have nothing to act on.
Resume ==
    /\ Serves("resume")
    /\ resumeEvent' = TRUE
    /\ UNCHANGED <<queueVars, pc, held, sess, cancelEvent, stopEvent, restarts, starts, chosenAt>>

Pause ==
    /\ Serves("pause")
    /\ resumeEvent' = FALSE
    /\ UNCHANGED <<queueVars, pc, held, sess, cancelEvent, stopEvent, restarts, starts, chosenAt>>

\* Mutated form: a paused thread is not woken.
StopWithoutResume ==
    /\ Serves("stop")
    /\ \A r \in Requests : req[r].pc = "idle"
    /\ serving' = FALSE
    /\ stopEvent' = TRUE /\ cancelEvent' = TRUE
    /\ UNCHANGED <<row, nextId, call, loop, req, events, pc, held, sess, resumeEvent,
                   restarts, starts, chosenAt>>

\* stop(), when the application shuts down: no request is in flight.
Stop ==
    /\ Serves("stop")
    /\ \A r \in Requests : req[r].pc = "idle"
    /\ serving' = FALSE
    /\ stopEvent' = TRUE /\ cancelEvent' = TRUE /\ resumeEvent' = TRUE
    /\ UNCHANGED <<row, nextId, call, loop, req, events, pc, held, sess, restarts, starts, chosenAt>>

\* The process ends, anywhere, and a new one starts on the same database.
Restart ==
    /\ restarts < MaxRestarts
    /\ RestartQueue
    /\ restarts' = restarts + 1
    /\ pc' = "init"
    /\ held' = NoHeld
    /\ sess' = NoSession
    /\ cancelEvent' = FALSE /\ stopEvent' = FALSE /\ resumeEvent' = FALSE
    /\ chosenAt' = 0
    /\ UNCHANGED starts

Init ==
    /\ QueueInit
    /\ pc = "init"
    /\ held = NoHeld
    /\ sess = NoSession
    /\ cancelEvent = FALSE /\ stopEvent = FALSE /\ resumeEvent = FALSE
    /\ restarts = 0
    /\ starts = [i \in Ids |-> 0]
    /\ chosenAt = 0

EventLoop ==
    \/ (Request \/ Continue) /\ UNCHANGED procVars
    \/ Handler \/ Resume \/ Pause \/ Stop

Next == Processor \/ EventLoop \/ Restart

Spec == Init /\ [][Next]_vars

\* The processor's thread keeps running.  Nothing is assumed of the event loop,
\* of requests, pauses, shutdowns or crashes.
Fairness == WF_vars(Processor)
FairSpec == Spec /\ Fairness
-------------------------------------------------------------------------------
ProcPc == {"init", "top", "resume", "dequeue", "dequeuing", "dead"} \cup Running

HeldOK ==
    /\ held \in [item : Ids \cup {0}, status : Status \cup {"absent"},
                 batch : Batches \cup {NoBatch}]
    /\ held.item # 0 => held.batch \in Batches
SessOK ==
    /\ sess \in [done : 0 .. Nodes, err : BOOLEAN]
    /\ pc = "node" => sess.done < Nodes
EventsOK ==
    cancelEvent \in BOOLEAN /\ stopEvent \in BOOLEAN /\ resumeEvent \in BOOLEAN

\* Type invariant of the composition of the queue and its processor.
TypeOK ==
    /\ QueueTypeOK
    /\ pc \in ProcPc
    /\ HeldOK /\ SessOK /\ EventsOK
    /\ restarts \in 0 .. MaxRestarts
    /\ starts \in [Ids -> Nat]
    /\ chosenAt \in 0 .. MaxItems + 1

(***************************************************************************)
(* "This class is responsible for ensuring that only one session is        *)
(* executing at a time" (session_processor_base.py).  A row that says      *)
(* in_progress is the processor's own item, and the processor is still at  *)
(* work on it: no path, a deletion or an error among them, leaves a row in *)
(* progress that nobody runs, and no restart leaves one behind.            *)
(***************************************************************************)
AtWorkOn(i) ==
    \/ pc \in Running /\ held.item = i
    \/ pc = "dequeuing" /\ call["proc"].item = i
InProgressIsHeld == \A i \in Ids : row[i].status = "in_progress" => AtWorkOn(i)

(***************************************************************************)
(* An item is handed to the session runner at most once, whatever is       *)
(* canceled, retried, deleted or killed: _set_in_progress_to_canceled, run *)
(* at startup, cancels what a killed process had begun, and a retry is a   *)
(* row of its own.                                                         *)
(***************************************************************************)
AtMostOnce == \A i \in Ids : starts[i] <= 1

\* A session with a node error never ends as completed, although the session is
\* saved in one transaction and the item failed in two more, and the completion
\* after it only tests the status (_on_node_error, then _on_after_run_session).
ErroredNeverCompleted ==
    \A i \in Ids : row[i].err => row[i].status # "completed"

\* An item whose cancellation was already in the row that dequeue returned runs
\* one node at most, even when its event can no longer be heeded: `run` tests the
\* status of its snapshot after each node.
CanceledRunsOneNode ==
    pc \in Executing /\ held.status \in Finished => sess.done <= 1

(***************************************************************************)
(* The inductive invariant.  Its core is what TypeOK, InProgressIsHeld and *)
(* AtMostOnce need.                                                        *)
(***************************************************************************)
\* Item ids are not used again, and a pending item was never started.
NeverStarted ==
    \A i \in Ids : /\ i >= nextId => row[i].status = "absent"
                   /\ i >= nextId \/ row[i].status = "pending" => starts[i] = 0

\* The processor's thread is inside a status call exactly where _process and the
\* runner make one, for that item and that status; the event loop's thread only
\* ever cancels.
CallsMatch ==
    /\ pc \in Calling <=> call["proc"].pc # "idle"
    /\ pc \in Calling => /\ call["proc"].to = Target(pc)
                         /\ call["proc"].item < nextId
                         /\ pc # "dequeuing" => call["proc"].item = held.item
    /\ call["loop"].pc # "idle" => call["loop"].to = "canceled"

\* What the write of the processor's call leaves behind: a dequeued row is no
\* longer pending and was not yet run; a settled one is no longer in progress;
\* a call that raised found no row, and there will be none.
CallsTake ==
    LET c == call["proc"] IN
    pc \in Calling =>
        /\ pc = "dequeuing" => starts[c.item] = 0
        /\ c.pc \in {"read", "reread", "emit", "done"} =>
              row[c.item].status # IF pc = "dequeuing" THEN "pending" ELSE "in_progress"
        /\ c.pc = "raised" => row[c.item].status = "absent"

CoreInv == /\ TypeOK /\ NeverStarted /\ CallsMatch /\ CallsTake
           /\ InProgressIsHeld /\ AtMostOnce

\* An item that never started has an empty session; the session in memory is at
\* least as far as the one that was saved.
SessionAhead ==
    /\ \A i \in Ids : starts[i] = 0 => row[i].done = 0 /\ ~row[i].err
    /\ pc \in Executing => held.item # 0
    /\ held.item # 0 => starts[held.item] > 0
    /\ held.item \in Rows => row[held.item].done <= sess.done /\ (row[held.item].err => sess.err)

\* Where a node error leads: the item is neither completed, nor will it be.
Settled == {"failed", "canceled", "absent"}
ErrorsSettle ==
    /\ \A i \in Ids : row[i].status = "completed" => starts[i] > 0
    /\ held.item # 0 /\ (sess.err \/ pc \in {"clear", "next", "node"})
          => row[held.item].status # "completed"
    /\ pc \in {"clear", "next", "node", "completing"} => ~sess.err
    /\ pc \in {"nodeError", "failing"} => sess.err
    /\ \/ pc = "failing" /\ call["proc"].pc \in {"read", "reread", "emit", "done"}
       \/ pc = "after" /\ sess.err
       => row[held.item].status \in Settled

\* What CanceledRunsOneNode takes.
SnapshotHeeded ==
    pc \in {"clear", "next", "node"} /\ held.status \in Finished => sess.done = 0

\* What NoOvertaking takes: so it is while the item is being dequeued.
Precedes(i, j) == row[i].prio > row[j].prio \/ (row[i].prio = row[j].prio /\ i < j)
NoneGoesBefore(j) == \A i \in WithStatus({"pending"}) : Precedes(i, j) => i >= chosenAt
ChosenIsNext ==
    /\ chosenAt <= nextId
    /\ pc = "dequeuing" => chosenAt # 0 /\ (call["proc"].item \in Rows => NoneGoesBefore(call["proc"].item))

\* Whose rows a request writes that goes on in a later transaction.
Others == {i \in Rows : AnyUser \notin Callers /\ row[i].batch.user \notin Callers}
OwnRequests ==
    /\ call["loop"].pc # "idle" => call["loop"].item < nextId /\ call["loop"].item \notin Others
    /\ loop.pc = "delete" => loop.item < nextId /\ loop.item \notin Others
    /\ loop.pc = "clear" => loop.user \in Callers

IInv == /\ CoreInv
        /\ ErroredNeverCompleted /\ CanceledRunsOneNode
        /\ SessionAhead /\ ErrorsSettle /\ SnapshotHeeded /\ ChosenIsNext /\ OwnRequests

\* A request of a user who is not an admin neither cancels nor deletes another
\* user's item, although the operations read the item, its owner and the current
\* item in one transaction and write in a later one (the user_id parameters and
\* the 403 tests of the routes).  A restart asks nobody.
OthersUntouched ==
    [][restarts' = restarts
        => \A i \in Others : row'[i].status \notin {"absent", "canceled"} \ {row[i].status}]_row

\* Items are taken by priority and then by age, across queues, although dequeue
\* selects in one transaction and marks in another: when one is handed to the
\* runner, what is still pending and goes before it came after that choice.
NoOvertaking ==
    [][\A j \in Rows : starts'[j] > starts[j] => chosenAt # 0 /\ NoneGoesBefore(j)]_vars

\* The session saved with an item never loses a node that ran or an error: after a
\* dequeue that raised, the processor saves the session of the previous item again
\* (_on_non_fatal_processor_error), which must still be that item's last state.
SavedProgressKept ==
    [][\A i \in Rows : row'[i].status # "absent"
            => row'[i].done >= row[i].done /\ (row[i].err => row'[i].err)]_row

\* An item that was enqueued ends or is removed, whatever is canceled, deleted or
\* killed meanwhile (_process keeps dequeuing), unless the processor comes to wait
\* paused or its thread ends.
EveryItemSettles ==
    \A i \in Ids : (row[i].status \in {"pending", "in_progress"})
                   ~> \/ row[i].status \in Finished \cup {"absent"}
                      \/ pc = "resume" /\ ~resumeEvent
                      \/ pc = "dead"

\* stop() ends the thread, a paused one too, once its first lines have run (or the
\* process ends first and a new thread begins).
StopEndsProcessor == (stopEvent /\ pc # "init") ~> pc \in {"dead", "init"}

\* The queue and the processor keep the contract of a single worker.
Worker == INSTANCE WorkerContract WITH
            Jobs <- Ids,
            taken <- {i \in Ids : starts[i] > 0},
            current <- IF pc \in Executing THEN held.item ELSE 0
ImplementsContract == Worker!FairContract

-------------------------------------------------------------------------------
(***************************************************************************)
(* What comments and docs of the code say, and the code does not keep.     *)
(***************************************************************************)

\* "Any unhandled exception in this block is a nonfatal processor error and will
\* be handled": the thread ends only because the application stops.
ProcessorSurvives == pc = "dead" => ~serving

===============================================================================
