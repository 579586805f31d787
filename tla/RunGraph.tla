------------------------------- MODULE RunGraph -------------------------------
(***************************************************************************)
(* runGraph (services/api/run-graph.ts): the browser puts one graph on the *)
(* server's queue, hears of its end over the socket, and settles a promise *)
(* once.  Many runs share the socket and the queue.                        *)
(*                                                                         *)
(* An action is what happens until the next await.  settle() claims the    *)
(* settlement (the mutex and isSettling are one test here, since the mutex *)
(* is only ever waited for by calls that then find isSettling set) and     *)
(* cleanup() takes the listeners away, so a run that is not "waiting"      *)
(* hears nothing any more.  The abort and the timeout handler do the same; *)
(* no caller gives a timeout.  The graphs the callers build hold their     *)
(* output node and no iterate node, so the two checks before all else pass.*)
(*                                                                         *)
(* The server and the network are as the browser sees them: an item that   *)
(* is live (pending or in progress) until it ends, the event of its end on *)
(* the socket (runGraph ignores those of its start), requests that may     *)
(* fail before or after they took effect.                                  *)
(***************************************************************************)
EXTENDS Naturals, Sequences, SequencesExt

CONSTANTS
    Runs,       \* the calls of runGraph, and the queue item of each
    MaxDrops    \* bound: how often the socket's messages or the queue's rows are lost

ASSUME RunGraphAssumption == Runs \subseteq Nat \ {0} /\ MaxDrops \in Nat

VARIABLES
    stage,      \* the promise of each run
    request,    \* its POST enqueue_batch; queueItemId is set when it is "answered"
    item,       \* the row of the queue
    events,     \* queue_item_status_changed on the socket: the runs whose item ended
    missed,     \* history: runs whose end was never told
    stopped,    \* history: runs aborted while their promise was pending
    drops

runVars == <<stage, request, item, events, missed, stopped, drops>>

Ended == {"completed", "failed", "canceled"}

\* "reading" and "canceling" are settlements under way: getQueueItem and cancelQueueItem.
\* "output" resolved the promise, the last three rejected it.
Stage == {"unused", "waiting", "reading", "canceling",
          "output", "error", "aborted", "blind"}
Settled == {"output", "error", "aborted", "blind"}

RunTypeOK ==
    /\ stage \in [Runs -> Stage]
    /\ request \in [Runs -> {"unsent", "sent", "served", "answered", "failed"}]
    /\ item \in [Runs -> {"none", "live", "cleared"} \cup Ended]
    /\ events \in Seq(Runs)
    /\ missed \subseteq Runs /\ stopped \subseteq Runs
    /\ drops \in 0..MaxDrops

RunInit ==
    /\ stage = [r \in Runs |-> "unused"]
    /\ request = [r \in Runs |-> "unsent"]
    /\ item = [r \in Runs |-> "none"]
    /\ events = <<>>
    /\ missed = {} /\ stopped = {}
    /\ drops = 0

Emit(r) == events' = Append(events, r)

-----------------------------------------------------------------------------
(* The caller. *)

\* The listener comes before the request, so that a graph that ends before its request is
\* answered is heard.
Call(r) ==
    /\ stage[r] = "unused"
    /\ stage' = [stage EXCEPT ![r] = "waiting"]
    /\ request' = [request EXCEPT ![r] = "sent"]
    /\ UNCHANGED <<item, events, missed, stopped, drops>>

\* abortHandler: without the item's id there is nothing to cancel, and the promise rejects.
AfterAbort(r) == IF request[r] = "answered" THEN "canceling" ELSE "blind"

Abort(r) ==
    /\ stage' = IF stage[r] = "waiting" THEN [stage EXCEPT ![r] = AfterAbort(r)] ELSE stage
    /\ stopped' = IF stage[r] = "waiting" THEN stopped \cup {r} ELSE stopped
    /\ UNCHANGED <<request, item, events, missed, drops>>

-----------------------------------------------------------------------------
(* Answers and events. *)

EnqueueAnswered(r) ==
    /\ request[r] = "served"
    /\ request' = [request EXCEPT ![r] = "answered"]
    /\ UNCHANGED <<stage, item, events, missed, stopped, drops>>

\* The request was refused, or served and its answer lost.
EnqueueFails(r) ==
    /\ request[r] \in {"sent", "served"}
    /\ request' = [request EXCEPT ![r] = "failed"]
    /\ stage' = IF stage[r] = "waiting" THEN [stage EXCEPT ![r] = "error"] ELSE stage
    /\ UNCHANGED <<item, events, missed, stopped, drops>>

\* Mutant: the settlement does not claim the run while it is canceled.
HearsWhileCanceling(r, origin) == origin = r /\ stage[r] \in {"waiting", "canceling"}

\* Mutant: listening begins when the request is answered.
HearsOnceAnswered(r, origin) == origin = r /\ stage[r] = "waiting" /\ request[r] = "answered"

\* onQueueItemStatusChanged: an event of another origin, or too late, is ignored.
Hears(r, origin) == origin = r /\ stage[r] = "waiting"

Deliver ==
    /\ events # <<>>
    /\ stage' = [r \in Runs |-> IF Hears(r, Head(events)) THEN "reading" ELSE stage[r]]
    /\ events' = Tail(events)
    /\ UNCHANGED <<request, item, missed, stopped, drops>>

\* getQueueItem decides, not the event; a row that is gone rejects the promise.
ReadAnswered(r) ==
    /\ stage[r] = "reading"
    /\ stage' = [stage EXCEPT ![r] = IF item[r] = "completed" THEN "output" ELSE "error"]
    /\ UNCHANGED <<request, item, events, missed, stopped, drops>>

ReadFails(r) ==
    /\ stage[r] = "reading"
    /\ stage' = [stage EXCEPT ![r] = "error"]
    /\ UNCHANGED <<request, item, events, missed, stopped, drops>>

CancelAnswered(r) ==
    /\ stage[r] = "canceling"
    /\ stage' = [stage EXCEPT ![r] = IF item[r] = "cleared" THEN "error" ELSE "aborted"]
    /\ IF item[r] = "live"
       THEN item' = [item EXCEPT ![r] = "canceled"] /\ Emit(r)
       ELSE UNCHANGED <<item, events>>
    /\ UNCHANGED <<request, missed, stopped, drops>>

CancelFails(r) ==
    /\ stage[r] = "canceling"
    /\ stage' = [stage EXCEPT ![r] = "error"]
    /\ UNCHANGED <<request, item, events, missed, stopped, drops>>

-----------------------------------------------------------------------------
(* The server, and the user of the list of queue items. *)

EnqueueServed(r) ==
    /\ request[r] = "sent"
    /\ request' = [request EXCEPT ![r] = "served"]
    /\ item' = [item EXCEPT ![r] = "live"]
    /\ UNCHANGED <<stage, events, missed, stopped, drops>>

ItemEnds(r, how) ==
    /\ item[r] = "live"
    /\ item' = [item EXCEPT ![r] = how]
    /\ Emit(r)
    /\ UNCHANGED <<stage, request, missed, stopped, drops>>

\* The rows of a cleared queue are deleted, and no event tells of each.
QueueCleared ==
    /\ drops < MaxDrops
    /\ \E r \in Runs : item[r] = "live"
    /\ item' = [r \in Runs |-> IF item[r] = "none" THEN "none" ELSE "cleared"]
    /\ missed' = missed \cup {r \in Runs : item[r] = "live"}
    /\ drops' = drops + 1
    /\ UNCHANGED <<stage, request, events, stopped>>

\* What is on the socket when the connection breaks is not sent again.
SocketDrops ==
    /\ drops < MaxDrops
    /\ events # <<>>
    /\ events' = <<>>
    /\ missed' = missed \cup ToSet(events)
    /\ drops' = drops + 1
    /\ UNCHANGED <<stage, request, item, stopped>>

ServerStep ==
    \/ \E r \in Runs :
        \/ EnqueueServed(r)
        \/ \E how \in Ended : ItemEnds(r, how)
    \/ QueueCleared
    \/ SocketDrops
=============================================================================
