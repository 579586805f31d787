---------------------------- MODULE GraphExecution ----------------------------
(***************************************************************************)
(* GraphExecutionState: how one session expands its source graph into an   *)
(* execution graph, decides which node may run next, and skips the branch  *)
(* of an If that is not selected.                                          *)
(*                                                                         *)
(* One thread uses the object: the session runner calls next() and         *)
(* complete() in turn, or set_node_error().  pc says where it is.  next()  *)
(* is several steps, one per call of prepare() and of _get_next_node().    *)
(*                                                                         *)
(* An output is abstracted to a number, which is what the engine itself    *)
(* reads of one: the length of a collection, the truth of a condition.     *)
(* Every topological order is taken from `topo`.                           *)
(* The uuid of an exec node is replaced by what it was created for, its    *)
(* source node, the iterator nodes it was matched with and its index; the  *)
(* matching itself reads only the execution graph, as in the code.         *)
(***************************************************************************)
EXTENDS Integers, Sequences, FiniteSets, FiniteSetsExt, TLC

CONSTANTS
    GraphSet,   \* records [kind, edges, cls, out, on, orders, reloads], see GraphAssumption
    NoNode, NoClass

\* kind: node -> its kind; edges: [src, dst, field]; cls: node -> the rank of
\* its class name; out: node -> the outputs its invocation may return; on: the
\* If nodes whose own `condition` field is true; orders: topological orders;
\* reloads: a bound, how often the session is saved and loaded.
ASSUME GraphAssumption ==
    \A g \in GraphSet :
        /\ g.kind \in [DOMAIN g.kind -> {"plain", "iterate", "collect", "if"}]
        /\ \A e \in g.edges : {e.src, e.dst} \subseteq DOMAIN g.kind
        /\ g.cls \in [DOMAIN g.kind -> Nat]
        /\ g.out \in [DOMAIN g.kind -> SUBSET Nat]
        /\ \A o \in g.orders : o \in [1 .. Cardinality(DOMAIN g.kind) -> DOMAIN g.kind]
        /\ g.orders # {}
        /\ g.reloads \in Nat

VARIABLES
    graph,     \* the source graph, a member of GraphSet
    topo,      \* the order nx.topological_sort yields in this process
    execs,     \* the nodes of execution_graph
    edges,     \* the edges of execution_graph
    indegree,  \* exec node -> unmet inputs
    executed,  \* the exec nodes in `executed`
    history,   \* source node -> how often executed_history names it
    results,   \* exec node -> output
    errors,    \* the exec nodes in `errors`
    resolved,  \* _resolved_if_exec_branches: If exec node -> selected field
    path,      \* _iteration_path_cache, filled when a path is first looked up
    ready,     \* the union of the _ready_queues
    active,    \* _active_class
    cur,       \* next()'s next_node, then the node that is running
    pc,
    reloads

session == <<graph, topo, execs, edges, indegree, executed, history, results, errors>>
runtime == <<resolved, path, ready, active>>
vars == <<session, runtime, cur, pc, reloads>>

-----------------------------------------------------------------------------
(* The source graph.                                                       *)

Nodes == DOMAIN graph.kind
Kind(k) == {x \in Nodes : graph.kind[x] = k}

InEdges(E, n) == {e \in E : e.dst = n}
Arcs(E) == {<<e.src, e.dst>> : e \in E}

\* The nodes from which some node of S can be reached, S among them.
Upstream(arcs, S) ==
    LET Up[U \in SUBSET ({a[1] : a \in arcs} \cup S)] ==
            LET V == U \cup {a[1] : a \in {b \in arcs : b[2] \in U}}
            IN  IF V = U THEN U ELSE Up[V]
    IN  Up[S]

HasPath(arcs, m, n) == m \in Upstream(arcs, {n})
Parents(x) == {e.src : e \in InEdges(graph.edges, x)}

\* iterator_graph: edges into collectors are cut; and the iterators that an
\* ancestor search in it finds.
IteratorArcs == {a \in Arcs(graph.edges) : graph.kind[a[2]] # "collect"}
NodeIterators(x) == {i \in Kind("iterate") \ {x} : HasPath(IteratorArcs, i, x)}

BranchField == {"true_input", "false_input"}
OtherBranch(f) == IF f = "true_input" THEN "false_input" ELSE "true_input"

\* get_branch_exclusive_sources: of the nodes the branch depends on, those whose
\* outputs go nowhere but into such nodes or into the branch field.
Exclusive(i, f) ==
    LET inputs == {e.src : e \in {d \in InEdges(graph.edges, i) : d.field = f}}
        Stays(n, B) == \A e \in graph.edges : e.src = n =>
                            e.dst \in B \/ (e.dst = i /\ e.field = f)
        Pruned[B \in SUBSET Nodes] ==
            LET kept == {n \in B : Stays(n, B)} IN IF kept = B THEN B ELSE Pruned[kept]
    IN  Pruned[Upstream(Arcs(graph.edges), inputs)]

-----------------------------------------------------------------------------
(* The execution graph.                                                    *)

Prepared(x) == {n \in execs : n.src = x}
Skipped == executed \ DOMAIN results
SourceDone(x) == history[x] > 0
IsComplete == errors # {} \/ \A x \in Nodes : SourceDone(x)

\* _build_iteration_path over exec nodes X and edges E: the indexes of the
\* iterators above n, outermost first, then its own.  Where several nodes of
\* one iterator reach n the code takes the first of a set: any of them.
PathsIn(order, X, E, n) ==
    LET Index(i) == {q.idx : q \in {p \in X : p.src = i /\ HasPath(Arcs(E), p, n)}}
        its == SelectSeq(order, LAMBDA i : i \in NodeIterators(n.src) /\ Index(i) # {})
        own == IF graph.kind[n.src] = "iterate" THEN <<n.idx>> ELSE <<>>
    IN  {p \o own : p \in {q \in [DOMAIN its -> UNION {Index(its[k]) : k \in DOMAIN its}] :
                              \A k \in DOMAIN its : q[k] \in Index(its[k])}}

\* The functions on S that map each n to a member of P(n).
Picks(S, P(_)) ==
    FoldSet(LAMBDA n, F : {(n :> v) @@ f : f \in F, v \in P(n)}, {<<>>}, S)

\* Mutated form.
PathGreater(p, q) == \E k \in DOMAIN p : k \notin DOMAIN q \/ p[k] > q[k]
\* Tuples as Python compares them.
PathLess(p, q) ==
    \E k \in 1 .. Len(q) :
        /\ Len(p) >= k - 1
        /\ \A j \in 1 .. k - 1 : p[j] = q[j]
        /\ Len(p) = k - 1 \/ p[k] < q[k]

ConditionEdges(E, m) == {e \in InEdges(E, m) : e.field = "condition"}
ConditionKnown(E, done, m) == \A e \in ConditionEdges(E, m) : e.src \in done
SelectedField(E, res, m) ==
    IF ConditionEdges(E, m) = {}
    THEN IF m.src \in graph.on THEN "true_input" ELSE "false_input"
    ELSE IF \E e \in ConditionEdges(E, m) : res[e.src] # 0
         THEN "true_input" ELSE "false_input"

\* The Ifs one of whose branches alone needs x.
Governing(x) == {i \in Kind("if") : x \in Exclusive(i, "true_input") \cup Exclusive(i, "false_input")}
\* Mutated form.
DeferredNever(X, P, R, n) == FALSE
\* is_deferred_by_unresolved_if, with exec nodes X, paths P, resolved Ifs R.
Deferred(X, P, R, n) ==
    \E i \in Governing(n.src) :
        LET matching == {m \in X : m.src = i /\ P[m] = P[n]}
        IN  matching = {} \/ ~(matching \subseteq R)

\* _mark_source_node_complete, and the end of mark_exec_node_skipped.
AllExecuted(X, done, x) == {n \in X : n.src = x} \subseteq done

\* enqueue_if_ready goes on for these.
Enqueueable(done, deg, n) == deg[n] = 0 /\ n \notin done

(***************************************************************************)
(* What next() and complete() do to the nodes they touch (new ones; the    *)
(* children of a completed one): try_resolve_if_node and enqueue_if_ready  *)
(* on each.  X, E, deg, done, res, hist are the exec nodes, edges,          *)
(* indegrees, executed set, results and history before that.  The loops    *)
(* of the code do not depend on their order: resolving an If skips nodes,  *)
(* but a skipped node releases none.                                       *)
(***************************************************************************)
Resolvable(touched, E, done) ==
    {m \in touched : /\ graph.kind[m.src] = "if"
                     /\ m \notin DOMAIN resolved
                     /\ ConditionKnown(E, done, m)}

\* Mutated form.
UnselectedKept(R, E, res) == {}
Unselected(R, E, res) ==
    {e \in E : e.dst \in R /\ e.field = OtherBranch(SelectedField(E, res, e.dst))}

\* Mutated form.
UnmetOrMet(E, done, n) == Cardinality(InEdges(E, n))
Unmet(E, done, n) == Cardinality({e \in InEdges(E, n) : e.src \notin done})

\* The loops raise: a condition that was skipped has no result (KeyError), or
\* an indegree would go below zero (RuntimeError).
Breaks(touched, E, deg, done, res) ==
    LET R == Resolvable(touched, E, done)
    IN  IF \E m \in R : \E e \in ConditionEdges(E, m) : e.src \notin DOMAIN res
        THEN TRUE
        ELSE \E n \in touched : deg[n] < Unmet(Unselected(R, E, res), done, n)

Settle(touched, X, E, deg, done, res, hist) ==
    LET R == Resolvable(touched, E, done)
        sel == [m \in DOMAIN resolved \cup R |->
                    IF m \in R THEN SelectedField(E, res, m) ELSE resolved[m]]
        pruned == Unselected(R, E, res)
        deg2 == [n \in X |-> deg[n] - Unmet(pruned, done, n)]
        zero == {n \in touched : Enqueueable(done, deg2, n)}
        looked == R \cup IF R # {} THEN X \ done
                         ELSE zero \cup {m \in X : \E n \in zero : m.src \in Governing(n.src)}
    IN  \E new \in Picks(looked \ DOMAIN path,
                           LAMBDA n : PathsIn(topo, X, IF n \in R THEN E ELSE E \ pruned, n)) :
        LET P == path @@ new
            Branch(m, f) == {n \in X \ done : P[n] = P[m] /\ n.src \in Exclusive(m.src, f)}
            skip == UNION {Branch(m, OtherBranch(sel[m])) : m \in R}
            tried == touched \cup UNION {Branch(m, sel[m]) : m \in R}
            done2 == done \cup skip
        IN  /\ execs' = X
            /\ edges' = E \ pruned
            /\ indegree' = deg2
            /\ results' = res
            /\ executed' = done2
            /\ history' = [x \in Nodes |->
                              IF /\ hist[x] = 0 /\ \E n \in skip : n.src = x
                                 /\ AllExecuted(X, done2, x)
                              THEN 1 ELSE hist[x]]
            /\ resolved' = sel
            /\ path' = P
            /\ ready' = (ready \ skip) \cup
                            {n \in tried : /\ Enqueueable(done2, deg2, n)
                                           /\ ~Deferred(X, P, DOMAIN sel, n)}

\* An exception other than NodeInputError, of next(), complete() or loading:
\* what it leaves of the session is not modelled.
Raise == /\ pc' = "raised"
         /\ UNCHANGED <<session, runtime, cur, reloads>>

-----------------------------------------------------------------------------
(* _get_next_node: the active class is drained before another is chosen,   *)
(* in the order of the class names; in a class, the least iteration path.  *)
(* Entries that were executed since they were queued are thrown away.      *)

Live == ready \ executed
ReadyClasses == {graph.cls[n.src] : n \in Live}
ClassNow == IF active \in ReadyClasses THEN active ELSE Min(ReadyClasses)
Front == {n \in Live : /\ graph.cls[n.src] = ClassNow
                       /\ \A m \in Live : graph.cls[m.src] = ClassNow => ~PathLess(path[m], path[n])}

GetNextNode ==
    IF Live = {}
    THEN /\ cur' = NoNode
         /\ active' = NoClass
         /\ ready' = {}
    ELSE \E n \in Front : /\ cur' = n
                          /\ active' = ClassNow
                          /\ ready' = Live \ {n}

\* next(), when something is ready.
Take == /\ pc = "idle"
        /\ Live # {}
        /\ GetNextNode
        /\ pc' = "hydrate"
        /\ UNCHANGED <<session, resolved, path, reloads>>

-----------------------------------------------------------------------------
(* prepare(): the first source node, in topological order, that can be     *)
(* expanded.                                                               *)

Expandable(x) ==
    /\ Prepared(x) = {}
    /\ graph.kind[x] = "iterate" => \A y \in Parents(x) : SourceDone(y)
    /\ \A i \in Kind("iterate") \ {x} : HasPath(Arcs(graph.edges), i, x) => SourceDone(i)

\* Mutated form.
MatchesAny(y, c) == Prepared(y) \ Skipped
\* get_iteration_node: the prepared nodes of y that may be chosen as a parent
\* of a node made for the iterator nodes c; the code takes the first it finds.
Matches(y, c) ==
    LET above == {i \in c : HasPath(Arcs(graph.edges), i.src, y)}
        fit == {n \in Prepared(y) \ Skipped : \A i \in above : HasPath(Arcs(edges), i, n)}
    IN  IF fit \cap c # {} THEN fit \cap c ELSE fit

\* The combinations of prepared iterators above x.
Combinations(x) ==
    LET its == NodeIterators(x)
    IN  {{f[i] : i \in its} : f \in Picks(its, Prepared)}

\* _get_parent_iteration_mappings, and what a collector has instead: for each
\* combination whose parents are all found, the exec nodes that are inputs.
Mappings(x) ==
    IF graph.kind[x] = "collect"
    THEN {({} :> UNION {Prepared(y) \ Skipped : y \in Parents(x)})}
    ELSE LET found == {c \in Combinations(x) : \A y \in Parents(x) : Matches(y, c) # {}}
             Inputs(c) == {{f[y] : y \in Parents(x)} :
                              f \in Picks(Parents(x), LAMBDA y : Matches(y, c))}
         IN  Picks(found, Inputs)

Length(x, inputs) ==
    LET e == CHOOSE e \in InEdges(graph.edges, x) : e.field = "collection"
    IN  results[CHOOSE n \in inputs : n.src = e.src]

Indexes(x, inputs) ==
    IF graph.kind[x] = "iterate" THEN 0 .. Length(x, inputs) - 1 ELSE {-1}

Created(x, map) ==
    UNION {{[src |-> x, its |-> c, idx |-> k] : k \in Indexes(x, map[c])} : c \in DOMAIN map}
Wired(x, map) ==
    LET Inputs(n, e) == {m \in map[n.its] : m.src = e.src}
    IN  UNION {UNION {{[src |-> m, dst |-> n, field |-> e.field] : m \in Inputs(n, e)} :
                        e \in InEdges(graph.edges, x)} : n \in Created(x, map)}

Candidates ==
    {topo[k] : k \in {k \in DOMAIN topo : /\ Expandable(topo[k])
                                         /\ \A j \in 1 .. k - 1 : ~Expandable(topo[j])}}

\* prepare() as _prepare_until_node_ready calls it: once, and then, until it
\* returns None, again before each attempt to get a node.
Preparing == pc = "looping" \/ (pc = "idle" /\ Live = {})

PrepareSome ==
    /\ Preparing
    /\ \E x \in Candidates : \E map \in Mappings(x) :
        LET new == Created(x, map)
            E == edges \cup Wired(x, map)
            deg == [n \in execs \cup new |->
                       IF n \in new THEN Unmet(E, executed, n) ELSE indegree[n]]
        IN  /\ new # {}
            /\ \/ /\ ~Breaks(new, E, deg, executed, results)
                  /\ Settle(new, execs \cup new, E, deg, executed, results, history)
                  /\ pc' = IF pc = "idle" THEN "looping" ELSE "pick"
                  /\ active' = IF pc = "idle" THEN NoClass ELSE active
                  /\ UNCHANGED <<graph, topo, errors, cur, reloads>>
               \/ /\ Breaks(new, E, deg, executed, results)
                  /\ Raise

\* There is no candidate, or the first one yields no node: an iterator over an
\* empty collection, or a node no combination of iterators matches.
PrepareNone ==
    /\ Preparing
    /\ \A x \in Candidates : \E map \in Mappings(x) : Created(x, map) = {}
    /\ pc' = IF pc = "idle" THEN "end" ELSE "lastPick"
    /\ active' = IF pc = "idle" THEN NoClass ELSE active
    /\ UNCHANGED <<session, resolved, path, ready, cur, reloads>>

Pick ==
    /\ pc \in {"pick", "lastPick"}
    /\ IF cur = NoNode THEN GetNextNode ELSE UNCHANGED <<cur, active, ready>>
    /\ pc' = IF pc = "pick" THEN "looping"
             ELSE IF cur' = NoNode THEN "end" ELSE "hydrate"
    /\ UNCHANGED <<session, resolved, path, reloads>>

\* prepare_inputs, at the end of next().
InputsRead ==
    {e \in InEdges(edges, cur) : graph.kind[cur.src] = "if" =>
        e.field = "condition" \/ (cur \in DOMAIN resolved /\ e.field = resolved[cur])}

Hydrate ==
    /\ pc = "hydrate"
    /\ IF \A e \in InputsRead : e.src \in DOMAIN results
       THEN pc' = "running" /\ UNCHANGED <<session, runtime, cur, reloads>>
       ELSE Raise

-----------------------------------------------------------------------------
(* The runner's part: an invocation returns, or raises (an invalid input   *)
(* is a NodeInputError, with the same effect).                             *)

\* What an invocation of the node may return.
Outputs(n) ==
    LET from(f) == {e \in InEdges(edges, n) : e.field = f}
    IN  CASE graph.kind[n.src] = "collect" ->
                {Cardinality(from("item")) + MapThenSumSet(LAMBDA e : results[e.src], from("collection"))}
          [] graph.kind[n.src] = "if" ->
                IF from(resolved[n]) = {} THEN {0} ELSE {results[e.src] : e \in from(resolved[n])}
          [] OTHER -> graph.out[n.src]

\* Mutated form.
RecordedAsResult == executed
\* _record_completed_node, for `executed`.
Recorded == executed \cup {cur}

Complete ==
    /\ pc = "running"
    /\ \E v \in Outputs(cur) :
        LET children == {e.dst : e \in {d \in edges : d.src = cur}}
            Released(n) == Cardinality({e \in InEdges(edges, n) : e.src = cur})
            done == Recorded
            res == [n \in DOMAIN results \cup {cur} |-> IF n = cur THEN v ELSE results[n]]
            hist == IF AllExecuted(execs, done, cur.src)
                    THEN [history EXCEPT ![cur.src] = @ + 1] ELSE history
            deg == [n \in execs |-> indegree[n] - Released(n)]
        IN  \/ /\ \A n \in children : deg[n] >= 0
               /\ ~Breaks(children, edges, deg, done, res)
               /\ Settle(children, execs, edges, deg, done, res, hist)
               /\ pc' = "idle"
               /\ cur' = NoNode
               /\ UNCHANGED <<graph, topo, errors, active, reloads>>
            \/ /\ \/ \E n \in children : deg[n] < 0
                  \/ Breaks(children, edges, deg, done, res)
               /\ Raise

SetNodeError ==
    /\ pc \in {"hydrate", "running"}
    /\ errors' = errors \cup {cur}
    /\ pc' = "failed"
    /\ UNCHANGED <<graph, topo, execs, edges, indegree, executed, history, results,
                   runtime, cur, reloads>>

(***************************************************************************)
(* The session is saved, and _rehydrate_runtime_state makes the rest anew  *)
(* when it is loaded: paths from the execution graph as it is now, the     *)
(* branches of the Ifs whose condition is known, the ready queues.  The    *)
(* condition of an If is read from `results` if its source is `executed`.  *)
(***************************************************************************)
Reload ==
    LET ifs == {m \in execs : graph.kind[m.src] = "if" /\ ConditionKnown(edges, executed, m)}
        sel == [m \in ifs |-> SelectedField(edges, results, m)]
    IN  /\ pc \in {"idle", "running", "end"}
        /\ reloads < graph.reloads
        /\ \/ /\ \A m \in ifs : \A e \in ConditionEdges(edges, m) : e.src \in DOMAIN results
              /\ topo' \in graph.orders
              /\ \E P \in Picks(execs, LAMBDA n : PathsIn(topo', execs, edges, n)) :
                    /\ path' = P
                    /\ ready' = {n \in execs : /\ Enqueueable(executed, indegree, n)
                                              /\ ~Deferred(execs, P, ifs, n)}
              /\ resolved' = sel
              /\ active' = NoClass
              /\ cur' = NoNode
              /\ pc' = "idle"
              /\ reloads' = reloads + 1
              /\ UNCHANGED <<graph, execs, edges, indegree, executed, history, results, errors>>
           \/ /\ \E m \in ifs : \E e \in ConditionEdges(edges, m) : e.src \notin DOMAIN results
              /\ Raise

-----------------------------------------------------------------------------
Init ==
    /\ graph \in GraphSet
    /\ topo \in graph.orders
    /\ execs = {} /\ edges = {} /\ indegree = <<>>
    /\ executed = {} /\ history = [x \in Nodes |-> 0] /\ results = <<>> /\ errors = {}
    /\ resolved = <<>> /\ path = <<>> /\ ready = {} /\ active = NoClass
    /\ cur = NoNode /\ pc = "idle" /\ reloads = 0

Run == Take \/ PrepareSome \/ PrepareNone \/ Pick \/ Hydrate \/ Complete

Next == Run \/ SetNodeError \/ Reload

Spec == Init /\ [][Next]_vars

-----------------------------------------------------------------------------
(* Properties.                                                             *)

\* The variables have their types: nodes in the ready queues are nodes of the
\* execution graph that are not executed, and their paths are known.
TypeOK ==
    /\ graph \in GraphSet /\ topo \in graph.orders
    /\ \A n \in execs : n.src \in Nodes /\ n.its \subseteq execs /\ n.idx \in Int
    /\ \A e \in edges : {e.src, e.dst} \subseteq execs
    /\ indegree \in [execs -> Nat]
    /\ executed \subseteq execs /\ DOMAIN results \subseteq executed
    /\ history \in [Nodes -> Nat]
    /\ errors \subseteq execs \ executed
    /\ DOMAIN resolved \subseteq execs /\ \A m \in DOMAIN resolved : resolved[m] \in BranchField
    /\ DOMAIN path \subseteq execs
    /\ ready \subseteq DOMAIN path \ executed
    /\ active \in {NoClass} \cup {graph.cls[x] : x \in Nodes}
    /\ cur \in {NoNode} \cup execs
    /\ pc \in {"idle", "looping", "pick", "lastPick", "hydrate", "running", "end", "failed", "raised"}
    /\ reloads \in 0 .. graph.reloads

\* indegree counts the inputs of a node that are still to come, although it is
\* decremented in two places, by a parent that completes and by an If that
\* cuts its unselected inputs, and parents that are skipped do neither.
IndegreeExact ==
    \A n \in execs \ executed :
        indegree[n] = Cardinality({e \in edges : e.dst = n /\ e.src \notin executed})

\* No KeyError or RuntimeError: no indegree underflow, no input without a
\* result ("In normal scheduling this path should be unreachable").
NeverRaises == pc # "raised"

\* A node is given to the runner at most once (until a reload), never after it
\* was executed or skipped, and a result is never replaced.
RunsOnce ==
    [][/\ pc' = "running" /\ pc # "running" => cur' \notin executed \cup DOMAIN results
       /\ \A n \in DOMAIN results : n \in DOMAIN results' /\ results'[n] = results[n]]_vars

\* Lazy If: a node that only the unselected branch of an If needs, of the same
\* iteration, does not run, neither before nor after the If is resolved.
UnselectedNeverRuns ==
    \A m \in DOMAIN resolved : \A n \in DOMAIN results :
        n.its \subseteq m.its => n.src \notin Exclusive(m.src, OtherBranch(resolved[m]))

\* The inputs of a node are of its own iteration, except a collector's.
OwnIteration ==
    \A e \in edges : graph.kind[e.dst.src] # "collect" =>
        \A i \in e.src.its \cup {e.src} : \A j \in e.dst.its : i.src = j.src => i = j

\* A node that is expanded is so for every combination of the iterations above
\* it, an iterator for every item: none is lost, none is made up.
EveryCombination ==
    \A x \in Nodes : Prepared(x) # {} /\ graph.kind[x] # "collect" =>
        LET c == {c \in Combinations(x) : \A i \in c : i.its \subseteq c}
        IN  /\ {n.its : n \in Prepared(x)} = c
            /\ graph.kind[x] = "iterate" =>
                 \A n \in Prepared(x) : \E e \in InEdges(edges, n) :
                    {p.idx : p \in {p \in Prepared(x) : p.its = n.its}} = 0 .. results[e.src] - 1

\* The items of a collection are iterated over in order.
ItemsInOrder ==
    \A n \in DOMAIN results, m \in execs :
        /\ graph.kind[n.src] = "iterate" /\ m.src = n.src
        /\ m.its = n.its /\ m.idx < n.idx
        => m \in executed

\* A source node is recorded as executed, once, exactly when all its copies
\* are executed or skipped; so the session is complete only when nothing is
\* left to run, and the runner, which then stops, loses nothing.
HistoryExact ==
    \A x \in Nodes : history[x] = IF Prepared(x) # {} /\ Prepared(x) \subseteq executed THEN 1 ELSE 0

\* next() returns None only when the session is complete.
EndIsComplete == pc = "end" => IsComplete

\* Copies of the nodes below an iterator are made once for each combination of
\* items, and joined with copies of their own iteration.
IterationsExact == OwnIteration /\ EveryCombination

\* The types, the counters, the record of what is done, and no exception.
GraphInv == TypeOK /\ IndegreeExact /\ HistoryExact /\ NeverRaises

===============================================================================
