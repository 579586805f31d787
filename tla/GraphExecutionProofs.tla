------------------------- MODULE GraphExecutionProofs -------------------------
(***************************************************************************)
(* What holds of the execution of every graph, however the nodes of a      *)
(* combination of iterators are matched: no node runs twice, and the       *)
(* record of the source nodes that are done is exact.                      *)
(***************************************************************************)
EXTENDS GraphExecution, TLAPS

\* What keeps a node that was taken from being skipped before it runs: the Ifs that
\* govern it were expanded before it was queued, and no If is expanded twice.
Governed(n) == \A i \in Governing(n.src) : Prepared(i) # {}

Copies(X, x) == {n \in X : n.src = x}
Exact(hist, X, done) ==
    \A x \in Nodes : hist[x] = IF Copies(X, x) # {} /\ Copies(X, x) \subseteq done THEN 1 ELSE 0

IInv ==
    /\ graph \in GraphSet /\ topo \in graph.orders
    /\ \A n \in execs : n.src \in Nodes
    /\ executed \subseteq execs /\ DOMAIN results \subseteq executed
    /\ \A e \in edges : e.dst \in execs
    /\ ready \subseteq execs /\ \A n \in ready : Governed(n)
    /\ cur # NoNode \/ pc \in {"hydrate", "running"} =>
            cur \in execs \ executed /\ Governed(cur)
    /\ history \in [Nodes -> Nat] /\ Exact(history, execs, executed)

-------------------------------------------------------------------------------
(***************************************************************************)
(* Settle, for whatever paths it finds.  `skipped` are the nodes of the    *)
(* branches that are not selected.                                         *)
(***************************************************************************)
HistoryAfter(X, done, hist, skipped) ==
    [x \in Nodes |-> IF hist[x] = 0 /\ (\E n \in skipped : n.src = x) /\ AllExecuted(X, done \cup skipped, x)
                     THEN 1 ELSE hist[x]]

LEMMA Settled ==
    ASSUME NEW touched, NEW X, NEW E, NEW deg, NEW done, NEW res, NEW hist, touched \subseteq X,
           \A n \in X : n.src \in Nodes,
           Settle(touched, X, E, deg, done, res, hist)
    PROVE  /\ execs' = X /\ results' = res /\ edges' \subseteq E
           /\ \E skipped \in SUBSET (X \ done) :
                /\ \A n \in skipped : \E m \in touched : m.src \in Governing(n.src)
                /\ executed' = done \cup skipped
                /\ history' = HistoryAfter(X, done, hist, skipped)
           /\ ready' \subseteq ready \cup X
           /\ \A n \in ready' \ ready : \A i \in Governing(n.src) : {m \in X : m.src = i} # {}
<1> DEFINE R == Resolvable(touched, E, done)
           sel == [m \in DOMAIN resolved \cup R |->
                    IF m \in R THEN SelectedField(E, res, m) ELSE resolved[m]]
           pruned == Unselected(R, E, res)
           deg2 == [n \in X |-> deg[n] - Unmet(pruned, done, n)]
           Branch(P, m, f) == {n \in X \ done : P[n] = P[m] /\ n.src \in Exclusive(m.src, f)}
           skip(P) == UNION {Branch(P, m, OtherBranch(sel[m])) : m \in R}
           tried(P) == touched \cup UNION {Branch(P, m, sel[m]) : m \in R}
<1>1. PICK P :
        /\ execs' = X
        /\ edges' = E \ pruned
        /\ results' = res
        /\ executed' = done \cup skip(P)
        /\ history' = [x \in Nodes |->
                          IF /\ hist[x] = 0 /\ \E n \in skip(P) : n.src = x
                             /\ AllExecuted(X, done \cup skip(P), x)
                          THEN 1 ELSE hist[x]]
        /\ ready' = (ready \ skip(P)) \cup
                        {n \in tried(P) : /\ Enqueueable(done \cup skip(P), deg2, n)
                                          /\ ~Deferred(X, P, DOMAIN sel, n)}
  BY DEF Settle
<1>2. R \subseteq touched /\ \A m \in R : graph.kind[m.src] = "if" /\ m \in touched
  BY DEF Resolvable
<1> HIDE DEF R, pruned, deg2
<1>3. \A m, f : Branch(P, m, f) \subseteq X \ done
  OBVIOUS
<1>4. \A m \in R, f \in BranchField : \A n \in Branch(P, m, f) : n.src \in Exclusive(m.src, f)
  OBVIOUS
<1>5. skip(P) \in SUBSET (X \ done) /\ tried(P) \subseteq X
  BY <1>3
<1>6. ASSUME NEW n \in skip(P) PROVE \E m \in touched : m.src \in Governing(n.src)
  <2>1. PICK m \in R : n.src \in Exclusive(m.src, OtherBranch(sel[m])) /\ n \in X
    BY <1>6
  <2>2. OtherBranch(sel[m]) \in {"true_input", "false_input"}
    BY DEF OtherBranch
  <2>3. m.src \in Kind("if")
    BY <1>2 DEF Kind, Nodes
  <2>4. QED BY <1>2, <2>1, <2>2, <2>3 DEF Governing
<1>7. ready' \subseteq ready \cup X
  BY <1>1, <1>5
<1>8. ASSUME NEW n \in ready' \ ready PROVE \A i \in Governing(n.src) : {m \in X : m.src = i} # {}
  <2>1. ~Deferred(X, P, DOMAIN sel, n)
    BY <1>1, <1>8
  <2>2. QED BY <2>1 DEF Deferred
<1>9. QED
  <2> HIDE DEF skip, tried
  <2>1. QED BY <1>1, <1>5, <1>6, <1>7, <1>8 DEF HistoryAfter

\* The history stays exact when some nodes are skipped.
LEMMA SkippedExact ==
    ASSUME NEW X, NEW done, NEW hist \in [Nodes -> Nat], Exact(hist, X, done),
           NEW skipped \in SUBSET (X \ done),
           NEW new, new = HistoryAfter(X, done, hist, skipped)
    PROVE  new \in [Nodes -> Nat] /\ Exact(new, X, done \cup skipped)
<1> USE DEF HistoryAfter
<1>1. new \in [Nodes -> Nat]
  OBVIOUS
<1>2. ASSUME NEW x \in Nodes
      PROVE  new[x] = IF Copies(X, x) # {} /\ Copies(X, x) \subseteq done \cup skipped THEN 1 ELSE 0
  <2>1. hist[x] = IF Copies(X, x) # {} /\ Copies(X, x) \subseteq done THEN 1 ELSE 0
    BY DEF Exact
  <2>2. CASE \E n \in skipped : n.src = x
    <3>1. PICK n \in skipped : n.src = x
      BY <2>2
    <3>2. n \in Copies(X, x) /\ n \notin done
      BY <3>1 DEF Copies
    <3>3. hist[x] = 0
      BY <2>1, <3>2
    <3>4. new[x] = IF Copies(X, x) \subseteq done \cup skipped THEN 1 ELSE 0
      BY <2>2, <3>3 DEF AllExecuted, Copies
    <3>5. QED BY <3>2, <3>4
  <2>3. CASE ~\E n \in skipped : n.src = x
    <3>1. new[x] = hist[x]
      BY <2>3
    <3>2. Copies(X, x) \subseteq done \cup skipped <=> Copies(X, x) \subseteq done
      BY <2>3 DEF Copies
    <3>3. QED BY <2>1, <3>1, <3>2
  <2>4. QED BY <2>2, <2>3
<1>3. QED BY <1>1, <1>2 DEF Exact

\* What Settle makes of the invariant.  A node that was taken is not skipped if
\* every If that governs it was expanded before.
LEMMA SettledInv ==
    ASSUME NEW touched, NEW X, NEW E, NEW deg, NEW done, NEW res, NEW hist,
           IInv, graph' = graph, topo' = topo,
           execs \subseteq X, touched \subseteq X, done \subseteq X, DOMAIN res \subseteq done,
           \A n \in X : n.src \in Nodes, \A e \in E : e.dst \in X,
           hist \in [Nodes -> Nat], Exact(hist, X, done),
           Settle(touched, X, E, deg, done, res, hist),
           \/ cur' = NoNode /\ pc' \notin {"hydrate", "running"}
           \/ /\ cur' = cur /\ done = executed
              /\ pc' \in {"hydrate", "running"} => pc \in {"hydrate", "running"}
              /\ \A m \in touched : Prepared(m.src) = {}
    PROVE  IInv' /\ results' = res
<1>1. /\ execs' = X /\ results' = res /\ edges' \subseteq E
      /\ ready' \subseteq ready \cup X
      /\ \A n \in ready' \ ready : \A i \in Governing(n.src) : {m \in X : m.src = i} # {}
  BY Settled
<1>2. PICK skipped \in SUBSET (X \ done) :
        /\ \A n \in skipped : \E m \in touched : m.src \in Governing(n.src)
        /\ executed' = done \cup skipped
        /\ history' = HistoryAfter(X, done, hist, skipped)
  BY Settled
<1>3. Nodes' = Nodes /\ \A x : Governing(x)' = Governing(x)
  BY DEF Nodes, Governing, Kind, Exclusive, InEdges
<1>4. \A n : Governed(n) => \A i \in Governing(n.src) : Copies(X, i) # {}
  BY DEF Governed, Prepared, Copies
<1>0. ASSUME NEW n, \A i \in Governing(n.src) : Copies(X, i) # {} PROVE Governed(n)'
  BY <1>0, <1>1, <1>3 DEF Governed, Prepared, Copies
<1>5. \A n \in ready' : Governed(n)'
  <2>1. ASSUME NEW n \in ready' \ ready PROVE Governed(n)'
    BY <1>0, <1>1, <2>1 DEF Copies
  <2>2. QED BY <1>0, <1>4, <2>1 DEF IInv
<1>6. history' \in [Nodes -> Nat] /\ Exact(history', execs', executed')
  BY <1>1, <1>2, SkippedExact
<1>7. cur' # NoNode \/ pc' \in {"hydrate", "running"} =>
            cur' \in execs' \ executed' /\ Governed(cur)'
  <2>1. SUFFICES ASSUME cur' # NoNode \/ pc' \in {"hydrate", "running"}
                 PROVE  cur' \in execs' \ executed' /\ Governed(cur)'
    OBVIOUS
  <2>2. cur' = cur /\ done = executed /\ \A m \in touched : Prepared(m.src) = {}
    BY <2>1
  <2>3. cur \in execs \ executed /\ Governed(cur)
    BY <2>1, <2>2 DEF IInv
  <2>4. cur \notin skipped
    BY <1>2, <2>2, <2>3 DEF Governed
  <2>5. \A i \in Governing(cur.src)' : Prepared(i)' # {}
    BY <1>1, <1>3, <1>4, <2>2, <2>3 DEF Prepared, Copies
  <2>6. QED BY <1>1, <1>2, <2>2, <2>3, <2>4, <2>5 DEF Governed
<1>8. /\ executed' \subseteq execs' /\ DOMAIN results' \subseteq executed' /\ ready' \subseteq execs'
      /\ (\A n \in execs' : n.src \in Nodes') /\ \A e \in edges' : e.dst \in execs'
  BY <1>1, <1>2, <1>3 DEF IInv
<1>9. Exact(history, execs, executed)' /\ (history \in [Nodes -> Nat])'
  BY <1>3, <1>6 DEF Exact
<1>10. QED
  BY <1>1, <1>5, <1>7, <1>8, <1>9 DEF IInv

-------------------------------------------------------------------------------
(***************************************************************************)
(* The steps.                                                              *)
(***************************************************************************)
THEOREM InitInv == Init => IInv
<1> SUFFICES ASSUME Init PROVE IInv
  OBVIOUS
<1>1. DOMAIN results = {}
  BY DEF Init
<1>2. history \in [Nodes -> Nat] /\ Exact(history, execs, executed)
  BY DEF Init, Exact, Copies
<1>3. QED BY <1>1, <1>2 DEF Init, IInv

\* prepare() makes copies of a source node that has none.
LEMMA CandidateFresh ==
    ASSUME IInv, NEW x \in Candidates
    PROVE  x \in Nodes /\ Prepared(x) = {}
<1>1. PICK k \in DOMAIN topo : x = topo[k] /\ Expandable(x)
  BY DEF Candidates
<1>2. topo \in [1 .. Cardinality(Nodes) -> Nodes]
  BY GraphAssumption DEF IInv, GraphAssumption, Nodes
<1>3. QED BY <1>1, <1>2 DEF Expandable

\* What nothing but prepare(), complete() and a reload change.
Same == UNCHANGED <<graph, topo, execs, edges, executed, history, results>>

LEMMA SameInv ==
    ASSUME IInv, Same, ready' \subseteq ready,
           \/ cur' \in Live
           \/ cur' = cur /\ (pc' \in {"hydrate", "running"} => cur # NoNode \/ pc \in {"hydrate", "running"})
           \/ cur' = NoNode /\ pc' \notin {"hydrate", "running"}
    PROVE  IInv'
<1>0. Nodes' = Nodes /\ \A x : Governing(x)' = Governing(x) /\ Prepared(x)' = Prepared(x)
  BY DEF Same, Nodes, Governing, Kind, Exclusive, InEdges, Prepared
<1>1. ASSUME NEW n, Governed(n) PROVE Governed(n)'
  BY <1>0, <1>1 DEF Governed
<1>2. cur' # NoNode \/ pc' \in {"hydrate", "running"} => cur' \in execs \ executed /\ Governed(cur)'
  <2>1. CASE cur' \in Live
    <3>1. cur' \in execs \ executed /\ \A i \in Governing(cur'.src) : Prepared(i) # {}
      BY <2>1 DEF Live, IInv, Governed
    <3>2. Governed(cur)'
      BY <1>0, <3>1 DEF Governed
    <3>3. QED BY <3>1, <3>2
  <2>2. CASE cur' = cur /\ (pc' \in {"hydrate", "running"} => cur # NoNode \/ pc \in {"hydrate", "running"})
    <3>1. cur # NoNode \/ pc \in {"hydrate", "running"} =>
            cur \in execs \ executed /\ \A i \in Governing(cur.src) : Prepared(i) # {}
      BY DEF IInv, Governed
    <3>2. cur # NoNode \/ pc \in {"hydrate", "running"} => Governed(cur)'
      BY <1>0, <2>2, <3>1 DEF Governed
    <3>3. QED BY <2>2, <3>1, <3>2
  <2>3. CASE cur' = NoNode /\ pc' \notin {"hydrate", "running"}
    BY <2>3
  <2>4. QED BY <2>1, <2>2, <2>3
<1>3. QED
  BY <1>0, <1>1, <1>2 DEF IInv, Same, Exact, Copies

\* An exception leaves all but the program counter as it was.
LEMMA RaiseInv == IInv /\ Raise => IInv' /\ results' = results /\ pc' = "raised"
BY SameInv DEF Raise, session, runtime, Same

LEMMA PrepareSomeInv ==
    ASSUME IInv, PrepareSome
    PROVE  IInv' /\ results' = results /\ pc' # "running"
<1>1. PICK x \in Candidates : \E map \in Mappings(x) :
        LET new == Created(x, map)
            E == edges \cup Wired(x, map)
            deg == [n \in execs \cup new |->
                       IF n \in new THEN Unmet(E, executed, n) ELSE indegree[n]]
        IN  \/ /\ Settle(new, execs \cup new, E, deg, executed, results, history)
               /\ pc' = IF pc = "idle" THEN "looping" ELSE "pick"
               /\ UNCHANGED <<graph, topo, cur>>
            \/ Raise
  BY DEF PrepareSome
<1>2. CASE Raise
  BY <1>2, RaiseInv
<1>3. CASE ~Raise
  <2>1. PICK map \in Mappings(x) :
          LET new == Created(x, map)
              E == edges \cup Wired(x, map)
              deg == [n \in execs \cup new |->
                         IF n \in new THEN Unmet(E, executed, n) ELSE indegree[n]]
          IN  /\ Settle(new, execs \cup new, E, deg, executed, results, history)
              /\ pc' = IF pc = "idle" THEN "looping" ELSE "pick"
              /\ UNCHANGED <<graph, topo, cur>>
    BY <1>1, <1>3
  <2> DEFINE new == Created(x, map)
             E == edges \cup Wired(x, map)
             deg == [n \in execs \cup new |->
                         IF n \in new THEN Unmet(E, executed, n) ELSE indegree[n]]
  <2>2. /\ Settle(new, execs \cup new, E, deg, executed, results, history)
        /\ pc' \in {"looping", "pick"} /\ graph' = graph /\ topo' = topo /\ cur' = cur
    BY <2>1
  <2>3. x \in Nodes /\ Prepared(x) = {}
    BY CandidateFresh
  <2>4. \A n \in new : n.src = x
    BY DEF Created
  <2>5. \A e \in Wired(x, map) : e.dst \in new
    BY DEF Wired
  <2> HIDE DEF new, deg
  <2>6. Exact(history, execs \cup new, executed)
    <3>1. ASSUME NEW y \in Nodes, y # x PROVE Copies(execs \cup new, y) = Copies(execs, y)
      BY <2>4, <3>1 DEF Copies
    <3>2. Copies(execs, x) = {}
      BY <2>3 DEF Prepared, Copies
    <3>3. Copies(execs \cup new, x) \subseteq executed => Copies(execs \cup new, x) = {}
      BY <3>2 DEF IInv, Copies
    <3>4. QED BY <3>1, <3>2, <3>3 DEF Exact, IInv
  <2>7. (\A n \in execs \cup new : n.src \in Nodes) /\ \A e \in E : e.dst \in execs \cup new
    BY <2>3, <2>4, <2>5 DEF IInv
  <2> HIDE DEF E
  <2>8. \A m \in new : Prepared(m.src) = {}
    BY <2>3, <2>4
  <2>9. /\ executed \subseteq execs \cup new /\ DOMAIN results \subseteq executed
        /\ history \in [Nodes -> Nat] /\ new \subseteq execs \cup new /\ execs \subseteq execs \cup new
    BY DEF IInv
  <2>10. IInv' /\ results' = results
    BY <2>2, <2>6, <2>7, <2>8, <2>9, SettledInv
  <2>11. QED BY <2>2, <2>10
<1>4. QED BY <1>2, <1>3

\* _get_next_node returns a ready node that is not executed, or none.
LEMMA Gotten ==
    ASSUME GetNextNode
    PROVE  /\ ready' \subseteq Live
           /\ cur' = NoNode \/ cur' \in Live
           /\ Live # {} => cur' \in Live
BY DEF GetNextNode, Front

LEMMA QuietInv ==
    ASSUME IInv, Take \/ PrepareNone \/ Pick \/ SetNodeError
    PROVE  IInv' /\ results' = results /\ (pc' = "running" => pc = "running")
<1>1. CASE Take
  BY <1>1, Gotten, SameInv DEF Take, session, Same, Live
<1>2. CASE PrepareNone
  BY <1>2, SameInv DEF PrepareNone, session, Same
<1>3. CASE Pick
  <2>1. CASE cur = NoNode
    BY <1>3, <2>1, Gotten, SameInv DEF Pick, session, Same, Live
  <2>2. CASE cur # NoNode
    BY <1>3, <2>2, SameInv DEF Pick, session, Same
  <2>3. QED BY <2>1, <2>2
<1>4. CASE SetNodeError
  BY <1>4, SameInv DEF SetNodeError, runtime, Same
<1>5. QED BY <1>1, <1>2, <1>3, <1>4

LEMMA HydrateInv ==
    ASSUME IInv, Hydrate
    PROVE  IInv' /\ results' = results /\ cur' \notin executed
<1>1. CASE Raise
  BY <1>1, RaiseInv DEF Hydrate, IInv, Raise
<1>2. CASE ~Raise
  BY <1>2, SameInv DEF Hydrate, session, runtime, Same, IInv
<1>3. QED BY <1>1, <1>2

LEMMA CompleteInv ==
    ASSUME IInv, Complete
    PROVE  /\ IInv' /\ pc' # "running"
           /\ \A n \in DOMAIN results : n \in DOMAIN results' /\ results'[n] = results[n]
<1>1. CASE Raise
  BY <1>1, RaiseInv
<1>2. CASE ~Raise
  <2> DEFINE children == {e.dst : e \in {d \in edges : d.src = cur}}
             Released(n) == Cardinality({e \in InEdges(edges, n) : e.src = cur})
             done == Recorded
             res(v) == [n \in DOMAIN results \cup {cur} |-> IF n = cur THEN v ELSE results[n]]
             hist == IF AllExecuted(execs, done, cur.src)
                     THEN [history EXCEPT ![cur.src] = @ + 1] ELSE history
             deg == [n \in execs |-> indegree[n] - Released(n)]
  <2>1. PICK v : /\ Settle(children, execs, edges, deg, done, res(v), hist)
                 /\ pc' = "idle" /\ cur' = NoNode /\ graph' = graph /\ topo' = topo
    BY <1>2 DEF Complete
  <2>2. cur \in execs /\ cur \notin executed /\ cur.src \in Nodes
    BY DEF IInv, Complete
  <2>3. children \subseteq execs /\ done \subseteq execs /\ done = executed \cup {cur}
    BY <2>2 DEF IInv, Recorded
  <2>4. /\ DOMAIN res(v) = DOMAIN results \cup {cur} /\ cur \notin DOMAIN results
        /\ \A n \in DOMAIN results : res(v)[n] = results[n]
    BY <2>2 DEF IInv
  <2>5. hist \in [Nodes -> Nat] /\ Exact(hist, execs, done)
    <3>1. history \in [Nodes -> Nat] /\ Exact(history, execs, executed)
      BY DEF IInv
    <3>2. cur \in Copies(execs, cur.src) /\ history[cur.src] = 0
      BY <2>2, <3>1 DEF Exact, Copies
    <3>3. AllExecuted(execs, done, cur.src) <=> Copies(execs, cur.src) \subseteq done
      BY DEF AllExecuted, Copies
    <3>4. \A x \in Nodes : x # cur.src => (Copies(execs, x) \subseteq done <=> Copies(execs, x) \subseteq executed)
      BY <2>3 DEF Copies
    <3>5. /\ hist \in [Nodes -> Nat] /\ \A x \in Nodes : x # cur.src => hist[x] = history[x]
          /\ hist[cur.src] = IF Copies(execs, cur.src) \subseteq done THEN 1 ELSE 0
      BY <2>2, <3>1, <3>2, <3>3
    <3>6. QED BY <3>1, <3>2, <3>4, <3>5 DEF Exact
  <2> HIDE DEF children, done, deg, hist, res
  <2>6. IInv' /\ results' = res(v)
    <3>1. (\A n \in execs : n.src \in Nodes) /\ (\A e \in edges : e.dst \in execs) /\ DOMAIN res(v) \subseteq done
      BY <2>3, <2>4 DEF IInv
    <3>2. QED BY <2>1, <2>3, <2>5, <3>1, SettledInv
  <2>7. QED BY <2>1, <2>4, <2>6
<1>3. QED BY <1>1, <1>2

LEMMA ReloadInv ==
    ASSUME IInv, Reload
    PROVE  IInv' /\ results' = results /\ pc' # "running"
<1>1. CASE Raise
  BY <1>1, RaiseInv
<1>2. CASE ~Raise
  <2> DEFINE ifs == {m \in execs : graph.kind[m.src] = "if" /\ ConditionKnown(edges, executed, m)}
  <2>1. PICK P :
          ready' = {n \in execs : Enqueueable(executed, indegree, n) /\ ~Deferred(execs, P, ifs, n)}
    BY <1>2 DEF Reload
  <2>2. /\ topo' \in graph.orders /\ cur' = NoNode /\ pc' = "idle"
        /\ UNCHANGED <<graph, execs, edges, executed, history, results>>
    BY <1>2 DEF Reload
  <2>3. ready' \subseteq execs /\ \A n \in ready' : Governed(n)
    BY <2>1 DEF Deferred, Governed, Prepared
  <2>4. Nodes' = Nodes /\ \A x : Governing(x)' = Governing(x) /\ Prepared(x)' = Prepared(x)
    BY <2>2 DEF Nodes, Governing, Kind, Exclusive, InEdges, Prepared
  <2>5. \A n \in ready' : Governed(n)'
    BY <2>3, <2>4 DEF Governed
  <2>6. QED BY <2>2, <2>3, <2>4, <2>5 DEF IInv, Exact, Copies
<1>3. QED BY <1>1, <1>2

\* A step is what RunsOnce says of it.
StepOnce ==
    /\ pc' = "running" /\ pc # "running" => cur' \notin executed \cup DOMAIN results
    /\ \A n \in DOMAIN results : n \in DOMAIN results' /\ results'[n] = results[n]

THEOREM NextInv == IInv /\ [Next]_vars => IInv' /\ [StepOnce]_vars
<1> SUFFICES ASSUME IInv, [Next]_vars PROVE IInv' /\ [StepOnce]_vars
  OBVIOUS
<1>1. CASE UNCHANGED vars
  <2>1. Same /\ ready' = ready /\ cur' = cur /\ pc' = pc
    BY <1>1 DEF vars, session, runtime, Same
  <2>2. QED BY <1>1, <2>1, SameInv
<1>2. CASE PrepareSome
  BY <1>2, PrepareSomeInv DEF StepOnce
<1>3. CASE Take \/ PrepareNone \/ Pick \/ SetNodeError
  BY <1>3, QuietInv DEF StepOnce
<1>4. CASE Hydrate
  BY <1>4, HydrateInv DEF StepOnce, IInv
<1>5. CASE Complete
  BY <1>5, CompleteInv DEF StepOnce
<1>6. CASE Reload
  BY <1>6, ReloadInv DEF StepOnce
<1>7. QED BY <1>1, <1>2, <1>3, <1>4, <1>5, <1>6 DEF Next, Run

\* GraphExecutionState runs a node at most once until it is loaded again, never one
\* that was skipped, and never replaces an output: for every graph, every order of
\* its nodes, and every way in which get_iteration_node matches them.
THEOREM NodesRunOnce == Spec => RunsOnce
<1>1. IInv /\ [Next]_vars => [StepOnce]_vars
  BY NextInv
<1>2. QED BY <1>1, InitInv, NextInv, PTL DEF Spec, RunsOnce, StepOnce

\* executed_history names a source node once, as soon as all its copies are executed
\* or skipped and not before: the runner's is_complete loses no copy that was made.
THEOREM HistoryIsExact == Spec => []HistoryExact
<1>1. IInv => HistoryExact
  BY DEF IInv, Exact, HistoryExact, Copies, Prepared
<1>2. QED BY <1>1, InitInv, NextInv, PTL DEF Spec
===============================================================================
