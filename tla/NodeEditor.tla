------------------------------ MODULE NodeEditor ------------------------------
(***************************************************************************)
(* The workflow editor of the web frontend: nodes of the graph, connectors *)
(* (bends in a wire, which the backend never sees) and the edges between   *)
(* their fields.  What the user draws is checked edge by edge              *)
(* (validateConnection), kept consistent as nodes and connectors come and  *)
(* go (nodesChanged), and flattened into the graph that is sent to the     *)
(* queue (buildNodesGraph).                                                *)
(*                                                                         *)
(* Ids are fresh in the code, so an id that was removed is never used      *)
(* again.  An edge's id is made of its two ends: edges are a set.  Where   *)
(* the code takes the first edge into a collect node, any may be first.    *)
(***************************************************************************)
EXTENDS FiniteSets, Naturals, TLC

CONSTANTS
    Invocations,    \* ids of invocation nodes
    Connectors,     \* ids of connector nodes
    Kind,           \* a node's type: "collect", "if" or another
    Inputs,         \* for each invocation node, the types of the fields an edge may enter
    Outputs,        \* and of those an edge may leave
    MaxEdges,       \* bound: edges drawn at once
    MaxSelected     \* bound: nodes and edges in a selection that is deleted

VARIABLES
    nodes,          \* state.nodes
    edges,          \* state.edges, those of type 'default'
    used            \* ids given out so far

vars == <<nodes, edges, used>>

-----------------------------------------------------------------------------
(* Field types.                                                            *)

IsSingle(t) == t.cardinality = "SINGLE"
IsCollection(t) == t.cardinality = "COLLECTION"
IsEither(t) == t.cardinality = "SINGLE_OR_COLLECTION"

CardinalityMatches(s, t) ==
    \/ IsSingle(s) /\ ~IsCollection(t)
    \/ IsCollection(s) /\ ~IsSingle(t)
    \/ IsEither(s) /\ IsEither(t)

Widens ==
    {<<"IntegerField", "FloatField">>, <<"IntegerField", "StringField">>, <<"FloatField", "StringField">>}

validateConnectionTypes(s, t) ==
    \/ s = t
    \/ s.name = "CollectionItemField" /\ ~IsCollection(t)
    \/ IsSingle(s) /\ t.name = "CollectionItemField"
    \/ IsEither(t) /\ s.name = t.name
    \/ s.name = "CollectionField" /\ ~IsSingle(t)
    \/ t.name = "CollectionField" /\ IsCollection(s)
    \/ CardinalityMatches(s, t) /\ (<<s.name, t.name>> \in Widens \/ s.name = "AnyField")
    \/ t.name = "AnyField"

SingleAndCollection(s, t) ==
    s.name = t.name /\ {s.cardinality, t.cardinality} = {"SINGLE", "COLLECTION"}

\* areFieldTypesCompatible
EitherWay(s, t) ==
    validateConnectionTypes(s, t) \/ validateConnectionTypes(t, s) \/ SingleAndCollection(s, t)

-----------------------------------------------------------------------------
(* Connectors.  N and E are the nodes and the edges asked about.           *)

InHandle == "in"
OutHandle == "out"

Edge(s, sh, t, th) == [source |-> s, sourceHandle |-> sh, target |-> t, targetHandle |-> th]

Missing == [is |-> "missing"]
Unresolved == [is |-> "unresolved"]
Field(n, h) == [is |-> "field", node |-> n, handle |-> h]

RECURSIVE ResolveFrom(_, _, _, _)
ResolveFrom(k, N, E, visited) ==
    LET into == {e \in E : e.target = k /\ e.targetHandle = InHandle}
        e == CHOOSE e \in into : TRUE
    IN  IF k \in visited \/ into = {} \/ e.source \notin N THEN Unresolved
        ELSE IF e.source \in Invocations THEN Field(e.source, e.sourceHandle)
        ELSE ResolveFrom(e.source, N, E, visited \union {k})

\* The field that feeds a connector, along the connectors before it.
resolveConnectorSource(k, N, E) == ResolveFrom(k, N, E, {})

OutputEdges(k, E) == {e \in E : e.source = k /\ e.sourceHandle = OutHandle}

RECURSIVE Reached(_, _, _)
Reached(K, N, E) ==
    LET more == {e.target : e \in UNION {OutputEdges(k, E) : k \in K}} \intersect N \intersect Connectors
    IN  IF more \subseteq K THEN K ELSE Reached(K \union more, N, E)

\* The edges that leave a connector or a connector after it, and those of
\* them that end elsewhere.
ConnectorSubgraph(k, N, E) == UNION {OutputEdges(j, E) : j \in Reached({k}, N, E)}
TerminalEdges(k, N, E) == {e \in ConnectorSubgraph(k, N, E) : e.target \notin N \intersect Connectors}

getEffectiveSource(s, sh, N, E) ==
    IF s \notin N THEN Missing
    ELSE IF s \in Connectors THEN resolveConnectorSource(s, N, E)
    ELSE Field(s, sh)

OutputType(f) == Outputs[f.node][f.handle]

-----------------------------------------------------------------------------
(* validateConnection: may this edge be added?                             *)

Item(t) == IF IsSingle(t) THEN t ELSE [t EXCEPT !.cardinality = "SINGLE"]
Untyped == [name |-> "none"]

\* What the code finds when it follows e to learn what a collect node holds:
\* nothing behind a connector.
FoundBehind(e, N) ==
    IF e.source \notin N \intersect Invocations THEN Untyped
    ELSE LET t == Outputs[e.source][e.sourceHandle]
         IN  IF t.name = "CollectionField" THEN Untyped ELSE Item(t)

RECURSIVE ItemTypes(_, _, _, _)
ItemTypes(n, N, E, visited) ==
    LET items == {e \in E : e.target = n /\ e.targetHandle = "item"}
        lists == {e \in E : e.target = n /\ e.targetHandle = "collection"}
    IN  IF n \in visited THEN {Untyped}
        ELSE IF items # {} THEN {FoundBehind(e, N) : e \in items}
        ELSE IF lists = {} THEN {Untyped}
        ELSE UNION {IF e.source \in N \intersect Invocations /\ Kind[e.source] = "collect"
                    THEN ItemTypes(e.source, N, E, visited \union {n})
                    ELSE {FoundBehind(e, N)} : e \in lists}

\* getCollectItemType: the first edge into the node decides.
getCollectItemType(n, N, E) == ItemTypes(n, N, E, {})

Sibling(h) == IF h = "true_input" THEN "false_input" ELSE "true_input"
IfInputs == {"true_input", "false_input"}

\* What feeds the inputs of an if node, by handle.
IfSources(n, H, N, E) ==
    {getEffectiveSource(e.source, e.sourceHandle, N, E) :
        e \in {d \in E : d.target = n /\ d.targetHandle \in H}}

RECURSIVE Ahead(_, _)
Ahead(R, E) ==
    LET more == {e.target : e \in {d \in E : d.source \in R}}
    IN  IF more \subseteq R THEN R ELSE Ahead(R \union more, E)

OnCycle(E) == \E e \in E : e.source \in Ahead({e.target}, E)

\* With c, the editor's graph would have a cycle, connectors being nodes too.
getHasCycles(c, E) == OnCycle(E \union {c})

\* An unresolved connector may enter a field whose type is compatible with
\* every other field the connector feeds.
FitsTheOthers(c, N, E) ==
    \A e \in TerminalEdges(c.source, N, E) :
        \/ e.target = c.target /\ e.targetHandle = c.targetHandle
        \/ /\ e.target \in N
           /\ EitherWay(Inputs[e.target][e.targetHandle], Inputs[c.target][c.targetHandle])

CollectKeepsType(c, from, N, E) ==
    LET ofTarget == getCollectItemType(c.target, N, E)
        ofSource == getCollectItemType(from.node, N, E)
    IN  /\ Kind[c.target] = "collect" /\ c.targetHandle = "item" =>
               ofTarget \intersect {Untyped, OutputType(from)} # {}
        /\ (/\ Kind[from.node] = "collect" /\ from.handle = "collection"
            /\ Kind[c.target] = "collect" /\ c.targetHandle = "collection") =>
               Untyped \in ofSource \union ofTarget \/ ofSource \intersect ofTarget # {}

IfKeepsType(c, from, N, E) ==
    Kind[c.target] = "if" /\ c.targetHandle \in IfInputs =>
        LET others == IfSources(c.target, {Sibling(c.targetHandle)}, N, E)
        IN  others = {} \/ \E f \in others : f.is = "field" /\ EitherWay(OutputType(from), OutputType(f))

TypesFit(from, c, N, E) ==
    LET fed == {f \in IfSources(from.node, IfInputs, N, E) : f.is = "field"}
        target == Inputs[c.target][c.targetHandle]
    IN  IF Kind[from.node] = "if" /\ from.handle = "value" /\ fed # {}
        THEN \A f \in fed : validateConnectionTypes(OutputType(f), target)
        ELSE validateConnectionTypes(OutputType(from), target)

\* A connection into a field of an invocation node.  E has the edge that is
\* being replaced, F does not.
EntersField(c, N, E, F) ==
    LET from == getEffectiveSource(c.source, c.sourceHandle, N, F)
        taken == \E e \in F : e.target = c.target /\ e.targetHandle = c.targetHandle
    IN  /\ c.source # c.target
        /\ c \notin F
        /\ c.target \in N
        /\ CASE from.is = "missing" -> FALSE
             [] from.is = "unresolved" -> FitsTheOthers(c, N, F)
             [] OTHER -> /\ CollectKeepsType(c, from, N, F)
                         /\ IfKeepsType(c, from, N, F)
                         /\ taken => Inputs[c.target][c.targetHandle].name = "CollectionItemField"
                         /\ TypesFit(from, c, N, F)
                         /\ ~getHasCycles(c, E)

\* Mutant: what is behind the connector is not looked at.
EntersUnchecked(c, N, F) ==
    /\ c.source # c.target
    /\ c.target \in N
    /\ \A e \in F : e.target # c.target

\* A connection into a connector is one into every field behind it, when the
\* source is known.
EntersConnector(c, N, F) ==
    LET staged == F \ ConnectorSubgraph(c.target, N, F)
    IN  /\ c.source # c.target
        /\ c.target \in N
        /\ getEffectiveSource(c.source, c.sourceHandle, N, F).is # "missing"
        /\ \A e \in F : e.target # c.target
        /\ getEffectiveSource(c.source, c.sourceHandle, N, F).is = "field" =>
               \A e \in TerminalEdges(c.target, N, F) :
                   EntersField(Edge(c.source, c.sourceHandle, e.target, e.targetHandle), N, staged, staged)

validateConnection(c, N, E, ignored) ==
    IF c.target \in Connectors THEN EntersConnector(c, N, E \ ignored)
    ELSE EntersField(c, N, E, E \ ignored)

-----------------------------------------------------------------------------
(* buildNodesGraph: the edges of the graph that is sent to the queue.      *)

Flattened(N, E) ==
    LET from(e) == getEffectiveSource(e.source, e.sourceHandle, N, E)
        sent == {e \in E : e.target \in N \intersect Invocations /\ from(e).is = "field"}
    IN  {Edge(from(e).node, from(e).handle, e.target, e.targetHandle) : e \in sent}

flow == Flattened(nodes, edges)

-----------------------------------------------------------------------------
(* Changes of the nodes.                                                   *)

\* nodesChanged drops the edges that have lost an end ...
Attached(N, E) == {e \in E : {e.source, e.target} \subseteq N}

\* Mutant: only the edge before the connector is followed.
SplicesDirect(k) ==
    {Edge(d.source, d.sourceHandle, e.target, e.targetHandle) :
        d \in {d \in edges : d.target = k /\ d.source \in Invocations}, e \in OutputEdges(k, edges)}

\* ... and joins what the removed connectors joined, as things stood before.
SplicesOf(k) ==
    LET from == resolveConnectorSource(k, nodes, edges)
    IN  IF from.is = "field"
        THEN {Edge(from.node, from.handle, e.target, e.targetHandle) : e \in OutputEdges(k, edges)}
        ELSE {}

Removed(S) == Attached(nodes \ S, edges) \union UNION {SplicesOf(k) : k \in S \intersect Connectors}

Sources(N) == {<<n, OutHandle>> : n \in N \intersect Connectors}
              \union UNION {{n} \X DOMAIN Outputs[n] : n \in N \intersect Invocations}
Targets(N) == {<<n, InHandle>> : n \in N \intersect Connectors}
              \union UNION {{n} \X DOMAIN Inputs[n] : n \in N \intersect Invocations}
Connections(N) == {Edge(s[1], s[2], t[1], t[2]) : s \in Sources(N), t \in Targets(N)}

\* A node is chosen from the list; a wire dropped on the pane joins it.
AddNode(n) ==
    LET kept == Attached(nodes \union {n}, edges)
        wires == {c \in Connections(nodes \union {n}) :
                    n \in {c.source, c.target} /\ validateConnection(c, nodes \union {n}, kept, {})}
    IN  /\ n \in Invocations \ used
        /\ nodes' = nodes \union {n}
        /\ used' = used \union {n}
        /\ edges' \in {kept} \union {kept \union {c} : c \in wires}
        /\ Cardinality(edges') <= MaxEdges

\* UpdateNodesButton: the node is removed and added again in one change.
UpdateNode(n) ==
    /\ n \in nodes \intersect Invocations
    /\ edges' = Attached(nodes, edges)
    /\ UNCHANGED <<nodes, used>>

AddConnector(k) ==
    /\ k \in Connectors \ used
    /\ nodes' = nodes \union {k}
    /\ used' = used \union {k}
    /\ edges' = Attached(nodes \union {k}, edges)

\* A double click on an edge puts a connector into it.
connectorInserted(e, k) ==
    /\ e \in Attached(nodes, edges)
    /\ k \in Connectors \ used
    /\ Cardinality(edges) < MaxEdges
    /\ nodes' = nodes \union {k}
    /\ used' = used \union {k}
    /\ edges' = (edges \ {e}) \union
                    {Edge(e.source, e.sourceHandle, k, InHandle), Edge(k, OutHandle, e.target, e.targetHandle)}

\* The selected nodes go first, then the selected edges.
deleteSelection(S, D) ==
    /\ S \subseteq nodes
    /\ D \subseteq edges
    /\ nodes' = nodes \ S
    /\ edges' = (IF S = {} THEN edges ELSE Removed(S)) \ D
    /\ UNCHANGED used

\* getConnectorDeletionSpliceConnections tries the new connections one after
\* the other, each with those before it in place: may it succeed, may it fail?
RECURSIVE Tried(_, _)
Tried(todo, staged) ==
    IF todo = {} THEN {TRUE}
    ELSE UNION {IF validateConnection(c, nodes, staged, {})
                THEN Tried(todo \ {c}, staged \union {c})
                ELSE {FALSE} : c \in todo}

Around(k) == {e \in edges : k \in {e.source, e.target}}

\* The connector's own menu joins its neighbours only if every new
\* connection is valid.
deleteConnectorFromContextMenu(k) ==
    /\ k \in nodes \intersect Connectors
    /\ \E joined \in Tried(SplicesOf(k), edges \ Around(k)) :
           edges' = Attached(nodes \ {k},
                        (edges \ Around(k)) \union (IF joined THEN SplicesOf(k) ELSE {}))
    /\ nodes' = nodes \ {k}
    /\ UNCHANGED used

-----------------------------------------------------------------------------
(* Changes of the edges.                                                   *)

onConnect(c) ==
    /\ Cardinality(edges) < MaxEdges
    /\ validateConnection(c, nodes, edges, {})
    /\ edges' = edges \union {c}
    /\ UNCHANGED <<nodes, used>>

SameEnd(c, e) ==
    \/ c.source = e.source /\ c.sourceHandle = e.sourceHandle
    \/ c.target = e.target /\ c.targetHandle = e.targetHandle

\* One end of an edge is dragged to another field.
onReconnect(e, c) ==
    /\ e \in Attached(nodes, edges)
    /\ c # e /\ SameEnd(c, e)
    /\ validateConnection(c, nodes, edges, {e})
    /\ edges' = (edges \ {e}) \union {c}
    /\ UNCHANGED <<nodes, used>>

\* ... or dropped on the pane.
onReconnectEnd(e) ==
    /\ e \in Attached(nodes, edges)
    /\ edges' = edges \ {e}
    /\ UNCHANGED <<nodes, used>>

-----------------------------------------------------------------------------

Init ==
    /\ nodes = {}
    /\ edges = {}
    /\ used = {}

\* What may be selected: some nodes and at most one edge.
Selections ==
    {sel \in (SUBSET nodes) \X ({{}} \union {{e} : e \in edges}) :
        Cardinality(sel[1]) + Cardinality(sel[2]) \in 1..MaxSelected}

Next ==
    \/ \E n \in Invocations : AddNode(n) \/ UpdateNode(n)
    \/ \E k \in Connectors : AddConnector(k) \/ deleteConnectorFromContextMenu(k)
    \/ \E e \in edges, k \in Connectors : connectorInserted(e, k)
    \/ \E sel \in Selections : deleteSelection(sel[1], sel[2])
    \/ \E c \in Connections(nodes) : onConnect(c)
    \/ \E e \in edges, c \in Connections(nodes) : onReconnect(e, c)
    \/ \E e \in edges : onReconnectEnd(e)

Spec == Init /\ [][Next]_vars

-----------------------------------------------------------------------------
(* Properties.                                                             *)

TypeOK ==
    /\ nodes \subseteq used
    /\ used \subseteq Invocations \union Connectors
    /\ edges \subseteq Connections(used)

\* The graph that is sent has no cycle, though the editor's check looks only
\* at some connections, lets a cycle of connectors be drawn, and leaves a
\* wire without a source until it has one.
FlowIsAcyclic == ~OnCycle(flow)

\* At most one edge enters a field of the graph that is sent, save a collect
\* node's items, though several connectors may wait at the field.
OneSourcePerInput ==
    \A d, e \in flow :
        d.target = e.target /\ d.targetHandle = e.targetHandle =>
            d = e \/ Inputs[d.target][d.targetHandle].name = "CollectionItemField"

\* A value fits the field it is sent to, by whatever connectors and in
\* whatever order the wire was drawn.  (The type of what an if node yields
\* changes as its inputs do, and is not checked again.)
FlowFits ==
    \A e \in flow :
        Kind[e.source] # "if" =>
            validateConnectionTypes(Outputs[e.source][e.sourceHandle], Inputs[e.target][e.targetHandle])

\* What the user may draw, one checked edge at a time, is at all times a graph
\* that the backend accepts.
EditorInv == TypeOK /\ FlowIsAcyclic /\ OneSourcePerInput /\ FlowFits

FlowBetween(N) == {e \in flow : {e.source, e.target} \subseteq N}

\* Connectors do not matter to the graph that is sent: drawing one into an
\* edge changes nothing; deleting nodes, with any connectors among them, takes
\* away what the deleted nodes sent or received and nothing else; and the
\* connector's menu, which may cut a wire, joins no two nodes that were apart.
ConnectorsAreTransparent ==
    [][/\ (\E e \in edges \ edges', k \in nodes' \ nodes : connectorInserted(e, k)) => flow' = flow
       /\ LET S == nodes \ nodes'
          IN  S # {} /\ deleteSelection(S, {}) => flow' = FlowBetween(nodes')
       /\ \A k \in Connectors \ nodes' : deleteConnectorFromContextMenu(k) => flow' \subseteq flow]_vars

=============================================================================
