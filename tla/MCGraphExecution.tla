---------------------------- MODULE MCGraphExecution ----------------------------
(***************************************************************************)
(* Source graphs for TLC, most of them those of                            *)
(* tests/test_graph_execution_state.py.                                    *)
(***************************************************************************)
EXTENDS GraphExecution

Edge(s, d, f) == [src |-> s, dst |-> d, field |-> f]

\* The topological orders of a graph.
Orders(N, E) ==
    LET Up[k \in Nat] ==
            IF k = 0 THEN {<<>>}
            ELSE {Append(o, x) : <<o, x>> \in
                    {p \in Up[k - 1] \X N :
                        /\ \A j \in DOMAIN p[1] : p[1][j] # p[2]
                        /\ \A e \in InEdges(E, p[2]) : \E j \in DOMAIN p[1] : p[1][j] = e.src}}
    IN  Up[Cardinality(N)]

\* A graph of plain nodes N, iterators I, collectors C and Ifs F; out gives the
\* outputs of the nodes where they matter.  Class names sort as the nodes do
\* in `names`; two nodes of a set of `names` are of one class.
Make(N, I, C, F, E, names, out, n) ==
    LET all == N \cup I \cup C \cup F
    IN  [kind |-> [x \in all |-> IF x \in I THEN "iterate" ELSE IF x \in C THEN "collect"
                                 ELSE IF x \in F THEN "if" ELSE "plain"],
         edges |-> E,
         cls |-> [x \in all |-> CHOOSE k \in DOMAIN names : x \in names[k]],
         out |-> [x \in all |-> IF x \in DOMAIN out THEN out[x] ELSE {0}],
         on |-> {},
         orders |-> {},
         reloads |-> n]
AllOrders(g) == [g EXCEPT !.orders = Orders(DOMAIN g.kind, g.edges)]
OneOrder(g) == [g EXCEPT !.orders = {CHOOSE o \in Orders(DOMAIN g.kind, g.edges) : TRUE}]

\* An iterator between a collection and a collector, beside a chain of its own.
Iteration == Make({"range", "mul", "use", "p1", "p2"}, {"iter"}, {"all"}, {},
    {Edge("range", "iter", "collection"), Edge("iter", "mul", "a"), Edge("iter", "mul", "b"),
     Edge("mul", "all", "item"), Edge("all", "use", "value"), Edge("p1", "p2", "prompt")},
    <<{"all"}, {"iter"}, {"mul", "use"}, {"p1", "p2"}, {"range"}>>, [range |-> 1 .. 2], 1)

\* An iterator under an iterator.
Nested == Make({"orange", "irange", "sum"}, {"outer", "inner"}, {"all"}, {},
    {Edge("orange", "outer", "collection"), Edge("outer", "irange", "start"),
     Edge("irange", "inner", "collection"), Edge("inner", "sum", "a"), Edge("outer", "sum", "b"),
     Edge("sum", "all", "item")},
    <<{"sum"}, {"all"}, {"inner", "outer"}, {"orange", "irange"}>>,
    [orange |-> {2}, irange |-> 1 .. 2], 1)

\* Two independent iterators: every combination; then over what was collected.
Product == Make({"c1", "c2", "add", "last"}, {"i1", "i2", "again"}, {"all"}, {},
    {Edge("c1", "i1", "collection"), Edge("c2", "i2", "collection"), Edge("i1", "add", "a"),
     Edge("i2", "add", "b"), Edge("add", "all", "item"), Edge("all", "again", "collection"),
     Edge("again", "last", "a")},
    <<{"add", "last"}, {"all"}, {"c1", "c2"}, {"i1", "i2", "again"}>>, [c1 |-> 1 .. 2, c2 |-> {2}], 0)

\* An If with a chain behind it, and another whose condition is a constant.
SimpleIf == Make({"cond", "t", "t0", "f", "sel"}, {}, {}, {"if", "const"},
    {Edge("cond", "if", "condition"), Edge("t0", "t", "a"), Edge("t", "if", "true_input"),
     Edge("f", "if", "false_input"), Edge("if", "const", "true_input"), Edge("cond", "const", "false_input"),
     Edge("const", "sel", "a")},
    <<{"cond"}, {"if", "const"}, {"t", "t0", "f", "sel"}>>, [cond |-> {0, 1}], 1)
ConstantIf == [SimpleIf EXCEPT !.on = {"const"}]

\* A condition per iteration; a node of the true branch has a consumer outside.
IfPerItem == Make({"conds", "shared", "t", "f", "obs"}, {"iter"}, {"all", "seen"}, {"if"},
    {Edge("conds", "iter", "collection"), Edge("iter", "if", "condition"), Edge("iter", "shared", "value"),
     Edge("shared", "t", "value"), Edge("t", "if", "true_input"), Edge("iter", "f", "value"),
     Edge("f", "if", "false_input"), Edge("shared", "obs", "value"), Edge("if", "all", "item"),
     Edge("obs", "seen", "item")},
    <<{"t", "f", "shared", "obs"}, {"conds"}, {"all", "seen"}, {"if"}, {"iter"}>>,
    [conds |-> {2}, iter |-> {0, 1}], 1)

\* An If in the true branch of an If.
NestedIf == Make({"oc", "ic", "of", "it", "if", "sel"}, {}, {}, {"inner", "outer"},
    {Edge("ic", "inner", "condition"), Edge("it", "inner", "true_input"), Edge("if", "inner", "false_input"),
     Edge("oc", "outer", "condition"), Edge("inner", "outer", "true_input"), Edge("of", "outer", "false_input"),
     Edge("outer", "sel", "prompt")},
    <<{"oc", "ic"}, {"inner", "outer"}, {"of", "it", "if", "sel"}>>, [oc |-> {0, 1}, ic |-> {0, 1}], 0)

\* The If chooses what is iterated over.
ChosenCollection == Make({"cond", "c1", "c2", "x"}, {"iter"}, {}, {"if"},
    {Edge("cond", "if", "condition"), Edge("c1", "if", "true_input"), Edge("c2", "if", "false_input"),
     Edge("if", "iter", "collection"), Edge("iter", "x", "a"), Edge("c2", "x", "b")},
    <<{"cond"}, {"c1", "c2"}, {"if"}, {"iter"}, {"x"}>>, [cond |-> {0, 1}, c1 |-> {1}, c2 |-> {2}], 1)

Regular == {AllOrders(Iteration), AllOrders(Nested), AllOrders(Product), AllOrders(SimpleIf),
            AllOrders(ConstantIf), OneOrder(IfPerItem), OneOrder(NestedIf),
            AllOrders(ChosenCollection)}

=============================================================================
