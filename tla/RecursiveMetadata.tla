------------------------- MODULE RecursiveMetadata -------------------------
(***************************************************************************)
(* The type graph of a function (src/metadata/recursive-metadata.ts), the  *)
(* index of its parameters (recursive-parameter-index.ts) and the decision *)
(* with which serializer a deep call may be sent                           *)
(* (src/values/recursive-serializer-classification.ts).                    *)
(*                                                                         *)
(* What the partner delivers, d, is a record: rows (of the type closure:   *)
(* type, field, exid, target, offset, length, total, stamp), indirect      *)
(* (table, path, target), parameters (function, class, name, table, path,  *)
(* exid), functions (the rows of FUNCTIONNAMES, when it was delivered) and *)
(* the roots asked for.  A path is the sequence of its segments.  Of the   *)
(* two geometries of a row, which obey the same rules, one is kept.        *)
(***************************************************************************)
EXTENDS Integers, Sequences, FiniteSets, SequencesExt

CONSTANTS MaxRows, MaxNodes, MaxEdges, MaxDepth   \* DEFAULT_LIMITS

NotGiven == [given |-> FALSE]
NoFunction == [name |-> "", basxml |-> FALSE]
Rejected == [ok |-> FALSE]
SumOf(Of(_), s) == FoldLeft(LAMBDA sum, x : sum + Of(x), 0, s)
Largest(S) == CHOOSE x \in S : \A y \in S : y <= x

(***************************************************************************)
(* Types                                                                   *)
(***************************************************************************)
\* classifyReference()
Refers(exid) ==
  CASE exid = "h" -> "table" [] exid \in {"u", "v"} -> "structure" [] OTHER -> "scalar"
Deep(row) == Refers(row.exid) # "scalar"

\* buildNodes(): the rows of a type are next to each other
Groups(rows) ==
  LET starts == SelectSeq([i \in DOMAIN rows |-> i],
                          LAMBDA i : i = 1 \/ rows[i].type # rows[i - 1].type)
      end(i) == IF i = Len(starts) THEN Len(rows) ELSE starts[i + 1] - 1
  IN [i \in DOMAIN starts |-> SubSeq(rows, starts[i], end(i))]

Anonymous(group) == \E i \in DOMAIN group : group[i].field = ""
TotalOf(group) ==
  IF Anonymous(group) /\ ~Deep(group[1]) /\ group[1].total = 0
  THEN group[1].offset + group[1].length ELSE group[1].total

GroupSound(group) ==
  /\ Anonymous(group) => Len(group) = 1
  /\ \A i, j \in DOMAIN group : group[i].field = group[j].field => i = j
  /\ \A i \in DOMAIN group :
       /\ group[i].total = group[1].total /\ group[i].stamp = group[1].stamp
       /\ Deep(group[i]) => group[i].target # ""
       /\ group[i].offset >= IF i = 1 THEN 0 ELSE group[i - 1].offset + group[i - 1].length
       /\ group[i].offset + group[i].length <= TotalOf(group)

MemberOf(row) ==
  [name |-> row.field, kind |-> Refers(row.exid), exid |-> row.exid,
   target |-> IF Deep(row) THEN row.target ELSE ""]
NodeOf(group) ==
  [name |-> group[1].type, length |-> TotalOf(group),
   kind |-> IF ~Anonymous(group) THEN "structure"
            ELSE IF Deep(group[1]) THEN "table" ELSE "scalar",
   fields |-> [i \in DOMAIN group |-> MemberOf(group[i])]]

NamesOf(nodes) == {nodes[i].name : i \in DOMAIN nodes}
Node(nodes, name) == nodes[CHOOSE i \in DOMAIN nodes : nodes[i].name = name]
References(node) == SelectSeq(node.fields, LAMBDA f : f.kind # "scalar")
FieldEdges(nodes) == SumOf(LAMBDA node : Len(References(node)), nodes)

\* refineTableNodeKinds(): a scalar type is a table of that scalar when
\* something refers to it as to a table.
Targets(d, p) == {i \in DOMAIN d.indirect :
                    d.indirect[i].table = p.table /\ d.indirect[i].path = p.path}
Indirect(d, p) == d.indirect[CHOOSE i \in Targets(d, p) : TRUE].target
RequiredTables(d, nodes) ==
  {f.target : f \in {g \in UNION {Range(nodes[i].fields) : i \in DOMAIN nodes} :
                       g.kind = "table"}}
  \cup {IF p.path = <<>> THEN p.table ELSE Indirect(d, p) :
          p \in {q \in Range(d.parameters) :
                   /\ q.exid = "h"
                   /\ \/ q.path = <<>> /\ q.table # ""
                      \/ Len(q.path) > 1 /\ Cardinality(Targets(d, q)) = 1}}
Refined(d, nodes) ==
  [i \in DOMAIN nodes |->
     IF nodes[i].kind = "scalar" /\ nodes[i].name \in RequiredTables(d, nodes)
     THEN [nodes[i] EXCEPT !.kind = "table"] ELSE nodes[i]]

\* validateNodeTargets()
TargetsMatch(nodes) ==
  \A i \in DOMAIN nodes : \A f \in Range(References(nodes[i])) :
    f.target \in NamesOf(nodes) /\ Node(nodes, f.target).kind = f.kind

(***************************************************************************)
(* Parameters                                                              *)
(***************************************************************************)
IsScalar(node) ==
  Len(node.fields) = 1 /\ node.fields[1].name = "" /\ node.fields[1].kind = "scalar"

\* mappedTarget(), directFieldReference(): a path of more than one segment is
\* looked up among the indirect types, one of a single segment in its table.
FieldsNamed(nodes, p) ==
  {f \in Range(Node(nodes, p.table).fields) : f.name = p.path[1]}
Resolved(nodes, p) == CHOOSE f \in FieldsNamed(nodes, p) : TRUE
PathKnown(d, nodes, p) ==
  CASE p.path = <<>> -> TRUE
    [] Len(p.path) = 1 -> /\ p.table \in NamesOf(nodes)
                          /\ p.path[1] # "" /\ FieldsNamed(nodes, p) # {}
    [] OTHER -> /\ p.table # "" /\ Targets(d, p) # {}
                /\ Indirect(d, p) \in NamesOf(nodes)

\* A scalar, or a table of scalars: the type need not be described at all.
ScalarNames(d, nodes, p) ==
  (IF Len(p.path) > 1 THEN {Indirect(d, p)} ELSE {p.table}) \cap NamesOf(nodes)
ScalarSound(d, nodes, p) ==
  /\ PathKnown(d, nodes, p)
  /\ IF Len(p.path) = 1 THEN Resolved(nodes, p).kind = "scalar"
     ELSE \A name \in ScalarNames(d, nodes, p) : IsScalar(Node(nodes, name))

Target(d, nodes, p) ==
  CASE p.path = <<>> -> p.table
    [] Len(p.path) = 1 -> Resolved(nodes, p).target
    [] OTHER -> Indirect(d, p)
DeepSound(d, nodes, p) ==
  /\ p.table # "" /\ PathKnown(d, nodes, p)
  /\ Len(p.path) = 1 => Resolved(nodes, p).kind # "scalar"
  /\ Target(d, nodes, p) \in NamesOf(nodes)
  /\ LET kind == Node(nodes, Target(d, nodes, p)).kind IN
     /\ p.exid = "h" => kind = "table"
     /\ p.exid \in {"u", "v"} /\ p.class # "T" => kind = "structure"

\* provisionalParameters()
RootsOf(d, nodes, p) ==
  CASE p.class = "X" -> {}
    [] p.class # "X" /\ Deep(p) -> {Target(d, nodes, p)}
    [] OTHER -> ScalarNames(d, nodes, p)
EdgesOf(d, nodes, p) ==
  CASE p.class = "X" -> 0
    [] p.class = "T" \/ Deep(p) -> 1
    [] OTHER -> Cardinality(ScalarNames(d, nodes, p))
Edges(d, nodes) ==
  FieldEdges(nodes) + SumOf(LAMBDA p : EdgesOf(d, nodes, p), d.parameters)
Consumes(d, i, p) == p.class # "X" /\ i \in Targets(d, p)
ParametersSound(d, nodes) ==
  /\ \A i, j \in DOMAIN d.parameters : d.parameters[i].name = d.parameters[j].name => i = j
  /\ \A i, j \in DOMAIN d.indirect :
       /\ Len(d.indirect[i].path) > 1
       /\ d.indirect[i].table = d.indirect[j].table /\ d.indirect[i].path = d.indirect[j].path
            => i = j
  /\ \A p \in Range(d.parameters) : p.class # "X" =>
       p.exid # "" /\ IF Deep(p) THEN DeepSound(d, nodes, p) ELSE ScalarSound(d, nodes, p)
  /\ \A i \in DOMAIN d.indirect : \E p \in Range(d.parameters) : Consumes(d, i, p)

\* validateFunctionIdentity()
IdentitySound(d) ==
  LET functions == {p.function : p \in Range(d.parameters)} IN
  /\ Cardinality(functions) <= 1
  /\ d.functions.given => /\ Len(d.functions.rows) <= 1
                          /\ functions \subseteq {f.name : f \in Range(d.functions.rows)}
IdentityOf(d) ==
  IF d.functions.given /\ d.functions.rows # <<>> THEN d.functions.rows[1] ELSE NoFunction

(***************************************************************************)
(* Components, cycles and depth: graphComponents()                         *)
(***************************************************************************)
IndexOf(nodes, name) == CHOOSE i \in DOMAIN nodes : nodes[i].name = name
Adjacency(nodes) ==
  [i \in DOMAIN nodes |->
     LET refs == References(nodes[i]) IN [k \in DOMAIN refs |-> IndexOf(nodes, refs[k].target)]]

RECURSIVE Visit(_, _, _)
\* The first pass, from a node that was not visited: children before parents
Visit(next, s, node) ==
  LET below == FoldLeft(LAMBDA t, child : IF child \in t.visited THEN t ELSE Visit(next, t, child),
                        [s EXCEPT !.visited = @ \cup {node}], next[node])
  IN [below EXCEPT !.finish = Append(@, node)]
Finish(next) ==
  FoldLeft(LAMBDA s, node : IF node \in s.visited THEN s ELSE Visit(next, s, node),
           [visited |-> {}, finish |-> <<>>], [i \in DOMAIN next |-> i]).finish

RECURSIVE Sources(_, _, _)
\* The second pass: whatever is not yet taken and leads to a member
Sources(next, members, taken) ==
  LET more == {i \in DOMAIN next \ (members \cup taken) : Range(next[i]) \cap members # {}}
  IN IF more = {} THEN members ELSE Sources(next, members \cup more, taken)

\* (A variant that starts the second pass at the node finished first.)
ComponentsForward(next) ==
  FoldLeft(LAMBDA found, node :
             LET taken == UNION Range(found) IN
             IF node \in taken THEN found
             ELSE Append(found, Sources(next, {node}, taken)), <<>>, Finish(next))
Components(next) ==
  FoldLeft(LAMBDA found, node :
             LET taken == UNION Range(found) IN
             IF node \in taken THEN found
             ELSE Append(found, Sources(next, {node}, taken)), <<>>, Reverse(Finish(next)))

ComponentOf(components, i) == CHOOSE c \in DOMAIN components : i \in components[c]
IsCyclic(next, members) ==
  Cardinality(members) > 1 \/ \E i \in members : i \in Range(next[i])

Below(next, components, c) ==
  {ComponentOf(components, j) : j \in UNION {Range(next[i]) : i \in components[c]}} \ {c}

RECURSIVE ReachedFrom(_, _)
ReachedFrom(below, found) ==
  LET more == UNION {below[c] : c \in found} \ found IN
  IF more = {} THEN found ELSE ReachedFrom(below, found \cup more)

RECURSIVE Deepest(_, _, _, _)
\* Component after component, once all that refer to it are done (queue)
Deepest(below, reached, done, depth) ==
  LET ready == {c \in reached \ done : \A b \in reached \ done : c \notin below[b]} IN
  IF ready = {} THEN Largest({0} \cup {depth[c] : c \in done})
  ELSE LET c == CHOOSE x \in ready : TRUE IN
       Deepest(below, reached, done \cup {c},
               [b \in DOMAIN depth |->
                  IF b \in below[c] /\ depth[b] < depth[c] + 1 THEN depth[c] + 1 ELSE depth[b]])

\* What graphComponents() makes of the nodes; roots are indices, all when none.
Graph(next, roots) ==
  LET components == Components(next)
      below == [c \in DOMAIN components |-> Below(next, components, c)]
      reached == ReachedFrom(below, {ComponentOf(components, i) : i \in roots})
  IN [components |-> components,
      cyclic |-> {c \in DOMAIN components : IsCyclic(next, components[c])},
      reached |-> UNION {components[c] : c \in reached},
      depth |-> Deepest(below, reached, {}, [c \in DOMAIN components |-> 1])]

(***************************************************************************)
(* normalizeRecursiveMetadataGraph()                                       *)
(***************************************************************************)
RowsBounded(d) ==
  (IF d.functions.given THEN Len(d.functions.rows) ELSE 0)
  + Len(d.rows) + Len(d.indirect) + Len(d.parameters) <= MaxRows
RowsSound(d) ==
  LET groups == Groups(d.rows) IN
  /\ \A i, j \in DOMAIN groups : groups[i][1].type = groups[j][1].type => i = j
  /\ \A i \in DOMAIN groups : GroupSound(groups[i])

NodesOf(d) ==
  LET groups == Groups(d.rows) IN Refined(d, [i \in DOMAIN groups |-> NodeOf(groups[i])])

AllRoots(d, nodes) ==
  LET named == d.roots \cup UNION {RootsOf(d, nodes, p) : p \in Range(d.parameters)}
  IN IF named = {} THEN NamesOf(nodes) ELSE named

\* finalNodes(), finalParameters(), finalCycles()
Cyclic(g, i, j) ==
  LET c == ComponentOf(g.components, i) IN j \in g.components[c] /\ c \in g.cyclic
FinalNode(g, nodes, i) ==
  [name |-> nodes[i].name, kind |-> nodes[i].kind, length |-> nodes[i].length,
   cyclic |-> {f.name : f \in {h \in Range(References(nodes[i])) :
                                 Cyclic(g, i, IndexOf(nodes, h.target))}},
   fields |-> nodes[i].fields]
FinalParameter(d, g, nodes, p) ==
  [function |-> p.function, name |-> p.name, class |-> p.class, table |-> p.table,
   exid |-> p.exid] @@
  CASE p.class = "X" -> [kind |-> "exception"]
    [] p.class # "X" /\ Deep(p) ->
         LET i == IndexOf(nodes, Target(d, nodes, p)) IN
         [kind |-> IF p.class = "T" \/ p.exid = "h" THEN "table" ELSE "structure",
          target |-> nodes[i].name, cyclic |-> ComponentOf(g.components, i) \in g.cyclic]
    [] p.class = "T" /\ ~Deep(p) -> [kind |-> "table", cyclic |-> FALSE]
    [] OTHER -> [kind |-> "scalar"]

Final(d, nodes) ==
  LET roots == AllRoots(d, nodes)
      g == Graph(Adjacency(nodes), {IndexOf(nodes, name) : name \in roots})
  IN IF g.depth > MaxDepth \/ g.reached # DOMAIN nodes THEN Rejected
     ELSE [ok |-> TRUE, identity |-> IdentityOf(d), roots |-> roots, depth |-> g.depth,
           edges |-> Edges(d, nodes),
           nodes |-> [i \in DOMAIN nodes |-> FinalNode(g, nodes, i)],
           parameters |-> [i \in DOMAIN d.parameters |->
                             FinalParameter(d, g, nodes, d.parameters[i])],
           cycles |-> {{nodes[i].name : i \in g.components[c]} : c \in g.cyclic}]

Normalized(d) ==
  LET nodes == NodesOf(d) IN
  IF ~(RowsBounded(d) /\ IdentitySound(d) /\ RowsSound(d)) THEN Rejected
  ELSE IF ~(Len(nodes) <= MaxNodes /\ FieldEdges(nodes) <= MaxEdges) THEN Rejected
  ELSE IF ~TargetsMatch(nodes) THEN Rejected
  ELSE IF ~ParametersSound(d, nodes) THEN Rejected
  ELSE IF ~(Edges(d, nodes) <= MaxEdges /\ d.roots \subseteq NamesOf(nodes)) THEN Rejected
  ELSE Final(d, nodes)

(***************************************************************************)
(* Serializers                                                             *)
(***************************************************************************)
\* createRecursiveMetadataParameterIndex()
Indexed(graph) ==
  /\ graph.identity # NoFunction
  /\ Len(graph.parameters) <= MaxRows
  /\ \A i, j \in DOMAIN graph.parameters :
       graph.parameters[i].name = graph.parameters[j].name => i = j

\* What the two codecs resolve between them (values/recursive-classic-xrfc.ts
\* and recursive-xrfc.ts): a described type below which nothing is cyclic.  Of
\* a TABLES parameter with rows of type u it has to be a table.
TypesBelow(graph, name) ==
  ReachedFrom([n \in NamesOf(graph.nodes) |->
                 {f.target : f \in Range(References(Node(graph.nodes, n)))}], {name})
Resolves(graph, p) ==
  \E q \in Range(graph.parameters) :
    /\ q.function = p.function /\ q.name = p.name /\ q.class = p.class
    /\ q.table = p.table /\ q.exid = p.exid
    /\ "target" \in DOMAIN q
    /\ \A name \in TypesBelow(graph, q.target) : Node(graph.nodes, name).cyclic = {}
    /\ q.class = "T" /\ q.exid = "u" => Node(graph.nodes, q.target).kind = "table"

\* snapshotParameters(): those to be sent are described by the graph.
NamesSent(sent) == {p.name : p \in sent}
GraphDescribed(graph, sent) ==
  /\ Indexed(graph) /\ sent # {} /\ Cardinality(sent) <= Len(graph.parameters)
  /\ Cardinality(NamesSent(sent)) = Cardinality(sent)
  /\ \A p \in sent : p.function = graph.identity.name /\ Resolves(graph, p)

Decision(profile, graph, sent, serializer, status, allowed, negotiation) ==
  [ok |-> TRUE, profile |-> profile, graph |-> graph, names |-> NamesSent(sent),
   basxml |-> graph.identity.basxml, serializer |-> serializer, status |-> status, allowed |-> allowed,
   negotiation |-> negotiation]

\* classifyRecursiveSerializer(); seen is what the partner was observed to do
\* by default and with basXML disabled.
Classify(profile, graph, sent, seen) ==
  CASE ~graph.ok \/ ~GraphDescribed(graph, sent) -> Rejected
    [] graph.ok /\ GraphDescribed(graph, sent) ->
       IF profile = "offline"
       THEN IF seen.given THEN Rejected
            ELSE Decision(profile, graph, sent, "classic-xrfc", "offline", TRUE, "unknown")
       ELSE IF ~seen.given THEN Rejected
       ELSE IF seen.disabled = "classic-xrfc"
       THEN IF seen.default = "unsupported" THEN Rejected
            ELSE Decision(profile, graph, sent, "classic-xrfc", "live", TRUE, "disabled")
       ELSE IF seen.default # "basxml" THEN Rejected
       ELSE Decision(profile, graph, sent, "basxml-required", "blocked", FALSE, "required")

\* assertRecursiveSerializerSendDecision()
SameParameters(decision, sent) == decision.names = NamesSent(sent)
MaySend(graph, sent, decision) ==
  /\ graph.ok /\ GraphDescribed(graph, sent)
  /\ decision.ok /\ decision.graph = graph /\ SameParameters(decision, sent)
  /\ decision.basxml = graph.identity.basxml
  /\ decision.profile # "offline" /\ decision.serializer # "basxml-required"
  /\ decision.status = "live" /\ decision.allowed /\ decision.negotiation = "disabled"
=============================================================================
