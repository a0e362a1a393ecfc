-------------------------- MODULE ClassicInvocation -------------------------
(***************************************************************************)
(* One invocation of a function (src/client/classic-invocation.ts): what   *)
(* it captures of the caller, what metadata it needs, the request it       *)
(* builds and the outputs it takes from the answer.                        *)
(*                                                                         *)
(* An invocation c is a record: function, parameters, input, activated,    *)
(* deactivated, notRequested, maximum, types (the structure definitions at *)
(* hand) and graph (recursive metadata, or none).  Of the scalar types,    *)
(* one of each way of writing a value stands for the others: C, N, X, I,   *)
(* g; the containers are u, v and h.  The value of a structure is the      *)
(* bytes of its fields; that of a deep one is opaque.                      *)
(***************************************************************************)
EXTENDS ClassicRecords

Names(c) == {p.name : p \in Range(c.parameters)}
Outputs == {"E", "C", "T"}
Containers == {"u", "v", "h"}

(***************************************************************************)
(* What is captured                                                        *)
(***************************************************************************)
StatesKnown(c) == c.notRequested \cup c.activated \cup c.deactivated \subseteq Names(c)

ClassOf(c, name) == (CHOOSE p \in Range(c.parameters) : p.name = name).class

Capturable(c) ==
  /\ Len(c.parameters) <= MaxFieldCount /\ StatesKnown(c)
  /\ \A name \in DOMAIN c.input : name \in Names(c)
  /\ \A name \in DOMAIN c.input : ClassOf(c, name) # "E"

\* captureClassicRfcInvocation(): whatever is supplied is active, for the
\* request as for the answer.
\* (A variant that leaves that to the input, which the answer's decoder does
\* not see.)
CapturedInput(c) == IF Capturable(c) THEN [ok |-> TRUE, c |-> c] ELSE Refused
Captured(c) ==
  IF Capturable(c) THEN [ok |-> TRUE, c |-> [c EXCEPT !.activated = @ \cup DOMAIN c.input]]
  ELSE Refused

Inactive(c) == c.notRequested \cup c.deactivated

\* activeInputValue(): whether a parameter goes out
Supplied(c, p) ==
  /\ p.name \notin Inactive(c)
  /\ p.name \in DOMAIN c.input \/ ~p.optional \/ p.name \in c.activated

\* requestsOutput()
Requests(c, p) ==
  /\ p.name \notin Inactive(c)
  /\ p.class \in {"E", "T"} \/ (p.class = "C" /\ Supplied(c, p))
RequestedNames(c) == {p.name : p \in {q \in Range(c.parameters) : Requests(c, q)}}

IsActive(c, p) == Requests(c, p) \/ (p.class # "E" /\ Supplied(c, p))

\* The decoder of the answer has no input to look at.
Blind(c) == [c EXCEPT !.input = [name \in {} |-> {}]]

\* classifyClassicInvocationMetadataNeeds()
Needs(c) ==
  LET containers == {p \in Range(c.parameters) : p.exid \in Containers}
      active == {p \in containers : Requests(c, p) \/ Supplied(c, p)}
      shaped == {p \in containers \ active :
                   p.exid = "u" /\ p.name \in Inactive(c) /\ p.class \in {"E", "C"}}
      deep == {p \in active : p.class # "T"}
  IN [containers |-> {p.name : p \in active \cup shaped},
      optional |-> \E p \in deep : p.exid = "u",
      required |-> \E p \in deep : p.exid # "u"]

(***************************************************************************)
(* Serializers                                                             *)
(***************************************************************************)
\* selectedInvocationRecursiveParameters()
Recursive(c) ==
  {p \in Range(c.parameters) :
     p.exid \in Containers /\ ~(p.class = "T" /\ p.exid = "u") /\ IsActive(c, p)}

\* snapshotInvocationRecursiveXrfcRepository(): the strict codec first, the
\* general one for shapes it does not support.  A structure the graph does not
\* know stays with the classic codec.
Plan(c, p) ==
  CASE p \notin Recursive(c) \/ ~c.graph.present -> "classic"
    [] p.exid = "u" /\ p.name \notin c.graph.known -> "classic"
    [] OTHER -> IF p.name \in c.graph.strict THEN "strict"
                ELSE IF p.name \in c.graph.general THEN "general" ELSE "none"
PlansExist(c) ==
  /\ c.graph.present => c.graph.function = c.function
  /\ ~c.graph.present => \A p \in Recursive(c) : p.exid # "v"
  /\ \A p \in Recursive(c) : Plan(c, p) # "none" /\ p.class \in {"I", "E", "C", "T"}
IsPlanned(c, p) == Plan(c, p) \in {"strict", "general"}

\* structureFor(): a definition that is there and that the codec takes
HasType(c, p) == p.type \in DOMAIN c.types
Definition(c, p) == c.types[p.type]
TypesSound(c, ps) == \A p \in ps : HasType(c, p) => Definition(c, p).sound

\* classicXrfcKind()
Document(c, p) == p.exid = "h" \/ (p.exid = "u" /\ Definition(c, p).dynamic)
KindKnown(c, p) ==
  /\ p.exid # "v"
  /\ p.exid = "u" => HasType(c, p) /\ ~(Definition(c, p).dynamic /\ p.class = "T")
IsDocument(c, p) == IsPlanned(c, p) \/ Document(c, p)

(***************************************************************************)
(* Values                                                                  *)
(***************************************************************************)
PadRight(s, n, x) == s \o [i \in 1 .. n - Len(s) |-> x]
PadLeft(s, n, x) == [i \in 1 .. n - Len(s) |-> x] \o s
Stripped(s) ==
  LET kept == {i \in DOMAIN s : s[i] # " "} IN
  IF kept = {} THEN <<>> ELSE SubSeq(s, 1, CHOOSE i \in kept : \A j \in kept : j <= i)

Int4 == (-2147483647 - 1) .. 2147483647
Digits == {"0", "1", "2", "3", "4", "5", "6", "7", "8", "9"}

\* initialScalarValue()
Initial(p) ==
  CASE p.class = "T" -> <<>> [] p.exid = "I" -> 0
    [] p.exid \in {"h", "v"} -> [len |-> 1, tree |-> "initial"] [] OTHER -> <<>>
InputOf(c, p) == IF p.name \in DOMAIN c.input THEN c.input[p.name] ELSE Initial(p)

\* scalarEncodedByteLength(): the length of a value before it is encoded
Fits(c, p, v) ==
  CASE p.exid \in {"C", "X"} -> Len(v) <= p.width
    [] p.exid = "N" -> Len(v) <= p.width /\ Range(v) \subseteq Digits
    [] p.exid = "I" -> v \in Int4
    [] p.exid = "g" -> "NUL" \notin Range(v)
    [] p.exid = "u" -> HasType(c, p)
    [] OTHER -> FALSE
LengthOf(c, p, v) ==
  CASE p.exid \in {"C", "N"} -> 2 * p.width
    [] p.exid = "X" -> p.width
    [] p.exid = "I" -> 4
    [] p.exid = "g" -> Len(v) + 1
    [] p.exid = "u" -> Definition(c, p).len

FieldsEnd(d) == IF d.exact > 0 THEN d.exact ELSE d.len

\* encodeScalar()
Encoded(c, p, v) ==
  CASE p.exid = "C" -> Value(2 * p.width, PadRight(v, p.width, " "))
    [] p.exid = "N" -> Value(2 * p.width, PadLeft(v, p.width, "0"))
    [] p.exid = "X" -> Value(p.width, PadRight(v, p.width, 0))
    [] p.exid = "I" -> Value(4, v)
    [] p.exid = "g" -> Value(Len(v) + 1, Append(v, "NUL"))
    [] p.exid = "u" -> Value(Definition(c, p).len, PadRight(v, Definition(c, p).len, 0))

\* structuredResponseDefinition(): a peer may leave out the alignment after the
\* last field, and nothing else.
WidthAdmitted(d, len) == len = d.len \/ (d.exact > 0 /\ len = d.exact)

\* decodeScalar()
Decodable(c, p, value) ==
  CASE p.exid \in {"C", "N"} -> value.len = 2 * p.width
    [] p.exid = "X" -> value.len = p.width
    [] p.exid = "I" -> value.len = 4
    [] p.exid = "g" -> /\ value.len > 0 /\ Last(value.is) = "NUL"
                       /\ "NUL" \notin Range(Front(value.is))
    [] p.exid = "u" -> HasType(c, p) /\ WidthAdmitted(Definition(c, p), value.len)
    [] OTHER -> FALSE
Decoded(c, p, value) ==
  CASE p.exid \in {"C", "N"} -> Stripped(value.is)
    [] p.exid \in {"X", "I"} -> value.is
    [] p.exid = "g" -> Front(value.is)
    [] p.exid = "u" -> SubSeq(value.is, 1, FieldsEnd(Definition(c, p)))

\* initialDecodedOutput()
InitialOutput(c, p) ==
  IF p.class = "T" \/ p.exid \in {"h", "v"} THEN <<>>
  ELSE Decoded(c, p, Encoded(c, p, Initial(p)))
InitialKnown(c, p) ==
  p.class = "T" \/ p.exid \in {"h", "v"} \/ Fits(c, p, Initial(p))

(***************************************************************************)
(* The request                                                             *)
(***************************************************************************)
\* tableRowByteLength(): the rows of a table are of one known width.
RowKnown(c, p) ==
  /\ p.exid # "g"
  /\ IF p.exid = "u" THEN HasType(c, p) /\ ~Definition(c, p).dynamic
     ELSE Fits(c, [p EXCEPT !.class = "I"], Initial([p EXCEPT !.class = "I"]))
RowWidth(c, p) == LengthOf(c, p, Initial([p EXCEPT !.class = "I"]))

\* A deep value and what becomes of it: a document, with its name in the root
DocumentOf(p, v) == Value(v.len, [root |-> p.name, tree |-> v.tree, len |-> v.len])

OutputShaped(c, p) ==
  \/ IsPlanned(c, p)
  \/ /\ KindKnown(c, p)
     /\ IF Document(c, p) THEN HasType(c, p)
        ELSE IF p.class = "T" THEN RowKnown(c, p)
        ELSE Fits(c, p, Initial(p))
InputShaped(c, p) ==
  LET v == InputOf(c, p) IN
  IF p.class = "T"
  THEN /\ ~IsPlanned(c, p) /\ KindKnown(c, p) /\ ~Document(c, p) /\ RowKnown(c, p)
       /\ \A i \in DOMAIN v : Fits(c, [p EXCEPT !.class = "I"], v[i])
  ELSE /\ IsPlanned(c, p) \/ KindKnown(c, p)
       /\ IF IsDocument(c, p) THEN IsPlanned(c, p) \/ HasType(c, p) ELSE Fits(c, p, v)

Inputs(c) == SelectSeq(c.parameters, LAMBDA p : p.class # "E" /\ Supplied(c, p))
OfClass(ps, classes) == SelectSeq(ps, LAMBDA p : p.class \in classes)

\* preflightClassicRfcInvocationRequest(): the lengths of the fields to come,
\* known before any of them is written
DocumentLengths(len) ==
  <<0>> \o [i \in 1 .. (len + Chunk - 1) \div Chunk |->
              IF i * Chunk <= len THEN Chunk ELSE len - (i - 1) * Chunk] \o <<0>>
InputLengths(c, p) ==
  LET v == InputOf(c, p) IN
  IF p.class = "T"
  THEN <<2 * Len(p.name), 8>> \o [i \in DOMAIN v |-> RowWidth(c, p)]
  ELSE IF IsDocument(c, p) THEN DocumentLengths(v.len)
  ELSE <<2 * Len(p.name), LengthOf(c, p, v)>>
Planned(c) ==
  <<6, 2 * Len(c.function), 0>>
  \o FlattenSeq([i \in DOMAIN c.parameters |->
       LET p == c.parameters[i] IN
       (IF Requests(c, p) THEN <<2 * Len(p.name)>> ELSE <<>>)
       \o (IF p.class # "E" /\ Supplied(c, p) THEN InputLengths(c, p) ELSE <<>>)])
  \o <<0>>
PlannedLength(c) ==
  FoldLeft(LAMBDA sum, len : sum + 2 + HeaderLength(len) + len, 0, Planned(c))
FixedApplication == 6      \* CPIC_CUT_FIXED_APPLICATION_BYTES
Preflight(c) ==
  /\ NameFits(c.function, 40) /\ \A name \in Names(c) : NameFits(name, 30)
  /\ \A p \in Range(c.parameters) :
       /\ p.class \in {"I", "E", "C", "T"}
       /\ Requests(c, p) => OutputShaped(c, p)
       /\ p.class # "E" /\ Supplied(c, p) => InputShaped(c, p)
  /\ Len(Planned(c)) <= MaxFieldCount
  /\ \A len \in Range(Planned(c)) : len <= MaxFieldLength
  /\ PlannedLength(c) <= MaxChainLength
  /\ FixedApplication + PlannedLength(c) <= c.maximum

\* buildClassicRfcInvocationRequest()
Composed(c) ==
  LET inputs == Inputs(c)
      values == OfClass(inputs, {"I", "C"})
      documents == SelectSeq(values, LAMBDA p : IsDocument(c, p))
      scalars == SelectSeq(values, LAMBDA p : ~IsDocument(c, p))
      tables == OfClass(inputs, {"T"})
      requested == SelectSeq(c.parameters, LAMBDA p : Requests(c, p))
  IN [function |-> c.function,
      outputs |-> [i \in DOMAIN requested |-> requested[i].name],
      imports |-> [i \in DOMAIN scalars |->
                     [name |-> scalars[i].name,
                      value |-> Encoded(c, scalars[i], InputOf(c, scalars[i]))]],
      tables |-> [i \in DOMAIN tables |->
                    [name |-> tables[i].name, width |-> RowWidth(c, tables[i]),
                     rows |-> [j \in DOMAIN InputOf(c, tables[i]) |->
                                 Encoded(c, tables[i], InputOf(c, tables[i])[j])]]],
      documents |-> [i \in DOMAIN documents |->
                       [name |-> documents[i].name,
                        value |-> DocumentOf(documents[i], InputOf(c, documents[i]))]]]

NeedType(c) ==
  {p \in Range(c.parameters) : p.exid \in Containers /\ ~IsPlanned(c, p) /\ IsActive(c, p)}
Built(c) ==
  IF PlansExist(c) /\ TypesSound(c, NeedType(c)) /\ Preflight(c)
  THEN CutRequest(Composed(c)) ELSE Refused

(***************************************************************************)
(* The answer                                                              *)
(***************************************************************************)
Deactivated(c) == {p \in Range(c.parameters) : p.name \in Inactive(c) /\ p.class \in Outputs}
NeedTypeOfAnswer(c) ==
  {p \in Range(c.parameters) :
     /\ p.exid \in Containers /\ ~IsPlanned(c, p)
     /\ Requests(c, p) \/ (p.exid = "u" /\ p \in Deactivated(c))}

ParameterOf(c, name) == CHOOSE p \in Range(c.parameters) : p.name = name

TableTaken(c, p, item) ==
  IF IsPlanned(c, p) THEN item.rows = <<>>
  ELSE LET Admitted(len) == IF p.exid = "u" THEN WidthAdmitted(Definition(c, p), len)
                            ELSE len = RowWidth(c, p)
           UnitsOf(row) == IF p.exid \in {"C", "N"} THEN 2 * Len(row)
                           ELSE IF p.exid = "I" THEN 4 ELSE Len(row) IN
       /\ RowKnown(c, p) /\ Admitted(item.width)
       /\ \A i \in DOMAIN item.rows :
            /\ Admitted(UnitsOf(item.rows[i]))
            /\ UnitsOf(item.rows[i]) = UnitsOf(item.rows[1])

\* The item of an output that was asked for, by the way it came
Taken(c, p, item) ==
  CASE item.kind = "scalar" -> Decodable(c, p, item.value)
    [] item.kind = "table" -> TableTaken(c, p, item)
    [] item.kind = "document" ->
         IF IsPlanned(c, p) THEN IsWhole(item)
         ELSE KindKnown(c, p) /\ Document(c, p) /\ HasType(c, p) /\ IsWhole(item)
TakenValue(c, p, item) ==
  CASE item.kind = "scalar" -> Decoded(c, p, item.value)
    [] item.kind = "table" ->
         [i \in DOMAIN item.rows |-> Decoded(c, p, Value(item.width, item.rows[i]))]
    [] item.kind = "document" -> item.parts[1].document.is.tree

Classes == [scalar |-> {"E", "C"}, table |-> {"T"}, document |-> {"E", "C", "T"}]

\* decodeClassicRfcInvocationResult(): the outputs, by name
ItemSound(c, item) ==
  LET name == ItemName(item) IN
  /\ name \in Names(c) /\ ClassOf(c, name) \in Classes[item.kind]
  /\ name \in RequestedNames(c) => Taken(c, ParameterOf(c, name), item)
OutputOf(c, items) ==
  LET told == {i \in DOMAIN items : ItemName(items[i]) \notin Inactive(c)}
      returned == {ItemName(items[i]) : i \in told} \cap RequestedNames(c)
      initial == {p.name : p \in Deactivated(c)}
  IN IF /\ \A i \in DOMAIN items : items[i].kind = "document" => HasRoot(items[i])
        /\ \A i, j \in DOMAIN items : ItemName(items[i]) = ItemName(items[j]) => i = j
        /\ \A i \in told : ItemSound(c, items[i])
        /\ RequestedNames(c) \subseteq returned
     THEN [ok |-> TRUE,
           output |-> [name \in initial \cup returned |->
                         IF name \in initial THEN InitialOutput(c, ParameterOf(c, name))
                         ELSE TakenValue(c, ParameterOf(c, name),
                                         items[CHOOSE i \in told : ItemName(items[i]) = name])]]
     ELSE Refused
InOrder(items) ==
  Kind(items, "scalar") \o Kind(items, "table") \o Kind(items, "document")
ResultFor(c, fields) ==
  LET read == Grouped(fields) IN
  IF /\ StatesKnown(c) /\ PlansExist(c) /\ TypesSound(c, NeedTypeOfAnswer(c)) /\ read.ok
     /\ \A p \in Deactivated(c) : InitialKnown(c, p)
  THEN OutputOf(c, InOrder(read.items)) ELSE Refused
Result(called, fields) == ResultFor(Blind(called), fields)
=============================================================================
