------------------------------ MODULE MCCodecs ------------------------------
(***************************************************************************)
(* The codecs at work: an invocation and the partner that answers it, the  *)
(* answers of a session under every decoder, the logon in both directions, *)
(* and the metadata of recursive types.  The partner (external) computes   *)
(* one value for each output; it may be faulty, and between the two one    *)
(* record of a message may be lost, repeated or overtaken.                 *)
(***************************************************************************)
EXTENDS ClassicInvocation, RfcReplies, RecursiveMetadata, TLC

VARIABLE exchange

(***************************************************************************)
(* Invocations                                                             *)
(***************************************************************************)
P(name, class, exid, width, type, optional) ==
  [name |-> name, class |-> class, exid |-> exid, width |-> width, type |-> type,
   optional |-> optional]

Flat == {P("IC", "I", "C", 2, "", FALSE), P("EN", "E", "N", 2, "", FALSE),
         P("CI", "C", "I", 4, "", TRUE), P("TU", "T", "u", 0, "ROW", TRUE)}
Nested == {P("IH", "I", "h", 0, "", TRUE), P("EH", "E", "h", 0, "", FALSE),
           P("TV", "T", "v", 0, "", TRUE), P("EU", "E", "u", 0, "DYN", FALSE)}
Mixed == {P("EG", "E", "g", 0, "", FALSE), P("CU", "C", "u", 0, "ROW", FALSE),
          P("TC", "T", "C", 2, "", FALSE), P("IX", "I", "X", 2, "", TRUE)}

Types == [ROW |-> [len |-> 6, exact |-> 4, dynamic |-> FALSE, sound |-> TRUE],
          DYN |-> [len |-> 8, exact |-> 0, dynamic |-> TRUE, sound |-> TRUE]]
MetadataGraph == [present |-> TRUE, function |-> "F", known |-> {"IH", "EH", "TV"},
                  strict |-> {"IH", "EH"}, general |-> {"TV"}]

\* The lengths of a document around a chunk and around the packet boundary
DocumentSizes == {1, Chunk, Chunk + 1, 60000} \cup (Fragment - 94 .. Fragment - 89)
Tree(size) == [len |-> size, tree |-> "tree"]

\* What the application supplies, and the values it can not
Good(p) ==
  CASE p.class = "T" /\ p.exid = "u" -> {<<<<1, 2, 3, 4>>, <<7>>>>}
    [] p.class = "T" /\ p.exid = "C" -> {<<<<"a">>>>}
    [] p.exid = "C" -> {<<"a">>}
    [] p.exid = "I" -> {2147483647}
    [] p.exid = "X" -> {<<1>>}
    [] p.exid = "u" -> {<<1, 2>>}
    [] OTHER -> {Tree(size) : size \in DocumentSizes}
Bad(p) ==
  CASE p.exid = "C" /\ p.class # "T" -> {<<"a", "a", "a">>}
    [] p.exid = "X" -> {<<1, 1, 1>>}
    [] OTHER -> {}

NoInput == [name \in {} |-> {}]
NamesIn(ps) == {p.name : p \in ps}
Settable(ps) == {p \in ps : p.class # "E" /\ p.name # "TV"}
OneOf(values) == CHOOSE v \in values : TRUE
InputsFor(ps) ==
  {[name \in NamesIn(S) |-> LET p == CHOOSE q \in S : q.name = name IN OneOf(Good(p))] :
     S \in SUBSET Settable(ps)}
  \cup UNION {{p.name :> v : v \in Good(p) \cup Bad(p)} : p \in Settable(ps)}

AtMostOne(S) == {{}} \cup {{x} : x \in S}
Invocations ==
  UNION {{[function |-> "F", parameters |-> SetToSeq(ps), input |-> input,
           activated |-> on, deactivated |-> off, notRequested |-> out,
           maximum |-> MaxPacket, types |-> Types, graph |-> MetadataGraph] :
            input \in InputsFor(ps), on \in AtMostOne(NamesIn(ps)),
            off \in AtMostOne(NamesIn(ps)), out \in AtMostOne(NamesIn(ps))} :
         ps \in {Flat, Nested, Mixed}}

StartInvocation ==
  \E c \in Invocations :
    /\ Cardinality(c.deactivated) + Cardinality(c.notRequested) <= 1
    /\ Captured(c).ok /\ exchange = [kind |-> "call", at |-> "captured", given |-> c,
                                     c |-> Captured(c).c]

Build ==
  /\ exchange.at = "captured"
  /\ \E c \in {exchange.c} \cup (IF Built(exchange.c).ok
                 THEN {[exchange.c EXCEPT !.maximum = FixedApplication + PlannedLength(exchange.c) - 1]}
                 ELSE {}) :
       LET request == Built(c) IN
       exchange' = IF request.ok
                   THEN [kind |-> "call", at |-> "built", c |-> c, m |-> request.m,
                         given |-> exchange.given]
                   ELSE [kind |-> "call", at |-> "refused", c |-> c, given |-> exchange.given]

(***************************************************************************)
(* The partner of a call                                                   *)
(***************************************************************************)
\* The trailer is the transport's: what it frames arrives without it.
Delivered(m) == [m EXCEPT !.trailer = Sentinel]
Read(m) == IF Inspect(m).ok THEN ReadCallback(Delivered(m)) ELSE Refused

Computed(c, p) ==
  CASE p.class = "T" /\ p.exid = "u" -> <<<<1, 2, 3, 3>>, <<5, 5, 5, 5>>>>
    [] p.class = "T" /\ p.exid = "C" -> <<<<"x">>, <<>>>>
    [] p.class = "T" /\ p.exid = "v" -> <<>>
    [] p.exid = "N" -> <<"0", "7">>
    [] p.exid = "I" -> -1
    [] p.exid = "g" -> <<"s">>
    [] p.exid = "u" /\ p.type = "ROW" -> <<1, 2, 3, 4>>
    [] OTHER -> "tree"

IsTable(p) == p.class = "T"
IsDeep(p) == ~IsTable(p) /\ (p.exid = "h" \/ p.type = "DYN")
Honest(c, outputs) ==
  LET of(Is(_)) == SelectSeq(outputs, LAMBDA name : Is(ParameterOf(c, name)))
      scalars == of(LAMBDA p : ~IsTable(p) /\ ~IsDeep(p))
      tables == of(IsTable)
      documents == of(IsDeep)
      Row(p) == IF p.exid = "v" THEN 8 ELSE RowWidth(c, p)
  IN [exports |-> [i \in DOMAIN scalars |->
                     LET p == ParameterOf(c, scalars[i]) IN
                     [name |-> p.name, value |-> Encoded(c, p, Computed(c, p))]],
      tables |-> [i \in DOMAIN tables |->
                    LET p == ParameterOf(c, tables[i]) IN
                    [name |-> p.name, width |-> Row(p),
                     rows |-> [j \in DOMAIN Computed(c, p) |->
                                 Encoded(c, p, Computed(c, p)[j])]]],
      documents |-> [i \in DOMAIN documents |->
                       LET p == ParameterOf(c, documents[i]) IN
                       [name |-> p.name, value |-> DocumentOf(p, Tree(Chunk + 1))]]]

Expected(c) ==
  [name \in RequestedNames(c) \cup NamesIn(Deactivated(c)) |->
     LET p == ParameterOf(c, name) IN
     IF name \in Inactive(c) THEN InitialOutput(c, p) ELSE Computed(c, p)]

\* What a partner may do wrong, or differently, and whether that matters
Without(s, i) == SubSeq(s, 1, i - 1) \o SubSeq(s, i + 1, Len(s))
Extra(r, name) == [r EXCEPT !.exports = Append(@, [name |-> name, value |-> Value(4, 1)])]
Answers(c, outputs, r) ==
  LET unasked == {name \in Names(c) : ClassOf(c, name) = "E"} \ Range(outputs)
  IN {<<r, "honest">>}
     \cup {<<[r EXCEPT !.exports = Without(@, i)], "refused">> : i \in DOMAIN r.exports}
     \cup {<<[r EXCEPT !.tables = Without(@, i)], "refused">> : i \in DOMAIN r.tables}
     \cup {<<[r EXCEPT !.documents = Without(@, i)], "refused">> : i \in DOMAIN r.documents}
     \cup {<<[r EXCEPT !.exports[i].value.len = @ + more], "refused">> : more \in {-1, 1},
             i \in {j \in DOMAIN r.exports : ParameterOf(c, r.exports[j].name).exid # "g"}}
     \cup {<<[r EXCEPT !.exports[i].value = Value(4, SubSeq(@.is, 1, 4))], "same">> :
             i \in {j \in DOMAIN r.exports : ParameterOf(c, r.exports[j].name).type = "ROW"}}
     \cup {<<[r EXCEPT !.tables[i].width = 4,
                       !.tables[i].rows = [j \in DOMAIN @ |-> Value(4, SubSeq(@[j].is, 1, 4))]],
             "same">> :
             i \in {j \in DOMAIN r.tables : ParameterOf(c, r.tables[j].name).type = "ROW"}}
     \cup {<<Extra(r, name), "same">> : name \in unasked}
     \cup {<<Extra(r, name), "refused">> :
             name \in {"UNKNOWN"} \cup (({"IC"} \cap Names(c)) \ Inactive(c))}

\* Rows may come as they are, or shortened by the bytes at the end that are the same.
Shortened(record) ==
  IF record.tag # "TableCompr" \/ record.value.len < 4 \/ Len(record.value.is) < 4 THEN record
  ELSE LET row == record.value.is
           repeated == {i \in 1 .. Len(row) : \A j \in i .. Len(row) : row[j] = Last(row)}
           n == CHOOSE i \in repeated : \A j \in repeated : i <= j
       IN [record EXCEPT !.value = Value(n, SubSeq(row, 1, n))]
ShortRows(m) ==
  [m EXCEPT !.records = Chain(@[1].prev, [i \in DOMAIN @ |-> Shortened(@[i])])]

Answer ==
  /\ exchange.at = "built"
  /\ \E request \in {Read(exchange.m)} :
       /\ request.ok
       /\ \E answer \in Answers(exchange.c, request.outputs,
                                Honest(exchange.c, request.outputs)), short \in BOOLEAN :
          \E reply \in {CallbackReply(answer[1], Range(request.outputs)
                                               \cup NamesIn(Range(answer[1].exports)))} :
          \E framed \in {Frame(reply.m)} :
            /\ reply.ok /\ framed.ok
            /\ exchange' = [exchange EXCEPT !.at = "answered",
                               !.m = Delivered(IF short THEN ShortRows(framed.m) ELSE framed.m)]
                           @@ [expected |-> answer[2]]

\* One record, or a name with its value, is lost, repeated, overtaken or written
\* with the wide header.
Harms == {"none", "lost", "item lost", "repeated", "item repeated", "overtaken"}
Harmed(records, harm, i) ==
  CASE harm = "none" -> records
    [] harm = "lost" -> Without(records, i)
    [] harm = "item lost" -> Without(Without(records, i), i)
    [] harm = "repeated" -> SubSeq(records, 1, i) \o SubSeq(records, i, Len(records))
    [] harm = "item repeated" -> SubSeq(records, 1, i + 1) \o SubSeq(records, i, Len(records))
    [] harm = "overtaken" -> [records EXCEPT ![i] = records[i + 1], ![i + 1] = records[i]]
    [] harm = "widened" -> [records EXCEPT ![i].wide = TRUE]
CanHarm(records, harm, i) ==
  CASE harm = "none" -> i = 1
    [] harm \in {"lost", "repeated", "widened"} -> TRUE
    [] harm \in {"item lost", "item repeated"} -> records[i].tag = "ParameterName"
    [] harm = "overtaken" -> IF i < Len(records) THEN records[i].tag # records[i + 1].tag ELSE FALSE

Damage ==
  /\ exchange.at = "answered" /\ exchange.expected = "honest" /\ exchange.c.activated = exchange.c.notRequested
  /\ \/ \E harm \in Harms \cup {"widened"}, i \in DOMAIN exchange.m.records :
          /\ CanHarm(exchange.m.records, harm, i)
          /\ exchange' = [exchange EXCEPT !.m.records = Harmed(@, harm, i),
                                          !.expected = "same or refused"]
     \/ exchange' = [exchange EXCEPT !.m.cut = TRUE, !.expected = "refused"]

Decode ==
  /\ exchange.at = "answered"
  /\ \E reply \in {FunctionReply(exchange.m)} :
       exchange' = [exchange EXCEPT !.at = "decoded"] @@
                   [result |-> IF reply.ok /\ reply.outcome = "success"
                             THEN Result(exchange.c, reply.fields) ELSE Refused]
(***************************************************************************)
(* Answers of a session                                                    *)
(***************************************************************************)
Written(key) == Words(2 * Len(key), {"utf16le"})
Facts ==
  <<Field("AbapExceptionKey", Written("NO")), Field("AbapExceptionKey", Blank(4, {"utf16le"})),
   Field("AbapRuntimeId", Written("NO")), Field("AbapErrorMessage", Written("NO")),
   Field("AbapT100Text", Words(4, {"ascii"})), Field("AbapMessageType", Written("E")),
   Field("ClassExceptionInfo", Value(8, "")), Field("UseClassExceptions", Value(1, "")),
   Field("ClassException", Value(1, "")), Field("Unresolved0420", Value(4, 1)),
   Mark("RfcServerResetDone"), Field("XRfcData", Value(3, "")), Field("0667", Value(8, ""))>>
Controls(n) == [i \in 1 .. n |-> Field("Unresolved0420", Zero)]
Reports(longest) == UNION {[1 .. n -> DOMAIN Facts] : n \in 0 .. longest}
Reported(report) == [i \in DOMAIN report |-> Facts[report[i]]]
Header == <<Field("ProtocolVersion", Value(4, "")), Field("Capabilities", Value(11, ""))>>
Status(n) == IF n = 0 THEN <<>> ELSE <<Field("LogonStatus", Value(1, n - 1))>>

Arrived(m) == exchange = [kind |-> "reply", at |-> "arrived", m |-> m]
StartReply ==
  \/ \E n \in 0 .. 2, report \in Reports(2) :
       Arrived(Message("reply", "ResponseStart",
                       Controls(n) \o Reported(report) \o <<End>>, Sentinel))
  \/ \E n \in 0 .. 2, report \in Reports(1), status \in 0 .. 2, from \in 1 .. 2 :
       Arrived(Message("session", "Start",
                       SubSeq(Header, from, 2) \o Status(status) \o <<Mark("ResponseStart")>>
                       \o Controls(n) \o Reported(report) \o <<End>>, Sentinel))
  \/ Arrived(ExceptionReply("NO").m)

Decoders == {"call", "reset", "refresh", "logon"}
Under(decoder, m) ==
  CASE decoder = "call" -> FunctionReply(m) [] decoder = "reset" -> ResetReply(m)
    [] decoder = "refresh" -> RefreshReply(m) [] OTHER -> LogonReply(m)
DecodeReply ==
  /\ exchange.kind \in {"reply", "logon"} /\ exchange.at = "arrived"
  /\ \E decoder \in Decoders :
       exchange' = [exchange EXCEPT !.at = "read"] @@
                   [decoder |-> decoder, result |-> Under(decoder, exchange.m)]

(***************************************************************************)
(* The logon                                                               *)
(***************************************************************************)
Shortest(lengths) == CHOOSE n \in lengths : \A o \in lengths : n <= o
Spelled(grammar, chosen) ==
  LET kept == SelectSeq([i \in DOMAIN grammar |-> i],
                        LAMBDA i : ~grammar[i].optional \/ i \in chosen)
      Content(coordinate) ==
        IF coordinate.tag \in {"LogonStatus", "Unresolved0420"} THEN 0
        ELSE IF coordinate.tag = "Session" THEN "" ELSE [says |-> "words", in |-> {"utf16le"}]
  IN [k \in DOMAIN kept |->
        Field(grammar[kept[k]].tag,
              Value(Shortest(grammar[kept[k]].lengths), Content(grammar[kept[k]])))]
Selections(grammar) ==
  LET optional == {i \in DOMAIN grammar : grammar[i].optional} IN
  {S \in SUBSET optional : Cardinality(S) <= 2 \/ Cardinality(optional \ S) <= 1}
Plain(start, status, calls, vendor) ==
  [i \in 1 .. start |-> Mark("Start")] \o Header \o Status(status) \o Controls(calls)
  \o [i \in 1 .. vendor |-> Field("0450", Value(6, ""))] \o <<End>>

Sending(prefix, fields) ==
  exchange = [kind |-> "logon", at |-> "sent", prefix |-> prefix, fields |-> fields]
StartLogon ==
  \/ \E S \in Selections(RichGrammar) : Sending("session", Spelled(RichGrammar, S))
  \/ \E start, vendor \in 0 .. 1, status \in {0, 1, 4}, calls \in 0 .. 2 :
       Sending("session", Plain(start, status, calls, vendor))
  \/ \E S \in Selections(ErrorPreamble), report \in Reports(1) :
       Sending("error", Spelled(ErrorPreamble, S) \o Reported(report) \o <<End>>)

\* The partner, not the wire: the chain is sound, its fields are not.
Received(fields) ==
  exchange' = [kind |-> "logon", at |-> "arrived", fields |-> fields,
               m |-> Message(exchange.prefix, "Start", fields, Sentinel)]
Garble ==
  /\ exchange.kind = "logon" /\ exchange.at = "sent"
  /\ \E i \in DOMAIN exchange.fields :
       LET fields == exchange.fields IN
       \/ \E harm \in Harms : CanHarm(fields, harm, i) /\ Received(Harmed(fields, harm, i))
       \/ \E n \in {0, 2, 5} : Received([fields EXCEPT ![i].value.len = n])
       \/ /\ fields[i].tag \in {"LogonStatus", "Unresolved0420"}
          /\ Received([fields EXCEPT ![i].value.is = 9])

\* The request to log on
TextTagsOfLogon == DOMAIN TextWidth
LogonInputs ==
  {[texts |-> [tag \in TextTagsOfLogon |-> IF tag = t THEN n ELSE 8],
    ticket |-> ticket, password |-> password] :
     t \in TextTagsOfLogon, n \in {0, 1, 64, 65, 121},
     ticket \in {0, 400, 65400}, password \in {0, 12}}
StartLogonRequest ==
  \/ \E input \in LogonInputs : exchange = [kind |-> "request", at |-> "given", input |-> input]
  \/ \E name \in {"", "F", "FUNCTION_OF_FORTY_CHARACTERS_IN_ITS_NAME", "AND_ONE_OF_FORTY_ONE_CHARACTERS_IN_A_NAME"} :
       exchange = [kind |-> "first", at |-> "sent", name |-> name,
                   request |-> FunctionRequest(name)]
SendLogon ==
  /\ exchange.at = "given"
  /\ LET request == LogonRequest(exchange.input) IN
     exchange' = IF request.ok
                 THEN [kind |-> "request", at |-> "sent", m |-> request.m, intact |-> TRUE]
                 ELSE [kind |-> "request", at |-> "refused"]
DamageLogon ==
  /\ exchange.kind = "request" /\ exchange.at = "sent" /\ exchange.intact
  /\ \E harm \in Harms \cup {"widened"}, i \in DOMAIN exchange.m.records :
       /\ CanHarm(exchange.m.records, harm, i)
       /\ exchange' = [exchange EXCEPT !.m.records = Harmed(@, harm, i), !.intact = harm = "none"]

(***************************************************************************)
(* Recursive metadata                                                      *)
(***************************************************************************)
Row(type, field, exid, target, offset, length, total) ==
  [type |-> type, field |-> field, exid |-> exid, target |-> target, offset |-> offset,
   length |-> length, total |-> total, stamp |-> "1"]
Param(class, name, table, path, exid) ==
  [function |-> "F", class |-> class, name |-> name, table |-> table, path |-> path,
   exid |-> exid]
TypeNames == <<"A", "B", "C", "D">>
Functions(names) ==
  [given |-> TRUE, rows |-> [i \in DOMAIN names |-> [name |-> names[i], basxml |-> FALSE]]]

\* Structures that refer to one another
RowsOf(edges) ==
  FlattenSeq([i \in DOMAIN TypeNames |->
    LET to == SetToSortSeq({j \in DOMAIN TypeNames : <<i, j>> \in edges}, <) IN
    IF to = <<>> THEN <<Row(TypeNames[i], "X", "C", "", 0, 2, 2)>>
    ELSE [k \in DOMAIN to |-> Row(TypeNames[i], TypeNames[to[k]], "v", TypeNames[to[k]],
                                  8 * (k - 1), 8, 32)]])
Described(edges, roots) ==
  [rows |-> RowsOf(edges), indirect |-> <<>>, roots |-> roots, functions |-> Functions(<<"F">>),
   parameters |-> <<Param("I", "P", "A", <<>>, "v")>>]
EdgeSets ==
  LET Pairs == (DOMAIN TypeNames) \X (DOMAIN TypeNames) IN
  {S \in SUBSET Pairs : Cardinality(S) <= 3 \/ Cardinality(Pairs \ S) <= 1}

\* A closure with every kind of type and of parameter; each row of it may be faulty.
Closure ==
  [rows |-> <<Row("S", "F1", "C", "", 0, 2, 10), Row("S", "F2", "h", "L", 2, 8, 10),
              Row("L", "", "v", "S", 0, 0, 10), Row("W", "", "C", "", 0, 4, 0),
              Row("N", "", "C", "", 0, 2, 0)>>,
   indirect |-> <<[table |-> "S", path |-> <<"F1", "X">>, target |-> "W"]>>,
   roots |-> {"N"}, functions |-> Functions(<<"F">>),
   parameters |-> <<Param("I", "P1", "S", <<>>, "v"), Param("E", "P2", "L", <<>>, "h"),
                    Param("C", "P3", "S", <<"F1">>, "C"), Param("T", "P4", "S", <<"F2">>, "u"),
                    Param("T", "P5", "S", <<"F1", "X">>, "h"), Param("X", "P6", "", <<>>, ""),
                    Param("I", "P7", "N", <<>>, "C")>>]
RowFaults(rows) ==
  {[rows EXCEPT ![i] = row] : i \in DOMAIN rows,
     row \in UNION {{[r EXCEPT !.exid = x], [r EXCEPT !.target = t], [r EXCEPT !.offset = n],
                     [r EXCEPT !.total = n], [r EXCEPT !.type = t]} :
                    r \in Range(rows), x \in {"C", "u", "h"}, t \in {"", "S", "L", "W", "Z"},
                    n \in {0, 4, 11}}}
  \cup {Without(rows, i) : i \in DOMAIN rows}
ParamFaults(ps) ==
  {[ps EXCEPT ![i] = p] : i \in DOMAIN ps,
     p \in UNION {{[q EXCEPT !.exid = x], [q EXCEPT !.class = class], [q EXCEPT !.table = t],
                   [q EXCEPT !.path = path]} :
                  q \in Range(ps), x \in {"C", "u", "h"}, class \in {"I", "T"},
                  t \in {"", "S", "L", "N", "Z"}, path \in {<<>>, <<"F2">>, <<"F1", "X">>, <<"F9">>}}}
  \cup {Without(ps, i) : i \in DOMAIN ps}
FaultyClosures ==
  {[Closure EXCEPT !.rows = rows] : rows \in RowFaults(Closure.rows)}
  \cup {[Closure EXCEPT !.parameters = ps] : ps \in ParamFaults(Closure.parameters)}
  \cup {[Closure EXCEPT !.roots = roots] : roots \in {{}, {"Z"}}}
  \cup {[Closure EXCEPT !.functions = functions] :
          functions \in {NotGiven, Functions(<<>>), Functions(<<"G">>), Functions(<<"F", "G">>)}}

StartMetadata ==
  \/ \E edges \in EdgeSets, roots \in {{}, {"B"}, {"B", "C", "D"}} :
       exchange = [kind |-> "graph", at |-> "read", edges |-> edges, roots |-> roots,
                   graph |-> Normalized(Described(edges, roots))]
  \/ \E d \in FaultyClosures :
       exchange = [kind |-> "closure", at |-> "read", d |-> d, graph |-> Normalized(d)]

\* A decision about a deep call is made, and used for that call or for another.
Graphs == {Normalized(Described(edges, {"B", "C", "D"})) : edges \in {{}, {<<1, 2>>}, {<<1, 2>>, <<2, 2>>}}}
          \cup {Normalized(Closure)}
Sent(graph) ==
  {[function |-> "F", name |-> p.name, class |-> p.class, table |-> p.table, exid |-> p.exid] :
     p \in {q \in Range(graph.parameters) : q.kind \in {"structure", "table"}}}
Seen == {NotGiven} \cup
        [given : {TRUE}, default : {"classic-xrfc", "basxml", "unsupported"},
         disabled : {"classic-xrfc", "unsupported"}]
StartDecision ==
  \E graph \in Graphs, profile \in {"offline", "abap-7.58"}, seen \in Seen :
    \E sent \in SUBSET Sent(graph) :
      exchange = [kind |-> "decision", at |-> "open", graph |-> graph, sent |-> sent,
                  profile |-> profile, seen |-> seen]
Decide ==
  /\ exchange.kind = "decision" /\ exchange.at = "open"
  /\ LET decision == Classify(exchange.profile, exchange.graph, exchange.sent, exchange.seen)
     IN \E graph \in Graphs : \E sent \in SUBSET Sent(graph) :
          /\ decision.ok
          /\ exchange' = [kind |-> "decision", at |-> "used", made |-> exchange,
                          for |-> [graph |-> graph, sent |-> sent],
                          admitted |-> MaySend(graph, sent, decision)]

(***************************************************************************)
(* The exchanges                                                           *)
(***************************************************************************)
Init ==
  StartInvocation \/ StartReply \/ StartLogon \/ StartLogonRequest \/ StartMetadata
  \/ StartDecision
Next ==
  Build \/ Answer \/ Damage \/ Decode \/ DecodeReply \/ Garble \/ SendLogon \/ DamageLogon
  \/ Decide
Spec == Init /\ [][Next]_exchange

(***************************************************************************)
(* What the codecs owe to one another                                      *)
(***************************************************************************)
\* What goes out and what is asked for, from what the application said
Off(given) == given.notRequested \cup given.deactivated
GoesOut(given, p) ==
  /\ p.class # "E" /\ p.name \notin Off(given)
  /\ p.name \in DOMAIN given.input \cup given.activated \/ ~p.optional
AskedFor(given, p) ==
  p.name \notin Off(given) /\ (p.class \in {"E", "T"} \/ (p.class = "C" /\ GoesOut(given, p)))
Input(request, name) ==
  request.items[CHOOSE i \in DOMAIN request.items : ItemName(request.items[i]) = name]

RequestAgrees(given, ps, request) ==
  /\ request.ok /\ request.function = given.function
  /\ Range(request.outputs) = NamesIn({p \in ps : AskedFor(given, p)})
  /\ {ItemName(request.items[i]) : i \in DOMAIN request.items}
       = NamesIn({p \in ps : GoesOut(given, p)})
  /\ \A p \in ps : GoesOut(given, p) =>
       LET item == Input(request, p.name) IN
       /\ item.kind = IF IsTable(p) THEN "table" ELSE IF IsDeep(p) THEN "document" ELSE "scalar"
       /\ p.name \in DOMAIN given.input =>
            CASE item.kind = "document" -> IsWhole(item) /\ item.len = given.input[p.name].len
              [] item.kind = "table" -> Len(item.rows) = Len(given.input[p.name])
              [] OTHER -> item.value = Encoded(exchange.c, p, given.input[p.name])
  /\ Inspect(exchange.m).application = FixedApplication + PlannedLength(exchange.c)
  /\ FixedApplication + PlannedLength(exchange.c) <= exchange.c.maximum

Reason(c) ==
  \/ c.maximum < MaxPacket
  \/ \E name \in DOMAIN c.input \ Inactive(c) : c.input[name] \in Bad(ParameterOf(c, name))
  \/ "TV" \in c.activated \ Inactive(c)

\* A call and its answer agree: the partner reads from the request what the
\* application supplied and asked for, and nothing that was switched off; the
\* length computed beforehand, against which the limit of the connection is
\* held, is the length that is sent, on either side of the packet boundary; the
\* application gets exactly the outputs it asked for, as they were computed,
\* and an initial value for those it switched off; and an answer of which a
\* record or an item was lost, repeated or overtaken is refused if it is not
\* the same answer still (buildClassicRfcInvocationRequest(),
\* decodeClassicRfcInvocationResult() and the chain of cpic.ts between them).
AnswersHonest ==
  exchange.kind = "call" =>
    CASE exchange.at = "built" ->
           RequestAgrees(exchange.given, Range(exchange.given.parameters), Read(exchange.m))
      [] exchange.at = "refused" -> Reason(exchange.c)
      [] exchange.at = "decoded" ->
           /\ exchange.expected = "refused" => ~exchange.result.ok
           /\ exchange.expected \in {"honest", "same"} => exchange.result.ok
           /\ exchange.result.ok => exchange.result.output = Expected(exchange.c)
      [] OTHER -> TRUE

Count(fields, tag) == Cardinality({i \in DOMAIN fields : fields[i].tag = tag})
TagsOf(m) == {m.records[i].tag : i \in DOMAIN m.records}
ZeroIn(m) ==
  \E i \in DOMAIN m.records : m.records[i].tag = "Unresolved0420" /\ m.records[i].value = Zero
Succeeded(result) == result.ok /\ (IF "success" \in DOMAIN result THEN result.success
                                  ELSE result.outcome = "success")

\* Some choice of the optional fields spells the message.
Spells(fields, grammar) ==
  LET optional == {i \in DOMAIN grammar : grammar[i].optional} IN
  \E S \in SUBSET optional :
    /\ Len(fields) = Len(grammar) - Cardinality(optional \ S)
    /\ LET kept == SelectSeq([i \in DOMAIN grammar |-> i],
                            LAMBDA i : i \in S \/ i \notin optional)
       IN \A k \in DOMAIN kept : Matches(fields[k], grammar[kept[k]])
SaysZero(fields, tag) ==
  \A i \in DOMAIN fields : fields[i].tag = tag => fields[i].value.is = 0

\* No failure reads as a success, in any state of the session: an answer is a
\* success only with the one zero control and no fact of an error, as an answer
\* of the state it was sent in; the mark of a finished reset is refused in every
\* other state; a logon succeeds exactly when its fields are the ones of the
\* grammar, in order, and neither of its two status fields says otherwise (reading
\* the optional fields greedily misses no message); and the logon that was
\* written is the one that is read, or none.
RepliesHonest ==
  CASE exchange.kind = "reply" /\ exchange.at = "read" ->
         LET m == exchange.m IN
         /\ Succeeded(exchange.result) =>
              /\ Count(m.records, "Unresolved0420") = 1 /\ ZeroIn(m)
              /\ TagsOf(m) \cap (TextTags \cup ClassExceptions) = {}
         /\ exchange.result.ok =>
              /\ exchange.decoder \in IF m.prefix = "reply" THEN {"call", "reset"} ELSE {"refresh"}
              /\ "RfcServerResetDone" \in TagsOf(m) => exchange.decoder = "reset"
    [] exchange.kind = "logon" /\ exchange.at = "read" ->
         LET fields == exchange.fields IN
         /\ exchange.result.ok => exchange.decoder = "logon"
         /\ exchange.m.prefix = "error" => ~Succeeded(exchange.result)
         /\ Succeeded(exchange.result) =>
              SaysZero(fields, "LogonStatus") /\ SaysZero(fields, "Unresolved0420")
         /\ exchange.decoder = "logon" /\ exchange.m.prefix = "session"
              /\ Count(fields, "ResponseStart") > 0 =>
              (Succeeded(exchange.result) <=>
                 /\ Spells(fields, RichGrammar)
                 /\ SaysZero(fields, "LogonStatus") /\ SaysZero(fields, "Unresolved0420"))
    [] exchange.kind = "first" ->
         IF exchange.request.ok
         THEN /\ Len(exchange.name) \in 1 .. 40
              /\ Inspect(exchange.request.m).mode = "compact"
              /\ ChainPrefix(exchange.request.m, "Start").ok
         ELSE Len(exchange.name) \notin 1 .. 40
    [] exchange.kind = "request" /\ exchange.at = "sent" ->
         LET read == ReadLogonRequest(exchange.m) IN read.ok <=> exchange.intact
    [] OTHER -> TRUE

\* Reaching, by way of references
Leads(edges) ==
  LET Nodes == DOMAIN TypeNames
      Step(S) == S \cup {<<i, k>> \in Nodes \X Nodes :
                          \E j \in Nodes : <<i, j>> \in S /\ <<j, k>> \in S}
  IN Step(Step(edges))
RootIndices(roots) == {i \in DOMAIN TypeNames : TypeNames[i] \in roots \cup {"A"}}
Chains(leads) ==
  {S \in SUBSET DOMAIN TypeNames : \A i, j \in S :
     i # j => \/ <<i, j>> \in leads /\ <<j, i>> \notin leads
              \/ <<j, i>> \in leads /\ <<i, j>> \notin leads}
CycleOf(leads, i) == {j \in DOMAIN TypeNames : <<i, j>> \in leads /\ <<j, i>> \in leads}

GraphAgrees ==
  LET leads == Leads(exchange.edges)
      graph == exchange.graph
      roots == RootIndices(exchange.roots)
      reached == roots \cup {j \in DOMAIN TypeNames : \E i \in roots : <<i, j>> \in leads}
      depth == CHOOSE n \in {Cardinality(S) : S \in Chains(leads)} :
                 \A S \in Chains(leads) : Cardinality(S) <= n
      cyclic == {i \in DOMAIN TypeNames : <<i, i>> \in leads}
  IN /\ graph.ok <=> /\ reached = DOMAIN TypeNames /\ depth <= MaxDepth
                     /\ Cardinality(exchange.edges) + 1 <= MaxEdges
     /\ graph.ok =>
          /\ graph.depth = depth
          /\ graph.cycles = {{TypeNames[j] : j \in CycleOf(leads, i)} : i \in cyclic}
          /\ \A i \in DOMAIN TypeNames :
               graph.nodes[i].cyclic =
                 {TypeNames[j] : j \in {k \in CycleOf(leads, i) : <<i, k>> \in exchange.edges}}
          /\ graph.parameters[1].cyclic <=> <<1, 1>> \in leads

KindOf(graph, name) ==
  (CHOOSE node \in Range(graph.nodes) : node.name = name).kind
ClosureAgrees ==
  LET graph == exchange.graph IN
  /\ exchange.d = Closure => graph.ok
  /\ graph.ok =>
       LET names == {node.name : node \in Range(graph.nodes)}
           refs == UNION {Range(References(node)) : node \in Range(graph.nodes)}
           deep == {p \in Range(graph.parameters) : "target" \in DOMAIN p}
       IN /\ Cardinality(names) = Len(graph.nodes)
          /\ \A f \in refs : f.target \in names /\ KindOf(graph, f.target) = f.kind
          /\ \A p \in deep : /\ p.target \in names
                             /\ p.exid = "h" => KindOf(graph, p.target) = "table"
                             /\ p.kind = "structure" => KindOf(graph, p.target) = "structure"
          /\ {t.target : t \in Range(exchange.d.indirect)} \subseteq graph.roots
          /\ names \subseteq graph.roots \cup {f.target : f \in refs}

\* The graph of the types of a function is what its rows say: the cycles are the
\* sets of types that reach one another, the depth is the longest way through
\* the types that do not, each reference has a target of its kind, and no type is
\* there that no root leads to (normalizeRecursiveMetadataGraph()); and a deep
\* call is sent only by a decision made for it, by its graph and its parameters,
\* from the observation that the partner takes it with basXML disabled
\* (assertRecursiveSerializerSendDecision()).
MetadataAgrees ==
  CASE exchange.kind = "graph" -> GraphAgrees
    [] exchange.kind = "closure" -> ClosureAgrees
    [] exchange.kind = "decision" /\ exchange.at = "used" ->
         exchange.admitted <=>
           /\ exchange.for.graph = exchange.made.graph
           /\ exchange.for.sent = exchange.made.sent
           /\ exchange.made.profile # "offline" /\ exchange.made.seen.given
           /\ exchange.made.seen.disabled = "classic-xrfc"
           /\ exchange.made.seen.default # "unsupported"
    [] OTHER -> TRUE
=============================================================================
