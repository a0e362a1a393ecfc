----------------------------- MODULE CpicFields -----------------------------
(***************************************************************************)
(* CPIC messages (src/protocol/cpic.ts, rfcpro.ts): a prefix, a chain of   *)
(* tagged fields each of which names the tag before it, and a trailer.     *)
(* A value is its length in bytes and what it says; a tag has the name     *)
(* the enumeration CpicTag gives it.                                       *)
(***************************************************************************)
EXTENDS Integers, Sequences, FiniteSets, SequencesExt

CONSTANTS
  MaxFieldCount, MaxFieldLength, MaxChainLength,  \* DEFAULT_MAX_CPIC_FIELD_...
  Fragment,       \* MAX_APPC_APPLICATION_DATA_FRAGMENT_LENGTH
  Chunk,          \* CLASSIC_XRFC_XML_CHUNK_LENGTH
  MaxPacket       \* maximumRfcPacketSize

Refused == [ok |-> FALSE]

Value(len, is) == [len |-> len, is |-> is]
Zero == Value(4, 0)
None == Value(0, {})
Field(tag, value) == [tag |-> tag, value |-> value]
Mark(tag) == Field(tag, None)
End == Mark("End")
IsMark(field, tag) == field.tag = tag /\ field.value.len = 0

\* unicode(): names are written in UTF-16.
Text(name) == Value(2 * Len(name), name)
NameFits(name, maximum) == Len(name) \in 1 .. maximum

(***************************************************************************)
(* The chain                                                               *)
(***************************************************************************)
Compact == 65534
HeaderLength(len) == IF len <= Compact THEN 4 ELSE 8
RecordLength(field) == 2 + HeaderLength(field.value.len) + field.value.len
ChainLength(fields) ==
  FoldLeft(LAMBDA sum, field : sum + RecordLength(field), 0, fields)

ChainFits(fields) ==
  /\ Len(fields) <= MaxFieldCount
  /\ \A i \in DOMAIN fields : fields[i].value.len <= MaxFieldLength
  /\ ChainLength(fields) <= MaxChainLength

\* encodeCpicFieldChain(); wide is the header with the length of four bytes.
Chain(first, fields) ==
  [i \in DOMAIN fields |->
     [prev |-> IF i = 1 THEN first ELSE fields[i - 1].tag,
      tag |-> fields[i].tag, value |-> fields[i].value,
      wide |-> fields[i].value.len > Compact]]

\* A record as it is read; a peer may use the wide header for any length.
WireLength(record) == 2 + (IF record.wide THEN 8 ELSE 4) + record.value.len
WireLengthOf(records) ==
  FoldLeft(LAMBDA sum, record : sum + WireLength(record), 0, records)

\* decodeCpicFieldChainPrefix(): the fields through the first End.  The bytes
\* of the last record may be missing (cut).
Linked(first, records, i) ==
  records[i].prev = IF i = 1 THEN first ELSE records[i - 1].tag
ChainPrefix(m, first) ==
  LET ends == {i \in DOMAIN m.records : m.records[i].tag = "End"}
      last == CHOOSE i \in ends : \A j \in ends : i <= j
      read == SubSeq(m.records, 1, last)
  IN IF /\ ends # {}
        /\ \A i \in 1 .. last : Linked(first, m.records, i)
        /\ \A i \in 1 .. last : m.records[i].value.len <= MaxFieldLength
        /\ last <= MaxFieldCount /\ WireLengthOf(read) <= MaxChainLength
        /\ m.cut => last < Len(m.records)
     THEN [ok |-> TRUE, rest |-> SubSeq(m.records, last + 1, Len(m.records)),
           fields |-> [i \in 1 .. last |-> Field(read[i].tag, read[i].value)]]
     ELSE Refused

(***************************************************************************)
(* Messages                                                                *)
(***************************************************************************)
PrefixLength == [logon |-> 18, call |-> 12, cut |-> 4, reply |-> 4, session |-> 12, error |-> 12]

Sentinel == [kind |-> "sentinel", size |-> 0]
NoTrailer == [kind |-> "missing", size |-> 0]
Sap8(size) == [kind |-> "sap8", size |-> size]
TrailerLength == [sentinel |-> 2, sap8 |-> 10, missing |-> 0]

Message(prefix, first, fields, trailer) ==
  [prefix |-> prefix, records |-> Chain(first, fields), cut |-> FALSE, trailer |-> trailer]
MessageLength(m) ==
  PrefixLength[m.prefix] + WireLengthOf(m.records) + TrailerLength[m.trailer.kind]

\* packetTrailer(): a message above a fragment is streamed, without SAP8.
PacketTrailer(length) ==
  IF length + 2 > Fragment THEN Sentinel ELSE Sap8(length + 2)

Framed(prefix, first, fields) ==
  LET length == PrefixLength[prefix] + ChainLength(fields) IN
  IF ChainFits(fields)
  THEN [ok |-> TRUE, m |-> Message(prefix, first, fields, PacketTrailer(length))]
  ELSE Refused

\* inspectCpicRequestAppcFraming()
Inspect(m) ==
  LET length == MessageLength(m) IN
  IF m.trailer.kind = "sap8" /\ m.trailer.size = length - 8 /\ length - 8 <= Fragment
  THEN [ok |-> TRUE, mode |-> "compact", application |-> length - 8]
  ELSE IF /\ m.trailer.kind = "sentinel" /\ length > Fragment
          /\ m.records # <<>> /\ IsMark(Last(m.records), "End")
  THEN [ok |-> TRUE, mode |-> "streamed", application |-> length]
  ELSE Refused

(***************************************************************************)
(* Requests                                                                *)
(***************************************************************************)
\* encodeCpicFunctionRequest(): the first call after the logon
FunctionRequest(function) ==
  IF ~NameFits(function, 40) THEN Refused ELSE
  Framed("call", "Start",
    <<Field("ProtocolVersion", Value(4, "0e09")), Field("Capabilities", Value(11, "")),
      Mark("LogonMarker"), Field("Session", Value(16, "")), Mark("ContextEnd"),
      Field("Kernel", Text("754")), Field("Function", Text(function)),
      Mark("CallContext"), End>>)

DistinctNames(entries) ==
  \A i, j \in DOMAIN entries : entries[i].name = entries[j].name => i = j

\* The empty marks around one XML document, and its chunks between them
Chunks(value) ==
  [i \in 1 .. (value.len + Chunk - 1) \div Chunk |->
     Field("XRfcData",
           Value(IF i * Chunk <= value.len THEN Chunk ELSE value.len - (i - 1) * Chunk,
                 [document |-> value, part |-> i]))]
XmlFields(value) == <<Mark("XRfcParameter")>> \o Chunks(value) \o <<Mark("XRfcParameter")>>

TableHeader(width, count) == Value(8, [width |-> width, count |-> count])
TableFields(table) ==
  <<Field("TableName", Text(table.name)),
    Field("TableHeader", TableHeader(table.width, Len(table.rows)))>>
  \o [i \in DOMAIN table.rows |-> Field("TableCompr", table.rows[i])]
ParameterFields(entry) ==
  <<Field("ParameterName", Text(entry.name)), Field("ParameterValue", entry.value)>>

All(Fields(_), entries) ==
  FlattenSeq([i \in DOMAIN entries |-> Fields(entries[i])])

RowsFit(table) ==
  /\ table.rows # <<>> => table.width # 0
  /\ \A i \in DOMAIN table.rows : table.rows[i].len = table.width

\* encodeCpicCutFunctionRequest()
CutFields(r) ==
  <<Field("Kernel", Text("754")), Field("Function", Text(r.function)), Mark("CallContext")>>
  \o [i \in DOMAIN r.outputs |-> Field("RequestedOutput", Text(r.outputs[i]))]
  \o All(ParameterFields, r.imports)
  \o All(TableFields, r.tables)
  \o All(LAMBDA x : XmlFields(x.value), r.documents)
  \o <<End>>
CutRequest(r) ==
  IF /\ NameFits(r.function, 40)
     /\ IsInjective(r.outputs) /\ \A i \in DOMAIN r.outputs : NameFits(r.outputs[i], 30)
     /\ LET inputs == r.imports \o r.tables \o r.documents IN
        /\ DistinctNames(inputs)
        /\ \A i \in DOMAIN inputs : NameFits(inputs[i].name, 30)
     /\ \A i \in DOMAIN r.tables : RowsFit(r.tables[i])
     /\ \A i \in DOMAIN r.documents : r.documents[i].value.len > 0
  THEN Framed("cut", "ContextEnd", CutFields(r))
  ELSE Refused

(***************************************************************************)
(* The logon request                                                       *)
(***************************************************************************)
LogonOrder ==
  <<"Start", "ProtocolVersion", "Capabilities", "LogonMarker", "Session", "Client",
    "User", "Password", "Language", "UnicodeIndicator", "ClientAddress",
    "PartnerSystem", "ConnectionType", "KernelRelease", "KernelPatch", "PartnerHost",
    "Destination", "Program", "ContextEnd", "Kernel", "Function", "End">>
FixedWidth ==
  [Start |-> 0, ProtocolVersion |-> 4, Capabilities |-> 11, LogonMarker |-> 0,
   Session |-> 16, Client |-> 3, Language |-> 1, UnicodeIndicator |-> 1,
   ConnectionType |-> 1, KernelRelease |-> 3, KernelPatch |-> 3, ContextEnd |-> 0,
   Kernel |-> 3, End |-> 0]
TextWidth ==
  [User |-> 40, ClientAddress |-> 64, PartnerSystem |-> 64, PartnerHost |-> 120,
   Destination |-> 120, Program |-> 64, Function |-> 40]

\* encodeCpicInitialLogonRequest(); input has the lengths of the texts, and of
\* the password or the ticket it logs on with.
LogonRequest(input) ==
  LET credential == IF input.ticket > 0 THEN "Ticket" ELSE "Password"
      fields ==
        [i \in DOMAIN LogonOrder |->
           IF i = 8 THEN Field(credential, Value(input.ticket + input.password, ""))
           ELSE LET tag == LogonOrder[i] IN
                IF tag \in DOMAIN FixedWidth
                THEN Field(tag, Value(FixedWidth[tag], IF tag = "ProtocolVersion" THEN "0e09" ELSE ""))
                ELSE Field(tag, Value(input.texts[tag], ""))]
      size == PrefixLength["logon"] + ChainLength(fields) + 2
  IN IF /\ (input.ticket > 0) # (input.password > 0)
        /\ \A tag \in DOMAIN TextWidth : input.texts[tag] \in 1 .. TextWidth[tag]
        /\ ChainFits(fields) /\ size <= 65535
     THEN [ok |-> TRUE, m |-> Message("logon", "Start", fields, Sap8(size))]
     ELSE Refused

\* decodeCpicInitialLogonRequest()
ReadLogonRequest(m) ==
  LET chain == ChainPrefix(m, "Start") IN
  IF /\ m.prefix = "logon" /\ chain.ok
     /\ Len(chain.fields) = Len(LogonOrder)
     /\ \A i \in DOMAIN LogonOrder :
          IF i = 8 THEN chain.fields[i].tag \in {"Password", "Ticket"}
          ELSE chain.fields[i].tag = LogonOrder[i]
     /\ chain.fields[2].value.is = "0e09" /\ chain.fields[3].value.len = 11
     /\ chain.rest = <<>> /\ m.trailer.kind = "sap8"
     /\ m.trailer.size = MessageLength(m) - 8
  THEN [ok |-> TRUE, size |-> m.trailer.size,
        fields |-> [i \in DOMAIN chain.fields |->
                      [tag |-> chain.fields[i].tag, len |-> chain.fields[i].value.len]]]
  ELSE Refused
=============================================================================
