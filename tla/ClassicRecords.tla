--------------------------- MODULE ClassicRecords ---------------------------
(***************************************************************************)
(* The application's part of a classic call (src/protocol/classic-rfc.ts   *)
(* and rfc-callback.ts): scalars, tables and XML documents as fields of a  *)
(* chain, taken apart by the caller of a function, and taken apart and put *)
(* together by the handler of a call back.                                 *)
(* A row is the sequence of its bytes.  A document has the name in its     *)
(* root; its chunks say which part of which document they are.             *)
(***************************************************************************)
EXTENDS CpicFields

RowTags == {"TableContent", "TableCompr"}

\* How many fields at the front of a chain have one of these tags
Run(fields, tags) ==
  LET others == {i \in DOMAIN fields : fields[i].tag \notin tags} IN
  IF others = {} THEN Len(fields)
  ELSE (CHOOSE i \in others : \A j \in others : i <= j) - 1

(***************************************************************************)
(* Rows                                                                    *)
(***************************************************************************)
\* decodeSimpleCompressedTableRow(): the last byte fills the declared width.
Expanded(bytes, width) == bytes \o [i \in 1 .. width - Len(bytes) |-> Last(bytes)]
RowOf(field, width) ==
  IF field.tag = "TableCompr" /\ field.value.len < width
  THEN Expanded(field.value.is, width) ELSE field.value.is

DecodedLength(field, width) ==
  IF field.tag = "TableCompr" THEN width ELSE field.value.len

RowFits(field, width) ==
  /\ field.value.len \in 1 .. width
  /\ field.tag = "TableCompr" /\ field.value.len < width => width <= MaxFieldLength

\* The table at the front: its name, its header and the rows the header counts
Counted(header, n) == IF n < header.count THEN n ELSE header.count
TableAt(fields) ==
  LET header == fields[2].value.is
      following == Run(SubSeq(fields, 3, Len(fields)), RowTags)
      n == Counted(header, following)
      rows == SubSeq(fields, 3, n + 2)
  IN IF /\ Len(fields) >= 2 /\ fields[2].tag = "TableHeader"
        /\ fields[1].value.is # "" /\ fields[2].value.len = 8
        /\ n >= header.count /\ \A i \in DOMAIN rows : RowFits(rows[i], header.width)
     THEN [ok |-> TRUE, used |-> n + 2,
           item |-> [kind |-> "table", name |-> fields[1].value.is, width |-> header.width,
                     rows |-> [i \in DOMAIN rows |-> RowOf(rows[i], header.width)]]]
     ELSE Refused

\* preflightClassicRfcTableBytes(): what the tables of an answer expand to
TableBytes(fields) ==
  FoldLeft(LAMBDA t, field :
             IF field.tag = "TableHeader" THEN [t EXCEPT !.width = field.value.is.width]
             ELSE IF field.tag \in RowTags
             THEN [t EXCEPT !.sum = @ + DecodedLength(field, t.width)] ELSE t,
           [width |-> 0, sum |-> 0], fields).sum
BytesBounded(fields) ==
  /\ Len(fields) <= MaxFieldCount
  /\ FoldLeft(LAMBDA sum, field : sum + field.value.len, 0, fields) <= MaxChainLength
  /\ TableBytes(fields) <= MaxChainLength

(***************************************************************************)
(* Documents and scalars                                                   *)
(***************************************************************************)
DocumentAt(fields) ==
  LET n == Run(Tail(fields), {"XRfcData"})
      chunks == SubSeq(fields, 2, n + 1)
      len == FoldLeft(LAMBDA sum, chunk : sum + chunk.value.len, 0, chunks)
  IN IF /\ fields[1].value.len = 0 /\ n > 0 /\ len <= MaxChainLength
        /\ \A i \in DOMAIN chunks : chunks[i].value.len > 0
        /\ Len(fields) >= n + 2 /\ IsMark(fields[n + 2], "XRfcParameter")
     THEN [ok |-> TRUE, used |-> n + 2,
           item |-> [kind |-> "document", len |-> len,
                     parts |-> [i \in DOMAIN chunks |-> chunks[i].value.is]]]
     ELSE Refused

\* The name in the root stands in the first chunk; the rest is read by whoever
\* decodes the document.
HasRoot(item) == item.parts[1].part = 1
Root(item) == item.parts[1].document.is.root
IsWhole(item) ==
  /\ \A i \in DOMAIN item.parts :
       item.parts[i].part = i /\ item.parts[i].document = item.parts[1].document
  /\ item.len = item.parts[1].document.len

ScalarAt(fields) ==
  IF Len(fields) >= 2 /\ fields[2].tag = "ParameterValue" /\ fields[1].value.is # ""
  THEN [ok |-> TRUE, used |-> 2,
        item |-> [kind |-> "scalar", name |-> fields[1].value.is, value |-> fields[2].value]]
  ELSE Refused

ItemAt(fields) ==
  CASE fields[1].tag = "ParameterName" -> ScalarAt(fields)
    [] fields[1].tag = "TableName" -> TableAt(fields)
    [] fields[1].tag = "XRfcParameter" -> DocumentAt(fields)
    [] OTHER -> Refused

(***************************************************************************)
(* The answer, as the caller groups it                                     *)
(***************************************************************************)
Ignored == {"ResponseContext", "Session", "Unresolved0420", "CallContext", "Program",
            "0667", "End"}

RECURSIVE Items(_, _, _)
\* The items of a chain, past fields that are none (others); Refused where one
\* is malformed.
Items(fields, others, items) ==
  IF fields = <<>> THEN [ok |-> TRUE, items |-> items]
  ELSE IF fields[1].tag \in others THEN Items(Tail(fields), others, items)
  ELSE LET at == ItemAt(fields) IN
       IF ~at.ok THEN Refused
       ELSE Items(SubSeq(fields, at.used + 1, Len(fields)), others, Append(items, at.item))

Kind(items, kind) == SelectSeq(items, LAMBDA item : item.kind = kind)

\* decodeClassicRfcResult(): the name of a document is not looked at yet.
Grouped(fields) ==
  LET outputs == {i \in DOMAIN fields : fields[i].tag = "RequestedOutput"}
      read == Items(fields, Ignored \cup {"RequestedOutput"}, <<>>)
      named == SelectSeq(read.items, LAMBDA item : item.kind # "document")
  IN IF /\ BytesBounded(fields) /\ \A i \in outputs : fields[i].value.is # ""
        /\ read.ok /\ DistinctNames(named)
     THEN read ELSE Refused

(***************************************************************************)
(* A call back: the request                                                *)
(***************************************************************************)
CallbackHeader == {"Kernel", "Function", "CallContext", "RequestedOutput"}

ItemName(item) == IF item.kind = "document" THEN Root(item) ELSE item.name

HavingTag(fields, tag) == {i \in DOMAIN fields : fields[i].tag = tag}
Said(fields, tag) == {fields[i].value.is : i \in HavingTag(fields, tag)}
CallbackHeaderSound(fields) ==
  /\ Cardinality(HavingTag(fields, "Kernel")) <= 1
  /\ Cardinality(HavingTag(fields, "Function")) = 1
  /\ \A i \in HavingTag(fields, "CallContext") : fields[i].value.len = 0
  /\ Cardinality(Said(fields, "RequestedOutput"))
       = Cardinality(HavingTag(fields, "RequestedOutput"))
  /\ \A tag \in {"Function", "Kernel", "RequestedOutput"} : \A name \in Said(fields, tag) :
       NameFits(name, IF tag = "Function" THEN 40 ELSE IF tag = "Kernel" THEN 16 ELSE 30)

ItemsNamed(items) ==
  /\ \A i \in DOMAIN items : items[i].kind = "document" => HasRoot(items[i])
  /\ LET names == {ItemName(items[i]) : i \in DOMAIN items} IN
     Cardinality(names) = Len(items) /\ \A name \in names : NameFits(name, 30)

\* decodeCpicRfcCallbackRequest()
CallbackOf(fields) ==
  LET read == Items(fields, CallbackHeader \cup {"End"}, <<>>) IN
  IF /\ CallbackHeaderSound(fields) /\ TableBytes(fields) <= MaxChainLength
     /\ read.ok /\ ItemsNamed(read.items)
  THEN [ok |-> TRUE, function |-> CHOOSE f \in Said(fields, "Function") : TRUE,
        outputs |-> LET asked == SelectSeq(fields, LAMBDA f : f.tag = "RequestedOutput")
                    IN [i \in DOMAIN asked |-> asked[i].value.is],
        items |-> read.items]
  ELSE Refused
ReadCallback(m) ==
  LET chain == ChainPrefix(m, "ContextEnd") IN
  IF m.prefix = "cut" /\ chain.ok /\ chain.rest = <<>> /\ m.trailer = Sentinel
  THEN CallbackOf(chain.fields) ELSE Refused

(***************************************************************************)
(* A call back: the response                                               *)
(***************************************************************************)
\* encodeCpicRfcCallbackException()
ExceptionReply(key) ==
  LET fields == <<Field("AbapExceptionKey",
                        Value(2 * Len(key), [says |-> "words", in |-> {"utf16le"}])), End>> IN
  IF NameFits(key, 30) /\ ChainFits(fields)
  THEN [ok |-> TRUE, m |-> Message("reply", "ResponseStart", fields, Sentinel)]
  ELSE Refused

Sum(Length(_), entries) ==
  FoldLeft(LAMBDA sum, entry : sum + Length(entry), 0, entries)

\* The budget of a response: its fields and its bytes, before any is copied
WithinBudget(r) ==
  /\ 2 + 2 * (Len(r.exports) + Len(r.tables) + Len(r.documents))
     + Sum(LAMBDA t : Len(t.rows), r.tables)
     + Sum(LAMBDA d : Len(Chunks(d.value)), r.documents) <= MaxFieldCount
  /\ Sum(LAMBDA e : e.value.len, r.exports)
     + Sum(LAMBDA t : t.width * Len(t.rows), r.tables)
     + Sum(LAMBDA d : d.value.len, r.documents) <= MaxChainLength

\* encodeCpicRfcCallbackResponse(); requested are the outputs the caller asked
\* for.
Asked(names, requested) == names \subseteq requested
CallbackReply(r, requested) ==
  LET entries == r.exports \o r.tables \o r.documents
      fields == <<Field("Unresolved0420", Zero)>> \o All(ParameterFields, r.exports)
                \o All(TableFields, r.tables)
                \o All(LAMBDA d : XmlFields(d.value), r.documents) \o <<End>>
  IN IF /\ WithinBudget(r) /\ DistinctNames(entries)
        /\ \A i \in DOMAIN entries : NameFits(entries[i].name, 30)
        /\ \A i \in DOMAIN r.tables : RowsFit(r.tables[i])
        /\ \A i \in DOMAIN r.documents : r.documents[i].value.is.root = r.documents[i].name
        /\ Asked({entries[i].name : i \in DOMAIN entries}, requested)
        /\ ChainFits(fields)
     THEN [ok |-> TRUE, m |-> Message("reply", "ResponseStart", fields, Sentinel)]
     ELSE Refused

\* frameCpicRfcCallbackResponse(): SAP8 is added to what fits a fragment.
Frame(m) ==
  LET framed == IF MessageLength(m) <= Fragment
                THEN [m EXCEPT !.trailer = Sap8(MessageLength(m))] ELSE m
  IN IF MessageLength(m) <= MaxChainLength /\ Inspect(framed).ok
     THEN [ok |-> TRUE, m |-> framed] ELSE Refused
=============================================================================
