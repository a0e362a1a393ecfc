----------------------------- MODULE RfcReplies -----------------------------
(***************************************************************************)
(* What an answer of the partner means: the error envelope                 *)
(* (src/protocol/rfc-error-envelope.ts) and the answers to a call, to a    *)
(* reset, to the first call after one, and to the logon (cpic.ts).         *)
(* The text of an error fact says something or is blank, and reads in a    *)
(* set of encodings.                                                       *)
(***************************************************************************)
EXTENDS CpicFields

CONSTANTS
  MaxText, MaxTotalText,           \* DEFAULT_MAX_RFC_ERROR_..._BYTE_LENGTH
  MaxControls, MaxControlLength, MaxTotalControl,
  MaxEnvelopeFields,               \* DEFAULT_MAX_RFC_ERROR_ENVELOPE_FIELD_COUNT
  MaxPreamble, MaxPreambleLength   \* MAX_SESSION_REFRESH_PREAMBLE_...

Words(len, encodings) == Value(len, [says |-> "words", in |-> encodings])
Blank(len, encodings) == Value(len, [says |-> "blank", in |-> encodings])

(***************************************************************************)
(* The envelope                                                            *)
(***************************************************************************)
DataTags ==
  {"Function", "ParameterName", "ParameterValue", "RequestedOutput", "TableName",
   "TableHeader", "TableContent", "TableCompr", "ContextEnd", "ResponseContext",
   "CallContext", "Session"}
MessageTexts == {"AbapErrorMessage", "AbapT100Text"}
MessageIdentity == {"AbapMessageClass", "AbapMessageType", "AbapMessageNumber"}
Secondary ==
  {"AbapMessageV1", "AbapMessageV2", "AbapMessageV3", "AbapMessageV4", "AbapCallStack"}
  \cup MessageTexts \cup MessageIdentity
Discriminators == {"AbapExceptionKey", "AbapRuntimeId"}
TextTags == Discriminators \cup Secondary
ControlTags == {"Unresolved0420", "UseClassExceptions", "ClassExceptionInfo"}
ClassExceptions == {"ClassException", "ClassExceptionEnd"}

EndsOnce(fields) ==
  /\ fields # <<>> /\ IsMark(Last(fields), "End")
  /\ \A i \in DOMAIN fields : fields[i].tag = "End" => i = Len(fields)

Of(fields, tags) == SelectSeq(fields, LAMBDA field : field.tag \in tags)
Lengths(fields) == FoldLeft(LAMBDA sum, field : sum + field.value.len, 0, fields)
Singleton(fields, tags) ==
  \A i, j \in DOMAIN fields :
    fields[i].tag = fields[j].tag /\ fields[i].tag \in tags => i = j

TextsReadable(facts, encoding) ==
  /\ Singleton(facts, TextTags)
  /\ \A i \in DOMAIN facts :
       facts[i].value.len <= MaxText /\ encoding \in facts[i].value.is.in
  /\ Lengths(facts) <= MaxTotalText
ControlsBounded(controls) ==
  /\ Len(controls) <= MaxControls
  /\ \A i \in DOMAIN controls : controls[i].value.len <= MaxControlLength
  /\ Lengths(controls) <= MaxTotalControl
  /\ Singleton(controls, {"UseClassExceptions", "ClassExceptionInfo"})

\* (A variant that takes an answer without any error fact for a success.)
NoZeroControl(zero) == TRUE
ZeroControl(zero) == Len(zero) = 1 /\ zero[1].value = Zero

\* decodeRfcErrorEnvelope()
Envelope(fields, limit, allowed, encoding) ==
  LET facts == Of(fields, TextTags)
      controls == Of(fields, ControlTags)
      tags == {fields[i].tag : i \in DOMAIN fields}
      said == {facts[i].tag : i \in {j \in DOMAIN facts : facts[j].value.is.says = "words"}}
      both == Discriminators \subseteq tags
      supplement == "ClassExceptionInfo" \in tags
      zero == Of(fields, {"Unresolved0420"})
      outcome ==
        CASE "AbapExceptionKey" \in tags -> "abapException"
          [] "AbapRuntimeId" \in tags -> "abapRuntime"
          [] OTHER ->
             IF said \cap MessageTexts # {} \/ MessageIdentity \subseteq said
             THEN "abapMessage"
             ELSE IF Secondary \cap tags # {} THEN "ambiguous"
             ELSE IF ZeroControl(zero) THEN "success" ELSE "uncontrolled"
  IN IF /\ Len(fields) <= limit /\ EndsOnce(fields)
        /\ TextsReadable(facts, encoding) /\ ControlsBounded(controls)
        /\ tags \cap ClassExceptions = {}
        /\ tags \subseteq DataTags \cup allowed \cup TextTags \cup ControlTags \cup {"End"}
        /\ tags \cap Discriminators \subseteq said /\ ~both
        /\ supplement => "AbapExceptionKey" \in tags /\ "UseClassExceptions" \notin tags
        /\ outcome \notin {"ambiguous", "uncontrolled"}
     THEN [ok |-> TRUE, outcome |-> outcome, fields |-> fields]
     ELSE Refused

(***************************************************************************)
(* Answers on an established session                                       *)
(***************************************************************************)
XmlTags == {"XRfcParameter", "XRfcData"}

\* decodeCpicFunctionResponseFields()
ResponseFields(fields, allowed) ==
  Envelope(fields, MaxFieldCount, {"Program", "0667"} \cup allowed, "utf16le")

\* decodeCpicFunctionResponseEnvelope()
Response(m, allowed) ==
  LET chain == ChainPrefix(m, "ResponseStart") IN
  IF m.prefix = "reply" /\ chain.ok /\ chain.rest = <<>> /\ m.trailer = Sentinel
  THEN ResponseFields(chain.fields, allowed) ELSE Refused

\* decodeCpicFunctionResultFields()
FunctionReply(m) == Response(m, XmlTags)

\* decodeCpicResetServerContextResultFields()
ResetReply(m) ==
  LET response == Response(m, {"RfcServerResetDone"})
      done == Of(response.fields, {"RfcServerResetDone"})
  IN IF response.ok /\ Len(done) <= 1 /\ Lengths(done) = 0 THEN response ELSE Refused

PreambleTags ==
  {"ProtocolVersion", "Capabilities", "LogonStatus", "SystemCodePage",
   "ClientAddress", "PartnerSystem", "PartnerHost", "ConnectionType",
   "KernelRelease", "KernelPatch", "Destination", "Program", "0020", "0021",
   "0450", "0451", "0452", "0453"}

\* decodeCpicSessionRefreshResultFields(): a header of the session, then the
\* answer it is in front of
RefreshReply(m) ==
  LET chain == ChainPrefix(m, "Start")
      starts == {i \in DOMAIN chain.fields : chain.fields[i].tag = "ResponseStart"}
      start == CHOOSE i \in starts : TRUE
      preamble == SubSeq(chain.fields, 1, start - 1)
  IN IF /\ m.prefix = "session" /\ chain.ok /\ chain.rest = <<>> /\ m.trailer = Sentinel
        /\ Cardinality(starts) = 1 /\ chain.fields[start].value.len = 0
        /\ Len(preamble) \in 2 .. MaxPreamble
        /\ \A i \in DOMAIN preamble : preamble[i].tag \in PreambleTags
        /\ Singleton(preamble, PreambleTags) /\ Lengths(preamble) <= MaxPreambleLength
        /\ preamble[1].tag = "ProtocolVersion" /\ preamble[1].value.len = 4
        /\ preamble[2].tag = "Capabilities" /\ preamble[2].value.len = 11
        /\ \A i \in DOMAIN preamble :
             preamble[i].tag = "LogonStatus" => preamble[i].value = Value(1, 0)
     THEN ResponseFields(SubSeq(chain.fields, start + 1, Len(chain.fields)), {})
     ELSE Refused

(***************************************************************************)
(* The answer to the logon                                                 *)
(***************************************************************************)
TextLengths == 1 .. 255          \* INITIAL_CPIC_MAX_TEXT_COORDINATE_BYTE_LENGTH
Required(tag, lengths) == [tag |-> tag, lengths |-> lengths, optional |-> FALSE]
Optional(tag, lengths) == [tag |-> tag, lengths |-> lengths, optional |-> TRUE]

ErrorPreamble ==
  <<Required("ProtocolVersion", {4}), Required("Capabilities", {11}),
    Optional("LogonStatus", {1}), Required("SystemCodePage", {4, 8}),
    Optional("0450", {3}), Required("ClientAddress", TextLengths),
    Optional("0020", {46}), Optional("0021", {10}),
    Required("PartnerSystem", TextLengths), Required("PartnerHost", TextLengths),
    Required("ConnectionType", {1, 2}), Required("KernelPatch", {4, 8}),
    Required("KernelRelease", {4, 8}), Required("Destination", TextLengths),
    Required("Program", TextLengths), Required("ResponseStart", {0})>>

RichPreamble ==
  <<Required("ProtocolVersion", {4}), Required("Capabilities", {11}),
    Optional("LogonStatus", {1}), Required("SystemCodePage", {8}),
    Optional("0450", {6}), Optional("0451", {20}), Optional("0452", {4}),
    Optional("0453", TextLengths), Required("ClientAddress", TextLengths),
    Optional("0020", {92}), Optional("0021", {20}),
    Required("PartnerSystem", TextLengths), Required("PartnerHost", TextLengths),
    Required("ConnectionType", {2}), Required("KernelPatch", {8}),
    Required("KernelRelease", {8}), Optional("Destination", TextLengths),
    Required("Program", TextLengths), Required("0150", {24}),
    Required("0151", {6}), Required("0152", {2})>>

RichResponse ==
  <<Required("ResponseStart", {0}), Required("ResponseContext", {0}),
    Required("Session", {16}), Required("Unresolved0420", {4}),
    Required("CallContext", {0}), Required("Program", TextLengths),
    Required("0667", {8}), Optional("0126", {4}), Required("End", {0})>>
RichGrammar == RichPreamble \o RichResponse

\* matchesInitialCpicGrammarCoordinate()
Matches(field, coordinate) ==
  field.tag = coordinate.tag /\ field.value.len \in coordinate.lengths

\* One coordinate after the other takes the next field or, where it may be
\* absent, none: the number of fields read, and which coordinates read them.
MaySkip(coordinate) == coordinate.optional
Walk(fields, grammar) ==
  FoldLeft(LAMBDA walk, coordinate :
             IF walk.ok /\ walk.next <= Len(fields) /\ Matches(fields[walk.next], coordinate)
             THEN [walk EXCEPT !.next = @ + 1, !.tags = Append(@, coordinate.tag)]
             ELSE [walk EXCEPT !.ok = @ /\ MaySkip(coordinate)],
           [ok |-> TRUE, next |-> 1, tags |-> <<>>], grammar)

Failed(outcome) == [ok |-> TRUE, success |-> FALSE, outcome |-> outcome]
LoggedOn == [ok |-> TRUE, success |-> TRUE]

\* decodeRichInitialCpicRfcPingResponse()
RichReply(fields) ==
  LET logon == Of(fields, {"LogonStatus"})
      call == Of(fields, {"Unresolved0420"})
      walk == Walk(fields, RichGrammar)
      at == CHOOSE i \in DOMAIN fields : fields[i].tag = "ResponseStart"
      extra == {"0126"} \cap Range(walk.tags)
      embedded == ResponseFields(SubSeq(fields, at + 1, Len(fields)), extra)
      allowance(tag) == Cardinality({i \in DOMAIN RichGrammar : RichGrammar[i].tag = tag})
      TooMany(tag) == Len(Of(fields, {tag})) > allowance(tag)
  IN IF \/ ~EndsOnce(fields)
        \/ Len(logon) > 1 \/ Lengths(logon) # Len(logon)
        \/ Len(call) # 1 \/ Lengths(call) # 4
        \/ \E tag \in {RichGrammar[i].tag : i \in DOMAIN RichGrammar} : TooMany(tag)
        \/ ~walk.ok \/ walk.next # Len(fields) + 1
     THEN Refused
     ELSE IF logon # <<>> /\ logon[1].value.is # 0 THEN Failed("status")
     ELSE IF call[1].value.is # 0 \/ ~embedded.ok THEN Refused
     ELSE IF embedded.outcome # "success" THEN Refused
     ELSE LoggedOn

PlainTags == {"Start", "ProtocolVersion", "Capabilities", "LogonStatus",
              "Unresolved0420", "0450", "SystemCodePage", "End"}

\* decodeCpicInitialLogonResponse(), the end of it
PlainReply(fields) ==
  LET starts == Of(fields, {"Start"})
      semantic == IF starts # <<>> THEN Tail(fields) ELSE fields
      vendor == {i \in DOMAIN semantic : semantic[i].tag = "0450"}
      logon == Of(fields, {"LogonStatus"})
      call == Of(fields, {"Unresolved0420"})
  IN IF \/ \E i \in DOMAIN fields : fields[i].tag \notin PlainTags
        \/ ~EndsOnce(fields)
        \/ starts # <<>> /\ (Len(starts) > 1 \/ ~IsMark(fields[1], "Start"))
        \/ /\ vendor # {}
           /\ \/ vendor # {5} \/ semantic[5].value.len # 6
              \/ semantic[4].tag # "Unresolved0420"
        \/ ~Singleton(fields, {"Capabilities", "SystemCodePage"})
        \/ Len(logon) > 1 \/ Lengths(logon) # Len(logon)
        \/ Len(call) > 1 \/ Lengths(call) # 4 * Len(call)
        \/ logon = <<>> /\ call = <<>>
        \/ call # <<>> /\ call[1].value.is # 0
     THEN Refused
     ELSE IF logon # <<>> /\ logon[1].value.is # 0 THEN Failed("status") ELSE LoggedOn

\* A logon that is refused before the session is set up
ErrorReply(fields) ==
  LET walk == Walk(fields, ErrorPreamble)
      page == Of(fields, {"SystemCodePage"})[1]
      tags == Range(walk.tags)
      envelope == Envelope(fields, MaxEnvelopeFields, tags,
                           IF page.value.len = 4 THEN "ascii" ELSE "utf16le")
  IN IF \/ ~walk.ok \/ Len(fields) <= walk.next \/ ~Singleton(fields, tags)
        \/ ~envelope.ok
     THEN Refused
     ELSE IF envelope.outcome = "success" THEN Refused ELSE Failed(envelope.outcome)

\* decodeCpicInitialLogonResponse()
LogonReply(m) ==
  LET chain == ChainPrefix(m, "Start")
      protocol == Of(chain.fields, {"ProtocolVersion"})
  IN IF \/ m.prefix \notin {"session", "error"} \/ ~chain.ok
        \/ chain.rest # <<>> \/ m.trailer # Sentinel
        \/ protocol = <<>>
     THEN Refused
     ELSE IF protocol[1].value.len # 4 THEN Refused
     ELSE IF m.prefix = "error" THEN ErrorReply(chain.fields)
     ELSE IF Len(protocol) # 1 THEN Refused
     ELSE IF Of(chain.fields, {"ResponseStart"}) # <<>> THEN RichReply(chain.fields)
     ELSE PlainReply(chain.fields)
=============================================================================
