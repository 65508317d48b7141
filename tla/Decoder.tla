-------------------------------- MODULE Decoder --------------------------------
(***************************************************************************)
(* decode_record of src/ids/stages/decoder.py and decode_mime of           *)
(* src/ids/stages/mime.py: what can be read of a payload is added as items,*)
(* and what could not be read is a problem of its item.  Text is a         *)
(* sequence of tokens, as in Application; "raw" is a byte that is no       *)
(* UTF-8, "half" the start of a character that goes on, "utf8" a character *)
(* that is no ASCII, "ctl" a control byte.  Quoted-Printable and the       *)
(* charsets of a MIME part are left out.                                   *)
(***************************************************************************)
EXTENDS Application, Preprocessor

CONSTANTS
  PayloadLimit,  \* config.payload_limit
  MaxParts,      \* 16 in the code: MAX_MIME_PARTS
  MaxNesting     \* 32 in the code: MAX_MIME_NESTING

ASSUME DecoderLimits == PayloadLimit \in Nat \ {0} /\ MaxParts \in Nat \ {0} /\ MaxNesting \in Nat

Escapes == ("%2E" :> ".") @@ ("%2F" :> "/") @@ ("%3F" :> "?") @@ ("%FF" :> "raw")
FormEscapes == Escapes @@ ("+" :> " ")
Entities == ("&lt;" :> "<") @@ ("&#0;" :> "REPL")
Decoded(s, table) == [i \in DOMAIN s |-> IF s[i] \in DOMAIN table THEN table[s[i]] ELSE s[i]]

\* decode_text: how many sequences are invalid, and the text.  A character that the end cuts is held back
\* unless the end is final.
Invalid(s, final) ==
  Cardinality({i \in DOMAIN s : s[i] = "raw" \/ (s[i] = "half" /\ (i < Len(s) \/ final))})
Readable(s) == [i \in DOMAIN s |-> IF s[i] \in {"raw", "half"} THEN "REPL" ELSE s[i]]
DecodeText(s, final) == Readable(IF ~final /\ s # <<>> /\ s[Len(s)] = "half" THEN Front(s) ELSE s)
IsAscii(s) == \A i \in DOMAIN s : s[i] \notin {"raw", "half", "utf8"}

Problems(condition, problem) == IF condition THEN {problem} ELSE {}

\* _item: the value is cut at the limit too.
Item(field, value, problems, failed) ==
  LET long == \E v \in value : Len(v) > PayloadLimit
      all == problems \cup Problems(long, "value cut")
  IN  [field |-> field,
       value |-> {SubSeq(v, 1, AtMost(Len(v), PayloadLimit)) : v \in value},
       problems |-> all,
       status |-> IF failed THEN "failed" ELSE IF all # {} THEN "partial" ELSE "ok"]

-------------------------------------------------------------------------------
\* _read_payload: the hex text of the payload or of its preview.
ReadPayload(r) ==
  LET texts == IF r.hex # {} THEN r.hex ELSE r.preview
      s == CHOOSE x \in texts : TRUE
      data == SubSeq(s, 1, AtMost(Len(s), PayloadLimit))
  IN  CASE texts = {} -> [data |-> <<>>, notHex |-> FALSE, cut |-> FALSE]
        [] texts # {} /\ Has(data, "no hex") -> [data |-> <<>>, notHex |-> TRUE, cut |-> FALSE]
        [] OTHER -> [data |-> data, notHex |-> FALSE,
                     cut |-> Len(s) > PayloadLimit
                               \/ (IsNum(r.payloadLen) /\ Len(data) < r.payloadLen.number)]

\* _target_bytes: the characters of a target are bytes.  If these are no UTF-8, it is meant as it stands.
AsMeant(s) == [i \in DOMAIN s |-> IF s[i] \in {"raw", "half"} THEN "utf8" ELSE s[i]]

\* decode_target: percent in the path, form in the query.
DecodedTarget(s) ==
  Decoded(Before(s, <<"?">>), Escapes) \o (IF Has(s, "?") THEN <<"?">> ELSE <<>>)
    \o Decoded(Behind(s, <<"?">>), FormEscapes)

\* A target that needs no decoding gives no item.
TargetItems(application) ==
  LET value(s) == DecodedTarget(AsMeant(s))
      isRead(s) == value(s) # AsMeant(s) \/ (AsMeant(s) = s /\ ~IsAscii(s))
      problems(s) == Problems(Has(s, "%zz"), "escape") \cup Problems(Has(value(s), "raw"), "UTF-8")
  IN  {Item("http.target", {Readable(value(s))}, problems(s), FALSE) :
         s \in {t \in application.target : isRead(t) \/ problems(t) # {}}}

BodyItems(application, payload) ==
  LET end == CRLF \o CRLF
      body == Behind(payload.data, end)
      isForm == application.media = "form"
      text == DecodeText(body, ~payload.cut)
      formed == IF isForm THEN Decoded(text, FormEscapes) ELSE text
      value == Decoded(Readable(formed), Entities)
      found == Problems(isForm /\ Has(text, "%zz"), "escape") \cup Problems(Has(formed, "raw"), "UTF-8")
                 \cup Problems(Has(formed, "&#0;"), "entity")
      lost == Problems(Invalid(body, ~payload.cut) > 0, "UTF-8")
                \cup Problems(~application.bodyComplete, "body continues")
                \cup Problems(payload.cut, "payload cut")
  IN  IF \/ Places(payload.data, end) = {} \/ application.media = "other" \/ application.compressed
         \/ (value = text /\ found = {})
      THEN {} ELSE {Item("http.body", {value}, found \cup lost, FALSE)}

\* _payload_item: a payload that is no plain ASCII.
PayloadItems(payload) ==
  LET data == payload.data
      invalid == Invalid(data, ~payload.cut)
      control == Cardinality({i \in DOMAIN data : data[i] = "ctl"})
      binary == invalid > 0 /\ (control + invalid) * 4 > Len(data)
      problems == Problems(binary, "binary") \cup Problems(invalid > 0 /\ ~binary, "UTF-8")
                    \cup Problems(payload.cut, "payload cut")
  IN  IF payload.notHex THEN {Item("payload", {}, {"not hex"}, FALSE)}
      ELSE IF invalid = 0 /\ IsAscii(data) THEN {}
      ELSE {Item("payload", IF binary THEN {} ELSE {DecodeText(data, ~payload.cut)}, problems, FALSE)}

-------------------------------------------------------------------------------
\* MIME.

Alphabet == {"b"}   \* any character of the Base64 alphabet
Compact(text) == FoldLeft(LAMBDA t, x : IF x \in {" ", "CR", "LF"} THEN t ELSE Append(t, x), <<>>, text)

\* Slip: the padding of a cut message is judged like that of a whole one.
JudgeWhole(body, complete) ==
  LET s == Compact(body)
      chars == Before(s, <<"=">>)
      equals == Len(s) - Len(chars)
  IN  IF ~(\A i \in DOMAIN s : s[i] \in Alphabet \cup {"="}) THEN {"character"}
      ELSE Problems((Len(chars) + equals) % 4 # 0 \/ Has(Behind(s, <<"=">>), "b") \/ equals > 2, "padding")

\* decode_base64: what is wrong with the text, where a cut is no fault.
JudgeBase64(body, complete) ==
  LET s == Compact(body)
      chars == Before(s, <<"=">>)
      tail == Behind(s, <<"=">>)
      remainder == Len(chars) % 4
      padded == remainder \in {2, 3} /\ ~Has(tail, "b") /\ remainder + 1 + Len(tail) = 4
      cutInside == ~complete /\ remainder = 2 /\ tail = <<>>
  IN  IF ~(\A i \in DOMAIN s : s[i] \in Alphabet \cup {"="}) THEN {"character"}
      ELSE IF Has(s, "=") THEN Problems(~padded /\ ~cutInside, "padding")
      ELSE Problems(complete /\ remainder = 1, "length")
             \cup Problems(complete /\ remainder \in {2, 3}, "padding")

\* The bytes of the longest prefix that can be decoded.
Base64Value(body) ==
  LET chars == Len(Before(Compact(body), <<"=">>))
  IN  [i \in 1..((chars * 3) \div 4) |-> "byte"]

\* frame_message: the message up to its end marker, without the dots that SMTP doubles at the start of a line.
EndMarker == CRLF \o <<".">> \o CRLF
Unstuffed(message) ==
  LET starts(i) == i = 1 \/ message[i - 1] = "LF"
      stuffed(i) == message[i] = "." /\ starts(i) /\ i < Len(message) /\ message[i + 1] = "."
  IN  FlattenSeq([i \in DOMAIN message |-> IF stuffed(i) THEN <<>> ELSE <<message[i]>>])
Frame(data) ==
  Unstuffed(IF Places(data, EndMarker) = {} THEN data ELSE SubSeq(data, 1, FirstPlace(data, EndMarker) + 1))

\* external: the email package.  A header block and the bodies of its Base64 text parts.
HeaderBlock(message) == Before(message, CRLF \o CRLF)
Parts(message) ==
  LET body == Behind(message, CRLF \o CRLF)
  IN  IF Has(HeaderBlock(message), "multipart") THEN Tail(Split(body, <<"boundary">>)) ELSE <<body>>

Leaf(body, problems, reason) ==
  IF "character" \in problems THEN {Item("mime", {}, problems, TRUE)}
  ELSE IF Base64Value(body) = <<>> /\ problems = {} THEN {}
  ELSE {Item("mime", {Base64Value(body)}, problems \cup reason, FALSE)}

LeafItems(body, complete, reason) == Leaf(body, JudgeBase64(body, complete), reason)

PartItems(parts, complete, reason) ==
  (UNION {LeafItems(parts[i], complete, reason) : i \in 1..AtMost(Len(parts), MaxParts)})
    \cup (IF Len(parts) > MaxParts THEN {Item("mime", {}, {"parts"}, FALSE)} ELSE {})

MessageItems(message, complete, reason) ==
  LET head == HeaderBlock(message)
      nested == Cardinality({i \in DOMAIN message : message[i] = "multipart"})
  IN  IF Has(head, "bad charset") THEN {Item("mime", {}, {"malformed headers"}, FALSE)}
      ELSE IF ~Has(head, "base64") /\ ~Has(head, "multipart") THEN {}
      ELSE IF nested > MaxNesting THEN {Item("mime", {}, {"nested"}, FALSE)}
      ELSE PartItems(Parts(message), complete, reason)

MimeItems(payload) ==
  MessageItems(Frame(payload.data), Places(payload.data, EndMarker) # {},
               IF Places(payload.data, EndMarker) # {} THEN {}
               ELSE IF payload.cut THEN {"payload cut"} ELSE {"continues"})

-------------------------------------------------------------------------------
StatusOf(items) ==
  LET statuses == {i.status : i \in items}
  IN  CASE items = {} -> "not_applicable"
        [] items # {} /\ statuses \in {{"ok"}, {"failed"}} -> CHOOSE s \in statuses : TRUE
        [] OTHER -> "partial"

LimitError == [stage |-> "decoder", type |-> "limit"]

ItemsOfRecord(r, payload) ==
  LET application == CHOOSE a \in r.application : TRUE
      absent == [target |-> {}, media |-> "", compressed |-> FALSE, bodyComplete |-> TRUE]
      object == IF r.application = {} THEN absent ELSE application
  IN  (IF r.protocol = "HTTP" THEN TargetItems(object) \cup BodyItems(object, payload)
       ELSE IF ProtocolOf(r.transport) = {"TCP"} THEN MimeItems(payload) ELSE {})
        \cup PayloadItems(payload)

DecodeResult(items, errors) == [decodeStatus |-> StatusOf(items), decoded |-> items, errors |-> errors]

Decode(r) ==
  IF r.protocol = "DNS" THEN DecodeResult({}, {})
  ELSE LET payload == ReadPayload(r)
       IN  DecodeResult(ItemsOfRecord(r, payload), IF payload.cut THEN {LimitError} ELSE {})
===============================================================================
