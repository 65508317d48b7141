------------------------------ MODULE Application ------------------------------
(***************************************************************************)
(* Which protocol a payload speaks (src/ids/parsers/detector.py), and what *)
(* parse_http and parse_smtp make of it.  A text payload is a sequence of  *)
(* tokens: words, single digits, blanks, CR and LF.  A word stands for all *)
(* spellings that the code treats alike.  Other payloads are bytes.        *)
(***************************************************************************)
EXTENDS Dns, FiniteSets

CONSTANTS
  HeaderLimit,  \* 100 in the code
  LineLimit     \* 1000 in the code: MAX_LINES of smtp.py

ASSUME TextLimits == HeaderLimit \in Nat /\ LineLimit \in Nat \ {0}

Methods == {"GET", "POST"}                 \* any HTTP method
Version == "HTTP/1.1"                      \* a whole version; "HTTP/" is a part of one
Commands == {"EHLO", "QUIT"}               \* any command that stands alone
Argument == [MAIL |-> "FROM:", RCPT |-> "TO:"]
Digits == {"0", "2", "5"}
DigitValue == ("0" :> 0) @@ ("2" :> 2) @@ ("5" :> 5)
CRLF == <<"CR", "LF">>

Empty == [kind |-> "bytes", units |-> <<>>]
CutTo(payload, n) == [payload EXCEPT !.units = SubSeq(@, 1, AtMost(n, Len(@)))]
IsText(payload) == payload.kind = "text"

\* partition: what stands before and behind the first place of w in s.
Places(s, w) == {i \in 1..(Len(s) + 1 - Len(w)) : SubSeq(s, i, i + Len(w) - 1) = w}
FirstPlace(s, w) == Min(Places(s, w))
Before(s, w) == IF Places(s, w) = {} THEN s ELSE SubSeq(s, 1, FirstPlace(s, w) - 1)
Behind(s, w) == IF Places(s, w) = {} THEN <<>> ELSE SubSeq(s, FirstPlace(s, w) + Len(w), Len(s))
Has(s, token) == \E i \in DOMAIN s : s[i] = token
Word1(s) == Before(s, <<" ">>)
Rest(s) == Behind(s, <<" ">>)
IsNumber(s) == s # <<>> /\ \A i \in DOMAIN s : s[i] \in Digits
Number(s) == FoldLeft(LAMBDA n, d : n * 10 + DigitValue[d], 0, s)

\* split: the parts of s between the places of w, of which there are at most Len(s) + 1.
Split(s, w) ==
  LET cut == FoldLeft(LAMBDA c, i : IF c.open THEN [parts |-> Append(c.parts, Before(c.rest, w)),
                                                     rest |-> Behind(c.rest, w),
                                                     open |-> Places(c.rest, w) # {}]
                                    ELSE c,
                      [parts |-> <<>>, rest |-> s, open |-> TRUE], [i \in 1..(Len(s) + 1) |-> i])
  IN  cut.parts

-------------------------------------------------------------------------------
\* The detector.

PortHints == (80 :> "HTTP") @@ (53 :> "DNS") @@ (25 :> "SMTP")
HintOf(transport) ==
  LET known(port) == port \in DOMAIN PortHints
  IN  UNION {IF known(t.dstPort) THEN {PortHints[t.dstPort]}
             ELSE IF known(t.srcPort) THEN {PortHints[t.srcPort]} ELSE {} : t \in transport}

\* The first line, and whether CR LF ends it.
FirstLine(s) ==
  LET line == Before(s, <<"LF">>)
  IN  IF Has(s, "LF") /\ line # <<>> /\ line[Len(line)] = "CR"
      THEN [line |-> Before(s, CRLF), complete |-> TRUE]
      ELSE [line |-> line, complete |-> FALSE]

\* A segment may end inside the version.
IsHttpRequest(line) ==
  LET rest == Rest(line)
  IN  /\ Has(line, " ") /\ \E m \in Methods : Word1(line) = <<m>>
      /\ Has(rest, " ") /\ Word1(rest) # <<>>
      /\ Rest(rest) \in {<<>>, <<"HTTP/">>, <<Version>>}

IsHttpResponse(line) ==
  Len(line) >= 5 /\ line[1] = Version /\ line[2] = " " /\ IsNumber(SubSeq(line, 3, 5))

IsSmtpReply(first, hint) ==
  LET line == first.line
  IN  /\ Len(line) >= 4 /\ line[1] \in {"2", "5"} /\ IsNumber(SubSeq(line, 2, 3))
      /\ line[4] \in {" ", "-"}
      /\ \/ hint = {"SMTP"}
         \/ first.complete /\ \A i \in 5..Len(line) : line[i] \notin {"raw", "CR"}

IsSmtpCommand(s, first) ==
  LET word == Word1(first.line)
  IN  /\ first.complete \/ ~Has(s, "LF")
      /\ \/ \E c \in Commands : word = <<c>>
         \/ \E c \in DOMAIN Argument :
              word = <<c>> /\ Rest(first.line) # <<>> /\ Rest(first.line)[1] = Argument[c]

Found(protocol, rule) == {[protocol |-> protocol, rule |-> rule]}

FirstTextMatch(s, first, hint) ==
  IF IsHttpRequest(first.line) THEN Found("HTTP", "http_request")
  ELSE IF IsHttpResponse(first.line) THEN Found("HTTP", "http_response")
  ELSE IF IsSmtpReply(first, hint) THEN Found("SMTP", "smtp_response")
  ELSE IF IsSmtpCommand(s, first) THEN Found("SMTP", "smtp_command") ELSE {}

FirstMatch(payload, transport, hint) ==
  LET s == payload.units
      over(protocol) == \E t \in transport : t.protocol = protocol
  IN  IF IsText(payload) THEN FirstTextMatch(s, FirstLine(s), hint)
      ELSE IF over("TCP") /\ IsDnsTcp(s) THEN Found("DNS", "dns_tcp")
           ELSE IF over("UDP") /\ IsDnsUdp(s) THEN Found("DNS", "dns_udp") ELSE {}

Undetected == [protocol |-> "UNKNOWN", method |-> "none", rule |-> ""]

\* detect_app_protocol: without a payload the port decides, with one it only backs the payload.
Detection(isEmpty, hint, found) ==
  LET result(d, method) == [protocol |-> d.protocol, method |-> method, rule |-> d.rule]
  IN  CASE isEmpty /\ hint = {} -> Undetected
        [] isEmpty /\ hint # {} ->
             result([protocol |-> CHOOSE h \in hint : TRUE, rule |-> "port_hint"], "port")
        [] ~isEmpty /\ found = {} -> Undetected
        [] OTHER -> LET d == CHOOSE x \in found : TRUE
                    IN  result(d, IF hint = {d.protocol} THEN "port+payload" ELSE "payload")

Detect(transport, payload) ==
  Detection(payload.units = <<>>, HintOf(transport), FirstMatch(payload, transport, HintOf(transport)))

-------------------------------------------------------------------------------
\* The parsers.  What is not set is the empty set; a header is the pair of its name and value.

Headers(lines) ==
  LET named == SelectSeq(lines, LAMBDA line : Has(line, ":"))
  IN  [i \in DOMAIN named |-> [name |-> Before(named[i], <<":">>), value |-> Behind(named[i], <<":">>)]]

AllHeaders(headers, name) == {headers[i].value : i \in {j \in DOMAIN headers : headers[j].name = <<name>>}}

FirstHeader(headers, name) ==
  LET named == {i \in DOMAIN headers : headers[i].name = <<name>>}
  IN  IF named = {} THEN {} ELSE {headers[Min(named)].value}

HttpMessage(start, headers, body, partial, errors) ==
  LET length == {Number(v) : v \in {x \in FirstHeader(headers, "content-length") : IsNumber(x)}}
      first == Word1(start)
      isResponse == first # <<>> /\ first[1] \in {"HTTP/", Version}
      code == Word1(Rest(start))
  IN  [kind |-> IF isResponse THEN "response" ELSE "request",
       target |-> IF isResponse THEN {} ELSE {code},
       status |-> IF isResponse /\ IsNumber(code) THEN {Number(code)} ELSE {},
       media |-> FirstHeader(headers, "content-type"),
       encoding |-> AllHeaders(headers, "content-encoding"),
       bodyComplete |-> \A n \in length : Len(body) >= n,
       partial |-> partial, errors |-> errors]

HttpOf(lines, body, partial) ==
  LET block == SubSeq(lines, 2, AtMost(Len(lines), HeaderLimit + 1))
  IN  HttpMessage(lines[1], Headers(block), body, partial,
                  IF Len(lines) > HeaderLimit + 1 THEN {"limit"} ELSE {})

ParseHttp(s) ==
  LET end == CRLF \o CRLF
  IN  HttpOf(Split(Before(s, end), CRLF), Behind(s, end), Places(s, end) = {})

\* One line of SMTP, without its line end.
LineKind(line) ==
  LET word == Word1(line)
  IN  IF /\ Len(line) >= 3 /\ line[1] \in {"2", "5"} /\ IsNumber(SubSeq(line, 1, 3))
         /\ Len(line) > 3 => line[4] \in {" ", "-"}
      THEN "response"
      ELSE IF \/ \E c \in Commands : word = <<c>>
              \/ \E c \in DOMAIN Argument :
                   word = <<c>> /\ Rest(line) # <<>> /\ Rest(line)[1] = Argument[c]
      THEN "command" ELSE "data"

WithoutCR(line) == IF line # <<>> /\ line[Len(line)] = "CR" THEN SubSeq(line, 1, Len(line) - 1) ELSE line

SmtpOf(s, parts) ==
  LET ended == s # <<>> /\ s[Len(s)] = "LF"
      chunks == IF s = <<>> \/ ended THEN SubSeq(parts, 1, Len(parts) - 1) ELSE parts
      lines == SubSeq(chunks, 1, AtMost(Len(chunks), LineLimit))
  IN  [kind |-> IF lines = <<>> THEN "data" ELSE LineKind(WithoutCR(lines[1])),
       lines |-> Len(lines),
       partial |-> s # <<>> /\ ~ended,
       errors |-> IF Len(chunks) > LineLimit THEN {"limit"} ELSE {}]

ParseSmtp(s) == SmtpOf(s, Split(s, <<"LF">>))

-------------------------------------------------------------------------------
\* What the parser reads is what the detector took the payload for: a request has a request line, a reply
\* a code, and a DNS message its first question, although the two split lines and read names on their own.
ParsedAsDetected(d, payload, protocol) ==
  CASE d.rule = "http_request" -> ParseHttp(payload.units).kind = "request"
    [] d.rule = "http_response" -> ParseHttp(payload.units).kind = "response"
    [] d.rule = "smtp_response" -> ParseSmtp(payload.units).kind = "response"
    [] d.rule = "smtp_command" -> ParseSmtp(payload.units).kind = "command"
    [] d.rule \in {"dns_tcp", "dns_udp"} -> ParseDns(payload.units, protocol).questions # <<>>
    [] OTHER -> TRUE
===============================================================================
