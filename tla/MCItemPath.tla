------------------------------ MODULE MCItemPath ------------------------------
(***************************************************************************)
(* Items for ItemPath: a few that meet every failure, and many, each of    *)
(* which varies one thing and meets none.                                  *)
(***************************************************************************)
EXTENDS ItemPath

Strings(alphabet, n) == UNION {[1..k -> alphabet] : k \in 0..n}

MCAddresses == ("10.0.0.1" :> "10.0.0.1") @@ ("::01" :> "::1") @@ ("fe80::1%eth0" :> "fe80::1%eth0")
MCIsoSeconds == ("1970-01-01T00:00:02" :> 2) @@ ("9999-01-01" :> 9)
MCPortTexts == ("080" :> 80) @@ ("99999" :> 99999)
MCFailures ==
  {{}, {"envelope"}, {"network"}, {"transport"}, {"detector"}, {"application"}, {"record"},
   {"transport", "detector"}, {"network", "record"}}

-------------------------------------------------------------------------------
\* Packets.

Ip(total, fragment) ==
  [src |-> "10.0.0.1", dst |-> "::01", headerLen |-> 20, totalLen |-> total, fragOffset |-> fragment,
   protocol |-> "TCP"]
Tcp(src, dst) == [protocol |-> "TCP", headerLen |-> 20, length |-> 0, srcPort |-> src, dstPort |-> dst]
Udp(length, dst) == [protocol |-> "UDP", headerLen |-> 0, length |-> length, srcPort |-> 9, dstPort |-> dst]
TextUnits(s) == [kind |-> "text", units |-> s]
BytesUnits(s) == [kind |-> "bytes", units |-> s]
Packet(ip, layer, captured) == [time |-> 1, ip |-> ip, layer |-> layer, captured |-> captured]
Over(layer, captured) == Packet({Ip(40 + Len(captured.units), 0)}, {layer}, captured)

Request == <<"GET", " ", "/", "%2E", ".", " ", "HTTP/1.1", "CR", "LF", "content-length", ":", "2", "CR", "LF",
             "CR", "LF", "raw">>
Long == <<"GET", " ", "/", " ", "CR", "LF", "x", "CR", "LF", "x", "CR", "LF", "x", "CR", "LF", "CR", "LF">>
Encodings ==
  <<"GET", " ", "/", " ", "CR", "LF", "content-encoding", ":", "identity", "CR", "LF",
    "content-encoding", ":", "gzip", "CR", "LF", "CR", "LF", "&lt;">>
Mail == <<"MAIL", " ", "FROM:", "CR", "LF">>
Reply == <<"2", "5", "0", " ", "x", "CR", "LF">>
Lines == <<"QUIT", "LF", "QUIT", "LF", "QUIT", "LF">>

Header(questions, answers) == <<0, 1, 1, 0, 0, questions, 0, answers, 0, 0, 0, 0>>
Query == Header(1, 1) \o <<1, 97, 0, 0, 1, 0, 1>> \o <<192, 12, 0, 16, 0, 1, 0, 0, 0, 0, 0, 2, 1, 97>>
Cut(s, n) == SubSeq(s, 1, n)
Prefixed(s) == <<0, Len(s)>> \o s

\* One of each outcome of each stage.
Few ==
  {Over(Tcp(7, 80), TextUnits(Request)), Over(Tcp(7, 9), TextUnits(Mail)), Over(Udp(21, 53), BytesUnits(Cut(Query, 13))),
   Over(Udp(8 + Len(Query), 9), BytesUnits(Query)), Packet({}, {}, Empty), Packet({Ip(19, 0)}, {}, Empty),
   Packet({Ip(60, 8)}, {Tcp(7, 80)}, TextUnits(Mail)), Packet({Ip(40, 0)}, {}, Empty),
   Packet({[Ip(40, 0) EXCEPT !.protocol = "ICMP"]}, {}, Empty),
   Packet({Ip(40, 0)}, {Tcp(7, 25)}, TextUnits(<<"QUIT", "x">>)),
   Packet({Ip(44, 0)}, {Tcp(7, 25)}, TextUnits(<<"QUIT">>)),
   Packet({Ip(40, 0)}, {[Tcp(7, 25) EXCEPT !.headerLen = 24]}, Empty),
   Packet({Ip(40, 0)}, {[Tcp(7, 25) EXCEPT !.headerLen = 16]}, Empty),
   Packet({Ip(40, 0)}, {[Tcp(7, 25) EXCEPT !.headerLen = -1]}, Empty),
   Packet({[Ip(40, 0) EXCEPT !.headerLen = 16]}, {}, Empty),
   Packet({Ip(40, 0)}, {Udp(7, 80)}, Empty)}

\* Records: what the answers of a message may hold.
Answer(type, data) == <<0, 0, type, 0, 1, 0, 0, 0, 0, 0, Len(data)>> \o data
AnswerBytes == {<<>>, <<1>>, <<0>>, <<0, 0>>, <<0, 1, 0>>, <<1, 97, 192, 12>>, <<192>>, <<3, 97>>,
               <<0, 0>> \o [i \in 1..20 |-> 0], <<0, 0>> \o [i \in 1..19 |-> 0]}
Messages12 ==
  {Header(1, 0) \o tail \o <<0, 1, 0, 1>> : tail \in Strings({0, 1, 12, 13, 192}, 4)}
    \cup {Header(1, 1) \o <<0, 0, 1, 0, 1>> \o Answer(type, data) : type \in {1, 2, 6, 15, 16}, data \in AnswerBytes}
    \cup {Cut(Query, n) : n \in 0..Len(Query)}
    \cup {Header(2, 65) \o <<0, 0, 1, 0, 1, 192>>, Header(0, 0), Header(1, 0) \o <<0, 0, 0, 0, 1>>}

ManyPackets ==
  {Over(Udp(8 + Len(s), 9), BytesUnits(s)) : s \in Messages12}
    \cup {Over(Tcp(53, 7), BytesUnits(Prefixed(s))) : s \in {Query, Cut(Query, 20)}}
    \cup {Over(Tcp(7, 9), BytesUnits(Query)), Over(Tcp(7, 9), BytesUnits(<<0>>)), Over(Udp(8, 53), Empty)}
    \cup {Over(Tcp(7, port), TextUnits(s)) :
            port \in {9, 25},
            s \in {start \o end :
                     start \in {<<"GET">>, <<"GET", " ", "/">>, <<"HTTP/1.1", " ", "2", "0", "0">>, <<"2", "5", "0">>,
                                <<"EHLO">>, <<"MAIL", " ", "FROM:">>, <<"RCPT", " ">>},
                     end \in Strings({" ", "CR", "LF", "-", "HTTP/", "2", "raw"}, 3)}
                    \cup {Long, Reply, Lines, Cut(Long, 10), Encodings}}

-------------------------------------------------------------------------------
\* Records of events files.

Kept ==
  [SourceOnly EXCEPT !.timestamp = Num(1), !.status = "ok", !.protocol = "UNKNOWN",
     !.network = {[src |-> Text("10.0.0.1"), dst |-> Text("::01"), fragOffset |-> Num(0)]},
     !.transport = {[protocol |-> Text("TCP"), srcPort |-> Num(7), dstPort |-> Text("080")]}]

Odd == {Null, Flag(TRUE), Text("x")}
KeptNetwork(f, v) == {[n EXCEPT ![f] = v] : n \in Kept.network}
KeptTransport(f, v) == {[t EXCEPT ![f] = v] : t \in Kept.transport}
OddRecords ==
  {[Kept EXCEPT !.timestamp = v] : v \in Odd \cup {Num(-1), Num(0), Num(5), Num(6), Text("9999-01-01")}}
    \cup {[Kept EXCEPT !.timestamp = Null, !.timestampIso = v] : v \in Odd \cup {Num(3), Text("1970-01-01T00:00:02")}}
    \cup {[Kept EXCEPT !.network = KeptNetwork(f, v)] :
            f \in {"src", "dst"}, v \in Odd \cup {Num(3), Text("fe80::1%eth0")}}
    \cup {[Kept EXCEPT !.network = KeptNetwork("fragOffset", v)] : v \in Odd \cup {Num(8)}}
    \cup {[Kept EXCEPT !.transport = KeptTransport(f, v)] :
            f \in {"srcPort", "dstPort"}, v \in Odd \cup {Num(-1), Num(0), Num(65535), Num(65536), Text("99999")}}
    \cup {[Kept EXCEPT !.transport = KeptTransport("protocol", v)] : v \in Odd \cup {Text("UDP")}}
    \cup {[Kept EXCEPT !.network = {}], [Kept EXCEPT !.transport = {}],
          [Kept EXCEPT !.errors = {Fault("network", "fragment")}], [Kept EXCEPT !.status = "partial"]}

Http(target, media) ==
  [Kept EXCEPT !.protocol = "HTTP",
     !.application = {[target |-> {target}, media |-> media, compressed |-> FALSE, bodyComplete |-> TRUE]}]
Segment == {<<>>, <<"a">>, <<".">>, <<".", ".">>, <<"%2E", ".">>}
Targets ==
  {FlattenSeq([i \in DOMAIN s |-> <<"/">> \o s[i]]) : s \in Strings(Segment, 4) \ {<<>>}}
    \cup {<<"/", "a", "?", "/", "+">>, <<"/", "%2F", "%zz">>, <<"/", "a", "%3F", "/", ".", ".">>, <<"*">>, <<>>,
          <<"/", "raw">>, <<"/", "raw", "%FF">>, <<"/", "utf8">>}

WithPayload(r, s, length) == [r EXCEPT !.hex = {s}, !.payloadLen = Num(length)]
Message(body) == <<"base64">> \o CRLF \o CRLF \o body
Multipart(n) == <<"multipart">> \o CRLF \o CRLF \o FlattenSeq([i \in 1..n |-> <<"boundary", "b", "b", "b", "b">>])
Payloads ==
  {Message(body) : body \in Strings({"b", "="}, 6) \cup Strings({"b", "=", "!"}, 3)}
    \cup {Message(body) \o EndMarker \o <<"b">> : body \in Strings({"b", "="}, 5)}
    \cup {Multipart(n) : n \in 0..3}
    \cup {Message(<<".", ".", "LF", ".", ".">>) \o EndMarker, Message(<<"multipart", "multipart", "multipart">>), <<"bad charset">> \o CRLF, <<"multipart", "multipart", "multipart">>}
    \cup Strings({"a", "raw", "half", "utf8", "ctl"}, 2) \cup {<<"a", "no hex">>}
Body(s) == <<"GET">> \o CRLF \o CRLF \o s
PayloadRecords ==
  {WithPayload(Kept, s, n) : s \in Payloads, n \in {0, 20}}
    \cup {[WithPayload(Http(<<"/">>, media), Body(s), n) EXCEPT !.application = {[a EXCEPT !.compressed = c] : a \in @}] :
            media \in {"form", "other", ""}, c \in BOOLEAN, n \in {0, 20},
            s \in {<<"a">>, <<"%2E", "%zz">>, <<"&lt;", "raw">>, <<"&#0;", "half">>, <<"+">>, <<"%FF">>}}
    \cup {[Kept EXCEPT !.protocol = "DNS", !.hex = {<<"raw">>}], [Kept EXCEPT !.preview = {<<"raw">>}],
          WithPayload(Kept, [i \in 1..25 |-> "utf8"], 25)}

MCEvents ==
  [e1 |-> Kept, e2 |-> WithPayload(Http(<<"/", "a", "/", "%2E", ".">>, "form"), Body(<<"%2E">>), 20),
   e3 |-> [Kept EXCEPT !.status = "unsupported", !.hex = {<<"raw">>}], e4 |-> [Kept EXCEPT !.timestamp = Null]]
MCNames == DOMAIN MCEvents
MCRecords == OddRecords \cup {Http(t, "") : t \in Targets} \cup PayloadRecords

FewFiles == {<<name, "LF">> : name \in MCNames} \cup {<<"x", "LF", "e4">>}
ManyFiles ==
  Strings({"e1", "CR", "LF"}, 6) \cup Strings({"e1", " ", "LF", "BOM"}, 4)
    \cup {<<"BOM">> \o s : s \in Strings({"e1", "LF"}, 4)}
MCFiles == FewFiles \cup ManyFiles
MCPackets == Few \cup ManyPackets
MCMessages == {NameToRead(p) : p \in MCPackets} \cup {<<<<>>, 0>>}

\* The few items meet every failure, every policy and a second run; the many come through once.
OneOfFew == packet \subseteq Few /\ (packet # {} \/ file \in FewFiles)
ManyAreCalm ==
  OneOfFew \/ (failing = {} /\ failed = {} /\ refused = 0 /\ rounds = 0 /\ policy = "keep")
===============================================================================
