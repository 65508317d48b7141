----------------------------- MODULE MCRuleEngine -----------------------------
(***************************************************************************)
(* Two rule files and a few records for RuleEngine and StartUp, and what   *)
(* the parser makes of a line, on each kind of it.                         *)
(***************************************************************************)
EXTENDS StartUp

MCLower == [b \in {"a", "A", "b"} |-> IF b = "A" THEN "a" ELSE b]
MCEncoding == ("a" :> <<"a">>) @@ ("A" :> <<"A">>) @@ ("b" :> <<"b">>) @@ (";" :> <<";">>) @@ ("e acute" :> <<"a", "b">>)
MCHexBytes == (<<"6", "1">> :> "a") @@ (<<"6", "2">> :> "b")
MCNumbers ==
  [text \in {"0", "1", "2", "3", "4", "5", "22", "80", "1024", "65535", "65536", "000080"} |->
     CASE text = "0" -> 0 [] text = "1" -> 1 [] text = "2" -> 2 [] text = "3" -> 3 [] text = "4" -> 4
       [] text = "5" -> 5 [] text = "22" -> 22 [] text \in {"80", "000080"} -> 80 [] text = "1024" -> 1024
       [] text = "65535" -> 65535 [] text = "65536" -> 65536]
MCNetworks == ("10.0.0.1" :> {"client"}) @@ ("10.0.0.2/32" :> {"server"})

Open == <<"any">>
Header(protocol, src, srcPort, direction, dst, dstPort) ==
  <<<<"alert">>, <<protocol>>, src, srcPort, <<direction>>, dst, dstPort>>
Quote(text) == <<"quote">> \o text \o <<"quote">>
Option(key, value) == <<key, ":">> \o value \o <<";">>
Content(text) == Option("content", Quote(text))
Named(text) == Option("sid", <<text>>) \o Option("msg", Quote(<<"a">>))
Line(header, text) == [header |-> header, options |-> text, closed |-> TRUE]

MCRuleFiles == [
  notes |-> <<>>,
  local |->
    <<Line(Header("tcp", Open, Open, "->", Open, <<"80">>),
           Named("2") \o Content(<<"a">>) \o Content(<<"|", "6", "2", "|">>) \o <<" ", "nocase", ";">>),
      Line(Header("tcp", <<"$", "HOME">>, Open, "->", Open, Open), Named("1")),
      Line(Header("tcp", Open, <<"22">>, "<>", Open, <<"80">>),
           Option("flow", <<"to_server", ",", " ", "established">>) \o Named("1")),
      Line(Header("tcp", Open, <<"80">>, "<>", Open, <<"80">>), Named("5"))>>,
  more |->
    <<Line(Header("tcp", Open, Open, "->", Open, Open), Named("2") \o Option("flags", <<"*", "S">>)),
      Line(Header("ip", Open, Open, "->", <<"10.0.0.2/32">>, Open), Named("3") \o Option("dsize", <<">", " ", "1">>)),
      Line(Header("tcp", <<"10.0.0.1">>, <<"1024", ":">>, "<>", Open, <<"22">>), Named("4"))>>]

MCConfigs ==
  LET entries == [path : {"local", "more", "missing"}, enabled : {TRUE}] \cup [path : {"more"}, enabled : {FALSE}]
  IN  UNION {[1..n -> entries] : n \in 0..2} \cup {<<[path |-> "notes", enabled |-> TRUE]>>}

MCInputs == {"rules.toml", "capture"}
OutputFiles(first, fourth) ==
  [output |-> first, flows_output |-> "flows", matches_output |-> "matches", rules_report |-> fourth]
MCOutputChoices ==
  {OutputFiles("events", "report"), OutputFiles("events", "more"),
   OutputFiles("flows", "report"), OutputFiles("events", "rules.toml")}

-------------------------------------------------------------------------------
\* What the documented faults of a line come to.

Good == Header("tcp", Open, Open, "->", Open, Open)
WithField(i, field) == Line([Good EXCEPT ![i] = field], Named("1"))
WithOptions(text) == Line(Good, Named("1") \o text)
WithContent1(text, modifiers) == WithOptions(Content(text) \o modifiers)

ValidLines ==
  {WithField(i, field) : i \in {4, 7}, field \in {<<"80">>, <<"80", ":">>, <<":", "22">>, <<"22", ":", "80">>}}
    \cup {WithOptions(Option("flow", <<"to_client", ",", "not_established">>)),
          WithOptions(Option("flags", <<"0">>)), WithOptions(Option("flags", <<"S", "A", "+">>)),
          WithOptions(Option("dsize", <<"1", "<>", "5">>)), WithOptions(Option("dsize", <<"5">>)), WithOptions(Option("dsize", <<"000080">>)),
          WithOptions(Option("rev", <<"2">>)), WithOptions(Option("classtype", <<"a">>)),
          WithOptions(Option("priority", <<"2">>)),
          WithContent1(<<"\\", ";", "\\", "quote">>, Option("depth", <<"2">>)),
          WithContent1(<<";">>, <<>>) , WithContent1(<<"e acute">>, Option("within", <<"2">>)),
          WithContent1(<<"a">>, Option("distance", <<"-", "1">>) \o Option("within", <<"1">>))}

UnsupportedLines ==
  {WithField(1, <<"drop">>), WithField(2, <<"icmp">>), WithField(3, <<"!", "10.0.0.1">>),
   WithField(7, <<"[", "80", ",", "22", "]">>), Line(Tail(Good) \o <<<<"[", "80">>, <<"22", "]">>>>, <<>>),
   WithOptions(Option("pcre", <<>>)), WithOptions(Option("content", <<"!">> \o Quote(<<"a">>))),
   WithOptions(Option("flow", <<"stateless">>)), WithOptions(Option("flags", <<"S", ",", "A">>)),
   WithOptions(Option("flags", <<"S", "1">>)), WithOptions(Option("sid2", <<>>) \o Option("rev", <<"x">>))}

InvalidLines ==
  {WithField(1, <<"shout">>), WithField(2, <<"sctp">>), WithField(5, <<"<-">>), WithField(6, <<"host">>),
   WithField(4, <<"65536">>), WithField(4, <<":">>), WithField(7, <<"80", ":", "22">>),
   WithField(7, <<"22", ":", "80", ":">>), WithField(4, <<"000080">>), Line(Tail(Good), Named("1")),
   Line(Header("ip", Open, Open, "->", Open, <<"80">>), Named("1")),
   Line(Header("udp", Open, Open, "->", Open, Open), Named("1") \o Option("flags", <<"S">>)),
   [WithOptions(<<>>) EXCEPT !.closed = FALSE], Line(Good, Option("sid", <<"1">>)), Line(Good, Option("msg", <<"a">>)),
   WithOptions(<<"quote">>), WithOptions(Option("sid", <<"2">>)), WithOptions(Option("rev", <<"-", "1">>)),
   WithOptions(Option("nocase", <<>>)), WithOptions(Option("rev", <<"x">>) \o Option("sid2", <<>>)),
   WithOptions(Option("flow", <<"to_server", ",", "to_client">>)), WithOptions(Option("flow", <<>>)),
   WithOptions(Option("flags", <<"0", "S">>)), WithOptions(Option("flags", <<"x">>)), WithOptions(Option("flags", <<"+">>)),
   WithOptions(Option("dsize", <<"5", "<>", "1">>)), WithOptions(Option("dsize", <<"<">>)),
   WithOptions(Option("content", <<"a">>)), WithOptions(Option("classtype", <<>>)),
   WithContent1(<<>>, <<>>), WithContent1(<<"a", "quote", "b">>, <<>>), WithContent1(<<"\\", "a">>, <<>>),
   WithContent1(<<"|", "6", "|">>, <<>>), WithContent1(<<"|", "6", "1">>, <<>>), WithContent1(<<"|", "6", "x", "|">>, <<>>),
   WithContent1(<<"surrogate">>, <<>>),
   WithContent1(<<"a">>, Option("depth", <<"0">>)), WithContent1(<<"e acute">>, Option("depth", <<"1">>)),
   WithContent1(<<"a">>, Option("nocase", <<"1">>)), WithContent1(<<"a">>, Option("offset", <<"-", "1">>)),
   WithContent1(<<"a">>, Option("offset", <<"1">>) \o Option("offset", <<"2">>)),
   WithContent1(<<"a">>, Option("offset", <<"1">>) \o Option("within", <<"2">>))}

ASSUME StatusesAreDocumented ==
  /\ \A line \in ValidLines : ParseRule(line).status = "valid"
  /\ \A line \in UnsupportedLines : ParseRule(line).status = "unsupported"
  /\ \A line \in InvalidLines : ParseRule(line).status = "invalid"

\* A text falls into its options and the semicolons between them, and no option holds another one.
ASSUME NothingIsLost ==
  \A n \in 0..5 : \A text \in [1..n -> {"a", ";", "quote", "\\"}] :
    LET split == SplitOptions(text)
        joined == FoldLeft(LAMBDA s, part : s \o <<";">> \o part, <<>>, split.parts)
    IN  /\ Tail(joined) = text
        /\ \A i \in DOMAIN split.parts : Len(SplitOptions(split.parts[i]).parts) = 1

-------------------------------------------------------------------------------
\* Records.

MCDisabledSids == {{}, {2}, {1, 3}}

Record(protocol, srcPort, dstPort, flags, payload) ==
  [kept |-> TRUE, protocol |-> protocol, src |-> "client", srcPort |-> srcPort,
   dst |-> "server", dstPort |-> dstPort, flags |-> flags, size |-> {Len(payload)},
   hex |-> {payload}, preview |-> {}]

Reply(p) ==
  [p EXCEPT !.src = p.dst, !.dst = p.src, !.srcPort = p.dstPort, !.dstPort = p.srcPort]

Requests ==
  {Record("TCP", 1024, 80, {"SYN"}, <<"a", "b">>), Record("TCP", 2000, 22, {"ACK"}, <<>>),
   Record("TCP", 80, 80, {"ACK"}, <<"b", "a">>), Record("TCP", 80, 22, {"SYN", "ACK"}, <<"a", "b">>),
   Record("UDP", 80, 22, {}, <<"a", "b">>)}

\* With --payload preview a record has no payload_hex.
MCRecords ==
  Requests \cup {Reply(p) : p \in Requests}
  \cup {[Record("TCP", 1024, 80, {"ACK"}, <<"a", "b">>) EXCEPT !.hex = {}, !.preview = {<<"a">>}],
        [kept |-> FALSE]}

MCFlows ==
  {{}, {[direction |-> "forward", state |-> {"ESTABLISHED"}, forward |-> 1, backward |-> 1]},
   {[direction |-> "backward", state |-> {"CLOSING"}, forward |-> 1, backward |-> 1]}}
===============================================================================
