------------------------------ MODULE RuleParser ------------------------------
(***************************************************************************)
(* parse_rule of src/ids/engine/parser.py: what a rule line stands for, or *)
(* the first of its faults.  A line is its header, cut into fields, and    *)
(* what stands between its parentheses.  A field, like the text of an      *)
(* option, is a sequence of tokens: words, whole numbers, and each quote,  *)
(* escape, blank and mark.  Texts in quotes are single characters.  The    *)
(* texts that only the match records show (msg, rev, classtype, priority)  *)
(* are checked and not kept.                                               *)
(***************************************************************************)
EXTENDS Integers, SequencesExt

CONSTANTS
  Numbers,      \* external: the texts of one to ten digits, and their values
  LongNumbers,  \* those of more than five digits
  Networks,     \* external: the texts that IPv4Network reads, and their addresses
  HexBytes,     \* the pairs of hex digits, and their bytes
  Encoding      \* external: the characters that have a UTF-8 encoding, and their bytes

ASSUME NumbersAreRead == \A text \in DOMAIN Numbers : Numbers[text] \in Nat

MaxRulePort == 65535
OtherActions == {"log", "pass", "drop", "reject", "sdrop", "activate", "dynamic"}
RuleProtocols == {"tcp", "udp", "ip"}
Directions == {"->", "<>"}
FlagNames == [F |-> "FIN", S |-> "SYN", R |-> "RST", P |-> "PSH", A |-> "ACK", U |-> "URG",
              C |-> "CWR", E |-> "ECE"]
FlagModifiers == {"+", "*", "!"}
Singles == {"sid", "rev", "msg", "classtype", "priority", "flow", "flags", "dsize"}
ContentModifiers == {"nocase", "offset", "depth", "distance", "within"}

\* What is read of a text: a value, or the status that the rule gets instead.
Value(v) == [status |-> "valid", value |-> v]
Fault(status) == [status |-> status, value |-> {}]
Invalid == Fault("invalid")
Unsupported == Fault("unsupported")
Unless(isBad, v) == IF isBad THEN Invalid ELSE Value(v)

Holds(s, token) == \E i \in DOMAIN s : s[i] = token
Place(s, token) == SelectInSeq(s, LAMBDA x : x = token)
UpTo(s, token) == IF Holds(s, token) THEN SubSeq(s, 1, Place(s, token) - 1) ELSE s
From(s, token) == IF Holds(s, token) THEN SubSeq(s, Place(s, token) + 1, Len(s)) ELSE <<>>
Packed(s) == SelectSeq(s, LAMBDA x : x # " ")
Strip(s) ==
  LET shown == {i \in DOMAIN s : s[i] # " "}
  IN  IF shown = {} THEN <<>> ELSE SubSeq(s, Min(shown), Max(shown))

-------------------------------------------------------------------------------
\* The header.

ActionFault(field) ==
  IF field = <<"alert">> THEN "valid"
  ELSE IF \E a \in OtherActions : field = <<a>> THEN "unsupported" ELSE "invalid"

ProtocolFault(field) ==
  IF field = <<"icmp">> THEN "unsupported"
  ELSE IF \E p \in RuleProtocols : field = <<p>> THEN "valid" ELSE "invalid"

DirectionFault(field) == IF \E d \in Directions : field = <<d>> THEN "valid" ELSE "invalid"

\* _check_variable_syntax.
IsVariable(field) ==
  (field # <<>> /\ field[1] \in {"$", "!"}) \/ Holds(field, "[") \/ Holds(field, ",")

Address(field) ==
  IF field = <<"any">> THEN Value({})
  ELSE IF IsVariable(field) THEN Unsupported
  ELSE IF \E text \in DOMAIN Networks : field = <<text>> THEN Value({Networks[field[1]]}) ELSE Invalid

IsPort(s) == Len(s) = 1 /\ s[1] \in DOMAIN Numbers \ LongNumbers /\ Numbers[s[1]] <= MaxRulePort

\* A port, or a range of which one end may be missing.
PortRange(low, high) ==
  LET range == [low |-> IF low = <<>> THEN 0 ELSE Numbers[low[1]],
                high |-> IF high = <<>> THEN MaxRulePort ELSE Numbers[high[1]]]
  IN  IF range.low > range.high THEN Invalid ELSE Value({range})

PortField(field) ==
  LET low == UpTo(field, ":")
      high == From(field, ":")
      ends == {s \in {low, high} : s # <<>>}
  IN  IF field = <<"any">> THEN Value({})
      ELSE IF IsVariable(field) THEN Unsupported
      ELSE IF ends = {} \/ \E s \in ends : ~IsPort(s) THEN Invalid
      ELSE PortRange(low, IF Holds(field, ":") THEN high ELSE low)

\* The faults of the seven fields, in the order in which they are looked at.
FieldFaults(f) ==
  <<ActionFault(f[1]), ProtocolFault(f[2]), DirectionFault(f[5]), Address(f[3]).status,
    Address(f[6]).status, PortField(f[4]).status, PortField(f[7]).status,
    IF f[2] = <<"ip">> /\ ~(f[4] = <<"any">> /\ f[7] = <<"any">>) THEN "invalid" ELSE "valid">>

HeaderFaults(f) ==
  IF Len(f) = 7 THEN FieldFaults(f)
  ELSE IF \E i \in DOMAIN f : Holds(f[i], "[") \/ Holds(f[i], ",") THEN <<"unsupported">> ELSE <<"invalid">>

-------------------------------------------------------------------------------
\* The options.

AddToken(c, token) == [c EXCEPT !.parts[Len(c.parts)] = Append(@, token), !.escaped = FALSE]

\* A semicolon ends an option unless it stands in quotes or behind an escape.
SplitToken(c, token) ==
  CASE c.escaped -> AddToken(c, token)
    [] ~c.escaped /\ token = "\\" -> [AddToken(c, token) EXCEPT !.escaped = TRUE]
    [] ~c.escaped /\ token = "quote" -> [AddToken(c, token) EXCEPT !.quoted = ~@]
    [] ~c.escaped /\ token = ";" /\ ~c.quoted -> [c EXCEPT !.parts = Append(@, <<>>)]
    [] OTHER -> AddToken(c, token)

NoParts == [parts |-> <<<<>>>>, quoted |-> FALSE, escaped |-> FALSE]
SplitOptions(text) == FoldLeft(SplitToken, NoParts, text)

Number(value, negative) ==
  IF Len(value) = 1 /\ value[1] \in DOMAIN Numbers THEN Value(Numbers[value[1]])
  ELSE IF negative /\ Len(value) = 2 /\ value[1] = "-" /\ value[2] \in DOMAIN Numbers
    THEN Value(0 - Numbers[value[2]]) ELSE Invalid

IsQuoted(value) == Len(value) >= 2 /\ value[1] = "quote" /\ value[Len(value)] = "quote"
Inner(value) == SubSeq(value, 2, Len(value) - 1)

Message(value) ==
  LET quoted == value # <<>> /\ value[1] = "quote"
  IN  Unless(value = <<>> \/ (quoted /\ (~IsQuoted(value) \/ Inner(value) = <<>>)), value)

\* The pattern of a content: text, and runs of hex digits between bars.
ReadPattern(inner) ==
  LET bad(c) == [c EXCEPT !.isBad = TRUE]
      take(c, bytes) == [c EXCEPT !.pattern = @ \o bytes, !.escaped = FALSE]
      bar(c) == IF c.hex /\ c.digits # <<>> THEN bad(c) ELSE [c EXCEPT !.hex = ~@]
      digit(c, pair) ==
        IF Len(pair) < 2 THEN [c EXCEPT !.digits = pair]
        ELSE IF pair \notin DOMAIN HexBytes THEN bad(c)
        ELSE [take(c, <<HexBytes[pair]>>) EXCEPT !.digits = <<>>]
      character(c, token) == IF token \in DOMAIN Encoding THEN take(c, Encoding[token]) ELSE bad(c)
      read(c, token) ==
        CASE c.isBad \/ (c.hex /\ token = " ") -> c
          [] ~c.isBad /\ c.escaped -> IF token \in {"quote", ";", "\\"} THEN take(c, <<token>>) ELSE bad(c)
          [] ~c.isBad /\ ~c.escaped /\ token = "|" -> bar(c)
          [] ~c.isBad /\ c.hex /\ token \notin {"|", " "} -> digit(c, Append(c.digits, token))
          [] ~c.isBad /\ ~c.escaped /\ ~c.hex /\ token = "\\" -> [c EXCEPT !.escaped = TRUE]
          [] ~c.isBad /\ ~c.escaped /\ ~c.hex /\ token = "quote" -> bad(c)
          [] OTHER -> character(c, token)
  IN  FoldLeft(read, [pattern |-> <<>>, hex |-> FALSE, digits |-> <<>>, escaped |-> FALSE, isBad |-> FALSE], inner)

Plain(pattern) ==
  [pattern |-> pattern, nocase |-> FALSE, offset |-> {}, depth |-> {}, distance |-> {}, within |-> {}]

ContentOf(value) ==
  LET read == ReadPattern(Inner(value))
  IN  IF value # <<>> /\ value[1] = "!" THEN Unsupported
      ELSE IF ~IsQuoted(value) THEN Invalid
      ELSE Unless(read.isBad \/ read.escaped \/ read.hex \/ read.pattern = <<>>, Plain(read.pattern))

\* A modifier goes to the content in front of it.
Modified(content, key, value) ==
  IF key = "nocase" THEN Unless(value # <<>> \/ content.nocase, [content EXCEPT !.nocase = TRUE])
  ELSE LET number == Number(value, key = "distance")
       IN  IF number.status # "valid" \/ content[key] # {} THEN Invalid
           ELSE Value([content EXCEPT ![key] = {number.value}])

\* The contents have all their modifiers: how a placement is bound cannot be mixed, and a window holds the pattern.
IsFaulty(content) ==
  \/ content.offset \cup content.depth # {} /\ content.distance \cup content.within # {}
  \/ \E n \in content.depth \cup content.within : n < Len(content.pattern)

FlowOption(value) ==
  LET names == FoldLeft(LAMBDA parts, token : IF token = "," THEN Append(parts, <<>>)
                                              ELSE [parts EXCEPT ![Len(parts)] = Append(@, token)],
                        <<<<>>>>, value)
      bad(o, status) == [o EXCEPT !.status = status]
      set(o, key, v) == IF o[key] \subseteq {v} THEN [o EXCEPT ![key] = {v}] ELSE bad(o, "invalid")
      read(o, name) ==
        CASE o.status # "valid" -> o
          [] o.status = "valid" /\ name \in {<<"to_server">>, <<"to_client">>} -> set(o, "direction", name[1])
          [] o.status = "valid" /\ name \in {<<"established">>, <<"not_established">>} ->
               set(o, "established", name = <<"established">>)
          [] o.status = "valid" /\ name = <<>> -> bad(o, "invalid")
          [] OTHER -> bad(o, "unsupported")
      option == FoldLeft(read, [status |-> "valid", direction |-> {}, established |-> {}],
                         [i \in DOMAIN names |-> Strip(names[i])])
  IN  [status |-> option.status, value |-> {[direction |-> option.direction, established |-> option.established]}]

FlagSet(letters, modifier) ==
  LET letter(i) == letters[i] \in DOMAIN FlagNames
  IN  IF letters = <<>> \/ \E i \in DOMAIN letters : ~letter(i) /\ letters[i] \notin {"0", "1", "2"} THEN Invalid
      ELSE IF Holds(letters, "1") \/ Holds(letters, "2") THEN Unsupported
      ELSE IF Holds(letters, "0") /\ Len(letters) > 1 THEN Invalid
      ELSE Value({[flags |-> {FlagNames[letters[i]] : i \in {k \in DOMAIN letters : letter(k)}},
                   modifier |-> modifier]})

FlagsOption(value) ==
  IF Holds(value, ",") THEN Unsupported
  ELSE IF value # <<>> /\ value[1] \in FlagModifiers THEN FlagSet(Tail(value), value[1])
  ELSE IF value # <<>> /\ value[Len(value)] \in FlagModifiers
    THEN FlagSet(SubSeq(value, 1, Len(value) - 1), value[Len(value)])
  ELSE FlagSet(value, "")

DsizeOption(value) ==
  LET s == Packed(value)
      number(i) == i <= Len(s) /\ s[i] \in DOMAIN Numbers
  IN  CASE Len(s) = 1 /\ number(1) -> Value({[operator |-> "=", value |-> Numbers[s[1]]]})
        [] Len(s) = 2 /\ s[1] \in {"<", ">"} /\ number(2) -> Value({[operator |-> s[1], value |-> Numbers[s[2]]]})
        [] Len(s) = 3 /\ number(1) /\ s[2] = "<>" /\ number(3) ->
             Unless(Numbers[s[1]] > Numbers[s[3]],
                    {[operator |-> "<>", value |-> Numbers[s[1]], upper |-> Numbers[s[3]]]})
        [] OTHER -> Invalid

SingleOption(key, value) ==
  CASE key \in {"sid", "rev", "priority"} -> Number(value, FALSE)
    [] key = "msg" -> Message(value)
    [] key = "classtype" -> Unless(value = <<>>, value)
    [] key = "flow" -> FlowOption(value)
    [] key = "flags" -> FlagsOption(value)
    [] key = "dsize" -> DsizeOption(value)

\* The options so far, and the first fault of one.
NoOptions ==
  [status |-> "valid", seen |-> {}, contents |-> <<>>, sid |-> 0, flow |-> {}, flags |-> {}, dsize |-> {}]

WithContent(o, read) ==
  [o EXCEPT !.status = read.status, !.contents = IF read.status = "valid" THEN Append(@, read.value) ELSE @]

WithSingle(o, key, read) ==
  LET taken == [o EXCEPT !.status = read.status, !.seen = @ \cup {key}]
  IN  IF read.status = "valid" /\ key \in DOMAIN o THEN [taken EXCEPT ![key] = read.value] ELSE taken

WithModifier(o, read) ==
  [o EXCEPT !.status = read.status,
            !.contents = IF read.status = "valid" THEN [@ EXCEPT ![Len(@)] = read.value] ELSE @]

AddOption(o, key, value) ==
  CASE o.status # "valid" -> o
    [] o.status = "valid" /\ key = "content" -> WithContent(o, ContentOf(value))
    [] o.status = "valid" /\ key \in ContentModifiers ->
         IF o.contents = <<>> THEN [o EXCEPT !.status = "invalid"]
         ELSE WithModifier(o, Modified(o.contents[Len(o.contents)], key, value))
    [] o.status = "valid" /\ key \in Singles ->
         IF key \in o.seen THEN [o EXCEPT !.status = "invalid"] ELSE WithSingle(o, key, SingleOption(key, value))
    [] OTHER -> [o EXCEPT !.status = "unsupported"]

Keyword(option) ==
  LET key == Strip(UpTo(option, ":")) IN IF Len(key) = 1 THEN key[1] ELSE "unknown"

ReadOption(o, part) ==
  IF Strip(part) = <<>> THEN o ELSE AddOption(o, Keyword(part), Strip(From(part, ":")))

\* _parse_options, on the parts between the semicolons.
ReadOptions(split) ==
  IF split.quoted THEN [NoOptions EXCEPT !.status = "invalid"]
  ELSE FoldLeft(ReadOption, NoOptions, split.parts)

OptionFaults(o, isUdp) ==
  <<o.status,
    IF {"sid", "msg"} \subseteq o.seen /\ \A i \in DOMAIN o.contents : ~IsFaulty(o.contents[i])
      THEN "valid" ELSE "invalid",
    IF isUdp /\ "flags" \in o.seen THEN "invalid" ELSE "valid">>

-------------------------------------------------------------------------------
RuleOf(f, o) ==
  [sid |-> o.sid, protocol |-> f[2][1], src |-> Address(f[3]).value, srcPort |-> PortField(f[4]).value,
   direction |-> f[5][1], dst |-> Address(f[6]).value, dstPort |-> PortField(f[7]).value,
   contents |-> o.contents, flow |-> o.flow, flags |-> o.flags, dsize |-> o.dsize]

IsAllValid(faults) == \A i \in DOMAIN faults : faults[i] = "valid"
FirstFault(faults) == SelectSeq(faults, LAMBDA s : s # "valid")[1]

\* The first fault decides, or there is a rule.
Judge(f, header, options, o) ==
  IF IsAllValid(header) /\ IsAllValid(options) THEN [status |-> "valid", rule |-> RuleOf(f, o)]
  ELSE [status |-> IF FirstFault(header \o options) = "unsupported" THEN "unsupported" ELSE "invalid"]

ParseRule(line) ==
  IF ~line.closed THEN [status |-> "invalid"]
  ELSE LET o == ReadOptions(SplitOptions(line.options))
           isUdp == Len(line.header) = 7 /\ line.header[2] = <<"udp">>
       IN  Judge(line.header, HeaderFaults(line.header), OptionFaults(o, isUdp), o)
===============================================================================
