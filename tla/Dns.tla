---------------------------------- MODULE Dns ----------------------------------
(***************************************************************************)
(* parse_dns of src/ids/parsers/dns.py, and the two tests of               *)
(* src/ids/parsers/detector.py that take a payload for a DNS message.      *)
(***************************************************************************)
EXTENDS DnsName

HeaderLen == 12
MaxRecords == 64       \* MAX_RECORDS of the parser, DNS_MAX_RECORD_COUNT of the detector
MaxQuestions == 16     \* DNS_MAX_QUESTION_COUNT

TypeOf == [A |-> 1, NS |-> 2, CNAME |-> 5, SOA |-> 6, PTR |-> 12, MX |-> 15, TXT |-> 16, AAAA |-> 28]

AtMost(n, limit) == IF n > limit THEN limit ELSE n

-------------------------------------------------------------------------------
\* The detector.

\* Slip: the test stops at the name.
NameIsEnough(data) == ReadName(data, HeaderLen).outcome = "name"

\* The name of the first question is readable, and a type and a class stand behind it.
FirstQuestionIsWhole(data) ==
  LET name == ReadName(data, HeaderLen)
  IN  /\ name.outcome = "name"
      /\ \E p \in name.after : p + 4 <= Len(data) /\ Word(data, p) # 0 /\ Word(data, p + 2) # 0

IsDnsUdp(data) ==
  /\ Len(data) >= HeaderLen
  /\ (At(data, 2) \div 8) % 16 <= 2           \* the opcode
  /\ (At(data, 3) \div 64) % 2 = 0            \* the bit Z
  /\ Word(data, 4) \in 1..MaxQuestions
  /\ \A start \in {6, 8, 10} : Word(data, start) <= MaxRecords
  /\ FirstQuestionIsWhole(data)

Unprefixed(data) == SubSeq(data, 3, Len(data))

IsDnsTcp(data) ==
  Len(data) >= 2 /\ Word(data, 0) = Len(data) - 2 /\ IsDnsUdp(Unprefixed(data))

-------------------------------------------------------------------------------
\* The parser.  A section is read record by record until the first fault; `offset` is where the next
\* record starts, and what follows a fault is not read.

Section(offset) == [offset |-> offset, items |-> <<>>, error |-> {}]
Broken(section, kind) == [section EXCEPT !.error = {kind}]

QuestionBehind(name, data, section) ==
  LET p == CHOOSE x \in name.after : TRUE
  IN  CASE name.outcome # "name" -> Broken(section, name.outcome)
        [] name.outcome = "name" /\ p + 4 > Len(data) -> Broken(section, "truncated")
        [] OTHER -> [section EXCEPT !.offset = p + 4,
                       !.items = Append(@, [name |-> name.labels, type |-> Word(data, p)])]

NextQuestion(data, section) == QuestionBehind(ReadName(data, section.offset), data, section)

\* A name inside the data of a record, which ends at `end`.
NameFault(name, end) ==
  IF name.outcome # "name" THEN {name.outcome}
  ELSE IF \E p \in name.after : p > end THEN {"malformed"} ELSE {}

TextFault(data, start, end) ==
  LET read == FoldLeft(
        LAMBDA s, i : IF s.position >= end \/ s.error # {} THEN s
                      ELSE LET next == s.position + 1 + At(data, s.position)
                           IN  IF next > end THEN Broken(s, "truncated") ELSE [s EXCEPT !.position = next],
        [position |-> start, error |-> {}], [i \in 1..(end - start) |-> i])
  IN  read.error

\* The two names of an SOA record may run behind its end; its numbers may not.
NumbersFault(name, end) ==
  IF name.outcome # "name" THEN {name.outcome}
  ELSE IF \E p \in name.after : p + 20 > end THEN {"truncated"} ELSE {}
SoaFault(name, data, end) ==
  IF name.outcome # "name" THEN {name.outcome}
  ELSE NumbersFault(ReadName(data, CHOOSE p \in name.after : TRUE), end)

\* An address of another length and any other type is kept as bytes.
DataFault(data, type, start, end) ==
  CASE type \in {TypeOf.CNAME, TypeOf.NS, TypeOf.PTR} -> NameFault(ReadName(data, start), end)
    [] type = TypeOf.MX -> IF end - start < 3 THEN {"truncated"} ELSE NameFault(ReadName(data, start + 2), end)
    [] type = TypeOf.TXT -> TextFault(data, start, end)
    [] type = TypeOf.SOA -> SoaFault(ReadName(data, start), data, end)
    [] OTHER -> {}

AnswerData(name, p, data, section) ==
  LET start == p + 10
      end == start + Word(data, p + 8)
  IN  IF start > Len(data) \/ end > Len(data) THEN Broken(section, "truncated")
      ELSE [section EXCEPT !.offset = end, !.error = DataFault(data, Word(data, p), start, end),
              !.items = Append(@, [name |-> name.labels, type |-> Word(data, p)])]

\* A record whose data is faulty is no answer.
IfWhole(before, after) == IF after.error = {} THEN after ELSE [before EXCEPT !.error = after.error]

AnswerBehind(name, data, section) ==
  IF name.outcome # "name" THEN Broken(section, name.outcome)
  ELSE IfWhole(section, AnswerData(name, CHOOSE x \in name.after : TRUE, data, section))

NextAnswer(data, section) == AnswerBehind(ReadName(data, section.offset), data, section)

NextRecord(part, data, section) ==
  IF part = "questions" THEN NextQuestion(data, section) ELSE NextAnswer(data, section)

ReadSection(part, data, count, offset) ==
  FoldLeft(LAMBDA s, i : IF s.error # {} THEN s ELSE NextRecord(part, data, s), Section(offset),
           [i \in 1..AtMost(count, MaxRecords) |-> i])

Nothing == [questions |-> <<>>, answers |-> <<>>, errors |-> {"truncated"}]

Sections(questions, answers, limit) ==
  [questions |-> questions.items, answers |-> answers.items,
   errors |-> limit \cup questions.error \cup answers.error]

\* After a fault in the questions the answers are still read, from where the bad question starts.
ParseDnsMessage(data) ==
  IF Len(data) < HeaderLen THEN Nothing
  ELSE LET questions == ReadSection("questions", data, Word(data, 4), HeaderLen)
       IN  Sections(questions, ReadSection("answers", data, Word(data, 6), questions.offset),
                    IF Word(data, 4) > MaxRecords \/ Word(data, 6) > MaxRecords THEN {"limit"} ELSE {})

ParseDns(data, protocol) ==
  IF protocol = "TCP" /\ Len(data) < 2 THEN Nothing
  ELSE ParseDnsMessage(IF protocol = "UDP" THEN data ELSE SubSeq(data, 3, AtMost(2 + Word(data, 0), Len(data))))
===============================================================================
