------------------------------- MODULE RuleEngine -------------------------------
(***************************************************************************)
(* The rule engine of src/ids/engine: the rule files are read, the rules   *)
(* indexed and reported (loader.py, repository.py, _load_engine of         *)
(* cli.py), then each record is checked against its candidate rules and    *)
(* the outcome counted (matcher.py, evaluator.py, _write_matches of        *)
(* cli.py).                                                                *)
(*                                                                         *)
(* What a rule or a record does not set is the empty set, what it sets is  *)
(* the set of its value.  A network is the set of its addresses.           *)
(***************************************************************************)
EXTENDS Contents, RuleParser, FiniteSets

CONSTANTS
  Configs,       \* the rule_files lists that the config may hold
  DisabledSids,  \* what disabled_sids may be
  RuleFiles,     \* RuleFiles[path]: the rule lines of each file that can be read
  Records,       \* output records of the enricher
  Flows,         \* flow contexts
  MaxRecords     \* bound of the model: the number of records

IndexOf == [TCP |-> "tcp", UDP |-> "udp"]
Indexed == {"tcp", "udp"}
Stages == {"header", "flow", "packet", "content"}

\* A rule as the parser builds it: an ip rule has no ports.
WellFormed(r) ==
  /\ r.protocol \in Indexed \cup {"ip"}
  /\ r.direction \in {"->", "<>"}
  /\ \A q \in r.srcPort \cup r.dstPort :
       r.protocol # "ip" /\ q.low \in Nat /\ q.high \in Nat /\ q.low <= q.high

Texts == UNION {Range(RuleFiles[path]) : path \in DOMAIN RuleFiles}

ASSUME FilesAreLines ==
  /\ \A path \in DOMAIN RuleFiles : RuleFiles[path] \in Seq(Texts)
  /\ \A line \in Texts : line.options \in Seq(Range(line.options))

\* The preprocessor keeps a record only with a tracked protocol and two ports.
ASSUME KeptRecordsAreWhole ==
  \A p \in Records : p.kept =>
    p.protocol \in DOMAIN IndexOf /\ p.srcPort \in Nat /\ p.dstPort \in Nat

ASSUME BoundIsNumber == MaxRecords \in Nat

VARIABLES
  files,       \* the entries of rule_files that are not read
  disabled,    \* disabled_sids
  lines,       \* the rule lines, each its file, its number and what the parser makes of it
  next,        \* the line that the repository looks at next
  seen,        \* the sids it has seen
  rules,       \* the rules it holds
  ipRules,     \* the index: the ip rules,
  byPort,      \* the rules of a protocol under a port
  wildcard,    \* and the others
  rejected,    \* its duplicate and disabled lines
  report,      \* the status of each line in the rules report
  ready,       \* whether the engine is loaded
  records,     \* history: the records given to the engine
  kept,        \* history: those with processing_action keep
  counts,      \* the counters of the evaluator
  written,     \* history: lines in the match file
  last         \* history: the last record checked, its flow and its matches

repository == <<files, disabled, lines, next, seen, rules, ipRules, byPort, wildcard, rejected>>
evaluator == <<records, kept, counts, written, last>>
vars == <<repository, report, ready, evaluator>>

-------------------------------------------------------------------------------
\* Loading.

RuleLine(e) == e.parsed

FileLines(path) ==
  [n \in DOMAIN RuleFiles[path] |-> [file |-> path, number |-> n, parsed |-> ParseRule(RuleFiles[path][n])]]

ReadFile ==
  /\ files # <<>>
  /\ files' = Tail(files)
  /\ lines' = IF Head(files).enabled /\ Head(files).path \in DOMAIN RuleFiles
                THEN lines \o FileLines(Head(files).path) ELSE lines
  /\ UNCHANGED <<disabled, next, seen, rules, ipRules, byPort, wildcard, rejected, report, ready, evaluator>>

Rejection(e, status) == [file |-> e.file, number |-> e.number, status |-> status]

\* The repository looks at line e.
LookAt(e) ==
  /\ files = <<>> /\ next <= Len(lines) /\ e = lines[next]
  /\ next' = next + 1
  /\ UNCHANGED <<files, disabled, lines, report, ready, evaluator>>

SkipLine(e) ==
  /\ RuleLine(e).status # "valid"
  /\ LookAt(e)
  /\ UNCHANGED <<seen, rules, ipRules, byPort, wildcard, rejected>>

RejectDuplicate(e) ==
  /\ RuleLine(e).status = "valid" /\ RuleLine(e).rule.sid \in seen
  /\ LookAt(e)
  /\ rejected' = Append(rejected, Rejection(e, "invalid"))
  /\ UNCHANGED <<seen, rules, ipRules, byPort, wildcard>>

RejectDisabled(e) ==
  /\ RuleLine(e).status = "valid" /\ RuleLine(e).rule.sid \in disabled \ seen
  /\ LookAt(e)
  /\ seen' = seen \cup {RuleLine(e).rule.sid}
  /\ rejected' = Append(rejected, Rejection(e, "disabled"))
  /\ UNCHANGED <<rules, ipRules, byPort, wildcard>>

Single(range) == {q.low : q \in {x \in range : x.low = x.high}}

\* The ports one of which a record must show for rule r to match.
SinglePorts(r) ==
  IF r.direction = "->" THEN Single(r.dstPort) ELSE Single(r.srcPort) \cup Single(r.dstPort)

\* Slip: a sid that is seen again is added again.
AddAnyRule(e) ==
  LET r == RuleLine(e).rule
  IN  /\ RuleLine(e).status = "valid" /\ r.sid \notin disabled
      /\ LookAt(e)
      /\ seen' = seen \cup {r.sid}
      /\ rules' = {x \in rules : x.sid # r.sid} \cup {r}
      /\ ipRules' = IF r.protocol = "ip" THEN ipRules \cup {r} ELSE ipRules
      /\ byPort' = [q \in Indexed |->
           byPort[q] \cup IF q = r.protocol THEN {<<port, r>> : port \in SinglePorts(r)} ELSE {}]
      /\ wildcard' = [q \in Indexed |->
           wildcard[q] \cup IF q = r.protocol /\ SinglePorts(r) = {} THEN {r} ELSE {}]
      /\ UNCHANGED rejected

AddRule(e) ==
  LET r == RuleLine(e).rule
  IN  /\ RuleLine(e).status = "valid" /\ r.sid \notin seen \cup disabled
      /\ LookAt(e)
      /\ seen' = seen \cup {r.sid}
      /\ rules' = rules \cup {r}
      /\ ipRules' = IF r.protocol = "ip" THEN ipRules \cup {r} ELSE ipRules
      /\ byPort' = [q \in Indexed |->
           byPort[q] \cup IF q = r.protocol THEN {<<port, r>> : port \in SinglePorts(r)} ELSE {}]
      /\ wildcard' = [q \in Indexed |->
           wildcard[q] \cup IF q = r.protocol /\ SinglePorts(r) = {} THEN {r} ELSE {}]
      /\ UNCHANGED rejected

\* Slip: a rejected line is looked up by its number only.
RejectionsByNumber(e) == {k \in DOMAIN rejected : rejected[k].number = e.number}

\* _load_engine makes a dict of the rejected lines: the last one with the file and line of e wins.
Rejections(e) == {k \in DOMAIN rejected : rejected[k].file = e.file /\ rejected[k].number = e.number}
ReportedStatus(e) ==
  IF Rejections(e) = {} THEN RuleLine(e).status ELSE rejected[Max(Rejections(e))].status

IsIndexed == files = <<>> /\ next > Len(lines)

WriteReport ==
  /\ IsIndexed /\ ~ready
  /\ report' = [i \in DOMAIN lines |-> ReportedStatus(lines[i])]
  /\ ready' = TRUE
  /\ UNCHANGED <<repository, evaluator>>

-------------------------------------------------------------------------------
\* One rule against one record.

EndpointMatches(network, range, address, port) ==
  /\ \A n \in network : address \in n
  /\ \A q \in range : q.low <= port /\ port <= q.high

HeaderMatches(r, p) ==
  /\ r.protocol \in {"ip", IndexOf[p.protocol]}
  /\ \/ /\ EndpointMatches(r.src, r.srcPort, p.src, p.srcPort)
        /\ EndpointMatches(r.dst, r.dstPort, p.dst, p.dstPort)
     \/ /\ r.direction = "<>"
        /\ EndpointMatches(r.src, r.srcPort, p.dst, p.dstPort)
        /\ EndpointMatches(r.dst, r.dstPort, p.src, p.srcPort)

\* A UDP flow has no state and is established once both sides have sent.
IsEstablished(flow) ==
  IF flow.state = {} THEN flow.forward > 0 /\ flow.backward > 0
  ELSE flow.state \subseteq {"ESTABLISHED", "CLOSING"}

DirectionOf == [to_server |-> "forward", to_client |-> "backward"]

FlowMatches(r, context) ==
  \A option \in r.flow :
    \E flow \in context :
      /\ \A d \in option.direction : flow.direction = DirectionOf[d]
      /\ \A e \in option.established : IsEstablished(flow) = e

FlagsMatch(option, p) ==
  /\ p.protocol = "TCP"
  /\ CASE option.modifier = "+" -> option.flags \subseteq p.flags
       [] option.modifier = "*" -> option.flags \cap p.flags # {}
       [] option.modifier = "!" -> option.flags \cap p.flags = {}
       [] option.modifier = "" -> option.flags = p.flags

DsizeMatches(option, p) ==
  \E size \in p.size :
    CASE option.operator = ">" -> size > option.value
      [] option.operator = "<" -> size < option.value
      [] option.operator = "<>" -> option.value <= size /\ size <= option.upper
      [] option.operator = "=" -> size = option.value

PacketMatches(r, p) ==
  /\ \A option \in r.flags : FlagsMatch(option, p)
  /\ \A option \in r.dsize : DsizeMatches(option, p)

\* The bytes that the evaluator sees: payload_hex, or the preview when that cannot be used.
Payload(p) ==
  IF p.hex # {} THEN ValueOr(p.hex, <<>>) ELSE ValueOr(p.preview, <<>>)

\* The stage at which r fails, or "match".
Outcome(r, p, context) ==
  CASE ~HeaderMatches(r, p) -> "header"
    [] HeaderMatches(r, p) /\ ~FlowMatches(r, context) -> "flow"
    [] HeaderMatches(r, p) /\ FlowMatches(r, context) /\ ~PacketMatches(r, p) -> "packet"
    [] HeaderMatches(r, p) /\ FlowMatches(r, context) /\ PacketMatches(r, p)
         /\ ~HasPlacement(r.contents, Payload(p)) -> "content"
    [] OTHER -> "match"

-------------------------------------------------------------------------------
\* One record against the repository.

\* The elements of S in the order of their keys, no two of which are the same.
InOrder(S, key) ==
  [k \in 1..Cardinality(S) |->
     CHOOSE x \in S : Cardinality({y \in S : key[y] < key[x]}) = k - 1]

BySid(rs) == InOrder(rs, [r \in rs |-> r.sid])

\* Slip: only the destination port is looked up.
CandidatesByDestination(p) ==
  LET q == IndexOf[p.protocol]
  IN  wildcard[q] \cup ipRules \cup {f[2] : f \in {x \in byPort[q] : x[1] = p.dstPort}}

CandidateSet(p) ==
  LET q == IndexOf[p.protocol]
  IN  wildcard[q] \cup ipRules
        \cup {f[2] : f \in {x \in byPort[q] : x[1] \in {p.srcPort, p.dstPort}}}

\* Slip: the lists of the index are joined, and a rule that is under both ports comes twice.
CandidatesJoined(p) ==
  LET q == IndexOf[p.protocol]
      at(port) == {f[2] : f \in {x \in byPort[q] : x[1] = port}}
  IN  BySid(wildcard[q] \cup ipRules) \o BySid(at(p.srcPort))
        \o IF p.srcPort = p.dstPort THEN <<>> ELSE BySid(at(p.dstPort))

Candidates(p) == BySid(CandidateSet(p))

Tally(candidates, p, context, outcome) ==
  Cardinality({i \in DOMAIN candidates : Outcome(candidates[i], p, context) = outcome})

\* The candidates that match, in their order.
Matching(candidates, p, context) ==
  LET hits == {i \in DOMAIN candidates : Outcome(candidates[i], p, context) = "match"}
      places == InOrder(hits, [i \in hits |-> i])
  IN  [k \in DOMAIN places |-> candidates[places[k]]]

GivenTo(p) ==
  /\ ready /\ records < MaxRecords
  /\ records' = records + 1
  /\ kept' = IF p.kept THEN kept + 1 ELSE kept
  /\ UNCHANGED <<repository, report, ready>>

\* The engine reads only the records that are kept.
Ignore(p) ==
  /\ ~p.kept
  /\ GivenTo(p)
  /\ UNCHANGED <<counts, written, last>>

\* The record is checked against its candidates, the outcomes are counted and n of the matches are
\* written; a match that cannot be written ends that and counts as one error.
Check(p, context, n) ==
  LET c == Candidates(p)
      matches == Matching(c, p, context)
  IN  /\ p.kept
      /\ GivenTo(p)
      /\ n <= Len(matches)
      /\ counts' = [evaluated |-> counts.evaluated + 1,
                    candidates |-> counts.candidates + Len(c),
                    rejected |-> [s \in Stages |-> counts.rejected[s] + Tally(c, p, context, s)],
                    matches |-> counts.matches + Len(matches),
                    errors |-> counts.errors + IF n < Len(matches) THEN 1 ELSE 0]
      /\ written' = written + n
      /\ last' = [record |-> {p}, context |-> context, matches |-> matches]

\* Slip: the counters run along and an exception leaves them half-way.
CheckFailsCounted(p) ==
  /\ p.kept
  /\ GivenTo(p)
  /\ counts' = [counts EXCEPT !.candidates = @ + Len(Candidates(p)), !.errors = @ + 1]
  /\ UNCHANGED <<written, last>>

\* An exception before the counting: it counts as an error and nothing else.
CheckFails(p) ==
  /\ p.kept
  /\ GivenTo(p)
  /\ counts' = [counts EXCEPT !.errors = @ + 1]
  /\ UNCHANGED <<written, last>>

-------------------------------------------------------------------------------
Init ==
  /\ files \in Configs /\ disabled \in DisabledSids
  /\ lines = <<>> /\ next = 1 /\ seen = {} /\ rules = {} /\ ipRules = {}
  /\ byPort = [q \in Indexed |-> {}] /\ wildcard = [q \in Indexed |-> {}]
  /\ rejected = <<>> /\ report = <<>> /\ ready = FALSE
  /\ records = 0 /\ kept = 0 /\ written = 0
  /\ counts = [evaluated |-> 0, candidates |-> 0, rejected |-> [s \in Stages |-> 0],
               matches |-> 0, errors |-> 0]
  /\ last = [record |-> {}, context |-> {}, matches |-> <<>>]

IndexLine ==
  \E i \in DOMAIN lines :
    SkipLine(lines[i]) \/ RejectDuplicate(lines[i]) \/ RejectDisabled(lines[i]) \/ AddRule(lines[i])

Load == ReadFile \/ IndexLine \/ WriteReport

Evaluate ==
  \E p \in Records :
    \/ Ignore(p)
    \/ CheckFails(p)
    \/ \E context \in Flows : \E n \in 0..Cardinality(rules) : Check(p, context, n)

Next == Load \/ Evaluate

Spec == Init /\ [][Next]_vars
-------------------------------------------------------------------------------
\* The index never hides a rule: a loaded rule whose header matches a record is among the record's
\* candidates, in either orientation of a <> rule, for ip rules and for port ranges.
CandidatesComplete ==
  \A r \in rules, p \in Records : p.kept /\ HeaderMatches(r, p) => r \in CandidateSet(p)

\* The rules that match are found, each once and in the order of their sids, as if every loaded rule had
\* been checked: neither the index nor the order of the rule files shows.
MatchesAreExact ==
  \A p \in last.record : last.matches = BySid({r \in rules : Outcome(r, p, last.context) = "match"})

IsValid(i) == RuleLine(lines[i]).status = "valid"
Sid(i) == RuleLine(lines[i]).rule.sid
FirstOfItsSid(i) == \A j \in 1..(i - 1) : IsValid(j) => Sid(j) # Sid(i)

\* README, Rule status: of the valid lines with one sid, over all files, the first one counts, and it is
\* used unless disabled_sids names it; a later one is never used instead.
FirstLineWins ==
  rules = {RuleLine(lines[i]).rule :
             i \in {k \in 1..(next - 1) : IsValid(k) /\ FirstOfItsSid(k) /\ Sid(k) \notin disabled}}

\* What the rules report says of line i (README, Rule status).
DocumentedStatus(i) ==
  CASE ~IsValid(i) -> RuleLine(lines[i]).status
    [] IsValid(i) /\ ~FirstOfItsSid(i) -> "invalid"
    [] IsValid(i) /\ FirstOfItsSid(i) /\ Sid(i) \in disabled -> "disabled"
    [] OTHER -> "valid"

NoFileTwice == \A i, j \in DOMAIN lines : lines[i] = lines[j] => i = j

\* "File and line find it" (cli.py, _load_engine): when the config lists no file twice, the report gives
\* each line its own status.
ReportIsRight == ready /\ NoFileTwice => \A i \in DOMAIN lines : report[i] = DocumentedStatus(i)

\* README, Rule status: "valid: The engine uses the rule", for every config.
ValidMeansUsed ==
  ready => Cardinality({i \in DOMAIN report : report[i] = "valid"}) = Cardinality(rules)

\* README: "candidate rules always equals the four rejected by lines plus rule matches"; a kept record is
\* evaluated or an error; and without errors each match is a line of the match file.
CountersAddUp ==
  /\ counts.candidates = MapThenSumSet(LAMBDA s : counts.rejected[s], Stages) + counts.matches
  /\ counts.evaluated <= kept /\ kept <= counts.evaluated + counts.errors
  /\ written <= counts.matches /\ (counts.errors = 0 => written = counts.matches)
===============================================================================
