--------------------------- MODULE RuleEngineProofs ---------------------------
(***************************************************************************)
(* Every rule whose header matches a record is a candidate for it, and the *)
(* rules loaded are those of the first lines of their sids, for all rule   *)
(* files, configs and records; a run that checks its outputs first is a    *)
(* run of the engine.  The report tells the status of each line, a record  *)
(* gets the matches of all loaded rules, and the counters add up.          *)
(***************************************************************************)
EXTENDS StartUp, FoldProofs, SequenceTheorems

\* A line of the rule files, with what the parser makes of it.
LineRef ==
  {e \in [file : DOMAIN RuleFiles, number : Nat, parsed : {ParseRule(line) : line \in Texts}] :
     e.parsed = ParseRule(RuleFiles[e.file][e.number])}

\* Reading goes before indexing.
Reading ==
  /\ lines \in Seq(LineRef)
  /\ next \in 1..(Len(lines) + 1)
  /\ files # <<>> => next = 1

\* Every rule is where the index looks for it.
Filed ==
  \A r \in rules :
    /\ WellFormed(r)
    /\ r.protocol = "ip" => r \in ipRules
    /\ r.protocol # "ip" =>
         IF SinglePorts(r) = {} THEN r \in wildcard[r.protocol]
         ELSE \A port \in SinglePorts(r) : <<port, r>> \in byPort[r.protocol]

\* The repository has seen the sids of the valid lines it has looked at.
SeenSids == seen = {Sid(k) : k \in {j \in 1..(next - 1) : IsValid(j)}}

IInv == Reading /\ Filed /\ SeenSids /\ FirstLineWins

-------------------------------------------------------------------------------
\* A port field that is not rejected holds ranges of numbers with the lower end first.
LEMMA PortsAreOrdered ==
  ASSUME NEW field, PortField(field).status = "valid"
  PROVE  \A q \in PortField(field).value :
           field # <<"any">> /\ q.low \in Nat /\ q.high \in Nat /\ q.low <= q.high
<1>1. CASE field = <<"any">>
  BY <1>1 DEF PortField, Value
<1>2. CASE field # <<"any">>
  <2> DEFINE low == UpTo(field, ":")
             high == IF Holds(field, ":") THEN From(field, ":") ELSE low
             least == IF low = <<>> THEN 0 ELSE Numbers[low[1]]
             most == IF high = <<>> THEN MaxRulePort ELSE Numbers[high[1]]
  <2>1. \A s \in {low, high} : s # <<>> => IsPort(s)
    BY <1>2 DEF PortField, Invalid, Unsupported, Fault
  <2>2. PortField(field) = PortRange(low, high)
    BY <1>2 DEF PortField, Invalid, Unsupported, Fault
  <2> HIDE DEF low, high
  <2>3. least \in Nat /\ most \in Nat
    BY <2>1, NumbersAreRead DEF IsPort, MaxRulePort
  <2>4. PortRange(low, high) =
          IF least > most THEN Invalid ELSE Value({[low |-> least, high |-> most]})
    BY DEF PortRange
  <2> HIDE DEF least, most
  <2>5. ~(least > most) /\ PortField(field).value = {[low |-> least, high |-> most]}
    BY <2>2, <2>4 DEF Invalid, Fault, Value
  <2> QED BY <1>2, <2>3, <2>5
<1> QED BY <1>1, <1>2

\* The parser builds well formed rules: what it does not reject has a protocol and a direction that the
\* matcher knows, port ranges with the lower end first, and no ports with the protocol ip.
LEMMA ParserBuildsRules ==
  ASSUME NEW line, ParseRule(line).status = "valid"
  PROVE  WellFormed(ParseRule(line).rule)
<1> DEFINE f == line.header
           o == ReadOptions(SplitOptions(line.options))
           options == OptionFaults(o, Len(f) = 7 /\ f[2] = <<"udp">>)
<1>1. ParseRule(line) = IF line.closed THEN Judge(f, HeaderFaults(f), options, o) ELSE [status |-> "invalid"]
  BY DEF ParseRule
<1> HIDE DEF f, o, options
<1>2. IsAllValid(HeaderFaults(f)) /\ ParseRule(line).rule = RuleOf(f, o)
  BY <1>1 DEF Judge
<1>3. Len(f) = 7
  <2>1. ~IsAllValid(<<"unsupported">>) /\ ~IsAllValid(<<"invalid">>)
    BY DEF IsAllValid
  <2> QED BY <1>2, <2>1, Zenon DEF HeaderFaults
<1>4. IsAllValid(FieldFaults(f))
  BY <1>2, <1>3 DEF HeaderFaults
<1>5. /\ ProtocolFault(f[2]) = "valid" /\ DirectionFault(f[5]) = "valid"
      /\ PortField(f[4]).status = "valid" /\ PortField(f[7]).status = "valid"
      /\ f[2] = <<"ip">> => f[4] = <<"any">> /\ f[7] = <<"any">>
  <2> DEFINE faults == FieldFaults(f)
  <2>1. DOMAIN faults = 1..8
    BY DEF FieldFaults
  <2>2. \A i \in 1..8 : faults[i] = "valid"
    BY <1>4, <2>1 DEF IsAllValid
  <2>3. /\ faults[2] = ProtocolFault(f[2]) /\ faults[3] = DirectionFault(f[5])
        /\ faults[6] = PortField(f[4]).status /\ faults[7] = PortField(f[7]).status
        /\ faults[8] = IF f[2] = <<"ip">> /\ ~(f[4] = <<"any">> /\ f[7] = <<"any">>)
                         THEN "invalid" ELSE "valid"
    BY DEF FieldFaults
  <2> HIDE DEF faults
  <2> QED BY <2>2, <2>3
<1>6. f[2][1] \in Indexed \cup {"ip"} /\ f[5][1] \in {"->", "<>"} /\ (f[2][1] = "ip" => f[2] = <<"ip">>)
  BY <1>5 DEF ProtocolFault, DirectionFault, RuleProtocols, Directions, Indexed
<1>7. /\ RuleOf(f, o).protocol = f[2][1] /\ RuleOf(f, o).direction = f[5][1]
      /\ RuleOf(f, o).srcPort = PortField(f[4]).value /\ RuleOf(f, o).dstPort = PortField(f[7]).value
  BY DEF RuleOf
<1> QED BY <1>2, <1>5, <1>6, <1>7, PortsAreOrdered DEF WellFormed

\* A line of the rule files holds a rule that is well formed, if it is valid.
LEMMA LinesHoldRules ==
  ASSUME NEW e \in LineRef, RuleLine(e).status = "valid"
  PROVE  WellFormed(RuleLine(e).rule)
BY ParserBuildsRules DEF LineRef, RuleLine

\* A rule with single ports shows one of them in every record that its header matches.
LEMMA SinglePortShows ==
  ASSUME NEW r, WellFormed(r), NEW p \in Records, p.kept, HeaderMatches(r, p), SinglePorts(r) # {}
  PROVE  \E port \in SinglePorts(r) : port \in {p.srcPort, p.dstPort}
<1>1. p.srcPort \in Nat /\ p.dstPort \in Nat
  BY KeptRecordsAreWhole
<1>2. \A q \in r.srcPort \cup r.dstPort : q.low \in Nat /\ q.high \in Nat
  BY DEF WellFormed
<1>3. ASSUME NEW range \in {r.srcPort, r.dstPort}, NEW port \in Single(range), NEW n \in Nat,
             \A q \in range : q.low <= n /\ n <= q.high
      PROVE  n = port
  <2>1. PICK q \in range : q.low = q.high /\ port = q.low
    BY DEF Single
  <2>2. q.low \in Nat /\ q.low <= n /\ n <= q.high
    BY <1>2, <1>3, <2>1
  <2> QED BY <2>1, <2>2
<1>4. PICK port \in SinglePorts(r) : TRUE
  OBVIOUS
<1>5. CASE port \in Single(r.dstPort)
  <2>1. \E n \in {p.srcPort, p.dstPort} : \A q \in r.dstPort : q.low <= n /\ n <= q.high
    BY DEF HeaderMatches, EndpointMatches
  <2>2. PICK n \in {p.srcPort, p.dstPort} : \A q \in r.dstPort : q.low <= n /\ n <= q.high
    BY <2>1
  <2>3. n = port
    BY <1>1, <1>3, <1>5, <2>2
  <2> QED BY <1>4, <2>2, <2>3
<1>6. CASE port \in Single(r.srcPort)
  <2>1. \E n \in {p.srcPort, p.dstPort} : \A q \in r.srcPort : q.low <= n /\ n <= q.high
    BY DEF HeaderMatches, EndpointMatches
  <2>2. PICK n \in {p.srcPort, p.dstPort} : \A q \in r.srcPort : q.low <= n /\ n <= q.high
    BY <2>1
  <2>3. n = port
    BY <1>1, <1>3, <1>6, <2>2
  <2> QED BY <1>4, <2>2, <2>3
<1> QED BY <1>4, <1>5, <1>6 DEF SinglePorts

\* A rule that is filed where it belongs is a candidate for every record that its header matches.
LEMMA FiledIsFound == Filed => CandidatesComplete
<1> SUFFICES ASSUME Filed, NEW r \in rules, NEW p \in Records, p.kept, HeaderMatches(r, p)
             PROVE  r \in CandidateSet(p)
  BY DEF CandidatesComplete
<1>1. WellFormed(r) /\ r.protocol \in {"ip", IndexOf[p.protocol]}
  BY DEF Filed, HeaderMatches
<1>2. CASE r.protocol = "ip"
  BY <1>2 DEF Filed, CandidateSet
<1>3. CASE r.protocol # "ip" /\ SinglePorts(r) = {}
  BY <1>1, <1>3 DEF Filed, CandidateSet
<1>4. CASE r.protocol # "ip" /\ SinglePorts(r) # {}
  <2>1. PICK port \in SinglePorts(r) : port \in {p.srcPort, p.dstPort}
    BY <1>1, <1>4, SinglePortShows
  <2>2. <<port, r>> \in byPort[IndexOf[p.protocol]]
    BY <1>1, <1>4, <2>1 DEF Filed
  <2>3. <<port, r>>[1] = port /\ <<port, r>>[2] = r
    OBVIOUS
  <2> QED BY <2>1, <2>2, <2>3 DEF CandidateSet
<1> QED BY <1>2, <1>3, <1>4

-------------------------------------------------------------------------------
\* The lines that ReadFile adds are lines of the file.
LEMMA ReadLines ==
  ASSUME NEW path \in DOMAIN RuleFiles
  PROVE  FileLines(path) \in Seq(LineRef)
<1> DEFINE text == RuleFiles[path]
<1>1. text \in Seq(Texts)
  BY FilesAreLines
<1>2. Len(text) \in Nat /\ DOMAIN text = 1..Len(text)
  BY <1>1
<1>3. \A n \in 1..Len(text) : [file |-> path, number |-> n, parsed |-> ParseRule(text[n])] \in LineRef
  BY <1>1, <1>2 DEF LineRef
<1> HIDE DEF text
<1>4. FileLines(path) = [n \in 1..Len(text) |-> [file |-> path, number |-> n, parsed |-> ParseRule(text[n])]]
  BY <1>2 DEF FileLines, text
<1> QED BY <1>2, <1>3, <1>4

\* Looking at line e moves on by one line.
LEMMA LookStep ==
  ASSUME Reading, NEW e, LookAt(e)
  PROVE  /\ Reading' /\ lines' = lines /\ disabled' = disabled
         /\ e = lines[next] /\ e \in LineRef /\ next \in 1..Len(lines) /\ next' = next + 1
<1>1. /\ lines' = lines /\ disabled' = disabled /\ files' = files /\ files = <<>>
      /\ e = lines[next] /\ next' = next + 1 /\ next <= Len(lines)
  BY DEF LookAt
<1>2. lines \in Seq(LineRef) /\ next \in 1..(Len(lines) + 1)
  BY DEF Reading
<1>3. next \in 1..Len(lines) /\ next' \in 1..(Len(lines) + 1)
  BY <1>1, <1>2
<1>4. e \in LineRef
  BY <1>1, <1>2, <1>3
<1> QED BY <1>1, <1>2, <1>3, <1>4 DEF Reading

\* Line k is one whose rule the engine uses.
Used(k) == IsValid(k) /\ FirstOfItsSid(k) /\ Sid(k) \notin disabled

\* What is due at the next line is decided by the sids seen.
LEMMA UsedUnseen ==
  ASSUME Reading, SeenSids, next \in 1..Len(lines)
  PROVE  Used(next) <=> IsValid(next) /\ Sid(next) \notin seen \cup disabled
BY DEF Used, FirstOfItsSid, SeenSids

\* A step that looks at line e keeps the account of sids and rules if it adds what is due.
LEMMA LookKeepsAccount ==
  ASSUME IInv, NEW e, LookAt(e),
         seen' = seen \cup (IF IsValid(next) THEN {Sid(next)} ELSE {}),
         rules' = rules \cup (IF Used(next) THEN {RuleLine(lines[next]).rule} ELSE {})
  PROVE  SeenSids' /\ FirstLineWins'
<1>1. lines' = lines /\ disabled' = disabled /\ next \in Nat /\ next >= 1 /\ next' = next + 1
  BY LookStep DEF IInv
<1>2. 1..(next' - 1) = 1..(next - 1) \cup {next}
  BY <1>1
<1>3. \A k : /\ IsValid(k)' = IsValid(k) /\ Sid(k)' = Sid(k)
             /\ Used(k)' = Used(k) /\ RuleLine(lines[k])' = RuleLine(lines[k])
  BY <1>1 DEF IsValid, Sid, Used, FirstOfItsSid, RuleLine
<1>4. SeenSids'
  <2>1. seen' = {Sid(k) : k \in {j \in 1..(next' - 1) : IsValid(j)}}
    BY <1>2 DEF IInv, SeenSids
  <2> QED BY <1>3, <2>1 DEF SeenSids
<1>5. FirstLineWins'
  <2>1. rules = {RuleLine(lines[i]).rule : i \in {k \in 1..(next - 1) : Used(k)}}
    BY DEF IInv, FirstLineWins, Used
  <2>2. rules' = {RuleLine(lines[i]).rule : i \in {k \in 1..(next' - 1) : Used(k)}}
    BY <1>2, <2>1
  <2>3. rules' = {RuleLine(lines[i])' .rule : i \in {k \in 1..(next' - 1) : Used(k)'}}
    BY <1>3, <2>2
  <2> QED BY <2>3 DEF FirstLineWins, Used
<1> QED BY <1>4, <1>5

\* A line that adds no rule.
LEMMA NoRuleStep ==
  ASSUME IInv, NEW e, LookAt(e),
         ~Used(next), seen' = seen \cup (IF IsValid(next) THEN {Sid(next)} ELSE {}),
         UNCHANGED <<rules, ipRules, byPort, wildcard>>
  PROVE  IInv'
<1>1. Reading'
  BY LookStep DEF IInv
<1>2. SeenSids' /\ FirstLineWins'
  BY LookKeepsAccount
<1>3. Filed'
  BY DEF IInv, Filed
<1> QED BY <1>1, <1>2, <1>3 DEF IInv

\* The index holds a rule after it is added.
LEMMA AddRuleFiles ==
  ASSUME IInv, NEW e, AddRule(e)
  PROVE  Filed'
<1> DEFINE r == RuleLine(e).rule
<1>1. e \in LineRef
  BY LookStep DEF IInv, AddRule
<1>2. WellFormed(r)
  BY <1>1, LinesHoldRules DEF AddRule
<1>3. /\ rules' = rules \cup {r}
      /\ ipRules' = IF r.protocol = "ip" THEN ipRules \cup {r} ELSE ipRules
      /\ \A q \in Indexed : byPort'[q] =
           byPort[q] \cup IF q = r.protocol THEN {<<port, r>> : port \in SinglePorts(r)} ELSE {}
      /\ \A q \in Indexed : wildcard'[q] =
           wildcard[q] \cup IF q = r.protocol /\ SinglePorts(r) = {} THEN {r} ELSE {}
  BY DEF AddRule
<1> HIDE DEF r
<1>4. ASSUME NEW x \in rules'
      PROVE  /\ WellFormed(x)
             /\ x.protocol = "ip" => x \in ipRules'
             /\ x.protocol # "ip" =>
                  IF SinglePorts(x) = {} THEN x \in wildcard'[x.protocol]
                  ELSE \A port \in SinglePorts(x) : <<port, x>> \in byPort'[x.protocol]
  <2>1. WellFormed(x)
    BY <1>2, <1>3 DEF IInv, Filed
  <2>2. x.protocol # "ip" => x.protocol \in Indexed
    BY <2>1 DEF WellFormed
  <2>3. CASE x \in rules
    BY <1>3, <2>1, <2>2, <2>3 DEF IInv, Filed
  <2>4. CASE x = r
    BY <1>3, <2>1, <2>2, <2>4
  <2> QED BY <1>3, <2>3, <2>4
<1> QED BY <1>4 DEF Filed

\* Every step keeps the invariant.
LEMMA StepKeepsInv == IInv /\ [Next]_vars => IInv'
<1> SUFFICES ASSUME IInv, [Next]_vars
             PROVE  IInv'
  OBVIOUS
<1>1. CASE ReadFile
  <2>1. files # <<>> /\ next = 1 /\ seen = {} /\ rules = {}
    <3>1. files # <<>> /\ next = 1
      BY <1>1 DEF ReadFile, IInv, Reading
    <3>2. 1..(next - 1) = {}
      BY <3>1
    <3> QED BY <3>1, <3>2 DEF IInv, SeenSids, FirstLineWins
  <2>2. next' = 1 /\ seen' = {} /\ rules' = {}
    BY <1>1, <2>1 DEF ReadFile
  <2>3. 1..(next' - 1) = {}
    BY <2>2
  <2>4. lines' \in Seq(LineRef)
    <3>1. lines \in Seq(LineRef)
      BY DEF IInv, Reading
    <3>2. CASE Head(files).enabled /\ Head(files).path \in DOMAIN RuleFiles
      <4> DEFINE more == FileLines(Head(files).path)
      <4>1. more \in Seq(LineRef)
        BY <3>2, ReadLines
      <4>2. lines' = lines \o more
        BY <1>1, <3>2 DEF ReadFile
      <4> HIDE DEF more
      <4> QED BY <3>1, <4>1, <4>2
    <3>3. CASE ~(Head(files).enabled /\ Head(files).path \in DOMAIN RuleFiles)
      BY <1>1, <3>1, <3>3 DEF ReadFile
    <3> QED BY <3>2, <3>3
  <2>5. Reading'
    <3>1. Len(lines') \in Nat
      BY <2>4
    <3> QED BY <2>2, <2>4, <3>1 DEF Reading
  <2> QED BY <2>2, <2>3, <2>5 DEF IInv, Filed, SeenSids, FirstLineWins
<1>2. ASSUME NEW e, LookAt(e)
      PROVE  /\ next \in 1..Len(lines) /\ e = lines[next]
             /\ IsValid(next) <=> RuleLine(e).status = "valid"
             /\ Sid(next) = RuleLine(e).rule.sid
             /\ Used(next) <=> IsValid(next) /\ Sid(next) \notin seen \cup disabled
             /\ IsValid(next) => (Sid(next) \in seen => seen = seen \cup {Sid(next)})
  BY <1>2, LookStep, UsedUnseen DEF IInv, IsValid, Sid
<1>3. ASSUME NEW i \in DOMAIN lines, SkipLine(lines[i])
      PROVE  IInv'
  <2>1. LookAt(lines[i]) /\ ~IsValid(next) /\ ~Used(next)
    BY <1>2, <1>3 DEF SkipLine
  <2>2. seen' = seen /\ UNCHANGED <<rules, ipRules, byPort, wildcard>>
    BY <1>3 DEF SkipLine
  <2> QED BY <2>1, <2>2, NoRuleStep
<1>4. ASSUME NEW i \in DOMAIN lines, RejectDuplicate(lines[i])
      PROVE  IInv'
  <2>1. LookAt(lines[i]) /\ IsValid(next) /\ Sid(next) \in seen /\ ~Used(next)
    BY <1>2, <1>4 DEF RejectDuplicate
  <2>2. seen' = seen /\ UNCHANGED <<rules, ipRules, byPort, wildcard>>
    BY <1>4 DEF RejectDuplicate
  <2> QED BY <2>1, <2>2, NoRuleStep
<1>5. ASSUME NEW i \in DOMAIN lines, RejectDisabled(lines[i])
      PROVE  IInv'
  <2>1. LookAt(lines[i]) /\ IsValid(next) /\ Sid(next) \in disabled /\ ~Used(next)
    BY <1>2, <1>5 DEF RejectDisabled
  <2>2. seen' = seen \cup {Sid(next)} /\ UNCHANGED <<rules, ipRules, byPort, wildcard>>
    BY <1>2, <1>5 DEF RejectDisabled
  <2> QED BY <2>1, <2>2, NoRuleStep
<1>6. ASSUME NEW i \in DOMAIN lines, AddRule(lines[i])
      PROVE  IInv'
  <2>1. /\ LookAt(lines[i]) /\ IsValid(next) /\ Used(next)
        /\ lines[i] = lines[next] /\ Sid(next) = RuleLine(lines[i]).rule.sid
    BY <1>2, <1>6 DEF AddRule
  <2>2. seen' = seen \cup {Sid(next)} /\ rules' = rules \cup {RuleLine(lines[next]).rule}
    BY <1>6, <2>1 DEF AddRule
  <2>3. SeenSids' /\ FirstLineWins'
    BY <2>1, <2>2, LookKeepsAccount
  <2>4. Reading'
    BY <2>1, LookStep DEF IInv
  <2>5. Filed'
    BY <1>6, AddRuleFiles
  <2> QED BY <2>3, <2>4, <2>5 DEF IInv
<1>7. ASSUME UNCHANGED repository
      PROVE  IInv'
  <2>1. UNCHANGED <<files, disabled, lines, next, seen, rules, ipRules, byPort, wildcard>>
    BY <1>7 DEF repository
  <2>2. Reading' /\ Filed'
    BY <2>1 DEF IInv, Reading, Filed
  <2>3. SeenSids'
    BY <2>1 DEF IInv, SeenSids, IsValid, Sid, RuleLine
  <2>4. FirstLineWins'
    BY <2>1 DEF IInv, FirstLineWins, IsValid, Sid, FirstOfItsSid, RuleLine
  <2> QED BY <2>2, <2>3, <2>4 DEF IInv
<1>8. WriteReport \/ Evaluate \/ UNCHANGED vars => UNCHANGED repository
  BY DEF WriteReport, Evaluate, Ignore, CheckFails, Check, GivenTo, vars
<1> QED BY <1>1, <1>3, <1>4, <1>5, <1>6, <1>7, <1>8 DEF Next, Load, IndexLine

\* The empty repository satisfies it.
LEMMA InitInv == Init => IInv
<1> SUFFICES ASSUME Init PROVE IInv
  OBVIOUS
<1>1. lines = <<>> /\ next = 1 /\ seen = {} /\ rules = {} /\ 1..(next - 1) = {}
  BY DEF Init
<1>2. Reading
  BY <1>1 DEF Reading
<1> QED BY <1>1, <1>2 DEF IInv, Filed, SeenSids, FirstLineWins

-------------------------------------------------------------------------------
LEMMA Invariance == Spec => []IInv
<1> QED BY InitInv, StepKeepsInv, PTL DEF Spec

\* The port index hides no rule (RuleRepository.candidates), whatever rules and records there are.
THEOREM IndexIsComplete == Spec => []CandidatesComplete
<1>1. IInv => CandidatesComplete
  BY FiledIsFound DEF IInv
<1> QED BY Invariance, <1>1, PTL

\* Of the valid lines with one sid the first is used, unless it is disabled (RuleRepository.__init__).
THEOREM FirstLinesAreUsed == Spec => []FirstLineWins
<1>1. IInv => FirstLineWins
  BY DEF IInv
<1> QED BY Invariance, <1>1, PTL

-------------------------------------------------------------------------------
\* Every step of the start is a step of the engine, or one that the engine does not see.
LEMMA StartStepIsEngineStep == StartNext => [Next]_vars
<1> SUFFICES ASSUME StartNext
             PROVE  Next \/ UNCHANGED vars
  OBVIOUS
<1>1. CASE ParseArguments \/ CheckOutputs \/ OpenWriter \/ OpenFails
  BY <1>1 DEF ParseArguments, CheckOutputs, OpenWriter, OpenFails
<1>2. CASE LoadRules
  BY <1>2 DEF LoadRules, Next, Load
<1>3. CASE Report
  BY <1>3 DEF Report, Next, Load
<1>4. CASE Run
  BY <1>4 DEF Run, Next
<1> QED BY <1>1, <1>2, <1>3, <1>4 DEF StartNext

\* A run that checks its outputs between the loading and the first record is a run of the engine, so what
\* holds of the engine holds of the program (run, src/ids/cli.py).
THEOREM StartImplementsEngine == StartSpec => Spec
<1>1. StartInit => Init
  BY DEF StartInit
<1>2. [StartNext]_<<vars, startUp>> => [Next]_vars
  BY StartStepIsEngineStep
<1> QED BY <1>1, <1>2, PTL DEF StartSpec, Spec

\* The files that an output option names.
OutputFiles == {outputs[a] : a \in DOMAIN outputs}

\* Nothing is emptied before both checks have passed, and then only outputs are.
Guarded ==
  /\ outputs \in OutputChoices
  /\ opened \in Nat
  /\ phase \in {"arguments", "stopped", "load", "open", "run"}
  /\ phase \in {"arguments", "load"} => emptied = {}
  /\ phase \in {"load", "open", "run"} => ~ArgumentsClash
  /\ phase \in {"open", "run"} => ~OutputOnRuleFile
  /\ emptied = {} \/ (emptied \subseteq OutputFiles /\ ~ArgumentsClash /\ ~OutputOnRuleFile)

\* A step that leaves the rule lines and the emptied files alone keeps the guard if its phase may follow.
LEMMA QuietStep ==
  ASSUME Guarded, UNCHANGED <<outputs, opened, emptied, lines>>,
         phase' \in {"stopped", "load", "open", "run"},
         phase' = "load" => ~ArgumentsClash /\ emptied = {},
         phase' \in {"open", "run"} => ~ArgumentsClash /\ ~OutputOnRuleFile
  PROVE  Guarded'
BY DEF Guarded, ArgumentsClash, OutputOnRuleFile, OutputFiles

\* Every step keeps the guard.
LEMMA StepKeepsGuard == Guarded /\ [StartNext]_<<vars, startUp>> => Guarded'
<1> SUFFICES ASSUME Guarded, [StartNext]_<<vars, startUp>>
             PROVE  Guarded'
  OBVIOUS
<1>1. CASE ParseArguments
  <2>1. UNCHANGED <<outputs, opened, emptied, lines>> /\ phase = "arguments"
    BY <1>1 DEF ParseArguments, Moves, vars, repository
  <2>2. phase' = IF ArgumentsClash THEN "stopped" ELSE "load"
    BY <1>1 DEF ParseArguments, Moves
  <2>3. emptied = {}
    BY <2>1 DEF Guarded
  <2> QED BY <2>1, <2>2, <2>3, QuietStep
<1>2. CASE LoadRules
  <2>1. phase = "load" /\ phase' = "load" /\ UNCHANGED <<outputs, opened, emptied>>
    BY <1>2 DEF LoadRules, Moves
  <2>2. emptied = {} /\ ~ArgumentsClash
    BY <2>1 DEF Guarded
  <2> QED BY <2>1, <2>2 DEF Guarded, ArgumentsClash
<1>3. CASE CheckOutputs
  <2>1. UNCHANGED <<outputs, opened, emptied, lines>> /\ phase = "load"
    BY <1>3 DEF CheckOutputs, Moves, vars, repository
  <2>2. phase' = IF OutputOnRuleFile THEN "stopped" ELSE "open"
    BY <1>3 DEF CheckOutputs, Moves
  <2>3. ~ArgumentsClash
    BY <2>1 DEF Guarded
  <2> QED BY <2>1, <2>2, <2>3, QuietStep
<1>4. CASE OpenWriter
  <2>1. /\ phase = "open" /\ phase' = "open" /\ UNCHANGED <<outputs, lines>>
        /\ opened' = opened + 1 /\ emptied' = emptied \cup {outputs[OutputNames[opened']]}
        /\ opened < Len(OutputNames)
    BY <1>4 DEF OpenWriter, Moves, vars, repository
  <2>2. opened' \in Nat /\ opened' \in 1..Len(OutputNames)
    BY <2>1 DEF Guarded, OutputNames
  <2>3. OutputNames[opened'] \in DOMAIN outputs
    BY <2>2, OutputsAreNamed DEF Guarded
  <2>4. emptied' \subseteq OutputFiles
    BY <2>1, <2>3 DEF Guarded, OutputFiles
  <2>5. ~ArgumentsClash /\ ~OutputOnRuleFile
    BY <2>1 DEF Guarded
  <2> QED BY <2>1, <2>2, <2>4, <2>5 DEF Guarded, ArgumentsClash, OutputOnRuleFile, OutputFiles
<1>5. CASE OpenFails
  <2>1. UNCHANGED <<outputs, opened, emptied, lines>> /\ phase' = "stopped"
    BY <1>5 DEF OpenFails, Moves, vars, repository
  <2> QED BY <2>1, QuietStep
<1>6. CASE Report \/ Run
  <2>1. UNCHANGED <<outputs, opened, emptied, lines>> /\ phase \in {"open", "run"} /\ phase' = "run"
    BY <1>6 DEF Report, Run, Moves, WriteReport, Evaluate, Ignore, CheckFails, Check, GivenTo, repository
  <2>2. ~ArgumentsClash /\ ~OutputOnRuleFile
    BY <2>1 DEF Guarded
  <2> QED BY <2>1, <2>2, QuietStep
<1>7. CASE UNCHANGED <<vars, startUp>>
  BY <1>7 DEF Guarded, ArgumentsClash, OutputOnRuleFile, OutputFiles, vars, repository, startUp
<1> QED BY <1>1, <1>2, <1>3, <1>4, <1>5, <1>6, <1>7 DEF StartNext

\* No writer empties an input or a file that a rule line was read from (parse_args and _output_on_rule_file).
THEOREM UsedFilesStay == StartSpec => []UsedFilesAreSpared
<1>1. StartInit => Guarded
  BY DEF StartInit, Guarded
<1>2. Guarded => UsedFilesAreSpared
  BY DEF Guarded, UsedFilesAreSpared, OutputFiles, ArgumentsClash, OutputOnRuleFile
<1> QED BY <1>1, <1>2, StepKeepsGuard, PTL DEF StartSpec

\* What is proved of the engine holds of the program: the port index hides no rule, and of the lines with one
\* sid the first is used.
THEOREM ProgramUsesItsRules == StartSpec => [](CandidatesComplete /\ FirstLineWins)
<1> QED BY StartImplementsEngine, IndexIsComplete, FirstLinesAreUsed, PTL

-------------------------------------------------------------------------------
(***************************************************************************)
(* The order of the rules.                                                 *)
(***************************************************************************)

\* The elements of S have keys, each its own.
Keyed(S, key) ==
  /\ IsFiniteSet(S)
  /\ \A x \in S : key[x] \in Nat
  /\ \A x, y \in S : key[x] = key[y] => x = y

\* How many elements come before x.
Before(S, key, x) == {y \in S : key[y] < key[x]}
Rank(S, key, x) == Cardinality(Before(S, key, x))

\* Ranks go as keys go.
LEMMA RankFollowsKey ==
  ASSUME NEW S, NEW key, Keyed(S, key), NEW x \in S, NEW y \in S, key[x] < key[y]
  PROVE  Rank(S, key, x) < Rank(S, key, y)
<1> DEFINE X == Before(S, key, x)
           Y == Before(S, key, y)
<1>1. key[x] \in Nat /\ key[y] \in Nat /\ \A z \in S : key[z] \in Nat
  BY DEF Keyed
<1>2. x \notin X /\ X \cup {x} \subseteq Y /\ Y \subseteq S /\ X \subseteq S
  BY <1>1 DEF Before
<1> HIDE DEF X, Y
<1>3. IsFiniteSet(S) /\ IsFiniteSet(X) /\ IsFiniteSet(Y)
  BY <1>2, FS_Subset DEF Keyed
<1>4. Cardinality(X \cup {x}) = Cardinality(X) + 1
  BY <1>2, <1>3, FS_AddElement, Zenon
<1>5. Cardinality(X \cup {x}) <= Cardinality(Y)
  BY <1>2, <1>3, FS_Subset
<1>6. Cardinality(X) \in Nat /\ Cardinality(Y) \in Nat
  BY <1>3, FS_CardinalityType
<1>7. Cardinality(X) < Cardinality(Y)
  BY <1>4, <1>5, <1>6
<1> QED BY <1>7 DEF Rank, X, Y

\* So no two elements have one rank, and the ranks are the numbers below the size of S.
LEMMA RanksAreOneToOne ==
  ASSUME NEW S, NEW key, Keyed(S, key)
  PROVE  \A x, y \in S : Rank(S, key, x) = Rank(S, key, y) => x = y
<1> SUFFICES ASSUME NEW x \in S, NEW y \in S, Rank(S, key, x) = Rank(S, key, y) PROVE x = y
  OBVIOUS
<1>1. key[x] \in Nat /\ key[y] \in Nat
  BY DEF Keyed
<1>2. Rank(S, key, x) \in Nat /\ Rank(S, key, y) \in Nat
  BY FS_Subset, FS_CardinalityType DEF Rank, Before, Keyed
<1>3. ~(key[x] < key[y]) /\ ~(key[y] < key[x])
  BY <1>2, RankFollowsKey
<1>4. key[x] = key[y]
  BY <1>1, <1>3
<1> QED BY <1>4 DEF Keyed

LEMMA RanksFillUp ==
  ASSUME NEW S, NEW key, Keyed(S, key)
  PROVE  /\ Cardinality(S) \in Nat
         /\ \A x \in S : Rank(S, key, x) + 1 \in 1..Cardinality(S)
         /\ \A k \in 1..Cardinality(S) : \E x \in S : Rank(S, key, x) = k - 1
<1> DEFINE n == Cardinality(S)
           place == [x \in S |-> Rank(S, key, x) + 1]
<1>0. IsFiniteSet(S)
  BY DEF Keyed
<1>1. n \in Nat /\ IsFiniteSet(1..n) /\ Cardinality(1..n) = n
  <2>1. n \in Nat
    BY <1>0, FS_CardinalityType
  <2>2. IsFiniteSet(1..n) /\ Cardinality(1..n) = IF 1 > n THEN 0 ELSE n - 1 + 1
    BY <2>1, FS_Interval
  <2> QED BY <2>1, <2>2
<1>2. ASSUME NEW x \in S PROVE Rank(S, key, x) \in Nat /\ Rank(S, key, x) + 1 \in 1..n
  <2> DEFINE X == Before(S, key, x)
  <2>1. key[x] \in Nat
    BY DEF Keyed
  <2>2. X \subseteq S \ {x}
    BY <2>1 DEF Before
  <2> HIDE DEF X
  <2>3. IsFiniteSet(S \ {x}) /\ Cardinality(S \ {x}) = n - 1
    BY <1>0, FS_RemoveElement, Zenon
  <2>4. Cardinality(X) <= Cardinality(S \ {x}) /\ IsFiniteSet(X)
    BY <2>2, <2>3, FS_Subset
  <2>5. Cardinality(X) \in Nat
    BY <2>4, FS_CardinalityType
  <2>6. Cardinality(X) \in Nat /\ Cardinality(X) + 1 \in 1..n
    BY <1>1, <2>3, <2>4, <2>5
  <2> QED BY <2>6 DEF Rank, X
<1>3. place \in Injection(S, 1..n)
  <2>1. place \in [S -> 1..n]
    BY <1>2
  <2>2. \A x, y \in S : place[x] = place[y] => x = y
    BY <1>2, RanksAreOneToOne
  <2> QED BY <2>1, <2>2 DEF Injection, IsInjective
<1>4. place \in Surjection(S, 1..n)
  BY <1>1, <1>3, FS_Injection
<1>5. ASSUME NEW k \in 1..n PROVE \E x \in S : Rank(S, key, x) = k - 1
  <2>1. PICK x \in S : place[x] = k
    BY <1>4 DEF Surjection
  <2>2. Rank(S, key, x) + 1 = k /\ Rank(S, key, x) \in Nat
    BY <1>2, <2>1
  <2> QED BY <2>2
<1> QED BY <1>1, <1>2, <1>5

\* InOrder lists every element once, the lower key first.
LEMMA InOrderLists ==
  ASSUME NEW S, NEW key, Keyed(S, key)
  PROVE  LET s == InOrder(S, key)
             n == Cardinality(S)
         IN  /\ n \in Nat /\ s \in [1..n -> S]
             /\ \A k \in 1..n : Rank(S, key, s[k]) = k - 1
             /\ \A j, k \in 1..n : j < k => key[s[j]] < key[s[k]]
             /\ \A x \in S : \E k \in 1..n : s[k] = x
<1> DEFINE s == InOrder(S, key)
           n == Cardinality(S)
<1>1. n \in Nat
  BY RanksFillUp
<1>2. s = [k \in 1..n |-> CHOOSE x \in S : Rank(S, key, x) = k - 1]
  BY Zenon DEF InOrder, Rank, Before
<1>3. \A k \in 1..n : \E x \in S : Rank(S, key, x) = k - 1
  BY RanksFillUp
<1> HIDE DEF s
<1>4. \A k \in 1..n : s[k] \in S /\ Rank(S, key, s[k]) = k - 1
  <2> SUFFICES ASSUME NEW k \in 1..n PROVE s[k] \in S /\ Rank(S, key, s[k]) = k - 1
    OBVIOUS
  <2>1. s[k] = CHOOSE x \in S : Rank(S, key, x) = k - 1
    BY <1>2
  <2> QED BY <1>3, <2>1
<1>5. s \in [1..n -> S]
  BY <1>2, <1>4
<1>6. ASSUME NEW j \in 1..n, NEW k \in 1..n, j < k PROVE key[s[j]] < key[s[k]]
  <2>1. s[j] \in S /\ s[k] \in S /\ Rank(S, key, s[j]) = j - 1 /\ Rank(S, key, s[k]) = k - 1
    BY <1>4
  <2>2. key[s[j]] \in Nat /\ key[s[k]] \in Nat
    BY <2>1 DEF Keyed
  <2>3. ~(key[s[k]] < key[s[j]])
    <3> SUFFICES ASSUME key[s[k]] < key[s[j]] PROVE FALSE
      OBVIOUS
    <3>1. Rank(S, key, s[k]) < Rank(S, key, s[j])
      BY <2>1, RankFollowsKey
    <3> QED BY <1>1, <1>6, <2>1, <3>1
  <2>4. key[s[j]] # key[s[k]]
    <3> SUFFICES ASSUME key[s[j]] = key[s[k]] PROVE FALSE
      OBVIOUS
    <3>1. s[j] = s[k]
      BY <2>1 DEF Keyed
    <3>2. j - 1 = k - 1
      BY <2>1, <3>1
    <3> QED BY <1>6, <3>2
  <2> QED BY <2>2, <2>3, <2>4
<1>7. ASSUME NEW x \in S PROVE \E k \in 1..n : s[k] = x
  <2> DEFINE k == Rank(S, key, x) + 1
  <2>1. k \in 1..n /\ Rank(S, key, x) = k - 1
    <3>1. k \in 1..n
      BY RanksFillUp
    <3>2. Rank(S, key, x) \in Nat
      BY FS_Subset, FS_CardinalityType DEF Rank, Before, Keyed
    <3> QED BY <3>1, <3>2
  <2> HIDE DEF k
  <2>2. s[k] \in S /\ Rank(S, key, s[k]) = Rank(S, key, x)
    BY <1>4, <2>1
  <2>3. s[k] = x
    BY <2>2, RanksAreOneToOne
  <2> QED BY <2>1, <2>3
<1> QED BY <1>1, <1>4, <1>5, <1>6, <1>7 DEF s

\* And there is no other such list.
LEMMA InOrderIsOnly ==
  ASSUME NEW S, NEW key, Keyed(S, key), NEW n \in Nat, NEW t \in [1..n -> S],
         \A j, k \in 1..n : j < k => key[t[j]] < key[t[k]],
         \A x \in S : \E k \in 1..n : t[k] = x
  PROVE  t = InOrder(S, key)
<1> DEFINE s == InOrder(S, key)
<1>1. \A x \in S : key[x] \in Nat
  BY DEF Keyed
<1>2. ASSUME NEW j \in 1..n, NEW k \in 1..n PROVE /\ (t[j] = t[k] => j = k) /\ (key[t[j]] < key[t[k]] => j < k)
  <2>1. key[t[j]] \in Nat /\ key[t[k]] \in Nat
    BY <1>1
  <2>2. CASE j < k
    <3>1. key[t[j]] < key[t[k]]
      BY <2>2
    <3> QED BY <2>1, <2>2, <3>1
  <2>3. CASE k < j
    <3>1. key[t[k]] < key[t[j]]
      BY <2>3
    <3> QED BY <2>1, <2>3, <3>1
  <2>4. CASE j = k
    BY <2>1, <2>4
  <2> QED BY <2>2, <2>3, <2>4
<1>3. ASSUME NEW k \in 1..n PROVE Rank(S, key, t[k]) = k - 1
  <2> DEFINE earlier == 1..(k - 1)
             u == [j \in earlier |-> t[j]]
             T == Before(S, key, t[k])
  <2>1. u \in Surjection(earlier, T)
    <3>1. \A j \in earlier : j \in 1..n /\ j < k
      OBVIOUS
    <3>2. u \in [earlier -> T]
      BY <3>1 DEF Before
    <3>3. ASSUME NEW y \in T PROVE \E j \in earlier : u[j] = y
      <4>1. y \in S /\ key[y] < key[t[k]]
        BY DEF Before
      <4>2. PICK j \in 1..n : t[j] = y
        BY <4>1
      <4>3. j < k
        BY <1>2, <4>1, <4>2
      <4> QED BY <4>2, <4>3
    <3> QED BY <3>2, <3>3 DEF Surjection
  <2>2. u \in Injection(earlier, T)
    <3>1. u \in [earlier -> T]
      BY <2>1 DEF Surjection
    <3>2. \A i, j \in earlier : u[i] = u[j] => i = j
      BY <1>2
    <3> QED BY <3>1, <3>2 DEF Injection, IsInjective
  <2>3. IsFiniteSet(earlier) /\ Cardinality(earlier) = k - 1
    <3>1. k - 1 \in Int
      OBVIOUS
    <3>2. IsFiniteSet(earlier) /\ Cardinality(earlier) = IF 1 > k - 1 THEN 0 ELSE (k - 1) - 1 + 1
      BY <3>1, FS_Interval
    <3> QED BY <3>2
  <2>4. Cardinality(T) = Cardinality(earlier)
    <3> HIDE DEF earlier, u, T
    <3> QED BY <2>1, <2>2, <2>3, FS_Surjection
  <2> QED BY <2>3, <2>4 DEF Rank
<1>4. n = Cardinality(S)
  <2>1. t \in Surjection(1..n, S)
    BY DEF Surjection
  <2>2. t \in Injection(1..n, S)
    BY <1>2 DEF Injection, IsInjective
  <2>3. IsFiniteSet(1..n) /\ Cardinality(1..n) = n
    <3>1. IsFiniteSet(1..n) /\ Cardinality(1..n) = IF 1 > n THEN 0 ELSE n - 1 + 1
      BY FS_Interval
    <3> QED BY <3>1
  <2> QED BY <2>1, <2>2, <2>3, FS_Surjection
<1>5. s \in [1..n -> S] /\ \A k \in 1..n : Rank(S, key, s[k]) = k - 1
  BY <1>4, InOrderLists
<1> HIDE DEF s
<1>6. \A k \in 1..n : t[k] = s[k]
  <2> SUFFICES ASSUME NEW k \in 1..n PROVE t[k] = s[k]
    OBVIOUS
  <2>1. t[k] \in S /\ s[k] \in S /\ Rank(S, key, t[k]) = Rank(S, key, s[k])
    BY <1>3, <1>5
  <2> QED BY <2>1, RanksAreOneToOne
<1>7. t = s
  BY <1>5, <1>6
<1> QED BY <1>7 DEF s

-------------------------------------------------------------------------------
(***************************************************************************)
(* The counters.                                                           *)
(***************************************************************************)

\* A list that is written as a function of the numbers up to n has the length n.
LEMMA ListLength ==
  ASSUME NEW n \in Nat, NEW s, s = [k \in 1..n |-> s[k]]
  PROVE  s \in Seq({s[k] : k \in 1..n}) /\ Len(s) = n
<1>1. s \in [1..n -> {s[k] : k \in 1..n}]
  OBVIOUS
<1> QED BY <1>1

LEMMA OutcomeIsKnown ==
  ASSUME NEW r, NEW p, NEW context
  PROVE  Outcome(r, p, context) \in Stages \cup {"match"}
BY DEF Outcome, Stages

\* Two disjoint finite sets.
LEMMA DisjointCount ==
  ASSUME NEW S, NEW T, IsFiniteSet(S), IsFiniteSet(T), S \cap T = {}
  PROVE  IsFiniteSet(S \cup T) /\ Cardinality(S \cup T) = Cardinality(S) + Cardinality(T)
<1>1. Cardinality(S \cap T) = 0
  BY FS_EmptySet
<1>2. IsFiniteSet(S \cup T) /\ Cardinality(S \cup T) = Cardinality(S) + Cardinality(T) - Cardinality(S \cap T)
  BY FS_Union
<1>3. Cardinality(S) \in Nat /\ Cardinality(T) \in Nat
  BY FS_CardinalityType
<1> QED BY <1>1, <1>2, <1>3

\* Every candidate has one outcome.
LEMMA TalliesAddUp ==
  ASSUME NEW c, NEW n \in Nat, DOMAIN c = 1..n, NEW p, NEW context
  PROVE  /\ \A o : Tally(c, p, context, o) \in Nat
         /\ n = Tally(c, p, context, "header") + Tally(c, p, context, "flow") + Tally(c, p, context, "packet")
                  + Tally(c, p, context, "content") + Tally(c, p, context, "match")
<1> DEFINE With(o) == {i \in 1..n : Outcome(c[i], p, context) = o}
<1>1. IsFiniteSet(1..n) /\ Cardinality(1..n) = n
  <2>1. IsFiniteSet(1..n) /\ Cardinality(1..n) = IF 1 > n THEN 0 ELSE n - 1 + 1
    BY FS_Interval
  <2> QED BY <2>1
<1>2. \A o : With(o) \subseteq 1..n
  OBVIOUS
<1>3. \A o : IsFiniteSet(With(o)) /\ Cardinality(With(o)) \in Nat
  <2> HIDE DEF With
  <2> QED BY <1>1, <1>2, FS_Subset, FS_CardinalityType
<1>4. \A o : Tally(c, p, context, o) = Cardinality(With(o))
  BY Zenon DEF Tally
<1>5. \A o, q : o # q => With(o) \cap With(q) = {}
  OBVIOUS
<1>6. 1..n = (((With("header") \cup With("flow")) \cup With("packet")) \cup With("content")) \cup With("match")
  <2>1. \A i \in 1..n : Outcome(c[i], p, context) \in {"header", "flow", "packet", "content", "match"}
    BY OutcomeIsKnown DEF Stages
  <2> QED BY <2>1
<1> HIDE DEF With
<1> DEFINE A == With("header") \cup With("flow")
           B == A \cup With("packet")
           C == B \cup With("content")
<1>7. /\ With("header") \cap With("flow") = {} /\ A \cap With("packet") = {} /\ B \cap With("content") = {}
      /\ C \cap With("match") = {}
  BY <1>5
<1>8. IsFiniteSet(A) /\ Cardinality(A) = Cardinality(With("header")) + Cardinality(With("flow"))
  BY <1>3, <1>7, DisjointCount
<1>9. IsFiniteSet(B) /\ Cardinality(B) = Cardinality(A) + Cardinality(With("packet"))
  <2> HIDE DEF A
  <2> QED BY <1>3, <1>7, <1>8, DisjointCount
<1>10. IsFiniteSet(C) /\ Cardinality(C) = Cardinality(B) + Cardinality(With("content"))
  <2> HIDE DEF B
  <2> QED BY <1>3, <1>7, <1>9, DisjointCount
<1>11. Cardinality(1..n) = Cardinality(C) + Cardinality(With("match"))
  <2>1. 1..n = C \cup With("match")
    BY <1>6
  <2> HIDE DEF C
  <2> QED BY <1>3, <1>7, <1>10, <2>1, DisjointCount
<1> HIDE DEF A, B, C
<1> QED BY <1>1, <1>3, <1>4, <1>8, <1>9, <1>10, <1>11

\* The places of the candidates that match.
Hits(c, n, p, context) == {i \in 1..n : Outcome(c[i], p, context) = "match"}

\* The matches are the candidates that match, in the order of the candidates.
LEMMA MatchesAreListed ==
  ASSUME NEW c, NEW n \in Nat, DOMAIN c = 1..n, NEW p, NEW context
  PROVE  /\ Tally(c, p, context, "match") \in Nat
         /\ Len(Matching(c, p, context)) = Tally(c, p, context, "match")
         /\ \E places \in [1..Tally(c, p, context, "match") -> Hits(c, n, p, context)] :
              /\ Matching(c, p, context) = [k \in 1..Tally(c, p, context, "match") |-> c[places[k]]]
              /\ \A j, k \in 1..Tally(c, p, context, "match") : j < k => places[j] < places[k]
              /\ \A i \in Hits(c, n, p, context) : \E k \in 1..Tally(c, p, context, "match") : places[k] = i
<1> DEFINE hits == Hits(c, n, p, context)
           m == Tally(c, p, context, "match")
           own == [i \in hits |-> i]
           places == InOrder(hits, own)
           matches == Matching(c, p, context)
<1>1. Keyed(hits, own)
  <2>1. IsFiniteSet(1..n) /\ hits \subseteq 1..n
    BY FS_Interval DEF Hits
  <2>2. IsFiniteSet(hits)
    BY <2>1, FS_Subset
  <2> QED BY <2>1, <2>2 DEF Keyed
<1>2. m = Cardinality(hits)
  BY Zenon DEF Tally, Hits
<1>3. matches = [k \in DOMAIN places |-> c[places[k]]]
  BY Zenon DEF Matching, Hits
<1>4. own \in [hits -> hits] /\ \A i \in hits : own[i] = i
  OBVIOUS
<1> HIDE DEF hits, own, m, matches
<1>5. /\ m \in Nat /\ places \in [1..m -> hits]
      /\ \A j, k \in 1..m : j < k => own[places[j]] < own[places[k]]
      /\ \A i \in hits : \E k \in 1..m : places[k] = i
  BY <1>1, <1>2, InOrderLists
<1> HIDE DEF places
<1>6. matches = [k \in 1..m |-> c[places[k]]]
  BY <1>3, <1>5
<1>7. matches = [k \in 1..m |-> matches[k]]
  BY <1>6
<1>8. Len(matches) = m
  BY <1>5, <1>7, ListLength
<1>9. \A j, k \in 1..m : j < k => places[j] < places[k]
  BY <1>4, <1>5
<1> QED BY <1>5, <1>6, <1>8, <1>9 DEF hits, m, matches

\* The four stages of the summary.
LEMMA StagesTotal ==
  ASSUME NEW w, \A s \in Stages : w[s] \in Nat
  PROVE  Total(w, Stages) = w["header"] + w["flow"] + w["packet"] + w["content"]
<1> DEFINE A == {"header"}
           B == A \cup {"flow"}
           C == B \cup {"packet"}
           D == C \cup {"content"}
<1>1. /\ w["header"] \in Nat /\ w["flow"] \in Nat /\ w["packet"] \in Nat /\ w["content"] \in Nat
      /\ \A s \in D : w[s] \in Nat
  BY DEF Stages
<1>2. A \subseteq D /\ B \subseteq D /\ C \subseteq D /\ "flow" \notin A /\ "packet" \notin B /\ "content" \notin C
  OBVIOUS
<1>3. Total(w, A) = w["header"] /\ IsFiniteSet(A)
  BY <1>1, TotalSingleton, FS_Singleton
<1> HIDE DEF A
<1>4. Total(w, B) = w["header"] + w["flow"] /\ IsFiniteSet(B)
  BY <1>1, <1>2, <1>3, TotalAdd, FS_AddElement
<1> HIDE DEF B
<1>5. Total(w, C) = w["header"] + w["flow"] + w["packet"] /\ IsFiniteSet(C)
  BY <1>1, <1>2, <1>4, TotalAdd, FS_AddElement
<1> HIDE DEF C
<1>6. Total(w, D) = w["header"] + w["flow"] + w["packet"] + w["content"]
  BY <1>1, <1>2, <1>5, TotalAdd
<1>7. Stages = D
  BY DEF Stages, A, B, C
<1> QED BY <1>6, <1>7

-------------------------------------------------------------------------------
(***************************************************************************)
(* The engine at work.                                                     *)
(***************************************************************************)

\* The index holds nothing but the rules.
IndexHoldsRules ==
  /\ IsFiniteSet(rules)
  /\ ipRules \subseteq rules
  /\ \A q \in Indexed : wildcard[q] \subseteq rules /\ \A f \in byPort[q] : f[2] \in rules

\* Nothing is loaded any more when the first record comes.
Settled ==
  /\ ready => IsIndexed
  /\ last.record # {} => ready
  /\ \A p \in last.record : p \in Records /\ p.kept

\* The counters, with the numbers that they are compared with.
Counters ==
  /\ counts \in [evaluated : Nat, candidates : Nat, rejected : [Stages -> Nat], matches : Nat, errors : Nat]
  /\ kept \in Nat /\ written \in Nat

\* CountersAddUp, with its sum as Total.
Sums ==
  /\ counts.candidates = Total(counts.rejected, Stages) + counts.matches
  /\ counts.evaluated <= kept /\ kept <= counts.evaluated + counts.errors
  /\ written <= counts.matches /\ (counts.errors = 0 => written = counts.matches)

LEMMA SumsAddUp == Sums => CountersAddUp
BY Zenon DEF Sums, CountersAddUp, Total

AtWork == IndexHoldsRules /\ Settled /\ Counters /\ Sums

LEMMA StagesAreFinite == IsFiniteSet(Stages)
<1>1. Stages = (({"header"} \cup {"flow"}) \cup {"packet"}) \cup {"content"}
  BY DEF Stages
<1>2. IsFiniteSet({"header"})
  BY FS_Singleton
<1>3. \A S, x : IsFiniteSet(S) => IsFiniteSet(S \cup {x})
  BY FS_AddElement
<1> QED BY <1>1, <1>2, <1>3, Zenon

LEMMA InitAtWork == Init => AtWork
<1> SUFFICES ASSUME Init PROVE AtWork
  OBVIOUS
<1>1. IndexHoldsRules /\ Settled
  BY FS_EmptySet DEF Init, IndexHoldsRules, Settled
<1>2. Counters
  BY DEF Init, Counters
<1>3. Total(counts.rejected, Stages) = 0
  <2>1. counts.rejected = [s \in Stages |-> 0]
    BY DEF Init
  <2>2. \A s \in Stages : counts.rejected[s] = 0
    BY <2>1
  <2>3. IsFiniteSet(Stages)
    BY StagesAreFinite
  <2> QED BY <2>2, <2>3, TotalZero
<1>4. Sums
  <2>1. counts.candidates = 0 /\ counts.matches = 0 /\ counts.evaluated = 0 /\ kept = 0 /\ counts.errors = 0 /\ written = 0
    BY DEF Init
  <2> QED BY <1>3, <2>1 DEF Sums
<1> QED BY <1>1, <1>2, <1>4 DEF AtWork

\* Loading leaves the counters alone and comes before the engine is ready.
LEMMA LoadingStep ==
  ASSUME IInv, Settled, ReadFile \/ IndexLine
  PROVE  ~ready /\ UNCHANGED <<report, ready, evaluator>>
<1>1. ~IsIndexed /\ UNCHANGED <<report, ready, evaluator>>
  <2>1. CASE ReadFile
    BY <2>1 DEF ReadFile, IsIndexed
  <2>2. ASSUME NEW e, LookAt(e)
        PROVE  ~IsIndexed /\ UNCHANGED <<report, ready, evaluator>>
    <3>1. next <= Len(lines) /\ UNCHANGED <<report, ready, evaluator>>
      BY <2>2 DEF LookAt
    <3>2. next \in Nat /\ Len(lines) \in Nat
      BY DEF IInv, Reading
    <3> QED BY <3>1, <3>2 DEF IsIndexed
  <2>3. CASE IndexLine
    BY <2>2, <2>3 DEF IndexLine, SkipLine, RejectDuplicate, RejectDisabled, AddRule
  <2> QED BY <2>1, <2>3
<1> QED BY <1>1 DEF Settled

\* Loading keeps the index to the rules.
LEMMA LoadingKeepsIndex ==
  ASSUME IndexHoldsRules, ReadFile \/ IndexLine
  PROVE  IndexHoldsRules'
<1>1. CASE UNCHANGED <<rules, ipRules, byPort, wildcard>>
  BY <1>1 DEF IndexHoldsRules
<1>2. ASSUME NEW e, AddRule(e) PROVE IndexHoldsRules'
  <2> DEFINE r == RuleLine(e).rule
  <2>1. /\ rules' = rules \cup {r}
        /\ ipRules' = IF r.protocol = "ip" THEN ipRules \cup {r} ELSE ipRules
        /\ \A q \in Indexed : byPort'[q] =
             byPort[q] \cup IF q = r.protocol THEN {<<port, r>> : port \in SinglePorts(r)} ELSE {}
        /\ \A q \in Indexed : wildcard'[q] =
             wildcard[q] \cup IF q = r.protocol /\ SinglePorts(r) = {} THEN {r} ELSE {}
    BY <1>2 DEF AddRule
  <2> HIDE DEF r
  <2>2. IsFiniteSet(rules')
    BY <2>1, FS_AddElement DEF IndexHoldsRules
  <2>3. ipRules' \subseteq rules'
    BY <2>1 DEF IndexHoldsRules
  <2>4. \A q \in Indexed : wildcard'[q] \subseteq rules'
    BY <2>1 DEF IndexHoldsRules
  <2>5. ASSUME NEW q \in Indexed, NEW f \in byPort'[q] PROVE f[2] \in rules'
    <3>1. CASE f \in byPort[q]
      BY <2>1, <3>1 DEF IndexHoldsRules
    <3>2. CASE f \notin byPort[q]
      <4>1. PICK port \in SinglePorts(r) : f = <<port, r>>
        BY <2>1, <3>2
      <4> QED BY <2>1, <4>1
    <3> QED BY <3>1, <3>2
  <2> QED BY <2>2, <2>3, <2>4, <2>5 DEF IndexHoldsRules
<1>3. IndexLine => UNCHANGED <<rules, ipRules, byPort, wildcard>> \/ \E e \in {lines[i] : i \in DOMAIN lines} : AddRule(e)
  BY DEF IndexLine, SkipLine, RejectDuplicate, RejectDisabled
<1> QED BY <1>1, <1>2, <1>3 DEF ReadFile

\* The candidates are rules.
LEMMA CandidatesAreRules ==
  ASSUME IndexHoldsRules, NEW p \in Records, p.kept
  PROVE  CandidateSet(p) \subseteq rules /\ IsFiniteSet(CandidateSet(p))
<1>1. IndexOf[p.protocol] \in Indexed
  BY KeptRecordsAreWhole DEF IndexOf, Indexed
<1>2. CandidateSet(p) \subseteq rules
  BY <1>1 DEF IndexHoldsRules, CandidateSet
<1> QED BY <1>2, FS_Subset DEF IndexHoldsRules

\* How long the list of candidates is.
LEMMA CandidatesAreListed ==
  ASSUME IndexHoldsRules, NEW p \in Records, p.kept
  PROVE  /\ Cardinality(CandidateSet(p)) \in Nat /\ DOMAIN Candidates(p) = 1..Cardinality(CandidateSet(p))
         /\ Len(Candidates(p)) = Cardinality(CandidateSet(p))
<1> DEFINE C == CandidateSet(p)
           n == Cardinality(C)
           c == Candidates(p)
<1>1. n \in Nat
  BY CandidatesAreRules, FS_CardinalityType
<1>2. DOMAIN c = 1..n /\ c = [k \in 1..n |-> c[k]]
  <2> DEFINE at(k) == CHOOSE x \in C : Cardinality({y \in C : [r \in C |-> r.sid][y] < [r \in C |-> r.sid][x]}) = k - 1
  <2>1. c = [k \in 1..n |-> at(k)]
    BY Zenon DEF Candidates, BySid, InOrder
  <2> HIDE DEF at, c, n
  <2> QED BY <2>1
<1> HIDE DEF n, c
<1>3. Len(c) = n
  BY <1>1, <1>2, ListLength
<1> QED BY <1>1, <1>2, <1>3 DEF n, c

\* A record that is checked: its candidates are the rules rejected at each stage and the matches.
LEMMA CheckAddsUp ==
  ASSUME AtWork, NEW p \in Records, NEW context, NEW n \in Nat, Check(p, context, n)
  PROVE  Counters' /\ Sums'
<1> DEFINE c == Candidates(p)
           matches == Matching(c, p, context)
           tally(o) == Tally(c, p, context, o)
           rejections == [s \in Stages |-> counts.rejected[s] + tally(s)]
<1>1. /\ p.kept /\ n <= Len(matches) /\ kept' = kept + 1 /\ written' = written + n
      /\ counts' = [evaluated |-> counts.evaluated + 1,
                    candidates |-> counts.candidates + Len(c),
                    rejected |-> rejections,
                    matches |-> counts.matches + Len(matches),
                    errors |-> counts.errors + IF n < Len(matches) THEN 1 ELSE 0]
  BY DEF Check, GivenTo
<1>2. Len(c) \in Nat /\ DOMAIN c = 1..Len(c)
  BY <1>1, CandidatesAreListed DEF AtWork
<1>3. /\ \A o : tally(o) \in Nat
      /\ Len(c) = tally("header") + tally("flow") + tally("packet") + tally("content") + tally("match")
  <2> HIDE DEF c
  <2> QED BY <1>2, TalliesAddUp
<1>4. Len(matches) = tally("match")
  <2> HIDE DEF c
  <2> QED BY <1>2, MatchesAreListed
<1> HIDE DEF c, matches, tally
<1>5. /\ counts.evaluated \in Nat /\ counts.candidates \in Nat /\ counts.matches \in Nat /\ counts.errors \in Nat
      /\ kept \in Nat /\ written \in Nat /\ counts.rejected \in [Stages -> Nat]
  BY DEF AtWork, Counters
<1>6. rejections \in [Stages -> Nat]
  <2>1. ASSUME NEW s \in Stages PROVE counts.rejected[s] + tally(s) \in Nat
    <3>1. counts.rejected[s] \in Nat
      BY <1>5
    <3>2. tally(s) \in Nat
      BY <1>3
    <3> QED BY <3>1, <3>2
  <2> QED BY <2>1
<1>7. Counters'
  <2>1. Len(c) \in Nat /\ Len(matches) \in Nat
    BY <1>2, <1>3, <1>4
  <2> HIDE DEF rejections
  <2>2. /\ counts' \in [evaluated : Nat, candidates : Nat, rejected : [Stages -> Nat], matches : Nat, errors : Nat]
        /\ kept' \in Nat /\ written' \in Nat
    <3>1. /\ counts.evaluated + 1 \in Nat /\ counts.candidates + Len(c) \in Nat
          /\ counts.matches + Len(matches) \in Nat
      BY <1>5, <2>1
    <3>2. /\ (counts.errors + IF n < Len(matches) THEN 1 ELSE 0) \in Nat
          /\ kept + 1 \in Nat /\ written + n \in Nat
      BY <1>5, <2>1
    <3> QED BY <1>1, <1>6, <3>1, <3>2
  <2> QED BY <2>2 DEF Counters
<1>8. Total(rejections, Stages)
        = Total(counts.rejected, Stages) + tally("header") + tally("flow") + tally("packet") + tally("content")
  <2>1. /\ Total(rejections, Stages)
             = rejections["header"] + rejections["flow"] + rejections["packet"] + rejections["content"]
        /\ Total(counts.rejected, Stages)
             = counts.rejected["header"] + counts.rejected["flow"] + counts.rejected["packet"]
                 + counts.rejected["content"]
    <3> HIDE DEF rejections
    <3> QED BY <1>5, <1>6, StagesTotal
  <2>2. \A s \in {"header", "flow", "packet", "content"} :
          rejections[s] = counts.rejected[s] + tally(s) /\ counts.rejected[s] \in Nat /\ tally(s) \in Nat
    BY <1>3, <1>5 DEF Stages
  <2> HIDE DEF rejections
  <2> QED BY <2>1, <2>2
<1>9. Total(counts.rejected, Stages) \in Nat
  BY <1>5, StagesAreFinite, TotalIsNat
<1>10. /\ counts.candidates = Total(counts.rejected, Stages) + counts.matches
       /\ counts.evaluated <= kept /\ kept <= counts.evaluated + counts.errors
       /\ written <= counts.matches /\ (counts.errors = 0 => written = counts.matches)
  BY DEF AtWork, Sums
<1>11. /\ counts'.candidates = counts.candidates + Len(c) /\ counts'.rejected = rejections
       /\ counts'.matches = counts.matches + Len(matches) /\ counts'.evaluated = counts.evaluated + 1
       /\ counts'.errors = counts.errors + IF n < Len(matches) THEN 1 ELSE 0
  BY <1>1
<1>12. counts'.candidates = Total(counts'.rejected, Stages) + counts'.matches
  <2> DEFINE before == Total(counts.rejected, Stages)
             after == Total(rejections, Stages)
  <2>1. /\ tally("header") \in Nat /\ tally("flow") \in Nat /\ tally("packet") \in Nat
        /\ tally("content") \in Nat /\ tally("match") \in Nat
    BY <1>3
  <2>2. /\ counts.candidates = before + counts.matches /\ before \in Nat
        /\ after = before + tally("header") + tally("flow") + tally("packet") + tally("content")
    BY <1>8, <1>9, <1>10
  <2>3. counts.candidates + Len(c) = after + (counts.matches + Len(matches))
    <3> DEFINE h == tally("header")
               f == tally("flow")
               q == tally("packet")
               o == tally("content")
               m == tally("match")
               old == counts.matches
    <3>1. h \in Nat /\ f \in Nat /\ q \in Nat /\ o \in Nat /\ m \in Nat /\ old \in Nat
      BY <1>5, <2>1
    <3>2. Len(c) = h + f + q + o + m /\ Len(matches) = m
      BY <1>3, <1>4
    <3>3. counts.candidates = before + old /\ before \in Nat /\ after = before + h + f + q + o
      BY <2>2
    <3> HIDE DEF before, after, h, f, q, o, m, old
    <3>4. (before + old) + (h + f + q + o + m) = (before + h + f + q + o) + (old + m)
      BY <3>1, <3>3
    <3>5. counts.candidates + Len(c) = after + (old + Len(matches))
      BY <3>2, <3>3, <3>4
    <3> QED BY <3>5 DEF old
  <2> QED BY <1>11, <2>3
<1>13. /\ counts'.evaluated <= kept' /\ kept' <= counts'.evaluated + counts'.errors
       /\ written' <= counts'.matches /\ (counts'.errors = 0 => written' = counts'.matches)
  <2> DEFINE m == Len(matches)
  <2>1. m \in Nat /\ n <= m
    BY <1>1, <1>3, <1>4
  <2>2. /\ kept' = kept + 1 /\ written' = written + n /\ counts'.evaluated = counts.evaluated + 1
        /\ counts'.matches = counts.matches + m
        /\ counts'.errors = IF n < m THEN counts.errors + 1 ELSE counts.errors
    <3>1. counts.errors + 0 = counts.errors
      BY <1>5
    <3> QED BY <1>1, <1>11, <3>1
  <2> HIDE DEF m
  <2> QED BY <1>5, <1>10, <2>1, <2>2
<1>14. Sums'
  BY <1>12, <1>13 DEF Sums
<1> QED BY <1>7, <1>14

\* Every step keeps the accounts.
LEMMA StepKeepsWork == IInv /\ AtWork /\ [Next]_vars => AtWork'
<1> SUFFICES ASSUME IInv, AtWork, [Next]_vars
             PROVE  AtWork'
  OBVIOUS
<1>1. CASE ReadFile \/ IndexLine
  <2>1. ~ready /\ ready' = ready /\ UNCHANGED <<records, kept, counts, written, last>>
    BY <1>1, LoadingStep DEF AtWork, evaluator
  <2>2. IndexHoldsRules'
    BY <1>1, LoadingKeepsIndex DEF AtWork
  <2>3. Settled' /\ Counters' /\ Sums'
    BY <2>1 DEF AtWork, Settled, Counters, Sums
  <2> QED BY <2>2, <2>3 DEF AtWork
<1>2. CASE WriteReport
  <2>1. /\ IsIndexed /\ UNCHANGED <<files, lines, next, rules, ipRules, byPort, wildcard>>
        /\ UNCHANGED <<kept, counts, written, last>> /\ ready'
    BY <1>2 DEF WriteReport, repository, evaluator
  <2>2. IndexHoldsRules'
    BY <2>1 DEF AtWork, IndexHoldsRules
  <2>3. Settled' /\ Counters' /\ Sums'
    BY <2>1 DEF AtWork, Settled, Counters, Sums, IsIndexed
  <2> QED BY <2>2, <2>3 DEF AtWork
<1>3. ASSUME NEW p \in Records, GivenTo(p)
      PROVE  /\ IndexHoldsRules' /\ ready /\ ready' = ready /\ (IsIndexed <=> IsIndexed')
             /\ kept' = IF p.kept THEN kept + 1 ELSE kept
  <2>1. /\ UNCHANGED <<files, lines, next, rules, ipRules, byPort, wildcard, ready>> /\ ready
        /\ kept' = IF p.kept THEN kept + 1 ELSE kept
    BY <1>3 DEF GivenTo, repository
  <2> QED BY <2>1 DEF AtWork, IndexHoldsRules, IsIndexed
<1>4. ASSUME NEW p \in Records, Ignore(p)
      PROVE  AtWork'
  <2>1. UNCHANGED <<kept, counts, written, last>>
    BY <1>3, <1>4 DEF Ignore
  <2>2. Settled' /\ Counters' /\ Sums'
    BY <1>3, <1>4, <2>1 DEF Ignore, AtWork, Settled, Counters, Sums
  <2> QED BY <1>3, <1>4, <2>2 DEF AtWork, Ignore
<1>5. ASSUME NEW p \in Records, CheckFails(p)
      PROVE  AtWork'
  <2>1. /\ kept' = kept + 1 /\ UNCHANGED <<written, last>>
        /\ counts' = [counts EXCEPT !.errors = @ + 1]
    BY <1>3, <1>5 DEF CheckFails
  <2>2. Settled'
    BY <1>3, <1>5, <2>1 DEF CheckFails, AtWork, Settled
  <2>3. /\ counts \in [evaluated : Nat, candidates : Nat, rejected : [Stages -> Nat], matches : Nat, errors : Nat]
        /\ kept \in Nat /\ written \in Nat
    BY DEF AtWork, Counters
  <2>4. Counters'
    BY <2>1, <2>3 DEF Counters
  <2>5. /\ counts'.evaluated = counts.evaluated /\ counts'.candidates = counts.candidates
        /\ counts'.rejected = counts.rejected /\ counts'.matches = counts.matches
        /\ counts'.errors = counts.errors + 1
    BY <2>1, <2>3
  <2>6. /\ counts.candidates = Total(counts.rejected, Stages) + counts.matches
        /\ counts.evaluated <= kept /\ kept <= counts.evaluated + counts.errors
        /\ written <= counts.matches /\ (counts.errors = 0 => written = counts.matches)
    BY DEF AtWork, Sums
  <2>7. /\ counts'.candidates = Total(counts'.rejected, Stages) + counts'.matches
        /\ counts'.evaluated <= kept' /\ kept' <= counts'.evaluated + counts'.errors
        /\ written' <= counts'.matches /\ (counts'.errors = 0 => written' = counts'.matches)
    BY <2>1, <2>3, <2>5, <2>6
  <2>8. Sums'
    BY <2>7 DEF Sums
  <2> QED BY <1>3, <1>5, <2>2, <2>4, <2>8 DEF AtWork, CheckFails
<1>6. ASSUME NEW p \in Records, NEW context \in Flows, NEW n \in 0..Cardinality(rules), Check(p, context, n)
      PROVE  AtWork'
  <2>1. last'.record = {p} /\ p.kept
    BY <1>6 DEF Check
  <2>2. Settled'
    BY <1>3, <1>6, <2>1 DEF Check, AtWork, Settled
  <2>3. n \in Nat
    OBVIOUS
  <2> QED BY <1>3, <1>6, <2>2, <2>3, CheckAddsUp DEF AtWork, Check
<1>7. CASE UNCHANGED vars
  <2>1. /\ UNCHANGED <<files, lines, next, rules, ipRules, byPort, wildcard, ready>>
        /\ UNCHANGED <<kept, counts, written, last>>
    BY <1>7 DEF vars, repository, evaluator
  <2> QED BY <2>1 DEF AtWork, IndexHoldsRules, Settled, IsIndexed, Counters, Sums
<1> QED BY <1>1, <1>2, <1>4, <1>5, <1>6, <1>7 DEF Next, Load, Evaluate

LEMMA WorkInvariance == Spec => []AtWork
<1> QED BY Invariance, InitAtWork, StepKeepsWork, PTL DEF Spec

\* The summary of the engine adds up, at every moment and through every error (Evaluator.evaluate,
\* _write_matches): candidates are rejections or matches, kept records are evaluated or errors.
THEOREM CountersAgree == Spec => []CountersAddUp
<1>1. AtWork => CountersAddUp
  BY SumsAddUp DEF AtWork
<1> QED BY WorkInvariance, <1>1, PTL

-------------------------------------------------------------------------------
(***************************************************************************)
(* The rules report.                                                       *)
(***************************************************************************)

\* Line i is a valid line that the engine does not use.
Refused(i) == IsValid(i) /\ DocumentedStatus(i) # "valid"

\* The repository has rejected these lines, each with the status that README gives it, and no others.
RefusedAreRejected ==
  /\ rejected \in Seq([file : DOMAIN RuleFiles, number : Nat, status : {"invalid", "disabled"}])
  /\ \A k \in DOMAIN rejected : \E i \in 1..(next - 1) :
       Refused(i) /\ rejected[k] = Rejection(lines[i], DocumentedStatus(i))
  /\ \A i \in 1..(next - 1) : Refused(i) =>
       \E k \in DOMAIN rejected : rejected[k] = Rejection(lines[i], DocumentedStatus(i))

\* What is due at the next line is decided by the sids seen.
LEMMA RefusedSeen ==
  ASSUME Reading, SeenSids, next \in 1..Len(lines)
  PROVE  /\ Refused(next) <=> IsValid(next) /\ Sid(next) \in seen \cup disabled
         /\ Refused(next) => DocumentedStatus(next) = IF Sid(next) \in seen THEN "invalid" ELSE "disabled"
<1>1. IsValid(next) => (FirstOfItsSid(next) <=> Sid(next) \notin seen)
  BY DEF FirstOfItsSid, SeenSids
<1> QED BY <1>1 DEF Refused, DocumentedStatus

\* A step that looks at line e keeps the rejected lines right if it adds what is due.
LEMMA LookKeepsRejected ==
  ASSUME IInv, RefusedAreRejected, NEW e, LookAt(e),
         rejected' = IF Refused(next) THEN Append(rejected, Rejection(e, DocumentedStatus(next))) ELSE rejected
  PROVE  RefusedAreRejected'
<1> DEFINE Kind == [file : DOMAIN RuleFiles, number : Nat, status : {"invalid", "disabled"}]
           entry(i) == Rejection(lines[i], DocumentedStatus(i))
<1>1. /\ lines' = lines /\ disabled' = disabled /\ next' = next + 1 /\ next \in 1..Len(lines)
      /\ e = lines[next] /\ e \in LineRef
  BY LookStep DEF IInv
<1>2. 1..(next' - 1) = 1..(next - 1) \cup {next}
  BY <1>1
<1>3. \A i : Refused(i)' = Refused(i) /\ entry(i)' = entry(i)
  <2>1. \A i : IsValid(i)' = IsValid(i) /\ DocumentedStatus(i)' = DocumentedStatus(i)
    BY <1>1 DEF IsValid, Sid, DocumentedStatus, FirstOfItsSid, RuleLine
  <2> QED BY <1>1, <2>1 DEF Refused, Rejection
<1>4. Refused(next) => entry(next) \in Kind
  <2>1. Refused(next) => DocumentedStatus(next) \in {"invalid", "disabled"}
    BY <1>1, RefusedSeen DEF IInv
  <2> QED BY <1>1, <2>1 DEF Rejection, LineRef
<1>5. /\ rejected \in Seq(Kind)
      /\ \A k \in DOMAIN rejected : \E i \in 1..(next - 1) : Refused(i) /\ rejected[k] = entry(i)
      /\ \A i \in 1..(next - 1) : Refused(i) => \E k \in DOMAIN rejected : rejected[k] = entry(i)
  BY DEF RefusedAreRejected
<1>6. rejected' = IF Refused(next) THEN Append(rejected, entry(next)) ELSE rejected
  BY <1>1
<1> HIDE DEF entry, Kind
<1>7. /\ rejected' \in Seq(Kind)
      /\ \A k \in DOMAIN rejected' : \E i \in 1..(next' - 1) : Refused(i) /\ rejected'[k] = entry(i)
      /\ \A i \in 1..(next' - 1) : Refused(i) => \E k \in DOMAIN rejected' : rejected'[k] = entry(i)
  <2>1. CASE ~Refused(next)
    BY <1>2, <1>5, <1>6, <2>1
  <2>2. CASE Refused(next)
    <3> DEFINE n == Len(rejected)
    <3>1. /\ rejected' \in Seq(Kind) /\ n \in Nat
          /\ DOMAIN rejected = 1..n /\ DOMAIN rejected' = 1..(n + 1)
          /\ \A k \in 1..n : rejected'[k] = rejected[k]
          /\ rejected'[n + 1] = entry(next)
      BY <1>4, <1>5, <1>6, <2>2
    <3> HIDE DEF n
    <3>2. ASSUME NEW k \in DOMAIN rejected' PROVE \E i \in 1..(next' - 1) : Refused(i) /\ rejected'[k] = entry(i)
      <4>1. CASE k = n + 1
        BY <1>2, <2>2, <3>1, <4>1
      <4>2. CASE k # n + 1
        <5>1. k \in 1..n
          BY <3>1, <4>2
        <5> QED BY <1>2, <1>5, <3>1, <5>1
      <4> QED BY <4>1, <4>2
    <3>3. ASSUME NEW i \in 1..(next' - 1), Refused(i) PROVE \E k \in DOMAIN rejected' : rejected'[k] = entry(i)
      <4>1. CASE i = next
        <5>1. n + 1 \in DOMAIN rejected'
          BY <3>1
        <5> QED BY <3>1, <4>1, <5>1
      <4>2. CASE i # next
        <5>1. PICK k \in DOMAIN rejected : rejected[k] = entry(i)
          BY <1>2, <1>5, <3>3, <4>2
        <5>2. k \in DOMAIN rejected' /\ rejected'[k] = entry(i)
          BY <3>1, <5>1
        <5> QED BY <5>2
      <4> QED BY <4>1, <4>2
    <3> QED BY <3>1, <3>2, <3>3
  <2> QED BY <2>1, <2>2
<1>8. \A k \in DOMAIN rejected' : \E i \in 1..(next' - 1) : Refused(i)' /\ rejected'[k] = entry(i)'
  BY <1>3, <1>7
<1>9. \A i \in 1..(next' - 1) : Refused(i)' => \E k \in DOMAIN rejected' : rejected'[k] = entry(i)'
  BY <1>3, <1>7
<1> QED BY <1>7, <1>8, <1>9 DEF RefusedAreRejected, entry, Kind

LEMMA StepKeepsRejected == IInv /\ RefusedAreRejected /\ [Next]_vars => RefusedAreRejected'
<1> SUFFICES ASSUME IInv, RefusedAreRejected, [Next]_vars
             PROVE  RefusedAreRejected'
  OBVIOUS
<1>1. CASE ReadFile
  <2>1. next = 1 /\ next' = 1 /\ rejected' = rejected
    BY <1>1 DEF ReadFile, IInv, Reading
  <2>2. 1..(next - 1) = {} /\ 1..(next' - 1) = {}
    BY <2>1
  <2> QED BY <2>1, <2>2 DEF RefusedAreRejected
<1>2. ASSUME NEW e, LookAt(e)
      PROVE  /\ IsValid(next) <=> RuleLine(e).status = "valid"
             /\ Sid(next) = RuleLine(e).rule.sid
             /\ Refused(next) <=> IsValid(next) /\ Sid(next) \in seen \cup disabled
             /\ Refused(next) => DocumentedStatus(next) = IF Sid(next) \in seen THEN "invalid" ELSE "disabled"
  BY <1>2, LookStep, RefusedSeen DEF IInv, IsValid, Sid
<1>3. ASSUME NEW i \in DOMAIN lines, SkipLine(lines[i]) \/ AddRule(lines[i])
      PROVE  RefusedAreRejected'
  <2>1. LookAt(lines[i]) /\ rejected' = rejected
    BY <1>3 DEF SkipLine, AddRule
  <2>2. ~Refused(next)
    BY <1>2, <1>3, <2>1 DEF SkipLine, AddRule
  <2> QED BY <2>1, <2>2, LookKeepsRejected
<1>4. ASSUME NEW i \in DOMAIN lines, RejectDuplicate(lines[i]) \/ RejectDisabled(lines[i])
      PROVE  RefusedAreRejected'
  <2>1. LookAt(lines[i])
    BY <1>4 DEF RejectDuplicate, RejectDisabled
  <2>2. Refused(next) /\ rejected' = Append(rejected, Rejection(lines[i], DocumentedStatus(next)))
    BY <1>2, <1>4, <2>1 DEF RejectDuplicate, RejectDisabled
  <2> QED BY <2>1, <2>2, LookKeepsRejected
<1>5. ASSUME UNCHANGED repository
      PROVE  RefusedAreRejected'
  <2>1. UNCHANGED <<disabled, lines, next, rejected>>
    BY <1>5 DEF repository
  <2>2. \A i : Refused(i)' = Refused(i) /\ DocumentedStatus(i)' = DocumentedStatus(i)
    BY <2>1 DEF Refused, IsValid, Sid, DocumentedStatus, FirstOfItsSid, RuleLine
  <2> QED BY <2>1, <2>2 DEF RefusedAreRejected
<1>6. WriteReport \/ Evaluate \/ UNCHANGED vars => UNCHANGED repository
  BY DEF WriteReport, Evaluate, Ignore, CheckFails, Check, GivenTo, vars
<1> QED BY <1>1, <1>3, <1>4, <1>5, <1>6 DEF Next, Load, IndexLine

LEMMA InitRejected == Init => RefusedAreRejected
<1> SUFFICES ASSUME Init PROVE RefusedAreRejected
  OBVIOUS
<1>1. rejected = <<>> /\ next = 1 /\ 1..(next - 1) = {}
  BY DEF Init
<1> QED BY <1>1 DEF RefusedAreRejected

\* A line that no other one is the same as is found by its file and its number.
LEMMA StatusIsFound ==
  ASSUME IInv, RefusedAreRejected, IsIndexed, NoFileTwice, NEW i \in DOMAIN lines
  PROVE  ReportedStatus(lines[i]) = DocumentedStatus(i)
<1> DEFINE found == Rejections(lines[i])
<1>1. lines \in Seq(LineRef) /\ next = Len(lines) + 1
  BY DEF IInv, Reading, IsIndexed
<1>2. Len(lines) \in Nat /\ 1..(next - 1) = DOMAIN lines /\ \A j \in DOMAIN lines : lines[j] \in LineRef
  BY <1>1
<1>3. \A j \in DOMAIN lines : lines[j].file = lines[i].file /\ lines[j].number = lines[i].number => j = i
  <2> SUFFICES ASSUME NEW j \in DOMAIN lines, lines[j].file = lines[i].file, lines[j].number = lines[i].number
               PROVE  j = i
    OBVIOUS
  <2>1. lines[i] \in LineRef /\ lines[j] \in LineRef
    BY <1>2
  <2>2. lines[j] = lines[i]
    BY <2>1 DEF LineRef
  <2> QED BY <2>2 DEF NoFileTwice
<1>4. ASSUME NEW k \in found
      PROVE  Refused(i) /\ rejected[k].status = DocumentedStatus(i)
  <2>1. k \in DOMAIN rejected /\ rejected[k].file = lines[i].file /\ rejected[k].number = lines[i].number
    BY DEF Rejections
  <2>2. PICK j \in DOMAIN lines : Refused(j) /\ rejected[k] = Rejection(lines[j], DocumentedStatus(j))
    BY <1>2, <2>1 DEF RefusedAreRejected
  <2>3. j = i
    BY <1>3, <2>1, <2>2 DEF Rejection
  <2> QED BY <2>2, <2>3 DEF Rejection
<1>5. Refused(i) => found # {}
  <2> SUFFICES ASSUME Refused(i) PROVE found # {}
    OBVIOUS
  <2>1. PICK k \in DOMAIN rejected : rejected[k] = Rejection(lines[i], DocumentedStatus(i))
    BY <1>2 DEF RefusedAreRejected
  <2> QED BY <2>1 DEF Rejections, Rejection
<1>6. CASE found = {}
  <2>1. ReportedStatus(lines[i]) = RuleLine(lines[i]).status
    BY <1>6 DEF ReportedStatus
  <2>2. ~Refused(i)
    BY <1>5, <1>6
  <2> QED BY <2>1, <2>2 DEF Refused, DocumentedStatus, IsValid
<1>7. CASE found # {}
  <2>1. ReportedStatus(lines[i]) = rejected[Max(found)].status
    BY <1>7 DEF ReportedStatus
  <2>2. Len(rejected) \in Nat /\ found \subseteq 0..Len(rejected)
    BY DEF RefusedAreRejected, Rejections
  <2>3. Max(found) \in found
    <3> HIDE DEF found
    <3> QED BY <1>7, <2>2, MaxIsGreatest
  <2> QED BY <1>4, <2>1, <2>3
<1> QED BY <1>6, <1>7

LEMMA StepKeepsReport ==
  IInv /\ AtWork /\ RefusedAreRejected /\ ReportIsRight /\ [Next]_vars => ReportIsRight'
<1> SUFFICES ASSUME IInv, AtWork, RefusedAreRejected, ReportIsRight, [Next]_vars
             PROVE  ReportIsRight'
  OBVIOUS
<1>1. CASE ReadFile \/ IndexLine
  BY <1>1, LoadingStep DEF AtWork, ReportIsRight
<1>2. ASSUME UNCHANGED repository
      PROVE  /\ lines' = lines /\ NoFileTwice' = NoFileTwice
             /\ \A i : DocumentedStatus(i)' = DocumentedStatus(i)
  <2>1. UNCHANGED <<disabled, lines>>
    BY <1>2 DEF repository
  <2> QED BY <2>1 DEF NoFileTwice, IsValid, Sid, DocumentedStatus, FirstOfItsSid, RuleLine
<1>3. CASE WriteReport
  <2>1. /\ IsIndexed /\ UNCHANGED repository
        /\ report' = [i \in DOMAIN lines |-> ReportedStatus(lines[i])]
    BY <1>3 DEF WriteReport
  <2>2. NoFileTwice => \A i \in DOMAIN lines : report'[i] = DocumentedStatus(i)
    BY <2>1, StatusIsFound
  <2> QED BY <1>2, <2>1, <2>2 DEF ReportIsRight
<1>4. CASE Evaluate \/ UNCHANGED vars
  <2>1. UNCHANGED <<repository, report, ready>>
    BY <1>4 DEF Evaluate, Ignore, CheckFails, Check, GivenTo, vars
  <2> QED BY <1>2, <2>1 DEF ReportIsRight
<1> QED BY <1>1, <1>3, <1>4 DEF Next, Load

\* The rules report gives each line the status that README documents, if no file is listed twice: the lookup
\* by file and number (_load_engine) finds the right one of the rejected lines.
THEOREM ReportTellsStatuses == Spec => []ReportIsRight
<1>1. Init => ReportIsRight
  BY DEF Init, ReportIsRight
<1> QED BY Invariance, WorkInvariance, InitRejected, StepKeepsRejected, StepKeepsReport, <1>1, PTL DEF Spec

-------------------------------------------------------------------------------
(***************************************************************************)
(* The sids that the parser reads.                                         *)
(***************************************************************************)

\* s is a list: its places are numbered from 1.
IsList(s) == \E n \in Nat : s = [k \in 1..n |-> s[k]]

LEMMA AppendedList ==
  ASSUME NEW s, IsList(s), NEW x
  PROVE  IsList(Append(s, x))
<1>1. PICK n \in Nat : s = [k \in 1..n |-> s[k]]
  BY DEF IsList
<1> DEFINE S == {s[k] : k \in 1..n} \cup {x}
<1>2. s \in Seq(S) /\ x \in S
  <2>1. \A k \in 1..n : s[k] \in S
    OBVIOUS
  <2>2. x \in S
    OBVIOUS
  <2> HIDE DEF S
  <2>3. s \in [1..n -> S]
    BY <1>1, <2>1
  <2> QED BY <2>2, <2>3
<1> HIDE DEF S
<1>3. Append(s, x) \in Seq(S)
  BY <1>2
<1>4. Append(s, x) \in UNION {[1..m -> S] : m \in Nat}
  BY <1>3, SeqDef, Zenon
<1>5. PICK m \in Nat : Append(s, x) \in [1..m -> S]
  BY <1>4
<1>6. Append(s, x) = [k \in 1..m |-> Append(s, x)[k]]
  BY <1>5
<1> QED BY <1>6 DEF IsList

\* The parts so far.
HasParts(c) == "parts" \in DOMAIN c /\ IsList(c.parts)

LEMMA TokenKeepsParts ==
  ASSUME NEW c, HasParts(c), NEW token
  PROVE  HasParts(SplitToken(c, token))
<1> DEFINE longer == [c.parts EXCEPT ![Len(c.parts)] = Append(@, token)]
<1>1. "parts" \in DOMAIN c /\ IsList(c.parts)
  BY DEF HasParts
<1>2. IsList(longer)
  BY <1>1 DEF IsList
<1>3. IsList(Append(c.parts, <<>>))
  BY <1>1, AppendedList
<1>4. "parts" \in DOMAIN AddToken(c, token) /\ AddToken(c, token).parts = longer
  BY <1>1 DEF AddToken
<1> HIDE DEF longer
<1>5. ASSUME NEW d, "parts" \in DOMAIN d, IsList(d.parts), NEW q
      PROVE  HasParts(d) /\ HasParts([d EXCEPT !.escaped = q]) /\ HasParts([d EXCEPT !.quoted = q])
  <2>1. /\ "parts" \in DOMAIN [d EXCEPT !.escaped = q] /\ [d EXCEPT !.escaped = q].parts = d.parts
        /\ "parts" \in DOMAIN [d EXCEPT !.quoted = q] /\ [d EXCEPT !.quoted = q].parts = d.parts
    BY <1>5
  <2> QED BY <1>5, <2>1 DEF HasParts
<1>6. HasParts([c EXCEPT !.parts = Append(@, <<>>)])
  BY <1>1, <1>3 DEF HasParts
<1>7. /\ HasParts(AddToken(c, token)) /\ HasParts([AddToken(c, token) EXCEPT !.escaped = TRUE])
      /\ HasParts([AddToken(c, token) EXCEPT !.quoted = ~@])
  BY <1>2, <1>4, <1>5
<1> QED BY <1>6, <1>7, Zenon DEF SplitToken

\* The fold of SplitOptions.
SplitTurn(text, h, s) == IF s = {} THEN NoParts ELSE SplitToken(h[s \ {Max(s)}], text[Max(s)])
IsSplitting(text, h) == h = [s \in SUBSET DOMAIN text |-> SplitTurn(text, h, s)]

LEMMA SplitIsFold ==
  ASSUME NEW text
  PROVE  SplitOptions(text) = (CHOOSE h : IsSplitting(text, h))[DOMAIN text]
BY Zenon DEF SplitOptions, FoldLeft, MapThenFoldSet, IsSplitting, SplitTurn

\* The places of a list are finitely many, and the last one of some of them is one of them.
LEMMA DomainIsNumbered ==
  ASSUME NEW text, NEW m \in Nat, DOMAIN text = 1..m
  PROVE  /\ IsFiniteSet(DOMAIN text)
         /\ \A s \in SUBSET DOMAIN text : IsFiniteSet(s) /\ Cardinality(s) \in Nat /\ (s # {} => Max(s) \in s)
<1>1. IsFiniteSet(DOMAIN text)
  BY FS_Interval
<1>2. ASSUME NEW s \in SUBSET DOMAIN text PROVE IsFiniteSet(s) /\ Cardinality(s) \in Nat
  BY <1>1, FS_Subset, FS_CardinalityType
<1>3. ASSUME NEW s \in SUBSET DOMAIN text, s # {} PROVE Max(s) \in s
  <2>1. s \subseteq 0..m
    OBVIOUS
  <2> QED BY <1>3, <2>1, MaxIsGreatest
<1> QED BY <1>1, <1>2, <1>3

LEMMA NoPartsAreParts == HasParts(NoParts)
<1>1. <<<<>>>> = [k \in 1..1 |-> <<<<>>>>[k]]
  OBVIOUS
<1>2. IsList(<<<<>>>>)
  BY <1>1 DEF IsList
<1>3. "parts" \in DOMAIN NoParts /\ NoParts.parts = <<<<>>>>
  BY DEF NoParts
<1> QED BY <1>2, <1>3 DEF HasParts

\* The splitting of a numbered text is well defined.
LEMMA SplittingExists ==
  ASSUME NEW text, NEW m \in Nat, DOMAIN text = 1..m
  PROVE  \E h : IsSplitting(text, h)
<1> DEFINE D == DOMAIN text
           Small(n) == {s \in SUBSET D : Cardinality(s) <= n}
           Approximates(h, n) == h = [s \in Small(n) |-> SplitTurn(text, h, s)]
           Q == {n \in Nat : \E h : Approximates(h, n)}
<1>0. IsFiniteSet(D) /\ \A s \in SUBSET D : /\ IsFiniteSet(s) /\ Cardinality(s) \in Nat
                                            /\ s # {} => Max(s) \in s
  BY DomainIsNumbered
<1>1. 0 \in Q
  <2> DEFINE h == [s \in Small(0) |-> NoParts]
  <2>1. \A s \in Small(0) : s = {}
    BY <1>0, FS_EmptySet
  <2>2. h = [s \in Small(0) |-> SplitTurn(text, h, s)]
    BY <2>1 DEF SplitTurn
  <2> QED BY <2>2
<1>2. ASSUME NEW n \in Nat, n \in Q PROVE n + 1 \in Q
  <2>1. PICK h : Approximates(h, n)
    BY <1>2
  <2> DEFINE g == [s \in Small(n + 1) |-> SplitTurn(text, h, s)]
  <2>2. ASSUME NEW s \in Small(n + 1), s # {} PROVE h[s \ {Max(s)}] = g[s \ {Max(s)}]
    <3> DEFINE t == s \ {Max(s)}
    <3>1. Cardinality(t) <= n /\ t \in SUBSET D
      <4>1. Max(s) \in s /\ IsFiniteSet(s) /\ Cardinality(s) <= n + 1 /\ Cardinality(s) \in Nat
        BY <1>0, <2>2
      <4>2. Cardinality(t) = Cardinality(s) - 1
        BY <4>1, FS_RemoveElement, Zenon
      <4> QED BY <4>1, <4>2
    <3>2. t \in Small(n) /\ t \in Small(n + 1)
      BY <1>0, <3>1
    <3>3. h[t] = SplitTurn(text, h, t)
      <4> HIDE DEF t, Small
      <4> QED BY <2>1, <3>2
    <3>4. g[t] = SplitTurn(text, h, t)
      <4> HIDE DEF t, Small
      <4> QED BY <3>2
    <3> QED BY <3>3, <3>4
  <2>3. \A s \in Small(n + 1) : SplitTurn(text, h, s) = SplitTurn(text, g, s)
    <3> HIDE DEF g, Small
    <3> QED BY <2>2 DEF SplitTurn
  <2>4. g = [s \in Small(n + 1) |-> SplitTurn(text, g, s)]
    BY <2>3
  <2>5. Approximates(g, n + 1)
    BY <2>4
  <2> HIDE DEF g, Approximates
  <2> QED BY <2>5
<1>3. Nat \subseteq Q
  <2> HIDE DEF Q
  <2> QED BY <1>1, <1>2, AllNats
<1>4. Cardinality(D) \in Nat /\ Small(Cardinality(D)) = SUBSET D
  BY <1>0, FS_Subset, FS_CardinalityType
<1>5. PICK h : Approximates(h, Cardinality(D))
  BY <1>3, <1>4
<1>6. IsSplitting(text, h)
  BY <1>4, <1>5 DEF IsSplitting
<1> QED BY <1>6

\* What it gives has parts.
LEMMA SplittingGivesParts ==
  ASSUME NEW text, NEW m \in Nat, DOMAIN text = 1..m, NEW h, IsSplitting(text, h)
  PROVE  HasParts(h[DOMAIN text])
<1> DEFINE D == DOMAIN text
           Q == {n \in Nat : \A s \in SUBSET D : Cardinality(s) = n => HasParts(h[s])}
<1>0. IsFiniteSet(D) /\ \A s \in SUBSET D : /\ IsFiniteSet(s) /\ Cardinality(s) \in Nat
                                            /\ s # {} => Max(s) \in s
  BY DomainIsNumbered
<1>00. \A s \in SUBSET D : h[s] = SplitTurn(text, h, s)
  BY DEF IsSplitting
<1>1. 0 \in Q
  <2>1. \A s \in SUBSET D : Cardinality(s) = 0 => s = {}
    BY <1>0, FS_EmptySet
  <2>2. h[{}] = NoParts
    BY <1>00 DEF SplitTurn
  <2> QED BY <2>1, <2>2, NoPartsAreParts
<1>2. ASSUME NEW n \in Nat, n \in Q PROVE n + 1 \in Q
  <2> SUFFICES ASSUME NEW s \in SUBSET D, Cardinality(s) = n + 1 PROVE HasParts(h[s])
    OBVIOUS
  <2>1. s # {}
    BY FS_EmptySet
  <2>2. Max(s) \in s /\ IsFiniteSet(s)
    BY <1>0, <2>1
  <2>3. Cardinality(s \ {Max(s)}) = n
    <3>1. Cardinality(s \ {Max(s)}) = Cardinality(s) - 1
      BY <2>2, FS_RemoveElement, Zenon
    <3> QED BY <3>1
  <2>4. HasParts(h[s \ {Max(s)}])
    BY <1>2, <2>3
  <2>5. h[s] = SplitToken(h[s \ {Max(s)}], text[Max(s)])
    BY <1>00, <2>1 DEF SplitTurn
  <2> QED BY <2>4, <2>5, TokenKeepsParts
<1>3. Nat \subseteq Q
  <2> HIDE DEF Q
  <2> QED BY <1>1, <1>2, AllNats
<1> QED BY <1>0, <1>3

\* The parts of an option text are a list.
LEMMA PartsAreListed ==
  ASSUME NEW text, NEW m \in Nat, DOMAIN text = 1..m
  PROVE  IsList(SplitOptions(text).parts)
<1>1. PICK h : IsSplitting(text, h) /\ h = CHOOSE g : IsSplitting(text, g)
  BY SplittingExists
<1>2. HasParts(h[DOMAIN text])
  BY <1>1, SplittingGivesParts
<1> QED BY <1>1, <1>2, SplitIsFold DEF HasParts

\* The options so far, with a number for a sid.
HasSid(o) ==
  /\ DOMAIN o = {"status", "seen", "contents", "sid", "flow", "flags", "dsize"}
  /\ o.sid \in Nat

LEMMA NoOptionsHaveSid == HasSid(NoOptions)
BY DEF HasSid, NoOptions

\* A sid is read as a number.
LEMMA SidIsNumber ==
  ASSUME NEW value, SingleOption("sid", value).status = "valid"
  PROVE  SingleOption("sid", value).value \in Nat
<1>1. SingleOption("sid", value) = Number(value, FALSE)
  BY DEF SingleOption
<1>2. CASE Len(value) = 1 /\ value[1] \in DOMAIN Numbers
  BY <1>1, <1>2, NumbersAreRead DEF Number, Value
<1>3. CASE ~(Len(value) = 1 /\ value[1] \in DOMAIN Numbers)
  BY <1>1, <1>3 DEF Number, Invalid, Fault
<1> QED BY <1>2, <1>3

LEMMA OptionKeepsSid ==
  ASSUME NEW o, HasSid(o), NEW part
  PROVE  HasSid(ReadOption(o, part))
<1> DEFINE fields == {"status", "seen", "contents", "sid", "flow", "flags", "dsize"}
           key == Keyword(part)
           value == Strip(From(part, ":"))
<1>1. DOMAIN o = fields /\ o.sid \in Nat
  BY DEF HasSid
<1> HIDE DEF key, value
<1>2. ASSUME NEW status PROVE HasSid([o EXCEPT !.status = status])
  BY <1>1 DEF HasSid
<1>3. ASSUME NEW read PROVE HasSid(WithContent(o, read)) /\ HasSid(WithModifier(o, read))
  BY <1>1 DEF HasSid, WithContent, WithModifier
<1>4. HasSid(WithSingle(o, key, SingleOption(key, value)))
  <2> DEFINE read == SingleOption(key, value)
             taken == [o EXCEPT !.status = read.status, !.seen = @ \cup {key}]
  <2>1. DOMAIN taken = fields /\ taken.sid \in Nat
    BY <1>1
  <2>2. HasSid(taken)
    BY <2>1 DEF HasSid
  <2>3. WithSingle(o, key, read) =
          IF read.status = "valid" /\ key \in DOMAIN o THEN [taken EXCEPT ![key] = read.value] ELSE taken
    BY DEF WithSingle
  <2>4. read.status = "valid" /\ key = "sid" => read.value \in Nat
    BY SidIsNumber
  <2> HIDE DEF taken, read
  <2>5. read.status = "valid" /\ key \in DOMAIN o => HasSid([taken EXCEPT ![key] = read.value])
    BY <1>1, <2>1, <2>4 DEF HasSid
  <2> QED BY <1>1, <2>2, <2>3, <2>5 DEF read
<1>5. HasSid(AddOption(o, key, value))
  <2>1. CASE o.status # "valid"
    BY <2>1 DEF AddOption
  <2> QED BY <1>2, <1>3, <1>4, Zenon DEF AddOption
<1> QED BY <1>5 DEF ReadOption, key, value

\* The fold of ReadOptions.
ReadTurn(text, h, s) == IF s = {} THEN NoOptions ELSE ReadOption(h[s \ {Max(s)}], text[Max(s)])
IsReading(text, h) == h = [s \in SUBSET DOMAIN text |-> ReadTurn(text, h, s)]

LEMMA ReadIsFold ==
  ASSUME NEW split, ~split.quoted
  PROVE  ReadOptions(split) = (CHOOSE h : IsReading(split.parts, h))[DOMAIN split.parts]
BY Zenon DEF ReadOptions, FoldLeft, MapThenFoldSet, IsReading, ReadTurn

\* The reading of the options is well defined.
LEMMA ReadingExists ==
  ASSUME NEW text, NEW m \in Nat, DOMAIN text = 1..m
  PROVE  \E h : IsReading(text, h)
<1> DEFINE D == DOMAIN text
           Small(n) == {s \in SUBSET D : Cardinality(s) <= n}
           Approximates(h, n) == h = [s \in Small(n) |-> ReadTurn(text, h, s)]
           Q == {n \in Nat : \E h : Approximates(h, n)}
<1>0. IsFiniteSet(D) /\ \A s \in SUBSET D : /\ IsFiniteSet(s) /\ Cardinality(s) \in Nat
                                            /\ s # {} => Max(s) \in s
  BY DomainIsNumbered
<1>1. 0 \in Q
  <2> DEFINE h == [s \in Small(0) |-> NoOptions]
  <2>1. \A s \in Small(0) : s = {}
    BY <1>0, FS_EmptySet
  <2>2. h = [s \in Small(0) |-> ReadTurn(text, h, s)]
    BY <2>1 DEF ReadTurn
  <2> QED BY <2>2
<1>2. ASSUME NEW n \in Nat, n \in Q PROVE n + 1 \in Q
  <2>1. PICK h : Approximates(h, n)
    BY <1>2
  <2> DEFINE g == [s \in Small(n + 1) |-> ReadTurn(text, h, s)]
  <2>2. ASSUME NEW s \in Small(n + 1), s # {} PROVE h[s \ {Max(s)}] = g[s \ {Max(s)}]
    <3> DEFINE t == s \ {Max(s)}
    <3>1. Cardinality(t) <= n /\ t \in SUBSET D
      <4>1. Max(s) \in s /\ IsFiniteSet(s) /\ Cardinality(s) <= n + 1 /\ Cardinality(s) \in Nat
        BY <1>0, <2>2
      <4>2. Cardinality(t) = Cardinality(s) - 1
        BY <4>1, FS_RemoveElement, Zenon
      <4> QED BY <4>1, <4>2
    <3>2. t \in Small(n) /\ t \in Small(n + 1)
      BY <1>0, <3>1
    <3>3. h[t] = ReadTurn(text, h, t)
      <4> HIDE DEF t, Small
      <4> QED BY <2>1, <3>2
    <3>4. g[t] = ReadTurn(text, h, t)
      <4> HIDE DEF t, Small
      <4> QED BY <3>2
    <3> QED BY <3>3, <3>4
  <2>3. \A s \in Small(n + 1) : ReadTurn(text, h, s) = ReadTurn(text, g, s)
    <3> HIDE DEF g, Small
    <3> QED BY <2>2 DEF ReadTurn
  <2>4. g = [s \in Small(n + 1) |-> ReadTurn(text, g, s)]
    BY <2>3
  <2>5. Approximates(g, n + 1)
    BY <2>4
  <2> HIDE DEF g, Approximates
  <2> QED BY <2>5
<1>3. Nat \subseteq Q
  <2> HIDE DEF Q
  <2> QED BY <1>1, <1>2, AllNats
<1>4. Cardinality(D) \in Nat /\ Small(Cardinality(D)) = SUBSET D
  BY <1>0, FS_Subset, FS_CardinalityType
<1>5. PICK h : Approximates(h, Cardinality(D))
  BY <1>3, <1>4
<1>6. IsReading(text, h)
  BY <1>4, <1>5 DEF IsReading
<1> QED BY <1>6

\* What it gives has a sid.
LEMMA ReadingGivesSid ==
  ASSUME NEW text, NEW m \in Nat, DOMAIN text = 1..m, NEW h, IsReading(text, h)
  PROVE  HasSid(h[DOMAIN text])
<1> DEFINE D == DOMAIN text
           Q == {n \in Nat : \A s \in SUBSET D : Cardinality(s) = n => HasSid(h[s])}
<1>0. IsFiniteSet(D) /\ \A s \in SUBSET D : /\ IsFiniteSet(s) /\ Cardinality(s) \in Nat
                                            /\ s # {} => Max(s) \in s
  BY DomainIsNumbered
<1>00. \A s \in SUBSET D : h[s] = ReadTurn(text, h, s)
  BY DEF IsReading
<1>1. 0 \in Q
  <2>1. \A s \in SUBSET D : Cardinality(s) = 0 => s = {}
    BY <1>0, FS_EmptySet
  <2>2. h[{}] = NoOptions
    BY <1>00 DEF ReadTurn
  <2> QED BY <2>1, <2>2, NoOptionsHaveSid
<1>2. ASSUME NEW n \in Nat, n \in Q PROVE n + 1 \in Q
  <2> SUFFICES ASSUME NEW s \in SUBSET D, Cardinality(s) = n + 1 PROVE HasSid(h[s])
    OBVIOUS
  <2>1. s # {}
    BY FS_EmptySet
  <2>2. Max(s) \in s /\ IsFiniteSet(s)
    BY <1>0, <2>1
  <2>3. Cardinality(s \ {Max(s)}) = n
    <3>1. Cardinality(s \ {Max(s)}) = Cardinality(s) - 1
      BY <2>2, FS_RemoveElement, Zenon
    <3> QED BY <3>1
  <2>4. HasSid(h[s \ {Max(s)}])
    BY <1>2, <2>3
  <2>5. h[s] = ReadOption(h[s \ {Max(s)}], text[Max(s)])
    BY <1>00, <2>1 DEF ReadTurn
  <2> QED BY <2>4, <2>5, OptionKeepsSid
<1>3. Nat \subseteq Q
  <2> HIDE DEF Q
  <2> QED BY <1>1, <1>2, AllNats
<1> QED BY <1>0, <1>3

\* A rule that the parser builds has a number for a sid.
LEMMA ParserNumbersSids ==
  ASSUME NEW line, line.options \in Seq(Range(line.options)), ParseRule(line).status = "valid"
  PROVE  ParseRule(line).rule.sid \in Nat
<1> DEFINE f == line.header
           split == SplitOptions(line.options)
           o == ReadOptions(split)
           options == OptionFaults(o, Len(f) = 7 /\ f[2] = <<"udp">>)
<1>1. IsList(split.parts)
  <2>1. Len(line.options) \in Nat /\ DOMAIN line.options = 1..Len(line.options)
    OBVIOUS
  <2> QED BY <2>1, PartsAreListed
<1>2. HasSid(o)
  <2>1. CASE split.quoted
    <3>1. o = [NoOptions EXCEPT !.status = "invalid"]
      BY <2>1, Zenon DEF ReadOptions
    <3> QED BY <3>1 DEF HasSid, NoOptions
  <2>2. CASE ~split.quoted
    <3>1. PICK n \in Nat : DOMAIN split.parts = 1..n
      BY <1>1 DEF IsList
    <3> HIDE DEF split
    <3>2. PICK h : IsReading(split.parts, h) /\ h = CHOOSE g : IsReading(split.parts, g)
      BY <3>1, ReadingExists
    <3>3. HasSid(h[DOMAIN split.parts])
      BY <3>1, <3>2, ReadingGivesSid
    <3> QED BY <2>2, <3>2, <3>3, ReadIsFold
  <2> QED BY <2>1, <2>2
<1>3. ParseRule(line) = IF line.closed THEN Judge(f, HeaderFaults(f), options, o) ELSE [status |-> "invalid"]
  BY DEF ParseRule
<1> HIDE DEF f, o, options
<1>4. ParseRule(line).rule = RuleOf(f, o)
  BY <1>3 DEF Judge
<1> QED BY <1>2, <1>4 DEF RuleOf, HasSid

-------------------------------------------------------------------------------
(***************************************************************************)
(* The matches of a record.                                                *)
(***************************************************************************)

\* Rules are told apart by their sids.
LEMMA SidsAreKeys ==
  ASSUME IInv, NEW S, S \subseteq rules, IsFiniteSet(S)
  PROVE  Keyed(S, [r \in S |-> r.sid])
<1>1. lines \in Seq(LineRef) /\ next \in 1..(Len(lines) + 1)
  BY DEF IInv, Reading
<1>2. \A i \in 1..(next - 1) : lines[i] \in LineRef
  BY <1>1
<1>3. ASSUME NEW r \in rules
      PROVE  \E i \in 1..(next - 1) : IsValid(i) /\ FirstOfItsSid(i) /\ r = RuleLine(lines[i]).rule /\ r.sid = Sid(i)
  BY DEF IInv, FirstLineWins, Sid
<1>4. ASSUME NEW r \in rules PROVE r.sid \in Nat
  <2>1. PICK i \in 1..(next - 1) : IsValid(i) /\ r = RuleLine(lines[i]).rule
    BY <1>3
  <2>2. PICK line \in Texts : lines[i].parsed = ParseRule(line)
    BY <1>2 DEF LineRef
  <2>3. ParseRule(line).status = "valid" /\ r = ParseRule(line).rule
    BY <2>1, <2>2 DEF IsValid, RuleLine
  <2> QED BY <2>3, FilesAreLines, ParserNumbersSids
<1>5. ASSUME NEW r \in rules, NEW s \in rules, r.sid = s.sid PROVE r = s
  <2>1. PICK i \in 1..(next - 1) : IsValid(i) /\ FirstOfItsSid(i) /\ r = RuleLine(lines[i]).rule /\ r.sid = Sid(i)
    BY <1>3
  <2>2. PICK j \in 1..(next - 1) : IsValid(j) /\ FirstOfItsSid(j) /\ s = RuleLine(lines[j]).rule /\ s.sid = Sid(j)
    BY <1>3
  <2>3. ~(i < j) /\ ~(j < i)
    BY <1>5, <2>1, <2>2 DEF FirstOfItsSid
  <2>4. i = j
    BY <2>3
  <2> QED BY <2>1, <2>2, <2>4
<1>6. \A r \in S : [x \in S |-> x.sid][r] = r.sid
  OBVIOUS
<1> QED BY <1>4, <1>5, <1>6 DEF Keyed

\* The matches of a record that is checked are the rules that match it, in the order of their sids.
LEMMA CheckIsExact ==
  ASSUME IInv, AtWork, NEW p \in Records, NEW context, NEW n, Check(p, context, n)
  PROVE  MatchesAreExact'
<1> DEFINE C == CandidateSet(p)
           c == Candidates(p)
           size == Cardinality(C)
           M == {r \in rules : Outcome(r, p, context) = "match"}
           m == Tally(c, p, context, "match")
           matches == Matching(c, p, context)
           hits == Hits(c, size, p, context)
<1>1. /\ p.kept /\ rules' = rules
      /\ last' = [record |-> {p}, context |-> context, matches |-> matches]
  BY DEF Check, GivenTo, repository
<1>2. C \subseteq rules /\ IsFiniteSet(C)
  BY <1>1, CandidatesAreRules DEF AtWork
<1>3. M \subseteq C
  <2> SUFFICES ASSUME NEW r \in M PROVE r \in C
    OBVIOUS
  <2>1. Outcome(r, p, context) = "match" /\ r \in rules
    OBVIOUS
  <2>2. HeaderMatches(r, p)
    BY <2>1 DEF Outcome
  <2>3. CandidatesComplete
    BY FiledIsFound DEF IInv
  <2> QED BY <1>1, <2>1, <2>2, <2>3 DEF CandidatesComplete
<1>4. M \subseteq rules /\ IsFiniteSet(M)
  BY <1>2, <1>3, FS_Subset
<1>5. Keyed(C, [r \in C |-> r.sid]) /\ Keyed(M, [r \in M |-> r.sid])
  <2> HIDE DEF C, M
  <2> QED BY <1>2, <1>4, SidsAreKeys
<1>6. /\ size \in Nat /\ c \in [1..size -> C]
      /\ \A j, k \in 1..size : j < k => c[j].sid < c[k].sid
      /\ \A r \in C : \E k \in 1..size : c[k] = r
  <2> DEFINE key == [r \in C |-> r.sid]
  <2>1. c = InOrder(C, key)
    BY Zenon DEF Candidates, BySid
  <2>2. \A r \in C : key[r] = r.sid
    OBVIOUS
  <2>4. Keyed(C, key)
    BY <1>5
  <2> HIDE DEF C, key, c
  <2>3. /\ size \in Nat /\ c \in [1..size -> C]
        /\ \A j, k \in 1..size : j < k => key[c[j]] < key[c[k]]
        /\ \A r \in C : \E k \in 1..size : c[k] = r
    BY <2>1, <2>4, InOrderLists
  <2> QED BY <2>2, <2>3
<1> HIDE DEF C, c, size
<1>7. m \in Nat
  BY <1>6, MatchesAreListed
<1>8. PICK places \in [1..m -> hits] :
        /\ matches = [k \in 1..m |-> c[places[k]]]
        /\ \A j, k \in 1..m : j < k => places[j] < places[k]
        /\ \A i \in hits : \E k \in 1..m : places[k] = i
  <2>1. DOMAIN c = 1..size /\ size \in Nat
    BY <1>6
  <2>2. \E places \in [1..m -> hits] :
          /\ matches = [k \in 1..m |-> c[places[k]]]
          /\ \A j, k \in 1..m : j < k => places[j] < places[k]
          /\ \A i \in hits : \E k \in 1..m : places[k] = i
    <3> HIDE DEF M
    <3> QED BY <2>1, MatchesAreListed, SMTT(30)
  <2> QED BY <2>2
<1>9. \A i \in hits : i \in 1..size /\ c[i] \in M
  BY <1>2, <1>6 DEF Hits
<1>10. \A r \in M : \E i \in hits : c[i] = r
  BY <1>3, <1>6 DEF Hits
<1> HIDE DEF hits, M, m, matches
<1>11. matches \in [1..m -> M] /\ \A k \in 1..m : matches[k] = c[places[k]]
  BY <1>8, <1>9
<1>12. \A j, k \in 1..m : j < k => matches[j].sid < matches[k].sid
  <2> SUFFICES ASSUME NEW j \in 1..m, NEW k \in 1..m, j < k PROVE matches[j].sid < matches[k].sid
    OBVIOUS
  <2>1. places[j] \in hits /\ places[k] \in hits /\ places[j] < places[k]
    BY <1>8
  <2>2. places[j] \in 1..size /\ places[k] \in 1..size
    BY <1>9, <2>1
  <2>3. c[places[j]].sid < c[places[k]].sid
    BY <1>6, <2>1, <2>2
  <2> QED BY <1>11, <2>3
<1>13. \A r \in M : \E k \in 1..m : matches[k] = r
  <2> SUFFICES ASSUME NEW r \in M PROVE \E k \in 1..m : matches[k] = r
    OBVIOUS
  <2>1. PICK i \in hits : c[i] = r
    BY <1>10
  <2>2. PICK k \in 1..m : places[k] = i
    BY <1>8, <2>1
  <2> QED BY <1>11, <2>1, <2>2
<1>14. matches = BySid(M)
  <2> DEFINE key == [r \in M |-> r.sid]
  <2>1. \A r \in M : key[r] = r.sid
    OBVIOUS
  <2>2. Keyed(M, key)
    BY <1>5
  <2> HIDE DEF key
  <2>3. \A j, k \in 1..m : j < k => key[matches[j]] < key[matches[k]]
    BY <1>11, <1>12, <2>1
  <2>4. matches = InOrder(M, key)
    BY <1>7, <1>11, <1>13, <2>2, <2>3, InOrderIsOnly, SMTT(60)
  <2> QED BY <2>4, Zenon DEF BySid, key
<1>15. \A q \in last'.record : last'.matches = BySid({r \in rules' : Outcome(r, q, last'.context) = "match"})
  BY <1>1, <1>14 DEF M
<1> QED BY <1>15 DEF MatchesAreExact

LEMMA StepKeepsMatches ==
  IInv /\ AtWork /\ MatchesAreExact /\ [Next]_vars => MatchesAreExact'
<1> SUFFICES ASSUME IInv, AtWork, MatchesAreExact, [Next]_vars
             PROVE  MatchesAreExact'
  OBVIOUS
<1>1. CASE ReadFile \/ IndexLine
  <2>1. ~ready /\ last' = last
    BY <1>1, LoadingStep DEF AtWork, evaluator
  <2>2. last'.record = {}
    BY <2>1 DEF AtWork, Settled
  <2> QED BY <2>2 DEF MatchesAreExact
<1>2. ASSUME NEW p \in Records, NEW context \in Flows, NEW n \in 0..Cardinality(rules), Check(p, context, n)
      PROVE  MatchesAreExact'
  BY <1>2, CheckIsExact
<1>3. ASSUME NEW p \in Records, Ignore(p) \/ CheckFails(p)
      PROVE  UNCHANGED <<rules, last>>
  BY <1>3 DEF Ignore, CheckFails, GivenTo, repository
<1>4. WriteReport \/ UNCHANGED vars => UNCHANGED <<rules, last>>
  BY DEF WriteReport, vars, repository, evaluator
<1>5. UNCHANGED <<rules, last>> => MatchesAreExact'
  BY DEF MatchesAreExact
<1> QED BY <1>1, <1>2, <1>3, <1>4, <1>5 DEF Next, Load, Evaluate

\* A kept record is matched against all loaded rules, in the order of their sids: neither the port index, nor
\* the order of the rule files, nor what was checked before can be seen in the matches (candidates, evaluate).
THEOREM MatchesAreRight == Spec => []MatchesAreExact
<1>1. Init => MatchesAreExact
  BY DEF Init, MatchesAreExact
<1> QED BY Invariance, WorkInvariance, StepKeepsMatches, <1>1, PTL DEF Spec
===============================================================================
