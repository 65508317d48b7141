---------------------------- MODULE EnricherProofs ----------------------------
(***************************************************************************)
(* The way of an item, whatever the packets and records hold and however   *)
(* the stages fail: what the flow tracker is given is whole, a failure     *)
(* costs the fields of its own stage, an event tells what was read, an     *)
(* exception shows in the output; and what the two readers promise holds   *)
(* of every packet and every line.  The path of an output is the one that  *)
(* its target gives when it is read from the end, and what the detector    *)
(* takes a payload for, the parser finds in it.  What the decoder could not *)
(* read of a payload, it tells.                                            *)
(***************************************************************************)
EXTENDS ItemPath, ReaderProofs

OutputFields == DOMAIN SourceOnly

\* The fields that KeptIsTrackable speaks of.
JudgedFields == {"action", "flow", "view", "errors", "network"}

LEMMA TheFields ==
  /\ OutputFields = {"timestamp", "timestampIso", "network", "transport", "status", "errors", "protocol",
                     "application", "hex", "preview", "payloadLen", "decodeStatus", "decoded",
                     "preprocessStatus", "action", "reason", "view", "flow", "processingErrors"}
  /\ DOMAIN Defaults = {"decodeStatus", "decoded", "preprocessStatus", "action", "reason", "view", "flow",
                        "processingErrors"}
  /\ Defaults.action = "skip_flow" /\ Defaults.flow = {}
  /\ SourceOnly.action = "skip_flow" /\ SourceOnly.flow = {}
BY DEF OutputFields, SourceOnly, NotEnriched, Defaults
-------------------------------------------------------------------------------
\* The record that is built first, and how its fields are set.

LEMMA NotEnrichedFields ==
  ASSUME NEW e
  PROVE  DOMAIN ToRecord(e) = OutputFields
<1> DEFINE text == TextOf(e.payload)
<1>1. DOMAIN ToRecord(e) =
        {"timestamp", "timestampIso", "network", "transport", "status", "errors", "protocol",
         "application", "hex", "preview", "payloadLen"} \cup DOMAIN Defaults
  BY DEF ToRecord, NotEnriched
<1> QED BY <1>1, TheFields

LEMMA WithFields ==
  ASSUME NEW out, NEW values
  PROVE  /\ DOMAIN With(out, values) = DOMAIN out
         /\ \A f \in DOMAIN out :
              With(out, values)[f] = IF f \in DOMAIN values THEN values[f] ELSE out[f]
BY DEF With

\* A record that enters the enricher is in no flow and not kept.
LEMMA FreshFields ==
  ASSUME NEW r, DOMAIN r = OutputFields, NEW errors
  PROVE  /\ DOMAIN Fresh(r, errors) = OutputFields
         /\ Fresh(r, errors).action = "skip_flow" /\ Fresh(r, errors).flow = {}
<1>1. With(r, Defaults).action = "skip_flow" /\ With(r, Defaults).flow = {}
  BY TheFields, WithFields
<1> QED BY <1>1, TheFields, WithFields DEF Fresh

\* What a stage leaves when it fails: only its own fields change, and the tracker's and the preprocessor's are
\* the defaults again.
LEMMA FailFields ==
  ASSUME NEW at \in DOMAIN StageFields, NEW wrote \in SUBSET StageFields[at], DOMAIN output = OutputFields
  PROVE  LET out == Fail(output, at, wrote)
         IN  /\ DOMAIN out = OutputFields
             /\ \A f \in OutputFields \ (StageFields[at] \cup {"processingErrors"}) : out[f] = output[f]
             /\ \A f \in StageFields[at] \ {"processingErrors"} : f \in OutputFields => out[f] = Defaults[f]
<1> DEFINE half == With(output, Only(Half, wrote))
           undone == With(half, Only(Defaults, StageFields[at]))
<1>1. DOMAIN Only(Half, wrote) = wrote
  BY DEF Only
<1>2. /\ DOMAIN Only(Defaults, StageFields[at]) = StageFields[at]
      /\ \A f \in StageFields[at] : Only(Defaults, StageFields[at])[f] = Defaults[f]
  BY DEF Only
<1>3. DOMAIN half = OutputFields /\ \A f \in OutputFields \ wrote : half[f] = output[f]
  BY <1>1, WithFields
<1>4. /\ DOMAIN undone = OutputFields
      /\ \A f \in OutputFields \ StageFields[at] : undone[f] = output[f]
      /\ \A f \in OutputFields \cap StageFields[at] : undone[f] = Defaults[f]
  <2> HIDE DEF half
  <2> QED BY <1>2, <1>3, WithFields
<1>5. Fail(output, at, wrote) = [undone EXCEPT !.processingErrors = @ \cup {Exception(at)}]
  BY DEF Fail
<1> HIDE DEF undone
<1> QED BY <1>4, <1>5

LEMMA FallbackFields ==
  ASSUME NEW keepBase, DOMAIN output = OutputFields
  PROVE  /\ DOMAIN Fallback(output, keepBase) = OutputFields
         /\ Fallback(output, keepBase).action = "skip_flow" /\ Fallback(output, keepBase).flow = {}
<1> DEFINE base == IF keepBase THEN With(output, Defaults) ELSE SourceOnly
<1>1. DOMAIN base = OutputFields /\ base.action = "skip_flow" /\ base.flow = {}
  BY TheFields, WithFields DEF OutputFields
<1> HIDE DEF base
<1>2. Fallback(output, keepBase) =
        [base EXCEPT !.reason = "record could not be written", !.processingErrors = {Exception("output")}]
  BY DEF Fallback, base
<1> QED BY <1>1, <1>2

-------------------------------------------------------------------------------
\* The preprocessor.

\* What it keeps is whole, whatever the record holds.
LEMMA PreprocessJudges ==
  ASSUME NEW r
  PROVE  LET judged == Preprocess(r)
         IN  /\ DOMAIN judged = {"preprocessStatus", "action", "reason", "view"}
             /\ judged.action = "keep" => Whole(judged.view) /\ ~IsNonFirstFragment(r)
<1> DEFINE view == Normalized(r)
<1>1. /\ view.timestamp = TimestampOf(r) /\ view.protocol = ProtocolOf(r.transport)
      /\ view.srcPort = UNION {PortOf(t.srcPort) : t \in r.transport}
      /\ view.dstPort = UNION {PortOf(t.dstPort) : t \in r.transport}
  BY DEF Normalized
<1>2. view.timestamp \subseteq 0..MaxTimestamp
  BY <1>1 DEF TimestampOf
<1>3. view.protocol \subseteq TrackedProtocols
  BY <1>1 DEF ProtocolOf
<1>4. view.srcPort \subseteq 0..MaxPort /\ view.dstPort \subseteq 0..MaxPort
  <2>1. \A v : PortOf(v) \subseteq 0..MaxPort
    BY DEF PortOf
  <2> QED BY <1>1, <2>1
<1> HIDE DEF view
<1>5. \A status, action, v : /\ DOMAIN Judged(status, action, v) = {"preprocessStatus", "action", "reason", "view"}
                            /\ Judged(status, action, v).action = action
                            /\ Judged(status, action, v).view = v
  BY DEF Judged
<1>6. view.timestamp # {} /\ ~HasProblem(r, view) => Whole(view) /\ ~IsNonFirstFragment(r)
  BY <1>2, <1>3, <1>4 DEF HasProblem, Whole
<1>7. \/ Preprocess(r) = Judged("invalid", "skip_flow", EmptyView)
      \/ Preprocess(r) = Judged("invalid", "skip_flow", view)
      \/ Preprocess(r) = Judged("partial", "skip_flow", view)
      \/ /\ view.timestamp # {} /\ ~HasProblem(r, view)
         /\ \E status : Preprocess(r) = Judged(status, "keep", view)
  BY DEF Preprocess, view
<1> QED BY <1>5, <1>6, <1>7

-------------------------------------------------------------------------------
\* The invariant: before the tracker a record is in no flow, and it reaches the tracker only when it is kept.

EInv ==
  /\ DOMAIN output = OutputFields
  /\ items \in Seq(LineItem) /\ number \in Nat /\ taken \in Nat
  /\ stage \in {"decoder", "preprocessor", "policy", "flow"} => output.flow = {}
  /\ stage \in {"flow"} => output.action = "keep"
  /\ KeptIsTrackable

\* A step that leaves the judged fields alone.
LEMMA SameJudged ==
  ASSUME KeptIsTrackable, \A f \in JudgedFields : output'[f] = output[f]
  PROVE  KeptIsTrackable'
BY DEF KeptIsTrackable, JudgedFields, Whole, IsNonFirstFragment

\* A record that enters the enricher.
LEMMA BeginStep ==
  ASSUME NEW r, DOMAIN r = OutputFields, NEW errors, Begin(r, errors)
  PROVE  /\ DOMAIN output' = OutputFields /\ output'.flow = {} /\ stage' = "decoder"
         /\ KeptIsTrackable'
<1>1. output' = Fresh(r, errors) /\ stage' = "decoder"
  BY DEF Begin
<1> QED BY <1>1, FreshFields DEF KeptIsTrackable

\* The enricher's own steps.
LEMMA EnricherStepKeeps ==
  ASSUME EInv, EnricherNext, UNCHANGED <<items, number, taken>>
  PROVE  EInv'
<1>1. DOMAIN output = OutputFields /\ KeptIsTrackable
  BY DEF EInv
<1>2. JudgedFields \subseteq OutputFields
  BY TheFields DEF JudgedFields
<1> DEFINE Remains == /\ DOMAIN output' = OutputFields
                      /\ stage' \in {"decoder", "preprocessor", "policy", "flow"} => output'.flow = {}
                      /\ stage' \in {"flow"} => output'.action = "keep"
                      /\ KeptIsTrackable'
<1> SUFFICES Remains
  BY DEF EInv
<1> HIDE DEF Remains
<1>3. ASSUME stage = "decoder", stage' = "preprocessor", DOMAIN output' = OutputFields,
             \A f \in JudgedFields : output'[f] = output[f]
      PROVE  Remains
  <2>1. output'.flow = {}
    BY <1>3 DEF EInv, JudgedFields
  <2>2. KeptIsTrackable'
    BY <1>1, <1>3, SameJudged
  <2> QED BY <1>3, <2>1, <2>2 DEF Remains
<1>4. CASE RunDecoder
  <2>1. stage = "decoder" /\ stage' = "preprocessor"
    BY <1>4 DEF RunDecoder, Process
  <2>2. PICK result : output' = [output EXCEPT !.decodeStatus = result.decodeStatus, !.decoded = result.decoded,
                                               !.processingErrors = @ \cup result.errors]
    BY <1>4 DEF RunDecoder
  <2>3. DOMAIN output' = OutputFields /\ \A f \in JudgedFields : output'[f] = output[f]
    BY <1>1, <1>2, <2>2 DEF JudgedFields
  <2> QED BY <1>3, <2>1, <2>3
<1>5. CASE DecoderFails
  <2>1. stage = "decoder" /\ stage' = "preprocessor"
    BY <1>5 DEF DecoderFails, Process
  <2>2. PICK wrote \in SUBSET StageFields["decoder"] : output' = Fail(output, "decoder", wrote)
    BY <1>5 DEF DecoderFails
  <2>3. "decoder" \in DOMAIN StageFields /\ StageFields["decoder"] = {"decodeStatus", "decoded"}
    BY DEF StageFields
  <2>4. /\ DOMAIN output' = OutputFields
        /\ \A f \in OutputFields \ (StageFields["decoder"] \cup {"processingErrors"}) : output'[f] = output[f]
    BY <1>1, <2>2, <2>3, FailFields
  <2>5. \A f \in JudgedFields : output'[f] = output[f]
    BY <1>2, <2>3, <2>4 DEF JudgedFields
  <2> QED BY <1>3, <2>1, <2>4, <2>5
<1>6. CASE RunPreprocessor
  <2> DEFINE judged == Preprocess(output)
  <2>1. stage = "preprocessor" /\ stage' = "policy" /\ output' = With(output, judged)
    BY <1>6 DEF RunPreprocessor, Process
  <2>2. /\ DOMAIN judged = {"preprocessStatus", "action", "reason", "view"}
        /\ judged.action = "keep" => Whole(judged.view) /\ ~IsNonFirstFragment(output)
    BY PreprocessJudges
  <2> HIDE DEF judged
  <2>3. DOMAIN output' = OutputFields
    BY <1>1, <2>1, WithFields
  <2>4. /\ output'.action = judged.action /\ output'.view = judged.view /\ output'.flow = output.flow
        /\ output'.errors = output.errors /\ output'.network = output.network
    BY <1>1, <1>2, <2>1, <2>2, WithFields DEF JudgedFields
  <2>5. output.flow = {}
    BY <2>1 DEF EInv
  <2>6. KeptIsTrackable'
    BY <2>2, <2>4, <2>5 DEF KeptIsTrackable, Whole, IsNonFirstFragment
  <2> QED BY <2>1, <2>3, <2>4, <2>5, <2>6 DEF Remains
<1>7. CASE PreprocessorFails
  <2>1. stage = "preprocessor" /\ stage' = "policy"
    BY <1>7 DEF PreprocessorFails, Process
  <2>2. PICK wrote \in SUBSET StageFields["preprocessor"] :
          output' = [Fail(output, "preprocessor", wrote) EXCEPT !.reason = "preprocessor failed"]
    BY <1>7 DEF PreprocessorFails
  <2>3. /\ "preprocessor" \in DOMAIN StageFields
        /\ StageFields["preprocessor"] = {"preprocessStatus", "action", "reason", "view"}
    BY DEF StageFields
  <2> DEFINE out == Fail(output, "preprocessor", wrote)
  <2>4. /\ DOMAIN out = OutputFields
        /\ \A f \in OutputFields \ (StageFields["preprocessor"] \cup {"processingErrors"}) : out[f] = output[f]
        /\ \A f \in StageFields["preprocessor"] \ {"processingErrors"} : f \in OutputFields => out[f] = Defaults[f]
    BY <1>1, <2>3, FailFields
  <2> HIDE DEF out
  <2>5. out.flow = output.flow /\ out.action = Defaults.action
    BY <1>2, <2>3, <2>4 DEF JudgedFields
  <2>6. DOMAIN output' = OutputFields /\ output'.flow = out.flow /\ output'.action = out.action
    BY <1>2, <2>2, <2>4 DEF JudgedFields, out
  <2>7. output.flow = {}
    BY <2>1 DEF EInv
  <2>8. output'.action = "skip_flow" /\ output'.flow = {}
    BY <2>5, <2>6, <2>7, TheFields
  <2>9. KeptIsTrackable'
    BY <2>8 DEF KeptIsTrackable
  <2> QED BY <2>1, <2>6, <2>8, <2>9 DEF Remains
<1>8. CASE Drop \/ Pass \/ Write
  <2>1. output' = output /\ stage \in {"policy", "write"}
    BY <1>8 DEF Drop, Pass, Write, Process
  <2>2. stage' \in {"decoder", "preprocessor", "policy", "flow"} =>
          stage = "policy" /\ stage' = "flow" /\ output.action = "keep"
    BY <1>8 DEF Drop, Pass, Write, Process
  <2>3. KeptIsTrackable'
    BY <1>1, <2>1, SameJudged
  <2>4. stage = "policy" => output.flow = {}
    BY DEF EInv
  <2> QED BY <1>1, <2>1, <2>2, <2>3, <2>4 DEF Remains
<1>9. CASE Track
  <2>1. stage = "flow" /\ stage' = "write" /\ output' = [output EXCEPT !.flow = {Flow}]
    BY <1>9 DEF Track, Process
  <2>2. output.action = "keep"
    BY <2>1 DEF EInv
  <2>3. DOMAIN output' = OutputFields /\ \A f \in JudgedFields \ {"flow"} : output'[f] = output[f]
    BY <1>1, <1>2, <2>1 DEF JudgedFields
  <2>4. KeptIsTrackable'
    BY <1>1, <2>2, <2>3 DEF KeptIsTrackable, JudgedFields, Whole, IsNonFirstFragment
  <2> QED BY <2>1, <2>3, <2>4 DEF Remains
<1>10. CASE TrackerFails
  <2>1. stage = "flow" /\ stage' = "write"
    BY <1>10 DEF TrackerFails, Process
  <2>2. PICK wrote \in SUBSET StageFields["flow"] : output' = Fail(output, "flow", wrote)
    BY <1>10 DEF TrackerFails
  <2>3. "flow" \in DOMAIN StageFields /\ StageFields["flow"] = {"flow"}
    BY DEF StageFields
  <2>4. /\ DOMAIN output' = OutputFields
        /\ \A f \in OutputFields \ (StageFields["flow"] \cup {"processingErrors"}) : output'[f] = output[f]
        /\ \A f \in StageFields["flow"] \ {"processingErrors"} : f \in OutputFields => output'[f] = Defaults[f]
    BY <1>1, <2>2, <2>3, FailFields
  <2>5. output'.flow = Defaults.flow /\ \A f \in JudgedFields \ {"flow"} : output'[f] = output[f]
    BY <1>2, <2>3, <2>4 DEF JudgedFields
  <2>6. output.action = "keep"
    BY <2>1 DEF EInv
  <2>7. KeptIsTrackable'
    BY <1>1, <2>5, <2>6 DEF KeptIsTrackable, JudgedFields, Whole, IsNonFirstFragment
  <2> QED BY <2>1, <2>4, <2>7 DEF Remains
<1>11. CASE Refuse
  <2>1. stage = "write" /\ stage' = "write" /\ output' = Fallback(output, refused = 0)
    BY <1>11 DEF Refuse
  <2>2. DOMAIN output' = OutputFields /\ output'.action = "skip_flow" /\ output'.flow = {}
    BY <1>1, <2>1, FallbackFields
  <2>3. KeptIsTrackable'
    BY <2>2 DEF KeptIsTrackable
  <2> QED BY <2>1, <2>2, <2>3 DEF Remains
<1> QED BY <1>4, <1>5, <1>6, <1>7, <1>8, <1>9, <1>10, <1>11 DEF EnricherNext

\* The reader's items hold records of the file.
LEMMA ItemsAreNamed ==
  ASSUME NEW content, NEW n \in Nat
  PROVE  ItemsOf(content, n) \in Seq(LineItem) /\ BadLine(n) \in LineItem
<1>1. BadLine(n) \in LineItem
  BY DEF BadLine, LineItem
<1>2. \A text : [number |-> n, record |-> Parsed(text)] \in LineItem
  <2>1. \A text : Parsed(text) \subseteq Names
    BY DEF Parsed
  <2> QED BY <2>1 DEF LineItem
<1>3. \/ ItemsOf(content, n) = <<BadLine(n)>> \/ ItemsOf(content, n) = <<>>
      \/ \E text : ItemsOf(content, n) = <<[number |-> n, record |-> Parsed(text)]>>
  BY DEF ItemsOf
<1>4. \A x \in LineItem : <<x>> \in Seq(LineItem)
  OBVIOUS
<1>5. <<>> \in Seq(LineItem)
  OBVIOUS
<1>6. ItemsOf(content, n) \in Seq(LineItem)
  BY <1>1, <1>2, <1>3, <1>4, <1>5, Zenon
<1> QED BY <1>1, <1>6

LEMMA ReaderKeepsItems ==
  ASSUME items \in Seq(LineItem), number \in Nat, ReadLine \/ Discard
  PROVE  items' \in Seq(LineItem) /\ number' \in Nat
<1>1. CASE ReadLine
  <2>1. /\ number' = number + 1
        /\ \/ items' = items
           \/ \E content : items' = items \o ItemsOf(content, number + 1)
    BY <1>1 DEF ReadLine
  <2>2. number + 1 \in Nat
    OBVIOUS
  <2>3. \A content : ItemsOf(content, number + 1) \in Seq(LineItem)
    BY <2>2, ItemsAreNamed
  <2>4. \A more \in Seq(LineItem) : items \o more \in Seq(LineItem)
    OBVIOUS
  <2>5. items' \in Seq(LineItem)
    BY <2>1, <2>3, <2>4, Zenon
  <2> QED BY <2>1, <2>2, <2>5
<1>2. CASE Discard
  <2>1. number' = number /\ (items' = items \/ items' = Append(items, BadLine(number)))
    BY <1>2 DEF Discard
  <2>2. BadLine(number) \in LineItem
    BY ItemsAreNamed
  <2> QED BY <2>1, <2>2
<1> QED BY <1>1, <1>2

\* Every step of the program.
LEMMA PathStepKeeps == EInv /\ [Next]_vars => EInv'
<1> SUFFICES ASSUME EInv, [Next]_vars
             PROVE  EInv'
  OBVIOUS
<1>1. /\ DOMAIN output = OutputFields /\ KeptIsTrackable
      /\ items \in Seq(LineItem) /\ number \in Nat /\ taken \in Nat
  BY DEF EInv
<1>2. ASSUME UNCHANGED <<items, number, output, stage>>, taken' \in Nat
      PROVE  EInv'
  BY <1>2, SameJudged DEF EInv
<1>3. ASSUME NEW r, DOMAIN r = OutputFields, NEW errors, Begin(r, errors),
             UNCHANGED <<items, number>>, taken' \in Nat
      PROVE  EInv'
  BY <1>1, <1>3, BeginStep DEF EInv
<1>4. CASE Read /\ Untouched /\ UNCHANGED <<enricherVars, failing, event>>
  BY <1>1, <1>2, <1>4 DEF Untouched, readerState, enricherVars
<1>5. ASSUME NEW fails \in Failures, ProcessPacket(fails)
      PROVE  EInv'
  <2>1. UNCHANGED <<items, number, taken>>
    BY <1>5 DEF ProcessPacket, Untouched, readerState
  <2>2. CASE stage' = "ignored" /\ output' = output
    BY <1>1, <2>1, <2>2, SameJudged DEF EInv
  <2>3. CASE Begin(SourceOnly, {Exception("input")})
    BY <1>1, <1>3, <2>1, <2>3 DEF OutputFields
  <2>4. ASSUME NEW e, Begin(ToRecord(e), {})
        PROVE  EInv'
    BY <1>1, <1>3, <2>1, <2>4, NotEnrichedFields
  <2> QED BY <1>5, <2>2, <2>3, <2>4 DEF ProcessPacket
<1>6. CASE ReadItem
  <2>1. (ReadLine \/ Discard) /\ UNCHANGED <<enricherVars, taken>>
    BY <1>6 DEF ReadItem
  <2>2. items' \in Seq(LineItem) /\ number' \in Nat
    BY <1>1, <2>1, ReaderKeepsItems
  <2>3. output' = output /\ stage' = stage /\ taken' = taken
    BY <2>1 DEF enricherVars
  <2> QED BY <1>1, <2>2, <2>3, SameJudged DEF EInv
<1>7. CASE TakeItem
  <2>1. UNCHANGED <<items, number>> /\ taken' = taken + 1 /\ taken < Len(items)
    BY <1>7 DEF TakeItem, readerState
  <2>2. taken + 1 \in 1..Len(items) /\ taken' \in Nat
    BY <1>1, <2>1
  <2>3. items[taken + 1].record \subseteq Names
    <3>1. items[taken + 1] \in LineItem
      BY <1>1, <2>2
    <3> QED BY <3>1 DEF LineItem
  <2>4. CASE Begin(SourceOnly, {[stage |-> "input", type |-> "invalid_record"]})
    BY <1>3, <2>1, <2>2, <2>4 DEF OutputFields
  <2>5. ASSUME NEW name \in items[taken + 1].record, Begin(Events[name], {})
        PROVE  EInv'
    <3>1. DOMAIN Events[name] = OutputFields
      BY <2>3, FilesNameEvents, RecordsHaveFields DEF OutputFields
    <3> QED BY <1>3, <2>1, <2>2, <2>5, <3>1
  <2> QED BY <1>7, <2>4, <2>5 DEF TakeItem
<1>8. CASE Replay
  <2>1. Begin(output, {}) /\ UNCHANGED <<items, number, taken>>
    BY <1>8 DEF Replay, readerState
  <2> QED BY <1>1, <1>3, <2>1
<1>9. ASSUME NEW r \in Records, TakeRecord(r)
      PROVE  EInv'
  <2>1. Begin(r, {}) /\ UNCHANGED <<items, number, taken>>
    BY <1>9 DEF TakeRecord, Untouched, readerState
  <2>2. DOMAIN r = OutputFields
    BY RecordsHaveFields DEF OutputFields
  <2> QED BY <1>1, <1>3, <2>1, <2>2
<1>10. CASE EnricherNext /\ Untouched
  BY <1>10, EnricherStepKeeps DEF Untouched, readerState
<1>11. CASE UNCHANGED vars
  BY <1>1, <1>2, <1>11 DEF vars, readerState, enricherVars
<1> QED BY <1>4, <1>5, <1>6, <1>7, <1>8, <1>9, <1>10, <1>11 DEF Next

LEMMA PathStarts == Init => EInv
<1> SUFFICES ASSUME Init PROVE EInv
  OBVIOUS
<1>1. output = SourceOnly /\ stage = "idle" /\ taken = 0 /\ items = <<>> /\ number = 0
  BY DEF Init, FileInit
<1>2. KeptIsTrackable
  BY <1>1, TheFields DEF KeptIsTrackable
<1> QED BY <1>1, <1>2 DEF EInv, OutputFields

\* The tracker reads a record only with everything that its keys and times are made of (preprocess_record and
\* Enricher.process), whatever records come in and whichever stages fail half-way.
THEOREM KeptRecordsAreTrackable == Spec => []KeptIsTrackable
<1>1. EInv => KeptIsTrackable
  BY DEF EInv
<1> QED BY PathStarts, PathStepKeeps, <1>1, PTL DEF Spec

-------------------------------------------------------------------------------
\* What a failing stage costs.

\* The fields that the preprocessor reads, apart from the errors of the processing.
ReadFields == {"timestamp", "timestampIso", "network", "transport", "status", "errors", "protocol",
               "application", "decoded"}

IsRejected(r) == \E e \in r.processingErrors : e.type = "invalid_record"

\* The preprocessor judges two records alike when they agree in what it reads.
LEMMA PreprocessReads ==
  ASSUME NEW r, NEW q, \A f \in ReadFields : r[f] = q[f], IsRejected(r) = IsRejected(q)
  PROVE  Preprocess(r) = Preprocess(q)
<1>1. /\ r.timestamp = q.timestamp /\ r.timestampIso = q.timestampIso /\ r.network = q.network
      /\ r.transport = q.transport /\ r.status = q.status /\ r.errors = q.errors
      /\ r.protocol = q.protocol /\ r.application = q.application /\ r.decoded = q.decoded
  BY DEF ReadFields
<1>2. Normalized(r) = Normalized(q)
  <2>1. TimestampOf(r) = TimestampOf(q)
    BY <1>1 DEF TimestampOf
  <2>2. \A a : TargetOf(r, a) = TargetOf(q, a)
    BY <1>1 DEF TargetOf
  <2>3. UNION {PathOf(TargetOf(r, a)) : a \in r.application} = UNION {PathOf(TargetOf(q, a)) : a \in q.application}
    BY <1>1, <2>2
  <2> QED BY <1>1, <2>1, <2>3 DEF Normalized
<1>3. \A view : HasProblem(r, view) = HasProblem(q, view)
  BY <1>1 DEF HasProblem, IsNonFirstFragment
<1> DEFINE view == Normalized(q)
<1> HIDE DEF view
<1>4. /\ Normalized(r) = view /\ Normalized(q) = view
  BY <1>2 DEF view
<1> QED BY <1>1, <1>3, <1>4 DEF Preprocess, IsRejected

LEMMA DecodeTells ==
  ASSUME NEW r
  PROVE  Decode(r).errors \subseteq {LimitError}
BY DEF Decode, DecodeResult

LEMMA OnlyFields ==
  ASSUME NEW values, NEW names
  PROVE  DOMAIN Only(values, names) = names /\ \A f \in names : Only(values, names)[f] = values[f]
BY DEF Only

LEMMA OnlyAgrees ==
  ASSUME NEW values, NEW others, NEW names, \A f \in names : values[f] = others[f]
  PROVE  Only(values, names) = Only(others, names)
BY DEF Only

\* What the preprocessor writes is a record of its fields.
LEMMA PreprocessIsRecord ==
  ASSUME NEW r, NEW out, DOMAIN out = OutputFields
  PROVE  Only(With(out, Preprocess(r)), StageFields.preprocessor) = Preprocess(r)
<1>1. DOMAIN Preprocess(r) = StageFields.preprocessor /\ StageFields.preprocessor \subseteq OutputFields
  BY PreprocessJudges, TheFields DEF StageFields
<1>2. Preprocess(r) = [f \in DOMAIN Preprocess(r) |-> Preprocess(r)[f]]
  <2>1. \A status, action, v : LET j == Judged(status, action, v) IN j = [f \in DOMAIN j |-> j[f]]
    BY DEF Judged
  <2>2. \E status, action, v : Preprocess(r) = Judged(status, action, v)
    BY Zenon DEF Preprocess
  <2> QED BY <2>1, <2>2
<1>3. \A f \in StageFields.preprocessor : With(out, Preprocess(r))[f] = Preprocess(r)[f]
  BY <1>1, WithFields
<1> QED BY <1>1, <1>2, <1>3 DEF Only

-------------------------------------------------------------------------------
\* The invariant: what the stages behind the present one have left of the record that came in.

\* What the preprocessor is meant to see.
Inferred == With(Cleaned, Only(output, StageFields.decoder))

DecoderTold ==
  IF "decoder" \in failed THEN Undone("decoder")
  ELSE output.decodeStatus = Decode(Cleaned).decodeStatus /\ output.decoded = Decode(Cleaned).decoded

ErrorsTold ==
  output.processingErrors = inputErrors \cup {Exception(at) : at \in failed}
    \cup (IF "decoder" \in failed THEN {} ELSE Decode(Cleaned).errors)

PreprocessorTold ==
  IF "preprocessor" \in failed
    THEN output.action = "skip_flow" /\ output.view = EmptyView /\ output.reason = "preprocessor failed"
    ELSE Only(output, StageFields.preprocessor) = Preprocess(Inferred)

Told ==
  /\ \A f \in BaseFields : output[f] = Cleaned[f]
  /\ DecoderTold /\ ErrorsTold
  /\ stage # "preprocessor" => PreprocessorTold
  /\ "flow" \in failed => output.flow = {}

\* What is left of a record that was refused.
FallbackTold ==
  /\ \A f \in BaseFields : output[f] = IF refused < 2 THEN record[f] ELSE SourceOnly[f]
  /\ RefusalTold

CostsInv ==
  /\ EInv /\ DOMAIN record = OutputFields /\ refused \in Nat
  /\ stage = "decoder" => output = Cleaned /\ failed = {}
  /\ stage \in {"decoder", "preprocessor", "policy", "flow"} => refused = 0
  /\ stage = "preprocessor" => failed \subseteq {"decoder"}
  /\ stage \in {"policy", "flow"} => failed \subseteq {"decoder", "preprocessor"}
  /\ stage \in {"preprocessor", "policy", "flow", "write", "done", "dropped"} /\ refused = 0 => Told
  /\ refused > 0 => FallbackTold

LEMMA CleanedFields ==
  ASSUME DOMAIN record = OutputFields
  PROVE  DOMAIN Cleaned = OutputFields /\ Cleaned.processingErrors = inputErrors
<1>1. DOMAIN With(record, Defaults) = OutputFields /\ "processingErrors" \in OutputFields
  BY WithFields, TheFields
<1> QED BY <1>1 DEF Cleaned, Fresh

LEMMA CleanedKeepsBase ==
  ASSUME DOMAIN record = OutputFields
  PROVE  \A f \in BaseFields : Cleaned[f] = record[f]
<1> DEFINE clean == With(record, Defaults)
<1>1. DOMAIN clean = OutputFields /\ \A f \in BaseFields : clean[f] = record[f]
  BY WithFields DEF BaseFields, OutputFields
<1>2. "processingErrors" \notin BaseFields /\ BaseFields \subseteq OutputFields
  BY TheFields DEF BaseFields, OutputFields
<1> HIDE DEF clean
<1>3. Cleaned = [clean EXCEPT !.processingErrors = inputErrors]
  BY DEF Cleaned, Fresh, clean
<1> QED BY <1>1, <1>2, <1>3

\* The fields of the stages: each is one of the output, and no two stages share one.
LEMMA FieldsOfStages ==
  /\ StageFields.decoder = {"decodeStatus", "decoded"}
  /\ StageFields.preprocessor = {"preprocessStatus", "action", "reason", "view"}
  /\ StageFields.flow = {"flow"}
  /\ StageFields["decoder"] = StageFields.decoder /\ StageFields["preprocessor"] = StageFields.preprocessor
  /\ StageFields["flow"] = StageFields.flow
  /\ DOMAIN StageFields = {"decoder", "preprocessor", "flow"}
BY DEF StageFields

LEMMA TheBaseFields ==
  BaseFields = {"timestamp", "timestampIso", "network", "transport", "status", "errors", "protocol",
                "application", "hex", "preview", "payloadLen"}
BY TheFields DEF BaseFields, OutputFields

\* What a stage adds to the errors when it fails.
LEMMA FailErrors ==
  ASSUME NEW at \in DOMAIN StageFields, NEW wrote \in SUBSET StageFields[at], DOMAIN output = OutputFields
  PROVE  Fail(output, at, wrote).processingErrors = output.processingErrors \cup {Exception(at)}
<1> DEFINE half == With(output, Only(Half, wrote))
           undone == With(half, Only(Defaults, StageFields[at]))
<1>1. "processingErrors" \notin StageFields[at] /\ "processingErrors" \in OutputFields
  BY FieldsOfStages, TheFields
<1>2. DOMAIN half = OutputFields /\ half.processingErrors = output.processingErrors
  BY <1>1, WithFields, OnlyFields
<1>3. DOMAIN undone = OutputFields /\ undone.processingErrors = output.processingErrors
  <2> HIDE DEF half
  <2> QED BY <1>1, <1>2, WithFields, OnlyFields
<1> HIDE DEF undone
<1>4. Fail(output, at, wrote) = [undone EXCEPT !.processingErrors = @ \cup {Exception(at)}]
  BY DEF Fail, undone
<1> QED BY <1>1, <1>3, <1>4

\* The decoder's two steps.
LEMMA DecoderTells ==
  ASSUME CostsInv, RunDecoder \/ DecoderFails
  PROVE  Told' /\ failed' \subseteq {"decoder"} /\ refused' = 0
<1>1. /\ stage = "decoder" /\ stage' = "preprocessor"
      /\ record' = record /\ inputErrors' = inputErrors /\ refused' = refused
  BY DEF RunDecoder, DecoderFails, Process
<1>2. output = Cleaned /\ failed = {} /\ refused = 0 /\ DOMAIN output = OutputFields
  BY <1>1 DEF CostsInv, EInv
<1>3. Cleaned' = Cleaned /\ output.processingErrors = inputErrors
  BY <1>1, <1>2, CleanedFields DEF Cleaned, CostsInv
<1>4. CASE RunDecoder
  <2> DEFINE result == Decode(Cleaned)
  <2> HIDE DEF result
  <2>1. /\ output' = [output EXCEPT !.decodeStatus = result.decodeStatus, !.decoded = result.decoded,
                                    !.processingErrors = @ \cup result.errors]
        /\ failed' = {}
    BY <1>2, <1>4 DEF RunDecoder, result
  <2>2. /\ \A f \in OutputFields \ {"decodeStatus", "decoded", "processingErrors"} : output'[f] = output[f]
        /\ output'.decodeStatus = result.decodeStatus /\ output'.decoded = result.decoded
        /\ output'.processingErrors = inputErrors \cup result.errors
    BY <1>2, <1>3, <2>1, TheFields
  <2>3. Decode(Cleaned)' = result
    BY <1>3 DEF result
  <2>4. \A f \in BaseFields : output'[f] = Cleaned'[f]
    BY <1>2, <1>3, <2>2, TheBaseFields, TheFields
  <2>5. DecoderTold' /\ ErrorsTold'
    BY <1>1, <2>1, <2>2, <2>3 DEF DecoderTold, ErrorsTold
  <2> QED BY <1>1, <1>2, <2>1, <2>4, <2>5 DEF Told
<1>5. CASE DecoderFails
  <2>1. PICK wrote \in SUBSET StageFields["decoder"] : output' = Fail(output, "decoder", wrote)
    BY <1>5, FieldsOfStages DEF DecoderFails
  <2>2. failed' = {"decoder"}
    BY <1>2, <1>5 DEF DecoderFails
  <2>3. /\ \A f \in OutputFields \ (StageFields["decoder"] \cup {"processingErrors"}) : output'[f] = output[f]
        /\ \A f \in StageFields["decoder"] \ {"processingErrors"} : f \in OutputFields => output'[f] = Defaults[f]
    BY <1>2, <2>1, FailFields, FieldsOfStages
  <2>4. output'.processingErrors = inputErrors \cup {Exception("decoder")}
    BY <1>2, <1>3, <2>1, FailErrors, FieldsOfStages
  <2>5. \A f \in BaseFields : output'[f] = Cleaned'[f]
    BY <1>2, <1>3, <2>3, TheBaseFields, TheFields, FieldsOfStages
  <2>6. \A f \in StageFields.decoder : output'[f] = Defaults[f]
    BY <2>3, FieldsOfStages, TheFields
  <2>7. Undone("decoder")'
    <3>1. Only(output', StageFields.decoder) = Only(Defaults, StageFields.decoder)
      BY <2>6, OnlyAgrees
    <3> QED BY <3>1, FieldsOfStages DEF Undone
  <2>8. DecoderTold' /\ ErrorsTold'
    <3>1. {Exception(at) : at \in failed'} = {Exception("decoder")}
      BY <2>2
    <3> QED BY <1>1, <2>2, <2>4, <2>7, <3>1 DEF DecoderTold, ErrorsTold
  <2> QED BY <1>1, <1>2, <2>2, <2>5, <2>8 DEF Told
<1> QED BY <1>4, <1>5

\* What the preprocessor sees is what it is meant to see.
LEMMA InferredIsSeen ==
  ASSUME DOMAIN record = OutputFields, DOMAIN output = OutputFields, Told
  PROVE  Preprocess(output) = Preprocess(Inferred)
<1> DEFINE seen == Inferred
<1>1. DOMAIN Cleaned = OutputFields /\ Cleaned.processingErrors = inputErrors
  BY CleanedFields
<1>2. \A f \in OutputFields : seen[f] = IF f \in StageFields.decoder THEN output[f] ELSE Cleaned[f]
  BY <1>1, WithFields, OnlyFields DEF Inferred
<1> HIDE DEF seen
<1>3. \A f \in ReadFields : output[f] = seen[f]
  BY <1>2, TheBaseFields, TheFields, FieldsOfStages DEF ReadFields, Told
<1>4. seen.processingErrors = inputErrors
  BY <1>1, <1>2, TheFields, FieldsOfStages
<1>5. \A e \in output.processingErrors : e.type = "invalid_record" => e \in inputErrors
  <2>1. \A at : Exception(at).type # "invalid_record"
    BY DEF Exception
  <2>2. \A e \in Decode(Cleaned).errors : e.type # "invalid_record"
    BY DecodeTells DEF LimitError
  <2> QED BY <2>1, <2>2 DEF Told, ErrorsTold
<1>6. inputErrors \subseteq output.processingErrors
  BY DEF Told, ErrorsTold
<1>7. IsRejected(output) = IsRejected(seen)
  BY <1>4, <1>5, <1>6 DEF IsRejected
<1>8. Preprocess(output) = Preprocess(seen)
  BY <1>3, <1>7, PreprocessReads
<1> QED BY <1>8 DEF seen

\* The preprocessor's two steps.
LEMMA PreprocessorTells ==
  ASSUME CostsInv, RunPreprocessor \/ PreprocessorFails
  PROVE  Told' /\ failed' \subseteq {"decoder", "preprocessor"} /\ refused' = 0
<1>1. /\ stage = "preprocessor" /\ stage' = "policy"
      /\ record' = record /\ inputErrors' = inputErrors /\ refused' = refused
  BY DEF RunPreprocessor, PreprocessorFails, Process
<1>2. /\ DOMAIN record = OutputFields /\ DOMAIN output = OutputFields
      /\ Told /\ failed \subseteq {"decoder"} /\ refused = 0
  BY <1>1 DEF CostsInv, EInv
<1>3. Cleaned' = Cleaned
  BY <1>1 DEF Cleaned
<1>4. ASSUME \A f \in OutputFields \ (StageFields.preprocessor \cup {"processingErrors"}) : output'[f] = output[f]
      PROVE  /\ \A f \in BaseFields : output'[f] = Cleaned'[f]
             /\ Only(output', StageFields.decoder) = Only(output, StageFields.decoder)
             /\ output'.decodeStatus = output.decodeStatus /\ output'.decoded = output.decoded
             /\ output'.flow = output.flow
  <2>1. \A f \in BaseFields \cup StageFields.decoder \cup {"flow"} : output'[f] = output[f]
    BY <1>4, FieldsOfStages, TheFields, TheBaseFields
  <2>2. Only(output', StageFields.decoder) = Only(output, StageFields.decoder)
    BY <2>1, OnlyAgrees
  <2>3. \A f \in BaseFields : output'[f] = Cleaned'[f]
    BY <1>2, <1>3, <2>1 DEF Told
  <2> QED BY <2>1, <2>2, <2>3, FieldsOfStages
<1>5. CASE RunPreprocessor
  <2> DEFINE judged == Preprocess(output)
  <2>1. output' = With(output, judged) /\ failed' = failed
    BY <1>5 DEF RunPreprocessor
  <2>2. DOMAIN judged = StageFields.preprocessor
    BY PreprocessJudges, FieldsOfStages
  <2>3. Only(output', StageFields.preprocessor) = judged
    BY <1>2, <2>1, PreprocessIsRecord
  <2>4. \A f \in OutputFields \ StageFields.preprocessor : output'[f] = output[f]
    BY <1>2, <2>1, <2>2, WithFields
  <2>5. judged = Preprocess(Inferred)
    BY <1>2, InferredIsSeen
  <2> HIDE DEF judged
  <2>6. Inferred' = Inferred
    BY <1>3, <1>4, <2>4 DEF Inferred
  <2>7. Preprocess(Inferred)' = Preprocess(Inferred)
    BY <2>6
  <2>8. PreprocessorTold'
    BY <1>2, <2>1, <2>3, <2>5, <2>7 DEF PreprocessorTold
  <2>9. output'.processingErrors = output.processingErrors
    BY <2>4, TheFields, FieldsOfStages
  <2>10. DecoderTold' /\ ErrorsTold'
    <3>1. Undone("decoder") => Undone("decoder")'
      BY <1>4, <2>4, FieldsOfStages DEF Undone
    <3>2. Decode(Cleaned)' = Decode(Cleaned)
      BY <1>3
    <3> QED BY <1>1, <1>2, <1>4, <2>1, <2>4, <2>9, <3>1, <3>2 DEF DecoderTold, ErrorsTold, Told
  <2> QED BY <1>1, <1>2, <1>4, <2>1, <2>4, <2>8, <2>10 DEF Told
<1>6. CASE PreprocessorFails
  <2>1. PICK wrote \in SUBSET StageFields["preprocessor"] :
          output' = [Fail(output, "preprocessor", wrote) EXCEPT !.reason = "preprocessor failed"]
    BY <1>6, FieldsOfStages DEF PreprocessorFails
  <2>2. failed' = failed \cup {"preprocessor"}
    BY <1>6 DEF PreprocessorFails
  <2> DEFINE out == Fail(output, "preprocessor", wrote)
  <2>3. /\ DOMAIN out = OutputFields
        /\ \A f \in OutputFields \ (StageFields["preprocessor"] \cup {"processingErrors"}) : out[f] = output[f]
        /\ \A f \in StageFields["preprocessor"] \ {"processingErrors"} : f \in OutputFields => out[f] = Defaults[f]
    BY <1>2, FailFields, FieldsOfStages
  <2>4. out.processingErrors = output.processingErrors \cup {Exception("preprocessor")}
    BY <1>2, FailErrors, FieldsOfStages
  <2> HIDE DEF out
  <2>5. /\ \A f \in OutputFields \ {"reason"} : output'[f] = out[f]
        /\ output'.reason = "preprocessor failed"
    BY <2>1, <2>3, TheFields DEF out
  <2>6. \A f \in OutputFields \ (StageFields.preprocessor \cup {"processingErrors"}) : output'[f] = output[f]
    BY <2>3, <2>5, FieldsOfStages
  <2>7. output'.action = "skip_flow" /\ output'.view = EmptyView
    BY <2>3, <2>5, FieldsOfStages, TheFields DEF Defaults
  <2>8. output'.processingErrors = output.processingErrors \cup {Exception("preprocessor")}
    BY <2>4, <2>5, TheFields
  <2>9. PreprocessorTold'
    BY <2>2, <2>5, <2>7 DEF PreprocessorTold
  <2>10. DecoderTold' /\ ErrorsTold'
    <3>1. Undone("decoder") => Undone("decoder")'
      BY <1>4, <2>6, FieldsOfStages DEF Undone
    <3>2. Decode(Cleaned)' = Decode(Cleaned)
      BY <1>3
    <3>3. {Exception(at) : at \in failed'} = {Exception(at) : at \in failed} \cup {Exception("preprocessor")}
      BY <2>2
    <3>4. "decoder" \in failed' <=> "decoder" \in failed
      BY <2>2
    <3>5. DecoderTold'
      BY <1>2, <1>4, <2>6, <3>1, <3>2, <3>4 DEF DecoderTold, Told
    <3>6. ErrorsTold'
      BY <1>1, <1>2, <2>8, <3>2, <3>3, <3>4 DEF ErrorsTold, Told
    <3> QED BY <3>5, <3>6
  <2> QED BY <1>1, <1>2, <1>4, <2>2, <2>6, <2>9, <2>10 DEF Told
<1> QED BY <1>5, <1>6

\* A step that changes at most the flow, and the errors by its own failure.
LEMMA FlowTells ==
  ASSUME DOMAIN record = OutputFields, DOMAIN output = OutputFields, Told, stage # "preprocessor",
         record' = record, inputErrors' = inputErrors,
         \A f \in OutputFields \ {"flow", "processingErrors"} : output'[f] = output[f],
         \/ failed' = failed /\ output'.processingErrors = output.processingErrors
         \/ /\ failed' = failed \cup {"flow"}
            /\ output'.processingErrors = output.processingErrors \cup {Exception("flow")},
         "flow" \in failed' => output'.flow = {}
  PROVE  Told'
<1>1. Cleaned' = Cleaned
  BY DEF Cleaned
<1>2. \A f \in BaseFields \cup StageFields.decoder \cup StageFields.preprocessor : output'[f] = output[f]
  BY FieldsOfStages, TheFields, TheBaseFields
<1>3. /\ Only(output', StageFields.decoder) = Only(output, StageFields.decoder)
      /\ Only(output', StageFields.preprocessor) = Only(output, StageFields.preprocessor)
  BY <1>2, OnlyAgrees
<1>4. \A f \in BaseFields : output'[f] = Cleaned'[f]
  BY <1>1, <1>2 DEF Told
<1>5. /\ Decode(Cleaned)' = Decode(Cleaned)
      /\ "decoder" \in failed' <=> "decoder" \in failed
      /\ "preprocessor" \in failed' <=> "preprocessor" \in failed
  BY <1>1
<1>6. DecoderTold'
  <2>1. Undone("decoder") => Undone("decoder")'
    BY <1>3, FieldsOfStages DEF Undone
  <2> QED BY <1>2, <1>5, <2>1, FieldsOfStages DEF DecoderTold, Told
<1>7. ErrorsTold'
  <2>1. failed' = failed \cup {"flow"} =>
          {Exception(at) : at \in failed'} = {Exception(at) : at \in failed} \cup {Exception("flow")}
    OBVIOUS
  <2> QED BY <1>5, <2>1 DEF ErrorsTold, Told
<1>8. PreprocessorTold'
  <2>1. Inferred' = Inferred
    BY <1>1, <1>3 DEF Inferred
  <2>2. Preprocess(Inferred)' = Preprocess(Inferred)
    BY <2>1
  <2>3. output'.action = output.action /\ output'.view = output.view /\ output'.reason = output.reason
    BY <1>2, FieldsOfStages
  <2> QED BY <1>3, <1>5, <2>2, <2>3 DEF PreprocessorTold, Told
<1> QED BY <1>4, <1>6, <1>7, <1>8 DEF Told

LEMMA CostsBegin ==
  ASSUME NEW r, DOMAIN r = OutputFields, NEW errors, Begin(r, errors), EInv'
  PROVE  CostsInv'
<1>1. /\ record' = r /\ inputErrors' = errors /\ output' = Fresh(r, errors)
      /\ stage' = "decoder" /\ failed' = {} /\ refused' = 0
  BY DEF Begin
<1>2. output' = Cleaned'
  BY <1>1 DEF Cleaned
<1> QED BY <1>1, <1>2 DEF CostsInv

\* Nothing of the enricher changes.
LEMMA CostsStay ==
  ASSUME CostsInv, EInv', UNCHANGED <<record, inputErrors, output, stage, failed, refused>>
  PROVE  CostsInv'
<1>1. Cleaned' = Cleaned
  BY DEF Cleaned
<1>2. Told => Told'
  BY <1>1 DEF Told, DecoderTold, ErrorsTold, PreprocessorTold, Undone, Inferred
<1>3. FallbackTold => FallbackTold'
  BY DEF FallbackTold, RefusalTold
<1> QED BY <1>1, <1>2, <1>3 DEF CostsInv

\* What a refused write leaves: the base fields the first time, and the defaults in any case.
LEMMA RefusedWrite ==
  ASSUME DOMAIN output = OutputFields, Refuse
  PROVE  /\ \A f \in BaseFields : output'[f] = IF refused = 0 THEN output[f] ELSE SourceOnly[f]
         /\ \A f \in DOMAIN Defaults \ {"reason", "processingErrors"} : output'[f] = Defaults[f]
         /\ output'.reason = "record could not be written" /\ output'.processingErrors = {Exception("output")}
<1> DEFINE base == IF refused = 0 THEN With(output, Defaults) ELSE SourceOnly
<1>1. output' = [base EXCEPT !.reason = "record could not be written", !.processingErrors = {Exception("output")}]
  BY DEF Refuse, Fallback
<1>2. /\ DOMAIN With(output, Defaults) = OutputFields
      /\ \A f \in BaseFields : With(output, Defaults)[f] = output[f]
      /\ \A f \in DOMAIN Defaults : With(output, Defaults)[f] = Defaults[f]
  BY WithFields, TheFields DEF BaseFields, OutputFields
<1>3. \A f \in DOMAIN Defaults : SourceOnly[f] = Defaults[f]
  BY TheFields DEF OutputFields, SourceOnly, NotEnriched, Defaults
<1>4. /\ DOMAIN base = OutputFields
      /\ \A f \in BaseFields : base[f] = IF refused = 0 THEN output[f] ELSE SourceOnly[f]
      /\ \A f \in DOMAIN Defaults : base[f] = Defaults[f]
  BY <1>2, <1>3 DEF OutputFields
<1> HIDE DEF base
<1>5. /\ \A f \in OutputFields \ {"reason", "processingErrors"} : output'[f] = base[f]
      /\ output'.reason = "record could not be written" /\ output'.processingErrors = {Exception("output")}
  BY <1>1, <1>4, TheFields
<1>6. /\ BaseFields \subseteq OutputFields \ {"reason", "processingErrors"}
      /\ DOMAIN Defaults \subseteq OutputFields
  BY TheFields DEF BaseFields, OutputFields
<1> QED BY <1>4, <1>5, <1>6

LEMMA CostsEnricherStep ==
  ASSUME CostsInv, EnricherNext, EInv'
  PROVE  CostsInv'
<1>1. DOMAIN record = OutputFields /\ DOMAIN output = OutputFields /\ refused \in Nat
  BY DEF CostsInv, EInv
<1>2. record' = record /\ inputErrors' = inputErrors
  BY DEF EnricherNext, RunDecoder, DecoderFails, RunPreprocessor, PreprocessorFails, Drop, Pass, Track,
         TrackerFails, Write, Refuse, Process
<1>3. CASE RunDecoder \/ DecoderFails
  <2>1. stage' = "preprocessor"
    BY <1>3 DEF RunDecoder, DecoderFails, Process
  <2> QED BY <1>1, <1>2, <1>3, <2>1, DecoderTells DEF CostsInv
<1>4. CASE RunPreprocessor \/ PreprocessorFails
  <2>1. stage' = "policy"
    BY <1>4 DEF RunPreprocessor, PreprocessorFails, Process
  <2> QED BY <1>1, <1>2, <1>4, <2>1, PreprocessorTells DEF CostsInv
<1>5. CASE Drop \/ Pass \/ Write
  <2>1. /\ stage \in {"policy", "write"} /\ stage' \in {"flow", "write", "dropped", "done"}
        /\ stage' = "flow" => stage = "policy"
        /\ output' = output /\ failed' = failed /\ refused' = refused
    BY <1>5 DEF Drop, Pass, Write, Process
  <2>2. refused = 0 => Told
    BY <2>1 DEF CostsInv
  <2>3. refused = 0 => Told'
    <3>1. SUFFICES ASSUME refused = 0 PROVE Told'
      OBVIOUS
    <3>2. "flow" \in failed' => output'.flow = {}
      BY <2>1, <2>2, <3>1 DEF Told
    <3> QED BY <1>1, <1>2, <2>1, <2>2, <3>1, <3>2, FlowTells
  <2>4. stage' = "flow" => refused' = 0 /\ failed' \subseteq {"decoder", "preprocessor"}
    BY <2>1 DEF CostsInv
  <2>5. refused' > 0 => FallbackTold'
    BY <1>2, <2>1 DEF CostsInv, FallbackTold, RefusalTold
  <2> QED BY <1>1, <1>2, <2>1, <2>3, <2>4, <2>5 DEF CostsInv
<1>6. CASE Track \/ TrackerFails
  <2>1. stage = "flow" /\ stage' = "write" /\ refused' = refused
    BY <1>6 DEF Track, TrackerFails, Process
  <2>2. Told /\ refused = 0 /\ failed \subseteq {"decoder", "preprocessor"}
    BY <2>1 DEF CostsInv
  <2>3. Told'
    <3>1. CASE Track
      <4>1. output' = [output EXCEPT !.flow = {Flow}] /\ failed' = failed
        BY <3>1 DEF Track
      <4>2. \A f \in OutputFields \ {"flow"} : output'[f] = output[f]
        BY <1>1, <4>1
      <4>3. output'.processingErrors = output.processingErrors
        BY <4>2, TheFields
      <4>4. "flow" \notin failed'
        BY <2>2, <4>1
      <4> QED BY <1>1, <1>2, <2>1, <2>2, <4>1, <4>2, <4>3, <4>4, FlowTells
    <3>2. CASE TrackerFails
      <4>1. PICK wrote \in SUBSET StageFields["flow"] : output' = Fail(output, "flow", wrote)
        BY <3>2, FieldsOfStages DEF TrackerFails
      <4>2. failed' = failed \cup {"flow"}
        BY <3>2 DEF TrackerFails
      <4>3. /\ \A f \in OutputFields \ (StageFields["flow"] \cup {"processingErrors"}) : output'[f] = output[f]
            /\ \A f \in StageFields["flow"] \ {"processingErrors"} : f \in OutputFields => output'[f] = Defaults[f]
        BY <1>1, <4>1, FailFields, FieldsOfStages
      <4>4. output'.processingErrors = output.processingErrors \cup {Exception("flow")}
        BY <1>1, <4>1, FailErrors, FieldsOfStages
      <4>5. output'.flow = {}
        BY <4>3, FieldsOfStages, TheFields
      <4>6. \A f \in OutputFields \ {"flow", "processingErrors"} : output'[f] = output[f]
        BY <4>3, FieldsOfStages
      <4> QED BY <1>1, <1>2, <2>1, <2>2, <4>2, <4>4, <4>5, <4>6, FlowTells
    <3> QED BY <1>6, <3>1, <3>2
  <2> QED BY <1>1, <1>2, <2>1, <2>2, <2>3 DEF CostsInv
<1>7. CASE Refuse
  <2>1. stage = "write" /\ stage' = "write" /\ refused' = refused + 1 /\ refused < 2
    BY <1>7 DEF Refuse
  <2>2. refused = 0 => \A f \in BaseFields : output[f] = record[f]
    BY <1>1, <2>1, CleanedKeepsBase DEF CostsInv, Told
  <2>3. FallbackTold'
    <3>1. refused' < 2 <=> refused = 0
      BY <1>1, <2>1
    <3> QED BY <1>1, <1>2, <1>7, <2>2, <3>1, RefusedWrite DEF FallbackTold, RefusalTold
  <2> QED BY <1>1, <1>2, <2>1, <2>3 DEF CostsInv
<1> QED BY <1>3, <1>4, <1>5, <1>6, <1>7 DEF EnricherNext

\* A step of the program, seen from the enricher.
LEMMA StepsOfPath ==
  ASSUME EInv, [Next]_vars
  PROVE  \/ \E r, errors : DOMAIN r = OutputFields /\ Begin(r, errors)
         \/ EnricherNext
         \/ UNCHANGED <<record, inputErrors, output, stage, failed, refused>>
         \/ stage = "idle" /\ stage' = "ignored" /\ UNCHANGED <<record, inputErrors, output, failed, refused>>
<1>1. CASE Read /\ Untouched /\ UNCHANGED <<enricherVars, failing, event>>
  BY <1>1 DEF enricherVars
<1>2. ASSUME NEW fails \in Failures, ProcessPacket(fails)
      PROVE  \/ \E r, errors : DOMAIN r = OutputFields /\ Begin(r, errors)
             \/ stage = "idle" /\ stage' = "ignored" /\ UNCHANGED <<record, inputErrors, output, failed, refused>>
  BY <1>2, NotEnrichedFields DEF ProcessPacket, OutputFields
<1>3. CASE ReadItem
  BY <1>3 DEF ReadItem, enricherVars
<1>4. CASE TakeItem
  <2>1. taken + 1 \in 1..Len(items) /\ items \in Seq(LineItem)
    BY <1>4 DEF TakeItem, EInv
  <2>2. items[taken + 1].record \subseteq Names
    <3>1. items[taken + 1] \in LineItem
      BY <2>1
    <3> QED BY <3>1 DEF LineItem
  <2>3. \A name \in Names : DOMAIN Events[name] = OutputFields
    BY FilesNameEvents, RecordsHaveFields DEF OutputFields
  <2> QED BY <1>4, <2>2, <2>3 DEF TakeItem, OutputFields
<1>5. CASE Replay
  BY <1>5 DEF Replay, EInv
<1>6. ASSUME NEW r \in Records, TakeRecord(r)
      PROVE  DOMAIN r = OutputFields /\ Begin(r, {})
  BY <1>6, RecordsHaveFields DEF TakeRecord, OutputFields
<1>7. CASE UNCHANGED vars
  BY <1>7 DEF vars, enricherVars
<1> QED BY <1>1, <1>2, <1>3, <1>4, <1>5, <1>6, <1>7 DEF Next

LEMMA CostsStepKeeps == CostsInv /\ [Next]_vars => CostsInv'
<1> SUFFICES ASSUME CostsInv, [Next]_vars PROVE CostsInv'
  OBVIOUS
<1>1. EInv /\ EInv'
  BY PathStepKeeps DEF CostsInv
<1>2. CASE stage = "idle" /\ stage' = "ignored" /\ UNCHANGED <<record, inputErrors, output, failed, refused>>
  BY <1>1, <1>2 DEF CostsInv, FallbackTold, RefusalTold
<1> QED BY <1>1, <1>2, StepsOfPath, CostsBegin, CostsEnricherStep, CostsStay

LEMMA CostsStart == Init => CostsInv
<1> SUFFICES ASSUME Init PROVE CostsInv
  OBVIOUS
<1>1. record = SourceOnly /\ stage = "idle" /\ refused = 0
  BY DEF Init
<1> QED BY <1>1, PathStarts DEF CostsInv, OutputFields

\* README, Stage contract: a stage of Enricher.process that raises half-way costs its own fields and no other,
\* nothing of an earlier run of the record is left, and the failures are in processing_errors.  A refused write
\* (fallback_record) costs every inferred field, and a second one the fields of the event as well.
THEOREM FailuresCostOwnFields == Spec => []FailureCostsOwnFields
<1>1. CostsInv => FailureCostsOwnFields
  <2> SUFFICES ASSUME CostsInv, stage \in {"policy", "flow", "write", "done", "dropped"}
               PROVE  /\ \A f \in BaseFields : output[f] = IF refused < 2 THEN record[f] ELSE SourceOnly[f]
                      /\ IF refused = 0 THEN InferenceTold ELSE RefusalTold
    BY DEF FailureCostsOwnFields
  <2>1. CASE refused = 0
    <3>1. Told /\ stage # "preprocessor"
      BY <2>1 DEF CostsInv
    <3>2. \A f \in BaseFields : output[f] = record[f]
      BY <3>1, CleanedKeepsBase DEF Told, CostsInv
    <3>3. InferenceTold
      BY <3>1 DEF InferenceTold, Told, DecoderTold, ErrorsTold, PreprocessorTold, Inferred
    <3> QED BY <2>1, <3>2, <3>3
  <2>2. CASE refused # 0
    <3>1. FallbackTold
      BY <2>2 DEF CostsInv
    <3> QED BY <2>2, <3>1 DEF FallbackTold
  <2> QED BY <2>1, <2>2
<1> QED BY CostsStart, CostsStepKeeps, <1>1, PTL DEF Spec

-------------------------------------------------------------------------------
\* The packets.

\* A packet has at most one IPv4 header and at most one layer behind it.
LEMMA PacketsHaveOne ==
  ASSUME NEW p \in Packets
  PROVE  /\ \A ip, other \in p.ip : ip = other
         /\ \A t, other \in p.layer : t = other
<1>1. ASSUME NEW S, IsFiniteSet(S), Cardinality(S) <= 1, NEW x \in S, NEW y \in S
      PROVE  x = y
  <2>1. Cardinality(S) \in Nat /\ Cardinality(S) # 0
    BY <1>1, FS_CardinalityType, FS_EmptySet
  <2>2. Cardinality(S) = 1
    BY <1>1, <2>1
  <2> QED BY <1>1, <2>2, FS_Singleton
<1>2. IsFiniteSet(p.ip) /\ IsFiniteSet(p.layer)
  <2>1. IsFiniteSet(p.ip \cup p.layer) /\ p.ip \subseteq p.ip \cup p.layer /\ p.layer \subseteq p.ip \cup p.layer
    BY PacketsAreDissected
  <2> QED BY <2>1, FS_Subset
<1> QED BY <1>1, <1>2, PacketsAreDissected

\* What is kept of the payload is not longer than the headers declare.
LEMMA PayloadIsDeclared ==
  ASSUME NEW p \in Packets, NEW ip \in p.ip, NEW t \in p.layer
  PROVE  /\ Declared(t, ip) \in Nat
         /\ Len(CutTo(p.captured, Declared(t, ip)).units) <= Declared(t, ip)
<1>1. ip.headerLen \in Int /\ ip.totalLen \in Int /\ t.headerLen \in Int /\ t.length \in Int
  BY PacketsAreDissected
<1>2. Declared(t, ip) \in Nat
  BY <1>1 DEF Declared
<1> DEFINE n == Declared(t, ip)
<1> HIDE DEF n
<1>3. n \in Nat
  BY <1>2 DEF n
<1>4. PICK S : p.captured.units \in Seq(S)
  BY PacketsAreDissected
<1>5. Len(SubSeq(p.captured.units, 1, AtMost(n, Len(p.captured.units)))) <= n
  BY <1>3, <1>4 DEF AtMost
<1>6. CutTo(p.captured, n).units = SubSeq(p.captured.units, 1, AtMost(n, Len(p.captured.units)))
  BY PacketsAreDissected DEF CutTo
<1> QED BY <1>2, <1>5, <1>6 DEF n

-------------------------------------------------------------------------------
\* The pipeline, stage by stage.

\* What the transport stage leaves is as good as it says.
LEMMA TransportIsHonest ==
  ASSUME NEW p \in Packets, NEW fails,
         NEW net, net = NetworkStage(p, fails), NEW part, part = TransportStage(p, net, fails)
  PROVE  /\ part.status = "unsupported" => part.errors = {} /\ part.transport = {}
         /\ part.status = "ok" => part.errors = {} /\ part.transport # {}
         /\ part.transport = {} => part.payload = Empty
         /\ \A t \in part.transport : \A ip \in net.network :
              ip.fragOffset = 0 /\ Len(part.payload.units) <= Declared(t, ip)
<1>1. net.network \subseteq p.ip
  BY DEF NetworkStage, ParseIpv4
<1>2. ASSUME NEW status, NEW errors, part = NoTransport(status, errors)
      PROVE  part.transport = {} /\ part.payload = Empty /\ part.status = status /\ part.errors = errors
  BY <1>2 DEF NoTransport
<1>3. CASE \/ net.errors # {} \/ net.network = {} \/ \E ip \in net.network : ip.fragOffset > 0
           \/ "transport" \in fails
  <2>1. \/ net.errors # {} /\ part = NoTransport("malformed", net.errors)
        \/ part = NoTransport("unsupported", {})
        \/ part = NoTransport("partial", {Fault("network", "fragment")})
        \/ part = NoTransport("malformed", {Raised("transport")})
    BY <1>3 DEF TransportStage
  <2> QED BY <1>2, <2>1
<1>4. CASE ~(\/ net.errors # {} \/ net.network = {} \/ \E ip \in net.network : ip.fragOffset > 0
             \/ "transport" \in fails)
  <2> DEFINE ip == CHOOSE x \in net.network : TRUE
             layer == CHOOSE x \in p.layer : TRUE
  <2>1. part = ParseTransport(p, ip) /\ ip \in net.network
    BY <1>4 DEF TransportStage
  <2>2. \A other \in net.network : other = ip /\ other.fragOffset = 0
    <3>1. \A other \in net.network : other.fragOffset \in Nat /\ ~(other.fragOffset > 0)
      BY <1>1, <1>4, PacketsAreDissected
    <3>2. \A other \in net.network : other = ip
      BY <1>1, <2>1, PacketsHaveOne
    <3>3. \A n \in Nat : ~(n > 0) => n = 0
      OBVIOUS
    <3> QED BY <3>1, <3>2, <3>3
  <2> HIDE DEF ip
  <2>3. \/ part = NoTransport("malformed", {Fault("transport", "truncated")})
        \/ part = NoTransport("malformed", {Fault("transport", "malformed")})
        \/ part = NoTransport("unsupported", {})
        \/ p.layer # {} /\ part = ReadLayer(layer, ip, p.captured)
    BY <2>1 DEF ParseTransport
  <2>4. CASE p.layer # {} /\ part = ReadLayer(layer, ip, p.captured)
    <3>1. layer \in p.layer /\ ip \in p.ip
      BY <1>1, <2>1, <2>4
    <3> HIDE DEF layer
    <3>2. /\ part.transport = {layer} /\ part.payload = CutTo(p.captured, Declared(layer, ip))
          /\ \/ part.status = "ok" /\ part.errors = {}
             \/ part.status = "partial"
      BY <2>4 DEF ReadLayer
    <3>3. Len(part.payload.units) <= Declared(layer, ip)
      BY <3>1, <3>2, PayloadIsDeclared
    <3> QED BY <2>2, <3>2, <3>3
  <2> QED BY <1>2, <2>3, <2>4
<1> QED BY <1>3, <1>4

\* An event that is being made.
IsBase(base) == DOMAIN base = DOMAIN MalformedEvent

LEMMA AssembledFields ==
  ASSUME NEW base, IsBase(base), NEW part, NEW d, NEW application
  PROVE  LET e == Assembled(base, part, d, application)
         IN  /\ IsBase(e) /\ e.network = base.network /\ e.transport = part.transport
             /\ e.payload = part.payload /\ e.detection = d /\ e.application = application
             /\ application = {} => e.status = part.status /\ e.errors = part.errors
             /\ \A a : application = {a} =>
                  /\ e.status = ApplicationStatus(part.status, a, d.protocol)
                  /\ e.errors = part.errors \cup {Fault("application", type) : type \in a.errors}
<1>1. \A a : application = {a} =>
        /\ (CHOOSE x \in application : TRUE) = a
        /\ UNION {{Fault("application", type) : type \in x.errors} : x \in application}
             = {Fault("application", type) : type \in a.errors}
  OBVIOUS
<1>2. application = {} => UNION {{Fault("application", type) : type \in x.errors} : x \in application} = {}
  OBVIOUS
<1> DEFINE chosen == CHOOSE x \in application : TRUE
           errors == UNION {{Fault("application", type) : type \in x.errors} : x \in application}
<1>3. Assembled(base, part, d, application) =
        [base EXCEPT !.transport = part.transport, !.payload = part.payload, !.detection = d,
           !.application = application,
           !.status = IF application = {} THEN part.status ELSE ApplicationStatus(part.status, chosen, d.protocol),
           !.errors = part.errors \cup errors]
  BY DEF Assembled
<1> HIDE DEF chosen, errors
<1>4. DOMAIN base = {"time", "network", "transport", "payload", "detection", "application", "status", "errors"}
  BY DEF IsBase, MalformedEvent
<1> QED BY <1>1, <1>2, <1>3, <1>4 DEF IsBase, chosen, errors

LEMMA MarredFields ==
  ASSUME NEW base, IsBase(base), NEW at
  PROVE  LET e == Marred(base, at)
         IN  /\ IsBase(e) /\ \A f \in DOMAIN base \ {"status", "errors"} : e[f] = base[f]
             /\ e.status = "malformed" /\ Raised(at) \in e.errors /\ base.errors \subseteq e.errors
BY DEF Marred, IsBase, MalformedEvent

\* Without a payload no parser runs.
LEMMA NothingIsNotParsed ==
  ASSUME NEW transport, NEW payload, Detect(transport, payload).method \in {"payload", "port+payload"}
  PROVE  payload.units # <<>>
<1> SUFFICES ASSUME payload.units = <<>> PROVE FALSE
  OBVIOUS
<1>1. \E hint, found : Detect(transport, payload) = Detection(TRUE, hint, found)
  BY DEF Detect
<1>2. \A hint, found : Detection(TRUE, hint, found).method \in {"none", "port"}
  BY DEF Detection, Undetected
<1> QED BY <1>1, <1>2

\* What EventIsHonest says of an event and its packet.
Honest(e, p, fails) ==
  /\ e.status = "unsupported" => e.errors = {} /\ e.transport = {}
  /\ e.status = "ok" => e.errors = {} /\ e.transport # {}
  /\ fails \cap {"envelope", "network"} = {} => e.network = p.ip
  /\ e.application # {} => e.transport # {}
  /\ \A t \in e.transport : \A ip \in e.network :
       ip.fragOffset = 0 /\ Len(e.payload.units) <= Declared(t, ip)

\* The application stage adds to the errors of the transport and takes nothing back.
LEMMA ApplicationIsHonest ==
  ASSUME NEW base, IsBase(base), NEW part, NEW fails,
         part.status = "unsupported" => part.errors = {} /\ part.transport = {},
         part.status = "ok" => part.errors = {} /\ part.transport # {},
         part.transport = {} => part.payload = Empty
  PROVE  LET e == DetectorStage(base, part, fails)
         IN  /\ e.status = "unsupported" => e.errors = {} /\ e.transport = {}
             /\ e.status = "ok" => e.errors = {} /\ e.transport # {}
             /\ e.application # {} => e.transport # {}
             /\ e.network = base.network /\ e.transport = part.transport /\ e.payload = part.payload
<1> DEFINE e == DetectorStage(base, part, fails)
<1>1. \A d : LET a == Assembled(base, part, d, {})
             IN  /\ IsBase(a) /\ a.network = base.network /\ a.transport = part.transport
                 /\ a.payload = part.payload /\ a.application = {}
                 /\ a.status = part.status /\ a.errors = part.errors
  BY AssembledFields
<1>2. ASSUME NEW a, NEW at, IsBase(a)
      PROVE  LET m == Marred(a, at)
             IN  /\ m.network = a.network /\ m.transport = a.transport /\ m.payload = a.payload
                 /\ m.application = a.application /\ m.status = "malformed"
  <2>1. DOMAIN a = {"time", "network", "transport", "payload", "detection", "application", "status", "errors"}
    BY <1>2 DEF IsBase, MalformedEvent
  <2> QED BY <1>2, <2>1, MarredFields
<1>3. CASE \E d : e = Assembled(base, part, d, {})
  BY <1>1, <1>3
<1>4. CASE \E d, at : e = Marred(Assembled(base, part, d, {}), at)
  <2>1. PICK d, at : e = Marred(Assembled(base, part, d, {}), at)
    BY <1>4
  <2> DEFINE a == Assembled(base, part, d, {})
  <2>2. /\ IsBase(a) /\ a.network = base.network /\ a.transport = part.transport
        /\ a.payload = part.payload /\ a.application = {}
    BY <1>1
  <2> HIDE DEF a
  <2>3. e = Marred(a, at)
    BY <2>1 DEF a
  <2> HIDE DEF e
  <2>4. /\ e.network = a.network /\ e.transport = a.transport /\ e.payload = a.payload
        /\ e.application = a.application /\ e.status = "malformed"
    BY <1>2, <2>2, <2>3
  <2> QED BY <2>2, <2>4 DEF e
<1>5. CASE \E d, a : /\ e = Assembled(base, part, d, {a})
                     /\ d = Detect(part.transport, part.payload) /\ d.method \in {"payload", "port+payload"}
  <2>1. PICK d, a : /\ e = Assembled(base, part, d, {a})
                    /\ d = Detect(part.transport, part.payload) /\ d.method \in {"payload", "port+payload"}
    BY <1>5
  <2>2. part.payload.units # <<>>
    BY <2>1, NothingIsNotParsed
  <2>3. part.transport # {}
    BY <2>2 DEF Empty
  <2>4. /\ e.network = base.network /\ e.transport = part.transport /\ e.payload = part.payload
        /\ e.status = ApplicationStatus(part.status, a, d.protocol)
        /\ e.errors = part.errors \cup {Fault("application", type) : type \in a.errors}
    BY <2>1, AssembledFields
  <2>5. \/ e.status \in {"malformed", "partial"}
        \/ e.status = part.status /\ a.errors = {}
    BY <2>4, Zenon DEF ApplicationStatus
  <2>6. a.errors = {} => e.errors = part.errors
    BY <2>4
  <2> HIDE DEF e
  <2> QED BY <2>3, <2>4, <2>5, <2>6 DEF e
<1>6. \/ \E d : e = Assembled(base, part, d, {})
      \/ \E d, at : e = Marred(Assembled(base, part, d, {}), at)
      \/ \E d, a : /\ e = Assembled(base, part, d, {a})
                   /\ d = Detect(part.transport, part.payload) /\ d.method \in {"payload", "port+payload"}
  BY Zenon DEF DetectorStage, ApplicationStage
<1> QED BY <1>3, <1>4, <1>5, <1>6

LEMMA EventsAreHonest ==
  ASSUME NEW p \in Packets, NEW fails, NEW pol, NEW e \in PipelineProcess(p, fails, pol)
  PROVE  Honest(e, p, fails)
<1>1. CASE "envelope" \in fails
  <2>1. e = MalformedEvent
    BY <1>1 DEF PipelineProcess
  <2> QED BY <1>1, <2>1 DEF Honest, MalformedEvent
<1>2. CASE "envelope" \notin fails
  <2>1. e = BuildEvent(p, fails)
    BY <1>2 DEF PipelineProcess
  <2> DEFINE net == NetworkStage(p, fails)
             part == TransportStage(p, net, fails)
             base == [MalformedEvent EXCEPT !.time = p.time, !.network = net.network]
  <2>2. e = DetectorStage(base, part, fails)
    BY <2>1 DEF BuildEvent
  <2>3. IsBase(base) /\ base.network = net.network
    BY DEF IsBase, MalformedEvent
  <2>4. "network" \notin fails => net.network = p.ip
    BY DEF NetworkStage, ParseIpv4
  <2> HIDE DEF net
  <2>5. net = NetworkStage(p, fails)
    BY DEF net
  <2> HIDE DEF part, base
  <2>6. part = TransportStage(p, net, fails)
    BY DEF part
  <2>7. /\ part.status = "unsupported" => part.errors = {} /\ part.transport = {}
        /\ part.status = "ok" => part.errors = {} /\ part.transport # {}
        /\ part.transport = {} => part.payload = Empty
        /\ \A t \in part.transport : \A ip \in net.network :
             ip.fragOffset = 0 /\ Len(part.payload.units) <= Declared(t, ip)
    BY <2>5, <2>6, TransportIsHonest
  <2>8. /\ e.status = "unsupported" => e.errors = {} /\ e.transport = {}
        /\ e.status = "ok" => e.errors = {} /\ e.transport # {}
        /\ e.application # {} => e.transport # {}
        /\ e.network = base.network /\ e.transport = part.transport /\ e.payload = part.payload
    BY <2>2, <2>3, <2>7, ApplicationIsHonest
  <2> QED BY <2>3, <2>4, <2>7, <2>8 DEF Honest
<1> QED BY <1>1, <1>2

\* The event that is at hand is that of the packet.
EventInv ==
  /\ packet \subseteq Packets /\ \A p, q \in packet : p = q
  /\ event \subseteq UNION {PipelineProcess(p, failing, policy) : p \in packet}

LEMMA EventStarts == Init => EventInv
BY DEF Init, EventInv

LEMMA EventStepKeeps == EventInv /\ [Next]_vars => EventInv'
<1> SUFFICES ASSUME EventInv, [Next]_vars PROVE EventInv'
  OBVIOUS
<1>1. ASSUME UNCHANGED <<packet, failing, policy, event>> PROVE EventInv'
  BY <1>1 DEF EventInv
<1>2. ASSUME NEW fails \in Failures, ProcessPacket(fails) PROVE EventInv'
  <2>1. /\ packet' = packet /\ policy' = policy
        /\ event' = UNION {PipelineProcess(p, failing', policy) : p \in packet}
    BY <1>2 DEF ProcessPacket, Untouched, Begin
  <2> QED BY <2>1 DEF EventInv
<1>3. CASE Read /\ Untouched /\ UNCHANGED <<enricherVars, failing, event>>
  BY <1>1, <1>3 DEF Untouched, enricherVars
<1>4. CASE ReadItem \/ TakeItem \/ Replay
  BY <1>1, <1>4 DEF ReadItem, TakeItem, Replay, Begin, enricherVars
<1>5. ASSUME NEW r \in Records, TakeRecord(r) PROVE EventInv'
  BY <1>1, <1>5 DEF TakeRecord, Untouched, Begin
<1>6. CASE EnricherNext /\ Untouched /\ UNCHANGED <<readerVars, failing, event>>
  <2>1. policy' = policy
    BY <1>6 DEF EnricherNext, RunDecoder, DecoderFails, RunPreprocessor, PreprocessorFails, Drop, Pass, Track,
         TrackerFails, Write, Refuse, Process
  <2> QED BY <1>1, <1>6, <2>1 DEF Untouched
<1>7. CASE UNCHANGED vars
  BY <1>1, <1>7 DEF vars, enricherVars
<1> QED BY <1>2, <1>3, <1>4, <1>5, <1>6, <1>7 DEF Next

\* README, Stage contract and Status values: whichever stages of the pipeline raise, the status of an event
\* fits its errors, the lower layers stay, no layer is read from a fragment and no padding as payload.
THEOREM EventsTellTheTruth == Spec => []EventIsHonest
<1>1. EventInv => EventIsHonest
  <2> SUFFICES ASSUME EventInv, NEW e \in event, NEW p \in packet PROVE Honest(e, p, failing)
    BY DEF EventIsHonest, Honest
  <2> QED BY EventsAreHonest DEF EventInv
<1> QED BY EventStarts, EventStepKeeps, <1>1, PTL DEF Spec

-------------------------------------------------------------------------------
\* What an exception leaves to see.

\* The stages behind the transport keep its errors, and leave one of their own when they raise.
LEMMA RaisesShow ==
  ASSUME NEW base, IsBase(base), NEW part, NEW fails
  PROVE  LET e == DetectorStage(base, part, fails)
         IN  /\ part.errors \subseteq e.errors
             /\ e = DetectorStage(base, part, {}) \/ \E at : Raised(at) \in e.errors
<1> DEFINE e == DetectorStage(base, part, fails)
<1>1. ASSUME NEW d, NEW a
      PROVE  /\ IsBase(Assembled(base, part, d, {})) /\ part.errors \subseteq Assembled(base, part, d, {}).errors
             /\ part.errors \subseteq Assembled(base, part, d, {a}).errors
  <2>1. IsBase(Assembled(base, part, d, {})) /\ Assembled(base, part, d, {}).errors = part.errors
    BY AssembledFields
  <2>2. Assembled(base, part, d, {a}).errors = part.errors \cup {Fault("application", type) : type \in a.errors}
    BY AssembledFields
  <2> QED BY <2>1, <2>2
<1>2. CASE \E d, at : e = Marred(Assembled(base, part, d, {}), at)
  <2>1. PICK d, at : e = Marred(Assembled(base, part, d, {}), at)
    BY <1>2
  <2>2. Raised(at) \in e.errors /\ Assembled(base, part, d, {}).errors \subseteq e.errors
    BY <1>1, <2>1, MarredFields
  <2> HIDE DEF e
  <2>3. part.errors \subseteq e.errors
    BY <1>1, <2>2
  <2> QED BY <2>2, <2>3 DEF e
<1>3. CASE /\ e = DetectorStage(base, part, {})
           /\ \E d, a : e = Assembled(base, part, d, {}) \/ e = Assembled(base, part, d, {a})
  BY <1>1, <1>3
<1>4. \/ \E d, at : e = Marred(Assembled(base, part, d, {}), at)
      \/ /\ e = DetectorStage(base, part, {})
         /\ \E d, a : e = Assembled(base, part, d, {}) \/ e = Assembled(base, part, d, {a})
  <2> DEFINE d == Detect(part.transport, part.payload)
             read == ParseApplication(d, part.payload, part.transport)
  <2>1. "detector" \in fails => e = Marred(Assembled(base, part, Undetected, {}), "detector")
    BY DEF DetectorStage
  <2>2. "detector" \notin fails =>
          /\ e = ApplicationStage(base, part, d, fails)
          /\ DetectorStage(base, part, {}) = ApplicationStage(base, part, d, {})
    BY DEF DetectorStage
  <2>3. \/ ApplicationStage(base, part, d, fails) = Marred(Assembled(base, part, d, {}), "application")
        \/ /\ ApplicationStage(base, part, d, fails) = ApplicationStage(base, part, d, {})
           /\ \/ ApplicationStage(base, part, d, {}) = Assembled(base, part, d, {})
              \/ ApplicationStage(base, part, d, {}) = Assembled(base, part, d, {read})
    <3> HIDE DEF d, read
    <3>1. read = ParseApplication(d, part.payload, part.transport)
      BY DEF d, read
    <3> QED BY <3>1, Zenon DEF ApplicationStage
  <2> HIDE DEF e, d, read
  <2> QED BY <2>1, <2>2, <2>3, Zenon
<1> QED BY <1>2, <1>3, <1>4

\* An event differs from that of a pipeline without faults only if it says so.
LEMMA BuildsShow ==
  ASSUME NEW p \in Packets, NEW fails
  PROVE  BuildEvent(p, fails) = BuildEvent(p, {}) \/ \E at : Raised(at) \in BuildEvent(p, fails).errors
<1> DEFINE net == NetworkStage(p, fails)
           clean == NetworkStage(p, {})
           base(n) == [MalformedEvent EXCEPT !.time = p.time, !.network = n.network]
           part == TransportStage(p, net, fails)
<1>1. \A n : IsBase(base(n))
  BY DEF IsBase, MalformedEvent
<1>2. /\ BuildEvent(p, fails) = DetectorStage(base(net), part, fails)
      /\ BuildEvent(p, {}) = DetectorStage(base(clean), TransportStage(p, clean, {}), {})
  BY DEF BuildEvent
<1>3. net = clean \/ net.errors = {Raised("network")}
  BY DEF NetworkStage
<1> HIDE DEF net, clean, base
<1>4. /\ part = NoTransport("malformed", net.errors) \/ net.errors = {}
      /\ \/ part = TransportStage(p, net, {})
         \/ part = NoTransport("malformed", {Raised("transport")})
  BY DEF TransportStage
<1> HIDE DEF part
<1>5. \A status, errors : NoTransport(status, errors).errors = errors
  BY DEF NoTransport
<1>6. \/ net = clean /\ part = TransportStage(p, clean, {})
      \/ \E at : Raised(at) \in part.errors
  BY <1>3, <1>4, <1>5
<1>7. /\ part.errors \subseteq DetectorStage(base(net), part, fails).errors
      /\ \/ DetectorStage(base(net), part, fails) = DetectorStage(base(net), part, {})
         \/ \E at : Raised(at) \in DetectorStage(base(net), part, fails).errors
  BY <1>1, RaisesShow
<1> QED BY <1>2, <1>6, <1>7

LEMMA EventsShow ==
  ASSUME NEW p \in Packets, NEW fails, NEW pol
  PROVE  /\ PipelineProcess(p, fails, pol) = {} => BuildEvent(p, {}).status = "unsupported"
         /\ \A e \in PipelineProcess(p, fails, pol) :
              \/ PipelineProcess(p, fails, pol) = PipelineProcess(p, {}, "keep")
              \/ \E at : Raised(at) \in e.errors
<1>1. PipelineProcess(p, {}, "keep") = {BuildEvent(p, {})}
  BY DEF PipelineProcess
<1>2. CASE "envelope" \in fails
  <2>1. MalformedEvent.status # "unsupported" /\ Raised("pipeline") \in MalformedEvent.errors
    BY DEF MalformedEvent
  <2>2. PipelineProcess(p, fails, pol) = {MalformedEvent}
    BY <1>2, <2>1 DEF PipelineProcess
  <2> QED BY <2>1, <2>2
<1>3. CASE "envelope" \notin fails
  <2> DEFINE event0 == BuildEvent(p, fails)
  <2>1. /\ PipelineProcess(p, fails, "keep") = {event0}
        /\ PipelineProcess(p, fails, pol) \subseteq {event0}
        /\ PipelineProcess(p, fails, pol) = {} => event0.status = "unsupported"
    BY <1>3 DEF PipelineProcess
  <2>2. event0.status = "unsupported" => event0.errors = {}
    BY <2>1, EventsAreHonest DEF Honest
  <2>3. event0 = BuildEvent(p, {}) \/ \E at : Raised(at) \in event0.errors
    BY BuildsShow
  <2> HIDE DEF event0
  <2> QED BY <1>1, <2>1, <2>2, <2>3
<1> QED BY <1>2, <1>3

\* The invariant of FailuresShow: what a record carries from the first stage to the last.

ItsStages == {"decoder", "preprocessor", "policy", "flow", "write", "done", "dropped"}

\* The event of the packet is the one without faults, or the record tells the fault.
Shown ==
  \A p \in packet : event # PipelineProcess(p, {}, "keep") => \E e \in record.errors \cup inputErrors : IsException(e)

ShowInv ==
  /\ CostsInv /\ rounds \in Nat
  /\ packet \subseteq Packets /\ \A p, q \in packet : p = q
  /\ stage = "ignored" => \A p \in packet : BuildEvent(p, {}).status = "unsupported"
  /\ stage = "dropped" => ~\E e \in output.processingErrors : IsException(e)
  /\ stage \in ItsStages /\ refused < 2 => output.errors = record.errors
  /\ stage \in {"write", "done"} /\ refused > 0 => Exception("output") \in output.processingErrors
  /\ stage \in ItsStages /\ rounds = 0 => Shown

\* What a record says of its event.
LEMMA RecordTells ==
  ASSUME NEW e
  PROVE  ToRecord(e).errors = e.errors
BY DEF ToRecord, NotEnriched

LEMMA CleanedErrors ==
  ASSUME DOMAIN record = OutputFields
  PROVE  Cleaned.errors = record.errors
<1>1. /\ "errors" \in OutputFields /\ "errors" \notin DOMAIN Defaults
  BY TheFields
<1>2. With(record, Defaults).errors = record.errors /\ DOMAIN With(record, Defaults) = OutputFields
  BY <1>1, WithFields
<1> QED BY <1>2 DEF Cleaned, Fresh

LEMMA TellsErrors ==
  ASSUME CostsInv, stage \in ItsStages, refused = 0
  PROVE  output.errors = record.errors
<1>1. Cleaned.errors = record.errors
  BY CleanedErrors DEF CostsInv
<1>2. CASE stage = "decoder"
  BY <1>1, <1>2 DEF CostsInv
<1>3. CASE stage # "decoder"
  <2>1. Told
    BY <1>3 DEF CostsInv, ItsStages
  <2> QED BY <1>1, <2>1, TheBaseFields DEF Told
<1> QED BY <1>2, <1>3

LEMMA ShowStarts == Init => ShowInv
<1> SUFFICES ASSUME Init PROVE ShowInv
  OBVIOUS
<1>1. stage = "idle" /\ rounds = 0 /\ packet \subseteq Packets /\ \A p, q \in packet : p = q
  BY DEF Init
<1> QED BY <1>1, CostsStart DEF ShowInv, ItsStages

\* The steps of the enricher.
LEMMA ShowEnricherStep ==
  ASSUME ShowInv, EnricherNext, CostsInv', UNCHANGED <<packet, event, rounds>>
  PROVE  ShowInv'
<1>1. CostsInv /\ DOMAIN output = OutputFields /\ refused \in Nat
  BY DEF ShowInv, CostsInv, EInv
<1>2. record' = record /\ inputErrors' = inputErrors
  BY DEF EnricherNext, RunDecoder, DecoderFails, RunPreprocessor, PreprocessorFails, Drop, Pass, Track,
         TrackerFails, Write, Refuse, Process
<1>3. stage \in ItsStages /\ stage' \in ItsStages
  BY DEF EnricherNext, RunDecoder, DecoderFails, RunPreprocessor, PreprocessorFails, Drop, Pass, Track,
         TrackerFails, Write, Refuse, Process, ItsStages
<1>4. rounds' = 0 => Shown'
  BY <1>2, <1>3 DEF ShowInv, Shown
<1>5. refused' = 0 => output'.errors = record'.errors
  <2> SUFFICES ASSUME refused' = 0 PROVE (output.errors = record.errors)'
    OBVIOUS
  <2>1. (stage \in ItsStages)' /\ (refused = 0)'
    BY <1>3
  <2> QED BY <2>1, TellsErrors, PTL
<1>6. stage' # "ignored"
  BY <1>3 DEF ItsStages
<1>7. ASSUME stage' = "dropped" PROVE ~\E e \in output'.processingErrors : IsException(e)
  <2>1. Drop
    BY <1>7 DEF EnricherNext, RunDecoder, DecoderFails, RunPreprocessor, PreprocessorFails, Drop, Pass, Track,
         TrackerFails, Write, Refuse, Process
  <2> QED BY <2>1 DEF Drop, IsDroppable, IsException, TypedErrors
<1>8. CASE Refuse
  <2>1. /\ output' = Fallback(output, refused = 0) /\ refused' = refused + 1 /\ stage = "write" /\ stage' = "write"
    BY <1>8 DEF Refuse
  <2>2. Exception("output") \in output'.processingErrors
    <3> DEFINE base == IF refused = 0 THEN With(output, Defaults) ELSE SourceOnly
    <3>1. DOMAIN base = OutputFields
      BY <1>1, WithFields DEF OutputFields
    <3> HIDE DEF base
    <3>2. output' = [base EXCEPT !.reason = "record could not be written", !.processingErrors = {Exception("output")}]
      BY <2>1 DEF Fallback, base
    <3> QED BY <3>1, <3>2, TheFields
  <2>3. ASSUME refused' < 2 PROVE output'.errors = record'.errors
    <3>1. refused = 0
      BY <1>1, <2>1, <2>3
    <3>2. output.errors = record.errors
      BY <1>3, <3>1 DEF ShowInv
    <3> DEFINE base == With(output, Defaults)
    <3>3. DOMAIN base = OutputFields /\ base.errors = output.errors
      BY <1>1, WithFields, TheFields
    <3> HIDE DEF base
    <3>4. output' = [base EXCEPT !.reason = "record could not be written", !.processingErrors = {Exception("output")}]
      BY <2>1, <3>1 DEF Fallback, base
    <3>5. output'.errors = base.errors
      BY <3>3, <3>4, TheFields
    <3> QED BY <1>2, <3>2, <3>3, <3>5
  <2> QED BY <1>1, <1>3, <1>4, <1>6, <1>7, <2>2, <2>3 DEF ShowInv
<1>9. CASE ~Refuse
  <2>1. refused' = refused
    BY <1>9 DEF EnricherNext, RunDecoder, DecoderFails, RunPreprocessor, PreprocessorFails, Drop, Pass, Track,
         TrackerFails, Write, Process
  <2>2. ASSUME refused > 0 PROVE Write \/ Drop
    <3>1. stage \notin {"decoder", "preprocessor", "policy", "flow"}
      BY <1>1, <2>2 DEF CostsInv
    <3> QED BY <1>9, <3>1 DEF EnricherNext, RunDecoder, DecoderFails, RunPreprocessor, PreprocessorFails, Drop, Pass,
         Track, TrackerFails, Process
  <2>3. refused > 0 => output' = output /\ stage = "write"
    BY <1>1, <2>2 DEF Write, Drop, Process, CostsInv
  <2>4. stage' \in {"write", "done"} /\ refused' > 0 => Exception("output") \in output'.processingErrors
    BY <2>1, <2>3 DEF ShowInv
  <2>5. refused' < 2 => output'.errors = record'.errors
    <3>1. CASE refused = 0
      BY <1>5, <2>1, <3>1
    <3>2. CASE refused # 0
      BY <1>1, <1>2, <1>3, <2>1, <2>3, <3>2 DEF ShowInv
    <3> QED BY <3>1, <3>2
  <2> QED BY <1>1, <1>3, <1>4, <1>6, <1>7, <2>1, <2>4, <2>5 DEF ShowInv
<1> QED BY <1>8, <1>9

\* A record that enters the enricher: what the rest of the invariant needs is that the record tells its event.
LEMMA ShowBegin ==
  ASSUME NEW r, NEW errors, Begin(r, errors), CostsInv', rounds' \in Nat,
         packet' = packet, packet \subseteq Packets, \A p, q \in packet : p = q,
         rounds' = 0 => Shown'
  PROVE  ShowInv'
<1>1. stage' = "decoder" /\ refused' = 0
  BY DEF Begin
<1>2. (output.errors = record.errors)'
  <2>1. (stage \in ItsStages)' /\ (refused = 0)'
    BY <1>1 DEF ItsStages
  <2> QED BY <2>1, TellsErrors, PTL
<1> QED BY <1>1, <1>2 DEF ShowInv

LEMMA ShowStepKeeps == ShowInv /\ [Next]_vars => ShowInv'
<1> SUFFICES ASSUME ShowInv, [Next]_vars PROVE ShowInv'
  OBVIOUS
<1>1. /\ CostsInv /\ EInv /\ CostsInv' /\ rounds \in Nat
      /\ packet \subseteq Packets /\ \A p, q \in packet : p = q
  BY CostsStepKeeps DEF ShowInv, CostsInv
<1>2. ASSUME UNCHANGED <<packet, event, rounds, record, inputErrors, output, stage, failed, refused>>
      PROVE  ShowInv'
  <2>1. Shown => Shown'
    BY <1>2 DEF Shown
  <2> QED BY <1>1, <1>2, <2>1 DEF ShowInv
<1>3. ASSUME NEW fails \in Failures, ProcessPacket(fails) PROVE ShowInv'
  <2>1. /\ stage = "idle" /\ packet # {} /\ packet' = packet /\ rounds' = rounds
        /\ event' = UNION {PipelineProcess(p, fails, policy) : p \in packet}
    BY <1>3 DEF ProcessPacket, Untouched
  <2>2. PICK p \in packet : packet = {p}
    BY <1>1, <2>1
  <2>3. event' = PipelineProcess(p, fails, policy) /\ p \in Packets
    BY <1>1, <2>1, <2>2
  <2>4. CASE event' = {}
    <3>1. stage' = "ignored" /\ UNCHANGED <<record, inputErrors, output, failed, refused>>
      BY <1>3, <2>4 DEF ProcessPacket
    <3>2. BuildEvent(p, {}).status = "unsupported"
      BY <2>3, <2>4, EventsShow
    <3> QED BY <1>1, <2>1, <2>2, <3>1, <3>2 DEF ShowInv, ItsStages
  <2>5. CASE event' # {} /\ "record" \in fails
    <3>1. Begin(SourceOnly, {Exception("input")})
      BY <1>3, <2>5 DEF ProcessPacket
    <3>2. Exception("input") \in inputErrors' /\ IsException(Exception("input"))
      BY <3>1 DEF Begin, IsException, Exception
    <3>3. Shown'
      BY <3>2 DEF Shown
    <3> QED BY <1>1, <2>1, <3>1, <3>3, ShowBegin
  <2>6. CASE event' # {} /\ "record" \notin fails
    <3>1. PICK e \in event' : Begin(ToRecord(e), {})
      BY <1>3, <2>6 DEF ProcessPacket
    <3>2. record'.errors = e.errors
      BY <3>1, RecordTells DEF Begin
    <3>3. event' = PipelineProcess(p, {}, "keep") \/ \E at : Raised(at) \in e.errors
      BY <2>3, EventsShow
    <3>4. \A at : IsException(Raised(at))
      BY DEF IsException, Raised, Fault
    <3>5. Shown'
      BY <2>1, <2>2, <3>2, <3>3, <3>4 DEF Shown
    <3> QED BY <1>1, <2>1, <3>1, <3>5, ShowBegin
  <2> QED BY <2>4, <2>5, <2>6
<1>4. CASE Read /\ Untouched /\ UNCHANGED <<enricherVars, failing, event>>
  BY <1>2, <1>4 DEF Untouched, enricherVars
<1>5. CASE ReadItem
  BY <1>2, <1>5 DEF ReadItem, enricherVars
<1>6. ASSUME NEW r, NEW errors, Begin(r, errors), packet' = packet, packet = {} \/ rounds' # 0, rounds' \in Nat
      PROVE  ShowInv'
  <2>1. rounds' = 0 => Shown'
    BY <1>6 DEF Shown
  <2> QED BY <1>1, <1>6, <2>1, ShowBegin
<1>7. CASE TakeItem
  BY <1>1, <1>6, <1>7 DEF TakeItem
<1>8. CASE Replay
  <2>1. Begin(output, {}) /\ packet' = packet /\ rounds' = rounds + 1
    BY <1>8 DEF Replay
  <2> QED BY <1>1, <1>6, <2>1
<1>9. ASSUME NEW r \in Records, TakeRecord(r) PROVE ShowInv'
  BY <1>1, <1>6, <1>9 DEF TakeRecord, Untouched
<1>10. CASE EnricherNext /\ Untouched /\ UNCHANGED <<readerVars, failing, event>>
  BY <1>1, <1>10, ShowEnricherStep DEF Untouched
<1>11. CASE UNCHANGED vars
  BY <1>2, <1>11 DEF vars, enricherVars
<1> QED BY <1>3, <1>4, <1>5, <1>7, <1>8, <1>9, <1>10, <1>11 DEF Next

\* README: "an exception class name is a bug that must stay visible": --unknown drop removes only what would be
\* unusable without the exception, and a written record that an exception changed says so, whichever stages of
\* the pipeline and of the enricher raise, and also when the writer has refused it once.
THEOREM ExceptionsStayVisible == Spec => []FailuresShow
<1>1. ShowInv => FailuresShow
  <2> SUFFICES ASSUME ShowInv PROVE FailuresShow
    OBVIOUS
  <2>1. stage = "done" /\ failed # {} /\ refused = 0 => \E e \in output.processingErrors : IsException(e)
    <3> SUFFICES ASSUME stage = "done", failed # {}, refused = 0
                 PROVE  \E e \in output.processingErrors : IsException(e)
      OBVIOUS
    <3>1. ErrorsTold
      BY DEF ShowInv, CostsInv, Told
    <3>2. PICK at : at \in failed
      OBVIOUS
    <3>3. Exception(at) \in output.processingErrors
      BY <3>1, <3>2 DEF ErrorsTold
    <3> QED BY <3>3 DEF IsException, Exception
  <2>2. stage = "done" /\ refused > 0 => \E e \in output.processingErrors : IsException(e)
    <3>1. IsException(Exception("output"))
      BY DEF IsException, Exception
    <3> QED BY <3>1 DEF ShowInv
  <2>3. refused = 0 \/ refused > 0
    BY DEF ShowInv, CostsInv
  <2>4. stage = "done" /\ rounds = 0 /\ refused < 2 => \A p \in packet :
          event # PipelineProcess(p, {}, "keep") => \E e \in output.errors \cup inputErrors : IsException(e)
    BY DEF ShowInv, Shown, ItsStages
  <2> QED BY <2>1, <2>2, <2>3, <2>4 DEF FailuresShow, ShowInv
<1> QED BY ShowStarts, ShowStepKeeps, <1>1, PTL DEF Spec

-------------------------------------------------------------------------------
\* The part of the program that read_name is.
THEOREM PathReadsNames == Spec => ReaderSpec
<1>1. Init => ReaderInit
  <2> SUFFICES ASSUME Init PROVE message \in Messages
    BY DEF Init, ReaderInit
  <2> QED BY NamesAreMessages DEF Init
<1>2. [Next]_vars => [Read]_readerVars
  <2> SUFFICES ASSUME Next PROVE Read \/ UNCHANGED readerVars
    BY DEF vars
  <2> QED BY DEF Next, ProcessPacket, ReadItem, TakeItem, Replay, TakeRecord
<1> QED BY <1>1, <1>2, PTL DEF Spec, ReaderSpec

\* No packet leads the name reader out of its message or into a loop without end.
THEOREM PathStaysInBounds == Spec => []NameInBounds
<1> QED BY PathReadsNames, NamesStayInBounds, PTL

\* A name that a packet carries is read as the labels that its pointers join.
THEOREM PathReadsReferences == Spec => []NameIsReference
<1> QED BY PathReadsNames, NamesAreReference, PTL

-------------------------------------------------------------------------------
\* The part of the program that the reader of an events file is.

LEMMA PathReadsLines == Spec => FileSpec
<1>1. Init => \E f \in Files \cup {<<>>} : FileInit(f)
  <2> SUFFICES ASSUME Init PROVE \E f \in Files \cup {<<>>} : FileInit(f)
    OBVIOUS
  <2> QED BY DEF Init
<1>2. [Next]_vars => [ReadLine \/ Discard]_readerState
  <2> SUFFICES ASSUME Next PROVE ReadLine \/ Discard \/ UNCHANGED readerState
    BY DEF vars
  <2> QED BY DEF Next, Untouched, ProcessPacket, ReadItem, TakeItem, Replay, TakeRecord
<1> QED BY <1>1, <1>2, PTL DEF Spec, FileSpec

\* Every line of an events file reaches the loop as its item.
THEOREM PathReadsEveryLine == Spec => []LinesAreRecords
<1> QED BY PathReadsLines, LinesGiveItems, PTL

-------------------------------------------------------------------------------
(***************************************************************************)
(* The path.                                                               *)
(***************************************************************************)

\* One segment of RemoveDotSegments, which goes from the left, and of PathFromEnd, which goes from the right.
Removed(k, s) == CASE s = DotDot -> SubSeq(k, 1, Len(k) - 1)
                   [] s = Dot -> k
                   [] OTHER -> Append(k, s)
FromEnd(s, k) == CASE s = DotDot -> [k EXCEPT !.skip = @ + 1]
                   [] s = Dot -> k
                   [] s \notin {Dot, DotDot} /\ k.skip > 0 -> [k EXCEPT !.skip = @ - 1]
                   [] OTHER -> [k EXCEPT !.path = <<s>> \o @]

NoSegments == [path |-> <<>>, skip |-> 0]

LeftTurn(segments, h, s) == IF s = {} THEN <<>> ELSE Removed(h[s \ {Max(s)}], segments[Max(s)])
RightTurn(segments, h, s) == IF s = {} THEN NoSegments ELSE FromEnd(segments[Min(s)], h[s \ {Min(s)}])
IsLeft(segments, h) == h = [s \in SUBSET DOMAIN segments |-> LeftTurn(segments, h, s)]
IsRight(segments, h) == h = [s \in SUBSET DOMAIN segments |-> RightTurn(segments, h, s)]

\* What the first i segments leave, and what those from number i on do.
LeftFold(segments) == CHOOSE h : IsLeft(segments, h)
RightFold(segments) == CHOOSE h : IsRight(segments, h)
Left(segments, i) == LeftFold(segments)[1..i]
Right(segments, i) == RightFold(segments)[i..Len(segments)]

EndsInDots(segments) == segments[Len(segments)] \in {Dot, DotDot}

LEMMA RemovingIsFold ==
  ASSUME NEW segments
  PROVE  RemoveDotSegments(segments) =
           IF EndsInDots(segments) THEN Append(LeftFold(segments)[DOMAIN segments], <<>>)
           ELSE LeftFold(segments)[DOMAIN segments]
BY Zenon DEF RemoveDotSegments, FoldLeft, MapThenFoldSet, LeftFold, IsLeft, LeftTurn, Removed, EndsInDots

LEMMA FromEndIsFold ==
  ASSUME NEW segments
  PROVE  PathFromEnd(segments) =
           RightFold(segments)[DOMAIN segments].path \o (IF EndsInDots(segments) THEN <<<<>>>> ELSE <<>>)
BY Zenon DEF PathFromEnd, FoldRight, MapThenFoldSet, RightFold, IsRight, RightTurn, FromEnd, EndsInDots, NoSegments, Last

\* A segment is a name or one of the dots.
LEMMA SegmentIs ==
  ASSUME NEW s, NEW k
  PROVE  /\ s = DotDot => Removed(k, s) = SubSeq(k, 1, Len(k) - 1) /\ FromEnd(s, k) = [k EXCEPT !.skip = @ + 1]
         /\ s = Dot => Removed(k, s) = k /\ FromEnd(s, k) = k
         /\ s \notin {Dot, DotDot} => /\ Removed(k, s) = Append(k, s)
                                      /\ k.skip > 0 => FromEnd(s, k) = [k EXCEPT !.skip = @ - 1]
                                      /\ ~(k.skip > 0) => FromEnd(s, k) = [k EXCEPT !.path = <<s>> \o @]
<1>1. Dot # DotDot
  <2>1. Len(Dot) = 1 /\ Len(DotDot) = 2
    BY DEF Dot, DotDot
  <2> QED BY <2>1
<1>2. s = DotDot => Removed(k, s) = SubSeq(k, 1, Len(k) - 1) /\ FromEnd(s, k) = [k EXCEPT !.skip = @ + 1]
  BY <1>1, Zenon DEF Removed, FromEnd
<1>3. s = Dot => Removed(k, s) = k /\ FromEnd(s, k) = k
  BY <1>1, Zenon DEF Removed, FromEnd
<1>4. s \notin {Dot, DotDot} => Removed(k, s) = Append(k, s)
  BY Zenon DEF Removed
<1>5. s \notin {Dot, DotDot} /\ k.skip > 0 => FromEnd(s, k) = [k EXCEPT !.skip = @ - 1]
  BY Zenon DEF FromEnd
<1>6. s \notin {Dot, DotDot} /\ ~(k.skip > 0) => FromEnd(s, k) = [k EXCEPT !.path = <<s>> \o @]
  BY Zenon DEF FromEnd
<1> QED BY <1>2, <1>3, <1>4, <1>5, <1>6

\* The words of a path: its segments without the dots.
HasWords(segments, n, Words) ==
  /\ n \in Nat /\ DOMAIN segments = 1..n /\ Len(segments) = n
  /\ \A i \in 1..n : segments[i] \notin {Dot, DotDot} => segments[i] \in Words

LEMMA RemovedIsPath ==
  ASSUME NEW Words, NEW k \in Seq(Words), NEW s, s \notin {Dot, DotDot} => s \in Words
  PROVE  Removed(k, s) \in Seq(Words)
<1>1. SubSeq(k, 1, Len(k) - 1) \in Seq(Words)
  OBVIOUS
<1>2. s \in Words => Append(k, s) \in Seq(Words)
  OBVIOUS
<1>3. s = Dot \/ s = DotDot \/ s \notin {Dot, DotDot}
  OBVIOUS
<1> QED BY <1>1, <1>2, <1>3, SegmentIs, Zenon

Kept(Words) == [path : Seq(Words), skip : Nat]

LEMMA FromEndIsKept ==
  ASSUME NEW Words, NEW k \in Kept(Words), NEW s, s \notin {Dot, DotDot} => s \in Words
  PROVE  FromEnd(s, k) \in Kept(Words)
<1>1. k.path \in Seq(Words) /\ k.skip \in Nat /\ k = [path |-> k.path, skip |-> k.skip]
  BY DEF Kept
<1>2. CASE s = DotDot
  <2>1. FromEnd(s, k) = [k EXCEPT !.skip = @ + 1]
    BY <1>2, SegmentIs, Zenon
  <2> QED BY <1>1, <2>1 DEF Kept
<1>3. CASE s = Dot
  BY <1>3, SegmentIs, Zenon
<1>4. CASE s \notin {Dot, DotDot} /\ k.skip > 0
  <2>1. FromEnd(s, k) = [k EXCEPT !.skip = @ - 1]
    BY <1>4, SegmentIs, Zenon
  <2> QED BY <1>1, <1>4, <2>1 DEF Kept
<1>5. CASE s \notin {Dot, DotDot} /\ ~(k.skip > 0)
  <2>1. s \in Words
    BY <1>5
  <2>2. <<s>> \o k.path \in Seq(Words)
    BY <1>1, <2>1
  <2>3. FromEnd(s, k) = [k EXCEPT !.path = <<s>> \o @]
    BY <1>5, SegmentIs, Zenon
  <2> QED BY <1>1, <2>2, <2>3 DEF Kept
<1> QED BY <1>2, <1>3, <1>4, <1>5

LEMMA LeftSteps ==
  ASSUME NEW segments, NEW n \in Nat, NEW Words, HasWords(segments, n, Words)
  PROVE  /\ Left(segments, 0) = <<>>
         /\ \A i \in 0..n : Left(segments, i) \in Seq(Words)
         /\ \A i \in 1..n : Left(segments, i) = Removed(Left(segments, i - 1), segments[i])
<1> DEFINE c == [s \in SUBSET (1..n) |-> Max(s)]
           t == [p \in (1..n) \X Seq(Words) |-> Removed(p[2], segments[p[1]])]
           V == Seq(Words)
           h == LeftFold(segments)
<1>1. \A s \in SUBSET (1..n) : s # {} => c[s] \in s /\ c[s] = Max(s)
  BY PlacesHaveEnds
<1>2. \A i \in 1..n, v \in V : t[<<i, v>>] = Removed(v, segments[i])
  OBVIOUS
<1>3. \A i \in 1..n, v \in V : Removed(v, segments[i]) \in V
  BY RemovedIsPath DEF HasWords
<1>4. <<>> \in V
  OBVIOUS
<1> HIDE DEF c, t, V, h
<1>5. \E g : IsLeft(segments, g)
  <2>1. KeepsTo(n, c, t, <<>>, V)
    BY <1>1, <1>2, <1>3, <1>4 DEF KeepsTo
  <2>2. PICK g : IsPlaceFold(n, c, t, <<>>, g) /\ \A s \in SUBSET (1..n) : g[s] \in V
    BY <2>1, PlaceFoldStays
  <2>3. \A s \in SUBSET (1..n) : PlaceTurn(c, t, <<>>, g, s) = LeftTurn(segments, g, s)
    <3> SUFFICES ASSUME NEW s \in SUBSET (1..n), s # {} PROVE PlaceTurn(c, t, <<>>, g, s) = LeftTurn(segments, g, s)
      BY DEF PlaceTurn, LeftTurn
    <3>1. Max(s) \in 1..n /\ c[s] = Max(s) /\ g[s \ {Max(s)}] \in V
      BY <1>1, <2>2
    <3>2. t[<<Max(s), g[s \ {Max(s)}]>>] = Removed(g[s \ {Max(s)}], segments[Max(s)])
      BY <1>2, <3>1
    <3> QED BY <3>1, <3>2 DEF PlaceTurn, LeftTurn
  <2>4. g = [s \in SUBSET (1..n) |-> LeftTurn(segments, g, s)]
    BY <2>2, <2>3 DEF IsPlaceFold
  <2> QED BY <2>4 DEF IsLeft, HasWords
<1>6. IsLeft(segments, h)
  BY <1>5, Zenon DEF h, LeftFold
<1>7. \A s \in SUBSET (1..n) : h[s] = LeftTurn(segments, h, s)
  BY <1>6 DEF IsLeft, HasWords
<1>8. \A s \in SUBSET (1..n) : h[s] \in V
  <2>1. h[{}] \in V
    BY <1>4, <1>7 DEF LeftTurn
  <2>2. ASSUME NEW s \in SUBSET (1..n), s # {} PROVE \E i \in s : h[s \ {i}] \in V => h[s] \in V
    <3>1. Max(s) \in s /\ Max(s) \in 1..n
      BY <1>1, <2>2
    <3>2. h[s] = Removed(h[s \ {Max(s)}], segments[Max(s)])
      BY <1>7, <2>2 DEF LeftTurn
    <3> QED BY <1>3, <3>1, <3>2
  <2> QED BY <2>1, <2>2, FoldStays
<1>9. \A i \in 0..n : Left(segments, i) = h[1..i] /\ 1..i \in SUBSET (1..n)
  BY DEF Left, h
<1>10. Left(segments, 0) = <<>>
  <2>1. 1..0 = {} /\ Left(segments, 0) = h[1..0] /\ {} \in SUBSET (1..n)
    BY <1>9
  <2> QED BY <1>7, <2>1 DEF LeftTurn
<1>11. ASSUME NEW i \in 1..n PROVE Left(segments, i) = Removed(Left(segments, i - 1), segments[i])
  <2>0. i \in 1..i /\ 1..i \in SUBSET (1..n)
    OBVIOUS
  <2>1. Max(1..i) = i /\ (1..i) \ {i} = 1..(i - 1) /\ 1..i # {} /\ 1..i \in SUBSET (1..n)
    BY <2>0, PlacesHaveEnds
  <2>2. h[1..i] = Removed(h[1..(i - 1)], segments[i])
    BY <1>7, <2>1 DEF LeftTurn
  <2>3. i - 1 \in 0..n /\ i \in 0..n
    OBVIOUS
  <2> QED BY <1>9, <2>2, <2>3
<1> QED BY <1>8, <1>9, <1>10, <1>11 DEF V

LEMMA RightSteps ==
  ASSUME NEW segments, NEW n \in Nat, NEW Words, HasWords(segments, n, Words)
  PROVE  /\ Right(segments, n + 1) = NoSegments
         /\ \A i \in 1..(n + 1) : Right(segments, i) \in Kept(Words)
         /\ \A i \in 1..n : Right(segments, i) = FromEnd(segments[i], Right(segments, i + 1))
<1> DEFINE c == [s \in SUBSET (1..n) |-> Min(s)]
           t == [p \in (1..n) \X Kept(Words) |-> FromEnd(segments[p[1]], p[2])]
           V == Kept(Words)
           h == RightFold(segments)
<1>1. \A s \in SUBSET (1..n) : s # {} => c[s] \in s /\ c[s] = Min(s)
  BY PlacesHaveEnds
<1>2. \A i \in 1..n, v \in V : t[<<i, v>>] = FromEnd(segments[i], v)
  OBVIOUS
<1>3. \A i \in 1..n, v \in V : FromEnd(segments[i], v) \in V
  BY FromEndIsKept DEF HasWords
<1>4. NoSegments \in V
  BY DEF NoSegments, Kept
<1> HIDE DEF c, t, V, h
<1>5. \E g : IsRight(segments, g)
  <2>1. KeepsTo(n, c, t, NoSegments, V)
    BY <1>1, <1>2, <1>3, <1>4 DEF KeepsTo
  <2>2. PICK g : IsPlaceFold(n, c, t, NoSegments, g) /\ \A s \in SUBSET (1..n) : g[s] \in V
    BY <2>1, PlaceFoldStays
  <2>3. \A s \in SUBSET (1..n) : PlaceTurn(c, t, NoSegments, g, s) = RightTurn(segments, g, s)
    <3> SUFFICES ASSUME NEW s \in SUBSET (1..n), s # {} PROVE PlaceTurn(c, t, NoSegments, g, s) = RightTurn(segments, g, s)
      BY DEF PlaceTurn, RightTurn
    <3>1. Min(s) \in 1..n /\ c[s] = Min(s) /\ g[s \ {Min(s)}] \in V
      BY <1>1, <2>2
    <3>2. t[<<Min(s), g[s \ {Min(s)}]>>] = FromEnd(segments[Min(s)], g[s \ {Min(s)}])
      BY <1>2, <3>1
    <3> QED BY <3>1, <3>2 DEF PlaceTurn, RightTurn
  <2>4. g = [s \in SUBSET (1..n) |-> RightTurn(segments, g, s)]
    BY <2>2, <2>3 DEF IsPlaceFold
  <2> QED BY <2>4 DEF IsRight, HasWords
<1>6. IsRight(segments, h)
  BY <1>5, Zenon DEF h, RightFold
<1>7. \A s \in SUBSET (1..n) : h[s] = RightTurn(segments, h, s)
  BY <1>6 DEF IsRight, HasWords
<1>8. \A s \in SUBSET (1..n) : h[s] \in V
  <2>1. h[{}] \in V
    BY <1>4, <1>7 DEF RightTurn
  <2>2. ASSUME NEW s \in SUBSET (1..n), s # {} PROVE \E i \in s : h[s \ {i}] \in V => h[s] \in V
    <3>1. Min(s) \in s /\ Min(s) \in 1..n
      BY <1>1, <2>2
    <3>2. h[s] = FromEnd(segments[Min(s)], h[s \ {Min(s)}])
      BY <1>7, <2>2 DEF RightTurn
    <3> QED BY <1>3, <3>1, <3>2
  <2> QED BY <2>1, <2>2, FoldStays
<1>9. \A i \in 1..(n + 1) : Right(segments, i) = h[i..n] /\ i..n \in SUBSET (1..n)
  BY DEF Right, h, HasWords
<1>10. Right(segments, n + 1) = NoSegments
  <2>1. (n + 1)..n = {} /\ Right(segments, n + 1) = h[(n + 1)..n] /\ {} \in SUBSET (1..n)
    BY <1>9
  <2> QED BY <1>7, <2>1 DEF RightTurn
<1>11. ASSUME NEW i \in 1..n PROVE Right(segments, i) = FromEnd(segments[i], Right(segments, i + 1))
  <2>0. i \in i..n /\ i..n \in SUBSET (1..n)
    OBVIOUS
  <2>1. Min(i..n) = i /\ (i..n) \ {i} = (i + 1)..n /\ i..n # {} /\ i..n \in SUBSET (1..n)
    BY <2>0, PlacesHaveEnds
  <2>2. h[i..n] = FromEnd(segments[i], h[(i + 1)..n])
    BY <1>7, <2>1 DEF RightTurn
  <2>3. i + 1 \in 1..(n + 1) /\ i \in 1..(n + 1)
    OBVIOUS
  <2> QED BY <1>9, <2>2, <2>3
<1> QED BY <1>8, <1>9, <1>10, <1>11 DEF V

\* What is left of a path when k more segments are taken back.
Cut(path, k) == IF k >= Len(path) THEN <<>> ELSE SubSeq(path, 1, Len(path) - k)

Alike(a, b, m) == m \in Nat /\ m <= Len(a) /\ m <= Len(b) /\ \A i \in 1..m : a[i] = b[i]

LEMMA SliceFromStart ==
  ASSUME NEW s, NEW m
  PROVE  Slice(s, 0, m) = SubSeq(s, 1, m)
<1>1. 0 + 1 = 1
  OBVIOUS
<1> QED BY <1>1, Zenon DEF Slice

LEMMA SameStart ==
  ASSUME NEW S, NEW a, a \in Seq(S), NEW b, b \in Seq(S), NEW m, Alike(a, b, m)
  PROVE  Slice(a, 0, m) = Slice(b, 0, m)
<1> DEFINE p == Slice(a, 0, m)
           q == Slice(b, 0, m)
<1>2. IsPart(a, 0, m) /\ IsPart(b, 0, m) /\ m - 0 = m /\ \A i \in 1..m : 0 + i = i
  BY DEF IsPart, Alike
<1>3. p \in Seq(S) /\ Len(p) = m - 0 /\ \A i \in 1..(m - 0) : p[i] = a[0 + i]
  BY <1>2, SliceIs
<1>4. q \in Seq(S) /\ Len(q) = m - 0 /\ \A i \in 1..(m - 0) : q[i] = b[0 + i]
  BY <1>2, SliceIs
<1> HIDE DEF p, q
<1>5. Len(p) = Len(q) /\ \A i \in 1..Len(p) : p[i] = q[i]
  BY <1>2, <1>3, <1>4 DEF Alike
<1>6. p = q
  BY <1>3, <1>4, <1>5, SeqEqual
<1> QED BY <1>6 DEF p, q

LEMMA CutSteps ==
  ASSUME NEW Words, NEW p, p \in Seq(Words), NEW k \in Nat
  PROVE  /\ Cut(SubSeq(p, 1, Len(p) - 1), k) = Cut(p, k + 1)
         /\ \A s \in Words : k > 0 => Cut(Append(p, s), k) = Cut(p, k - 1)
         /\ Cut(p, 0) = p /\ Cut(<<>>, k) = <<>>
<1>0. p \in Seq(Words)
  OBVIOUS
<1>1. Cut(SubSeq(p, 1, Len(p) - 1), k) = Cut(p, k + 1)
  <2> DEFINE q == SubSeq(p, 1, Len(p) - 1)
  <2>1. CASE Len(p) = 0
    <3>1. Len(q) = 0
      BY <2>1
    <3> QED BY <2>1, <3>1 DEF Cut
  <2>2. CASE Len(p) > 0
    <3>0. IsPart(p, 0, Len(p) - 1) /\ q = Slice(p, 0, Len(p) - 1) /\ Len(p) - 1 \in Nat
      BY <2>2 DEF IsPart, Slice
    <3> HIDE DEF q
    <3>1. q \in Seq(Words) /\ Len(q) = Len(p) - 1 /\ \A i \in 1..(Len(p) - 1) : q[i] = p[i]
      <4> DEFINE m == Len(p) - 1
      <4>1. m - 0 = m /\ \A i \in 1..m : 0 + i = i
        BY <3>0
      <4> HIDE DEF m
      <4>2. Slice(p, 0, m) \in Seq(Words) /\ Len(Slice(p, 0, m)) = m - 0
            /\ \A i \in 1..(m - 0) : Slice(p, 0, m)[i] = p[0 + i]
        BY <3>0, SliceIs DEF m
      <4>3. q \in Seq(Words) /\ Len(q) = m /\ \A i \in 1..m : q[i] = p[i]
        BY <3>0, <4>1, <4>2 DEF m
      <4> QED BY <4>3 DEF m
    <3>2. ASSUME k >= Len(q) PROVE Cut(q, k) = Cut(p, k + 1)
      BY <2>2, <3>1, <3>2 DEF Cut
    <3>3. ASSUME k < Len(q) PROVE Cut(q, k) = Cut(p, k + 1)
      <4> DEFINE m == Len(q) - k
      <4>1. m \in 1..Len(q) /\ m <= Len(p) /\ Cut(q, k) = SubSeq(q, 1, m) /\ Cut(p, k + 1) = SubSeq(p, 1, m)
        BY <3>1, <3>3 DEF Cut
      <4> HIDE DEF m
      <4>2. Alike(q, p, m)
        BY <3>1, <4>1 DEF Alike
      <4>3. SubSeq(q, 1, m) = SubSeq(p, 1, m)
        <5>1. Slice(q, 0, m) = Slice(p, 0, m)
          BY <1>0, <3>1, <4>2, SameStart
        <5> QED BY <5>1, SliceFromStart
      <4> QED BY <4>1, <4>3
    <3>4. Cut(q, k) = Cut(p, k + 1)
      BY <3>1, <3>2, <3>3
    <3> QED BY <3>4 DEF q
  <2> QED BY <2>1, <2>2
<1>2. ASSUME NEW s \in Words, k > 0 PROVE Cut(Append(p, s), k) = Cut(p, k - 1)
  <2> DEFINE q == Append(p, s)
  <2>1. q \in Seq(Words) /\ Len(q) = Len(p) + 1 /\ \A i \in 1..Len(p) : q[i] = p[i]
    OBVIOUS
  <2> HIDE DEF q
  <2>2. ASSUME k >= Len(q) PROVE Cut(q, k) = Cut(p, k - 1)
    BY <1>2, <2>1, <2>2 DEF Cut
  <2>3. ASSUME k < Len(q) PROVE Cut(q, k) = Cut(p, k - 1)
    <3> DEFINE m == Len(q) - k
    <3>1. m \in 1..Len(p) /\ Cut(q, k) = SubSeq(q, 1, m) /\ Cut(p, k - 1) = SubSeq(p, 1, m)
      BY <1>2, <2>1, <2>3 DEF Cut
    <3> HIDE DEF m
    <3>2. Alike(q, p, m)
      BY <2>1, <3>1 DEF Alike
    <3>3. SubSeq(q, 1, m) = SubSeq(p, 1, m)
      <4>1. Slice(q, 0, m) = Slice(p, 0, m)
        BY <1>0, <2>1, <3>2, SameStart
      <4> QED BY <4>1, SliceFromStart
    <3> QED BY <3>1, <3>3
  <2>4. Cut(q, k) = Cut(p, k - 1)
    BY <2>1, <2>2, <2>3
  <2> QED BY <2>4 DEF q
<1>3. Cut(p, 0) = p
  <2>1. CASE Len(p) = 0
    BY <2>1 DEF Cut
  <2>2. CASE Len(p) > 0
    BY <2>2 DEF Cut
  <2> QED BY <2>1, <2>2
<1>4. Cut(<<>>, k) = <<>>
  BY DEF Cut
<1> QED BY <1>1, <1>2, <1>3, <1>4

\* It is the same to take a segment from the left, or from the right.
Between(Words, l, s, r) ==
  l \in Seq(Words) /\ r \in Kept(Words) /\ (s \notin {Dot, DotDot} => s \in Words)

Joint(l, r) == Cut(l, r.skip) \o r.path

LEMMA OneSegment ==
  ASSUME NEW Words, NEW l, NEW s, NEW r, Between(Words, l, s, r)
  PROVE  Joint(Removed(l, s), r) = Joint(l, FromEnd(s, r))
<1> DEFINE path == r.path
           skip == r.skip
           e == FromEnd(s, r)
<1>0. l \in Seq(Words) /\ r \in Kept(Words) /\ (s \notin {Dot, DotDot} => s \in Words)
  BY DEF Between
<1>1. path \in Seq(Words) /\ skip \in Nat /\ r = [path |-> path, skip |-> skip]
  BY <1>0 DEF Kept
<1>2. CASE s = DotDot
  <2>1. e = [r EXCEPT !.skip = @ + 1] /\ Removed(l, s) = SubSeq(l, 1, Len(l) - 1)
    BY <1>2, SegmentIs, Zenon
  <2>2. e.path = path /\ e.skip = skip + 1
    BY <1>1, <2>1
  <2> HIDE DEF e, path, skip
  <2>3. Cut(SubSeq(l, 1, Len(l) - 1), skip) = Cut(l, skip + 1)
    BY <1>0, <1>1, CutSteps
  <2> QED BY <2>1, <2>2, <2>3 DEF e, path, skip, Joint
<1>3. CASE s = Dot
  BY <1>3, SegmentIs, Zenon
<1>4. CASE s \notin {Dot, DotDot} /\ skip > 0
  <2>1. e = [r EXCEPT !.skip = @ - 1] /\ Removed(l, s) = Append(l, s)
    BY <1>4, SegmentIs, Zenon
  <2>2. e.path = path /\ e.skip = skip - 1
    BY <1>1, <2>1
  <2> HIDE DEF e, path, skip
  <2>3. Cut(Append(l, s), skip) = Cut(l, skip - 1)
    BY <1>0, <1>1, <1>4, CutSteps
  <2> QED BY <2>1, <2>2, <2>3 DEF e, path, skip, Joint
<1>5. CASE s \notin {Dot, DotDot} /\ ~(skip > 0)
  <2>1. e = [r EXCEPT !.path = <<s>> \o @] /\ Removed(l, s) = Append(l, s)
    BY <1>5, SegmentIs, Zenon
  <2>2. e.path = <<s>> \o path /\ e.skip = 0 /\ skip = 0
    BY <1>1, <1>5, <2>1
  <2> HIDE DEF e, path, skip
  <2>3. s \in Words /\ Append(l, s) \in Seq(Words)
    BY <1>0, <1>5
  <2>4. Cut(Append(l, s), 0) = Append(l, s) /\ Cut(l, 0) = l
    BY <1>0, <2>3, CutSteps
  <2>5. Append(l, s) \o path = l \o (<<s>> \o path)
    <3>1. Append(l, s) = l \o <<s>>
      BY <1>0, <2>3, AppendIsConcat
    <3>2. <<s>> \in Seq(Words)
      BY <2>3
    <3> QED BY <1>0, <1>1, <3>1, <3>2, ConcatAssociative
  <2> QED BY <2>1, <2>2, <2>4, <2>5 DEF e, path, skip, Joint
<1> QED BY <1>2, <1>3, <1>4, <1>5

\* The two ways meet at every segment.
Meet(segments, i) == Joint(Left(segments, i), Right(segments, i + 1))

LEMMA MeetOnce ==
  ASSUME NEW segments, NEW n \in Nat, NEW Words, HasWords(segments, n, Words), NEW i \in 1..n
  PROVE  Meet(segments, i) = Meet(segments, i - 1)
<1>1. i - 1 \in 0..n /\ i + 1 \in 1..(n + 1) /\ (i - 1) + 1 = i
  OBVIOUS
<1> DEFINE l == Left(segments, i - 1)
           r == Right(segments, i + 1)
           s == segments[i]
<1>2. l \in Seq(Words) /\ Left(segments, i) = Removed(l, s)
  BY <1>1, LeftSteps
<1>3. r \in Kept(Words) /\ Right(segments, i) = FromEnd(s, r)
  BY <1>1, RightSteps
<1>4. s \notin {Dot, DotDot} => s \in Words
  BY DEF HasWords
<1>5. Between(Words, l, s, r)
  BY <1>2, <1>3, <1>4 DEF Between
<1>6. Joint(Removed(l, s), r) = Joint(l, FromEnd(s, r))
  <2> HIDE DEF l, r, s
  <2> QED BY <1>5, OneSegment
<1> QED BY <1>1, <1>2, <1>3, <1>6, Zenon DEF Meet

LEMMA PathsMeet ==
  ASSUME NEW segments, NEW n \in Nat, NEW Words, HasWords(segments, n, Words)
  PROVE  Left(segments, n) = Right(segments, 1).path
<1> DEFINE Q == {j \in Nat : j <= n => Left(segments, n) = Meet(segments, n - j)}
<1>0. n \in 0..n /\ 0 \in 0..n /\ n + 1 \in 1..(n + 1) /\ 1 \in 1..(n + 1) /\ 0 + 1 = 1 /\ n - 0 = n /\ n - n = 0
  OBVIOUS
<1>1. 0 \in Q
  <2> DEFINE l == Left(segments, n)
             r == Right(segments, n + 1)
  <2>1. r = NoSegments
    BY RightSteps
  <2>2. l \in Seq(Words)
    BY <1>0, LeftSteps
  <2>3. r.skip = 0 /\ r.path = <<>>
    BY <2>1 DEF NoSegments
  <2>4. Meet(segments, n) = Cut(l, r.skip) \o r.path
    BY Zenon DEF Meet, Joint
  <2> HIDE DEF l, r
  <2>5. Cut(l, 0) = l /\ l \o <<>> = l
    BY <2>2, CutSteps
  <2>6. l = Meet(segments, n - 0)
    BY <1>0, <2>3, <2>4, <2>5
  <2> QED BY <2>6 DEF l
<1>2. ASSUME NEW j \in Nat, j \in Q PROVE j + 1 \in Q
  <2>1. ASSUME j + 1 <= n PROVE Left(segments, n) = Meet(segments, n - (j + 1))
    <3> DEFINE i == n - j
    <3>1. i \in 1..n /\ j <= n /\ n - (j + 1) = i - 1
      BY <2>1
    <3>2. Left(segments, n) = Meet(segments, i)
      BY <1>2, <3>1
    <3> HIDE DEF i
    <3>3. Meet(segments, i) = Meet(segments, i - 1)
      BY <3>1, MeetOnce
    <3> QED BY <3>1, <3>2, <3>3
  <2> HIDE DEF Meet, Left
  <2> QED BY <2>1
<1>3. Nat \subseteq Q
  <2> HIDE DEF Q
  <2> QED BY <1>1, <1>2, AllNats
<1>4. Left(segments, n) = Meet(segments, 0)
  <2>1. n \in Q
    BY <1>3
  <2>2. Left(segments, n) = Meet(segments, n - n)
    BY <1>0, <2>1
  <2> QED BY <1>0, <2>2
<1> DEFINE r == Right(segments, 1)
<1>5. Left(segments, 0) = <<>> /\ r \in Kept(Words)
  BY <1>0, LeftSteps, RightSteps
<1>6. Meet(segments, 0) = Cut(<<>>, r.skip) \o r.path
  <2>1. Meet(segments, 0) = Cut(Left(segments, 0), Right(segments, 0 + 1).skip) \o Right(segments, 0 + 1).path
    BY Zenon DEF Meet, Joint
  <2> QED BY <1>0, <1>5, <2>1, Zenon
<1> HIDE DEF r
<1>7. r.skip \in Nat /\ r.path \in Seq(Words)
  BY <1>5 DEF Kept
<1>8. Cut(<<>>, r.skip) = <<>> /\ <<>> \o r.path = r.path
  BY <1>7 DEF Cut
<1>9. Left(segments, n) = r.path
  BY <1>4, <1>6, <1>8
<1> QED BY <1>9 DEF r

\* What RemoveDotSegments leaves is the path that is read from its end, and holds no dots.
LEMMA PathFromBothEnds ==
  ASSUME NEW segments, NEW n \in Nat \ {0}, DOMAIN segments = 1..n, Len(segments) = n
  PROVE  /\ RemoveDotSegments(segments) = PathFromEnd(segments)
         /\ \A i \in DOMAIN RemoveDotSegments(segments) : RemoveDotSegments(segments)[i] \notin {Dot, DotDot}
<1> DEFINE Words == ({segments[i] : i \in 1..n} \cup {<<>>}) \ {Dot, DotDot}
           kept == Left(segments, n)
<1>1. HasWords(segments, n, Words)
  BY DEF HasWords
<1>2. <<>> \in Words
  <2>1. <<>> # Dot /\ <<>> # DotDot
    BY DEF Dot, DotDot
  <2> QED BY <2>1
<1>3. kept \in Seq(Words)
  <2>1. n \in 0..n
    OBVIOUS
  <2> QED BY <1>1, <2>1, LeftSteps
<1>4. kept = Right(segments, 1).path
  BY <1>1, PathsMeet
<1>5. RemoveDotSegments(segments) = IF EndsInDots(segments) THEN Append(kept, <<>>) ELSE kept
  <2>1. kept = LeftFold(segments)[DOMAIN segments]
    BY Zenon DEF Left
  <2> QED BY <2>1, RemovingIsFold, Zenon
<1>6. PathFromEnd(segments) = kept \o (IF EndsInDots(segments) THEN <<<<>>>> ELSE <<>>)
  BY <1>4, FromEndIsFold, Zenon DEF Right
<1>7. ASSUME NEW p, p \in Seq(Words) PROVE \A i \in DOMAIN p : p[i] \notin {Dot, DotDot}
  <2>1. \A i \in DOMAIN p : p[i] \in Words
    BY <1>7
  <2> QED BY <2>1
<1> HIDE DEF Words, kept
<1>8. CASE EndsInDots(segments)
  <2>1. Append(kept, <<>>) = kept \o <<<<>>>> /\ Append(kept, <<>>) \in Seq(Words)
    BY <1>2, <1>3, AppendIsConcat
  <2>2. RemoveDotSegments(segments) = Append(kept, <<>>) /\ PathFromEnd(segments) = kept \o <<<<>>>>
    BY <1>5, <1>6, <1>8, Zenon
  <2> QED BY <1>7, <2>1, <2>2
<1>9. CASE ~EndsInDots(segments)
  <2>1. kept \o <<>> = kept
    BY <1>3
  <2>2. RemoveDotSegments(segments) = kept /\ PathFromEnd(segments) = kept \o <<>>
    BY <1>5, <1>6, <1>9, Zenon
  <2> QED BY <1>3, <1>7, <2>1, <2>2
<1> QED BY <1>8, <1>9

-------------------------------------------------------------------------------
(***************************************************************************)
(* The texts that targets are made of.  They are sequences of tokens.      *)
(***************************************************************************)

LEMMA TokensAre ==
  ASSUME NEW T, NEW s, s \in Seq(T)
  PROVE  AreTokens(s)
<1>1. s \in [1..Len(s) -> T] /\ Len(s) \in Nat
  OBVIOUS
<1>2. s \in [1..Len(s) -> Range(s)]
  BY <1>1 DEF Range
<1> QED BY <1>1, <1>2 DEF AreTokens

\* A separator of one token or more.
Separates(w) == Len(w) \in Nat \ {0}

LEMMA PlaceIs ==
  ASSUME NEW T, NEW s, s \in Seq(T), NEW w, Separates(w), Places(s, w) # {}
  PROVE  /\ FirstPlace(s, w) \in Places(s, w) /\ \A i \in Places(s, w) : FirstPlace(s, w) <= i
         /\ FirstPlace(s, w) \in 1..Len(s) /\ FirstPlace(s, w) + Len(w) - 1 <= Len(s)
<1> DEFINE S == Places(s, w)
           m == FirstPlace(s, w)
<1>0. Len(s) \in Nat /\ Len(w) \in Nat \ {0}
  BY DEF Separates
<1>1. S \subseteq 1..(Len(s) + 1 - Len(w))
  BY DEF Places
<1>2. S \in SUBSET Nat /\ S # {}
  BY <1>0, <1>1
<1> HIDE DEF S
<1>3. PICK k \in S : \A i \in S : k <= i
  BY <1>2, LeastNat
<1>4. m \in S /\ \A i \in S : m <= i
  BY <1>3 DEF FirstPlace, Min, S
<1> HIDE DEF m
<1>5. m \in 1..Len(s) /\ m + Len(w) - 1 <= Len(s)
  BY <1>0, <1>1, <1>4
<1> QED BY <1>4, <1>5 DEF m, S

LEMMA PartsAreTokens ==
  ASSUME NEW T, NEW s, s \in Seq(T), NEW w, Separates(w)
  PROVE  Before(s, w) \in Seq(T) /\ Behind(s, w) \in Seq(T)
<1>1. CASE Places(s, w) = {}
  <2>1. Before(s, w) = s /\ Behind(s, w) = <<>>
    BY <1>1 DEF Before, Behind
  <2> QED BY <2>1
<1>2. CASE Places(s, w) # {}
  <2> DEFINE m == FirstPlace(s, w)
             l == Len(w)
  <2>1. m \in 1..Len(s) /\ m + l - 1 <= Len(s) /\ l \in Nat \ {0}
    BY <1>2, PlaceIs DEF Separates
  <2>2. Before(s, w) = SubSeq(s, 1, m - 1) /\ Behind(s, w) = SubSeq(s, m + l, Len(s))
    BY <1>2 DEF Before, Behind
  <2> HIDE DEF m, l
  <2>3. IsPart(s, 0, m - 1) /\ IsPart(s, m + l - 1, Len(s)) /\ 0 + 1 = 1 /\ (m + l - 1) + 1 = m + l
    BY <2>1 DEF IsPart
  <2>4. Slice(s, 0, m - 1) \in Seq(T)
    BY <2>3, SliceIs
  <2>5. Slice(s, m + l - 1, Len(s)) \in Seq(T)
    BY <2>3, SliceIs
  <2>6. Before(s, w) = Slice(s, 0, m - 1)
    BY <2>2, <2>3, Zenon DEF Slice
  <2>7. Behind(s, w) = Slice(s, m + l - 1, Len(s))
    BY <2>2, <2>3, Zenon DEF Slice
  <2> QED BY <2>4, <2>5, <2>6, <2>7
<1> QED BY <1>1, <1>2

\* What PathOf looks at: the text up to the first question mark.
PathEnd(s) ==
  IF \E i \in DOMAIN s : s[i] = "?"
    THEN (CHOOSE i \in DOMAIN s : s[i] = "?" /\ \A j \in 1..(i - 1) : s[j] # "?") - 1
    ELSE Len(s)

LEMMA PathEndsBefore ==
  ASSUME NEW T, NEW s, s \in Seq(T), s # <<>>, s[1] = "/"
  PROVE  /\ SubSeq(s, 1, PathEnd(s)) = Before(s, <<"?">>)
         /\ Before(s, <<"?">>) \in Seq(T) /\ Before(s, <<"?">>) # <<>>
<1> DEFINE w == <<"?">>
           S == Places(s, w)
           n == Len(s)
<1>0. n \in Nat \ {0} /\ DOMAIN s = 1..n /\ Len(w) = 1 /\ Separates(w)
  BY DEF Separates
<1>1. S = {i \in 1..n : s[i] = "?"}
  <2>1. ASSUME NEW i \in 1..n PROVE SubSeq(s, i, i + Len(w) - 1) = w <=> s[i] = "?"
    <3> DEFINE a == i - 1
               p == Slice(s, a, i)
    <3>1. a \in Nat /\ a + 1 = i /\ i - a = 1 /\ IsPart(s, a, i)
      BY <1>0 DEF IsPart
    <3>2. i + Len(w) - 1 = i /\ p = SubSeq(s, i, i)
      BY <1>0, <3>1 DEF Slice
    <3> HIDE DEF a
    <3>3. p \in Seq(T) /\ Len(p) = i - a /\ \A k \in 1..(i - a) : p[k] = s[a + k]
      <4>1. p \in Seq(T)
        BY <3>1, SliceIs
      <4>2. Len(p) = i - a
        BY <3>1, SliceIs
      <4>3. p = Slice(s, a, i)
        OBVIOUS
      <4> HIDE DEF p
      <4>4. \A k \in 1..(i - a) : p[k] = s[a + k]
        BY <3>1, <4>3, SliceAt
      <4> QED BY <4>1, <4>2, <4>4
    <3> HIDE DEF p
    <3>4. p \in Seq(T) /\ Len(p) = 1 /\ p[1] = s[i]
      BY <3>1, <3>3
    <3>5. p = w <=> s[i] = "?"
      BY <3>4
    <3> QED BY <3>2, <3>5
  <2>2. n + 1 - Len(w) = n
    BY <1>0
  <2> QED BY <2>1, <2>2 DEF Places
<1> HIDE DEF w, n
<1>2. CASE S = {}
  <2>1. PathEnd(s) = n /\ Before(s, w) = s
    BY <1>0, <1>1, <1>2 DEF PathEnd, Before, n
  <2>2. SubSeq(s, 1, n) = s
    BY DEF n
  <2> QED BY <2>1, <2>2 DEF w
<1>3. CASE S # {}
  <2> DEFINE m == FirstPlace(s, w)
             c == CHOOSE i \in DOMAIN s : s[i] = "?" /\ \A j \in 1..(i - 1) : s[j] # "?"
  <2>1. m \in S /\ \A i \in S : m <= i
    BY <1>0, <1>3, PlaceIs
  <2> HIDE DEF m, S
  <2>2. m \in 1..n /\ s[m] = "?" /\ \A i \in 1..n : s[i] = "?" => m <= i
    BY <1>1, <2>1
  <2>3. \A j \in 1..(m - 1) : s[j] # "?"
    <3>1. \A j \in 1..(m - 1) : j \in 1..n /\ ~(m <= j)
      BY <1>0, <2>2
    <3> QED BY <2>2, <3>1
  <2>4. c \in 1..n /\ s[c] = "?" /\ \A j \in 1..(c - 1) : s[j] # "?"
    BY <1>0, <2>2, <2>3
  <2>5. c = m
    <3> HIDE DEF c
    <3>1. m <= c
      BY <2>2, <2>4
    <3>2. ~(m < c)
      <4>1. m < c => m \in 1..(c - 1)
        BY <2>2, <2>4
      <4> QED BY <2>2, <2>4, <4>1
    <3> QED BY <2>2, <2>4, <3>1, <3>2
  <2>6. PathEnd(s) = c - 1
    BY <1>0, <2>2 DEF PathEnd
  <2>7. Before(s, w) = SubSeq(s, 1, m - 1)
    BY <1>3 DEF Before, m, S
  <2>8. m # 1
    <3>1. "/" # "?"
      OBVIOUS
    <3> QED BY <2>2, <3>1
  <2> HIDE DEF c
  <2>9. m - 1 \in 1..n
    BY <1>0, <2>2, <2>8
  <2>10. Len(SubSeq(s, 1, m - 1)) = m - 1
    BY <1>0, <2>9 DEF n
  <2>11. SubSeq(s, 1, m - 1) # <<>>
    BY <2>9, <2>10
  <2> QED BY <1>0, <2>5, <2>6, <2>7, <2>11, PartsAreTokens DEF w
<1> QED BY <1>2, <1>3

\* SegmentsOf takes one token more.
Parted(parts, token) ==
  IF token = "/" THEN Append(parts, <<>>) ELSE [parts EXCEPT ![Len(parts)] = Append(@, token)]
PartTurn(s, h, D) == IF D = {} THEN <<<<>>>> ELSE Parted(h[D \ {Max(D)}], s[Max(D)])
IsParting(s, h) == h = [D \in SUBSET DOMAIN s |-> PartTurn(s, h, D)]
Parting(s) == CHOOSE h : IsParting(s, h)

LEMMA SegmentsAreFold ==
  ASSUME NEW s
  PROVE  SegmentsOf(s) = Parting(Tail(s))[DOMAIN Tail(s)]
BY Zenon DEF SegmentsOf, FoldLeft, MapThenFoldSet, Parting, IsParting, PartTurn, Parted

SomeParts(T) == Seq(Seq(T)) \ {<<>>}

LEMMA PartedIsParts ==
  ASSUME NEW T, NEW parts \in SomeParts(T), NEW token \in T
  PROVE  Parted(parts, token) \in SomeParts(T)
<1> DEFINE n == Len(parts)
<1>1. parts \in Seq(Seq(T)) /\ n \in Nat \ {0} /\ DOMAIN parts = 1..n /\ n \in 1..n
  BY DEF SomeParts
<1>2. CASE token = "/"
  <2>1. <<>> \in Seq(T)
    OBVIOUS
  <2>2. Append(parts, <<>>) \in Seq(Seq(T)) /\ Len(Append(parts, <<>>)) = n + 1
    BY <1>1, <2>1
  <2>3. Append(parts, <<>>) # <<>>
    BY <1>1, <2>2
  <2> QED BY <1>2, <2>2, <2>3 DEF Parted, SomeParts
<1>3. CASE token # "/"
  <2> DEFINE last == parts[n]
             grown == Append(last, token)
             result == [parts EXCEPT ![n] = grown]
  <2>1. last \in Seq(T)
    BY <1>1
  <2>2. grown \in Seq(T)
    BY <2>1
  <2> HIDE DEF grown, last
  <2>3. result \in [1..n -> Seq(T)]
    BY <1>1, <2>2
  <2>4. result \in Seq(Seq(T)) /\ DOMAIN result = 1..n
    BY <1>1, <2>3
  <2>5. result # <<>>
    BY <1>1, <2>4
  <2>6. Parted(parts, token) = result
    BY <1>3 DEF Parted, last, grown
  <2> QED BY <2>4, <2>5, <2>6 DEF SomeParts
<1> QED BY <1>2, <1>3

LEMMA SegmentsAreParts ==
  ASSUME NEW T, NEW text, text \in Seq(T), text # <<>>
  PROVE  SegmentsOf(text) \in SomeParts(T)
<1> DEFINE s == Tail(text)
           n == Len(s)
           V == SomeParts(T)
           c == [D \in SUBSET (1..n) |-> Max(D)]
           t == [p \in (1..n) \X V |-> Parted(p[2], s[p[1]])]
           h == Parting(s)
<1>0. s \in Seq(T) /\ n \in Nat /\ DOMAIN s = 1..n
  OBVIOUS
<1>1. <<<<>>>> \in V
  BY DEF SomeParts
<1> HIDE DEF s, V, h
<1>2. \A D \in SUBSET (1..n) : D # {} => c[D] \in D /\ c[D] = Max(D)
  BY <1>0, PlacesHaveEnds
<1>3. \A i \in 1..n, v \in V : t[<<i, v>>] = Parted(v, s[i]) /\ Parted(v, s[i]) \in V
  <2>1. ASSUME NEW i \in 1..n, NEW v \in V PROVE Parted(v, s[i]) \in V
    <3>1. s[i] \in T
      BY <1>0
    <3> QED BY <3>1, PartedIsParts DEF V
  <2> QED BY <2>1
<1> HIDE DEF c, t, n
<1>4. \E g : IsParting(s, g)
  <2>1. KeepsTo(n, c, t, <<<<>>>>, V)
    BY <1>1, <1>2, <1>3 DEF KeepsTo
  <2>2. PICK g : IsPlaceFold(n, c, t, <<<<>>>>, g) /\ \A D \in SUBSET (1..n) : g[D] \in V
    BY <1>0, <2>1, PlaceFoldStays
  <2>3. \A D \in SUBSET (1..n) : PlaceTurn(c, t, <<<<>>>>, g, D) = PartTurn(s, g, D)
    <3> SUFFICES ASSUME NEW D \in SUBSET (1..n), D # {}
                 PROVE  PlaceTurn(c, t, <<<<>>>>, g, D) = PartTurn(s, g, D)
      BY DEF PlaceTurn, PartTurn
    <3>1. Max(D) \in 1..n /\ c[D] = Max(D) /\ g[D \ {Max(D)}] \in V
      BY <1>2, <2>2
    <3>2. t[<<Max(D), g[D \ {Max(D)}]>>] = Parted(g[D \ {Max(D)}], s[Max(D)])
      BY <1>3, <3>1
    <3> QED BY <3>1, <3>2 DEF PlaceTurn, PartTurn
  <2>4. g = [D \in SUBSET (1..n) |-> PartTurn(s, g, D)]
    BY <2>2, <2>3 DEF IsPlaceFold
  <2> QED BY <1>0, <2>4 DEF IsParting
<1>5. IsParting(s, h)
  BY <1>4, Zenon DEF h, Parting
<1>6. \A D \in SUBSET (1..n) : h[D] = PartTurn(s, h, D)
  BY <1>0, <1>5 DEF IsParting
<1>7. \A D \in SUBSET (1..n) : h[D] \in V
  <2>1. h[{}] \in V
    BY <1>1, <1>6 DEF PartTurn
  <2>2. ASSUME NEW D \in SUBSET (1..n), D # {} PROVE \E i \in D : h[D \ {i}] \in V => h[D] \in V
    <3>1. Max(D) \in D /\ Max(D) \in 1..n
      BY <1>2, <2>2
    <3>2. h[D] = Parted(h[D \ {Max(D)}], s[Max(D)])
      BY <1>6, <2>2 DEF PartTurn
    <3> QED BY <1>3, <3>1, <3>2
  <2> QED BY <1>0, <2>1, <2>2, FoldStays
<1>8. SegmentsOf(text) = h[1..n]
  BY <1>0, SegmentsAreFold, Zenon DEF h, s
<1> QED BY <1>7, <1>8 DEF V

\* What PathOf gives for texts is the path that is read from its end.
LEMMA PathsOfTexts ==
  ASSUME NEW target, \A t \in target : AreTokens(t), NEW path \in PathOf(target)
  PROVE  /\ \A i \in DOMAIN path : path[i] \notin {Dot, DotDot}
         /\ \E t \in target : path = PathFromEnd(SegmentsOf(Before(t, <<"?">>)))
<1>1. PathOf(target) = {RemoveDotSegments(SegmentsOf(SubSeq(s, 1, PathEnd(s)))) :
                          s \in {t \in target : t # <<>> /\ t[1] = "/"}}
  BY DEF PathOf, PathEnd
<1>2. PICK s \in target : /\ s # <<>> /\ s[1] = "/"
                          /\ path = RemoveDotSegments(SegmentsOf(SubSeq(s, 1, PathEnd(s))))
  BY <1>1
<1> DEFINE T == Range(s)
           text == Before(s, <<"?">>)
           segments == SegmentsOf(text)
<1>3. s \in Seq(T)
  BY DEF AreTokens
<1> HIDE DEF T
<1>4. SubSeq(s, 1, PathEnd(s)) = text /\ text \in Seq(T) /\ text # <<>>
  BY <1>2, <1>3, PathEndsBefore
<1>5. path = RemoveDotSegments(segments)
  BY <1>2, <1>4
<1> HIDE DEF text
<1>6. segments \in SomeParts(T)
  BY <1>4, SegmentsAreParts
<1> HIDE DEF segments
<1>7. Len(segments) \in Nat \ {0} /\ DOMAIN segments = 1..Len(segments)
  BY <1>6 DEF SomeParts
<1>8. /\ RemoveDotSegments(segments) = PathFromEnd(segments)
      /\ \A i \in DOMAIN RemoveDotSegments(segments) : RemoveDotSegments(segments)[i] \notin {Dot, DotDot}
  BY <1>7, PathFromBothEnds
<1>9. path = PathFromEnd(SegmentsOf(Before(s, <<"?">>)))
  BY <1>5, <1>8 DEF segments, text
<1> QED BY <1>5, <1>8, <1>9

-------------------------------------------------------------------------------
\* Split takes one part more, until no separator is left.
OneSplit(c, w) ==
  IF c.open THEN [parts |-> Append(c.parts, Before(c.rest, w)), rest |-> Behind(c.rest, w),
                  open |-> Places(c.rest, w) # {}]
  ELSE c
Unsplit(s) == [parts |-> <<>>, rest |-> s, open |-> TRUE]
SplitTurn(s, w, h, D) == IF D = {} THEN Unsplit(s) ELSE OneSplit(h[D \ {Max(D)}], w)
Chances(s) == DOMAIN [i \in 1..(Len(s) + 1) |-> i]
IsSplitting(s, w, h) == h = [D \in SUBSET Chances(s) |-> SplitTurn(s, w, h, D)]
Splitting(s, w) == CHOOSE h : IsSplitting(s, w, h)

LEMMA SplitIsFold ==
  ASSUME NEW s, NEW w
  PROVE  Split(s, w) = Splitting(s, w)[Chances(s)].parts
BY Zenon DEF Split, FoldLeft, MapThenFoldSet, Splitting, IsSplitting, SplitTurn, OneSplit, Unsplit, Chances

\* Before the first turn there is no part, and the text is open.
SplitTexts(T) ==
  {c \in [parts : Seq(Seq(T)), rest : Seq(T), open : BOOLEAN] : c.open \/ c.parts # <<>>}

LEMMA SplitGivesPart ==
  ASSUME NEW T, NEW w, Separates(w), NEW c \in SplitTexts(T)
  PROVE  OneSplit(c, w) \in SplitTexts(T) /\ OneSplit(c, w).parts # <<>>
<1> DEFINE before == Before(c.rest, w)
           behind == Behind(c.rest, w)
           parts == Append(c.parts, before)
<1>1. c.parts \in Seq(Seq(T)) /\ c.rest \in Seq(T) /\ c.open \in BOOLEAN
  BY DEF SplitTexts
<1>2. CASE c.open
  <2>1. before \in Seq(T) /\ behind \in Seq(T)
    BY <1>1, PartsAreTokens
  <2>2. OneSplit(c, w) = [parts |-> parts, rest |-> behind, open |-> Places(c.rest, w) # {}]
    BY <1>2 DEF OneSplit
  <2> HIDE DEF before, behind
  <2>3. parts \in Seq(Seq(T)) /\ Len(parts) = Len(c.parts) + 1
    BY <1>1, <2>1
  <2> HIDE DEF parts
  <2>4. parts # <<>>
    BY <1>1, <2>3
  <2> QED BY <2>1, <2>2, <2>3, <2>4 DEF SplitTexts
<1>3. CASE ~c.open
  BY <1>3 DEF OneSplit, SplitTexts
<1> QED BY <1>2, <1>3

\* One turn for each chance, from the text that is not split yet.
IsSplit(T, s, w, n, h) ==
  /\ n \in Nat \ {0} /\ Unsplit(s) \in SplitTexts(T) /\ h[{}] = Unsplit(s)
  /\ \A D \in SUBSET (1..n) : D # {} => \E i \in D : h[D] = OneSplit(h[D \ {i}], w)
  /\ \A D \in SUBSET (1..n) : h[D] \in SplitTexts(T)
  /\ Split(s, w) = h[1..n].parts

LEMMA SplitSteps ==
  ASSUME NEW T, NEW s, s \in Seq(T), NEW w, Separates(w)
  PROVE  IsSplit(T, s, w, Len(s) + 1, Splitting(s, w))
<1> DEFINE n == Len(s) + 1
           V == SplitTexts(T)
           c == [D \in SUBSET (1..n) |-> Max(D)]
           t == [p \in (1..n) \X V |-> OneSplit(p[2], w)]
           h == Splitting(s, w)
<1>0. n \in Nat \ {0} /\ Chances(s) = 1..n
  BY DEF Chances
<1>1. Unsplit(s) \in V
  BY DEF SplitTexts, Unsplit
<1> HIDE DEF n, V, h
<1>2. \A D \in SUBSET (1..n) : D # {} => c[D] \in D /\ c[D] = Max(D)
  BY <1>0, PlacesHaveEnds
<1>3. \A i \in 1..n, v \in V : t[<<i, v>>] = OneSplit(v, w) /\ OneSplit(v, w) \in V
  <2>1. ASSUME NEW v \in V PROVE OneSplit(v, w) \in V
    BY SplitGivesPart DEF V
  <2> QED BY <2>1
<1> HIDE DEF c, t
<1>4. \E g : IsSplitting(s, w, g)
  <2>1. KeepsTo(n, c, t, Unsplit(s), V)
    BY <1>1, <1>2, <1>3 DEF KeepsTo
  <2>2. PICK g : IsPlaceFold(n, c, t, Unsplit(s), g) /\ \A D \in SUBSET (1..n) : g[D] \in V
    BY <1>0, <2>1, PlaceFoldStays
  <2>3. \A D \in SUBSET (1..n) : PlaceTurn(c, t, Unsplit(s), g, D) = SplitTurn(s, w, g, D)
    <3> SUFFICES ASSUME NEW D \in SUBSET (1..n), D # {}
                 PROVE  PlaceTurn(c, t, Unsplit(s), g, D) = SplitTurn(s, w, g, D)
      BY DEF PlaceTurn, SplitTurn
    <3>1. Max(D) \in 1..n /\ c[D] = Max(D) /\ g[D \ {Max(D)}] \in V
      BY <1>2, <2>2
    <3>2. t[<<Max(D), g[D \ {Max(D)}]>>] = OneSplit(g[D \ {Max(D)}], w)
      BY <1>3, <3>1
    <3> QED BY <3>1, <3>2 DEF PlaceTurn, SplitTurn
  <2>4. g = [D \in SUBSET (1..n) |-> SplitTurn(s, w, g, D)]
    BY <2>2, <2>3 DEF IsPlaceFold
  <2> QED BY <1>0, <2>4 DEF IsSplitting
<1>5. IsSplitting(s, w, h)
  BY <1>4, Zenon DEF h, Splitting
<1>6. \A D \in SUBSET (1..n) : h[D] = SplitTurn(s, w, h, D)
  BY <1>0, <1>5 DEF IsSplitting
<1>7. ASSUME NEW D \in SUBSET (1..n), D # {}
      PROVE  \E i \in D : h[D] = OneSplit(h[D \ {i}], w)
  <2>1. Max(D) \in D
    BY <1>2, <1>7
  <2> QED BY <1>6, <1>7, <2>1 DEF SplitTurn
<1>8. h[{}] = Unsplit(s)
  BY <1>6 DEF SplitTurn
<1>9. \A D \in SUBSET (1..n) : h[D] \in V
  <2>1. h[{}] \in V
    BY <1>1, <1>8
  <2>2. ASSUME NEW D \in SUBSET (1..n), D # {} PROVE \E i \in D : h[D \ {i}] \in V => h[D] \in V
    <3>1. PICK i \in D : h[D] = OneSplit(h[D \ {i}], w)
      BY <1>7, <2>2
    <3>2. i \in 1..n
      OBVIOUS
    <3> QED BY <1>3, <3>1, <3>2
  <2> QED BY <1>0, <2>1, <2>2, FoldStays
<1>10. Split(s, w) = h[1..n].parts
  BY <1>0, SplitIsFold, Zenon DEF h
<1> QED BY <1>0, <1>1, <1>7, <1>8, <1>9, <1>10 DEF n, V, h, IsSplit

\* The first part is what stands before the first separator, and there is a second one if there is a separator.
LEMMA SplitStarts ==
  ASSUME NEW T, NEW s, s \in Seq(T), NEW w, Separates(w)
  PROVE  LET parts == Split(s, w)
         IN  /\ parts \in Seq(Seq(T)) /\ Len(parts) >= 1 /\ parts[1] = Before(s, w)
             /\ s # <<>> /\ Places(s, w) # {} => Len(parts) >= 2
<1>0. PICK n, h : n = Len(s) + 1 /\ IsSplit(T, s, w, n, h)
  BY SplitSteps
<1> DEFINE first == Before(s, w)
           once == OneSplit(Unsplit(s), w)
           Begun == {c \in SplitTexts(T) : Len(c.parts) >= 1 /\ c.parts[1] = first}
           Ahead == {c \in Begun : c = once \/ ~once.open \/ Len(c.parts) >= 2}
<1>1. /\ n \in Nat \ {0} /\ Unsplit(s) \in SplitTexts(T) /\ h[{}] = Unsplit(s)
      /\ \A D \in SUBSET (1..n) : D # {} => \E i \in D : h[D] = OneSplit(h[D \ {i}], w)
      /\ \A D \in SUBSET (1..n) : h[D] \in SplitTexts(T)
      /\ Split(s, w) = h[1..n].parts
  BY <1>0 DEF IsSplit
<1>2. first \in Seq(T)
  BY PartsAreTokens
<1>3. once = [parts |-> <<first>>, rest |-> Behind(s, w), open |-> Places(s, w) # {}]
  <2>1. Append(<<>>, first) = <<first>>
    BY <1>2
  <2> QED BY <2>1 DEF OneSplit, Unsplit
<1>4. once \in Ahead
  <2>1. once \in SplitTexts(T)
    BY <1>1, SplitGivesPart
  <2> QED BY <1>3, <2>1
<1> HIDE DEF first, once
<1>5. ASSUME NEW c \in Begun
      PROVE  /\ OneSplit(c, w) \in Begun /\ Len(OneSplit(c, w).parts) >= Len(c.parts)
             /\ c.open => Len(OneSplit(c, w).parts) >= 2
  <2> DEFINE d == OneSplit(c, w)
  <2>1. d \in SplitTexts(T) /\ c \in SplitTexts(T) /\ c.parts \in Seq(Seq(T)) /\ c.rest \in Seq(T)
    BY SplitGivesPart DEF SplitTexts
  <2>2. CASE ~c.open
    BY <2>2 DEF OneSplit
  <2>3. CASE c.open
    <3> DEFINE next == Before(c.rest, w)
    <3>1. d.parts = Append(c.parts, next)
      BY <2>3 DEF OneSplit
    <3>2. next \in Seq(T)
      BY <2>1, PartsAreTokens
    <3> HIDE DEF next, d
    <3>3. Len(c.parts) >= 1 /\ c.parts[1] = first /\ Len(c.parts) \in Nat
      BY <2>1
    <3>4. Len(d.parts) = Len(c.parts) + 1 /\ d.parts[1] = c.parts[1]
      BY <2>1, <3>1, <3>2, <3>3
    <3> QED BY <2>1, <3>3, <3>4 DEF d
  <2> QED BY <2>2, <2>3
<1>6. ASSUME NEW c \in Ahead
      PROVE  OneSplit(c, w) \in Ahead /\ (~once.open \/ Len(OneSplit(c, w).parts) >= 2)
  <2> DEFINE d == OneSplit(c, w)
  <2>1. c \in Begun /\ d \in Begun /\ Len(d.parts) >= Len(c.parts) /\ (c.open => Len(d.parts) >= 2)
    BY <1>5
  <2>2. Len(c.parts) \in Nat /\ Len(d.parts) \in Nat
    BY <2>1 DEF SplitTexts
  <2> HIDE DEF d
  <2>3. ~once.open \/ Len(d.parts) >= 2
    BY <2>1, <2>2
  <2> QED BY <2>1, <2>3 DEF d
<1> DEFINE V == Ahead \cup {Unsplit(s)}
<1>7. \A D \in SUBSET (1..n) : h[D] \in V
  <2>1. h[{}] \in V
    BY <1>1
  <2>2. ASSUME NEW D \in SUBSET (1..n), D # {} PROVE \E i \in D : h[D \ {i}] \in V => h[D] \in V
    <3>1. PICK i \in D : h[D] = OneSplit(h[D \ {i}], w)
      BY <1>1, <2>2
    <3>2. h[D \ {i}] \in V => h[D] \in V
      <4> HIDE DEF Ahead
      <4> QED BY <1>4, <1>6, <3>1 DEF once
    <3> QED BY <3>2
  <2> HIDE DEF V
  <2> QED BY <1>1, <2>1, <2>2, FoldStays
<1>8. ASSUME NEW D \in SUBSET (1..n), D # {} PROVE h[D] \in Ahead
  <2>1. PICK i \in D : h[D] = OneSplit(h[D \ {i}], w)
    BY <1>1, <1>8
  <2>2. h[D \ {i}] \in V
    BY <1>7
  <2> HIDE DEF Ahead
  <2> QED BY <1>4, <1>6, <2>1, <2>2 DEF once
<1>9. 1..n \in SUBSET (1..n) /\ 1..n # {}
  <2>1. 1 \in 1..n
    BY <1>1
  <2> QED BY <2>1
<1>10. h[1..n] \in Ahead
  BY <1>8, <1>9
<1>11. Len(s) >= 1 => ~once.open \/ Len(h[1..n].parts) >= 2
  <2> SUFFICES ASSUME Len(s) >= 1 PROVE ~once.open \/ Len(h[1..n].parts) >= 2
    OBVIOUS
  <2>1. PICK i \in 1..n : h[1..n] = OneSplit(h[(1..n) \ {i}], w)
    BY <1>1, <1>9
  <2>2. (1..n) \ {i} # {}
    <3>1. 1 \in 1..n /\ 2 \in 1..n
      BY <1>0
    <3> QED BY <3>1
  <2>3. h[(1..n) \ {i}] \in Ahead
    BY <1>8, <2>2
  <2> HIDE DEF Ahead
  <2> QED BY <1>6, <2>1, <2>3
<1>12. Split(s, w) \in Seq(Seq(T)) /\ Len(Split(s, w)) >= 1 /\ Split(s, w)[1] = first
  BY <1>1, <1>10 DEF SplitTexts
<1>13. s # <<>> /\ Places(s, w) # {} => Len(Split(s, w)) >= 2
  <2>1. s # <<>> => Len(s) >= 1
    OBVIOUS
  <2> QED BY <1>1, <1>3, <1>11, <2>1
<1> QED BY <1>12, <1>13 DEF first

-------------------------------------------------------------------------------
\* Where the targets come from: the parser of HTTP and the decoder.

LEMMA MappedIsTokens ==
  ASSUME NEW T, NEW s, s \in Seq(T), NEW f, DOMAIN f = DOMAIN s, f = [i \in DOMAIN f |-> f[i]]
  PROVE  AreTokens(f)
<1>1. DOMAIN f = 1..Len(s) /\ Len(s) \in Nat
  OBVIOUS
<1>2. f \in [1..Len(s) -> Range(f)]
  BY <1>1 DEF Range
<1> QED BY <1>1, <1>2 DEF AreTokens

LEMMA JoinedIsTokens ==
  ASSUME NEW a, NEW b, AreTokens(a), AreTokens(b)
  PROVE  AreTokens(a \o b)
<1> DEFINE T == Range(a) \cup Range(b)
<1>1. a \in Seq(T) /\ b \in Seq(T)
  <2>1. a \in Seq(Range(a)) /\ b \in Seq(Range(b)) /\ Range(a) \subseteq T /\ Range(b) \subseteq T
    BY DEF AreTokens
  <2> HIDE DEF T
  <2> QED BY <2>1
<1> HIDE DEF T
<1>2. a \o b \in Seq(T)
  BY <1>1
<1> QED BY <1>2, TokensAre

LEMMA CutIsTokens ==
  ASSUME NEW a, AreTokens(a), NEW k \in 0..Len(a)
  PROVE  AreTokens(SubSeq(a, 1, k))
<1> DEFINE T == Range(a)
<1>1. a \in Seq(T)
  BY DEF AreTokens
<1>2. IsPart(a, 0, k) /\ 0 + 1 = 1
  BY <1>1 DEF IsPart
<1> HIDE DEF T
<1>3. Slice(a, 0, k) \in Seq(T)
  BY <1>1, <1>2, SliceIs
<1>4. Slice(a, 0, k) = SubSeq(a, 1, k)
  BY <1>2, Zenon DEF Slice
<1> QED BY <1>3, <1>4, TokensAre

TargetsRead(application) == \A t \in application.target : AreTokens(t)

\* The parser of HTTP takes a target from the first line.
LEMMA ParsedTargetIsText ==
  ASSUME NEW s, AreTokens(s)
  PROVE  TargetsRead(ParseHttp(s))
<1> DEFINE T == Range(s)
           end == CRLF \o CRLF
           before == Before(s, end)
           lines == Split(before, CRLF)
           start == lines[1]
           code == Word1(Rest(start))
<1>1. Separates(CRLF) /\ Separates(end) /\ Separates(<<" ">>)
  BY DEF Separates, CRLF
<1>2. s \in Seq(T)
  BY DEF AreTokens
<1> HIDE DEF T, end
<1>3. before \in Seq(T)
  BY <1>1, <1>2, PartsAreTokens
<1> HIDE DEF before
<1>4. start \in Seq(T)
  <2>1. start = Before(before, CRLF)
    BY <1>1, <1>3, SplitStarts
  <2> QED BY <1>1, <1>3, <2>1, PartsAreTokens
<1>5. \E headers, body, partial, errors : ParseHttp(s) = HttpMessage(start, headers, body, partial, errors)
  BY DEF ParseHttp, HttpOf, before, end
<1> HIDE DEF start, lines
<1>6. code \in Seq(T)
  <2>1. Rest(start) \in Seq(T)
    BY <1>1, <1>4, PartsAreTokens DEF Rest
  <2> QED BY <1>1, <2>1, PartsAreTokens DEF Word1
<1>7. ParseHttp(s).target \subseteq {code}
  BY <1>5 DEF HttpMessage
<1> HIDE DEF code
<1>8. AreTokens(code)
  BY <1>6, TokensAre
<1> QED BY <1>7, <1>8 DEF TargetsRead

CutAtLimit(text) == SubSeq(text, 1, AtMost(Len(text), PayloadLimit))

LEMMA ItemFields ==
  ASSUME NEW field, NEW value, NEW problems, NEW isFailed \in BOOLEAN
  PROVE  LET i == Item(field, value, problems, isFailed)
         IN  i.field = field /\ \A v \in i.value : \E text \in value : v = CutAtLimit(text)
BY DEF Item, CutAtLimit

IsItemOf(i, field) == \E value, problems : \E isFailed \in BOOLEAN : i = Item(field, value, problems, isFailed)

LEMMA DecodedTargetIsText ==
  ASSUME NEW s, AreTokens(s)
  PROVE  AreTokens(Readable(DecodedTarget(s)))
<1> DEFINE T == Range(s)
           w == <<"?">>
           path == Decoded(Before(s, w), Escapes)
           query == Decoded(Behind(s, w), FormEscapes)
           mark == IF Has(s, "?") THEN <<"?">> ELSE <<>>
           value == DecodedTarget(s)
<1>1. Separates(w) /\ s \in Seq(T)
  BY DEF Separates, AreTokens
<1> HIDE DEF T
<1>2. Before(s, w) \in Seq(T) /\ Behind(s, w) \in Seq(T)
  BY <1>1, PartsAreTokens
<1>3. ASSUME NEW text, text \in Seq(T), NEW table PROVE AreTokens(Decoded(text, table))
  <2> DEFINE f == Decoded(text, table)
  <2>1. DOMAIN f = DOMAIN text /\ f = [i \in DOMAIN f |-> f[i]]
    BY DEF Decoded
  <2> HIDE DEF f
  <2>2. AreTokens(f)
    BY <1>3, <2>1, MappedIsTokens
  <2> QED BY <2>2 DEF f
<1>4. AreTokens(path) /\ AreTokens(query)
  BY <1>2, <1>3
<1>5. AreTokens(mark)
  <2>1. <<"?">> \in Seq({"?"}) /\ <<>> \in Seq({"?"})
    OBVIOUS
  <2>2. mark \in Seq({"?"})
    BY <2>1
  <2> QED BY <2>2, TokensAre
<1>6. value = path \o mark \o query
  BY Zenon DEF DecodedTarget
<1> HIDE DEF path, mark, query, value
<1>7. AreTokens(value)
  BY <1>4, <1>5, <1>6, JoinedIsTokens
<1>8. AreTokens(Readable(value))
  <2> DEFINE f == Readable(value)
  <2>1. DOMAIN f = DOMAIN value /\ f = [i \in DOMAIN f |-> f[i]]
    BY DEF Readable
  <2>2. value \in Seq(Range(value))
    BY <1>7 DEF AreTokens
  <2> HIDE DEF f
  <2>3. AreTokens(f)
    BY <2>1, <2>2, MappedIsTokens
  <2> QED BY <2>3 DEF f
<1> QED BY <1>8 DEF value

ItemsRead(decoded) == \A i \in decoded : i.field = "http.target" => \A v \in i.value : AreTokens(v)

LEMMA TargetItemsAreTexts ==
  ASSUME NEW application, TargetsRead(application)
  PROVE  ItemsRead(TargetItems(application))
<1> SUFFICES ASSUME NEW i \in TargetItems(application), NEW v \in i.value PROVE AreTokens(v)
  BY DEF ItemsRead
<1>1. PICK s \in application.target :
        \E problems : i = Item("http.target", {Readable(DecodedTarget(AsMeant(s)))}, problems, FALSE)
  BY DEF TargetItems
<1> DEFINE x == Readable(DecodedTarget(AsMeant(s)))
<1>2. AreTokens(x)
  <2> DEFINE f == AsMeant(s)
  <2>1. s \in Seq(Range(s))
    BY <1>1 DEF TargetsRead, AreTokens
  <2>2. DOMAIN f = DOMAIN s /\ f = [k \in DOMAIN f |-> f[k]]
    BY DEF AsMeant
  <2> HIDE DEF f
  <2>3. AreTokens(f)
    BY <2>1, <2>2, MappedIsTokens
  <2> QED BY <2>3, DecodedTargetIsText DEF f
<1> HIDE DEF x
<1> DEFINE texts == {x}
<1>3. PICK problems : \E isFailed \in BOOLEAN : i = Item("http.target", texts, problems, isFailed)
  BY <1>1 DEF x
<1>4. \A y \in i.value : \E text \in texts : y = CutAtLimit(text)
  <2> HIDE DEF texts
  <2> QED BY <1>3, ItemFields
<1>5. v = CutAtLimit(x)
  BY <1>3, <1>4
<1>6. AtMost(Len(x), PayloadLimit) \in 0..Len(x)
  <2>1. x \in Seq(Range(x))
    BY <1>2 DEF AreTokens
  <2> QED BY <2>1, DecoderLimits DEF AtMost
<1> QED BY <1>2, <1>5, <1>6, CutIsTokens DEF CutAtLimit

\* A body gives one item at most, and it tells a cut.
LEMMA BodyGivesOneItem ==
  ASSUME NEW application, NEW payload
  PROVE  \E value, problems :
           \A i \in BodyItems(application, payload) :
             i = Item("http.body", value, problems \cup Problems(payload.cut, "payload cut"), FALSE)
<1> DEFINE end == CRLF \o CRLF
           body == Behind(payload.data, end)
           isForm == application.media = "form"
           text == DecodeText(body, ~payload.cut)
           formed == IF isForm THEN Decoded(text, FormEscapes) ELSE text
           value == Decoded(Readable(formed), Entities)
           found == Problems(isForm /\ Has(text, "%zz"), "escape") \cup Problems(Has(formed, "raw"), "UTF-8")
                      \cup Problems(Has(formed, "&#0;"), "entity")
           told == Problems(Invalid(body, ~payload.cut) > 0, "UTF-8")
                     \cup Problems(~application.bodyComplete, "body continues")
           lost == told \cup Problems(payload.cut, "payload cut")
           nothing == \/ Places(payload.data, end) = {} \/ application.media = "other" \/ application.compressed
                      \/ (value = text /\ found = {})
<1>1. BodyItems(application, payload) = IF nothing THEN {} ELSE {Item("http.body", {value}, found \cup lost, FALSE)}
  BY Zenon DEF BodyItems
<1>2. found \cup lost = (found \cup told) \cup Problems(payload.cut, "payload cut")
  <2> HIDE DEF found, told
  <2> QED OBVIOUS
<1> HIDE DEF value, found, told, lost, nothing
<1>3. \A i \in BodyItems(application, payload) :
        i = Item("http.body", {value}, (found \cup told) \cup Problems(payload.cut, "payload cut"), FALSE)
  BY <1>1, <1>2, Zenon
<1> QED BY <1>3

\* Which field an item is of.
LEMMA FieldsOfItems ==
  ASSUME NEW application, NEW payload
  PROVE  /\ \A i \in TargetItems(application) : i.field = "http.target"
         /\ \A i \in BodyItems(application, payload) : i.field = "http.body"
         /\ \A i \in PayloadItems(payload) : i.field = "payload"
         /\ \A i \in MimeItems(payload) : i.field = "mime"
<1>1. ASSUME NEW i, NEW field, IsItemOf(i, field) PROVE i.field = field
  BY <1>1, ItemFields DEF IsItemOf
<1>2. \A i \in BodyItems(application, payload) : IsItemOf(i, "http.body")
  <2>1. \A value, problems : IsItemOf(Item("http.body", value, problems, FALSE), "http.body")
    BY DEF IsItemOf
  <2> QED BY <2>1, BodyGivesOneItem, Zenon
<1>3. \A i \in PayloadItems(payload) : IsItemOf(i, "payload")
  BY DEF PayloadItems, IsItemOf
<1>4. \A i \in MimeItems(payload) : IsItemOf(i, "mime")
  <2>1. \A value, problems : \A isFailed \in BOOLEAN : IsItemOf(Item("mime", value, problems, isFailed), "mime")
    BY DEF IsItemOf
  <2>2. \A body, complete, reason : \A i \in LeafItems(body, complete, reason) : IsItemOf(i, "mime")
    BY <2>1 DEF LeafItems, Leaf
  <2>3. ASSUME NEW parts, NEW complete, NEW reason, NEW i \in PartItems(parts, complete, reason)
        PROVE  IsItemOf(i, "mime")
    <3>1. \/ \E n \in 1..AtMost(Len(parts), MaxParts) : i \in LeafItems(parts[n], complete, reason)
          \/ i = Item("mime", {}, {"parts"}, FALSE)
      BY <2>3 DEF PartItems
    <3> QED BY <2>1, <2>2, <3>1
  <2>4. \A text, complete, reason : \A i \in MessageItems(text, complete, reason) : IsItemOf(i, "mime")
    BY <2>1, <2>3 DEF MessageItems
  <2> QED BY <2>4 DEF MimeItems
<1>5. \A i \in TargetItems(application) : IsItemOf(i, "http.target")
  BY DEF TargetItems, IsItemOf
<1> QED BY <1>1, <1>2, <1>3, <1>4, <1>5

LEMMA DecodeReadsTargets ==
  ASSUME NEW r, \A a \in r.application : TargetsRead(a)
  PROVE  ItemsRead(Decode(r).decoded)
<1> DEFINE payload == ReadPayload(r)
           absent == [target |-> {}, media |-> "", compressed |-> FALSE, bodyComplete |-> TRUE]
           object == IF r.application = {} THEN absent ELSE CHOOSE a \in r.application : TRUE
<1>1. TargetsRead(object)
  BY DEF TargetsRead
<1> HIDE DEF payload, object
<1>2. ItemsRead(TargetItems(object))
  BY <1>1, TargetItemsAreTexts
<1>3. Decode(r).decoded = {} \/ Decode(r).decoded = ItemsOfRecord(r, payload)
  BY DEF Decode, DecodeResult, payload
<1>4. \A i \in ItemsOfRecord(r, payload) :
        i \in TargetItems(object) \/ i \in BodyItems(object, payload) \cup PayloadItems(payload) \cup MimeItems(payload)
  BY DEF ItemsOfRecord, object
<1>5. "http.body" # "http.target" /\ "payload" # "http.target" /\ "mime" # "http.target"
  OBVIOUS
<1>6. \A i \in BodyItems(object, payload) \cup PayloadItems(payload) \cup MimeItems(payload) : i.field # "http.target"
  BY <1>5, FieldsOfItems
<1> QED BY <1>2, <1>3, <1>4, <1>6 DEF ItemsRead

-------------------------------------------------------------------------------
\* The targets of a record are texts, from its source to the output.

Texts(r) == \A a \in r.application : TargetsRead(a)

LEMMA PayloadIsText ==
  ASSUME NEW p \in Packets, NEW fails,
         NEW net, net = NetworkStage(p, fails), NEW part, part = TransportStage(p, net, fails)
  PROVE  AreTokens(part.payload.units)
<1>0. net.network \subseteq p.ip
  BY DEF NetworkStage, ParseIpv4
<1>1. \/ \E status, errors : part = NoTransport(status, errors)
      \/ \E ip \in net.network : part = ParseTransport(p, ip)
  BY DEF TransportStage
<1>2. ASSUME NEW status, NEW errors, part = NoTransport(status, errors)
      PROVE  AreTokens(part.payload.units)
  <2>1. part.payload.units = <<>> /\ <<>> \in Seq({})
    BY <1>2 DEF NoTransport, Empty
  <2> QED BY <2>1, TokensAre
<1>3. ASSUME NEW ip \in net.network, part = ParseTransport(p, ip)
      PROVE  AreTokens(part.payload.units)
  <2> DEFINE layer == CHOOSE x \in p.layer : TRUE
  <2>1. \/ \E status, errors : part = NoTransport(status, errors)
        \/ p.layer # {} /\ part = ReadLayer(layer, ip, p.captured)
    BY <1>3 DEF ParseTransport
  <2>2. CASE p.layer # {} /\ part = ReadLayer(layer, ip, p.captured)
    <3>1. layer \in p.layer /\ ip \in p.ip
      BY <1>0, <2>2
    <3> HIDE DEF layer
    <3> DEFINE n == Declared(layer, ip)
               units == p.captured.units
    <3>2. n \in Nat
      BY <3>1, PayloadIsDeclared
    <3> HIDE DEF n
    <3>3. part.payload = CutTo(p.captured, n)
      BY <2>2 DEF ReadLayer, n
    <3>4. part.payload.units = SubSeq(units, 1, AtMost(n, Len(units)))
      BY <3>3, PacketsAreDissected DEF CutTo
    <3>5. AreTokens(units)
      BY PacketsAreDissected DEF AreTokens
    <3>6. AtMost(n, Len(units)) \in 0..Len(units)
      BY <3>2, <3>5 DEF AreTokens, AtMost
    <3> HIDE DEF units
    <3> QED BY <3>4, <3>5, <3>6, CutIsTokens
  <2> QED BY <1>2, <2>1, <2>2
<1> QED BY <1>1, <1>2, <1>3

LEMMA EventsHoldTexts ==
  ASSUME NEW p \in Packets, NEW fails, NEW pol, NEW e \in PipelineProcess(p, fails, pol)
  PROVE  e.detection.protocol = "HTTP" => \A a \in e.application : TargetsRead(a)
<1>1. CASE "envelope" \in fails
  <2>1. e = MalformedEvent
    BY <1>1 DEF PipelineProcess
  <2> QED BY <2>1 DEF MalformedEvent
<1>2. CASE "envelope" \notin fails
  <2> DEFINE net == NetworkStage(p, fails)
             part == TransportStage(p, net, fails)
             base == [MalformedEvent EXCEPT !.time = p.time, !.network = net.network]
  <2>1. e = DetectorStage(base, part, fails)
    BY <1>2 DEF PipelineProcess, BuildEvent
  <2>2. IsBase(base) /\ AreTokens(part.payload.units)
    BY PayloadIsText DEF IsBase, MalformedEvent
  <2> HIDE DEF part, base
  <2>3. \A d, application : LET a == Assembled(base, part, d, application)
                            IN  IsBase(a) /\ a.application = application /\ a.detection = d
    BY <2>2, AssembledFields
  <2>4. ASSUME NEW a, NEW at, IsBase(a) PROVE Marred(a, at).application = a.application
    <3>1. "application" \in DOMAIN a \ {"status", "errors"}
      BY <2>4 DEF IsBase, MalformedEvent
    <3> QED BY <2>4, <3>1, MarredFields
  <2>5. \/ \E d : e = Assembled(base, part, d, {})
        \/ \E d, at : e = Marred(Assembled(base, part, d, {}), at)
        \/ \E d : e = Assembled(base, part, d, {ParseApplication(d, part.payload, part.transport)})
    BY <2>1, Zenon DEF DetectorStage, ApplicationStage
  <2>6. CASE \/ \E d : e = Assembled(base, part, d, {})
             \/ \E d, at : e = Marred(Assembled(base, part, d, {}), at)
    <3>1. e.application = {}
      BY <2>3, <2>4, <2>6
    <3> QED BY <3>1
  <2>7. ASSUME NEW d, e = Assembled(base, part, d, {ParseApplication(d, part.payload, part.transport)}),
               e.detection.protocol = "HTTP", NEW a \in e.application
        PROVE  TargetsRead(a)
    <3>1. d.protocol = "HTTP" /\ a = ParseApplication(d, part.payload, part.transport)
      BY <2>3, <2>7
    <3>2. a = ParseHttp(part.payload.units)
      BY <3>1, Zenon DEF ParseApplication
    <3> QED BY <2>2, <3>2, ParsedTargetIsText
  <2> QED BY <2>5, <2>6, <2>7
<1> QED BY <1>1, <1>2

LEMMA RecordsOfEvents ==
  ASSUME NEW p \in Packets, NEW fails, NEW pol, NEW e \in PipelineProcess(p, fails, pol)
  PROVE  Texts(ToRecord(e))
<1> SUFFICES ASSUME NEW a \in ToRecord(e).application PROVE TargetsRead(a)
  BY DEF Texts
<1> DEFINE media(b) == IF b.media \in {{}, {<<>>}} THEN "" ELSE (CHOOSE m \in b.media : TRUE)[1]
           compressed(b) == ~(b.encoding \subseteq {<<>>, <<"identity">>})
           object(b) == [target |-> b.target, bodyComplete |-> b.bodyComplete, media |-> media(b),
                         compressed |-> compressed(b)]
           objects == IF e.detection.protocol # "HTTP" THEN {} ELSE {object(b) : b \in e.application}
<1>1. ToRecord(e).application = objects
  BY DEF ToRecord, NotEnriched
<1>2. \A b : object(b).target = b.target
  OBVIOUS
<1> HIDE DEF object
<1>3. e.detection.protocol = "HTTP" /\ \E b \in e.application : a = object(b)
  BY <1>1
<1> QED BY <1>2, <1>3, EventsHoldTexts DEF TargetsRead

\* The records that are not made of an event.
GivenRecords == {SourceOnly} \cup Records \cup {Events[name] : name \in DOMAIN Events}

\* The record is that of before, the output of an earlier round, a given one or that of an event.
LEMMA RecordComesFrom ==
  ASSUME EInv, EventInv', [Next]_vars
  PROVE  \/ record' \in {record, output} \cup GivenRecords
         \/ \E p \in Packets : \E fails, pol : \E e \in PipelineProcess(p, fails, pol) : record' = ToRecord(e)
<1> USE DEF GivenRecords
<1>1. CASE Read /\ Untouched /\ UNCHANGED <<enricherVars, failing, event>>
  BY <1>1 DEF enricherVars
<1>2. ASSUME NEW fails \in Failures, ProcessPacket(fails)
      PROVE  \/ record' \in {record, output} \cup GivenRecords
             \/ \E p \in Packets : \E raised, pol : \E e \in PipelineProcess(p, raised, pol) : record' = ToRecord(e)
  <2>1. record' = record \/ record' = SourceOnly \/ \E e \in event' : record' = ToRecord(e)
    BY <1>2 DEF ProcessPacket, Begin
  <2>2. \A e \in event' : \E p \in Packets : e \in PipelineProcess(p, failing', policy')
    BY DEF EventInv
  <2> QED BY <2>1, <2>2
<1>3. CASE ReadItem
  BY <1>3 DEF ReadItem, enricherVars
<1>4. CASE TakeItem
  <2>1. taken + 1 \in 1..Len(items) /\ items \in Seq(LineItem)
    BY <1>4 DEF TakeItem, EInv
  <2>2. items[taken + 1].record \subseteq Names
    <3>1. items[taken + 1] \in LineItem
      BY <2>1
    <3> QED BY <3>1 DEF LineItem
  <2>3. record' = SourceOnly \/ \E name \in items[taken + 1].record : record' = Events[name]
    BY <1>4 DEF TakeItem, Begin
  <2> QED BY <2>2, <2>3, FilesNameEvents
<1>5. CASE Replay
  BY <1>5 DEF Replay, Begin
<1>6. ASSUME NEW r \in Records, TakeRecord(r) PROVE record' \in GivenRecords
  BY <1>6 DEF TakeRecord, Begin
<1>7. CASE EnricherNext
  BY <1>7 DEF EnricherNext, RunDecoder, DecoderFails, RunPreprocessor, PreprocessorFails, Drop, Pass, Track,
       TrackerFails, Write, Refuse, Process
<1>8. CASE UNCHANGED vars
  BY <1>8 DEF vars, enricherVars
<1> QED BY <1>1, <1>2, <1>3, <1>4, <1>5, <1>6, <1>7, <1>8 DEF Next

LEMMA RecordStaysText ==
  ASSUME EInv, EventInv', [Next]_vars, Texts(record), Texts(output)
  PROVE  Texts(record')
<1>1. Texts(SourceOnly)
  BY DEF Texts, SourceOnly, NotEnriched
<1>2. \A r \in GivenRecords : Texts(r)
  BY <1>1, RecordsHoldTexts DEF GivenRecords, Texts, TargetsRead
<1> QED BY <1>2, RecordComesFrom, RecordsOfEvents

-------------------------------------------------------------------------------
\* The invariant: the targets that are told are texts, and a path in the view is one of theirs.

PathsTold(out) ==
  \A path \in out.view.path : \E a \in out.application : path \in PathOf(TargetOf(out, a))

PathInv ==
  /\ EInv /\ EventInv
  /\ Texts(record) /\ Texts(output) /\ ItemsRead(output.decoded)
  /\ stage \in {"decoder", "preprocessor"} => output.view = EmptyView
  /\ PathsTold(output)

\* What is said of the output alone.
OutputTold(out) == Texts(out) /\ ItemsRead(out.decoded) /\ PathsTold(out)

LEMMA SameTold ==
  ASSUME NEW out, NEW more, OutputTold(out),
         more.application = out.application, more.decoded = out.decoded, more.view = out.view
  PROVE  OutputTold(more)
<1>1. \A a : TargetOf(more, a) = TargetOf(out, a)
  BY DEF TargetOf
<1> QED BY <1>1 DEF OutputTold, Texts, PathsTold

LEMMA NothingTold ==
  ASSUME NEW out, Texts(out), ItemsRead(out.decoded), out.view = EmptyView
  PROVE  OutputTold(out)
<1>1. out.view.path = {}
  BY DEF EmptyView
<1> QED BY <1>1 DEF OutputTold, PathsTold

LEMMA ReadFresh ==
  ASSUME NEW r, DOMAIN r = OutputFields, NEW errors, Texts(r)
  PROVE  OutputTold(Fresh(r, errors)) /\ Fresh(r, errors).view = EmptyView
<1> DEFINE clean == With(r, Defaults)
           out == Fresh(r, errors)
<1>1. clean.application = r.application /\ clean.decoded = {} /\ clean.view = EmptyView /\ DOMAIN clean = OutputFields
  <2>1. Defaults.decoded = {} /\ Defaults.view = EmptyView
    BY DEF Defaults
  <2> QED BY <2>1, TheFields, WithFields
<1> HIDE DEF clean
<1>2. out.application = r.application /\ out.decoded = {} /\ out.view = EmptyView
  BY <1>1, TheFields DEF Fresh, clean
<1> HIDE DEF out
<1>3. Texts(out) /\ ItemsRead(out.decoded)
  BY <1>2 DEF Texts, ItemsRead
<1> QED BY <1>2, <1>3, NothingTold DEF out

LEMMA PreprocessView ==
  ASSUME NEW r
  PROVE  /\ DOMAIN Preprocess(r) = StageFields.preprocessor
         /\ Preprocess(r).view = EmptyView \/ Preprocess(r).view = Normalized(r)
<1>1. \A status, action, v : Judged(status, action, v).view = v
  BY DEF Judged
<1>2. \/ \E status, action : Preprocess(r) = Judged(status, action, EmptyView)
      \/ \E status, action : Preprocess(r) = Judged(status, action, Normalized(r))
  BY Zenon DEF Preprocess
<1>3. DOMAIN Preprocess(r) = StageFields.preprocessor
  BY PreprocessJudges DEF StageFields
<1> QED BY <1>1, <1>2, <1>3

\* The steps of the enricher that tell something of the target.
LEMMA ToldByStages ==
  ASSUME DOMAIN output = OutputFields, OutputTold(output), output.view = EmptyView,
         RunDecoder \/ DecoderFails \/ RunPreprocessor \/ PreprocessorFails
  PROVE  OutputTold(output') /\ (stage' = "preprocessor" => output'.view = EmptyView)
<1>1. Texts(output) /\ ItemsRead(output.decoded)
  BY DEF OutputTold
<1>2. ItemsRead({})
  BY DEF ItemsRead
<1>3. Defaults.decoded = {} /\ Defaults.view = EmptyView
  BY DEF Defaults
<1>4. CASE RunDecoder
  <2> DEFINE result == Decode(output)
  <2>1. output' = [output EXCEPT !.decodeStatus = result.decodeStatus, !.decoded = result.decoded,
                                 !.processingErrors = @ \cup result.errors]
    BY <1>4 DEF RunDecoder
  <2>2. ItemsRead(result.decoded)
    BY <1>1, DecodeReadsTargets DEF Texts
  <2> HIDE DEF result
  <2>3. /\ output'.application = output.application /\ output'.decoded = result.decoded
        /\ output'.view = EmptyView
    BY <2>1, TheFields
  <2>4. Texts(output')
    BY <1>1, <2>3 DEF Texts
  <2> QED BY <2>2, <2>3, <2>4, NothingTold
<1>5. CASE DecoderFails
  <2>1. PICK wrote \in SUBSET StageFields["decoder"] : output' = Fail(output, "decoder", wrote)
    BY <1>5 DEF DecoderFails
  <2>2. "decoder" \in DOMAIN StageFields /\ StageFields["decoder"] = {"decodeStatus", "decoded"}
    BY DEF StageFields
  <2>3. /\ output'.application = output.application /\ output'.view = output.view
        /\ output'.decoded = Defaults.decoded
    BY <2>1, <2>2, FailFields, TheFields
  <2>4. Texts(output')
    BY <1>1, <2>3 DEF Texts
  <2> QED BY <1>2, <1>3, <2>3, <2>4, NothingTold
<1>6. CASE RunPreprocessor
  <2> DEFINE judged == Preprocess(output)
  <2>1. output' = With(output, judged) /\ stage' = "policy"
    BY <1>6 DEF RunPreprocessor, Process
  <2>2. /\ DOMAIN judged = {"preprocessStatus", "action", "reason", "view"}
        /\ judged.view = EmptyView \/ judged.view = Normalized(output)
    BY PreprocessView DEF StageFields
  <2> HIDE DEF judged
  <2>3. /\ output'.application = output.application /\ output'.decoded = output.decoded
        /\ output'.view = judged.view
    BY <2>1, <2>2, WithFields, TheFields
  <2>4. \A a : TargetOf(output', a) = TargetOf(output, a)
    BY <2>3 DEF TargetOf
  <2>5. PathsTold(output')
    <3>1. EmptyView.path = {}
      BY DEF EmptyView
    <3>2. Normalized(output).path \subseteq UNION {PathOf(TargetOf(output, a)) : a \in output.application}
      BY DEF Normalized
    <3>3. \A path \in output'.view.path : \E a \in output.application : path \in PathOf(TargetOf(output, a))
      BY <2>2, <2>3, <3>1, <3>2
    <3> QED BY <2>3, <2>4, <3>3 DEF PathsTold
  <2>6. stage' # "preprocessor"
    BY <2>1
  <2> QED BY <1>1, <2>3, <2>5, <2>6 DEF OutputTold, Texts
<1>7. CASE PreprocessorFails
  <2>1. PICK wrote \in SUBSET StageFields["preprocessor"] :
          output' = [Fail(output, "preprocessor", wrote) EXCEPT !.reason = "preprocessor failed"]
    BY <1>7 DEF PreprocessorFails
  <2>2. /\ "preprocessor" \in DOMAIN StageFields
        /\ StageFields["preprocessor"] = {"preprocessStatus", "action", "reason", "view"}
    BY DEF StageFields
  <2> DEFINE out == Fail(output, "preprocessor", wrote)
  <2>3. /\ out.application = output.application /\ out.decoded = output.decoded /\ out.view = Defaults.view
        /\ DOMAIN out = OutputFields
    BY <2>2, FailFields, TheFields
  <2> HIDE DEF out
  <2>4. output'.application = output.application /\ output'.decoded = output.decoded /\ output'.view = EmptyView
    <3>1. output' = [out EXCEPT !.reason = "preprocessor failed"]
      BY <2>1 DEF out
    <3> QED BY <1>3, <2>3, <3>1, TheFields
  <2>5. Texts(output') /\ ItemsRead(output'.decoded)
    BY <1>1, <2>4 DEF Texts
  <2> QED BY <2>4, <2>5, NothingTold
<1> QED BY <1>4, <1>5, <1>6, <1>7

\* The other steps of the enricher leave it, or take it all back.
LEMMA ToldByOthers ==
  ASSUME DOMAIN output = OutputFields, OutputTold(output), Drop \/ Pass \/ Track \/ TrackerFails \/ Write \/ Refuse
  PROVE  OutputTold(output') /\ stage' \notin {"decoder", "preprocessor"}
<1>1. CASE Drop \/ Pass \/ Write
  <2>1. output' = output /\ stage' \notin {"decoder", "preprocessor"}
    BY <1>1 DEF Drop, Pass, Write, Process
  <2> QED BY <2>1
<1>2. CASE Track
  <2>1. output' = [output EXCEPT !.flow = {Flow}] /\ stage' = "write"
    BY <1>2 DEF Track, Process
  <2>2. output'.application = output.application /\ output'.decoded = output.decoded /\ output'.view = output.view
    BY <2>1, TheFields
  <2> QED BY <2>1, <2>2, SameTold
<1>3. CASE TrackerFails
  <2>1. PICK wrote \in SUBSET StageFields["flow"] : output' = Fail(output, "flow", wrote)
    BY <1>3 DEF TrackerFails
  <2>2. "flow" \in DOMAIN StageFields /\ StageFields["flow"] = {"flow"} /\ stage' = "write"
    BY <1>3 DEF StageFields, TrackerFails, Process
  <2>3. output'.application = output.application /\ output'.decoded = output.decoded /\ output'.view = output.view
    BY <2>1, <2>2, FailFields, TheFields
  <2> QED BY <2>2, <2>3, SameTold
<1>4. CASE Refuse
  <2> DEFINE base == IF refused = 0 THEN With(output, Defaults) ELSE SourceOnly
  <2>1. output' = [base EXCEPT !.reason = "record could not be written", !.processingErrors = {Exception("output")}]
    BY <1>4 DEF Refuse, Fallback
  <2>2. stage' = "write"
    BY <1>4 DEF Refuse
  <2>3. /\ base.application = output.application \/ base.application = {}
        /\ base.decoded = {} /\ base.view = EmptyView /\ DOMAIN base = OutputFields
    <3>1. /\ SourceOnly.application = {} /\ SourceOnly.decoded = {} /\ SourceOnly.view = EmptyView
          /\ Defaults.decoded = {} /\ Defaults.view = EmptyView
      BY DEF SourceOnly, NotEnriched, Defaults
    <3>2. /\ With(output, Defaults).application = output.application
          /\ With(output, Defaults).decoded = {} /\ With(output, Defaults).view = EmptyView
          /\ DOMAIN With(output, Defaults) = OutputFields
      BY <3>1, WithFields, TheFields
    <3> QED BY <3>1, <3>2 DEF OutputFields
  <2> HIDE DEF base
  <2>4. /\ output'.application = output.application \/ output'.application = {}
        /\ output'.decoded = {} /\ output'.view = EmptyView
    BY <2>1, <2>3, TheFields
  <2>5. Texts(output') /\ ItemsRead(output'.decoded)
    BY <2>4 DEF OutputTold, Texts, ItemsRead
  <2> QED BY <2>2, <2>4, <2>5, NothingTold
<1> QED BY <1>1, <1>2, <1>3, <1>4

LEMMA PathToldStarts == Init => PathInv
<1> SUFFICES ASSUME Init PROVE PathInv
  OBVIOUS
<1>1. EInv /\ EventInv
  BY PathStarts, EventStarts
<1>2. record = SourceOnly /\ output = SourceOnly /\ stage = "idle"
  BY DEF Init
<1>3. SourceOnly.application = {} /\ SourceOnly.decoded = {} /\ SourceOnly.view = EmptyView
  BY DEF SourceOnly, NotEnriched, Defaults
<1>4. Texts(output) /\ ItemsRead(output.decoded)
  BY <1>2, <1>3 DEF Texts, ItemsRead
<1>5. PathsTold(output)
  BY <1>2, <1>3, <1>4, NothingTold DEF OutputTold
<1> QED BY <1>1, <1>2, <1>4, <1>5 DEF PathInv

LEMMA PathToldStays == PathInv /\ [Next]_vars => PathInv'
<1> SUFFICES ASSUME PathInv, [Next]_vars PROVE PathInv'
  OBVIOUS
<1>1. EInv /\ EventInv /\ DOMAIN output = OutputFields /\ OutputTold(output)
  BY DEF PathInv, EInv, OutputTold
<1>2. EInv' /\ EventInv'
  BY <1>1, PathStepKeeps, EventStepKeeps
<1>3. Texts(record')
  BY <1>1, <1>2, RecordStaysText DEF PathInv
<1>4. SUFFICES OutputTold(output') /\ (stage' \in {"decoder", "preprocessor"} => output'.view = EmptyView)
  BY <1>2, <1>3 DEF PathInv, OutputTold
<1>5. ASSUME NEW r, NEW errors, DOMAIN r = OutputFields, Begin(r, errors)
      PROVE  OutputTold(output') /\ output'.view = EmptyView
  <2>1. record' = r /\ output' = Fresh(r, errors)
    BY <1>5 DEF Begin
  <2> QED BY <1>3, <1>5, <2>1, ReadFresh
<1>6. CASE RunDecoder \/ DecoderFails \/ RunPreprocessor \/ PreprocessorFails
  <2>1. stage \in {"decoder", "preprocessor"} /\ stage' \in {"preprocessor", "policy"}
    BY <1>6 DEF RunDecoder, DecoderFails, RunPreprocessor, PreprocessorFails, Process
  <2>2. output.view = EmptyView
    BY <2>1 DEF PathInv
  <2> QED BY <1>1, <1>6, <2>1, <2>2, ToldByStages
<1>7. CASE Drop \/ Pass \/ Track \/ TrackerFails \/ Write \/ Refuse
  BY <1>1, <1>7, ToldByOthers
<1>8. CASE UNCHANGED <<output, stage>>
  BY <1>1, <1>8 DEF PathInv
<1>9. CASE stage' = "ignored" /\ output' = output
  BY <1>1, <1>9
<1> QED BY <1>1, <1>5, <1>6, <1>7, <1>8, <1>9, StepsOfPath DEF EnricherNext

\* RFC 3986, 5.2.4, as _remove_dot_segments of the preprocessor follows it: whatever record or packet the path
\* comes from, with the escapes of the decoder undone, the normalized path of the output is that which the
\* target gives when it is read from its end, and holds no dot segment.
THEOREM PathsAreReferences == Spec => []PathIsReference
<1>1. PathInv => PathIsReference
  <2> SUFFICES ASSUME PathInv, NEW path \in output.view.path
               PROVE  /\ \A i \in DOMAIN path : path[i] \notin {Dot, DotDot}
                      /\ \E a \in output.application : \E target \in TargetOf(output, a) :
                           path = PathFromEnd(SegmentsOf(Before(target, <<"?">>)))
    BY DEF PathIsReference
  <2>1. PICK a \in output.application : path \in PathOf(TargetOf(output, a))
    BY DEF PathInv, PathsTold
  <2> DEFINE target == TargetOf(output, a)
  <2>2. \A t \in target : AreTokens(t)
    <3> DEFINE decoded == {i \in output.decoded : i.field = "http.target" /\ i.value # {}}
    <3>1. target = IF decoded # {} THEN (CHOOSE i \in decoded : TRUE).value ELSE a.target
      BY DEF TargetOf
    <3>2. decoded # {} => (CHOOSE i \in decoded : TRUE) \in decoded
      OBVIOUS
    <3> HIDE DEF target
    <3> QED BY <2>1, <3>1, <3>2 DEF PathInv, Texts, TargetsRead, ItemsRead
  <2> HIDE DEF target
  <2>3. path \in PathOf(target)
    BY <2>1 DEF target
  <2>4. /\ \A i \in DOMAIN path : path[i] \notin {Dot, DotDot}
        /\ \E t \in target : path = PathFromEnd(SegmentsOf(Before(t, <<"?">>)))
    BY <2>2, <2>3, PathsOfTexts
  <2> QED BY <2>1, <2>4 DEF target
<1> QED BY PathToldStarts, PathToldStays, <1>1, PTL DEF Spec

-------------------------------------------------------------------------------
(***************************************************************************)
(* What the detector takes a payload for.                                  *)
(***************************************************************************)

\* a is what s starts with.
StartsWith(s, a) == Len(a) <= Len(s) /\ \A i \in 1..Len(a) : a[i] = s[i]

LEMMA SliceStarts ==
  ASSUME NEW T, NEW s, s \in Seq(T), NEW m \in Nat, m <= Len(s)
  PROVE  /\ SubSeq(s, 1, m) \in Seq(T) /\ Len(SubSeq(s, 1, m)) = m /\ StartsWith(s, SubSeq(s, 1, m))
<1> DEFINE a == SubSeq(s, 1, m)
<1>1. IsPart(s, 0, m) /\ a = Slice(s, 0, m)
  BY DEF IsPart, Slice
<1>2. a \in Seq(T) /\ Len(a) = m - 0
  BY <1>1, SliceIs
<1>3. \A i \in 1..(m - 0) : a[i] = s[0 + i]
  <2> HIDE DEF a
  <2> QED BY <1>1, SliceAt
<1> HIDE DEF a
<1>4. a \in Seq(T) /\ Len(a) = m /\ StartsWith(s, a)
  BY <1>2, <1>3 DEF StartsWith
<1> QED BY <1>4 DEF a

\* A separator that is found at a place starts there.
LEMMA SeparatorAt ==
  ASSUME NEW T, NEW s, s \in Seq(T), NEW w, Separates(w), NEW i \in Places(s, w)
  PROVE  i \in 1..Len(s) /\ i + Len(w) - 1 <= Len(s) /\ \A k \in 1..Len(w) : w[k] = s[i + k - 1]
<1> DEFINE l == Len(w)
<1>0. l \in Nat \ {0} /\ Len(s) \in Nat
  BY DEF Separates
<1>1. i \in 1..(Len(s) + 1 - l) /\ w = SubSeq(s, i, i + l - 1)
  BY DEF Places
<1> HIDE DEF l
<1>2. i \in 1..Len(s) /\ i + l - 1 <= Len(s)
  BY <1>0, <1>1
<1>3. IsPart(s, i - 1, i + l - 1) /\ (i - 1) + 1 = i
  BY <1>0, <1>2 DEF IsPart
<1>4. w = Slice(s, i - 1, i + l - 1)
  BY <1>1, <1>3 DEF Slice
<1>5. \A k \in 1..((i + l - 1) - (i - 1)) : w[k] = s[(i - 1) + k]
  BY <1>3, <1>4, SliceAt
<1>6. \A k \in 1..l : w[k] = s[i + k - 1]
  <2> SUFFICES ASSUME NEW k \in 1..l PROVE w[k] = s[i + k - 1]
    OBVIOUS
  <2>1. k \in 1..((i + l - 1) - (i - 1)) /\ (i - 1) + k = i + k - 1
    BY <1>0, <1>2
  <2> QED BY <1>5, <2>1
<1> QED BY <1>2, <1>6 DEF l

\* What stands before a separator is a start of the text, and not an empty one unless the separator is first.
LEMMA BeforeStarts ==
  ASSUME NEW T, NEW s, s \in Seq(T), NEW w, Separates(w)
  PROVE  /\ Before(s, w) \in Seq(T) /\ StartsWith(s, Before(s, w))
         /\ s # <<>> /\ s[1] # w[1] => Before(s, w) # <<>>
<1>1. CASE Places(s, w) = {}
  BY <1>1 DEF Before, StartsWith
<1>2. CASE Places(s, w) # {}
  <2> DEFINE m == FirstPlace(s, w)
  <2>1. m \in Places(s, w) /\ m \in 1..Len(s)
    BY <1>2, PlaceIs
  <2>2. Before(s, w) = SubSeq(s, 1, m - 1)
    BY <1>2 DEF Before
  <2> HIDE DEF m
  <2>3. m - 1 \in Nat /\ m - 1 <= Len(s)
    BY <2>1
  <2> DEFINE b == Before(s, w)
  <2>4. b \in Seq(T) /\ Len(b) = m - 1 /\ StartsWith(s, b)
    BY <2>2, <2>3, SliceStarts
  <2>5. s[1] # w[1] => m # 1
    <3> SUFFICES ASSUME m = 1 PROVE s[1] = w[1]
      OBVIOUS
    <3>1. 1 \in Places(s, w) /\ 1 \in 1..Len(w)
      BY <2>1 DEF Separates
    <3>2. w[1] = s[1 + 1 - 1]
      BY <3>1, SeparatorAt
    <3> QED BY <3>2
  <2> HIDE DEF b
  <2>6. s[1] # w[1] => b # <<>>
    BY <2>1, <2>4, <2>5
  <2> QED BY <2>4, <2>6 DEF b
<1> QED BY <1>1, <1>2

\* The places of one token.
LEMMA TokenPlaces ==
  ASSUME NEW T, NEW s, s \in Seq(T), NEW x
  PROVE  Separates(<<x>>) /\ \A i : i \in Places(s, <<x>>) <=> i \in 1..Len(s) /\ s[i] = x
<1>1. Separates(<<x>>) /\ Len(<<x>>) = 1 /\ <<x>>[1] = x
  BY DEF Separates
<1>2. ASSUME NEW i \in Places(s, <<x>>) PROVE i \in 1..Len(s) /\ s[i] = x
  <2> DEFINE w == <<x>>
  <2> HIDE DEF w
  <2>0. Separates(w) /\ i \in Places(s, w)
    BY <1>1, <1>2 DEF w
  <2>1. i \in 1..Len(s) /\ \A k \in 1..Len(w) : w[k] = s[i + k - 1]
    BY <2>0, SeparatorAt
  <2>2. w[1] = x /\ 1 \in 1..Len(w) /\ i + 1 - 1 = i
    BY <1>1, <2>1 DEF w
  <2> QED BY <2>1, <2>2
<1>3. ASSUME NEW i \in 1..Len(s), s[i] = x PROVE i \in Places(s, <<x>>)
  <2>1. i \in 1..(Len(s) + 1 - 1) /\ i + 1 - 1 = i
    OBVIOUS
  <2>2. SubSeq(s, i, i) = <<x>>
    <3> DEFINE a == SubSeq(s, i, i)
    <3>1. IsPart(s, i - 1, i) /\ (i - 1) + 1 = i /\ i - (i - 1) = 1
      BY DEF IsPart
    <3>2. a = Slice(s, i - 1, i)
      BY <3>1 DEF Slice
    <3>3. a \in Seq(T) /\ Len(a) = i - (i - 1)
      BY <3>1, <3>2, SliceIs
    <3>4. \A k \in 1..(i - (i - 1)) : a[k] = s[(i - 1) + k]
      <4> HIDE DEF a
      <4> QED BY <3>1, <3>2, SliceAt
    <3> HIDE DEF a
    <3>5. a \in Seq(T) /\ Len(a) = 1 /\ a[1] = x
      BY <1>3, <3>1, <3>3, <3>4
    <3>6. a = <<x>>
      BY <3>5
    <3> QED BY <3>6 DEF a
  <2> QED BY <1>1, <2>1, <2>2 DEF Places
<1> QED BY <1>1, <1>2, <1>3

\* A text that has a token: it stands behind what is before it, and nowhere in that.
LEMMA BeforeToken ==
  ASSUME NEW T, NEW s, s \in Seq(T), NEW x
  PROVE  LET b == Before(s, <<x>>)
         IN  /\ b \in Seq(T) /\ StartsWith(s, b)
             /\ ~Has(s, x) => b = s /\ Behind(s, <<x>>) = <<>>
             /\ Has(s, x) => Len(b) < Len(s) /\ s[Len(b) + 1] = x /\ Behind(s, <<x>>) = SubSeq(s, Len(b) + 2, Len(s))
             /\ \A i \in 1..Len(b) : s[i] # x
<1> DEFINE w == <<x>>
           b == Before(s, w)
<1>1. Separates(w) /\ \A i : i \in Places(s, w) <=> i \in 1..Len(s) /\ s[i] = x
  BY TokenPlaces
<1>2. Len(w) = 1
  OBVIOUS
<1> HIDE DEF w
<1>3. b \in Seq(T) /\ StartsWith(s, b)
  BY <1>1, BeforeStarts
<1>4. Has(s, x) <=> Places(s, w) # {}
  BY <1>1 DEF Has
<1>5. CASE Places(s, w) = {}
  BY <1>1, <1>3, <1>4, <1>5 DEF Before, Behind, w
<1>6. CASE Places(s, w) # {}
  <2> DEFINE m == FirstPlace(s, w)
  <2>1. m \in Places(s, w) /\ m \in 1..Len(s) /\ \A i \in Places(s, w) : m <= i
    BY <1>1, <1>6, PlaceIs
  <2>2. b = SubSeq(s, 1, m - 1) /\ Behind(s, w) = SubSeq(s, m + 1, Len(s))
    BY <1>2, <1>6 DEF Before, Behind
  <2> HIDE DEF m
  <2>3. m - 1 \in Nat /\ m - 1 <= Len(s)
    BY <2>1
  <2>4. Len(b) = m - 1
    BY <2>2, <2>3, SliceStarts
  <2> HIDE DEF b
  <2>5. Len(b) + 1 = m /\ Len(b) + 2 = m + 1 /\ Len(b) < Len(s)
    BY <2>1, <2>4
  <2>6. s[m] = x
    BY <1>1, <2>1
  <2>7. \A i \in 1..Len(b) : s[i] # x
    BY <1>1, <2>1, <2>4
  <2> QED BY <1>3, <1>4, <1>6, <2>2, <2>5, <2>6, <2>7 DEF b, w
<1> QED BY <1>5, <1>6

\* The first word of a line that is one token, and what follows it.
Begins(s, c, x) == Len(s) >= 1 /\ s[1] = c /\ (Len(s) >= 2 => s[2] = x)

LEMMA FirstToken ==
  ASSUME NEW T, NEW s, s \in Seq(T), NEW x, NEW c, c # x
  PROVE  /\ Before(s, <<x>>) = <<c>> <=> Begins(s, c, x)
         /\ Before(s, <<x>>) = <<c>> =>
              \A a : Behind(s, <<x>>) # <<>> /\ Behind(s, <<x>>)[1] = a <=> Len(s) >= 3 /\ s[3] = a
<1> DEFINE b == Before(s, <<x>>)
           r == Behind(s, <<x>>)
<1>1. /\ b \in Seq(T) /\ Len(b) <= Len(s) /\ \A i \in 1..Len(b) : b[i] = s[i] /\ s[i] # x
      /\ ~Has(s, x) => b = s /\ r = <<>>
      /\ Has(s, x) => Len(b) < Len(s) /\ s[Len(b) + 1] = x /\ r = SubSeq(s, Len(b) + 2, Len(s))
  BY BeforeToken DEF StartsWith
<1>2. Len(s) >= 2 /\ s[2] = x => Has(s, x)
  BY DEF Has
<1> HIDE DEF b, r
<1>3. ASSUME b = <<c>>
      PROVE  /\ Len(b) = 1 /\ Len(s) >= 1 /\ s[1] = c /\ (Len(s) >= 2 => s[2] = x)
             /\ \A a : r # <<>> /\ r[1] = a <=> Len(s) >= 3 /\ s[3] = a
  <2>1. Len(b) = 1 /\ b[1] = c
    BY <1>3
  <2>2. Len(s) \in Nat /\ Len(s) >= 1 /\ s[1] = c
    BY <1>1, <2>1
  <2>3. CASE ~Has(s, x)
    <3>1. Len(s) = 1 /\ r = <<>>
      BY <1>1, <2>1, <2>3
    <3> QED BY <2>1, <2>2, <3>1
  <2>4. CASE Has(s, x)
    <3>1. Len(s) >= 2 /\ s[2] = x /\ r = SubSeq(s, 3, Len(s))
      BY <1>1, <2>1, <2>4
    <3>2. IsPart(s, 2, Len(s)) /\ r = Slice(s, 2, Len(s))
      BY <2>2, <3>1 DEF IsPart, Slice
    <3>3. r \in Seq(T) /\ Len(r) = Len(s) - 2
      BY <3>2, SliceIs
    <3>4. \A i \in 1..(Len(s) - 2) : r[i] = s[2 + i]
      BY <3>2, SliceAt
    <3>5. Len(s) >= 3 => r[1] = s[3]
      BY <2>2, <3>1, <3>4
    <3>6. r # <<>> <=> Len(s) >= 3
      <4>1. r = <<>> <=> Len(r) = 0
        BY <3>3, EmptySeq
      <4>2. Len(r) = 0 <=> ~(Len(s) >= 3)
        BY <2>2, <3>1, <3>3
      <4> QED BY <4>1, <4>2
    <3> QED BY <2>1, <2>2, <3>1, <3>5, <3>6
  <2> QED BY <2>3, <2>4
<1>4. ASSUME Len(s) >= 1, s[1] = c, Len(s) >= 2 => s[2] = x PROVE b = <<c>>
  <2>0. b \in Seq(T) /\ Len(s) \in Nat /\ Len(b) \in Nat
    BY <1>1
  <2>1. Len(b) = 1
    <3>1. CASE ~Has(s, x)
      <4>1. Len(b) = Len(s) /\ ~(Len(s) >= 2)
        BY <1>1, <1>2, <1>4, <3>1
      <4>2. Len(s) >= 1
        BY <1>4
      <4> QED BY <2>0, <4>1, <4>2
    <3>2. CASE Has(s, x)
      <4>1. Len(b) >= 1
        BY <1>1, <1>4, <2>0, <3>2
      <4>2. Len(b) <= 1
        <5> SUFFICES ASSUME ~(Len(b) <= 1) PROVE FALSE
          OBVIOUS
        <5>1. 2 \in 1..Len(b)
          BY <2>0
        <5>2. Len(s) >= 2 /\ s[2] # x
          BY <1>1, <2>0, <5>1
        <5> QED BY <1>4, <5>2
      <4>3. \A m \in Nat : m >= 1 /\ m <= 1 => m = 1
        OBVIOUS
      <4> QED BY <2>0, <4>1, <4>2, <4>3, Zenon
    <3> QED BY <3>1, <3>2
  <2>2. b[1] = c
    BY <1>1, <1>4, <2>1
  <2> QED BY <1>1, <2>1, <2>2
<1> QED BY <1>3, <1>4 DEF b, r, Begins

LEMMA StartOfStart ==
  ASSUME NEW T, NEW s, s \in Seq(T), NEW a, a \in Seq(T), StartsWith(s, a), a # <<>>
  PROVE  s # <<>> /\ a[1] = s[1] /\ Len(a) \in Nat /\ Len(a) >= 1 /\ Len(s) \in Nat /\ Len(s) >= 1
<1>1. Len(a) \in Nat /\ Len(s) \in Nat /\ Len(a) <= Len(s)
  BY DEF StartsWith
<1>2. Len(a) >= 1
  BY <1>1, EmptySeq
<1>3. 1 \in 1..Len(a) /\ Len(s) >= 1
  BY <1>1, <1>2
<1>4. s # <<>>
  BY <1>3
<1> QED BY <1>1, <1>2, <1>3, <1>4 DEF StartsWith

\* The first line that the parser of HTTP reads starts with what the payload starts with.
StartLine(s) == Split(Before(s, CRLF \o CRLF), CRLF)[1]

LEMMA StartLineIs ==
  ASSUME NEW T, NEW s, s \in Seq(T), s # <<>>, s[1] # "CR"
  PROVE  StartLine(s) \in Seq(T) /\ StartLine(s) # <<>> /\ StartLine(s)[1] = s[1]
<1> DEFINE end == CRLF \o CRLF
           head == Before(s, end)
           start == Before(head, CRLF)
<1>1. Separates(CRLF) /\ CRLF[1] = "CR" /\ Separates(end) /\ end[1] = "CR"
  BY DEF Separates, CRLF
<1> HIDE DEF end
<1>2. head \in Seq(T) /\ StartsWith(s, head) /\ head # <<>>
  BY <1>1, BeforeStarts
<1> HIDE DEF head
<1>3. head[1] = s[1]
  BY <1>2, StartOfStart
<1>4. start \in Seq(T) /\ StartsWith(head, start) /\ start # <<>>
  BY <1>1, <1>2, <1>3, BeforeStarts
<1> HIDE DEF start
<1>5. start[1] = s[1]
  BY <1>2, <1>3, <1>4, StartOfStart
<1>6. Split(head, CRLF)[1] = Before(head, CRLF)
  BY <1>1, <1>2, SplitStarts
<1>7. StartLine(s) = start
  BY <1>6 DEF StartLine, head, start, end
<1> QED BY <1>4, <1>5, <1>7

LEMMA HttpKind ==
  ASSUME NEW s
  PROVE  ParseHttp(s).kind = IF Word1(StartLine(s)) # <<>> /\ Word1(StartLine(s))[1] \in {"HTTP/", Version}
                               THEN "response" ELSE "request"
<1>1. \E headers, body, partial, errors : ParseHttp(s) = HttpMessage(StartLine(s), headers, body, partial, errors)
  BY DEF ParseHttp, HttpOf, StartLine
<1>2. ASSUME NEW start, NEW headers, NEW body, NEW partial, NEW errors
      PROVE  HttpMessage(start, headers, body, partial, errors).kind =
               IF Word1(start) # <<>> /\ Word1(start)[1] \in {"HTTP/", Version} THEN "response" ELSE "request"
  BY DEF HttpMessage
<1> QED BY <1>1, <1>2, Zenon

\* The first word of a line starts as the line does.
LEMMA FirstWordIs ==
  ASSUME NEW T, NEW s, s \in Seq(T), Word1(s) # <<>>
  PROVE  s # <<>> /\ Word1(s)[1] = s[1]
<1> DEFINE b == Word1(s)
<1>1. Separates(<<" ">>)
  BY DEF Separates
<1>2. b \in Seq(T) /\ StartsWith(s, b)
  BY <1>1, BeforeStarts DEF Word1
<1> HIDE DEF b
<1>3. b # <<>>
  BY DEF b
<1>4. s # <<>> /\ b[1] = s[1]
  BY <1>2, <1>3, StartOfStart
<1> QED BY <1>4 DEF b

LEMMA HasFirstToken ==
  ASSUME NEW T, NEW s, s \in Seq(T), s # <<>>, NEW x, s[1] # x
  PROVE  Before(s, <<x>>) # <<>>
<1> DEFINE w == <<x>>
<1>1. Separates(w) /\ w[1] = x
  BY DEF Separates
<1> HIDE DEF w
<1>2. Before(s, w) # <<>>
  BY <1>1, BeforeStarts
<1> QED BY <1>2 DEF w

\* What the detector calls a line is a start of the payload.
LEMMA LineStarts ==
  ASSUME NEW T, NEW s, s \in Seq(T)
  PROVE  FirstLine(s).line \in Seq(T) /\ StartsWith(s, FirstLine(s).line)
<1>1. FirstLine(s).line \in {Before(s, <<"LF">>), Before(s, CRLF)}
  BY DEF FirstLine
<1>2. Separates(CRLF) /\ Separates(<<"LF">>)
  BY DEF Separates, CRLF
<1>3. /\ Before(s, <<"LF">>) \in Seq(T) /\ StartsWith(s, Before(s, <<"LF">>))
      /\ Before(s, CRLF) \in Seq(T) /\ StartsWith(s, Before(s, CRLF))
  BY <1>2, BeforeStarts
<1> QED BY <1>1, <1>3

LEMMA RequestIsParsed ==
  ASSUME NEW T, NEW s, s \in Seq(T), IsHttpRequest(FirstLine(s).line)
  PROVE  ParseHttp(s).kind = "request"
<1> DEFINE line == FirstLine(s).line
           start == StartLine(s)
           word == Word1(start)
<1>1. line \in Seq(T) /\ StartsWith(s, line)
  BY LineStarts
<1>2. PICK m \in Methods : Word1(line) = <<m>>
  BY DEF IsHttpRequest
<1>3. m \notin {"CR", "HTTP/", Version}
  BY <1>2 DEF Methods, Version
<1> HIDE DEF line, start, word
<1>4. line # <<>> /\ line[1] = m
  <2>1. Word1(line) # <<>> /\ Word1(line)[1] = m
    BY <1>2
  <2> QED BY <1>1, <2>1, FirstWordIs
<1>5. s # <<>> /\ s[1] = m
  BY <1>1, <1>4, StartOfStart
<1>6. start \in Seq(T) /\ start # <<>> /\ start[1] = m
  BY <1>3, <1>5, StartLineIs DEF start
<1>7. word # <<>> => word[1] = m
  <2> SUFFICES ASSUME Word1(start) # <<>> PROVE Word1(start)[1] = m
    BY DEF word
  <2>1. Word1(start)[1] = start[1]
    BY <1>6, FirstWordIs
  <2> QED BY <1>6, <2>1
<1> QED BY <1>3, <1>7, HttpKind DEF start, word

LEMMA ResponseIsParsed ==
  ASSUME NEW T, NEW s, s \in Seq(T), IsHttpResponse(FirstLine(s).line)
  PROVE  ParseHttp(s).kind = "response"
<1> DEFINE line == FirstLine(s).line
           start == StartLine(s)
           word == Word1(start)
<1>1. line \in Seq(T) /\ StartsWith(s, line)
  BY LineStarts
<1>2. Len(line) >= 5 /\ line[1] = Version
  BY DEF IsHttpResponse
<1>3. Version # "CR"
  BY DEF Version
<1>4. Version # " "
  BY Zenon DEF Version
<1> HIDE DEF line, start, word
<1>5. s # <<>> /\ s[1] = Version
  <2>1. line # <<>>
    BY <1>2
  <2> QED BY <1>1, <1>2, <2>1, StartOfStart
<1>6. start \in Seq(T) /\ start # <<>> /\ start[1] = Version
  BY <1>3, <1>5, StartLineIs DEF start
<1>7. word # <<>> /\ word[1] = Version
  <2>1. Word1(start) # <<>>
    BY <1>4, <1>6, HasFirstToken, Zenon DEF Word1
  <2>2. Word1(start)[1] = start[1]
    BY <1>6, <2>1, FirstWordIs
  <2> QED BY <1>6, <2>1, <2>2 DEF word
<1> QED BY <1>7, HttpKind DEF start, word

LEMMA SameStarts ==
  ASSUME NEW T, NEW s, NEW a, NEW b, a \in Seq(T), b \in Seq(T), StartsWith(s, a), StartsWith(s, b), Len(a) = Len(b)
  PROVE  a = b
<1>1. \A i \in 1..Len(a) : a[i] = b[i]
  BY DEF StartsWith
<1> QED BY <1>1

\* A line without its CR keeps what stands before another token.
LEMMA StripKeeps ==
  ASSUME NEW T, NEW l, l \in Seq(T)
  PROVE  LET k == WithoutCR(l)
         IN  /\ k \in Seq(T) /\ StartsWith(l, k)
             /\ \A n \in 1..Len(l) : l[n] # "CR" => Len(k) >= n
<1> DEFINE k == WithoutCR(l)
<1>1. CASE l # <<>> /\ l[Len(l)] = "CR"
  <2>1. Len(l) \in Nat /\ Len(l) >= 1
    BY <1>1, EmptySeq
  <2>2. k = SubSeq(l, 1, Len(l) - 1)
    BY <1>1 DEF WithoutCR
  <2>3. Len(l) - 1 \in Nat /\ Len(l) - 1 <= Len(l)
    BY <2>1
  <2> HIDE DEF k
  <2>4. k \in Seq(T) /\ Len(k) = Len(l) - 1 /\ StartsWith(l, k)
    BY <2>2, <2>3, SliceStarts
  <2>5. ASSUME NEW n \in 1..Len(l), l[n] # "CR" PROVE Len(k) >= n
    <3>1. n # Len(l)
      BY <1>1, <2>5
    <3> QED BY <2>1, <2>4, <3>1
  <2> QED BY <2>4, <2>5 DEF k
<1>2. CASE ~(l # <<>> /\ l[Len(l)] = "CR")
  BY <1>2 DEF WithoutCR, StartsWith
<1> QED BY <1>1, <1>2

\* The place of CR LF is that of the CR before the first LF.
LEMMA CrLfIsThere ==
  ASSUME NEW T, NEW s, s \in Seq(T), Has(s, "LF"),
         NEW b, b = Before(s, <<"LF">>), b # <<>>, b[Len(b)] = "CR"
  PROVE  Before(s, CRLF) = WithoutCR(b)
<1> DEFINE k == Len(b)
           c == Before(s, CRLF)
           d == WithoutCR(b)
<1>1. /\ b \in Seq(T) /\ StartsWith(s, b) /\ k < Len(s) /\ s[k + 1] = "LF"
      /\ \A i \in 1..k : s[i] # "LF"
  BY BeforeToken
<1>2. k \in Nat \ {0} /\ Len(s) \in Nat /\ k \in 1..k
  BY <1>1, EmptySeq
<1>3. s[k] = "CR"
  BY <1>1, <1>2 DEF StartsWith
<1>4. Separates(CRLF) /\ Len(CRLF) = 2 /\ CRLF[1] = "CR" /\ CRLF[2] = "LF" /\ 1 \in 1..2 /\ 2 \in 1..2
  BY DEF Separates, CRLF
<1> HIDE DEF k
<1>5. k \in Places(s, CRLF)
  <2> DEFINE a == SubSeq(s, k, k + 1)
  <2>1. IsPart(s, k - 1, k + 1) /\ (k - 1) + 1 = k /\ (k + 1) - (k - 1) = 2 /\ (k - 1) + 2 = k + 1
    BY <1>1, <1>2 DEF IsPart
  <2>2. a = Slice(s, k - 1, k + 1)
    BY <2>1 DEF Slice
  <2> HIDE DEF a
  <2>0. a \in Seq(T) /\ Len(a) = (k + 1) - (k - 1)
    BY <2>1, <2>2, SliceIs
  <2>3. a \in Seq(T) /\ Len(a) = 2
    BY <2>0, <2>1
  <2>4. \A i \in 1..((k + 1) - (k - 1)) : a[i] = s[(k - 1) + i]
    BY <2>1, <2>2, SliceAt
  <2>5. a[1] = "CR" /\ a[2] = "LF"
    BY <1>1, <1>3, <1>4, <2>1, <2>4
  <2>6. a = CRLF
    BY <2>3, <2>5 DEF CRLF
  <2>7. k \in 1..(Len(s) + 1 - 2) /\ k + 2 - 1 = k + 1
    BY <1>1, <1>2
  <2> QED BY <1>4, <2>6, <2>7 DEF Places, a
<1> DEFINE m == FirstPlace(s, CRLF)
<1>6. m \in Places(s, CRLF) /\ m \in 1..Len(s) /\ m + Len(CRLF) - 1 <= Len(s) /\ m <= k
  BY <1>4, <1>5, PlaceIs
<1> HIDE DEF m
<1>7. m + 1 <= Len(s) /\ s[m + 1] = "LF"
  <2> DEFINE w == CRLF
  <2>1. Separates(w) /\ m \in Places(s, w)
    BY <1>4, <1>6
  <2> HIDE DEF w
  <2>2. \A i \in 1..Len(w) : w[i] = s[m + i - 1]
    BY <2>1, SeparatorAt
  <2>3. \A i \in 1..Len(CRLF) : CRLF[i] = s[m + i - 1]
    BY <2>2, Zenon DEF w
  <2>4. m + 2 - 1 <= Len(s) /\ \A i \in 1..2 : CRLF[i] = s[m + i - 1]
    BY <1>4, <1>6, <2>3
  <2>5. CRLF[2] = s[m + 2 - 1] /\ m + 2 - 1 = m + 1
    BY <1>4, <1>6, <2>4
  <2> QED BY <1>4, <2>4, <2>5
<1>8. m = k
  <2> SUFFICES ASSUME m # k PROVE FALSE
    OBVIOUS
  <2>1. m + 1 \in 1..k
    BY <1>2, <1>6
  <2> QED BY <1>1, <1>7, <2>1 DEF k
<1>9. k - 1 \in Nat /\ k - 1 <= Len(s) /\ k - 1 <= Len(b)
  BY <1>1, <1>2 DEF k
<1>10. c = SubSeq(s, 1, k - 1)
  BY <1>5, <1>8 DEF Before, m
<1>11. d = SubSeq(b, 1, k - 1)
  BY DEF WithoutCR, k
<1> HIDE DEF c, d
<1>12. c \in Seq(T) /\ Len(c) = k - 1 /\ StartsWith(s, c)
  BY <1>9, <1>10, SliceStarts
<1>13. d \in Seq(T) /\ Len(d) = k - 1 /\ StartsWith(b, d)
  BY <1>1, <1>9, <1>11, SliceStarts
<1>14. StartsWith(s, d)
  <2>1. \A i \in 1..Len(d) : i \in 1..Len(b) /\ d[i] = b[i] /\ b[i] = s[i]
    BY <1>1, <1>2, <1>13 DEF StartsWith, k
  <2> QED BY <1>9, <1>13, <2>1 DEF StartsWith
<1>15. c = d
  BY <1>12, <1>13, <1>14, SameStarts
<1> QED BY <1>15 DEF c, d

\* The first line of the detector is that of the parser, but for a CR that ends the payload.
LEMMA LineIs ==
  ASSUME NEW T, NEW s, s \in Seq(T)
  PROVE  LET b == Before(s, <<"LF">>)
             first == FirstLine(s)
         IN  /\ first.complete => first.line = WithoutCR(b)
             /\ ~first.complete => first.line = b /\ (Has(s, "LF") => WithoutCR(b) = b)
<1> DEFINE b == Before(s, <<"LF">>)
           first == FirstLine(s)
<1>1. CASE Has(s, "LF") /\ b # <<>> /\ b[Len(b)] = "CR"
  <2>1. first.line = Before(s, CRLF) /\ first.complete
    BY <1>1 DEF FirstLine
  <2>2. Before(s, CRLF) = WithoutCR(b)
    <3> HIDE DEF b
    <3>1. b = Before(s, <<"LF">>)
      BY DEF b
    <3> QED BY <1>1, <3>1, CrLfIsThere
  <2> QED BY <2>1, <2>2
<1>2. CASE ~(Has(s, "LF") /\ b # <<>> /\ b[Len(b)] = "CR")
  <2>1. first.line = b /\ ~first.complete
    BY <1>2 DEF FirstLine
  <2>2. Has(s, "LF") => WithoutCR(b) = b
    BY <1>2 DEF WithoutCR
  <2> QED BY <2>1, <2>2
<1> QED BY <1>1, <1>2

\* The kind of a message is that of its first line.
LEMMA SmtpKind ==
  ASSUME NEW T, NEW s, s \in Seq(T), s # <<>>
  PROVE  ParseSmtp(s).kind = LineKind(WithoutCR(Before(s, <<"LF">>)))
<1> DEFINE w == <<"LF">>
           parts == Split(s, w)
           ended == s[Len(s)] = "LF"
           chunks == IF s = <<>> \/ (s # <<>> /\ ended) THEN SubSeq(parts, 1, Len(parts) - 1) ELSE parts
           lines == SubSeq(chunks, 1, AtMost(Len(chunks), LineLimit))
<1>1. ParseSmtp(s).kind = IF lines = <<>> THEN "data" ELSE LineKind(WithoutCR(lines[1]))
  BY DEF ParseSmtp, SmtpOf
<1>2. Separates(w)
  BY DEF Separates
<1>3. ended => Places(s, w) # {}
  <2> SUFFICES ASSUME ended PROVE Len(s) \in Places(s, w)
    OBVIOUS
  <2>1. Len(s) \in 1..Len(s)
    BY EmptySeq
  <2> QED BY <2>1, TokenPlaces
<1> HIDE DEF w, ended
<1>4. /\ parts \in Seq(Seq(T)) /\ Len(parts) \in Nat /\ Len(parts) >= 1 /\ parts[1] = Before(s, w)
      /\ ended => Len(parts) >= 2
  <2>1. /\ parts \in Seq(Seq(T)) /\ Len(parts) >= 1 /\ parts[1] = Before(s, w)
        /\ s # <<>> /\ Places(s, w) # {} => Len(parts) >= 2
    BY <1>2, SplitStarts
  <2> HIDE DEF parts
  <2> QED BY <1>3, <2>1
<1> HIDE DEF parts
<1>5. chunks \in Seq(Seq(T)) /\ Len(chunks) >= 1 /\ Len(chunks) \in Nat /\ chunks[1] = parts[1]
  <2>1. CASE ended
    <3>1. chunks = SubSeq(parts, 1, Len(parts) - 1)
      BY <2>1
    <3>2. Len(parts) - 1 \in Nat /\ Len(parts) - 1 <= Len(parts) /\ Len(parts) - 1 >= 1
      BY <1>4, <2>1
    <3> HIDE DEF chunks
    <3>3. chunks \in Seq(Seq(T)) /\ Len(chunks) = Len(parts) - 1 /\ StartsWith(parts, chunks)
      BY <1>4, <3>1, <3>2, SliceStarts
    <3>4. 1 \in 1..Len(chunks)
      BY <3>2, <3>3
    <3> QED BY <3>2, <3>3, <3>4 DEF StartsWith
  <2>2. CASE ~ended
    BY <1>4, <2>2
  <2> QED BY <2>1, <2>2
<1> HIDE DEF chunks
<1>6. lines # <<>> /\ lines[1] = chunks[1]
  <2> DEFINE n == AtMost(Len(chunks), LineLimit)
  <2>1. n \in Nat /\ n <= Len(chunks) /\ n >= 1
    BY <1>5, TextLimits DEF AtMost
  <2>2. lines = SubSeq(chunks, 1, n)
    OBVIOUS
  <2> HIDE DEF n, lines
  <2>3. lines \in Seq(Seq(T)) /\ Len(lines) = n /\ StartsWith(chunks, lines)
    BY <1>5, <2>1, <2>2, SliceStarts
  <2>4. 1 \in 1..Len(lines)
    BY <2>1, <2>3
  <2> QED BY <2>3, <2>4 DEF StartsWith
<1> HIDE DEF lines
<1> QED BY <1>1, <1>4, <1>5, <1>6 DEF w

Joints == {" ", "-"}
StartsReply(l) == Len(l) >= 4 /\ l[1] \in {"2", "5"} /\ l[2] \in Digits /\ l[3] \in Digits /\ l[4] \in Joints

LEMMA JointsAreNoCR == "CR" \notin Joints
BY Zenon DEF Joints

LEMMA ReplyKind ==
  ASSUME NEW T, NEW l, l \in Seq(T), StartsReply(l)
  PROVE  LineKind(l) = "response"
<1>1. Len(l) \in Nat /\ Len(l) >= 4
  BY DEF StartsReply
<1>2. IsNumber(SubSeq(l, 1, 3))
  <2> DEFINE a == SubSeq(l, 1, 3)
  <2>1. 3 \in Nat /\ 3 <= Len(l)
    BY <1>1
  <2>2. a \in Seq(T) /\ Len(a) = 3 /\ StartsWith(l, a)
    BY <2>1, SliceStarts
  <2> HIDE DEF a
  <2>3. DOMAIN a = 1..3 /\ a # <<>> /\ a[1] = l[1] /\ a[2] = l[2] /\ a[3] = l[3]
    <3>1. DOMAIN a = 1..3
      BY <2>2
    <3>2. \A i \in 1..3 : a[i] = l[i]
      BY <2>2 DEF StartsWith
    <3>3. a # <<>>
      <4> SUFFICES ASSUME a = <<>> PROVE FALSE
        OBVIOUS
      <4>1. Len(a) = 0
        BY EmptySeq
      <4> QED BY <2>2, <4>1
    <3> QED BY <3>1, <3>2, <3>3
  <2>4. \A i \in DOMAIN a : a[i] \in Digits
    BY <2>3 DEF StartsReply, Digits
  <2>5. IsNumber(a)
    BY <2>3, <2>4 DEF IsNumber
  <2> QED BY <2>5 DEF a
<1>3. Len(l) > 3 => l[4] \in {" ", "-"}
  BY DEF StartsReply, Joints
<1>4. Len(l) >= 3 /\ l[1] \in {"2", "5"}
  BY <1>1 DEF StartsReply
<1> QED BY <1>2, <1>3, <1>4, Zenon DEF LineKind

LEMMA ReplyStripped ==
  ASSUME NEW T, NEW l, l \in Seq(T), StartsReply(l)
  PROVE  StartsReply(WithoutCR(l)) /\ WithoutCR(l) \in Seq(T)
<1> DEFINE k == WithoutCR(l)
<1>1. k \in Seq(T) /\ StartsWith(l, k) /\ \A n \in 1..Len(l) : l[n] # "CR" => Len(k) >= n
  BY StripKeeps
<1>2. 4 \in 1..Len(l) /\ l[4] # "CR"
  BY JointsAreNoCR DEF StartsReply
<1> HIDE DEF k
<1>3. Len(k) \in Nat /\ Len(k) >= 4
  BY <1>1, <1>2
<1>4. k[1] = l[1] /\ k[2] = l[2] /\ k[3] = l[3] /\ k[4] = l[4]
  BY <1>1, <1>3 DEF StartsWith
<1>5. StartsReply(k)
  BY <1>3, <1>4 DEF StartsReply
<1> QED BY <1>1, <1>5 DEF k

LEMMA ReplyStarts ==
  ASSUME NEW T, NEW s, s \in Seq(T), NEW hint, IsSmtpReply(FirstLine(s), hint)
  PROVE  StartsReply(FirstLine(s).line)
<1> DEFINE l == FirstLine(s).line
<1>1. l \in Seq(T)
  BY LineStarts
<1>2. Len(l) >= 4 /\ l[1] \in {"2", "5"} /\ IsNumber(SubSeq(l, 2, 3))
  BY DEF IsSmtpReply
<1>4. l[4] \in Joints
  BY Zenon DEF IsSmtpReply, Joints
<1> HIDE DEF l
<1>3. l[2] \in Digits /\ l[3] \in Digits
  <2> DEFINE p == 1
             q == 3
             a == SubSeq(l, p + 1, q)
  <2>1. IsPart(l, p, q) /\ q - p = 2 /\ p + 1 = 2 /\ p + 2 = 3
    <3>1. Len(l) \in Nat /\ Len(l) >= 3
      BY <1>1, <1>2
    <3> QED BY <3>1 DEF IsPart
  <2>2. IsNumber(a)
    BY <1>2
  <2> HIDE DEF p, q
  <2>3. a = Slice(l, p, q)
    BY Zenon DEF Slice
  <2> HIDE DEF a
  <2>4. a \in Seq(T) /\ Len(a) = q - p
    BY <1>1, <2>1, <2>3, SliceIs
  <2>5. \A i \in 1..(q - p) : a[i] = l[p + i]
    BY <1>1, <2>1, <2>3, SliceAt
  <2>6. a[1] = l[2] /\ a[2] = l[3] /\ 1 \in DOMAIN a /\ 2 \in DOMAIN a
    BY <2>1, <2>4, <2>5
  <2> QED BY <2>2, <2>6 DEF IsNumber
<1>5. StartsReply(l)
  BY <1>2, <1>3, <1>4 DEF StartsReply
<1> QED BY <1>5 DEF l

\* A reply has a code, whichever way its line ends.
LEMMA ReplyIsParsed ==
  ASSUME NEW T, NEW s, s \in Seq(T), NEW hint, IsSmtpReply(FirstLine(s), hint)
  PROVE  ParseSmtp(s).kind = "response"
<1> DEFINE b == Before(s, <<"LF">>)
           l == FirstLine(s).line
<1>1. l \in Seq(T) /\ StartsReply(l) /\ StartsWith(s, l)
  BY LineStarts, ReplyStarts
<1>2. l = WithoutCR(b) \/ l = b
  BY LineIs
<1>3. s # <<>>
  <2>1. Len(s) >= 4
    BY <1>1 DEF StartsReply, StartsWith
  <2> QED BY <2>1
<1> HIDE DEF b, l
<1>4. WithoutCR(b) \in Seq(T) /\ StartsReply(WithoutCR(b))
  BY <1>1, <1>2, ReplyStripped
<1>5. LineKind(WithoutCR(b)) = "response"
  BY <1>4, ReplyKind
<1> QED BY <1>3, <1>5, SmtpKind DEF b

\* A command that stands alone or with the argument that it needs.
IsCommandLine(l) ==
  \/ \E c \in Commands : Word1(l) = <<c>>
  \/ \E c \in DOMAIN Argument : Word1(l) = <<c>> /\ Rest(l) # <<>> /\ Rest(l)[1] = Argument[c]

Verbs == Commands \cup DOMAIN Argument

LEMMA VerbsAreWords ==
  /\ "CR" # " " /\ \A c \in Verbs : c # " "
  /\ \A c \in Verbs : c # "CR" /\ c \notin {"2", "5"}
  /\ \A c \in DOMAIN Argument : Argument[c] # "CR"
<1>1. DOMAIN Argument = {"MAIL", "RCPT"} /\ Verbs = {"EHLO", "QUIT", "MAIL", "RCPT"}
  BY DEF Verbs, Argument, Commands
<1>2. "CR" # " " /\ "EHLO" # " " /\ "QUIT" # " " /\ "MAIL" # " " /\ "RCPT" # " "
  BY Zenon
<1>3. \A c \in Verbs : c # " "
  BY <1>1, <1>2, Zenon
<1>4. \A c \in Verbs : c # "CR" /\ c \notin {"2", "5"}
  BY <1>1
<1>5. \A c \in DOMAIN Argument : Argument[c] # "CR"
  BY DEF Argument
<1> QED BY <1>2, <1>3, <1>4, <1>5, Zenon

\* x parts the words of a line, and is no CR.
LEMMA BeginsStripped ==
  ASSUME NEW T, NEW l, l \in Seq(T), NEW x, "CR" # x, NEW c, c # "CR", Begins(l, c, x)
  PROVE  /\ Begins(WithoutCR(l), c, x)
         /\ \A a : a # "CR" /\ Len(l) >= 3 /\ l[3] = a => Len(WithoutCR(l)) >= 3 /\ WithoutCR(l)[3] = a
<1> DEFINE k == WithoutCR(l)
<1>1. k \in Seq(T) /\ StartsWith(l, k) /\ \A n \in 1..Len(l) : l[n] # "CR" => Len(k) >= n
  BY StripKeeps
<1> HIDE DEF k
<1>2. Len(l) \in Nat /\ Len(k) \in Nat /\ Len(k) <= Len(l) /\ \A n \in 1..Len(k) : k[n] = l[n]
  BY <1>1 DEF StartsWith
<1>3. Len(k) >= 1 /\ k[1] = c
  <2>1. 1 \in 1..Len(l) /\ l[1] = c
    BY <1>2 DEF Begins
  <2>2. Len(k) >= 1
    BY <1>1, <2>1
  <2> QED BY <1>2, <2>1, <2>2
<1>4. Len(k) >= 2 => k[2] = x
  BY <1>2 DEF Begins
<1>5. ASSUME NEW a, a # "CR", Len(l) >= 3, l[3] = a PROVE Len(k) >= 3 /\ k[3] = a
  <2>1. 3 \in 1..Len(l)
    BY <1>2, <1>5
  <2>2. Len(k) >= 3
    BY <1>1, <1>5, <2>1
  <2> QED BY <1>2, <1>5, <2>2
<1>6. Begins(k, c, x)
  BY <1>3, <1>4 DEF Begins
<1> QED BY <1>5, <1>6 DEF k

\* A word that is one token, and the token of the argument behind it.
LEMMA CommandTokens ==
  ASSUME NEW T, NEW l, l \in Seq(T), NEW c, c # " "
  PROVE  /\ Word1(l) = <<c>> <=> Begins(l, c, " ")
         /\ Word1(l) = <<c>> => \A a : Rest(l) # <<>> /\ Rest(l)[1] = a <=> Len(l) >= 3 /\ l[3] = a
BY FirstToken, Zenon DEF Word1, Rest

LEMMA CommandKind ==
  ASSUME NEW T, NEW l, l \in Seq(T), IsCommandLine(l)
  PROVE  LineKind(l) = "command"
<1>1. PICK c \in Verbs : Word1(l) = <<c>>
  BY DEF IsCommandLine, Verbs
<1>2. Word1(l) # <<>> /\ Word1(l)[1] = c
  BY <1>1
<1>3. l[1] = c
  BY <1>2, FirstWordIs
<1>4. l[1] \notin {"2", "5"}
  BY <1>3, VerbsAreWords, Zenon
<1> QED BY <1>4, Zenon DEF LineKind, IsCommandLine

LEMMA CommandStripped ==
  ASSUME NEW T, NEW l, l \in Seq(T), IsCommandLine(l)
  PROVE  IsCommandLine(WithoutCR(l)) /\ WithoutCR(l) \in Seq(T)
<1> DEFINE k == WithoutCR(l)
           blank == " "
<1>0. "CR" # blank /\ (\A c \in Verbs : c # blank /\ c # "CR") /\ \A c \in DOMAIN Argument : Argument[c] # "CR"
  BY VerbsAreWords, Zenon
<1>1. k \in Seq(T)
  BY StripKeeps
<1> HIDE DEF k, blank
<1>2. ASSUME NEW m, m \in Seq(T), NEW c \in Verbs
      PROVE  /\ Word1(m) = <<c>> <=> Begins(m, c, blank)
             /\ Word1(m) = <<c>> => \A a : Rest(m) # <<>> /\ Rest(m)[1] = a <=> Len(m) >= 3 /\ m[3] = a
  BY <1>0, <1>2, CommandTokens, Zenon DEF blank
<1>3. ASSUME NEW c \in Verbs, Word1(l) = <<c>>
      PROVE  /\ Word1(k) = <<c>>
             /\ \A a : a # "CR" /\ Len(l) >= 3 /\ l[3] = a => Len(k) >= 3 /\ k[3] = a
  <2>1. Begins(l, c, blank)
    BY <1>2, <1>3
  <2>2. /\ Begins(k, c, blank)
        /\ \A a : a # "CR" /\ Len(l) >= 3 /\ l[3] = a => Len(k) >= 3 /\ k[3] = a
    BY <1>0, <2>1, BeginsStripped DEF k
  <2> QED BY <1>1, <1>2, <2>2
<1>4. CASE \E c \in Commands : Word1(l) = <<c>>
  <2>1. \E c \in Commands : Word1(k) = <<c>>
    BY <1>3, <1>4 DEF Verbs
  <2> QED BY <1>1, <2>1 DEF IsCommandLine, k
<1>5. ASSUME NEW c \in DOMAIN Argument, Word1(l) = <<c>>, Rest(l) # <<>>, Rest(l)[1] = Argument[c]
      PROVE  IsCommandLine(k)
  <2>1. c \in Verbs
    BY DEF Verbs
  <2>2. Len(l) >= 3 /\ l[3] = Argument[c]
    BY <1>2, <1>5, <2>1
  <2>3. Word1(k) = <<c>> /\ Len(k) >= 3 /\ k[3] = Argument[c]
    BY <1>0, <1>3, <1>5, <2>1, <2>2
  <2>4. Rest(k) # <<>> /\ Rest(k)[1] = Argument[c]
    BY <1>1, <1>2, <2>1, <2>3
  <2> QED BY <2>3, <2>4 DEF IsCommandLine
<1>6. IsCommandLine(k)
  BY <1>4, <1>5 DEF IsCommandLine, k
<1> QED BY <1>1, <1>6 DEF k

\* A command stays one when its line has no end yet.
LEMMA CommandIsParsed ==
  ASSUME NEW T, NEW s, s \in Seq(T), IsSmtpCommand(s, FirstLine(s))
  PROVE  ParseSmtp(s).kind = "command"
<1> DEFINE b == Before(s, <<"LF">>)
           l == FirstLine(s).line
<1>1. l \in Seq(T) /\ StartsWith(s, l)
  BY LineStarts
<1>2. l = WithoutCR(b) \/ l = b
  BY LineIs
<1>3. IsCommandLine(l)
  BY Zenon DEF IsSmtpCommand, IsCommandLine
<1> HIDE DEF b, l
<1>4. s # <<>>
  <2>1. \E c \in Verbs : Word1(l) = <<c>>
    BY <1>3 DEF IsCommandLine, Verbs
  <2>2. Word1(l) # <<>>
    BY <2>1
  <2>3. l # <<>>
    BY <1>1, <2>2, FirstWordIs
  <2> QED BY <1>1, <2>3, StartOfStart
<1>5. WithoutCR(b) \in Seq(T) /\ IsCommandLine(WithoutCR(b))
  BY <1>1, <1>2, <1>3, CommandStripped
<1>6. LineKind(WithoutCR(b)) = "command"
  BY <1>5, CommandKind
<1> QED BY <1>4, <1>6, SmtpKind DEF b

\* The questions that may have been read.
QuestionEntry == [name : Seq(Seq(Byte)), type : Nat]
QuestionParts ==
  [offset : Nat, items : Seq(QuestionEntry), error : SUBSET {"reading", "name", "truncated", "malformed"}]

\* What follows a readable name.
LEMMA NameHasEnd ==
  ASSUME NEW data \in Seq(Byte), NEW offset \in Nat, NEW name, name = ReadName(data, offset),
         NEW p, p = CHOOSE x \in name.after : TRUE
  PROVE  /\ name.labels \in Seq(Seq(Byte)) /\ name.outcome \in {"reading", "name", "truncated", "malformed"}
         /\ name.outcome = "name" => p \in Nat /\ name.after = {p}
<1>1. name \in Calls(data, offset)
  BY ReadNameIsCall
<1>2. /\ name.labels \in Seq(Seq(Byte)) /\ name.outcome \in {"reading", "name", "truncated", "malformed"}
      /\ name.after \subseteq Nat /\ AtMostOne(name.after) /\ IsWithin(name, data, offset)
  BY <1>1 DEF Calls
<1>3. ASSUME name.outcome = "name" PROVE p \in Nat /\ name.after = {p}
  <2>1. name.after # {}
    BY <1>2, <1>3 DEF IsWithin
  <2>2. p \in name.after
    BY <2>1
  <2> QED BY <1>2, <2>2 DEF AtMostOne
<1> QED BY <1>2, <1>3

LEMMA WordIsNat ==
  ASSUME NEW data \in Seq(Byte), NEW p \in Nat, p + 1 < Len(data)
  PROVE  Word(data, p) \in Nat
<1>1. p < Len(data) /\ p + 1 \in Nat
  OBVIOUS
<1>2. At(data, p) \in 0..255 /\ At(data, p + 1) \in 0..255
  BY <1>1, ByteAt
<1>3. \A a, b \in 0..255 : a * 256 + b \in Nat
  OBVIOUS
<1> QED BY <1>2, <1>3, Zenon DEF Word

\* A turn of the questions keeps what it has read.
LEMMA QuestionTurns ==
  ASSUME NEW data \in Seq(Byte), NEW s \in QuestionParts
  PROVE  LET q == NextQuestion(data, s)
             name == ReadName(data, s.offset)
         IN  /\ q \in QuestionParts
             /\ s.items # <<>> => q.items # <<>>
             /\ name.outcome = "name" /\ (\E p \in name.after : p + 4 <= Len(data)) => q.items # <<>>
<1> DEFINE q == NextQuestion(data, s)
           name == ReadName(data, s.offset)
           p == CHOOSE x \in name.after : TRUE
           entry == [name |-> name.labels, type |-> Word(data, p)]
           longer == [s EXCEPT !.offset = p + 4, !.items = Append(@, entry)]
<1>1. s.offset \in Nat /\ s.items \in Seq(QuestionEntry)
      /\ s.error \in SUBSET {"reading", "name", "truncated", "malformed"}
      /\ s = [offset |-> s.offset, items |-> s.items, error |-> s.error]
  BY DEF QuestionParts
<1>2. /\ name.labels \in Seq(Seq(Byte)) /\ name.outcome \in {"reading", "name", "truncated", "malformed"}
      /\ name.outcome = "name" => p \in Nat /\ name.after = {p}
  BY <1>1, NameHasEnd
<1>3. ASSUME NEW kind \in {"reading", "name", "truncated", "malformed"}
      PROVE  Broken(s, kind) \in QuestionParts /\ Broken(s, kind).items = s.items
  BY <1>1 DEF Broken, QuestionParts
<1>4. q = CASE name.outcome # "name" -> Broken(s, name.outcome)
            [] name.outcome = "name" /\ p + 4 > Len(data) -> Broken(s, "truncated")
            [] OTHER -> longer
  BY Zenon DEF NextQuestion, QuestionBehind
<1> HIDE DEF name, p, q, entry
<1>5. CASE name.outcome # "name"
  <2>1. q = Broken(s, name.outcome)
    BY <1>4, <1>5, Zenon
  <2> QED BY <1>2, <1>3, <1>5, <2>1 DEF q, name
<1>6. CASE name.outcome = "name" /\ p + 4 > Len(data)
  <2>1. q = Broken(s, "truncated")
    BY <1>4, <1>6, Zenon
  <2>2. ~\E x \in name.after : x + 4 <= Len(data)
    BY <1>2, <1>6
  <2> QED BY <1>3, <2>1, <2>2 DEF q, name
<1>7. CASE name.outcome = "name" /\ ~(p + 4 > Len(data))
  <2>1. q = longer
    BY <1>4, <1>7, Zenon
  <2>2. p \in Nat /\ p + 1 < Len(data)
    BY <1>2, <1>7
  <2>3. entry \in QuestionEntry
    BY <1>2, <2>2, WordIsNat DEF QuestionEntry, entry
  <2> DEFINE list == Append(s.items, entry)
  <2>4. list \in Seq(QuestionEntry) /\ Len(list) = Len(s.items) + 1
    BY <1>1, <2>3, AppendProperties
  <2>5. longer = [s EXCEPT !.offset = p + 4, !.items = list]
    OBVIOUS
  <2> HIDE DEF list, longer
  <2>6. list # <<>>
    <3> SUFFICES ASSUME list = <<>> PROVE FALSE
      OBVIOUS
    <3>1. Len(list) = 0 /\ Len(s.items) \in Nat
      BY <1>1, EmptySeq
    <3> QED BY <2>4, <3>1
  <2>7. longer \in QuestionParts /\ longer.items = list
    <3> DEFINE I == Seq(QuestionEntry)
               E == SUBSET {"reading", "name", "truncated", "malformed"}
    <3>1. s \in [offset : Nat, items : I, error : E] /\ list \in I /\ p + 4 \in Nat
      BY <2>2, <2>4 DEF QuestionParts
    <3> HIDE DEF I, E
    <3>2. longer \in [offset : Nat, items : I, error : E] /\ longer.items = list
      BY <2>5, <3>1
    <3> QED BY <3>2 DEF QuestionParts, I, E
  <2> QED BY <2>1, <2>6, <2>7 DEF q
<1> QED BY <1>5, <1>6, <1>7

FirstQuestion == Section(HeaderLen)
QuestionStep(data, s) == IF s.error # {} THEN s ELSE NextQuestion(data, s)
QuestionTurn(data, h, D) == IF D = {} THEN FirstQuestion ELSE QuestionStep(data, h[D \ {Max(D)}])
QuestionPlaces(count) == DOMAIN [i \in 1..AtMost(count, MaxRecords) |-> i]
IsQuestioning(data, count, h) == h = [D \in SUBSET QuestionPlaces(count) |-> QuestionTurn(data, h, D)]
Questioning(data, count) == CHOOSE h : IsQuestioning(data, count, h)

LEMMA QuestionsAreFold ==
  ASSUME NEW data, NEW count
  PROVE  ReadSection("questions", data, count, HeaderLen) = Questioning(data, count)[QuestionPlaces(count)]
BY Zenon DEF ReadSection, NextRecord, FoldLeft, MapThenFoldSet, Questioning, IsQuestioning, QuestionTurn,
   QuestionStep, QuestionPlaces, FirstQuestion

\* The first question that the detector finds whole is read, and is kept whatever follows it.
LEMMA WholeQuestionIsRead ==
  ASSUME NEW data \in Seq(Byte), FirstQuestionIsWhole(data), NEW count \in 1..MaxQuestions
  PROVE  ReadSection("questions", data, count, HeaderLen).items # <<>>
<1> DEFINE n == AtMost(count, MaxRecords)
           V == QuestionParts
           base == FirstQuestion
           c == [D \in SUBSET (1..n) |-> Max(D)]
           t == [p \in (1..n) \X V |-> QuestionStep(data, p[2])]
           h == Questioning(data, count)
           Begun == {s \in V : s.items # <<>>}
<1>0. n \in Nat /\ n >= 1 /\ QuestionPlaces(count) = 1..n
  BY DEF QuestionPlaces, AtMost, MaxQuestions, MaxRecords
<1>1. base \in V /\ base.offset = HeaderLen /\ base.error = {}
  <2>1. <<>> \in Seq(QuestionEntry)
    BY EmptySeq
  <2> QED BY <2>1 DEF FirstQuestion, Section, QuestionParts, HeaderLen
<1>2. \A D \in SUBSET (1..n) : D # {} => c[D] \in D /\ c[D] = Max(D)
  BY <1>0, PlacesHaveEnds
<1>3. ASSUME NEW v \in V PROVE QuestionStep(data, v) \in V /\ (v \in Begun => QuestionStep(data, v) \in Begun)
  BY QuestionTurns DEF QuestionStep
<1>4. QuestionStep(data, base) \in Begun
  <2>1. LET name == ReadName(data, base.offset)
        IN  name.outcome = "name" /\ \E p \in name.after : p + 4 <= Len(data)
    BY <1>1 DEF FirstQuestionIsWhole
  <2>2. QuestionStep(data, base) = NextQuestion(data, base)
    BY <1>1 DEF QuestionStep
  <2> HIDE DEF base
  <2> QED BY <1>1, <2>1, <2>2, QuestionTurns
<1> HIDE DEF n, V, h, base
<1>5. \A i \in 1..n, v \in V : t[<<i, v>>] = QuestionStep(data, v) /\ QuestionStep(data, v) \in V
  BY <1>3
<1> HIDE DEF c, t
<1>6. PICK g : IsPlaceFold(n, c, t, base, g) /\ \A D \in SUBSET (1..n) : g[D] \in V
  <2>1. KeepsTo(n, c, t, base, V)
    BY <1>1, <1>2, <1>5 DEF KeepsTo
  <2> QED BY <1>0, <2>1, PlaceFoldStays
<1>7. IsQuestioning(data, count, g)
  <2>1. \A D \in SUBSET (1..n) : PlaceTurn(c, t, base, g, D) = QuestionTurn(data, g, D)
    <3> SUFFICES ASSUME NEW D \in SUBSET (1..n), D # {}
                 PROVE  PlaceTurn(c, t, base, g, D) = QuestionTurn(data, g, D)
      BY DEF PlaceTurn, QuestionTurn, base
    <3>1. Max(D) \in 1..n /\ c[D] = Max(D) /\ g[D \ {Max(D)}] \in V
      BY <1>2, <1>6
    <3>2. t[<<Max(D), g[D \ {Max(D)}]>>] = QuestionStep(data, g[D \ {Max(D)}])
      BY <1>5, <3>1
    <3> QED BY <3>1, <3>2 DEF PlaceTurn, QuestionTurn
  <2>2. g = [D \in SUBSET (1..n) |-> QuestionTurn(data, g, D)]
    BY <1>6, <2>1 DEF IsPlaceFold
  <2> QED BY <1>0, <2>2 DEF IsQuestioning
<1>8. IsQuestioning(data, count, h)
  BY <1>7, Zenon DEF h, Questioning
<1>9. \A D \in SUBSET (1..n) : h[D] = QuestionTurn(data, h, D)
  BY <1>0, <1>8 DEF IsQuestioning
<1> DEFINE W == Begun \cup {base}
<1>10. \A D \in SUBSET (1..n) : h[D] \in W
  <2>1. h[{}] \in W
    BY <1>9 DEF QuestionTurn, base
  <2>2. ASSUME NEW D \in SUBSET (1..n), D # {} PROVE \E i \in D : h[D \ {i}] \in W => h[D] \in W
    <3>1. Max(D) \in D
      BY <1>2, <2>2
    <3>2. h[D] = QuestionStep(data, h[D \ {Max(D)}])
      BY <1>9, <2>2 DEF QuestionTurn
    <3> QED BY <1>3, <1>4, <3>1, <3>2
  <2> HIDE DEF W
  <2> QED BY <1>0, <2>1, <2>2, FoldStays
<1>11. h[1..n] \in Begun
  <2>1. 1..n \in SUBSET (1..n) /\ 1..n # {}
    <3>1. 1 \in 1..n
      BY <1>0
    <3> QED BY <3>1
  <2>2. h[1..n] = QuestionStep(data, h[(1..n) \ {Max(1..n)}])
    BY <1>9, <2>1 DEF QuestionTurn
  <2>3. h[(1..n) \ {Max(1..n)}] \in W
    BY <1>10
  <2> QED BY <1>3, <1>4, <2>2, <2>3
<1>12. ReadSection("questions", data, count, HeaderLen) = h[1..n]
  BY <1>0, QuestionsAreFold, Zenon DEF h
<1> QED BY <1>11, <1>12

LEMMA MessageIsParsed ==
  ASSUME NEW data \in Seq(Byte), IsDnsUdp(data)
  PROVE  ParseDnsMessage(data).questions # <<>>
<1> DEFINE questions == ReadSection("questions", data, Word(data, 4), HeaderLen)
<1>1. FirstQuestionIsWhole(data) /\ Word(data, 4) \in 1..MaxQuestions /\ ~(Len(data) < HeaderLen)
  BY DEF IsDnsUdp, HeaderLen
<1>2. questions.items # <<>>
  BY <1>1, WholeQuestionIsRead
<1>3. \E answers, limit : ParseDnsMessage(data) = Sections(questions, answers, limit)
  BY <1>1, Zenon DEF ParseDnsMessage
<1> HIDE DEF questions
<1> QED BY <1>2, <1>3 DEF Sections

\* Over TCP the parser reads the bytes that the detector looked at: the length in front is that of the rest.
LEMMA SegmentIsParsed ==
  ASSUME NEW T, NEW s, s \in Seq(T), IsDnsTcp(s), Unprefixed(s) \in Seq(Byte)
  PROVE  ParseDns(s, "TCP").questions # <<>>
<1>1. Len(s) \in Nat /\ Len(s) >= 2 /\ Word(s, 0) = Len(s) - 2 /\ IsDnsUdp(Unprefixed(s))
  BY DEF IsDnsTcp
<1>2. AtMost(2 + Word(s, 0), Len(s)) = Len(s)
  BY <1>1 DEF AtMost
<1>3. ~(Len(s) < 2)
  BY <1>1
<1>4. ParseDns(s, "TCP") = ParseDnsMessage(Unprefixed(s))
  BY <1>2, <1>3 DEF ParseDns, Unprefixed
<1> QED BY <1>1, <1>4, MessageIsParsed

\* The units of a payload that the detector takes for a message are bytes: the packet tells one layer.
LEMMA PayloadIsBytes ==
  ASSUME NEW p \in Packets, NEW fails,
         NEW net, net = NetworkStage(p, fails), NEW part, part = TransportStage(p, net, fails),
         part.transport # {}, ~IsText(part.payload), Len(part.payload.units) > HeaderLen
  PROVE  IF \E t \in part.transport : t.protocol = "TCP" THEN Unprefixed(part.payload.units) \in Seq(Byte)
         ELSE part.payload.units \in Seq(Byte)
<1>1. net.errors = {} /\ net.network # {} /\ ~(\E ip \in net.network : ip.fragOffset > 0) /\ "transport" \notin fails
  BY DEF TransportStage, NoTransport
<1>2. "network" \notin fails
  BY <1>1 DEF NetworkStage
<1>3. net = ParseIpv4(p)
  BY <1>2 DEF NetworkStage
<1>4. part = TransportStage(p, ParseIpv4(p), {})
  <2>1. part = ParseTransport(p, CHOOSE x \in net.network : TRUE)
    BY <1>1, Zenon DEF TransportStage
  <2>2. TransportStage(p, net, {}) = ParseTransport(p, CHOOSE x \in net.network : TRUE)
    BY <1>1, Zenon DEF TransportStage
  <2> QED BY <1>3, <2>1, <2>2
<1> DEFINE s == part.payload.units
           data == IF \E t \in part.transport : t.protocol = "TCP" THEN SubSeq(s, 3, Len(s)) ELSE s
<1>5. NameToRead(p) = <<data, HeaderLen>>
  BY <1>4 DEF NameToRead
<1> HIDE DEF data
<1>6. NameToRead(p) \in Messages
  BY NamesAreMessages
<1>7. data \in Seq(Byte)
  BY <1>5, <1>6, MessagesAreBytes
<1> QED BY <1>7 DEF data, Unprefixed

\* The rule that the detector names is one that matched.
LEMMA DetectionIsRule ==
  ASSUME NEW transport, NEW payload, Detect(transport, payload).method \in {"payload", "port+payload"}
  PROVE  \E x \in FirstMatch(payload, transport, HintOf(transport)) :
           Detect(transport, payload).rule = x.rule /\ Detect(transport, payload).protocol = x.protocol
<1> DEFINE hint == HintOf(transport)
           found == FirstMatch(payload, transport, hint)
           x == CHOOSE y \in found : TRUE
           d == Detection(payload.units = <<>>, hint, found)
<1>1. d = Detect(transport, payload)
  BY DEF Detect
<1>2. payload.units # <<>>
  BY NothingIsNotParsed
<1> HIDE DEF hint, found
<1>3. found # {}
  <2> SUFFICES ASSUME found = {} PROVE FALSE
    OBVIOUS
  <2>1. d = Undetected
    BY <1>2, Zenon DEF Detection
  <2>2. Detect(transport, payload) = Undetected
    BY <1>1, <2>1, Zenon
  <2>3. Undetected.method \notin {"payload", "port+payload"}
    BY DEF Undetected
  <2> QED BY <2>2, <2>3, Zenon
<1>4. x \in found
  BY <1>3
<1>5. \E method : d = [protocol |-> x.protocol, method |-> method, rule |-> x.rule]
  BY <1>2, <1>3, Zenon DEF Detection
<1>6. d.rule = x.rule /\ d.protocol = x.protocol
  BY <1>5
<1> QED BY <1>1, <1>4, <1>6 DEF found, hint

\* A text is what the first rule that matches says.
LEMMA TextIsParsed ==
  ASSUME NEW T, NEW payload, payload.units \in Seq(T), NEW hint, NEW protocol, NEW d,
         NEW x \in FirstTextMatch(payload.units, FirstLine(payload.units), hint), d.rule = x.rule
  PROVE  ParsedAsDetected(d, payload, protocol)
<1> DEFINE s == payload.units
           first == FirstLine(s)
<1>1. CASE IsHttpRequest(first.line) /\ x \in Found("HTTP", "http_request")
  <2>1. ParseHttp(s).kind = "request"
    BY <1>1, RequestIsParsed
  <2>2. d.rule = "http_request"
    BY <1>1 DEF Found
  <2> QED BY <2>1, <2>2 DEF ParsedAsDetected
<1>2. CASE IsHttpResponse(first.line) /\ x \in Found("HTTP", "http_response")
  <2>1. ParseHttp(s).kind = "response"
    BY <1>2, ResponseIsParsed
  <2>2. d.rule = "http_response"
    BY <1>2 DEF Found
  <2> QED BY <2>1, <2>2 DEF ParsedAsDetected
<1>3. CASE IsSmtpReply(first, hint) /\ x \in Found("SMTP", "smtp_response")
  <2>1. ParseSmtp(s).kind = "response"
    BY <1>3, ReplyIsParsed
  <2>2. d.rule = "smtp_response"
    BY <1>3 DEF Found
  <2> QED BY <2>1, <2>2 DEF ParsedAsDetected
<1>4. CASE IsSmtpCommand(s, first) /\ x \in Found("SMTP", "smtp_command")
  <2>1. ParseSmtp(s).kind = "command"
    BY <1>4, CommandIsParsed
  <2>2. d.rule = "smtp_command"
    BY <1>4 DEF Found
  <2> QED BY <2>1, <2>2 DEF ParsedAsDetected
<1> HIDE DEF s, first
<1>5. x \in FirstTextMatch(s, first, hint)
  BY DEF s, first
<1>6. \/ IsHttpRequest(first.line) /\ x \in Found("HTTP", "http_request")
      \/ IsHttpResponse(first.line) /\ x \in Found("HTTP", "http_response")
      \/ IsSmtpReply(first, hint) /\ x \in Found("SMTP", "smtp_response")
      \/ IsSmtpCommand(s, first) /\ x \in Found("SMTP", "smtp_command")
  <2>1. x \notin {}
    OBVIOUS
  <2> QED BY <1>5, <2>1, Zenon DEF FirstTextMatch
<1> QED BY <1>1, <1>2, <1>3, <1>4, <1>6

\* A payload whose first question is whole is longer than the header of the message.
LEMMA MessageIsLonger ==
  ASSUME NEW T, NEW s, s \in Seq(T), IsDnsUdp(s)
  PROVE  Len(s) > HeaderLen
<1>1. Len(s) \in Nat /\ Len(s) >= HeaderLen /\ FirstQuestionIsWhole(s)
  BY DEF IsDnsUdp
<1>2. ReadName(s, HeaderLen).outcome = "name"
  BY <1>1 DEF FirstQuestionIsWhole
<1>3. HeaderLen < Len(s)
  BY <1>2, NoNameBehindEnd
<1>4. \A n \in Nat : 12 < n => n > 12
  OBVIOUS
<1> QED BY <1>1, <1>3, <1>4 DEF HeaderLen

\* The same for a segment, which has two bytes more.
LEMMA SegmentIsLonger ==
  ASSUME NEW T, NEW s, s \in Seq(T), IsDnsTcp(s)
  PROVE  Len(s) > HeaderLen
<1>1. Len(s) \in Nat /\ Len(s) >= 2 /\ IsDnsUdp(Unprefixed(s))
  BY DEF IsDnsTcp
<1>2. Unprefixed(s) \in Seq(T) /\ Len(Unprefixed(s)) = Len(s) - 2
  <2>1. \A i \in 3..Len(s) : s[i] \in T
    BY <1>1
  <2> DEFINE tail == SubSeq(s, 3, Len(s))
  <2>2. tail \in Seq(T) /\ Len(tail) = IF 3 <= Len(s) THEN Len(s) - 3 + 1 ELSE 0
    BY <1>1, <2>1, SubSeqProperties
  <2> HIDE DEF tail
  <2>3. \A n \in Nat : n >= 2 => (IF 3 <= n THEN n - 3 + 1 ELSE 0) = n - 2
    OBVIOUS
  <2>4. Len(tail) = Len(s) - 2
    BY <1>1, <2>2, <2>3, Zenon
  <2> QED BY <2>2, <2>4 DEF Unprefixed, tail
<1>3. Len(Unprefixed(s)) > HeaderLen
  BY <1>1, <1>2, MessageIsLonger
<1> QED BY <1>1, <1>2, <1>3 DEF HeaderLen

\* Bytes are what the first rule that matches says.
LEMMA BytesAreParsed ==
  ASSUME NEW p \in Packets, NEW fails,
         NEW net, net = NetworkStage(p, fails), NEW part, part = TransportStage(p, net, fails),
         NEW layer, part.transport = {layer}, ~IsText(part.payload), AreTokens(part.payload.units),
         NEW hint, NEW d, NEW x \in FirstMatch(part.payload, part.transport, hint), d.rule = x.rule
  PROVE  ParsedAsDetected(d, part.payload, layer.protocol)
<1> DEFINE s == part.payload.units
           over(protocol) == \E t \in part.transport : t.protocol = protocol
<1>1. PICK T : s \in Seq(T)
  BY DEF AreTokens
<1>2. \A protocol : over(protocol) <=> layer.protocol = protocol
  OBVIOUS
<1>3. \/ over("TCP") /\ IsDnsTcp(s) /\ x \in Found("DNS", "dns_tcp")
      \/ over("UDP") /\ IsDnsUdp(s) /\ x \in Found("DNS", "dns_udp")
  <2>1. x \notin {}
    OBVIOUS
  <2> QED BY <2>1, Zenon DEF FirstMatch
<1>4. Len(s) > HeaderLen
  BY <1>1, <1>3, MessageIsLonger, SegmentIsLonger
<1>5. IF over("TCP") THEN Unprefixed(s) \in Seq(Byte) ELSE s \in Seq(Byte)
  BY <1>4, PayloadIsBytes
<1> HIDE DEF s, over
<1>6. CASE over("TCP") /\ IsDnsTcp(s) /\ x \in Found("DNS", "dns_tcp")
  <2>1. Unprefixed(s) \in Seq(Byte)
    BY <1>5, <1>6
  <2>2. ParseDns(s, "TCP").questions # <<>>
    BY <1>1, <1>6, <2>1, SegmentIsParsed
  <2>3. d.rule = "dns_tcp" /\ layer.protocol = "TCP"
    BY <1>2, <1>6 DEF Found
  <2> QED BY <2>2, <2>3 DEF ParsedAsDetected, s
<1>7. CASE over("UDP") /\ IsDnsUdp(s) /\ x \in Found("DNS", "dns_udp")
  <2>1. layer.protocol = "UDP" /\ ~over("TCP")
    BY <1>2, <1>7
  <2>2. ParseDns(s, "UDP") = ParseDnsMessage(s)
    BY DEF ParseDns
  <2>3. ParseDns(s, "UDP").questions # <<>>
    BY <1>5, <1>7, <2>1, <2>2, MessageIsParsed
  <2>4. d.rule = "dns_udp"
    BY <1>7 DEF Found
  <2> QED BY <2>1, <2>3, <2>4 DEF ParsedAsDetected, s
<1> QED BY <1>3, <1>6, <1>7

\* A packet tells at most one layer behind the IPv4 header, and without one nothing of its payload.
LEMMA OneLayerIsTold ==
  ASSUME NEW p, NEW fails, NEW net, NEW part, part = TransportStage(p, net, fails),
         part.payload.units # <<>>
  PROVE  \E layer : part.transport = {layer}
<1>1. \A status, errors : NoTransport(status, errors).payload.units = <<>>
  BY DEF NoTransport, Empty
<1>2. \/ \E status, errors : part = NoTransport(status, errors)
      \/ \E ip : part = ParseTransport(p, ip)
  BY DEF TransportStage
<1>3. PICK ip : part = ParseTransport(p, ip)
  BY <1>1, <1>2
<1>4. \/ \E status, errors : part = NoTransport(status, errors)
      \/ \E layer : part = ReadLayer(layer, ip, p.captured)
  BY <1>3 DEF ParseTransport
<1>5. PICK layer : part = ReadLayer(layer, ip, p.captured)
  BY <1>1, <1>4
<1>6. \E status, errors, payload :
        part = [transport |-> {layer}, payload |-> payload, status |-> status, errors |-> errors]
  BY <1>5, Zenon DEF ReadLayer
<1>7. part.transport = {layer}
  BY <1>6
<1> QED BY <1>7

\* Whatever the pipeline raises, an event that has an application has one that its detection promises.
LEMMA EventsAreParsed ==
  ASSUME NEW p \in Packets, NEW fails, NEW pol, NEW e \in PipelineProcess(p, fails, pol), e.application # {}
  PROVE  ParsedAsDetected(e.detection, e.payload, (CHOOSE t \in e.transport : TRUE).protocol)
<1> DEFINE net == NetworkStage(p, fails)
           part == TransportStage(p, net, fails)
           base == [MalformedEvent EXCEPT !.time = p.time, !.network = net.network]
           d == Detect(part.transport, part.payload)
<1>1. "envelope" \notin fails
  <2> SUFFICES ASSUME "envelope" \in fails PROVE FALSE
    OBVIOUS
  <2>1. e = MalformedEvent
    BY DEF PipelineProcess
  <2> QED BY <2>1 DEF MalformedEvent
<1>2. e = DetectorStage(base, part, fails)
  BY <1>1 DEF PipelineProcess, BuildEvent
<1>3. IsBase(base) /\ AreTokens(part.payload.units)
  BY PayloadIsText DEF IsBase, MalformedEvent
<1> HIDE DEF net
<1>4. net = NetworkStage(p, fails)
  BY DEF net
<1> HIDE DEF part, base
<1>5. part = TransportStage(p, net, fails)
  BY DEF part
<1>6. \A detection, application :
        LET a == Assembled(base, part, detection, application)
        IN  /\ IsBase(a) /\ a.application = application /\ a.detection = detection
            /\ a.payload = part.payload /\ a.transport = part.transport
  BY <1>3, AssembledFields
<1>7. ASSUME NEW a, NEW at, IsBase(a) PROVE Marred(a, at).application = a.application
  <2>1. "application" \in DOMAIN a \ {"status", "errors"}
    BY <1>7 DEF IsBase, MalformedEvent
  <2> QED BY <1>7, <2>1, MarredFields
<1>8. \/ \E detection : e = Assembled(base, part, detection, {})
      \/ \E detection, at : e = Marred(Assembled(base, part, detection, {}), at)
      \/ /\ d.method \in {"payload", "port+payload"}
         /\ e = Assembled(base, part, d, {ParseApplication(d, part.payload, part.transport)})
  BY <1>2, Zenon DEF DetectorStage, ApplicationStage
<1>9. /\ d.method \in {"payload", "port+payload"}
      /\ e.detection = d /\ e.payload = part.payload /\ e.transport = part.transport
  BY <1>6, <1>7, <1>8
<1>10. part.payload.units # <<>>
  BY <1>9, NothingIsNotParsed
<1>11. PICK layer : part.transport = {layer}
  BY <1>5, <1>10, OneLayerIsTold
<1>12. PICK x \in FirstMatch(part.payload, part.transport, HintOf(part.transport)) : d.rule = x.rule
  BY <1>9, DetectionIsRule
<1> HIDE DEF d
<1>13. ParsedAsDetected(d, part.payload, layer.protocol)
  <2>1. CASE IsText(part.payload)
    <3>1. PICK T : part.payload.units \in Seq(T)
      BY <1>3 DEF AreTokens
    <3>2. x \in FirstTextMatch(part.payload.units, FirstLine(part.payload.units), HintOf(part.transport))
      BY <1>12, <2>1, Zenon DEF FirstMatch
    <3> QED BY <1>12, <3>1, <3>2, TextIsParsed
  <2>2. CASE ~IsText(part.payload)
    BY <1>3, <1>4, <1>5, <1>11, <1>12, <2>2, BytesAreParsed
  <2> QED BY <2>1, <2>2
<1>14. (CHOOSE t \in e.transport : TRUE) = layer
  BY <1>9, <1>11
<1> QED BY <1>9, <1>13, <1>14

\* The detector never takes a payload for something that its parser does not find there: what it calls a
\* request has a request line, a reply its code, a command its word, and a DNS message its first question,
\* for every packet, whatever is cut off its end and whichever stage of the pipeline raises.
THEOREM DetectionsAreParsed == Spec => []DetectedIsParsed
<1>1. EventInv => DetectedIsParsed
  <2> SUFFICES ASSUME EventInv, NEW e \in event, e.application # {}
               PROVE  ParsedAsDetected(e.detection, e.payload, (CHOOSE t \in e.transport : TRUE).protocol)
    BY DEF DetectedIsParsed
  <2>1. PICK p \in packet : e \in PipelineProcess(p, failing, policy)
    BY DEF EventInv
  <2>2. p \in Packets
    BY DEF EventInv
  <2> QED BY <2>1, <2>2, EventsAreParsed
<1> QED BY EventStarts, EventStepKeeps, <1>1, PTL DEF Spec

-------------------------------------------------------------------------------
(***************************************************************************)
(* What the decoder tells of a loss.                                       *)
(***************************************************************************)

LEMMA FlatIsTokens ==
  ASSUME NEW T, NEW f, f \in Seq(Seq(T))
  PROVE  FlattenSeq(f) \in Seq(T)
<1> DEFINE P == {n \in Nat : n <= Len(f) => Flattened(f, n) \in Seq(T)}
<1>0. Len(f) \in Nat /\ \A n \in 1..Len(f) : f[n] \in Seq(T)
  OBVIOUS
<1>1. 0 \in P
  BY DEF Flattened
<1>2. ASSUME NEW n \in Nat, n \in P PROVE n + 1 \in P
  <2> SUFFICES ASSUME n + 1 <= Len(f) PROVE Flattened(f, n + 1) \in Seq(T)
    OBVIOUS
  <2>1. n < Len(f) /\ n + 1 \in 1..Len(f) /\ Flattened(f, n) \in Seq(T)
    BY <1>0, <1>2
  <2> DEFINE a == Flattened(f, n)
             b == f[n + 1]
  <2>2. a \in Seq(T) /\ b \in Seq(T)
    BY <1>0, <2>1
  <2> HIDE DEF a, b
  <2>3. <<>> \o b = b /\ a \o b \in Seq(T)
    BY <2>2
  <2>4. Flattened(f, n + 1) = a \o b
    BY <1>0, <2>1, <2>3, FlattenedGrows DEF a, b
  <2> QED BY <2>3, <2>4
<1>3. Nat \subseteq P
  BY <1>1, <1>2, AllNats
<1>4. Flattened(f, Len(f)) \in Seq(T)
  BY <1>0, <1>3
<1>5. FlattenSeq(f) = Flattened(f, Len(f))
  BY FlattenedIsFlat
<1> QED BY <1>4, <1>5

LEMMA FrameIsText ==
  ASSUME NEW T, NEW data, data \in Seq(T)
  PROVE  Frame(data) \in Seq(T)
<1>1. ASSUME NEW s, s \in Seq(T) PROVE Unstuffed(s) \in Seq(T)
  <2> DEFINE stuffed(i) == s[i] = "." /\ (i = 1 \/ s[i - 1] = "LF") /\ i < Len(s) /\ s[i + 1] = "."
             part(i) == IF stuffed(i) THEN <<>> ELSE <<s[i]>>
             f == [i \in DOMAIN s |-> part(i)]
  <2>1. \A i \in 1..Len(s) : part(i) \in Seq(T)
    <3> SUFFICES ASSUME NEW i \in 1..Len(s) PROVE part(i) \in Seq(T)
      OBVIOUS
    <3>1. s[i] \in T
      BY <1>1
    <3>2. <<s[i]>> \in Seq(T) /\ <<>> \in Seq(T)
      BY <3>1
    <3> QED BY <3>2
  <2>2. Unstuffed(s) = FlattenSeq(f)
    BY Zenon DEF Unstuffed
  <2> HIDE DEF part
  <2>3. f \in Seq(Seq(T))
    BY <1>1, <2>1
  <2> HIDE DEF f
  <2> QED BY <2>2, <2>3, FlatIsTokens
<1>2. CASE Places(data, EndMarker) = {}
  <2>1. Frame(data) = Unstuffed(data)
    BY <1>2, Zenon DEF Frame
  <2> QED BY <1>1, <2>1
<1>3. CASE Places(data, EndMarker) # {}
  <2> DEFINE m == FirstPlace(data, EndMarker) + 1
             cut == SubSeq(data, 1, m)
  <2>1. Frame(data) = Unstuffed(cut)
    BY <1>3, Zenon DEF Frame
  <2>2. Len(EndMarker) = 5
    BY DEF EndMarker, CRLF
  <2>3. Separates(EndMarker)
    BY <2>2 DEF Separates
  <2>4. FirstPlace(data, EndMarker) \in 1..Len(data) /\ FirstPlace(data, EndMarker) + 5 - 1 <= Len(data)
    BY <1>3, <2>2, <2>3, PlaceIs
  <2>5. m \in Nat /\ m <= Len(data)
    BY <2>4
  <2> HIDE DEF m
  <2>6. cut \in Seq(T)
    BY <2>5, SliceStarts
  <2> HIDE DEF cut
  <2> QED BY <1>1, <2>1, <2>6
<1> QED BY <1>2, <1>3

Blanks == {" ", "CR", "LF"}
Compacted(t, x) == IF x \in Blanks THEN t ELSE Append(t, x)
CompactTurn(s, h, D) == IF D = {} THEN <<>> ELSE Compacted(h[D \ {Max(D)}], s[Max(D)])
IsCompacting(s, h) == h = [D \in SUBSET DOMAIN s |-> CompactTurn(s, h, D)]
Compacting(s) == CHOOSE h : IsCompacting(s, h)

LEMMA CompactIsFold ==
  ASSUME NEW s
  PROVE  Compact(s) = Compacting(s)[DOMAIN s]
BY Zenon DEF Compact, FoldLeft, MapThenFoldSet, Compacting, IsCompacting, CompactTurn, Compacted, Blanks

\* Only white space is left out.
LEMMA CompactKeeps ==
  ASSUME NEW T, NEW s, s \in Seq(T)
  PROVE  Compact(s) \in Seq(T) /\ \A i \in 1..Len(s) : s[i] \notin Blanks => Has(Compact(s), s[i])
<1> DEFINE n == Len(s)
           V == Seq(T)
           c == [D \in SUBSET (1..n) |-> Max(D)]
           t == [p \in (1..n) \X V |-> Compacted(p[2], s[p[1]])]
           h == Compacting(s)
<1>0. n \in Nat /\ DOMAIN s = 1..n /\ \A i \in 1..n : s[i] \in T
  OBVIOUS
<1>1. <<>> \in V
  OBVIOUS
<1>2. \A D \in SUBSET (1..n) : D # {} => c[D] \in D /\ c[D] = Max(D)
  BY <1>0, PlacesHaveEnds
<1>3. ASSUME NEW v \in V, NEW x \in T
      PROVE  /\ Compacted(v, x) \in V
             /\ \A y : Has(v, y) => Has(Compacted(v, x), y)
             /\ x \notin Blanks => Has(Compacted(v, x), x)
  <2>1. CASE x \in Blanks
    BY <2>1 DEF Compacted
  <2>2. CASE x \notin Blanks
    <3>1. Compacted(v, x) = Append(v, x)
      BY <2>2 DEF Compacted
    <3> DEFINE a == Append(v, x)
    <3>2. a \in V /\ Len(a) = Len(v) + 1 /\ Len(v) \in Nat /\ a[Len(v) + 1] = x /\ \A i \in 1..Len(v) : a[i] = v[i]
      OBVIOUS
    <3> HIDE DEF a
    <3>3. DOMAIN a = 1..(Len(v) + 1) /\ DOMAIN v = 1..Len(v)
      BY <3>2
    <3>4. \A y : Has(v, y) => Has(a, y)
      BY <3>2, <3>3 DEF Has
    <3>5. Has(a, x)
      BY <3>2, <3>3 DEF Has
    <3> QED BY <3>1, <3>2, <3>4, <3>5 DEF a
  <2> QED BY <2>1, <2>2
<1> HIDE DEF V, h
<1>4. \A i \in 1..n, v \in V : t[<<i, v>>] = Compacted(v, s[i]) /\ Compacted(v, s[i]) \in V
  BY <1>0, <1>3
<1> HIDE DEF c, t, n
<1>5. \E g : IsCompacting(s, g)
  <2>1. KeepsTo(n, c, t, <<>>, V)
    BY <1>1, <1>2, <1>4 DEF KeepsTo
  <2>2. PICK g : IsPlaceFold(n, c, t, <<>>, g) /\ \A D \in SUBSET (1..n) : g[D] \in V
    BY <1>0, <2>1, PlaceFoldStays
  <2>3. \A D \in SUBSET (1..n) : PlaceTurn(c, t, <<>>, g, D) = CompactTurn(s, g, D)
    <3> SUFFICES ASSUME NEW D \in SUBSET (1..n), D # {}
                 PROVE  PlaceTurn(c, t, <<>>, g, D) = CompactTurn(s, g, D)
      BY DEF PlaceTurn, CompactTurn
    <3>1. Max(D) \in 1..n /\ c[D] = Max(D) /\ g[D \ {Max(D)}] \in V
      BY <1>2, <2>2
    <3>2. t[<<Max(D), g[D \ {Max(D)}]>>] = Compacted(g[D \ {Max(D)}], s[Max(D)])
      BY <1>4, <3>1
    <3> QED BY <3>1, <3>2 DEF PlaceTurn, CompactTurn
  <2>4. g = [D \in SUBSET (1..n) |-> CompactTurn(s, g, D)]
    BY <2>2, <2>3 DEF IsPlaceFold
  <2> QED BY <1>0, <2>4 DEF IsCompacting
<1>6. IsCompacting(s, h)
  BY <1>5, Zenon DEF h, Compacting
<1>7. \A D \in SUBSET (1..n) : h[D] = CompactTurn(s, h, D)
  BY <1>0, <1>6 DEF IsCompacting
<1> DEFINE KeepsFirst(m) == h[1..m] \in V /\ \A i \in 1..m : s[i] \notin Blanks => Has(h[1..m], s[i])
           P == {m \in Nat : m <= n => KeepsFirst(m)}
<1>8. 0 \in P
  <2>1. 1..0 = {} /\ {} \in SUBSET (1..n)
    OBVIOUS
  <2>2. h[{}] = <<>>
    BY <1>7, <2>1 DEF CompactTurn
  <2>3. h[1..0] = <<>>
    BY <2>1, <2>2
  <2>4. KeepsFirst(0)
    BY <1>1, <2>1, <2>3
  <2> HIDE DEF KeepsFirst
  <2> QED BY <2>4
<1>9. ASSUME NEW m \in Nat, m \in P PROVE m + 1 \in P
  <2> SUFFICES ASSUME m + 1 <= n PROVE KeepsFirst(m + 1)
    OBVIOUS
  <2>1. m + 1 \in 1..n /\ m < n /\ 1..(m + 1) \in SUBSET (1..n) /\ 1..(m + 1) # {}
    BY <1>0
  <2>2. KeepsFirst(m)
    BY <1>0, <1>9, <2>1
  <2>3. Max(1..(m + 1)) = m + 1 /\ (1..(m + 1)) \ {m + 1} = 1..((m + 1) - 1)
    BY <1>0, <2>1, PlacesHaveEnds
  <2>4. (m + 1) - 1 = m
    OBVIOUS
  <2>5. h[1..(m + 1)] = Compacted(h[1..m], s[m + 1])
    BY <1>7, <2>1, <2>3, <2>4 DEF CompactTurn
  <2> DEFINE v == h[1..m]
             w == h[1..(m + 1)]
             x == s[m + 1]
  <2>6. v \in V /\ x \in T /\ w = Compacted(v, x) /\ \A i \in 1..m : s[i] \notin Blanks => Has(v, s[i])
    BY <1>0, <2>1, <2>2, <2>5
  <2> HIDE DEF v, w, x
  <2>7. w \in V /\ (\A y : Has(v, y) => Has(w, y)) /\ (x \notin Blanks => Has(w, x))
    BY <1>3, <2>6
  <2>8. \A i \in 1..(m + 1) : s[i] \notin Blanks => Has(w, s[i])
    <3> SUFFICES ASSUME NEW i \in 1..(m + 1), s[i] \notin Blanks PROVE Has(w, s[i])
      OBVIOUS
    <3>1. i \in 1..m \/ i = m + 1
      OBVIOUS
    <3> QED BY <2>6, <2>7, <3>1 DEF x
  <2> QED BY <2>7, <2>8 DEF w
<1> HIDE DEF KeepsFirst
<1>10. Nat \subseteq P
  BY <1>8, <1>9, AllNats
<1>11. KeepsFirst(n)
  BY <1>0, <1>10
<1>12. Compact(s) = h[1..n]
  BY <1>0, CompactIsFold, Zenon DEF h
<1> QED BY <1>11, <1>12 DEF KeepsFirst, V, n

\* How long a text of k characters is with its padding.
Padded(k) == 4 * ((k + 3) \div 4)

LEMMA PaddedLength ==
  ASSUME NEW k \in Nat
  PROVE  /\ k % 4 \in 0..3 /\ Padded(k) \in Nat
         /\ Padded(k) = IF k % 4 = 0 THEN k ELSE k + 4 - (k % 4)
         /\ k % 4 = 1 => (k + 3) % 4 = 0
<1>1. PICK q \in Nat, r \in 0..3 : k = 4 * q + r
  <2> DEFINE q == k \div 4
             r == k % 4
  <2>1. q \in Nat
    OBVIOUS
  <2>2. r \in 0..3
    OBVIOUS
  <2>3. r = k - 4 * q
    BY <2>1
  <2> HIDE DEF q, r
  <2>4. k = 4 * q + r
    BY <2>1, <2>2, <2>3
  <2> QED BY <2>1, <2>2, <2>4
<1>2. k % 4 = r
  BY <1>1
<1>3. (k + 3) \div 4 = IF r = 0 THEN q ELSE q + 1
  BY <1>1
<1>4. r = 1 => (k + 3) % 4 = 0
  BY <1>1
<1> QED BY <1>1, <1>2, <1>3, <1>4 DEF Padded

\* s is k characters and then only padding.
IsPadded(s, k) == k \in 0..Len(s) /\ \A i \in 1..Len(s) : s[i] = IF i <= k THEN "b" ELSE "="

\* k characters in a text of n tokens are a Base64 text, or the start of one.
IsCoded(k, n, complete) ==
  IF k = n THEN complete => k % 4 = 0
  ELSE k % 4 \in {2, 3} /\ (n = k + 4 - (k % 4) \/ (~complete /\ n = k + 1))

LEMMA PaddedIs ==
  ASSUME NEW T, NEW s, s \in Seq(T)
  PROVE  LET c == Len(Before(s, <<"=">>))
             tail == Behind(s, <<"=">>)
             clean == \A i \in DOMAIN s : s[i] \in {"b", "="}
         IN  /\ c \in 0..Len(s)
             /\ Has(s, "=") => c < Len(s) /\ Len(tail) = Len(s) - c - 1 /\ (clean /\ ~Has(tail, "b") <=> IsPadded(s, c))
             /\ ~Has(s, "=") => c = Len(s) /\ (clean <=> IsPadded(s, c))
             /\ \A k : IsPadded(s, k) => k = c
<1> DEFINE b == Before(s, <<"=">>)
           c == Len(b)
           tail == Behind(s, <<"=">>)
           n == Len(s)
           clean == \A i \in DOMAIN s : s[i] \in {"b", "="}
<1>0. n \in Nat /\ DOMAIN s = 1..n
  OBVIOUS
<1>1. /\ c \in Nat /\ StartsWith(s, b)
      /\ ~Has(s, "=") => b = s /\ tail = <<>>
      /\ Has(s, "=") => c < n /\ s[c + 1] = "=" /\ tail = SubSeq(s, c + 2, n)
      /\ \A i \in 1..c : b[i] = s[i] /\ s[i] # "="
  <2> DEFINE x == "="
  <2> HIDE DEF x
  <2>1. LET d == Before(s, <<x>>)
         IN  /\ d \in Seq(T) /\ StartsWith(s, d)
             /\ ~Has(s, x) => d = s /\ Behind(s, <<x>>) = <<>>
             /\ Has(s, x) => Len(d) < Len(s) /\ s[Len(d) + 1] = x /\ Behind(s, <<x>>) = SubSeq(s, Len(d) + 2, Len(s))
             /\ \A i \in 1..Len(d) : s[i] # x
    BY BeforeToken
  <2>2. \A i \in 1..Len(Before(s, <<x>>)) : Before(s, <<x>>)[i] = s[i]
    BY <2>1 DEF StartsWith
  <2>3. Len(Before(s, <<x>>)) \in Nat
    BY <2>1
  <2> QED BY <2>1, <2>2, <2>3 DEF x
<1>2. c \in 0..n
  BY <1>0, <1>1 DEF StartsWith
<1>3. ASSUME NEW k, IsPadded(s, k) PROVE k = c
  <2>1. k \in 0..n /\ \A i \in 1..n : s[i] = IF i <= k THEN "b" ELSE "="
    BY <1>3 DEF IsPadded
  <2>2. "b" # "="
    OBVIOUS
  <2>3. c <= k
    <3> SUFFICES ASSUME k < c PROVE FALSE
      BY <1>2, <2>1
    <3>1. k + 1 \in 1..c /\ k + 1 \in 1..n
      BY <1>2, <2>1
    <3>2. s[k + 1] = "="
      BY <2>1, <3>1
    <3> QED BY <1>1, <3>1, <3>2
  <2>4. CASE Has(s, "=")
    <3>1. c + 1 \in 1..n /\ s[c + 1] = "="
      BY <1>0, <1>1, <2>4
    <3>2. ~(c + 1 <= k)
      BY <2>1, <2>2, <3>1
    <3> QED BY <1>2, <2>1, <2>3, <3>2
  <2>5. CASE ~Has(s, "=")
    <3>1. c = n
      BY <1>1, <2>5
    <3> QED BY <2>1, <2>3, <3>1
  <2> QED BY <2>4, <2>5
<1> HIDE DEF b, tail, n
<1>4. CASE Has(s, "=")
  <2>1. c < n /\ s[c + 1] = "=" /\ tail = SubSeq(s, c + 2, n)
    BY <1>1, <1>4
  <2> DEFINE p == c + 1
  <2>2. IsPart(s, p, n) /\ p + 1 = c + 2
    BY <1>0, <1>2, <2>1 DEF IsPart, n
  <2>3. tail = Slice(s, p, n)
    BY <2>1, <2>2 DEF Slice
  <2> HIDE DEF p
  <2>4. tail \in Seq(T) /\ Len(tail) = n - p
    BY <2>2, <2>3, SliceIs
  <2>5. \A i \in 1..(n - p) : tail[i] = s[p + i]
    BY <2>2, <2>3, SliceAt
  <2>6. Has(tail, "b") <=> \E i \in (c + 2)..n : s[i] = "b"
    <3>1. DOMAIN tail = 1..(n - p)
      BY <2>4
    <3>2. \A i \in (c + 2)..n : i - p \in 1..(n - p) /\ p + (i - p) = i
      BY <1>0, <1>2 DEF p
    <3>3. \A i \in 1..(n - p) : p + i \in (c + 2)..n
      BY <1>0, <1>2 DEF p
    <3>4. \A i \in (c + 2)..n : tail[i - p] = s[i]
      BY <2>5, <3>2
    <3> QED BY <2>5, <3>1, <3>2, <3>3, <3>4 DEF Has
  <2>7. clean /\ ~Has(tail, "b") <=> IsPadded(s, c)
    <3>1. ASSUME clean, ~Has(tail, "b"), NEW i \in 1..n PROVE s[i] = IF i <= c THEN "b" ELSE "="
      <4>1. s[i] \in {"b", "="}
        BY <1>0, <3>1
      <4>2. CASE i <= c
        BY <1>1, <1>2, <4>1, <4>2
      <4>3. CASE i = c + 1
        BY <1>2, <2>1, <4>3
      <4>4. CASE i > c + 1
        <5>1. i \in (c + 2)..n
          BY <1>0, <1>2, <4>4
        <5>2. s[i] # "b"
          BY <2>6, <3>1, <5>1
        <5> QED BY <1>2, <4>1, <4>4, <5>2
      <4> QED BY <1>2, <4>2, <4>3, <4>4
    <3>2. ASSUME IsPadded(s, c) PROVE clean /\ ~Has(tail, "b")
      <4>1. \A i \in 1..n : s[i] = IF i <= c THEN "b" ELSE "="
        BY <3>2 DEF IsPadded, n
      <4>2. clean
        BY <1>0, <4>1
      <4>3. \A i \in (c + 2)..n : i \in 1..n /\ ~(i <= c)
        BY <1>0, <1>2
      <4>4. \A i \in (c + 2)..n : s[i] = "="
        BY <4>1, <4>3
      <4>5. "b" # "="
        OBVIOUS
      <4> QED BY <2>6, <4>2, <4>4, <4>5
    <3> QED BY <1>2, <3>1, <3>2 DEF IsPadded, n
  <2>8. Len(tail) = n - c - 1
    BY <1>0, <1>2, <2>4 DEF p
  <2> QED BY <1>2, <1>3, <1>4, <2>1, <2>7, <2>8 DEF b, tail, n
<1>5. CASE ~Has(s, "=")
  <2>1. c = n
    BY <1>1, <1>5 DEF n
  <2>2. clean <=> IsPadded(s, c)
    <3>1. \A i \in 1..n : s[i] # "="
      BY <1>1, <2>1
    <3>2. \A i \in 1..n : i <= c
      BY <1>0, <2>1
    <3> QED BY <1>0, <1>2, <3>1, <3>2 DEF IsPadded, n
  <2> QED BY <1>2, <1>3, <1>5, <2>1, <2>2 DEF b, tail, n
<1> QED BY <1>4, <1>5

LEMMA JudgedIs ==
  ASSUME NEW T, NEW body, Compact(body) \in Seq(T), NEW complete \in BOOLEAN
  PROVE  /\ JudgeBase64(body, complete) \subseteq {"character", "length", "padding"}
         /\ JudgeBase64(body, complete) = {} <=>
              \E k : IsPadded(Compact(body), k) /\ IsCoded(k, Len(Compact(body)), complete)
<1> DEFINE s == Compact(body)
           n == Len(s)
           c == Len(Before(s, <<"=">>))
           tail == Behind(s, <<"=">>)
           r == c % 4
           clean == \A i \in DOMAIN s : s[i] \in {"b", "="}
           padded == r \in {2, 3} /\ ~Has(tail, "b") /\ r + 1 + Len(tail) = 4
           cutInside == ~complete /\ r = 2 /\ tail = <<>>
           judged == JudgeBase64(body, complete)
<1>1. judged = IF ~clean THEN {"character"}
               ELSE IF Has(s, "=") THEN (IF ~padded /\ ~cutInside THEN {"padding"} ELSE {})
               ELSE (IF complete /\ r = 1 THEN {"length"} ELSE {})
                      \cup (IF complete /\ r \in {2, 3} THEN {"padding"} ELSE {})
  <2>1. Alphabet \cup {"="} = {"b", "="}
    BY DEF Alphabet
  <2> QED BY <2>1, Zenon DEF JudgeBase64, Problems
<1>2. /\ c \in 0..n /\ n \in Nat
      /\ Has(s, "=") => c < n /\ Len(tail) = n - c - 1 /\ (clean /\ ~Has(tail, "b") <=> IsPadded(s, c))
      /\ ~Has(s, "=") => c = n /\ (clean <=> IsPadded(s, c))
      /\ \A k : IsPadded(s, k) => k = c
  <2>1. n \in Nat
    OBVIOUS
  <2> QED BY <2>1, PaddedIs, Zenon
<1>3. tail \in Seq(T)
  <2>1. Separates(<<"=">>)
    BY DEF Separates
  <2> QED BY <2>1, PartsAreTokens
<1> HIDE DEF s, n, c, tail, judged
<1>4. r \in 0..3
  BY <1>2
<1>5. tail = <<>> <=> Len(tail) = 0
  BY <1>3
<1>6. judged \subseteq {"character", "length", "padding"}
  BY <1>1
<1>7. (\E k : IsPadded(s, k) /\ IsCoded(k, n, complete)) <=> IsPadded(s, c) /\ IsCoded(c, n, complete)
  BY <1>2
<1> HIDE DEF r
<1>8. CASE Has(s, "=")
  <2>1. c < n /\ Len(tail) = n - c - 1 /\ (clean /\ ~Has(tail, "b") <=> IsPadded(s, c))
    BY <1>2, <1>8
  <2>2. judged = {} <=> clean /\ (padded \/ cutInside)
    BY <1>1, <1>8
  <2>3. tail = <<>> => ~Has(tail, "b")
    BY DEF Has
  <2>4. r + 1 + Len(tail) = 4 <=> n = c + 4 - r
    BY <1>2, <1>4, <2>1
  <2>5. tail = <<>> <=> n = c + 1
    BY <1>2, <1>5, <2>1
  <2>6. IsCoded(c, n, complete) <=> r \in {2, 3} /\ (n = c + 4 - r \/ (~complete /\ n = c + 1))
    BY <1>2, <2>1 DEF IsCoded, r
  <2>7. r = 3 /\ n = c + 1 => n = c + 4 - r
    BY <1>2
  <2>8. judged = {} <=> IsPadded(s, c) /\ IsCoded(c, n, complete)
    BY <1>4, <2>1, <2>2, <2>3, <2>4, <2>5, <2>6, <2>7
  <2> QED BY <1>6, <1>7, <2>8 DEF judged, s, n
<1>9. CASE ~Has(s, "=")
  <2>1. c = n /\ (clean <=> IsPadded(s, c))
    BY <1>2, <1>9
  <2>2. judged = {} <=> clean /\ ~(complete /\ r \in {1, 2, 3})
    BY <1>1, <1>9
  <2>3. IsCoded(c, n, complete) <=> (complete => r = 0)
    BY <2>1 DEF IsCoded, r
  <2>4. judged = {} <=> IsPadded(s, c) /\ IsCoded(c, n, complete)
    BY <1>4, <2>1, <2>2, <2>3
  <2> QED BY <1>6, <1>7, <2>4 DEF judged, s, n
<1> QED BY <1>8, <1>9

Coded(m, k) == [i \in 1..m |-> IF i <= k THEN "b" ELSE "="]

LEMMA CodedFields ==
  ASSUME NEW m \in Nat, NEW k \in Nat
  PROVE  /\ Coded(m, k) \in Seq({"b", "="}) /\ Len(Coded(m, k)) = m
         /\ \A i \in 1..m : Coded(m, k)[i] = IF i <= k THEN "b" ELSE "="
<1> DEFINE t == Coded(m, k)
<1>1. t \in [1..m -> {"b", "="}] /\ \A i \in 1..m : t[i] = IF i <= k THEN "b" ELSE "="
  BY DEF Coded
<1> HIDE DEF t
<1>2. t \in Seq({"b", "="}) /\ Len(t) = m
  BY <1>1
<1> QED BY <1>1, <1>2 DEF t

\* The well-formed texts of up to n tokens.
LEMMA CodedTexts ==
  ASSUME NEW n \in Nat, NEW t
  PROVE  t \in Base64Texts(n) <=> \E k \in Nat : k % 4 # 1 /\ Padded(k) <= n /\ t = Coded(Padded(k), k)
<1>1. ASSUME t \in Base64Texts(n)
      PROVE  \E k \in Nat : k % 4 # 1 /\ Padded(k) <= n /\ t = Coded(Padded(k), k)
  <2>1. (\E m \in 0..n : \E k \in 0..m : t = Coded(m, k)) /\ \E k \in 0..Len(t) : IsBase64(t, k)
    BY <1>1 DEF Base64Texts, Coded
  <2>2. PICK m \in 0..n : \E k \in 0..m : t = Coded(m, k)
    BY <2>1
  <2>3. Len(t) = m
    BY <2>2, CodedFields
  <2>4. PICK k \in 0..Len(t) : IsBase64(t, k)
    BY <2>1
  <2>5. k \in Nat /\ t = Coded(Padded(k), k) /\ k % 4 # 1
    BY <2>3, <2>4 DEF IsBase64, Coded, Padded
  <2>6. Len(t) = Padded(k)
    BY <2>5, CodedFields, PaddedLength
  <2> QED BY <2>3, <2>5, <2>6
<1>2. ASSUME NEW k \in Nat, k % 4 # 1, Padded(k) <= n, t = Coded(Padded(k), k)
      PROVE  t \in Base64Texts(n)
  <2> DEFINE m == Padded(k)
  <2>1. m \in Nat /\ k <= m /\ m <= n
    BY <1>2, PaddedLength
  <2>2. IsBase64(t, k)
    BY <1>2 DEF IsBase64, Coded, Padded
  <2> HIDE DEF m
  <2>3. Len(Coded(m, k)) = m
    BY <2>1, CodedFields
  <2>4. t = Coded(m, k) /\ Len(t) = m
    BY <1>2, <2>3 DEF m
  <2>5. m \in 0..n /\ k \in 0..m /\ k \in 0..Len(t)
    BY <2>1, <2>4
  <2> DEFINE texts(l) == {[i \in 1..l |-> IF i <= j THEN "b" ELSE "="] : j \in 0..l}
  <2>6. t \in texts(m)
    BY <2>4, <2>5 DEF Coded
  <2>7. Base64Texts(n) = {x \in UNION {texts(l) : l \in 0..n} : \E j \in 0..Len(x) : IsBase64(x, j)}
    BY Zenon DEF Base64Texts
  <2> HIDE DEF texts
  <2> QED BY <2>2, <2>5, <2>6, <2>7
<1> QED BY <1>1, <1>2

\* There is such a text that the given one is, or is the start of.
LEMMA AllowedIs ==
  ASSUME NEW T, NEW s, s \in Seq(T), NEW whole \in BOOLEAN
  PROVE  {t \in Base64Texts(Len(s) + 3) : IF whole THEN t = s ELSE IsPrefix(s, t)} # {}
           <=> \E k : IsPadded(s, k) /\ IsCoded(k, Len(s), whole)
<1> DEFINE n == Len(s)
           Fits(t) == IF whole THEN t = s ELSE IsPrefix(s, t)
<1>0. n \in Nat /\ n + 3 \in Nat
  OBVIOUS
<1>1. \A t : t \in Base64Texts(n + 3) <=> \E k \in Nat : k % 4 # 1 /\ Padded(k) <= n + 3 /\ t = Coded(Padded(k), k)
  BY <1>0, CodedTexts
<1>2. \A k \in Nat : /\ k % 4 \in 0..3 /\ Padded(k) \in Nat
                     /\ Padded(k) = IF k % 4 = 0 THEN k ELSE k + 4 - (k % 4)
                     /\ k % 4 = 1 => (k + 3) % 4 = 0
  BY PaddedLength
<1>3. ASSUME NEW k \in Nat
      PROVE  LET t == Coded(Padded(k), k)
             IN  /\ t = s <=> n = Padded(k) /\ \A i \in 1..n : s[i] = IF i <= k THEN "b" ELSE "="
                 /\ IsPrefix(s, t) <=> n <= Padded(k) /\ \A i \in 1..n : s[i] = IF i <= k THEN "b" ELSE "="
  <2> DEFINE m == Padded(k)
             t == Coded(m, k)
             U == {"b", "="}
  <2>0. m \in Nat
    BY <1>2
  <2> HIDE DEF m, U
  <2>1. t \in Seq(U) /\ Len(t) = m /\ \A i \in 1..m : t[i] = IF i <= k THEN "b" ELSE "="
    BY <2>0, CodedFields DEF U
  <2> HIDE DEF t
  <2>2. t = s <=> n = m /\ \A i \in 1..n : s[i] = t[i]
    <3>1. ASSUME n = m, \A i \in 1..n : s[i] = t[i] PROVE t = s
      BY <1>0, <2>1, <3>1
    <3> QED BY <2>1, <3>1
  <2>3. IsPrefix(s, t) <=> n <= m /\ SubSeq(s, 1, n) = SubSeq(t, 1, n)
    BY <2>1 DEF IsPrefix
  <2>4. ASSUME n <= m PROVE SubSeq(s, 1, n) = SubSeq(t, 1, n) <=> \A i \in 1..n : s[i] = t[i]
    <3> DEFINE p == SubSeq(s, 1, n)
               q == SubSeq(t, 1, n)
    <3>1. p \in Seq(T) /\ Len(p) = n /\ StartsWith(s, p)
      BY <1>0, SliceStarts
    <3>2. q \in Seq(U) /\ Len(q) = n /\ StartsWith(t, q)
      BY <1>0, <2>1, <2>4, SliceStarts
    <3> HIDE DEF p, q
    <3>3. \A i \in 1..n : p[i] = s[i] /\ q[i] = t[i]
      BY <3>1, <3>2 DEF StartsWith
    <3>4. (\A i \in 1..n : p[i] = q[i]) => p = q
      BY <1>0, <3>1, <3>2
    <3> QED BY <3>3, <3>4 DEF p, q
  <2>5. n <= m => \A i \in 1..n : t[i] = IF i <= k THEN "b" ELSE "="
    BY <1>0, <2>0, <2>1
  <2>6. n = m => n <= m
    BY <1>0
  <2>7. t = s <=> n = m /\ \A i \in 1..n : s[i] = IF i <= k THEN "b" ELSE "="
    BY <2>2, <2>5, <2>6
  <2>8. IsPrefix(s, t) <=> n <= m /\ \A i \in 1..n : s[i] = IF i <= k THEN "b" ELSE "="
    BY <2>3, <2>4, <2>5
  <2> QED BY <2>7, <2>8 DEF t, m
<1>4. ASSUME NEW t \in Base64Texts(n + 3), Fits(t)
      PROVE  \E k : IsPadded(s, k) /\ IsCoded(k, n, whole)
  <2>1. PICK k \in Nat : k % 4 # 1 /\ Padded(k) <= n + 3 /\ t = Coded(Padded(k), k)
    BY <1>1, <1>4
  <2>2. /\ IF whole THEN n = Padded(k) ELSE n <= Padded(k)
        /\ \A i \in 1..n : s[i] = IF i <= k THEN "b" ELSE "="
    BY <1>3, <1>4, <2>1
  <2>3. k % 4 \in {0, 2, 3} /\ Padded(k) = IF k % 4 = 0 THEN k ELSE k + 4 - (k % 4)
    <3> DEFINE r == k % 4
    <3>1. r \in 0..3
      BY <2>1, PaddedLength, Zenon
    <3>2. Padded(k) = IF k % 4 = 0 THEN k ELSE k + 4 - (k % 4)
      BY <2>1, PaddedLength
    <3>3. r # 1
      BY <2>1, Zenon
    <3> HIDE DEF r
    <3>4. r \in {0, 2, 3}
      BY <3>1, <3>3
    <3> QED BY <3>2, <3>4 DEF r
  <2> HIDE DEF n
  <2>4. CASE k <= n
    <3>1. IsPadded(s, k)
      BY <2>2, <2>4 DEF IsPadded, n
    <3>2. IsCoded(k, n, whole)
      BY <1>0, <2>2, <2>3, <2>4 DEF IsCoded
    <3> QED BY <3>1, <3>2
  <2>5. CASE k > n
    <3>1. \A i \in 1..n : i <= k /\ i <= n
      BY <1>0, <2>5
    <3>2. IsPadded(s, n)
      BY <1>0, <2>2, <3>1 DEF IsPadded, n
    <3>3. whole => FALSE
      BY <1>0, <2>2, <2>3, <2>5
    <3>4. IsCoded(n, n, whole)
      BY <3>3 DEF IsCoded
    <3> QED BY <3>2, <3>4
  <2> QED BY <1>0, <2>4, <2>5
<1>5. ASSUME NEW k, IsPadded(s, k), IsCoded(k, n, whole)
      PROVE  \E t \in Base64Texts(n + 3) : Fits(t)
  <2>1. k \in Nat /\ k <= n /\ \A i \in 1..n : s[i] = IF i <= k THEN "b" ELSE "="
    BY <1>0, <1>5 DEF IsPadded
  <2>2. k % 4 \in 0..3 /\ Padded(k) = IF k % 4 = 0 THEN k ELSE k + 4 - (k % 4)
    BY <1>2, <2>1
  <2>3. CASE k % 4 # 1
    <3>1. IF whole THEN n = Padded(k) ELSE n <= Padded(k)
      BY <1>0, <1>5, <2>1, <2>2, <2>3 DEF IsCoded
    <3>2. Padded(k) <= n + 3
      BY <1>0, <2>1, <2>2, <2>3
    <3>3. Fits(Coded(Padded(k), k))
      BY <1>3, <2>1, <3>1
    <3>4. Coded(Padded(k), k) \in Base64Texts(n + 3)
      BY <1>1, <2>1, <2>3, <3>2
    <3> QED BY <3>3, <3>4
  <2>4. CASE k % 4 = 1
    <3> DEFINE j == k + 3
    <3>1. k = n /\ ~whole
      BY <1>5, <2>4 DEF IsCoded
    <3>2. j % 4 = 0 /\ j \in Nat
      BY <1>2, <2>1, <2>4
    <3> HIDE DEF j
    <3>3. Padded(j) = j
      BY <1>2, <3>2
    <3>4. j = n + 3
      BY <3>1 DEF j
    <3>5. \A i \in 1..n : i <= k /\ i <= j
      BY <1>0, <3>1, <3>4
    <3>6. IsPrefix(s, Coded(Padded(j), j))
      <4>1. n <= Padded(j)
        BY <1>0, <3>3, <3>4
      <4>2. \A i \in 1..n : s[i] = IF i <= j THEN "b" ELSE "="
        BY <2>1, <3>5
      <4> QED BY <1>3, <3>2, <4>1, <4>2
    <3>7. Coded(Padded(j), j) \in Base64Texts(n + 3)
      <4>1. Padded(j) <= n + 3 /\ j % 4 # 1
        BY <1>0, <3>2, <3>3, <3>4
      <4> QED BY <1>1, <3>2, <4>1
    <3> QED BY <3>1, <3>6, <3>7
  <2> QED BY <2>3, <2>4
<1> QED BY <1>4, <1>5

\* The faults of a Base64 text, and that of a message that is too nested to be read.
Faults == {"character", "length", "padding", "nested"}

LEMMA ItemTells ==
  ASSUME NEW field, NEW value, NEW problems, NEW isFailed \in BOOLEAN, NEW i, i = Item(field, value, problems, isFailed)
  PROVE  /\ i.field = field /\ i.problems \cap Faults = problems \cap Faults
         /\ i.status = "ok" => problems = {} /\ ~isFailed
<1> DEFINE long == \E v \in value : Len(v) > PayloadLimit
           all == problems \cup Problems(long, "value cut")
           values == {SubSeq(v, 1, AtMost(Len(v), PayloadLimit)) : v \in value}
           told == IF isFailed THEN "failed" ELSE IF all # {} THEN "partial" ELSE "ok"
<1>1. i = [field |-> field, value |-> values, problems |-> all, status |-> told]
  BY Zenon DEF Item
<1>2. all = problems \/ all = problems \cup {"value cut"}
  BY Zenon DEF Problems
<1> HIDE DEF values, all
<1>3. i.field = field /\ i.problems = all /\ i.status = told
  BY <1>1
<1>4. all \cap Faults = problems \cap Faults /\ (all = {} => problems = {})
  BY <1>2 DEF Faults
<1>5. told = "ok" => all = {} /\ ~isFailed
  OBVIOUS
<1> QED BY <1>3, <1>4, <1>5

\* An item of a cut payload says so, unless it is of a message that is there as a whole.
LEMMA CutIsTold ==
  ASSUME NEW application, NEW payload, payload.cut
  PROVE  /\ \A i \in BodyItems(application, payload) \cup PayloadItems(payload) : i.status # "ok"
         /\ Places(payload.data, EndMarker) = {} => \A i \in MimeItems(payload) : i.status # "ok"
<1>1. ASSUME NEW i, NEW field, NEW value, NEW problems, NEW isFailed \in BOOLEAN,
             i = Item(field, value, problems, isFailed), problems # {} \/ isFailed
      PROVE  i.status # "ok"
  BY <1>1, ItemTells
<1>2. "payload cut" \in Problems(payload.cut, "payload cut")
  BY DEF Problems
<1>3. ASSUME NEW i \in BodyItems(application, payload) PROVE i.status # "ok"
  <2>1. PICK value, problems : i = Item("http.body", value, problems \cup Problems(payload.cut, "payload cut"), FALSE)
    BY <1>3, BodyGivesOneItem, Zenon
  <2>2. problems \cup Problems(payload.cut, "payload cut") # {} /\ FALSE \in BOOLEAN
    BY <1>2
  <2> QED BY <1>1, <2>1, <2>2, Zenon
<1>4. ASSUME NEW i \in PayloadItems(payload) PROVE i.status # "ok"
  <2>1. \/ i = Item("payload", {}, {"not hex"}, FALSE)
        \/ \E value, problems : i = Item("payload", value, problems \cup Problems(payload.cut, "payload cut"), FALSE)
    BY <1>4, ZenonT(40) DEF PayloadItems
  <2>2. \A problems : problems \cup Problems(payload.cut, "payload cut") # {}
    BY <1>2
  <2>3. {"not hex"} # {} /\ FALSE \in BOOLEAN
    OBVIOUS
  <2>4. \E value, problems : problems # {} /\ i = Item("payload", value, problems, FALSE)
    BY <2>1, <2>2, <2>3, Zenon
  <2> QED BY <1>1, <2>3, <2>4
<1>5. ASSUME Places(payload.data, EndMarker) = {}, NEW i \in MimeItems(payload) PROVE i.status # "ok"
  <2> DEFINE reason == {"payload cut"}
             complete == Places(payload.data, EndMarker) # {}
             mail == Frame(payload.data)
  <2>1. i \in MessageItems(mail, complete, reason)
    BY <1>5, Zenon DEF MimeItems
  <2> HIDE DEF mail, complete
  <2>2. ASSUME NEW body, NEW problems, i \in Leaf(body, problems, reason) PROVE i.status # "ok"
    <3>1. \/ i = Item("mime", {}, problems, TRUE)
          \/ i = Item("mime", {Base64Value(body)}, problems \cup reason, FALSE)
      BY <2>2, Zenon DEF Leaf
    <3>2. problems \cup reason # {} /\ FALSE \in BOOLEAN /\ TRUE \in BOOLEAN
      OBVIOUS
    <3> HIDE DEF reason
    <3>3. CASE i = Item("mime", {}, problems, TRUE)
      BY <1>1, <3>3, Zenon
    <3>4. CASE i = Item("mime", {Base64Value(body)}, problems \cup reason, FALSE)
      BY <1>1, <3>2, <3>4, Zenon
    <3> QED BY <3>1, <3>3, <3>4
  <2>3. ASSUME NEW parts, i \in PartItems(parts, complete, reason) PROVE i.status # "ok"
    <3>1. \/ \E n \in 1..AtMost(Len(parts), MaxParts) : i \in LeafItems(parts[n], complete, reason)
          \/ i = Item("mime", {}, {"parts"}, FALSE)
      BY <2>3 DEF PartItems
    <3>2. {"parts"} # {} /\ FALSE \in BOOLEAN
      OBVIOUS
    <3>3. i = Item("mime", {}, {"parts"}, FALSE) => i.status # "ok"
      BY <1>1, <3>2, Zenon
    <3> QED BY <2>2, <3>1, <3>3 DEF LeafItems
  <2>4. \/ i = Item("mime", {}, {"malformed headers"}, FALSE)
        \/ i = Item("mime", {}, {"nested"}, FALSE)
        \/ i \in PartItems(Parts(mail), complete, reason)
    BY <2>1, Zenon DEF MessageItems
  <2>5. {"malformed headers"} # {} /\ {"nested"} # {} /\ FALSE \in BOOLEAN
    OBVIOUS
  <2>6. i = Item("mime", {}, {"malformed headers"}, FALSE) \/ i = Item("mime", {}, {"nested"}, FALSE) => i.status # "ok"
    BY <1>1, <2>5, Zenon
  <2> QED BY <2>3, <2>4, <2>6
<1> QED BY <1>3, <1>4, <1>5

\* The one part of a message whose header block says Base64 and no more is the body.
OnlyBase64(mail) == HeaderBlock(mail) = <<"base64">>

LEMMA NestedIsBehind ==
  ASSUME NEW T, NEW mail, mail \in Seq(T), OnlyBase64(mail), NEW i \in 1..Len(mail), mail[i] = "multipart"
  PROVE  LET behind == Behind(mail, CRLF \o CRLF) IN \E k \in 1..Len(behind) : behind[k] = "multipart"
<1> DEFINE w == CRLF \o CRLF
           m == FirstPlace(mail, w)
           n == Len(mail)
<1>1. Separates(w) /\ Len(w) = 4 /\ w[1] = "CR" /\ w[2] = "LF" /\ w[3] = "CR" /\ w[4] = "LF"
  BY DEF Separates, CRLF
<1>2. Before(mail, w) = <<"base64">> /\ n \in Nat
  BY DEF OnlyBase64, HeaderBlock
<1> HIDE DEF w
<1>3. Places(mail, w) # {}
  <2> SUFFICES ASSUME Places(mail, w) = {} PROVE FALSE
    OBVIOUS
  <2>1. mail = <<"base64">>
    BY <1>2 DEF Before
  <2>2. i = 1 /\ mail[1] = "base64"
    BY <2>1
  <2> QED BY <2>2
<1>4. m \in Places(mail, w) /\ m \in 1..n /\ m + 4 - 1 <= n
  BY <1>1, <1>3, PlaceIs
<1>5. Before(mail, w) = SubSeq(mail, 1, m - 1) /\ Behind(mail, w) = SubSeq(mail, m + 4, n)
  BY <1>1, <1>3 DEF Before, Behind
<1> HIDE DEF m
<1>60. \A k \in 1..Len(w) : w[k] = mail[m + k - 1]
  <2>1. m \in Places(mail, w) /\ Separates(w)
    BY <1>1, <1>4
  <2> HIDE DEF OnlyBase64
  <2>2. \A j \in Places(mail, w) : \A k \in 1..Len(w) : w[k] = mail[j + k - 1]
    BY <2>1, SeparatorAt
  <2> QED BY <2>1, <2>2
<1>6. \A k \in 1..4 : w[k] = mail[m + k - 1]
  BY <1>1, <1>60
<1>7. m = 2 /\ mail[1] = "base64"
  <2> DEFINE l == m - 1
             b == SubSeq(mail, 1, l)
  <2>1. l \in Nat /\ l <= Len(mail)
    BY <1>2, <1>4
  <2> HIDE DEF l
  <2>2. Len(b) = l /\ StartsWith(mail, b)
    BY <2>1, SliceStarts
  <2>3. b = <<"base64">>
    BY <1>2, <1>5 DEF l
  <2> HIDE DEF b
  <2>4. Len(b) = 1 /\ b[1] = "base64" /\ 1 \in 1..Len(b)
    BY <2>3
  <2>5. mail[1] = "base64"
    BY <2>2, <2>4 DEF StartsWith
  <2>6. l = 1
    BY <2>2, <2>4
  <2>7. m = 2
    BY <1>2, <1>4, <2>6 DEF l
  <2> QED BY <2>5, <2>7
<1>8. i >= 6
  <2>1. mail[2] = "CR" /\ mail[3] = "LF" /\ mail[4] = "CR" /\ mail[5] = "LF"
    <3>1. w[1] = mail[2 + 1 - 1] /\ w[2] = mail[2 + 2 - 1] /\ w[3] = mail[2 + 3 - 1] /\ w[4] = mail[2 + 4 - 1]
      BY <1>6, <1>7
    <3> QED BY <1>1, <3>1
  <2>2. i # 1 /\ i # 2 /\ i # 3 /\ i # 4 /\ i # 5
    BY <1>7, <2>1
  <2> QED BY <1>2, <2>2
<1> DEFINE behind == Behind(mail, w)
<1>9. IsPart(mail, 5, n) /\ 5 + 1 = 6
  BY <1>2, <1>4, <1>7 DEF IsPart
<1>10. behind = Slice(mail, 5, n)
  BY <1>5, <1>7, <1>9 DEF Slice
<1> HIDE DEF behind
<1>11. Len(behind) = n - 5
  BY <1>9, <1>10, SliceIs
<1>12. \A k \in 1..(n - 5) : behind[k] = mail[5 + k]
  BY <1>9, <1>10, SliceAt
<1>13. i - 5 \in 1..(n - 5) /\ 5 + (i - 5) = i
  BY <1>2, <1>8
<1>14. behind[i - 5] = "multipart" /\ i - 5 \in 1..Len(behind)
  BY <1>11, <1>12, <1>13
<1> QED BY <1>14 DEF behind, w

\* A message whose header block says Base64 and no more: its item has a fault exactly when its body is no Base64
\* text, or no start of one.
LEMMA MimeTellsFaults ==
  ASSUME NEW T, NEW payload, payload.data \in Seq(T), OnlyBase64(Frame(payload.data))
  PROVE  LET whole == Places(payload.data, EndMarker) # {}
             body == Compact(Behind(Frame(payload.data), CRLF \o CRLF))
             allowed == {s \in Base64Texts(Len(body) + 3) : IF whole THEN s = body ELSE IsPrefix(body, s)}
         IN  \A i \in MimeItems(payload) : i.problems \cap Faults = {} <=> allowed # {}
<1> DEFINE mail == Frame(payload.data)
           whole == Places(payload.data, EndMarker) # {}
           behind == Behind(mail, CRLF \o CRLF)
           body == Compact(behind)
           allowed == {s \in Base64Texts(Len(body) + 3) : IF whole THEN s = body ELSE IsPrefix(body, s)}
           reason == IF whole THEN {} ELSE IF payload.cut THEN {"payload cut"} ELSE {"continues"}
           well == \E k : IsPadded(body, k) /\ IsCoded(k, Len(body), whole)
<1>0. ASSUME NEW i, NEW field, NEW value, NEW problems, NEW isFailed \in BOOLEAN,
             i = Item(field, value, problems, isFailed)
      PROVE  i.problems \cap Faults = problems \cap Faults
  BY <1>0, ItemTells
<1>1. mail \in Seq(T)
  BY FrameIsText
<1>2. Separates(CRLF \o CRLF)
  BY DEF Separates, CRLF
<1>3. OnlyBase64(mail) /\ whole \in BOOLEAN
  OBVIOUS
<1>4. MimeItems(payload) = MessageItems(mail, whole, reason)
  BY Zenon DEF MimeItems
<1>5. reason \cap Faults = {}
  BY DEF Faults
<1> HIDE DEF mail, whole, reason
<1>6. behind \in Seq(T)
  BY <1>1, <1>2, PartsAreTokens
<1> HIDE DEF behind
<1>7. body \in Seq(T) /\ \A i \in 1..Len(behind) : behind[i] \notin Blanks => Has(body, behind[i])
  BY <1>6, CompactKeeps
<1>8. allowed # {} <=> well
  <2> HIDE DEF body
  <2> QED BY <1>3, <1>7, AllowedIs
<1>9. /\ JudgeBase64(behind, whole) \subseteq {"character", "length", "padding"}
      /\ JudgeBase64(behind, whole) = {} <=> well
  BY <1>3, <1>7, JudgedIs
<1> DEFINE judged == JudgeBase64(behind, whole)
           deep == {i \in DOMAIN mail : mail[i] = "multipart"}
<1>10. MessageItems(mail, whole, reason) =
         IF Cardinality(deep) > MaxNesting THEN {Item("mime", {}, {"nested"}, FALSE)}
         ELSE PartItems(<<behind>>, whole, reason)
  <2> DEFINE head == HeaderBlock(mail)
  <2>1. head = <<"base64">>
    BY <1>3 DEF OnlyBase64
  <2>2. Has(head, "base64") /\ ~Has(head, "bad charset") /\ ~Has(head, "multipart")
    <3> DEFINE only == <<"base64">>
    <3>1. DOMAIN only = {1} /\ only[1] = "base64"
      OBVIOUS
    <3> HIDE DEF only, head
    <3>2. \A x : Has(only, x) <=> x = "base64"
      BY <3>1 DEF Has
    <3>3. head = only
      BY <2>1 DEF only
    <3>4. "bad charset" # "base64" /\ "multipart" # "base64"
      BY Zenon
    <3> QED BY <3>2, <3>3, <3>4, Zenon
  <2>3. Parts(mail) = <<behind>>
    BY <2>2, Zenon DEF Parts, behind
  <2> HIDE DEF head
  <2>4. MessageItems(mail, whole, reason) =
          IF Has(head, "bad charset") THEN {Item("mime", {}, {"malformed headers"}, FALSE)}
          ELSE IF ~Has(head, "base64") /\ ~Has(head, "multipart") THEN {}
          ELSE IF Cardinality(deep) > MaxNesting THEN {Item("mime", {}, {"nested"}, FALSE)}
          ELSE PartItems(Parts(mail), whole, reason)
    BY Zenon DEF MessageItems, head
  <2> QED BY <2>2, <2>3, <2>4, Zenon
<1>11. PartItems(<<behind>>, whole, reason) = Leaf(behind, judged, reason)
  <2> DEFINE parts == <<behind>>
             items1(i) == LeafItems(parts[i], whole, reason)
  <2>1. Len(parts) = 1 /\ parts[1] = behind
    OBVIOUS
  <2>2. AtMost(Len(parts), MaxParts) = 1 /\ ~(Len(parts) > MaxParts)
    BY <2>1, DecoderLimits DEF AtMost
  <2>3. PartItems(parts, whole, reason) = UNION {items1(i) : i \in 1..1}
    BY <2>2, SMT DEF PartItems
  <2>4. 1..1 = {1}
    OBVIOUS
  <2> HIDE DEF items1
  <2>5. UNION {items1(i) : i \in 1..1} = items1(1)
    BY <2>4
  <2> QED BY <2>1, <2>3, <2>5, Zenon DEF items1, LeafItems
<1> HIDE DEF body, allowed, well
<1>12. ASSUME NEW i \in Leaf(behind, judged, reason) PROVE i.problems \cap Faults = judged
  <2>1. \/ i = Item("mime", {}, judged, TRUE)
        \/ i = Item("mime", {Base64Value(behind)}, judged \cup reason, FALSE)
    BY <1>12, Zenon DEF Leaf
  <2>2. TRUE \in BOOLEAN /\ FALSE \in BOOLEAN
    OBVIOUS
  <2>3. \/ i.problems \cap Faults = judged \cap Faults
        \/ i.problems \cap Faults = (judged \cup reason) \cap Faults
    BY <1>0, <2>1, <2>2, Zenon
  <2>4. judged \cap Faults = judged
    BY <1>9 DEF Faults
  <2> HIDE DEF judged
  <2>5. (judged \cup reason) \cap Faults = judged
    BY <1>5, <2>4
  <2> QED BY <2>3, <2>4, <2>5
<1>13. CASE ~(Cardinality(deep) > MaxNesting)
  <2> SUFFICES ASSUME NEW i \in MimeItems(payload) PROVE i.problems \cap Faults = {} <=> allowed # {}
    BY DEF allowed, body, behind, mail, whole
  <2>1. i \in Leaf(behind, judged, reason)
    BY <1>4, <1>10, <1>11, <1>13, Zenon
  <2> QED BY <1>8, <1>9, <1>12, <2>1
<1>14. CASE Cardinality(deep) > MaxNesting
  <2> SUFFICES ASSUME NEW i \in MimeItems(payload) PROVE i.problems \cap Faults = {} <=> allowed # {}
    BY DEF allowed, body, behind, mail, whole
  <2>1. i = Item("mime", {}, {"nested"}, FALSE)
    BY <1>4, <1>10, <1>14, Zenon
  <2>2. i.problems \cap Faults = {"nested"} \cap Faults
    <3>1. FALSE \in BOOLEAN
      OBVIOUS
    <3> QED BY <1>0, <2>1, <3>1, Zenon
  <2>3. i.problems \cap Faults # {}
    BY <2>2 DEF Faults
  <2>4. deep # {}
    <3> DEFINE c == Cardinality(deep)
    <3>1. c > MaxNesting
      BY <1>14
    <3>2. deep = {} => c = 0
      BY FS_EmptySet, Zenon
    <3> HIDE DEF c, deep
    <3> QED BY <3>1, <3>2, DecoderLimits
  <2>5. PICK k \in 1..Len(mail) : mail[k] = "multipart"
    BY <1>1, <2>4
  <2>6. PICK j \in 1..Len(behind) : behind[j] = "multipart"
    BY <1>1, <1>3, <2>5, NestedIsBehind, Zenon DEF behind
  <2>7. "multipart" \notin Blanks
    BY Zenon DEF Blanks
  <2>8. Has(body, "multipart")
    BY <1>7, <2>6, <2>7
  <2>9. ~well
    <3> SUFFICES ASSUME NEW l, IsPadded(body, l) PROVE FALSE
      BY DEF well
    <3>1. \A p \in 1..Len(body) : body[p] \in {"b", "="}
      BY DEF IsPadded
    <3>2. DOMAIN body = 1..Len(body)
      BY <1>7
    <3> QED BY <2>8, <3>1, <3>2 DEF Has
  <2> QED BY <1>8, <2>3, <2>9
<1> QED BY <1>13, <1>14

\* What these items and errors tell of a payload.
LossTold(payload, protocol, decoded, errors) ==
  LET whole == Places(payload.data, EndMarker) # {}
      body == Compact(Behind(Frame(payload.data), CRLF \o CRLF))
      allowed == {s \in Base64Texts(Len(body) + 3) : IF whole THEN s = body ELSE IsPrefix(body, s)}
  IN  /\ payload.cut /\ protocol # "DNS" =>
           /\ LimitError \in errors
           /\ \A i \in decoded : i.status = "ok" => i.field = "http.target" \/ (i.field = "mime" /\ whole)
      /\ OnlyBase64(Frame(payload.data)) =>
           \A i \in {x \in decoded : x.field = "mime"} : (i.problems \cap Faults = {}) = (allowed # {})

PayloadRead(r) == \A text \in r.hex \cup r.preview : AreTokens(text)

LEMMA DataIsText ==
  ASSUME NEW r, PayloadRead(r)
  PROVE  AreTokens(ReadPayload(r).data)
<1> DEFINE texts == IF r.hex # {} THEN r.hex ELSE r.preview
           s == CHOOSE x \in texts : TRUE
           data == SubSeq(s, 1, AtMost(Len(s), PayloadLimit))
<1>1. ReadPayload(r).data = <<>> \/ (texts # {} /\ ReadPayload(r).data = data)
  BY DEF ReadPayload
<1>2. AreTokens(<<>>)
  <2>1. <<>> \in Seq({})
    OBVIOUS
  <2> QED BY <2>1, TokensAre
<1>3. ASSUME texts # {} PROVE AreTokens(data)
  <2>1. s \in texts
    BY <1>3
  <2>2. AreTokens(s)
    BY <2>1 DEF PayloadRead
  <2> HIDE DEF s
  <2>3. AtMost(Len(s), PayloadLimit) \in 0..Len(s)
    <3>1. s \in Seq(Range(s))
      BY <2>2 DEF AreTokens
    <3> QED BY <3>1, DecoderLimits DEF AtMost
  <2> QED BY <2>2, <2>3, CutIsTokens
<1> QED BY <1>1, <1>2, <1>3

LEMMA DecodingTells ==
  ASSUME NEW r, PayloadRead(r)
  PROVE  LossTold(ReadPayload(r), r.protocol, Decode(r).decoded, Decode(r).errors)
<1> DEFINE payload == ReadPayload(r)
           data == payload.data
           whole == Places(data, EndMarker) # {}
           body == Compact(Behind(Frame(data), CRLF \o CRLF))
           allowed == {s \in Base64Texts(Len(body) + 3) : IF whole THEN s = body ELSE IsPrefix(body, s)}
           absent == [target |-> {}, media |-> "", compressed |-> FALSE, bodyComplete |-> TRUE]
           object == IF r.application = {} THEN absent ELSE CHOOSE a \in r.application : TRUE
           decoded == Decode(r).decoded
           errors == Decode(r).errors
<1>1. AreTokens(data)
  BY DataIsText
<1>2. \/ r.protocol = "DNS" /\ decoded = {}
      \/ /\ r.protocol # "DNS" /\ decoded = ItemsOfRecord(r, payload)
         /\ errors = IF payload.cut THEN {LimitError} ELSE {}
  BY DEF Decode, DecodeResult
<1> HIDE DEF payload, decoded, errors, object
<1>3. \A i \in ItemsOfRecord(r, payload) :
        \/ i \in TargetItems(object) \/ i \in BodyItems(object, payload) \/ i \in PayloadItems(payload)
        \/ i \in MimeItems(payload)
  BY DEF ItemsOfRecord, object
<1>4. /\ \A i \in TargetItems(object) : i.field = "http.target"
      /\ \A i \in BodyItems(object, payload) : i.field = "http.body"
      /\ \A i \in PayloadItems(payload) : i.field = "payload"
      /\ \A i \in MimeItems(payload) : i.field = "mime"
  BY FieldsOfItems
<1>5. ASSUME payload.cut, r.protocol # "DNS"
      PROVE  /\ LimitError \in errors
             /\ \A i \in decoded : i.status = "ok" => i.field = "http.target" \/ (i.field = "mime" /\ whole)
  <2>1. LimitError \in errors
    BY <1>2, <1>5
  <2>2. /\ \A i \in BodyItems(object, payload) \cup PayloadItems(payload) : i.status # "ok"
        /\ ~whole => \A i \in MimeItems(payload) : i.status # "ok"
    BY <1>5, CutIsTold, Zenon DEF data, whole
  <2> HIDE DEF whole
  <2>3. decoded = ItemsOfRecord(r, payload)
    BY <1>2, <1>5
  <2> QED BY <1>3, <1>4, <2>1, <2>2, <2>3
<1>6. ASSUME OnlyBase64(Frame(data)), NEW i \in decoded, i.field = "mime"
      PROVE  (i.problems \cap Faults = {}) = (allowed # {})
  <2>1. i \in MimeItems(payload)
    <3>1. "http.body" # "mime" /\ "payload" # "mime" /\ "http.target" # "mime"
      OBVIOUS
    <3> QED BY <1>2, <1>3, <1>4, <1>6, <3>1
  <2>2. payload.data \in Seq(Range(payload.data))
    BY <1>1, Zenon DEF AreTokens, data
  <2>3. i.problems \cap Faults = {} <=> allowed # {}
    BY <1>6, <2>1, <2>2, MimeTellsFaults, Zenon DEF allowed, body, whole, data
  <2> QED BY <2>3, Zenon
<1> QED BY <1>5, <1>6, Zenon DEF LossTold, payload, data, whole, body, allowed, decoded, errors

-------------------------------------------------------------------------------
\* The payload of a record is text, from its source to the output.

LEMMA EventsHoldPayloads ==
  ASSUME NEW p \in Packets, NEW fails, NEW pol, NEW e \in PipelineProcess(p, fails, pol)
  PROVE  AreTokens(e.payload.units)
<1>1. CASE "envelope" \in fails
  <2>1. e = MalformedEvent
    BY <1>1 DEF PipelineProcess
  <2>2. e.payload.units = <<>> /\ <<>> \in Seq({})
    BY <2>1 DEF MalformedEvent, Empty
  <2> QED BY <2>2, TokensAre
<1>2. CASE "envelope" \notin fails
  <2> DEFINE net == NetworkStage(p, fails)
             part == TransportStage(p, net, fails)
             base == [MalformedEvent EXCEPT !.time = p.time, !.network = net.network]
  <2>1. e = DetectorStage(base, part, fails)
    BY <1>2 DEF PipelineProcess, BuildEvent
  <2>2. IsBase(base) /\ AreTokens(part.payload.units)
    BY PayloadIsText DEF IsBase, MalformedEvent
  <2> HIDE DEF part, base
  <2>3. \A d, application : LET a == Assembled(base, part, d, application)
                            IN  IsBase(a) /\ a.payload = part.payload
    BY <2>2, AssembledFields
  <2>4. ASSUME NEW a, NEW at, IsBase(a) PROVE Marred(a, at).payload = a.payload
    <3>1. "payload" \in DOMAIN a \ {"status", "errors"}
      BY <2>4 DEF IsBase, MalformedEvent
    <3> QED BY <2>4, <3>1, MarredFields
  <2>5. \/ \E d, application : e = Assembled(base, part, d, application)
        \/ \E d, at : e = Marred(Assembled(base, part, d, {}), at)
    BY <2>1, Zenon DEF DetectorStage, ApplicationStage
  <2>6. e.payload = part.payload
    BY <2>3, <2>4, <2>5
  <2> QED BY <2>2, <2>6
<1> QED BY <1>1, <1>2

LEMMA PayloadsOfEvents ==
  ASSUME NEW e, AreTokens(e.payload.units)
  PROVE  PayloadRead(ToRecord(e))
<1> DEFINE text == TextOf(e.payload)
           FirstOf(limit) == SubSeq(text, 1, AtMost(Len(text), limit))
           r == ToRecord(e)
<1>1. AreTokens(text)
  <2> DEFINE units == e.payload.units
             f == [i \in DOMAIN units |-> Character(units[i])]
  <2>1. text = units \/ text = f
    BY DEF TextOf
  <2>2. AreTokens(f)
    <3>1. DOMAIN f = DOMAIN units /\ f = [i \in DOMAIN f |-> f[i]]
      OBVIOUS
    <3>2. units \in Seq(Range(units))
      BY DEF AreTokens
    <3> HIDE DEF f, units
    <3> QED BY <3>1, <3>2, MappedIsTokens
  <2> HIDE DEF text, f
  <2> QED BY <2>1, <2>2
<1> HIDE DEF text
<1>2. ASSUME NEW limit \in Nat PROVE AreTokens(FirstOf(limit))
  <2>1. text \in Seq(Range(text))
    BY <1>1 DEF AreTokens
  <2>2. AtMost(Len(text), limit) \in 0..Len(text)
    BY <2>1 DEF AtMost
  <2> QED BY <1>1, <2>2, CutIsTokens
<1> HIDE DEF FirstOf
<1>3. r.hex \subseteq {FirstOf(PayloadLimit)} /\ r.preview = {FirstOf(PreviewBytes)}
  BY DEF ToRecord, NotEnriched, FirstOf, text
<1> HIDE DEF r
<1>4. PayloadLimit \in Nat /\ PreviewBytes \in Nat
  BY DecoderLimits, ReplayBound
<1> QED BY <1>2, <1>3, <1>4 DEF PayloadRead, r

LEMMA RecordStaysRead ==
  ASSUME EInv, EventInv', [Next]_vars, PayloadRead(record), PayloadRead(output)
  PROVE  PayloadRead(record')
<1>1. PayloadRead(SourceOnly)
  BY DEF PayloadRead, SourceOnly, NotEnriched
<1>2. \A r \in GivenRecords : PayloadRead(r)
  BY <1>1, RecordsHoldTexts DEF GivenRecords, PayloadRead
<1>3. \A p \in Packets : \A fails, pol : \A e \in PipelineProcess(p, fails, pol) : PayloadRead(ToRecord(e))
  BY EventsHoldPayloads, PayloadsOfEvents
<1> QED BY <1>2, <1>3, RecordComesFrom

\* Nothing in the enricher writes the payload of a record.
LEMMA PayloadStays ==
  ASSUME DOMAIN output = OutputFields, EnricherNext
  PROVE  \A f \in {"hex", "preview"} : output'[f] = output[f] \/ output'[f] = {}
<1>1. {"hex", "preview"} \subseteq OutputFields /\ {"hex", "preview"} \cap DOMAIN Defaults = {}
  BY TheFields
<1>2. ASSUME NEW at \in DOMAIN StageFields, NEW wrote \in SUBSET StageFields[at]
      PROVE  \A f \in {"hex", "preview"} : Fail(output, at, wrote)[f] = output[f]
  <2>1. {"hex", "preview"} \cap StageFields[at] = {}
    BY DEF StageFields
  <2> QED BY <1>1, <2>1, FailFields
<1>3. CASE RunDecoder
  BY <1>1, <1>3 DEF RunDecoder
<1>4. CASE DecoderFails
  <2>1. PICK wrote \in SUBSET StageFields["decoder"] : output' = Fail(output, "decoder", wrote)
    BY <1>4 DEF DecoderFails
  <2>2. "decoder" \in DOMAIN StageFields
    BY DEF StageFields
  <2> QED BY <1>2, <2>1, <2>2
<1>5. CASE RunPreprocessor
  <2>1. output' = With(output, Preprocess(output))
    BY <1>5 DEF RunPreprocessor
  <2>2. DOMAIN Preprocess(output) = {"preprocessStatus", "action", "reason", "view"}
    BY PreprocessView DEF StageFields
  <2> QED BY <1>1, <2>1, <2>2, WithFields
<1>6. CASE PreprocessorFails
  <2>1. PICK wrote \in SUBSET StageFields["preprocessor"] :
          output' = [Fail(output, "preprocessor", wrote) EXCEPT !.reason = "preprocessor failed"]
    BY <1>6 DEF PreprocessorFails
  <2>2. "preprocessor" \in DOMAIN StageFields
    BY DEF StageFields
  <2> DEFINE out == Fail(output, "preprocessor", wrote)
  <2>3. DOMAIN out = OutputFields /\ \A f \in {"hex", "preview"} : out[f] = output[f]
    BY <1>2, <2>2, FailFields
  <2> HIDE DEF out
  <2>4. output' = [out EXCEPT !.reason = "preprocessor failed"]
    BY <2>1 DEF out
  <2> QED BY <1>1, <2>3, <2>4
<1>7. CASE Drop \/ Pass \/ Write
  BY <1>7 DEF Drop, Pass, Write
<1>8. CASE Track
  BY <1>1, <1>8 DEF Track
<1>9. CASE TrackerFails
  <2>1. PICK wrote \in SUBSET StageFields["flow"] : output' = Fail(output, "flow", wrote)
    BY <1>9 DEF TrackerFails
  <2>2. "flow" \in DOMAIN StageFields
    BY DEF StageFields
  <2> QED BY <1>2, <2>1, <2>2
<1>10. CASE Refuse
  <2> DEFINE base == IF refused = 0 THEN With(output, Defaults) ELSE SourceOnly
  <2>1. output' = [base EXCEPT !.reason = "record could not be written", !.processingErrors = {Exception("output")}]
    BY <1>10 DEF Refuse, Fallback
  <2>2. DOMAIN base = OutputFields /\ \A f \in {"hex", "preview"} : base[f] = output[f] \/ base[f] = {}
    <3>1. SourceOnly.hex = {} /\ SourceOnly.preview = {}
      BY DEF SourceOnly, NotEnriched, Defaults
    <3>2. /\ DOMAIN With(output, Defaults) = OutputFields
          /\ \A f \in {"hex", "preview"} : With(output, Defaults)[f] = output[f]
      BY <1>1, WithFields
    <3> QED BY <3>1, <3>2 DEF OutputFields
  <2> HIDE DEF base
  <2> QED BY <1>1, <2>1, <2>2
<1> QED BY <1>3, <1>4, <1>5, <1>6, <1>7, <1>8, <1>9, <1>10 DEF EnricherNext

\* The invariant: the payload that the decoder reads is text, whatever round the record is in.
LossInv == CostsInv /\ EventInv /\ PayloadRead(record) /\ PayloadRead(output)

LEMMA LossStarts == Init => LossInv
<1> SUFFICES ASSUME Init PROVE LossInv
  OBVIOUS
<1>1. record = SourceOnly /\ output = SourceOnly
  BY DEF Init
<1>2. PayloadRead(SourceOnly)
  BY DEF PayloadRead, SourceOnly, NotEnriched
<1> QED BY <1>1, <1>2, CostsStart, EventStarts DEF LossInv

LEMMA LossStays == LossInv /\ [Next]_vars => LossInv'
<1> SUFFICES ASSUME LossInv, [Next]_vars PROVE LossInv'
  OBVIOUS
<1>1. CostsInv /\ EInv /\ EventInv /\ DOMAIN output = OutputFields
  BY DEF LossInv, CostsInv, EInv
<1>2. CostsInv' /\ EventInv'
  BY <1>1, CostsStepKeeps, EventStepKeeps
<1>3. PayloadRead(record')
  BY <1>1, <1>2, RecordStaysRead DEF LossInv
<1>4. PayloadRead(output')
  <2>1. ASSUME NEW r, NEW errors, DOMAIN r = OutputFields, Begin(r, errors) PROVE PayloadRead(output')
    <3>1. record' = r /\ output' = Fresh(r, errors)
      BY <2>1 DEF Begin
    <3> DEFINE clean == With(r, Defaults)
    <3>2. clean.hex = r.hex /\ clean.preview = r.preview /\ DOMAIN clean = OutputFields
      BY <2>1, WithFields, TheFields
    <3> HIDE DEF clean
    <3>3. output'.hex = r.hex /\ output'.preview = r.preview
      BY <3>1, <3>2, TheFields DEF Fresh, clean
    <3> QED BY <1>3, <3>1, <3>3 DEF PayloadRead
  <2>2. CASE EnricherNext
    <3>1. /\ output'.hex = output.hex \/ output'.hex = {}
          /\ output'.preview = output.preview \/ output'.preview = {}
      BY <1>1, <2>2, PayloadStays
    <3> QED BY <3>1 DEF LossInv, PayloadRead
  <2>3. CASE output' = output
    BY <2>3 DEF LossInv
  <2> QED BY <1>1, <2>1, <2>2, <2>3, StepsOfPath
<1> QED BY <1>2, <1>3, <1>4 DEF LossInv

\* decode_record and decode_mime: whatever record or packet the payload comes from, an item without a problem
\* lost nothing to a cut, a cut payload is among the errors, and a Base64 body is said to be faulty exactly when
\* it is no Base64 text, or, where the message goes on, cannot be the start of one.
THEOREM LossesAreTold == Spec => []DecodingTellsLoss
<1>1. LossInv => DecodingTellsLoss
  <2> SUFFICES ASSUME LossInv, stage = "preprocessor", "decoder" \notin failed
               PROVE  LossTold(ReadPayload(output), output.protocol, output.decoded, output.processingErrors)
    BY Zenon DEF DecodingTellsLoss, LossTold, OnlyBase64, Faults
  <2>1. Told
    BY DEF LossInv, CostsInv
  <2> DEFINE decoded == Decode(Cleaned).decoded
             errors == Decode(Cleaned).errors
  <2>2. /\ output.hex = Cleaned.hex /\ output.preview = Cleaned.preview /\ output.payloadLen = Cleaned.payloadLen
        /\ output.protocol = Cleaned.protocol
    BY <2>1, TheBaseFields DEF Told
  <2>3. output.decoded = decoded /\ errors \subseteq output.processingErrors
    BY <2>1 DEF Told, DecoderTold, ErrorsTold
  <2>4. PayloadRead(Cleaned)
    BY <2>2 DEF LossInv, PayloadRead
  <2>5. LossTold(ReadPayload(Cleaned), Cleaned.protocol, decoded, errors)
    BY <2>4, DecodingTells
  <2>6. ReadPayload(output) = ReadPayload(Cleaned)
    BY <2>2, Zenon DEF ReadPayload
  <2> DEFINE payload == ReadPayload(output)
             all == output.processingErrors
  <2>7. LossTold(payload, output.protocol, decoded, errors)
    BY <2>2, <2>5, <2>6, Zenon
  <2> HIDE DEF decoded, errors, payload, all
  <2>8. LimitError \in errors => LimitError \in all
    BY <2>3 DEF all
  <2>9. LossTold(payload, output.protocol, decoded, all)
    BY <2>7, <2>8, Zenon DEF LossTold
  <2> QED BY <2>3, <2>9, Zenon DEF payload, all
<1> QED BY LossStarts, LossStays, <1>1, PTL DEF Spec
===============================================================================
