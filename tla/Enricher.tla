------------------------------- MODULE Enricher -------------------------------
(***************************************************************************)
(* Enricher.process of src/ids/enrich.py on one record: the decoder, the   *)
(* preprocessor, the drop policy and the flow tracker, each of which may   *)
(* raise half-way, and then the writing of the record with its fallbacks   *)
(* (_write_record of src/ids/cli.py).  Of the tracker only its answer, the *)
(* id of the flow, is modelled here; FlowTracker is the rest.              *)
(***************************************************************************)
EXTENDS Decoder

CONSTANTS
  Policies,  \* the values of --unknown that are tried
  Flow       \* the id of the flow that the tracker puts the record in

VARIABLES
  policy,       \* --unknown, fixed for the run
  record,       \* the record that process was called with
  inputErrors,  \* the errors that its source gave with it
  output,       \* the output record
  stage,        \* what comes next
  failed,       \* history: the stages that raised
  refused       \* history: how often the writer refused the record

enricherVars == <<policy, record, inputErrors, output, stage, failed, refused>>

\* default_enrichment.
Defaults ==
  [decodeStatus |-> "not_applicable", decoded |-> {}, preprocessStatus |-> "invalid",
   action |-> "skip_flow", reason |-> "not processed", view |-> EmptyView, flow |-> {},
   processingErrors |-> {}]

\* A record with these fields of its event and nothing inferred from them.
NotEnriched(fields) ==
  [f \in DOMAIN fields \cup DOMAIN Defaults |-> IF f \in DOMAIN fields THEN fields[f] ELSE Defaults[f]]

\* A record that holds nothing but its source.
SourceOnly == NotEnriched(
  [timestamp |-> Null, timestampIso |-> Null, network |-> {}, transport |-> {}, status |-> "",
   errors |-> {}, protocol |-> "", application |-> {}, hex |-> {}, preview |-> {}, payloadLen |-> Null])

\* What no stage infers: the fields outside ENRICHMENT_FIELDS.
BaseFields == DOMAIN SourceOnly \ DOMAIN Defaults

StageFields ==
  [decoder |-> {"decodeStatus", "decoded"},
   preprocessor |-> {"preprocessStatus", "action", "reason", "view"},
   flow |-> {"flow"}]

TypedErrors == {"invalid_record", "limit"}
Exception(at) == [stage |-> at, type |-> "exception"]

\* The output with some of its fields set.
With(out, values) == [f \in DOMAIN out |-> IF f \in DOMAIN values THEN values[f] ELSE out[f]]
Only(values, fieldNames) == [f \in fieldNames |-> values[f]]

\* A record may be the output of an earlier run: its old enrichment goes first.
Fresh(r, errors) == [With(r, Defaults) EXCEPT !.processingErrors = errors]

\* What a stage may leave when it raises half-way.
Half == [decodeStatus |-> "ok",
         decoded |-> {Item("http.target", {<<"/", "half">>}, {}, FALSE)},
         preprocessStatus |-> "valid", action |-> "keep", reason |-> "half", view |-> EmptyView,
         flow |-> {Flow}]

\* Slip: what the stage wrote stays.
FailKeeping(out, at, wrote) ==
  [With(out, Only(Half, wrote)) EXCEPT !.processingErrors = @ \cup {Exception(at)}]

\* _fail: the error, and the defaults of the stage over whatever it wrote.
Fail(out, at, wrote) ==
  [With(With(out, Only(Half, wrote)), Only(Defaults, StageFields[at]))
     EXCEPT !.processingErrors = @ \cup {Exception(at)}]

Begin(r, errors) ==
  /\ record' = r /\ inputErrors' = errors
  /\ output' = Fresh(r, errors)
  /\ stage' = "decoder" /\ failed' = {} /\ refused' = 0
  /\ UNCHANGED policy

Process(at, next) == stage = at /\ stage' = next /\ UNCHANGED <<policy, record, inputErrors, refused>>

RunDecoder ==
  /\ Process("decoder", "preprocessor")
  /\ \E result \in {Decode(output)} :
       output' = [output EXCEPT !.decodeStatus = result.decodeStatus, !.decoded = result.decoded,
                                !.processingErrors = @ \cup result.errors]
  /\ UNCHANGED failed

DecoderFails ==
  /\ Process("decoder", "preprocessor")
  /\ \E wrote \in SUBSET StageFields.decoder : output' = Fail(output, "decoder", wrote)
  /\ failed' = failed \cup {"decoder"}

RunPreprocessor ==
  /\ Process("preprocessor", "policy")
  /\ output' = With(output, Preprocess(output))
  /\ UNCHANGED failed

PreprocessorFails ==
  /\ Process("preprocessor", "policy")
  /\ \E wrote \in SUBSET StageFields.preprocessor :
       output' = [Fail(output, "preprocessor", wrote) EXCEPT !.reason = "preprocessor failed"]
  /\ failed' = failed \cup {"preprocessor"}

\* Slip: an exception does not keep a record in the output.
IsUnusable(out) == out.status = "unsupported" \/ out.preprocessStatus = "invalid"

\* An exception is a bug, and a record that carries one is written.
IsDroppable(out) ==
  /\ out.status = "unsupported" \/ out.preprocessStatus = "invalid"
  /\ \A e \in out.processingErrors : e.type \in TypedErrors

Drop ==
  /\ policy = "drop" /\ IsDroppable(output)
  /\ Process("policy", "dropped")
  /\ UNCHANGED <<output, failed>>

Pass ==
  /\ policy = "keep" \/ ~IsDroppable(output)
  /\ Process("policy", IF output.action = "keep" THEN "flow" ELSE "write")
  /\ UNCHANGED <<output, failed>>

Track ==
  /\ Process("flow", "write")
  /\ output' = [output EXCEPT !.flow = {Flow}]
  /\ UNCHANGED failed

TrackerFails ==
  /\ Process("flow", "write")
  /\ \E wrote \in SUBSET StageFields.flow : output' = Fail(output, "flow", wrote)
  /\ failed' = failed \cup {"flow"}

\* fallback_record: the base fields with the defaults, then not even those.
Fallback(out, keepBase) ==
  [(IF keepBase THEN With(out, Defaults) ELSE SourceOnly)
     EXCEPT !.reason = "record could not be written", !.processingErrors = {Exception("output")}]

Write ==
  /\ stage = "write" /\ stage' = "done"
  /\ UNCHANGED <<policy, record, inputErrors, output, failed, refused>>

\* The writer refuses what is no JSON; the last fallback holds nothing that it could refuse.
Refuse ==
  /\ stage = "write" /\ refused < 2
  /\ refused' = refused + 1
  /\ output' = Fallback(output, refused = 0)
  /\ UNCHANGED <<policy, record, inputErrors, stage, failed>>

EnricherNext ==
  \/ RunDecoder \/ DecoderFails \/ RunPreprocessor \/ PreprocessorFails
  \/ Drop \/ Pass \/ Track \/ TrackerFails \/ Write \/ Refuse
-------------------------------------------------------------------------------
Whole(view) ==
  /\ view.protocol # {} /\ view.protocol \subseteq TrackedProtocols
  /\ view.timestamp # {} /\ view.timestamp \subseteq 0..MaxTimestamp
  /\ view.src # {} /\ view.dst # {}
  /\ view.srcPort # {} /\ view.srcPort \subseteq 0..MaxPort
  /\ view.dstPort # {} /\ view.dstPort \subseteq 0..MaxPort

\* The tracker reads a record only with everything that its keys and times are made of, in range, however
\* the stages fail: its table lookup and its clock have no checks of their own.
KeptIsTrackable ==
  (output.action = "keep" \/ output.flow # {}) => Whole(output.view) /\ ~IsNonFirstFragment(output)

Cleaned == Fresh(record, inputErrors)
Undone(at) == Only(output, StageFields[at]) = Only(Defaults, StageFields[at])

\* What the stages inferred: each that failed left its defaults, each other one what it gives on its own.
InferenceTold ==
  \E decoded \in {Decode(Cleaned)} :
    LET inferred == With(Cleaned, Only(output, StageFields.decoder))
    IN  /\ IF "decoder" \in failed THEN Undone("decoder")
           ELSE output.decodeStatus = decoded.decodeStatus /\ output.decoded = decoded.decoded
        /\ IF "preprocessor" \in failed
             THEN output.action = "skip_flow" /\ output.view = EmptyView /\ output.reason = "preprocessor failed"
             ELSE Only(output, StageFields.preprocessor) = Preprocess(inferred)
        /\ "flow" \in failed => output.flow = {}
        /\ output.processingErrors = inputErrors \cup {Exception(at) : at \in failed}
             \cup (IF "decoder" \in failed THEN {} ELSE decoded.errors)

\* Nothing that was inferred, and the refusal.
RefusalTold ==
  /\ \A f \in DOMAIN Defaults \ {"reason", "processingErrors"} : output[f] = Defaults[f]
  /\ output.reason = "record could not be written" /\ output.processingErrors = {Exception("output")}

\* README, Stage contract: a stage that fails, even half-way, costs its own fields and no other, nothing of
\* an earlier run of the record is left, and the failures are in processing_errors.  A refused write costs
\* what the stages inferred, and only a second one what the pipeline parsed.
FailureCostsOwnFields ==
  stage \in {"policy", "flow", "write", "done", "dropped"} =>
    /\ \A f \in BaseFields : output[f] = IF refused < 2 THEN record[f] ELSE SourceOnly[f]
    /\ IF refused = 0 THEN InferenceTold ELSE RefusalTold

IsBase64(s, n) ==   \* n characters and their padding
  s = [i \in 1..(4 * ((n + 3) \div 4)) |-> IF i <= n THEN "b" ELSE "="] /\ n % 4 # 1
Base64Texts(n) == {s \in UNION {{[i \in 1..m |-> IF i <= k THEN "b" ELSE "="] : k \in 0..m} : m \in 0..n} :
                     \E k \in 0..Len(s) : IsBase64(s, k)}

\* What cannot be read is told: an item without a problem lost nothing to a cut, a cut payload gives its
\* error, and a Base64 text is called faulty, or too nested to be read, exactly when no text that starts with it
\* (whole: no text equal to it) is well-formed.
DecodingTellsLoss ==
  stage = "preprocessor" /\ "decoder" \notin failed =>
    LET payload == ReadPayload(output)
        message == Frame(payload.data)
        whole == Places(payload.data, EndMarker) # {}
        body == Compact(Behind(message, CRLF \o CRLF))
        allowed == {s \in Base64Texts(Len(body) + 3) : IF whole THEN s = body ELSE IsPrefix(body, s)}
        faults == {"character", "length", "padding", "nested"}
    IN  /\ payload.cut /\ output.protocol # "DNS" =>
             /\ LimitError \in output.processingErrors
             /\ \A i \in output.decoded : i.status = "ok" => i.field = "http.target" \/ (i.field = "mime" /\ whole)
        /\ HeaderBlock(message) = <<"base64">> =>
             \A i \in {x \in output.decoded : x.field = "mime"} :
               (i.problems \cap faults = {}) = (allowed # {})

\* The path of RFC 3986 read from its end: a ".." takes back the next segment that is not taken back itself.
PathFromEnd(segments) ==
  LET kept == FoldRight(LAMBDA s, k : CASE s = DotDot -> [k EXCEPT !.skip = @ + 1]
                                        [] s = Dot -> k
                                        [] s \notin {Dot, DotDot} /\ k.skip > 0 -> [k EXCEPT !.skip = @ - 1]
                                        [] OTHER -> [k EXCEPT !.path = <<s>> \o @],
                        segments, [path |-> <<>>, skip |-> 0])
  IN  kept.path \o (IF Last(segments) \in {Dot, DotDot} THEN <<<<>>>> ELSE <<>>)

\* No segment that ".." takes back, and none of the dots themselves, is left in the path that rules and
\* readers see, whichever of the escapes hid them from the first look.
PathIsReference ==
  \A path \in output.view.path :
    /\ \A i \in DOMAIN path : path[i] \notin {Dot, DotDot}
    /\ \E a \in output.application : \E target \in TargetOf(output, a) :
         path = PathFromEnd(SegmentsOf(Before(target, <<"?">>)))
===============================================================================
