------------------------------- MODULE ItemPath -------------------------------
(***************************************************************************)
(* The way of an item from its source to the output record: a packet goes  *)
(* through the pipeline, a line of an events file through the reader, both *)
(* through the enricher and the writer, and an output record may come back *)
(* as the input of a later run (_to_record and the loop of src/ids/cli.py).*)
(***************************************************************************)
EXTENDS Pipeline, Enricher, EventReader, DnsReader

CONSTANTS
  Packets,       \* the packets that are tried
  Events,        \* Events[name]: the record that a token of an events file stands for
  Records,       \* other records of an events file
  Failures,      \* the sets of stages that raise on a packet
  PreviewBytes,  \* PAYLOAD_PREVIEW_BYTES of events.py
  KeepsPayload,  \* config.payload: whether payload_hex is written
  MaxRounds      \* bound of the model: how often an output comes back

ASSUME ReplayBound == MaxRounds \in Nat /\ PreviewBytes \in Nat

\* A record that is not an output of the program has the fields that the stages look for.
ASSUME RecordsHaveFields ==
  \A r \in Records \cup {Events[name] : name \in DOMAIN Events} : DOMAIN r = DOMAIN SourceOnly

\* A target and a payload are texts, whoever wrote the record.
ASSUME RecordsHoldTexts ==
  \A r \in Records \cup {Events[name] : name \in DOMAIN Events} :
    \A text \in (UNION {a.target : a \in r.application}) \cup r.hex \cup r.preview : AreTokens(text)

\* Scapy: a packet has at most one IPv4 header and one layer behind it, and their lengths are numbers.
ASSUME PacketsAreDissected ==
  \A p \in Packets :
    /\ Cardinality(p.ip) <= 1 /\ Cardinality(p.layer) <= 1 /\ IsFiniteSet(p.ip \cup p.layer)
    /\ \A ip \in p.ip : ip.fragOffset \in Nat /\ {ip.headerLen, ip.totalLen} \subseteq Int
    /\ \A t \in p.layer : {t.headerLen, t.length} \subseteq Int
    /\ DOMAIN p.captured = {"kind", "units"} /\ p.captured.units \in Seq(Range(p.captured.units))

\* The lines of an events file name the records that are given.
ASSUME FilesNameEvents == Names \subseteq DOMAIN Events

VARIABLES
  packet,   \* the packet, if the source is a capture
  failing,  \* the stages that raise on it
  event,    \* the event of the pipeline
  taken,    \* the items of the reader that the loop has taken
  rounds    \* history: how often an output came back

vars == <<readerVars, readerState, enricherVars, packet, failing, event, taken, rounds>>

\* The decoder reads the bytes of a payload as text.
Character(unit) ==
  IF unit >= 128 THEN "raw" ELSE IF unit < 32 /\ unit \notin {9, 10, 13} THEN "ctl" ELSE "a"
TextOf(payload) ==
  IF IsText(payload) THEN payload.units ELSE [i \in DOMAIN payload.units |-> Character(payload.units[i])]

\* Event.to_dict: the record of an event.
ToRecord(e) ==
  LET text == TextOf(e.payload)
  IN  NotEnriched([timestamp |-> Num(e.time), timestampIso |-> Null,
       network |-> {[src |-> Text(ip.src), dst |-> Text(ip.dst), fragOffset |-> Num(ip.fragOffset)] :
                      ip \in e.network},
       transport |-> {[protocol |-> Text(t.protocol), srcPort |-> Num(t.srcPort), dstPort |-> Num(t.dstPort)] :
                        t \in e.transport},
       status |-> e.status, errors |-> e.errors, protocol |-> e.detection.protocol,
       application |-> IF e.detection.protocol # "HTTP" THEN {}
                       ELSE {[target |-> a.target, bodyComplete |-> a.bodyComplete,
                              media |-> IF a.media \in {{}, {<<>>}} THEN "" ELSE (CHOOSE m \in a.media : TRUE)[1],
                              compressed |-> ~(a.encoding \subseteq {<<>>, <<"identity">>})] : a \in e.application},
       hex |-> IF KeepsPayload THEN {SubSeq(text, 1, AtMost(Len(text), PayloadLimit))} ELSE {},
       preview |-> {SubSeq(text, 1, AtMost(Len(text), PreviewBytes))},
       payloadLen |-> Num(Len(text))])

\* read_name reads the first name of a payload that looks like a DNS message.
NameToRead(p) ==
  LET part == TransportStage(p, ParseIpv4(p), {})
      s == part.payload.units
      data == IF \E t \in part.transport : t.protocol = "TCP" THEN SubSeq(s, 3, Len(s)) ELSE s
  IN  IF part.transport # {} /\ ~IsText(part.payload) /\ Len(s) > HeaderLen
        THEN <<data, HeaderLen>> ELSE <<<<>>, 0>>

ASSUME NamesAreMessages == {NameToRead(p) : p \in Packets} \cup {<<<<>>, 0>>} \subseteq Messages

Idle == {"idle", "ignored", "done", "dropped"}

Untouched == UNCHANGED <<readerState, packet, taken, rounds>>

\* Pipeline.process and to_dict, which fails on a value that is no JSON.
ProcessPacket(fails) ==
  /\ stage = "idle" /\ packet # {} /\ reader.outcome # "reading"
  /\ failing' = fails
  /\ event' = UNION {PipelineProcess(p, fails, policy) : p \in packet}
  /\ IF event' = {}
       THEN stage' = "ignored" /\ UNCHANGED <<policy, record, inputErrors, output, failed, refused>>
       ELSE IF "record" \in fails THEN Begin(SourceOnly, {Exception("input")})
       ELSE \E e \in event' : Begin(ToRecord(e), {})
  /\ Untouched /\ UNCHANGED readerVars

ReadItem ==
  /\ packet = {} /\ stage \in Idle /\ taken = Len(items)
  /\ ReadLine \/ Discard
  /\ UNCHANGED <<readerVars, enricherVars, packet, failing, event, taken, rounds>>

TakeItem ==
  /\ packet = {} /\ stage \in Idle /\ taken < Len(items)
  /\ LET next == items[taken + 1].record
     IN  IF next = {} THEN Begin(SourceOnly, {[stage |-> "input", type |-> "invalid_record"]})
         ELSE \E name \in next : Begin(Events[name], {})
  /\ taken' = taken + 1
  /\ UNCHANGED <<readerVars, readerState, packet, failing, event, rounds>>

\* An events file of one line, which holds any record.
TakeRecord(r) ==
  /\ packet = {} /\ file = <<>> /\ stage = "idle"
  /\ Begin(r, {})
  /\ Untouched /\ UNCHANGED <<readerVars, failing, event>>

\* A line of the output is a line of the events file of the next run.
Replay ==
  /\ stage = "done" /\ rounds < MaxRounds
  /\ Begin(output, {})
  /\ rounds' = rounds + 1
  /\ UNCHANGED <<readerVars, readerState, packet, failing, event, taken>>

Init ==
  /\ policy \in Policies
  /\ \/ \E p \in Packets : packet = {p} /\ FileInit(<<>>) /\ message = NameToRead(p)
     \/ packet = {} /\ (\E f \in Files : FileInit(f)) /\ message = <<<<>>, 0>>
  /\ reader = Start(message[1], message[2]) /\ turns = 0
  /\ record = SourceOnly /\ inputErrors = {} /\ output = SourceOnly
  /\ stage = "idle" /\ failed = {} /\ refused = 0
  /\ failing = {} /\ event = {} /\ taken = 0 /\ rounds = 0

Next ==
  \/ Read /\ Untouched /\ UNCHANGED <<enricherVars, failing, event>>
  \/ \E fails \in Failures : ProcessPacket(fails)
  \/ ReadItem \/ TakeItem \/ Replay
  \/ \E r \in Records : TakeRecord(r)
  \/ EnricherNext /\ Untouched /\ UNCHANGED <<readerVars, failing, event>>

Spec == Init /\ [][Next]_vars
-------------------------------------------------------------------------------
\* The detector never takes a payload for something that its parser does not find there.
DetectedIsParsed ==
  \A e \in event : e.application # {} =>
    ParsedAsDetected(e.detection, e.payload, (CHOOSE t \in e.transport : TRUE).protocol)

\* README, Stage contract and Status values: an unsupported event hides no error, an ok one has none, a
\* fault in one layer never removes a lower layer, no layer is read from a fragment, and the payload is not
\* longer than the headers declare, whatever Ethernet padding was captured.
EventIsHonest ==
  \A e \in event, p \in packet :
    /\ e.status = "unsupported" => e.errors = {} /\ e.transport = {}
    /\ e.status = "ok" => e.errors = {} /\ e.transport # {}
    /\ failing \cap {"envelope", "network"} = {} => e.network = p.ip
    /\ e.application # {} => e.transport # {}
    /\ \A t \in e.transport : \A ip \in e.network :
         ip.fragOffset = 0 /\ Len(e.payload.units) <= Declared(t, ip)

IsException(e) == e.type = "exception"

\* README: "an exception class name is a bug that must stay visible": --unknown drop removes only what
\* would be unusable without the exception, and a record that an exception changed and that is written
\* says so, also when the writer has refused it.
FailuresShow ==
  /\ stage = "ignored" => \A p \in packet : BuildEvent(p, {}).status = "unsupported"
  /\ stage = "dropped" => ~\E e \in output.processingErrors : IsException(e)
  /\ stage = "done" =>
       /\ failed # {} \/ refused > 0 => \E e \in output.processingErrors : IsException(e)
       /\ rounds = 0 /\ refused < 2 => \A p \in packet : event # PipelineProcess(p, {}, "keep") =>
            \E e \in output.errors \cup inputErrors : IsException(e)
===============================================================================
