------------------------------- MODULE Pipeline -------------------------------
(***************************************************************************)
(* Pipeline of src/ids/pipeline.py with parse_ipv4 and parse_transport:    *)
(* one packet becomes one event, whichever of its stages raise.  Scapy has *)
(* dissected the packet; what a packet or an event does not hold is the    *)
(* empty set.  An error is the stage and the type of a ParseError.         *)
(***************************************************************************)
EXTENDS Application, Integers

PacketStages == {"envelope", "network", "transport", "detector", "application"}

Fault(stage, type) == [stage |-> stage, type |-> type]
Raised(stage) == Fault(stage, "exception")

\* A part of an event in the making: its fields so far, and the status that the last stage set.
NoTransport(status, errors) ==
  [transport |-> {}, payload |-> Empty, status |-> status, errors |-> errors]

-------------------------------------------------------------------------------
\* parse_ipv4.  A bad length keeps the addresses.
ParseIpv4(packet) ==
  LET faults(ip) == IF ip.headerLen < 20 \/ ip.totalLen < ip.headerLen
                      THEN {Fault("network", "malformed")} ELSE {}
  IN  [network |-> packet.ip, errors |-> UNION {faults(ip) : ip \in packet.ip}]

\* What the lengths of the headers leave for the payload; Ethernet padding lies behind it.
Declared(layer, ip) ==
  LET size == IF layer.protocol = "TCP" THEN ip.totalLen - ip.headerLen - layer.headerLen
              ELSE layer.length - 8
  IN  IF size < 0 THEN 0 ELSE size

\* Slip: the payload is what was captured.
ReadPadding(layer, ip, captured) ==
  LET declared == Declared(layer, ip)
      longer == layer.protocol = "TCP" /\ layer.headerLen > ip.totalLen - ip.headerLen
  IN  [transport |-> {layer}, payload |-> captured, status |-> "ok",
       errors |-> IF longer \/ declared > Len(captured.units) THEN {Fault("transport", "truncated")} ELSE {}]

\* _parse_tcp and _parse_udp.
ReadLayer(layer, ip, captured) ==
  LET declared == Declared(layer, ip)
      longer == layer.protocol = "TCP" /\ layer.headerLen > ip.totalLen - ip.headerLen
      cut == longer \/ declared > Len(captured.units)
  IN  [transport |-> {layer}, payload |-> CutTo(captured, declared),
       status |-> IF cut THEN "partial" ELSE "ok",
       errors |-> IF cut THEN {Fault("transport", "truncated")} ELSE {}]

\* parse_transport: Scapy gives a header that is cut in its fixed part as raw bytes, or without its
\* length, which is -1 here.
ParseTransport(packet, ip) ==
  LET tooShort(layer) == IF layer.protocol = "TCP" THEN layer.headerLen < 20 ELSE layer.length < 8
      fault(type) == NoTransport("malformed", {Fault("transport", type)})
  IN  CASE packet.layer = {} /\ ip.protocol \in {"TCP", "UDP"} -> fault("truncated")
        [] packet.layer = {} /\ ip.protocol \notin {"TCP", "UDP"} -> NoTransport("unsupported", {})
        [] OTHER -> LET layer == CHOOSE x \in packet.layer : TRUE
                    IN  IF layer.protocol = "TCP" /\ layer.headerLen = -1 THEN fault("truncated")
                        ELSE IF tooShort(layer) THEN fault("malformed")
                        ELSE ReadLayer(layer, ip, packet.captured)

-------------------------------------------------------------------------------
\* _build_event, stage by stage.  A stage in `failing` raises.

NetworkStage(packet, failing) ==
  IF "network" \in failing THEN [network |-> {}, errors |-> {Raised("network")}] ELSE ParseIpv4(packet)

TransportStage(packet, net, failing) ==
  IF net.errors # {} THEN NoTransport("malformed", net.errors)
  ELSE IF net.network = {} THEN NoTransport("unsupported", {})
  ELSE IF \E ip \in net.network : ip.fragOffset > 0
    THEN NoTransport("partial", {Fault("network", "fragment")})
  ELSE IF "transport" \in failing THEN NoTransport("malformed", {Raised("transport")})
  ELSE ParseTransport(packet, CHOOSE x \in net.network : TRUE)

MalformedEvent ==
  [time |-> 0, network |-> {}, transport |-> {}, payload |-> Empty, detection |-> Undetected,
   application |-> {}, status |-> "malformed", errors |-> {Raised("pipeline")}]

ParseApplication(d, payload, transport) ==
  LET t == CHOOSE x \in transport : TRUE
  IN  CASE d.protocol = "HTTP" -> ParseHttp(payload.units)
        [] d.protocol = "SMTP" -> ParseSmtp(payload.units)
        [] d.protocol = "DNS" -> ParseDns(payload.units, t.protocol)

IsPartial(application, protocol) == protocol # "DNS" /\ application.partial

\* The status after the parser of the application: a clean one keeps that of the transport.
ApplicationStatus(before, application, protocol) ==
  IF "malformed" \in application.errors THEN "malformed"
  ELSE IF application.errors # {} \/ IsPartial(application, protocol) THEN "partial" ELSE before

\* The event of a packet whose payload has been read as `application`.
Assembled(base, part, detection, application) ==
  [base EXCEPT !.transport = part.transport, !.payload = part.payload, !.detection = detection,
     !.application = application,
     !.status = IF application = {} THEN part.status
                ELSE ApplicationStatus(part.status, CHOOSE a \in application : TRUE, detection.protocol),
     !.errors = part.errors \cup UNION {{Fault("application", type) : type \in a.errors} : a \in application}]

\* A stage behind the transport has raised.
Marred(event, at) == [event EXCEPT !.status = "malformed", !.errors = @ \cup {Raised(at)}]

ApplicationStage(base, part, detection, failing) ==
  IF detection.method \notin {"payload", "port+payload"} THEN Assembled(base, part, detection, {})
  ELSE IF "application" \in failing THEN Marred(Assembled(base, part, detection, {}), "application")
  ELSE Assembled(base, part, detection, {ParseApplication(detection, part.payload, part.transport)})

DetectorStage(base, part, failing) ==
  IF "detector" \in failing THEN Marred(Assembled(base, part, Undetected, {}), "detector")
  ELSE ApplicationStage(base, part, Detect(part.transport, part.payload), failing)

BuildEvent(packet, failing) ==
  LET net == NetworkStage(packet, failing)
      base == [MalformedEvent EXCEPT !.time = packet.time, !.network = net.network]
  IN  DetectorStage(base, TransportStage(packet, net, failing), failing)

\* Pipeline.process: the event of a packet, or nothing when the policy drops it.
PipelineProcess(packet, failing, policy) ==
  LET event == IF "envelope" \in failing THEN MalformedEvent ELSE BuildEvent(packet, failing)
  IN  {e \in {event} : policy = "keep" \/ e.status # "unsupported"}
===============================================================================
