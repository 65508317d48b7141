----------------------------- MODULE Preprocessor -----------------------------
(***************************************************************************)
(* preprocess_record of src/ids/stages/preprocessor.py: it checks what a   *)
(* record holds, whoever wrote it, and builds the view that the tracker    *)
(* reads.  A JSON value is a record with the field of its type; an object  *)
(* that is missing or no object is the empty set, and so is what the       *)
(* normalized view leaves null.                                            *)
(***************************************************************************)
EXTENDS Integers, SequencesExt

CONSTANTS
  MaxTimestamp,  \* 4,102,444,800 in the code, the year 2100
  IsoSeconds,    \* external: the texts that fromisoformat reads, and their seconds
  Addresses,     \* external: the texts that ip_address reads, and their standard form
  PortTexts      \* external: the texts of one to five digits, and their numbers

ASSUME TextsAreRead ==
  /\ MaxTimestamp \in Nat
  /\ \A text \in DOMAIN IsoSeconds : IsoSeconds[text] \in Int
  /\ \A text \in DOMAIN PortTexts : PortTexts[text] \in Nat

MaxPort == 65535
TrackedProtocols == {"TCP", "UDP"}

Null == [null |-> TRUE]
Num(n) == [number |-> n]
Flag(b) == [flag |-> b]
Text(t) == [text |-> t]
IsNum(v) == DOMAIN v = {"number"}
IsTextValue(v) == DOMAIN v = {"text"}

-------------------------------------------------------------------------------
\* _timestamp: only a missing timestamp, not an unusable one, gives way to timestamp_iso.
TimestampOf(r) ==
  LET value == IF r.timestamp = Null THEN r.timestampIso ELSE r.timestamp
      seconds == IF IsNum(value) THEN {value.number}
                 ELSE IF IsTextValue(value) /\ value.text \in DOMAIN IsoSeconds
                   THEN {IsoSeconds[value.text]} ELSE {}
  IN  seconds \cap (0..MaxTimestamp)

\* _ip: ip_address also reads a zone, which no flow key can use.
HasZone(text) == text = "fe80::1%eth0"
AddressOf(v) ==
  IF IsTextValue(v) /\ v.text \in DOMAIN Addresses /\ ~HasZone(v.text) THEN {Addresses[v.text]} ELSE {}

\* Slip: the range is checked for texts only.
PortUnchecked(v) ==
  IF IsNum(v) THEN {v.number}
  ELSE IF IsTextValue(v) /\ v.text \in DOMAIN PortTexts
    THEN {n \in {PortTexts[v.text]} : n <= MaxPort} ELSE {}

\* _port: a number or a text of digits, in range.
PortOf(v) ==
  LET number == IF IsNum(v) THEN {v.number}
                ELSE IF IsTextValue(v) /\ v.text \in DOMAIN PortTexts THEN {PortTexts[v.text]} ELSE {}
  IN  number \cap (0..MaxPort)

ProtocolOf(transport) ==
  {t.protocol.text : t \in {x \in transport : IsTextValue(x.protocol) /\ x.protocol.text \in TrackedProtocols}}

\* Either sign of a fragment counts: the error of the pipeline, or the offset of a foreign record.
IsNonFirstFragment(r) ==
  \/ \E e \in r.errors : e.type = "fragment"
  \/ \E n \in r.network : IsNum(n.fragOffset) /\ n.fragOffset.number > 0

-------------------------------------------------------------------------------
\* The path.  A path is a sequence of segments, each a sequence of tokens.

Dot == <<".">>
DotDot == <<".", ".">>

\* Slip: ".." takes back the segment before it, also when that has been taken back.
RemovePairs(segments) ==
  LET goes(i) == segments[i] \in {Dot, DotDot}
                   \/ (i < Len(segments) /\ segments[i + 1] = DotDot)
      kept == [i \in DOMAIN segments |-> IF goes(i) THEN <<>> ELSE <<segments[i]>>]
      tail == IF segments[Len(segments)] \in {Dot, DotDot} THEN <<<<>>>> ELSE <<>>
  IN  FlattenSeq(kept) \o tail

RemoveDotSegments(segments) ==
  LET kept == FoldLeft(LAMBDA k, s : CASE s = DotDot -> SubSeq(k, 1, Len(k) - 1)
                                       [] s = Dot -> k
                                       [] OTHER -> Append(k, s), <<>>, segments)
  IN  IF segments[Len(segments)] \in {Dot, DotDot} THEN Append(kept, <<>>) ELSE kept

\* The decoded target of the record if there is one, else the one that the parser read.
TargetOf(r, application) ==
  LET decoded == {i \in r.decoded : i.field = "http.target" /\ i.value # {}}
  IN  IF decoded # {} THEN (CHOOSE i \in decoded : TRUE).value ELSE application.target

\* The tokens of s between the slashes, after the first one.
SegmentsOf(s) ==
  FoldLeft(LAMBDA parts, token : IF token = "/" THEN Append(parts, <<>>)
                                 ELSE [parts EXCEPT ![Len(parts)] = Append(@, token)],
           <<<<>>>>, Tail(s))

\* _path_and_query, only for a target that starts with a slash.
PathOf(target) ==
  LET end(s) == IF \E i \in DOMAIN s : s[i] = "?"
                  THEN (CHOOSE i \in DOMAIN s : s[i] = "?" /\ \A j \in 1..(i - 1) : s[j] # "?") - 1
                  ELSE Len(s)
  IN  {RemoveDotSegments(SegmentsOf(SubSeq(s, 1, end(s)))) :
         s \in {t \in target : t # <<>> /\ t[1] = "/"}}

-------------------------------------------------------------------------------
EmptyView ==
  [timestamp |-> {}, protocol |-> {}, src |-> {}, dst |-> {}, srcPort |-> {}, dstPort |-> {}, path |-> {}]

\* _fill_flow_fields and _fill_other_fields; the fields that only pass a value on are left out.
Normalized(r) ==
  [timestamp |-> TimestampOf(r),
   protocol |-> ProtocolOf(r.transport),
   src |-> UNION {AddressOf(n.src) : n \in r.network},
   dst |-> UNION {AddressOf(n.dst) : n \in r.network},
   srcPort |-> UNION {PortOf(t.srcPort) : t \in r.transport},
   dstPort |-> UNION {PortOf(t.dstPort) : t \in r.transport},
   path |-> IF r.protocol = "HTTP" THEN UNION {PathOf(TargetOf(r, a)) : a \in r.application} ELSE {}]

\* A cause that keeps the record out of the flow table.
HasProblem(r, view) ==
  \/ IsNonFirstFragment(r)
  \/ {} \in {view.protocol, view.src, view.dst, view.srcPort, view.dstPort}

Judged(status, action, view) ==
  [preprocessStatus |-> status, action |-> action, reason |-> status, view |-> view]

Preprocess(r) ==
  LET view == Normalized(r)
  IN  IF \E e \in r.processingErrors : e.type = "invalid_record" THEN Judged("invalid", "skip_flow", EmptyView)
      ELSE IF view.timestamp = {} THEN Judged("invalid", "skip_flow", view)
      ELSE IF HasProblem(r, view) THEN Judged("partial", "skip_flow", view)
      ELSE Judged(IF r.status \in {"", "ok"} THEN "valid" ELSE "partial", "keep", view)
===============================================================================
