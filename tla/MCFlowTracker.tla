---------------------------- MODULE MCFlowTracker ----------------------------
(* Small instances of FlowTracker for TLC. *)
EXTENDS FlowTracker

\* A packet that matters for its endpoints and time only.
Packet(p, from, to, ts, flags) ==
  [protocol |-> p, src |-> from, dst |-> to, ts |-> ts, flags |-> flags,
   app |-> "UNKNOWN", method |-> "none"]

MCTimeout == [TCP |-> 2, UDP |-> 1]
NoFailures == {}
BetweenSteps == Points \ {"clock", "count"}

\* Two TCP conversations and a UDP one, with the flags that start, continue, end and restart a flow.  The
\* times leave gaps of less than, exactly and more than each timeout.
TableTimes == {0, 1, 3}
TableViews ==
  {Packet("TCP", "A", "B", ts, fl) : ts \in TableTimes, fl \in {{"SYN"}, {"RST"}}}
  \cup {Packet("TCP", "B", "A", ts, {"ACK"}) : ts \in TableTimes}
  \cup {Packet("TCP", "A", "C", ts, {"SYN"}) : ts \in TableTimes}
  \cup {Packet("UDP", "A", "B", ts, {}) : ts \in TableTimes}

\* One TCP connection at one instant: every set of flags, both directions, three detections.
ConnectionViews ==
  {[protocol |-> "TCP", src |-> e[1], dst |-> e[2], ts |-> 0, flags |-> fl,
    app |-> "UNKNOWN", method |-> "none"] :
     e \in {<<"X", "Y">>, <<"Y", "X">>}, fl \in SUBSET Flags}

LabelViews ==
  {[protocol |-> "TCP", src |-> "X", dst |-> "Y", ts |-> 0, flags |-> {"ACK"},
    app |-> d[1], method |-> d[2]] :
     d \in {<<"HTTP", "port">>, <<"DNS", "payload">>, <<"HTTP", "port+payload">>}}

\* Four conversations whose packets never arrive late.
OrderedViews ==
  {Packet(c[1], c[2], c[3], ts, {"ACK"}) :
     c \in {<<"TCP", "A", "B">>, <<"TCP", "A", "C">>, <<"UDP", "A", "B">>, <<"UDP", "A", "C">>},
     ts \in TableTimes}

InOrderViews == ConnectionViews \cup LabelViews \cup OrderedViews

\* The connection X-Y and the four conversations are explored apart, never in one behaviour.
OneScenario ==
  LET lives == {("X" \in FlowKey(f)) : f \in flows \cup {r.flow : r \in Records}}
  IN  Cardinality(lives) <= 1
===============================================================================
