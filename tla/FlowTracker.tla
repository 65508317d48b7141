------------------------------ MODULE FlowTracker ------------------------------
(***************************************************************************)
(* FlowTracker of src/ids/stages/flow.py: it groups packets into flows,    *)
(* expires the idle ones, keeps their number under a limit and hands over  *)
(* a record of every flow that leaves.                                     *)
(*                                                                         *)
(* The two OrderedDicts, one for each protocol, are one set of flows.  An  *)
(* entry's place in its table is `turn': the number of the call that       *)
(* inserted it or last moved it to the end, so the front of a table is the *)
(* flow with the smallest turn.  A call runs to its end or is left by an   *)
(* exception, which Enricher.process catches, at a point in FailPoints.    *)
(***************************************************************************)
EXTENDS Integers, FiniteSets, FiniteSetsExt, TcpState

CONSTANTS
  Views,        \* the packets update() can be called with
  MaxFlows,     \* max_flows
  Timeout,      \* Timeout[p] is the idle timeout of protocol p
  LatePackets,  \* whether a packet may be older than the newest one seen
  FailPoints,   \* where an exception may leave a call
  MaxCalls      \* bound of the model: the number of calls of update()

Protocols == {"TCP", "UDP"}
Methods == {"payload", "port+payload", "port", "none"}
Reasons == {"idle_timeout", "new_connection", "evicted", "end_of_input"}

\* One call of update() in the order of its steps: after which of them it can raise.
Points == {"clock", "expire", "reuse", "room", "count"}

\* Timestamps are naturals; the clock starts below all of them.
NoTime == -1

ASSUME LimitIsPositive == MaxFlows \in Nat \ {0}
ASSUME TimeoutsAreNumbers == Timeout \in [Protocols -> Nat]
ASSUME OptionsAreKnown == LatePackets \in BOOLEAN /\ FailPoints \subseteq Points
ASSUME BoundIsNumber == MaxCalls \in Nat
ASSUME ViewsAreKept ==
  \A v \in Views : /\ v.protocol \in Protocols
                   /\ v.ts \in Nat
                   /\ v.flags \subseteq Flags
                   /\ v.method \in Methods

VARIABLES
  flows,      \* the flows in the tables
  now,        \* the newest timestamp seen
  created,    \* the number of flows created
  pending,    \* records of flows that left the table and are not handed over
  delivered,  \* history: the records handed over
  received,   \* history: calls of update() that read their packet
  counted,    \* history: packets added to a flow of the table
  flushed     \* whether flush() has ended the run

vars == <<flows, now, created, pending, delivered, received, counted, flushed>>

-------------------------------------------------------------------------------
\* A flow of the tables (_Flow), without its byte and flag counts.
Endpoints == {v.src : v \in Views} \cup {v.dst : v \in Views}
Applications == {"UNKNOWN"} \cup {v.app : v \in Views}
Flow == [number : Nat, protocol : Protocols, a : Endpoints, b : Endpoints, start : Nat, last : Nat,
         forward : Nat, backward : Nat, state : States \cup {"NONE"}, fins : FinOrders,
         app : Applications, rank : 0..2, occurrence : Nat, turn : Nat]

-------------------------------------------------------------------------------
\* What a packet says.

ViewKey(v) == {v.src, v.dst}
FlowKey(f) == {f.a, f.b}

Direction(f, v) == IF v.src = f.a THEN "forward" ELSE "backward"

\* A SYN/ACK comes from the server.
Initiator(v) ==
  IF v.protocol = "TCP" /\ {"SYN", "ACK"} \subseteq v.flags THEN v.dst ELSE v.src

Rank(v) ==
  IF v.app = "UNKNOWN" \/ v.method = "none" THEN 0
  ELSE IF v.method = "port" THEN 1 ELSE 2

\* The digits of a flow id hash this tuple; distinct tuples have distinct ids.
FlowId(f) == <<f.protocol, f.a, f.b, f.start, f.occurrence>>

-------------------------------------------------------------------------------
\* The order of the tables.

Table(fs, p) == {f \in fs : f.protocol = p}
Front(fs) == {f \in fs : \A g \in Table(fs, f.protocol) : f.turn <= g.turn}

\* Slip: the order of creation decides.
CreatedBefore(f, g) == f.number <= g.number

Older(f, g) == f.last < g.last \/ (f.last = g.last /\ f.number <= g.number)

-------------------------------------------------------------------------------
\* The steps of update(v), each as what it takes out of or puts into the tables.

Clock(v) == IF v.ts > now THEN v.ts ELSE now

\* Slip: a gap of exactly the timeout ends the flow.
IdleAtTimeout(f, time) == time - f.last >= Timeout[f.protocol]

Idle(f, time) == time - f.last > Timeout[f.protocol]

\* Slip: only the table of the packet's own protocol is expired.
OverdueOwnTable(v) ==
  {f \in Table(flows, v.protocol) :
     \A g \in Table(flows, v.protocol) : g.turn <= f.turn => Idle(g, Clock(v))}

\* _expire stops at the first flow of a table that is not idle.
Overdue(v) ==
  {f \in flows : \A g \in Table(flows, f.protocol) : g.turn <= f.turn => Idle(g, Clock(v))}
Live(v) == flows \ Overdue(v)

Same(v) == {f \in Table(Live(v), v.protocol) : FlowKey(f) = ViewKey(v)}
Reused(v) == {f \in Same(v) : f.protocol = "TCP" /\ Restarts(f.state, v.flags)}
Known(v) == Same(v) \ Reused(v)

Kept(v) == Live(v) \ Reused(v)

\* Slips: the limit is tested with > instead of >=; before the idle flows leave.
NeedsRoomLate(v) == Known(v) = {} /\ Cardinality(Kept(v)) > MaxFlows
NeedsRoomBeforeExpiry(v) == Known(v) = {} /\ Cardinality(flows \ Reused(v)) >= MaxFlows

\* A flow is about to be created and the tables are full.
NeedsRoom(v) == Known(v) = {} /\ Cardinality(Kept(v)) >= MaxFlows

\* _make_room compares the fronts of the two tables.
Oldest(fs) == {f \in Front(fs) : \A g \in Front(fs) : Older(f, g)}
Evicted(v) == IF NeedsRoom(v) THEN Oldest(Kept(v)) ELSE {}

\* Slip: the evicted flow is exported and not deleted.
StayEvicted(v) == Kept(v)

Stay(v) == Kept(v) \ Evicted(v)

Occurrence(v) ==
  IF \E old \in Reused(v) : old.start = v.ts
    THEN (CHOOSE old \in Reused(v) : old.start = v.ts).occurrence + 1
    ELSE 0

Create(v) ==
  [number |-> created + 1, protocol |-> v.protocol,
   a |-> Initiator(v), b |-> IF Initiator(v) = v.src THEN v.dst ELSE v.src,
   start |-> v.ts, last |-> v.ts, forward |-> 0, backward |-> 0,
   state |-> "NONE", fins |-> <<>>, app |-> "UNKNOWN", rank |-> 0,
   occurrence |-> Occurrence(v), turn |-> received + 1]

\* _count on flow f.
Count(f, v) ==
  [f EXCEPT !.last = IF v.ts > @ THEN v.ts ELSE @,
            !.forward = IF Direction(f, v) = "forward" THEN @ + 1 ELSE @,
            !.backward = IF Direction(f, v) = "forward" THEN @ ELSE @ + 1,
            !.app = IF Rank(v) > f.rank THEN v.app ELSE @,
            !.rank = IF Rank(v) > f.rank THEN Rank(v) ELSE @]

\* The TCP state after the packet; `step' is where the table of TcpState sends the flow.
Move(f, step) ==
  IF f.protocol = "TCP" THEN [f EXCEPT !.state = step.state, !.fins = step.fins] ELSE f

Started(v) ==
  Move(Count(Create(v), v), FirstStep(v.flags, Direction(Create(v), v)))

\* Slip: the flow is never moved to the end of its table.
ContinuedInPlace(f, v) ==
  Move(Count(f, v), NextStep(f.state, v.flags, Direction(f, v), f.fins))

\* A late packet leaves its flow where it is in the table.
Continued(f, v) ==
  [Move(Count(f, v), NextStep(f.state, v.flags, Direction(f, v), f.fins))
     EXCEPT !.turn = IF v.ts >= now THEN received + 1 ELSE @]

Record(fs, reason) == {[flow |-> f, reason |-> reason] : f \in fs}
Released(v) ==
  Record(Overdue(v), "idle_timeout")
    \cup Record(Reused(v), "new_connection") \cup Record(Evicted(v), "evicted")

-------------------------------------------------------------------------------
Init ==
  /\ flows = {} /\ now = NoTime /\ created = 0
  /\ pending = {} /\ delivered = {}
  /\ received = 0 /\ counted = 0 /\ flushed = FALSE

Receive(v) ==
  /\ ~flushed
  /\ received < MaxCalls
  /\ LatePackets \/ v.ts >= now
  /\ received' = received + 1
  /\ now' = Clock(v)
  /\ UNCHANGED flushed

\* The packet continues a flow of the table.
UpdateKnown(v) ==
  /\ Known(v) # {}
  /\ Receive(v)
  /\ flows' = (Stay(v) \ Known(v)) \cup {Continued(f, v) : f \in Known(v)}
  /\ delivered' = delivered \cup pending \cup Released(v)
  /\ pending' = {}
  /\ counted' = counted + 1
  /\ UNCHANGED created

\* Slip: a call hands over its own records and not the ones that wait.
UpdateNewKeepsWaiting(v) ==
  /\ Known(v) = {}
  /\ Receive(v)
  /\ flows' = Stay(v) \cup {Started(v)}
  /\ created' = created + 1
  /\ delivered' = delivered \cup Released(v)
  /\ counted' = counted + 1
  /\ UNCHANGED pending

\* Slip: room is made after the new flow has entered the table, and the flow of a late packet is the oldest.
UpdateNewThenRoom(v) ==
  LET entered == Kept(v) \cup {Started(v)}
      evicted == IF Cardinality(entered) > MaxFlows THEN Oldest(entered) ELSE {}
  IN  /\ Known(v) = {}
      /\ Receive(v)
      /\ flows' = entered \ evicted
      /\ created' = created + 1
      /\ delivered' = delivered \cup pending \cup Record(Overdue(v), "idle_timeout")
                       \cup Record(Reused(v), "new_connection") \cup Record(evicted, "evicted")
      /\ pending' = {}
      /\ counted' = counted + 1

\* The packet starts a flow.
UpdateNew(v) ==
  /\ Known(v) = {}
  /\ Receive(v)
  /\ flows' = Stay(v) \cup {Started(v)}
  /\ created' = created + 1
  /\ delivered' = delivered \cup pending \cup Released(v)
  /\ pending' = {}
  /\ counted' = counted + 1

\* The flows that have left when a call raises after a step.
Gone(v, at) ==
  (IF at = "clock" THEN {} ELSE Overdue(v))
    \cup (IF at \in {"clock", "expire"} THEN {} ELSE Reused(v))
    \cup (IF at \in {"room", "count"} THEN Evicted(v) ELSE {})

\* Slip: _release deletes the flows before it keeps their records.
UpdateFailsForgetting(v, at) ==
  /\ at \in FailPoints
  /\ Receive(v)
  /\ flows' = flows \ Gone(v, at)
  /\ UNCHANGED <<created, counted, pending, delivered>>

\* update(v) raises after one of its steps.  The tables keep what the finished steps did, the records
\* they made wait in pending, and a flow that was being created is gone.
UpdateFails(v, at) ==
  LET hit == IF at = "count" THEN Known(v) ELSE {}
  IN  /\ at \in FailPoints
      /\ Receive(v)
      /\ flows' = (flows \ (Gone(v, at) \cup hit)) \cup {Count(f, v) : f \in hit}
      /\ created' = IF at = "count" /\ Known(v) = {} THEN created + 1 ELSE created
      /\ counted' = counted + Cardinality(hit)
      /\ pending' = pending \cup {r \in Released(v) : r.flow \in Gone(v, at)}
      /\ UNCHANGED delivered

\* flush() ends the run: it hands over what waits and every flow.
Flush ==
  /\ ~flushed
  /\ flows' = {}
  /\ delivered' = delivered \cup pending \cup Record(flows, "end_of_input")
  /\ pending' = {}
  /\ flushed' = TRUE
  /\ UNCHANGED <<now, created, received, counted>>

Update(v) == UpdateKnown(v) \/ UpdateNew(v) \/ \E at \in Points : UpdateFails(v, at)

Next == (\E v \in Views : Update(v)) \/ Flush

Spec == Init /\ [][Next]_vars
-------------------------------------------------------------------------------
Records == pending \cup delivered
NewRecords == (Records' \ Records)

\* Types of the state.
TypeOK ==
  /\ flows \subseteq Flow /\ IsFiniteSet(flows)
  /\ now \in Nat \cup {NoTime}
  /\ created \in Nat /\ received \in Nat /\ counted \in Nat /\ flushed \in BOOLEAN
  /\ Records \subseteq [flow : Flow, reason : Reasons]

\* What a reader of a flow or of its record relies on: it has a packet, its first packet is not after its
\* last one (no negative duration) and neither is after the clock, and it has a TCP state if it is TCP.
FlowsMakeSense ==
  \A f \in flows \cup {r.flow : r \in Records} :
    /\ f.forward + f.backward > 0
    /\ f.start <= f.last /\ f.last <= now
    /\ f.state = "NONE" <=> f.protocol = "UDP"

\* max_flows: the tables never hold more flows than the limit, also after a call that raised.
TableLimit == Cardinality(flows) <= MaxFlows

\* A flow is exported once, or is still in a table and not exported: whatever order expiry, reuse,
\* eviction, exceptions and the final flush come in, no two records and no record and a table entry
\* are of the same flow.
ExportedOnce ==
  /\ pending \cap delivered = {}
  /\ \A r, s \in Records : r.flow.number = s.flow.number => r = s
  /\ \A r \in Records, f \in flows : r.flow.number # f.number

\* The key of a table is the sorted pair of endpoints: the two directions of a conversation meet in one
\* flow, so the tables never hold two flows of a protocol between the same endpoints.
OneFlowPerKey ==
  \A f, g \in flows : f.protocol = g.protocol /\ FlowKey(f) = FlowKey(g) => f = g

Packets(f) == f.forward + f.backward

\* "They must not be lost" (enrich.py, process): every packet that was added to a flow of the tables is in
\* exactly one place, a flow that is still tabled or the record of one that left.
PacketsAccounted ==
  counted = MapThenSumSet(Packets, flows) + MapThenSumSet(LAMBDA r : Packets(r.flow), Records)

\* flow.py, update: "The old flow leaves before the limit check, so a reuse never evicts another flow."
ReuseNeverEvicts ==
  [][\A r, s \in NewRecords : r.reason = "new_connection" => s.reason # "evicted"]_vars

\* A flow ends by idle_timeout only when the clock has moved past its last packet by more than its own
\* protocol's timeout; a gap of exactly the timeout keeps the flow.
ExpirySound ==
  [][\A r \in NewRecords : r.reason = "idle_timeout" =>
        now' - r.flow.last > Timeout[r.flow.protocol]]_vars

\* A call evicts at most one flow, and only when the flows that the same call expired leave no room.
EvictionIsNeeded ==
  [][\A r \in NewRecords : r.reason = "evicted" =>
        /\ \A s \in NewRecords : s.reason = "evicted" => s = r
        /\ Cardinality({f \in flows : \A s \in NewRecords : s.flow # f}) = MaxFlows - 1]_vars

\* A flow never goes back in the life of a TCP connection; CLOSED and RESET are final, and only a new
\* flow on the same endpoints leaves them.
StateNeverReverts ==
  [][\A f \in flows : \A g \in flows' \cup {r.flow : r \in NewRecords} :
        f.number = g.number /\ f.protocol = "TCP" => g.state \in After(f.state)]_vars

\* The FINs a flow remembers agree with its state: none before the close starts, at least one while it
\* lasts, and both directions when it is over.
FinsMatchState ==
  \A f \in flows \cup {r.flow : r \in Records} :
    IF f.protocol = "TCP" THEN FinsFit(f.state, f.fins) ELSE f.fins = <<>>

\* flow.py, _rank: "A later packet never lowers it": the application of a flow changes only to one that
\* was detected on better evidence.
LabelOnlyImproves ==
  [][\A f \in flows, g \in flows' :
        f.number = g.number => g.rank > f.rank \/ <<g.rank, g.app>> = <<f.rank, f.app>>]_vars

\* flow.py, __init__: "Each table holds its flows in the order of their last packet."
TableOrdered ==
  \A f, g \in flows : f.protocol = g.protocol /\ f.turn < g.turn => f.last <= g.last

\* "Expiry reads only the front" and still misses nothing: no flow in the tables is past its timeout.
ExpiryComplete == \A f \in flows : now - f.last <= Timeout[f.protocol]

\* README, --max-flows: "When the table is full, the oldest flow leaves", the oldest of both tables.
EvictedIsOldest ==
  [][\A r \in NewRecords : r.reason = "evicted" => \A f \in flows' : r.flow.last <= f.last]_vars

\* flow.py, _create: "The same 5-tuple at the same start time would give the same id, so the new flow
\* counts up": two flows never have the same id.
FlowIdsUnique ==
  \A f, g \in flows \cup {r.flow : r \in Records} : FlowId(f) = FlowId(g) => f.number = g.number

\* context() for a packet between the endpoints of f: the flow of the tables that a rule gets to see.
Context(f) == {g \in Table(flows, f.protocol) : FlowKey(g) = FlowKey(f)}

\* enrich.py, flow_context: between a call of update that counts a packet and the next call, the table has the
\* flow of that packet under its key, with the packet counted: a rule never sees the state before the packet,
\* another flow, or none because the packet's own flow was expired, evicted or replaced in the same call.
ContextIsOwn ==
  [][counted' > counted =>
       \E f \in flows' :
         /\ Packets(f) = 1 + MapThenSumSet(Packets, {g \in flows : g.number = f.number})
         /\ Context(f)' = {f}]_vars

-------------------------------------------------------------------------------
Numbers(fs) == {f.number : f \in fs}
RecordNumbers(rs) == {r.flow.number : r \in rs}

Ledger == INSTANCE FlowLedger WITH
  open <- Numbers(flows), waiting <- RecordNumbers(pending), handed <- RecordNumbers(delivered),
  closed <- flushed

\* The tracker keeps the ledger of its flows: a call that returns hands over exactly the flows that left
\* since the last call that returned, a call that raises keeps them for the next one ("a failure here loses
\* no flow", flow.py, _release), and flush hands over the rest.
KeepsLedger == Ledger!Spec
===============================================================================
